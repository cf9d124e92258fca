----------------------------- MODULE EngineTests -----------------------------
(***************************************************************************)
(* The testbenches of the engine, sim/phase1 to phase6 and phase8, as      *)
(* sequences of instructions: what main() drives on the engine's pins,     *)
(* what it waits for, and what it checks.  EngineBench executes them.      *)
(***************************************************************************)
EXTENDS Instructions

-----------------------------------------------------------------------------
\* Instructions between two clock edges: drive pins, look at pins.

present(is_write, n, tag, wdata) ==
    <<[op |-> "present",
       m2s |-> [valid |-> TRUE, is_write |-> is_write, addr |-> at(n), tag |-> tag,
                wdata |-> wdata]]>>
s2m_ready_is(b) == <<[op |-> "s2m_ready", bit |-> b]>>
bypass_is(b) == <<[op |-> "bypass", bit |-> b]>>
bias_is(n, host_biased) == <<[op |-> "bias_is", addr |-> at(n), value |-> host_biased]>>

\* Instructions that take clock edges.  A loop fails after `limit` edges; one
\* without a guard has none.  `accept` ends with m2s_valid low; `take` is the
\* edge that consumes the answer the testbench has read.
Unguarded == -1
until_ready(limit) == <<[op |-> "until_ready", limit |-> limit]>>
until_ready_watching_bi(n, limit) ==
    <<[op |-> "until_ready_watching_bi", addr |-> at(n), limit |-> limit]>>
until_bi_req(limit) == <<[op |-> "until_bi_req", limit |-> limit]>>
until_valid(limit) == <<[op |-> "until_valid", limit |-> limit]>>
until_valid_tag(tag, limit) == <<[op |-> "until_valid_tag", tag |-> tag, limit |-> limit]>>
accept == <<[op |-> "accept"]>>
tick == <<[op |-> "tick"]>>
take == <<[op |-> "take"]>>
bias_write(n, host_biased) ==
    <<[op |-> "bias_write", addr |-> at(n), host_biased |-> host_biased]>>

\* A loop that raises s2m_ready and notes answers until it has `n`, or answers
\* under n different tags; and what is checked of the answers it noted.
drain(n, distinct, limit) ==
    s2m_ready_is(TRUE) \o <<[op |-> "drain", n |-> n, distinct |-> distinct, limit |-> limit]>>
answer_is(tag, field, value) ==
    <<[op |-> "answer_is", tag |-> tag, field |-> field, value |-> value]>>
got_data(tag, rdata) == answer_is(tag, "is_data", TRUE) \o answer_is(tag, "rdata", rdata)
got_ndr(tag) == answer_is(tag, "is_data", FALSE)
before(first, second) == <<[op |-> "before", first |-> first, second |-> second]>>

-----------------------------------------------------------------------------
\* What the testbenches share

fire(is_write, n, tag, wdata) == present(is_write, n, tag, wdata) \o until_ready(200) \o accept

is_ndr(tag) == expect("s2m_is_data", FALSE) \o expect("s2m_tag", tag)
is_drs(tag, rdata) ==
    expect("s2m_is_data", TRUE) \o expect("s2m_tag", tag) \o expect("s2m_rdata", rdata)

drain_one(checks) == until_valid(200) \o checks \o take

writes(n, tag, wdata) == fire(TRUE, n, tag, wdata) \o drain_one(is_ndr(tag))
reads(n, tag, rdata) == fire(FALSE, n, tag, zero) \o drain_one(is_drs(tag, rdata))

-----------------------------------------------------------------------------
\* sim/phase1: one request at a time

do_transaction(is_write, n, tag, wdata, checks) ==
    s2m_ready_is(TRUE)
    \o present(is_write, n, tag, wdata) \o until_ready(100) \o accept
    \o until_valid(100) \o checks \o take

phase1 ==
    LET addr == <<\h00, \h01, \hFF, \h10, \h20>>   \* the last is never written
        data == <<word(\hDEAD, \hBEEF), word(\h1234, \h5678), word(\hCAFE, \hF00D), zero, zero>>
        write(i) == do_transaction(TRUE, addr[i], i, data[i], is_ndr(i))
        read(i) == do_transaction(FALSE, addr[i], 4 + i, zero, is_drs(4 + i, data[i]))
    IN  s2m_ready_is(FALSE) \o unrolled(4, write) \o unrolled(5, read)

-----------------------------------------------------------------------------
\* sim/phase2: out-of-order completion, five requests at once, a tag reused

phase2_order ==
    fire(FALSE, \h09, 10, zero)
    \o fire(TRUE, \h40, 12, word(\hCAFE, \hBABE))
    \o drain(2, FALSE, 500)
    \o before(12, 10) \o got_data(10, zero) \o got_ndr(12)

\* A draft of this test had s2m_ready high here, and lost answers (lines 62-71).
ready_while_firing == s2m_ready_is(FALSE)

phase2_five ==
    ready_while_firing
    \o fire(FALSE, \h01, 1, zero)
    \o fire(TRUE, \h02, 2, word(\h1111, \h1111))
    \o fire(FALSE, \h05, 3, zero)
    \o fire(TRUE, \h03, 4, word(\h2222, \h2222))
    \o fire(FALSE, \h04, 5, zero)
    \o drain(5, TRUE, 500)
    \o got_data(1, zero) \o got_ndr(2) \o got_data(3, zero) \o got_ndr(4) \o got_data(5, zero)

phase2_reuse ==
    present(FALSE, \h06, 14, zero) \o until_ready(Unguarded) \o tick
    \o present(TRUE, \h07, 14, word(0, \hDEAD)) \o expect("m2s_ready", FALSE)
    \o until_valid_tag(14, 200) \o take
    \o until_ready(200) \o accept

phase2 == s2m_ready_is(FALSE) \o phase2_order \o phase2_five \o phase2_reuse

-----------------------------------------------------------------------------
\* sim/phase3: the bias table, and two colliding lines behind it

phase3_bias ==
    LET untouched == <<\h00, \h01, \h7F, \hFF>>
        device_biased(i) == bias_is(untouched[i], FALSE)
        addr == <<\h03, \h10, \h20, \hAA, \h50>>
        host_biased == <<TRUE, FALSE, TRUE, TRUE, FALSE>>
        set(i) == bias_write(addr[i], host_biased[i])
        is_set(i) == bias_is(addr[i], host_biased[i])
    IN  unrolled(4, device_biased) \o unrolled(5, set) \o unrolled(5, is_set)
        \o bias_is(\h77, FALSE)

phase3_regression ==
    LET a == word(\h1111, \h2222)
        b == word(\h3333, \h4444)
    IN  s2m_ready_is(FALSE)
        \o fire(TRUE, \h10, 1, a) \o fire(TRUE, \h50, 2, b)
        \o drain(2, FALSE, 200)
        \o s2m_ready_is(FALSE)
        \o fire(FALSE, \h10, 3, zero) \o fire(FALSE, \h50, 4, zero)
        \o drain(2, FALSE, 200)
        \o answer_is(3, "rdata", a) \o answer_is(4, "rdata", b)

phase3 == s2m_ready_is(FALSE) \o phase3_bias \o phase3_regression

-----------------------------------------------------------------------------
\* sim/phase4: the Back-Invalidate handshake.  EngineBench runs its HostBiModel.

phase4_handshake ==
    bias_write(\h10, TRUE) \o bias_is(\h10, TRUE)
    \o s2m_ready_is(TRUE)
    \o present(FALSE, \h10, 1, zero)
    \o until_ready_watching_bi(\h10, 200) \o accept
    \o bias_is(\h10, FALSE)
    \o until_valid(50) \o is_drs(1, zero) \o take

\* The probe of 0x40 changes the pins between two edges, and back.
phase4_global_stall ==
    bias_write(\h30, TRUE)
    \o present(FALSE, \h30, 2, zero) \o until_bi_req(50)
    \o present(FALSE, \h40, 3, zero) \o expect("m2s_ready", FALSE)
    \o present(FALSE, \h30, 2, zero) \o until_ready(100) \o accept
    \o until_valid(50) \o expect("s2m_tag", 2) \o take
    \o fire(FALSE, \h40, 4, zero)
    \o until_valid(50) \o expect("s2m_tag", 4) \o take

phase4_write ==
    LET data == word(\hFEED, \hFACE)
    IN  bias_write(\h60, TRUE)
        \o fire(TRUE, \h60, 5, data)
        \o until_valid(50) \o is_ndr(5) \o bias_is(\h60, FALSE) \o take
        \o fire(FALSE, \h60, 6, zero)
        \o until_valid(50) \o expect("s2m_rdata", data) \o take

phase4 == s2m_ready_is(FALSE) \o phase4_handshake \o phase4_global_stall \o phase4_write

-----------------------------------------------------------------------------
\* sim/phase5 and phase6: hits, misses, evictions, thrashing

phase5 ==
    LET A == \h05
        B == \h15
        a == word(\hAAAA, \h0001)
        b == word(\hBBBB, \h0002)
    IN  s2m_ready_is(TRUE)
        \o save("dbg_cache_misses") \o writes(A, 1, a) \o delta("dbg_cache_misses", 1)
        \o save("dbg_cache_hits") \o reads(A, 2, a) \o delta("dbg_cache_hits", 1)
        \o writes(B, 3, b)
        \o save("dbg_cache_misses") \o reads(A, 4, a) \o delta("dbg_cache_misses", 1)
        \o reads(B, 5, b)

phase6 ==
    LET addr(i) == \h07 + 16 * (i - 1)
        value(i) == word(\h1111 * i, \h1111 * i)
        thrash(i) == word(\hA000, i - 1)
        write(i) == writes(addr(i), 1, value(i))
        reverse_read(i) == reads(addr(5 - i), 1, value(5 - i))
        thrash_write(i) ==
            fire(TRUE, addr(i), 1, thrash(i)) \o drain_one(expect("s2m_is_data", FALSE))
        thrash_read(i) == fire(FALSE, addr(i), 1, zero)
            \o drain_one(expect("s2m_is_data", TRUE) \o expect("s2m_rdata", thrash(i)))
    IN  s2m_ready_is(TRUE)
        \o unrolled(4, write) \o unrolled(4, reverse_read)
        \o unrolled(4, thrash_write) \o unrolled(4, thrash_read)
        \o save("dbg_cache_misses")
        \o fire(TRUE, \h08, 1, word(\hDEAD, \hBEEF)) \o drain_one(<<>>)
        \o delta("dbg_cache_misses", 1)
        \o fire(FALSE, addr(4), 1, zero) \o drain_one(expect("s2m_rdata", thrash(4)))

-----------------------------------------------------------------------------
\* sim/phase8: the bypass.  The bypassed read must take two cycles or more.

phase8 ==
    LET X == \h22
        old == word(\h1111, \h1111)
        new == word(\h2222, \h2222)
        reads_X(tag, rdata) == fire(FALSE, X, tag, zero) \o drain_one(expect("s2m_rdata", rdata))
        pays_latency == expect("s2m_valid", FALSE) \o tick \o expect("s2m_valid", FALSE)
    IN  s2m_ready_is(TRUE) \o bypass_is(FALSE)
        \o fire(TRUE, X, 1, old) \o drain_one(<<>>)
        \o save("dbg_cache_hits")
        \o reads_X(2, old) \o delta("dbg_cache_hits", 1)
        \o bypass_is(TRUE)
        \o save("dbg_cache_misses")
        \o writes(X, 3, new)
        \o delta("dbg_cache_misses", 1) \o delta("dbg_cache_hits", 1)
        \o save("dbg_cache_misses")
        \o fire(FALSE, X, 4, zero) \o pays_latency \o drain_one(expect("s2m_rdata", new))
        \o delta("dbg_cache_misses", 1)
        \o bypass_is(FALSE)
        \o save("dbg_cache_hits")
        \o reads_X(5, old) \o delta("dbg_cache_hits", 1)

\* The testbenches by name.
tests == [phase1 |-> phase1, phase2 |-> phase2, phase3 |-> phase3, phase4 |-> phase4,
          phase5 |-> phase5, phase6 |-> phase6, phase8 |-> phase8]

=============================================================================
