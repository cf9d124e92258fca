--------------------------- MODULE DriverPrograms ---------------------------
(***************************************************************************)
(* The programs of sw/hps_driver, as what they do to the registers of the  *)
(* shim.  A program is a sequence of instructions: a store to a register,  *)
(* a poll of a status bit, a read that is checked, saved or compared with  *)
(* the value saved, an iteration of a drain loop, or a call of the         *)
(* operating system (open /dev/mem, arm or disarm the watchdog).  Loops    *)
(* with a constant trip count are unrolled.  HpsDriver executes them.      *)
(* A check that uses a word read earlier stands where the word is read,    *)
(* and the two bits of STATUS are VALID and IS_DATA, the low bit of        *)
(* BI_STATUS is BI_PENDING.                                                *)
(***************************************************************************)
EXTENDS Instructions

CONSTANT N_ITERS   \* phase 8's accesses per loop (2000 in the source)

-----------------------------------------------------------------------------
\* Instructions

store(w) == <<[op |-> "store", w |-> w]>>
\* `timeout` is what the program does at the loop's time limit: "exit",
\* "disarm and exit", or "never" if the loop has none.
poll(bit, timeout) == <<[op |-> "poll", bit |-> bit, timeout |-> timeout]>>
look(reg) == <<[op |-> "look", reg |-> reg]>>   \* only printed, or not used
open_mem == <<[op |-> "open"]>>
arm(required) == <<[op |-> "arm", required |-> required]>>
faulty_watchdog_arm == <<>>
watchdog_arm == arm(FALSE)   \* "continuing UNPROTECTED" if it cannot
watchdog_disarm == <<[op |-> "disarm"]>>

\* A loop that takes answers until those for `tags` have come; `counts_others`
\* is whether the answer to any other request is an error.
drain_loop(tags, counts_others, timeout) ==
    poll("VALID", timeout)
    \o <<[op |-> "take", tags |-> tags, counts_others |-> counts_others]>>
    \o store([reg |-> "RESP_ACK"])
    \o <<[op |-> "again", tags |-> tags, timeout |-> timeout, back |-> 3]>>

REQ_ADDR(n) == store([reg |-> "REQ_ADDR", addr |-> at(n)])
REQ_WDATA(w) == store([reg |-> "REQ_WDATA", wdata |-> w])
REQ_FIRE(tag, is_write) == store([reg |-> "REQ_FIRE", is_write |-> is_write, tag |-> tag])
RESP_ACK == store([reg |-> "RESP_ACK"])
BI_REQ_ACK == store([reg |-> "BI_REQ_ACK"])
BI_RSP_SEND == store([reg |-> "BI_RSP_SEND"])
BIAS_ADDR(n) == store([reg |-> "BIAS_ADDR", addr |-> at(n)])
BIAS_SET(b) == store([reg |-> "BIAS_SET", bit0 |-> b])
CACHE_BYPASS(b) == store([reg |-> "CACHE_BYPASS", bit0 |-> b])

fire(is_write, n, tag, wdata) ==
    REQ_ADDR(n) \o REQ_WDATA(wdata) \o REQ_FIRE(tag, is_write)

-----------------------------------------------------------------------------
\* host_driver.c and host_driver_linux.c: one write, one read-back.  The first
\* polls for ever and only prints what it reads; the second gives up after a
\* million polls and counts errors.

ABCD1234 == word(\hABCD, \h1234)

host_driver ==
    REQ_ADDR(\h05) \o REQ_WDATA(ABCD1234) \o REQ_FIRE(3, TRUE)
    \o poll("VALID", "never") \o look("RESP_TAG") \o RESP_ACK
    \o REQ_ADDR(\h05) \o REQ_FIRE(7, FALSE)
    \o poll("VALID", "never") \o expect("RESP_RDATA", ABCD1234) \o look("RESP_TAG")
    \o RESP_ACK

host_driver_linux ==
    open_mem
    \o REQ_ADDR(\h05) \o REQ_WDATA(ABCD1234) \o REQ_FIRE(3, TRUE)
    \o poll("VALID", "exit") \o expect("IS_DATA", FALSE) \o expect("RESP_TAG", 3)
    \o RESP_ACK
    \o REQ_ADDR(\h05) \o REQ_FIRE(7, FALSE)
    \o poll("VALID", "exit") \o expect("IS_DATA", TRUE) \o expect("RESP_TAG", 7)
    \o expect("RESP_RDATA", ABCD1234)
    \o RESP_ACK

\* host_driver_linux_extended_test.c: three writes, then reads of them and of a
\* line never written.  It does not look whether /dev/mem could be opened, and
\* faults at its first access if not.
extended_test ==
    LET addr == <<\h11, \h22, \h7F, \h33>>
        write_tag == <<1, 2, 9>>
        data == <<word(\hDEAD, \hBEEF), zero, word(\h1122, \h3344), zero>>
        write(i) ==
            fire(TRUE, addr[i], write_tag[i], data[i]) \o poll("VALID", "exit")
            \o expect("RESP_TAG", write_tag[i]) \o RESP_ACK
        read(i) ==
            REQ_ADDR(addr[i]) \o REQ_FIRE(10 + i, FALSE) \o poll("VALID", "exit")
            \o expect("RESP_TAG", 10 + i) \o expect("RESP_RDATA", data[i])
            \o expect("IS_DATA", TRUE) \o RESP_ACK
    IN  open_mem \o unrolled(3, write) \o unrolled(4, read)

-----------------------------------------------------------------------------
\* host_driver_linux_phase234h.c.  Its time limit exits with the watchdog armed.

bias_write(n, host_biased) == BIAS_ADDR(n) \o BIAS_SET(host_biased)
bias_read(n, expected) == BIAS_ADDR(n) \o expect("BIAS_GET", expected)

test_phase2h ==
    fire(FALSE, \h09, 10, zero)
    \o look("VALID")
    \o fire(TRUE, \h40, 12, word(\hCAFE, \hBABE))
    \o drain_loop({10, 12}, FALSE, "exit")

test_phase3h ==
    bias_write(\h03, TRUE) \o bias_write(\h50, FALSE)
    \o bias_read(\h03, TRUE) \o bias_read(\h50, FALSE)

test_phase4h ==
    bias_write(\h25, TRUE)
    \o fire(FALSE, \h25, 9, zero)
    \o poll("BI_PENDING", "exit")
    \o expect("BI_REQ_ADDR", at(\h25))
    \o BI_REQ_ACK \o BI_RSP_SEND
    \o bias_read(\h25, FALSE)
    \o poll("VALID", "exit") \o look("VALID") \o expect("RESP_TAG", 9) \o expect("IS_DATA", TRUE)
    \o RESP_ACK

phase234h(run_4h) ==
    open_mem \o watchdog_arm
    \o test_phase2h
    \o test_phase3h
    \o (IF run_4h THEN test_phase4h ELSE <<>>)
    \o watchdog_disarm

-----------------------------------------------------------------------------
\* host_driver_linux_phase56h.c.  `wants` is what the caller expects of the
\* data: a word, or nothing.

\* (faulty_...: wrong on purpose, see ProtocolEngine.)
faulty_do_req_no_ack(is_write, n, wdata, wants) ==
    fire(is_write, n, 1, wdata) \o poll("VALID", "disarm and exit")

do_req(is_write, n, wdata, wants) ==
    fire(is_write, n, 1, wdata)
    \o poll("VALID", "disarm and exit")
    \o FlattenSeq([i \in 1 .. Len(wants) |-> expect("RESP_RDATA", wants[i])])
    \o RESP_ACK

writes_word(n, wdata) == do_req(TRUE, n, wdata, <<>>)
reads_word(n, expected) == do_req(FALSE, n, zero, <<expected>>)

expect_counters(request, want_hit_delta, want_miss_delta) ==
    save("CACHE_HITS") \o save("CACHE_MISS")
    \o request
    \o delta("CACHE_HITS", want_hit_delta) \o delta("CACHE_MISS", want_miss_delta)

test_phase5h ==
    LET a == word(\hAAAA, \h0001)
        b == word(\hBBBB, \h0002)
    IN  expect_counters(writes_word(\h05, a), 0, 1)
        \o expect_counters(reads_word(\h05, a), 1, 0)
        \o expect_counters(writes_word(\h15, b), 0, 1)
        \o expect_counters(reads_word(\h05, a), 0, 1)
        \o reads_word(\h15, b)

\* The four colliding lines of the thrash, and the read-back in reverse order.
test_phase6h ==
    LET addr(i) == \h07 + 16 * (i - 1)
        data(i) == word(\h1111 * i, \h1111 * i)
        write(i) == writes_word(addr(i), data(i))
        read_back(i) == reads_word(addr(5 - i), data(5 - i))
    IN  unrolled(4, write)
        \o unrolled(4, read_back)
        \o writes_word(\h08, word(\hDEAD, \hBEEF))
        \o reads_word(addr(4), data(4))

phase56h ==
    open_mem \o watchdog_arm
    \o look("CACHE_HITS") \o look("CACHE_MISS")
    \o test_phase5h
    \o test_phase6h
    \o look("CACHE_HITS") \o look("CACHE_MISS")
    \o watchdog_disarm

-----------------------------------------------------------------------------
\* host_driver_linux_phase7.c

NUM_TAGS == 16
WORKING_SET == 24

wait_valid == poll("VALID", "disarm and exit") \o look("VALID")

faulty_test_max_outstanding ==
    LET fire_tag(t) == fire(TRUE, \h60 + 8 * (t - 1), t - 1, word(0, \h9000 + t - 1))
    IN  unrolled(NUM_TAGS, fire_tag)
        \o drain_loop(0 .. NUM_TAGS - 1, TRUE, "disarm and exit")

test_max_outstanding ==
    LET fire_tag(t) == fire(TRUE, \h60 + t - 1, t - 1, word(0, \h9000 + t - 1))
    IN  unrolled(NUM_TAGS, fire_tag)
        \o drain_loop(0 .. NUM_TAGS - 1, TRUE, "disarm and exit")

test_working_set_exceeds_cache ==
    LET addr(i) == \h80 + i - 1
        data(i) == word(\hC000, i - 1)
        write(i) == fire(TRUE, addr(i), 1, data(i)) \o wait_valid \o RESP_ACK
        read_back(i) == fire(FALSE, addr(i), 1, zero) \o wait_valid
                        \o expect("RESP_RDATA", data(i)) \o RESP_ACK
    IN  look("CACHE_HITS") \o look("CACHE_MISS")
        \o unrolled(WORKING_SET, write)
        \o unrolled(WORKING_SET, read_back)
        \o look("CACHE_HITS") \o look("CACHE_MISS")

test_bi_then_cache_allocate ==
    BIAS_ADDR(\hE0) \o BIAS_SET(TRUE)
    \o save("CACHE_HITS") \o save("CACHE_MISS")
    \o fire(FALSE, \hE0, 1, zero)
    \o poll("BI_PENDING", "disarm and exit") \o BI_REQ_ACK \o BI_RSP_SEND
    \o wait_valid \o RESP_ACK
    \o delta("CACHE_HITS", 0) \o delta("CACHE_MISS", 1)
    \o fire(TRUE, \hE0, 1, ABCD1234) \o wait_valid \o RESP_ACK
    \o delta("CACHE_HITS", 1)
    \o fire(FALSE, \hE0, 1, zero) \o wait_valid
    \o expect("RESP_RDATA", ABCD1234) \o RESP_ACK
    \o delta("CACHE_HITS", 1)

phase7 ==
    open_mem \o watchdog_arm
    \o test_max_outstanding
    \o test_working_set_exceeds_cache
    \o test_bi_then_cache_allocate
    \o watchdog_disarm

-----------------------------------------------------------------------------
\* host_driver_linux_phase8.c.  Its polls have no time limit.

timed_access(n, tag) ==
    fire(FALSE, n, tag, zero)
    \o poll("VALID", "never") \o look("RESP_RDATA") \o RESP_ACK

phase8 ==
    LET X == \h40
        hit_sample(i) == timed_access(X, 2)
        miss_sample(i) == timed_access(X, 3)
    IN  open_mem \o watchdog_arm
        \o CACHE_BYPASS(FALSE)
        \o fire(TRUE, X, 1, word(\hCAFE, \hD00D)) \o poll("VALID", "never") \o RESP_ACK
        \o look("CACHE_HITS") \o look("CACHE_MISS")
        \o unrolled(N_ITERS, hit_sample)
        \o look("CACHE_HITS") \o look("CACHE_MISS")
        \o CACHE_BYPASS(TRUE)
        \o look("CACHE_MISS")
        \o unrolled(N_ITERS, miss_sample)
        \o look("CACHE_MISS")
        \o CACHE_BYPASS(FALSE)
        \o watchdog_disarm

-----------------------------------------------------------------------------
\* diag_bias_readonly.c and safe_probe.c: no request is ever fired.

diag_bias_readonly ==
    LET addrs == <<\h00, \h09, \h40, \h7F, \hAA, \hFF>>
        check(i) == bias_read(addrs[i], FALSE)
    IN  open_mem \o unrolled(Len(addrs), check) \o look("BI_PENDING") \o look("VALID")

safe_probe == arm(TRUE) \o open_mem \o look("VALID") \o watchdog_disarm

-----------------------------------------------------------------------------
\* The programs by name.
drivers == [
    host_driver |-> host_driver,
    host_driver_linux |-> host_driver_linux,
    extended_test |-> extended_test,
    phase234h |-> phase234h(TRUE),
    phase23h |-> phase234h(FALSE),
    phase56h |-> phase56h,
    phase7 |-> phase7,
    phase8 |-> phase8,
    diag_bias_readonly |-> diag_bias_readonly,
    safe_probe |-> safe_probe]

=============================================================================
