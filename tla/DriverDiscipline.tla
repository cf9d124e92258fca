--------------------------- MODULE DriverDiscipline ---------------------------
(***************************************************************************)
(* What the text of a driver promises: that it has one request outstanding *)
(* at a time ("one outstanding request at a time -- so a single fixed tag  *)
(* is safe", host_driver_linux_phase56h.c, lines 75-77), and that it does  *)
(* not leave the watchdog armed.  These are predicates of the program      *)
(* text, and the invariants below say what they mean for the shim and the  *)
(* engine while the program runs.                                          *)
(***************************************************************************)
EXTENDS HpsDriver

fires(i) == i.op = "store" /\ i.w.reg = "REQ_FIRE"
acks(i) == i.op = "store" /\ i.w.reg = "RESP_ACK"
awaits(i) == i.op = "poll" /\ i.bit = "VALID"

\* Before its instruction n, program p has fired a request that it has not
\* acknowledged.
outstanding(p, n) ==
    \E j \in 1 .. n - 1 : fires(p[j]) /\ \A k \in j + 1 .. n - 1 : ~acks(p[k])

\* It has waited for an answer since it fired or acknowledged one.
answered(p, n) ==
    \E j \in 1 .. n - 1 :
        awaits(p[j]) /\ \A k \in j + 1 .. n - 1 : ~acks(p[k]) /\ ~fires(p[k])

\* Straight-line text with one request at a time, whose registers it leaves
\* alone and whose answer it waits for before it acknowledges it.
request_registers == {"REQ_ADDR", "REQ_WDATA", "REQ_FIRE", "CACHE_BYPASS"}
Sequential(p) ==
    /\ \A n \in 1 .. Len(p) :
          /\ p[n].op # "again"
          /\ p[n].op \in {"open", "arm"} => ~outstanding(p, n)
          /\ p[n].op = "store" /\ p[n].w.reg \in request_registers => ~outstanding(p, n)
          /\ acks(p[n]) => answered(p, n)
    /\ ~outstanding(p, Len(p) + 1)

SequentialPrograms == {q \in DOMAIN programs : Sequential(programs[q])}

\* The programs that leave the cache on.
LeavesCacheOn(p) == \A n \in 1 .. Len(p) : p[n].op = "store" => p[n].w.reg # "CACHE_BYPASS"
CachedPrograms == {q \in DOMAIN programs : LeavesCacheOn(programs[q])}

\* Before instruction n the watchdog may be armed, and where it may be, nothing
\* leaves the program but an exit that disarms it.
armed_at(p, n) ==
    \E j \in 1 .. n - 1 : p[j].op = "arm" /\ \A k \in j + 1 .. n - 1 : p[k].op # "disarm"

DisarmsOnLeaving(p) ==
    /\ \A n \in 1 .. Len(p) :
          /\ armed_at(p, n) =>
                /\ p[n].op # "open"
                /\ p[n].op = "arm" => ~p[n].required
                /\ p[n].op \in {"poll", "again"} => p[n].timeout \in {"never", "disarm and exit"}
          /\ p[n].op = "again" => (armed_at(p, n - p[n].back) <=> armed_at(p, n))
    /\ ~armed_at(p, Len(p) + 1)

DisarmingPrograms == {q \in DOMAIN programs : DisarmsOnLeaving(programs[q])}

-----------------------------------------------------------------------------
\* Before instruction n, the last store to its register is w.
stores(i, reg) == i.op = "store" /\ i.w.reg = reg
last_is(p, n, w) ==
    \E j \in 1 .. n - 1 :
        p[j].op = "store" /\ p[j].w = w /\ \A k \in j + 1 .. n - 1 : ~stores(p[k], w.reg)
addr_is(p, n, a) == last_is(p, n, [reg |-> "REQ_ADDR", addr |-> a])
wdata_is(p, n, d) == last_is(p, n, [reg |-> "REQ_WDATA", wdata |-> d])

\* Instruction n fires a write to a; and d is what p has fired last for a.
fires_write(p, n, a) == fires(p[n]) /\ p[n].w.is_write /\ addr_is(p, n, a)
leaves_word(p, n, a, d) ==
    \E f \in 1 .. n - 1 :
        /\ fires_write(p, f, a) /\ wdata_is(p, f, d)
        /\ \A k \in f + 1 .. n - 1 : ~fires_write(p, k, a)

\* The addresses no program of S writes.
untouched(S) ==
    {a \in Host!Addr :
        \A q \in S : \A n \in 1 .. Len(programs[q]) : ~fires_write(programs[q], n, a)}

\* What p, run among the programs of S, expects of an answer is what it fired:
\* its tag and kind, and of a read the word that p has written to the address,
\* or zero if nobody writes there.
answer_registers == {"RESP_TAG", "IS_DATA", "RESP_RDATA"}
checks_answer(i) == i.op = "expect" /\ i.reg \in answer_registers
ExpectsItsAnswer(p, n, S) ==
    /\ answered(p, n)
    /\ \E w \in BusWrites :
          /\ w.reg = "REQ_FIRE" /\ last_is(p, n, w)
          /\ p[n].reg = "RESP_TAG" => p[n].value = w.tag
          /\ p[n].reg = "IS_DATA" => p[n].value = ~w.is_write
          /\ p[n].reg = "RESP_RDATA" =>
                /\ ~w.is_write
                /\ \E a \in Host!Addr :
                      /\ addr_is(p, n, a)
                      /\ \/ leaves_word(p, n, a, p[n].value)
                         \/ a \in untouched(S) /\ p[n].value = ZeroData
ChecksItsAnswers(p, S) ==
    \A n \in 1 .. Len(p) :
        /\ fires(p[n]) => \E a \in Host!Addr : addr_is(p, n, a)
        /\ checks_answer(p[n]) => ExpectsItsAnswer(p, n, S)

\* The programs of S keep to one request at a time, with the cache on, and
\* expect their own answers; and they check nothing else.
ChecksData(S) ==
    \A q \in S : /\ Sequential(programs[q]) /\ LeavesCacheOn(programs[q])
                 /\ ChecksItsAnswers(programs[q], S)
ChecksOnlyData(S) ==
    \A q \in S : \A n \in 1 .. Len(programs[q]) :
        /\ programs[q][n].op \notin {"delta", "take"}
        /\ programs[q][n].op = "expect" => checks_answer(programs[q][n])

\* Instruction n accesses a with the cache on; and since p did so, it has accessed
\* nothing else.  The request outstanding accesses an address again that it has
\* accessed so, with the cache on.
bypass_is(p, n, b) == last_is(p, n, [reg |-> "CACHE_BYPASS", bit0 |-> b])
caches(p, n, a) == fires(p[n]) /\ addr_is(p, n, a) /\ bypass_is(p, n, FALSE)
keeps_cached(p, n, a) ==
    \E f \in 1 .. n - 1 :
        caches(p, f, a) /\ \A k \in f + 1 .. n - 1 : fires(p[k]) => addr_is(p, k, a)
accesses_again(p, n) ==
    \E f \in 1 .. n - 1 :
        /\ \E a \in Host!Addr : caches(p, f, a) /\ keeps_cached(p, f, a)
        /\ \A k \in f + 1 .. n - 1 : ~fires(p[k])

\* Phase 8's text: its requests with tag 2 access again what is cached, those with
\* tag 3 bypass the cache.
MeasuresInText(p) ==
    \A n \in 1 .. Len(p) + 1 : \A w \in BusWrites :
        outstanding(p, n) /\ w.reg = "REQ_FIRE" /\ last_is(p, n, w) =>
            /\ w.tag = 2 => accesses_again(p, n)
            /\ w.tag = 3 => bypass_is(p, n, TRUE)

-----------------------------------------------------------------------------
\* How far the shim is in the running program: a store on the bus is still to
\* be executed.
position == IF avs = NoWrite THEN pc ELSE pc - 1

\* A request the shim or the engine holds.
in_flight == pending_valid_r \/ \E t \in Host!Tag : slot_valid[t]

\* The bus shows the store the program has issued last, or none.
BusShowsStore ==
    avs # NoWrite => /\ configured /\ executing
                     /\ pc > 1 /\ program[pc - 1].op = "store" /\ avs = program[pc - 1].w

\* There is one request in the hardware exactly where the text has one
\* outstanding, and where the program has seen its answer, that is on offer
\* until the program acknowledges it.
AtMostOne ==
    /\ pending_valid_r => \A t \in Host!Tag : ~slot_valid[t]
    /\ \A t, u \in Host!Tag : slot_valid[t] /\ slot_valid[u] => t = u
HardwareFollowsText ==
    /\ in_flight <=> executing /\ outstanding(program, position)
    /\ executing /\ answered(program, position) => resp_active

OneOutstanding ==
    todo \in Seq(SequentialPrograms) => BusShowsStore /\ AtMostOne /\ HardwareFollowsText

\* A sequential program leaves the registers of a pending request alone, as the
\* shim's contract with software requires.
KeepsShimContract ==
    [][~avs_waitrequest /\ todo \in Seq(SequentialPrograms) => MayWrite(avs')]_vars

\* Where a program checks an answer, one is on offer, and it is the answer that
\* the program expects.
AnswersAsExpected ==
    executing /\ ~at_end /\ checks_answer(instr) /\ avs = NoWrite =>
        /\ resp_active
        /\ instr.reg = "RESP_TAG" => Host!s2m_tag = instr.value
        /\ instr.reg = "IS_DATA" => Host!s2m_is_data = instr.value
        /\ instr.reg = "RESP_RDATA" => Host!s2m_rdata = instr.value

\* The watchdog is armed only where the text of the program running says so.
ArmedByText ==
    todo \in Seq(DisarmingPrograms) =>
        (watchdog # "off" => executing /\ armed_at(program, pc))

=============================================================================
