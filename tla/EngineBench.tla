----------------------------- MODULE EngineBench -----------------------------
(***************************************************************************)
(* One of the testbenches of EngineTests beside the engine, after its four *)
(* ticks in reset.  A step is a clock edge, with the instruction that      *)
(* waits for it, or what main() does between two edges.  Phase 4's host    *)
(* answers a Back-Invalidate after any of the delays in RspDelays: its     *)
(* RSP_DELAY of four cycles is one of them.                                *)
(***************************************************************************)
EXTENDS ProtocolEngine, EngineTests

CONSTANT RspDelays

ASSUME RspDelaysAssumption == RspDelays \subseteq Nat /\ RspDelays # {}

\* The port before the first request.
m2s_idle == [valid |-> FALSE, is_write |-> FALSE, addr |-> at(0), tag |-> 0, wdata |-> zero]

\* The engine is wide enough for the requests of the testbenches.
ASSUME TestAssumption ==
    /\ m2s_idle \in M2S
    /\ \A t \in DOMAIN tests :
        /\ Len(tests[t]) \in Nat
        /\ \A n \in 1 .. Len(tests[t]) : LET i == tests[t][n] IN
              /\ i.op = "present" => i.m2s \in M2S /\ i.m2s.valid
              /\ i.op = "bias_write" => i.addr \in Addr /\ i.host_biased \in BOOLEAN
              /\ i.op \in {"s2m_ready", "bypass"} => i.bit \in BOOLEAN

VARIABLES
    test,       \* the testbench
    pc,         \* its next instruction
    guard,      \* the edges the current loop has waited
    s2m_ready,  \* the pin it drives
    saved,      \* the counter values it saved
    answers,    \* the answers the current drain loop has noted
    saw_bi,     \* whether it has seen the Back-Invalidate it watches for
    errors,     \* whether a check failed or a loop ran into its guard
    host        \* the HostBiModel: its state, and its delay_left

testVars == <<test, pc, guard, saved, answers, saw_bi, errors>>
benchVars == <<engineVars, m2s, cache_bypass_en, s2m_ready, testVars, host>>

instr == tests[test][pc]
running == pc <= Len(tests[test])
does(op) == running /\ instr.op = op

BenchInit ==
    /\ EngineInit
    /\ m2s = m2s_idle
    /\ cache_bypass_en = FALSE
    /\ test \in DOMAIN tests
    /\ pc = 1 /\ guard = 0
    /\ s2m_ready = FALSE
    /\ saved = [dbg_cache_hits |-> 0, dbg_cache_misses |-> 0]
    /\ answers = <<>>
    /\ saw_bi = FALSE
    /\ errors = FALSE
    /\ host = [state |-> "idle", delay_left |-> 0]

signal == [m2s_ready |-> m2s_ready, s2m_valid |-> s2m_valid, s2m_is_data |-> s2m_is_data,
           s2m_tag |-> s2m_tag, s2m_rdata |-> s2m_rdata,
           dbg_cache_hits |-> dbg_cache_hits, dbg_cache_misses |-> dbg_cache_misses]

-----------------------------------------------------------------------------
\* A clock edge, before which the host model has stepped (phase 4 only).

host_runs == test = "phase4"
bi_req_ready == host_runs /\ host.state = "idle" /\ bi_req_valid
bi_rsp_valid == host_runs /\ host.state = "offering_rsp"
bi_rsp_ready == bi_state = "BI_WAIT_RSP"

HostBiModelStep ==
    \/ /\ bi_req_ready
       /\ \E delay \in RspDelays :
             host' = [state |-> "waiting_to_respond", delay_left |-> delay]
    \/ /\ host.state = "waiting_to_respond"
       /\ host' = IF host.delay_left > 0
                  THEN [host EXCEPT !.delay_left = @ - 1]
                  ELSE [host EXCEPT !.state = "offering_rsp"]
    \/ /\ bi_rsp_valid /\ bi_rsp_ready
       /\ host' = [host EXCEPT !.state = "idle"]
    \/ /\ IF host.state = "idle" THEN ~bi_req_ready ELSE bi_rsp_valid /\ ~bi_rsp_ready
       /\ UNCHANGED host

\* The debug bias port: a pulse of bias_wr_en in this cycle, or none.
BenchEdge(bias_wr_en, bias_addr, bias_wr_data) ==
    /\ Clock(s2m_ready, bi_req_ready, bi_rsp_valid, bias_wr_en, bias_addr, bias_wr_data)
    /\ HostBiModelStep
    /\ UNCHANGED <<cache_bypass_en, s2m_ready, test, saved>>

QuietEdge == BenchEdge(FALSE, m2s.addr, FALSE)

GoOn == pc' = pc + 1 /\ guard' = 0

Tick ==
    /\ does("tick") \/ does("take")
    /\ QuietEdge /\ GoOn
    /\ UNCHANGED <<m2s, answers, saw_bi, errors>>

Accept ==
    /\ does("accept")
    /\ QuietEdge /\ GoOn
    /\ m2s' = [m2s EXCEPT !.valid = FALSE]
    /\ UNCHANGED <<answers, saw_bi, errors>>

BiasWritePulse ==
    /\ does("bias_write")
    /\ BenchEdge(TRUE, instr.addr, instr.host_biased) /\ GoOn
    /\ UNCHANGED <<m2s, answers, saw_bi, errors>>

\* Waiting.  The edge after which the guard is exceeded ends the testbench.
loop_is_done ==
    \/ does("until_ready") /\ m2s_ready
    \/ does("until_ready_watching_bi") /\ m2s_ready
    \/ does("until_bi_req") /\ bi_req_valid
    \/ does("until_valid") /\ s2m_valid
    \/ does("until_valid_tag") /\ s2m_valid /\ s2m_tag = instr.tag
    \/ does("drain") /\ instr.n = IF instr.distinct
                                  THEN Cardinality({a.tag : a \in Range(answers)})
                                  ELSE Len(answers)

loops == running /\ instr.op \in {"until_ready", "until_ready_watching_bi", "until_bi_req",
                                  "until_valid", "until_valid_tag", "drain"}

guard_exceeded == guard = instr.limit
answer == [tag |-> s2m_tag, is_data |-> s2m_is_data, rdata |-> s2m_rdata]

\* In phase 4's first test nothing may answer before the handshake is over.
answered_early == does("until_ready_watching_bi") /\ s2m_valid
sees_bi == does("until_ready_watching_bi") /\ bi_req_valid /\ bi_req_addr = instr.addr

WaitInLoop ==
    /\ loops /\ ~loop_is_done
    /\ QuietEdge
    /\ answers' = IF does("drain") /\ s2m_valid THEN Append(answers, answer) ELSE answers
    /\ saw_bi' = (saw_bi \/ sees_bi)
    /\ errors' = (errors \/ guard_exceeded \/ answered_early)
    /\ pc' = IF guard_exceeded THEN Len(tests[test]) + 1 ELSE pc
    /\ guard' = IF instr.limit = Unguarded THEN 0 ELSE guard + 1
    /\ UNCHANGED m2s

ClockEdge == Tick \/ Accept \/ BiasWritePulse \/ WaitInLoop

-----------------------------------------------------------------------------
\* Between two edges

LeaveLoop ==
    /\ loop_is_done
    /\ errors' = (errors \/ (does("until_ready_watching_bi") /\ ~saw_bi))
    /\ GoOn
    /\ UNCHANGED <<m2s, cache_bypass_en, s2m_ready, saved, answers, saw_bi>>

DrivePins ==
    /\ running
    /\ instr.op \in {"present", "s2m_ready", "bypass"}
    /\ m2s' = IF does("present") THEN instr.m2s ELSE m2s
    /\ s2m_ready' = IF does("s2m_ready") THEN instr.bit ELSE s2m_ready
    /\ cache_bypass_en' = IF does("bypass") THEN instr.bit ELSE cache_bypass_en
    /\ answers' = IF does("s2m_ready") THEN <<>> ELSE answers
    /\ GoOn
    /\ UNCHANGED <<saved, saw_bi, errors>>

Save ==
    /\ does("save")
    /\ saved' = [saved EXCEPT ![instr.reg] = signal[instr.reg]]
    /\ GoOn
    /\ UNCHANGED <<m2s, cache_bypass_en, s2m_ready, answers, saw_bi, errors>>

\* The noted answer that a check of a tag looks at is the last one.
noted(tag) == {i \in DOMAIN answers : answers[i].tag = tag}
last_noted(tag) == answers[Max(noted(tag))]

check_holds ==
    \/ does("expect") /\ signal[instr.reg] = instr.value
    \/ does("bias_is") /\ bias[instr.addr] = instr.value
    \/ does("delta") /\ signal[instr.reg] = (saved[instr.reg] + instr.by) % CounterModulus
    \/ /\ does("answer_is")
       /\ noted(instr.tag) # {}
       /\ last_noted(instr.tag)[instr.field] = instr.value
    \/ /\ does("before")
       /\ noted(instr.first) # {} /\ noted(instr.second) # {}
       /\ Max(noted(instr.first)) < Max(noted(instr.second))

Check ==
    /\ running
    /\ instr.op \in {"expect", "bias_is", "delta", "answer_is", "before"}
    /\ errors' = (errors \/ ~check_holds)
    /\ GoOn
    /\ UNCHANGED <<m2s, cache_bypass_en, s2m_ready, saved, answers, saw_bi>>

BetweenEdges ==
    /\ LeaveLoop \/ DrivePins \/ Save \/ Check
    /\ UNCHANGED <<engineVars, test, host>>

\* The testbench has ended, and the simulation with it.
Ended == ~running /\ UNCHANGED benchVars

BenchNext == ClockEdge \/ BetweenEdges \/ Ended
BenchSpec == BenchInit /\ [][BenchNext]_benchVars

-----------------------------------------------------------------------------
\* Properties

\* The checks of the testbenches hold and no guard runs out, however long the
\* host takes to answer a Back-Invalidate.
TestsPass == ~errors

\* An answer leaves the engine only at an edge at which the testbench looks at
\* it: none is consumed unseen while a request is still waiting to be fired
\* (bugs.md, BUG-005).
NoAnswerIsMissed ==
    [][ClockEdge /\ resp_consumed_this_cycle(s2m_ready) =>
          does("take") \/ does("drain")]_benchVars

=============================================================================
