----------------------------- MODULE BenchProofs -----------------------------
(***************************************************************************)
(* Proofs about the testbenches of the engine: the engine is sound beside  *)
(* each of them, and a testbench whose text is attentive (BenchDiscipline) *)
(* misses no answer.                                                       *)
(***************************************************************************)
EXTENDS BenchDiscipline, ClockProofs, FiniteSetTheorems

-----------------------------------------------------------------------------
\* The engine beside a testbench

\* Where a testbench is in its text.
ControlOK ==
    /\ test \in DOMAIN tests
    /\ pc \in Nat \ {0}

\* The text of a testbench is a sequence of instructions whose requests and biases
\* the engine is wide enough for.
LEMMA TestText ==
    ASSUME NEW t \in DOMAIN tests
    PROVE  /\ Len(tests[t]) \in Nat
           /\ \A n \in 1 .. Len(tests[t]) :
                 /\ tests[t][n].op = "present" => tests[t][n].m2s \in M2S /\ tests[t][n].m2s.valid
                 /\ tests[t][n].op = "bias_write" =>
                       tests[t][n].addr \in Addr /\ tests[t][n].host_biased \in BOOLEAN
                 /\ tests[t][n].op \in {"s2m_ready", "bypass"} => tests[t][n].bit \in BOOLEAN
BY TestAssumption

\* While it runs, the instruction is one of its text.
LEMMA RunningInText ==
    ASSUME ControlOK, running
    PROVE  pc \in 1 .. Len(text) /\ instr = text[pc] /\ Len(text) \in Nat
BY TestText DEF ControlOK, running, instr, text

\* A step of the testbench is an instruction that takes one edge, an edge of a
\* loop, which goes on or whose guard runs out, or something between two edges.
Executes ==
    /\ running /\ instr.op \in {"tick", "take", "accept", "bias_write"}
    /\ ClockEdge
    /\ pc' = pc + 1 /\ answers' = answers
WaitsOn == WaitInLoop /\ running /\ (pc' = pc \/ pc' = Len(text) + 1)
MovesOn ==
    /\ running /\ BetweenEdges
    /\ loop_is_done \/ instr.op \notin edges
    /\ pc' = pc + 1
LEMMA BenchCases ==
    ASSUME ControlOK, [BenchNext]_benchVars
    PROVE  test' = test /\ (Executes \/ WaitsOn \/ MovesOn \/ UNCHANGED benchVars)
<1>1. CASE Tick \/ Accept \/ BiasWritePulse
  BY <1>1 DEF ClockEdge, Tick, Accept, BiasWritePulse, QuietEdge, BenchEdge, GoOn, Executes, does
<1>2. CASE WaitInLoop
  BY <1>2 DEF WaitInLoop, QuietEdge, BenchEdge, WaitsOn, loops, text
<1>3. CASE BetweenEdges
  BY <1>3 DEF BetweenEdges, LeaveLoop, DrivePins, Save, Check, GoOn, MovesOn, loop_is_done, does,
     edges, ready_loops, answer_loops
<1>4. CASE Ended \/ UNCHANGED benchVars
  BY <1>4 DEF Ended, benchVars, testVars
<1>5. QED
  BY <1>1, <1>2, <1>3, <1>4 DEF BenchNext, ClockEdge

\* So it stays in its text, or at its end.
LEMMA BenchStays ==
    ASSUME ControlOK, [BenchNext]_benchVars
    PROVE  ControlOK'
<1>1. Len(text) \in Nat
  BY TestText DEF ControlOK, text
<1>2. QED
  BY <1>1, BenchCases DEF ControlOK, Executes, WaitsOn, MovesOn, benchVars, testVars

-----------------------------------------------------------------------------
\* The engine is sound beside every testbench.

\* What holds of the engine beside any testbench, whatever its text does.
BenchSound ==
    /\ EngineTypeOK /\ s2m_ready \in BOOLEAN
    /\ FlushBiExclusive /\ ResponseIsOwed /\ DirtyLineIsValid

\* An edge is a clock edge of the engine with the pulses of the instruction and of
\* the host model; it leaves the pins alone, but for m2s_valid after an accept.
LEMMA EdgeIsClock ==
    ASSUME ControlOK, EngineTypeOK, ClockEdge
    PROVE  /\ \E ack, rsp, set, b \in BOOLEAN, a \in Addr : Clock(s2m_ready, ack, rsp, set, a, b)
           /\ UNCHANGED <<cache_bypass_en, s2m_ready, test>>
           /\ m2s' = IF does("accept") THEN [m2s EXCEPT !.valid = FALSE] ELSE m2s
           /\ m2s' \in M2S
<1>1. bi_req_ready \in BOOLEAN /\ bi_rsp_valid \in BOOLEAN
  BY DEF bi_req_ready, bi_rsp_valid, bi_req_valid, host_runs
<1>2. m2s \in M2S /\ m2s.addr \in Addr
  BY PortFields DEF EngineTypeOK
<1>3. ASSUME QuietEdge
      PROVE  \E ack, rsp, set, b \in BOOLEAN, a \in Addr : Clock(s2m_ready, ack, rsp, set, a, b)
  BY <1>1, <1>2, <1>3 DEF QuietEdge, BenchEdge
<1>4. ASSUME BiasWritePulse
      PROVE  \E ack, rsp, set, b \in BOOLEAN, a \in Addr : Clock(s2m_ready, ack, rsp, set, a, b)
  <2>1. instr.addr \in Addr /\ instr.host_biased \in BOOLEAN
    BY <1>4, RunningInText, TestText DEF BiasWritePulse, does, ControlOK, text
  <2>2. BenchEdge(TRUE, instr.addr, instr.host_biased)
    BY <1>4 DEF BiasWritePulse
  <2>3. QED
    BY <1>1, <2>1, <2>2 DEF BenchEdge
<1>5. QuietEdge \/ BiasWritePulse
  BY DEF ClockEdge, Tick, Accept, WaitInLoop
<1>6. /\ \E ack, rsp, set, b \in BOOLEAN, a \in Addr : Clock(s2m_ready, ack, rsp, set, a, b)
      /\ UNCHANGED <<cache_bypass_en, s2m_ready, test>>
  <2>1. UNCHANGED <<cache_bypass_en, s2m_ready, test>>
    BY <1>5 DEF QuietEdge, BiasWritePulse, BenchEdge
  <2>2. QED
    BY <1>3, <1>4, <1>5, <2>1
<1>7. m2s' = IF does("accept") THEN [m2s EXCEPT !.valid = FALSE] ELSE m2s
  BY DEF ClockEdge, Tick, Accept, BiasWritePulse, WaitInLoop, loops, does
<1>8. [m2s EXCEPT !.valid = FALSE] \in M2S
  BY <1>2 DEF M2S
<1>9. QED
  BY <1>2, <1>6, <1>7, <1>8

\* Between two edges the engine stands still; the testbench drives its pins with
\* what its text says.
LEMMA BetweenKeepsEngine ==
    ASSUME ControlOK, EngineTypeOK, s2m_ready \in BOOLEAN, BetweenEdges
    PROVE  /\ UNCHANGED engineVars
           /\ m2s' = IF does("present") THEN instr.m2s ELSE m2s
           /\ s2m_ready' = IF does("s2m_ready") THEN instr.bit ELSE s2m_ready
           /\ m2s' \in M2S /\ cache_bypass_en' \in BOOLEAN /\ s2m_ready' \in BOOLEAN
<1>1. does("present") => instr.m2s \in M2S
  BY RunningInText, TestText DEF does, ControlOK, text
<1>2. does("s2m_ready") \/ does("bypass") => instr.bit \in BOOLEAN
  BY RunningInText, TestText DEF does, ControlOK, text
<1>3. /\ m2s' = IF does("present") THEN instr.m2s ELSE m2s
      /\ s2m_ready' = IF does("s2m_ready") THEN instr.bit ELSE s2m_ready
      /\ cache_bypass_en' = IF does("bypass") THEN instr.bit ELSE cache_bypass_en
  BY DEF BetweenEdges, LeaveLoop, DrivePins, Save, Check, loop_is_done, does
<1>4. QED
  BY <1>1, <1>2, <1>3 DEF BetweenEdges, EngineTypeOK

\* The registers of the engine, unchanged, keep what only depends on them.
LEMMA EngineStill ==
    ASSUME BenchSound, UNCHANGED engineVars, m2s' \in M2S, cache_bypass_en' \in BOOLEAN,
           s2m_ready' \in BOOLEAN
    PROVE  BenchSound'
BY DEF BenchSound, engineVars, cacheVars, slotVars, EngineTypeOK, BiasTypeOK, FlushBiExclusive,
   ResponseIsOwed, slot_done, DirtyLineIsValid

\* Every step of every testbench keeps the engine sound.
LEMMA StepBenchSound ==
    ASSUME ControlOK, BenchSound, [BenchNext]_benchVars
    PROVE  BenchSound'
<1>1. CASE ClockEdge
  <2>1. PICK ack, rsp, set, b \in BOOLEAN, a \in Addr : Clock(s2m_ready, ack, rsp, set, a, b)
    BY <1>1, EdgeIsClock DEF BenchSound
  <2>2. /\ m2s' \in M2S /\ cache_bypass_en' \in BOOLEAN /\ s2m_ready' \in BOOLEAN
    BY <1>1, EdgeIsClock DEF BenchSound, EngineTypeOK
  <2>3. EngineTypeOK'
    BY <2>1, <2>2, ClockTypes DEF BenchSound
  <2>4. FlushBiExclusive'
    BY <2>1, ClockKeepsFlushBiExclusive
  <2>5. ResponseIsOwed'
    BY <2>1, ClockKeepsResponseIsOwed DEF BenchSound
  <2>6. DirtyLineIsValid'
    BY <2>1, ClockKeepsDirtyLineIsValid DEF BenchSound
  <2>7. QED
    BY <2>2, <2>3, <2>4, <2>5, <2>6 DEF BenchSound
<1>2. CASE BetweenEdges
  BY <1>2, BetweenKeepsEngine, EngineStill DEF BenchSound
<1>3. CASE Ended \/ UNCHANGED benchVars
  BY <1>3, EngineStill DEF Ended, benchVars, BenchSound, EngineTypeOK
<1>4. QED
  BY <1>1, <1>2, <1>3 DEF BenchNext

\* The testbenches start on an engine that is sound.
LEMMA BenchStarts == BenchInit => ControlOK /\ BenchSound
<1> SUFFICES ASSUME BenchInit PROVE ControlOK /\ BenchSound
  OBVIOUS
<1>1. m2s \in M2S
  BY TestAssumption DEF BenchInit
<1>2. EngineTypeOK
  BY <1>1, PowerOnTypes DEF BenchInit
<1>3. FlushBiExclusive /\ ResponseIsOwed /\ DirtyLineIsValid
  BY DEF BenchInit, EngineInit, FlushBiExclusive, ResponseIsOwed, DirtyLineIsValid
<1>4. ControlOK
  BY DEF BenchInit, ControlOK
<1>5. s2m_ready \in BOOLEAN
  BY DEF BenchInit
<1>6. QED
  BY <1>2, <1>3, <1>4, <1>5 DEF BenchSound

\* Beside every testbench, whatever its text and however long the host takes to
\* answer a Back-Invalidate, the registers of the engine stay within their widths,
\* flush and handshake exclude each other, and no completion is phantom or doubled:
\* a failure of a testbench is not one of the engine's bookkeeping.
THEOREM BenchKeepsEngineSound == BenchSpec => [](ControlOK /\ BenchSound)
<1>1. ControlOK /\ BenchSound /\ [BenchNext]_benchVars => (ControlOK /\ BenchSound)'
  BY BenchStays, StepBenchSound
<1>2. QED
  BY <1>1, BenchStarts, PTL DEF BenchSpec

-----------------------------------------------------------------------------
\* Testbench text

\* What an instruction does to the request on the port.
LEMMA ShownStep ==
    ASSUME NEW p, NEW n \in Nat \ {0}
    PROVE  shown(p, n + 1) = IF p[n].op = "present" THEN {p[n].m2s}
                             ELSE IF p[n].op = "accept" THEN {} ELSE shown(p, n)
<1>1. 1 .. (n + 1) - 1 = (1 .. n - 1) \cup {n}
  OBVIOUS
<1>2. \A j \in 1 .. n - 1 : j + 1 .. (n + 1) - 1 = (j + 1 .. n - 1) \cup {n}
  OBVIOUS
<1>3. n + 1 .. (n + 1) - 1 = {}
  OBVIOUS
<1>4. QED
  BY <1>1, <1>2, <1>3 DEF shown

\* What it does to the answers owed.
LEMMA OwedStep ==
    ASSUME NEW p, NEW n \in Nat \ {0}
    PROVE  owed(p, n + 1) = (IF accepts(p, n) THEN shown_tags(p, n) ELSE {})
                            \cup (IF takes(p[n]) THEN {} ELSE owed(p, n))
<1>1. 1 .. (n + 1) - 1 = (1 .. n - 1) \cup {n}
  OBVIOUS
<1>2. \A j \in 1 .. n - 1 : j + 1 .. (n + 1) - 1 = (j + 1 .. n - 1) \cup {n}
  OBVIOUS
<1>3. n + 1 .. (n + 1) - 1 = {}
  OBVIOUS
<1>4. QED
  BY <1>1, <1>2, <1>3 DEF owed

\* What it does to s2m_ready.
LEMMA TakesAnswersStep ==
    ASSUME NEW p, NEW n \in Nat \ {0}
    PROVE  takes_answers(p, n + 1) <=>
              IF p[n].op = "s2m_ready" THEN p[n].bit ELSE takes_answers(p, n)
<1>1. 1 .. (n + 1) - 1 = (1 .. n - 1) \cup {n}
  OBVIOUS
<1>2. \A j \in 1 .. n - 1 : j + 1 .. (n + 1) - 1 = (j + 1 .. n - 1) \cup {n}
  OBVIOUS
<1>3. n + 1 .. (n + 1) - 1 = {}
  OBVIOUS
<1>4. QED
  BY <1>1, <1>2, <1>3 DEF takes_answers

\* What it does to the answer seen last and to the request fired last.
LEMMA SinceEdgeStep ==
    ASSUME NEW p, NEW n \in Nat \ {0}
    PROVE  /\ waited(p, n + 1) <=>
                 p[n].op \in answer_loops \/ (waited(p, n) /\ p[n].op \notin edges)
           /\ just_fired(p, n + 1) <=>
                 \/ accepts(p, n) /\ owed(p, n) = {}
                 \/ just_fired(p, n) /\ p[n].op \notin edges
<1>1. 1 .. (n + 1) - 1 = (1 .. n - 1) \cup {n}
  OBVIOUS
<1>2. \A j \in 1 .. n - 1 : j + 1 .. (n + 1) - 1 = (j + 1 .. n - 1) \cup {n}
  OBVIOUS
<1>3. n + 1 .. (n + 1) - 1 = {}
  OBVIOUS
<1>4. /\ \A j \in 1 .. n - 1 : no_edge(p, j, n + 1) <=> no_edge(p, j, n) /\ p[n].op \notin edges
      /\ no_edge(p, n, n + 1)
  BY <1>2, <1>3 DEF no_edge
<1>5. QED
  BY <1>1, <1>4 DEF waited, just_fired

\* A testbench has presented and fired nothing where it begins.
LEMMA BenchTextBegins ==
    ASSUME NEW p
    PROVE  /\ shown(p, 1) = {} /\ owed(p, 1) = {} /\ ~takes_answers(p, 1)
           /\ ~waited(p, 1) /\ ~just_fired(p, 1) /\ ~accepts(p, 1)
BY DEF shown, owed, takes_answers, waited, just_fired, accepts

-----------------------------------------------------------------------------
\* The engine follows the text.

\* The rules of an attentive text for the instruction running.
LEMMA AttentiveText ==
    ASSUME ControlOK, NEW n \in 1 .. Len(text)
    PROVE  /\ FiresInTurn(text, n) /\ ProvokesBi(text, n)
           /\ TakesWhatItSaw(text, n) /\ LooksAtAnswers(text, n)
BY AttentiveAssumption DEF ControlOK, Attentive, text

\* What an edge does to slots, offer and handshake.
LEMMA EdgeMoves ==
    ASSUME BenchSound, NEW ack, NEW rsp, NEW set, NEW a, NEW b,
           Clock(s2m_ready, ack, rsp, set, a, b)
    PROVE  /\ occupied' = (IF accept_this_cycle THEN {m2s.tag} ELSE {})
                          \cup (occupied \ (IF resp_active /\ s2m_ready THEN {resp_tag_r} ELSE {}))
           /\ resp_active => resp_tag_r \in occupied
           /\ m2s_ready => m2s.tag \notin occupied
           /\ resp_active' => occupied # {}
           /\ bi_state = "BI_IDLE" /\ ~m2s.valid => bi_state' = "BI_IDLE"
           /\ accept_this_cycle => bi_state' = "BI_IDLE"
<1>1. m2s.tag \in Tag /\ resp_tag_r \in Tag /\ slot_valid \in [Tag -> BOOLEAN]
  BY PortFields DEF BenchSound, EngineTypeOK
<1>2. resp_active => resp_tag_r \in occupied
  BY <1>1 DEF BenchSound, ResponseIsOwed, slot_done, occupied
<1>3. m2s_ready => m2s.tag \notin occupied
  BY DEF m2s_ready, occupied
<1>4. occupied' = (IF accept_this_cycle THEN {m2s.tag} ELSE {})
                  \cup (occupied \ (IF resp_active /\ s2m_ready THEN {resp_tag_r} ELSE {}))
  <2>1. Slots(s2m_ready)
    BY DEF Clock
  <2>2. \A t \in Tag : slot_valid'[t] <=>
           accepted(t) \/ (slot_valid[t] /\ ~retired(t, s2m_ready))
    BY <2>1 DEF Slots
  <2>3. \A t \in Tag : slot_valid'[t] <=>
           \/ accept_this_cycle /\ m2s.tag = t
           \/ slot_valid[t] /\ ~(resp_active /\ s2m_ready /\ resp_tag_r = t)
    BY <2>2 DEF accepted, retired, resp_consumed_this_cycle
  <2>4. QED
    BY <1>1, <2>3 DEF occupied
<1>5. resp_active' => occupied # {}
  BY <1>2 DEF Clock, Response, arb_selects, slot_done, occupied
<1>6. /\ bi_state = "BI_IDLE" /\ ~m2s.valid => bi_state' = "BI_IDLE"
      /\ accept_this_cycle => bi_state' = "BI_IDLE"
  BY DEF Clock, BiSequencer, want_bi, bi_req_valid, bi_flip_now, accept_this_cycle, m2s_ready
<1>7. QED
  BY <1>2, <1>3, <1>4, <1>5, <1>6

\* Pins and text move together.
LEMMA PinsStep ==
    ASSUME ControlOK, BenchSound, PinsFollowText, [BenchNext]_benchVars
    PROVE  PinsFollowText'
<1> SUFFICES ASSUME running'
             PROVE  /\ shown(text, pc)' = IF m2s'.valid THEN {m2s'} ELSE {}
                    /\ s2m_ready' <=> takes_answers(text, pc)'
  BY DEF PinsFollowText
<1>1. Len(text) \in Nat /\ pc \in Nat \ {0} /\ test' = test /\ text' = text
  BY BenchCases, TestText DEF ControlOK, text
<1>2. CASE Executes
  <2>1. /\ m2s' = IF instr.op = "accept" THEN [m2s EXCEPT !.valid = FALSE] ELSE m2s
        /\ s2m_ready' = s2m_ready /\ instr = text[pc]
    BY <1>2, EdgeIsClock, RunningInText DEF Executes, BenchSound, does
  <2>2. instr.op # "present" /\ instr.op # "s2m_ready" /\ running /\ pc' = pc + 1
    BY <1>2 DEF Executes
  <2>3. instr.op = "accept" => ~m2s'.valid
    BY <2>1 DEF BenchSound, EngineTypeOK, M2S
  <2>4. QED
    BY <1>1, <2>1, <2>2, <2>3, ShownStep, TakesAnswersStep DEF PinsFollowText
<1>3. CASE WaitsOn
  <2>1. pc' = pc /\ m2s' = m2s /\ s2m_ready' = s2m_ready /\ running
    BY <1>1, <1>3 DEF WaitsOn, WaitInLoop, QuietEdge, BenchEdge, running, text
  <2>2. QED
    BY <1>1, <2>1 DEF PinsFollowText
<1>4. CASE MovesOn
  <2>1. /\ m2s' = IF instr.op = "present" THEN instr.m2s ELSE m2s
        /\ s2m_ready' = IF instr.op = "s2m_ready" THEN instr.bit ELSE s2m_ready
        /\ instr = text[pc] /\ running /\ pc' = pc + 1
    BY <1>4, BetweenKeepsEngine, RunningInText DEF MovesOn, BenchSound, does
  <2>2. instr.op # "accept"
    BY <1>4 DEF MovesOn, loop_is_done, does, edges
  <2>3. instr.op = "present" => instr.m2s.valid
    BY <1>1, <2>1, RunningInText, TestText DEF ControlOK, text
  <2>4. QED
    BY <1>1, <2>1, <2>2, <2>3, ShownStep, TakesAnswersStep DEF PinsFollowText
<1>5. CASE UNCHANGED benchVars
  BY <1>1, <1>5 DEF benchVars, testVars, PinsFollowText, running
<1>6. QED
  BY <1>2, <1>3, <1>4, <1>5, BenchCases

\* The answers a drain loop has noted.
Answer == [tag : Tag, is_data : BOOLEAN, rdata : Data]
AnswersOK == answers \in Seq(Answer)

\* What an edge waits for or executes, and what a loop has not seen yet.
LEMMA EdgeCases ==
    ASSUME ControlOK, ClockEdge
    PROVE  /\ pc \in 1 .. Len(text) /\ instr = text[pc] /\ running
           /\ \/ instr.op \in {"tick", "take", "accept", "bias_write"}
              \/ instr.op \in ready_loops /\ ~m2s_ready
              \/ instr.op = "until_bi_req" /\ ~bi_req_valid
              \/ instr.op = "until_valid" /\ ~resp_active
              \/ instr.op = "until_valid_tag" /\ ~(resp_active /\ resp_tag_r = instr.tag)
              \/ instr.op = "drain"
<1>1. running
  BY DEF ClockEdge, Tick, Accept, BiasWritePulse, WaitInLoop, loops, does
<1>2. pc \in 1 .. Len(text) /\ instr = text[pc]
  BY <1>1, RunningInText
<1>3. CASE Tick \/ Accept \/ BiasWritePulse
  BY <1>1, <1>2, <1>3 DEF Tick, Accept, BiasWritePulse, does
<1>4. CASE WaitInLoop
  BY <1>1, <1>2, <1>4 DEF WaitInLoop, loops, loop_is_done, does, ready_loops, s2m_valid, s2m_tag
<1>5. QED
  BY <1>1, <1>2, <1>3, <1>4 DEF ClockEdge

\* Pins, slots, ports and handshake stand to the text as its reader would think.
FollowsText == PinsFollowText /\ SlotsFollowText /\ PortsFollowText /\ BiFollowsText

\* The request on the port is accepted where the text accepts it, and nowhere else.
LEMMA AcceptsAsText ==
    ASSUME ControlOK, BenchSound, FollowsText, ClockEdge
    PROVE  accept_this_cycle <=> accepts(text, pc)
<1>1. /\ pc \in 1 .. Len(text) /\ instr = text[pc] /\ running
      /\ FiresInTurn(text, pc)
  BY EdgeCases, AttentiveText
<1>2. accepts(text, pc) => accept_this_cycle
  BY <1>1 DEF FollowsText, PortsFollowText
<1>3. shown(text, pc) = {} <=> ~m2s.valid
  BY <1>1 DEF FollowsText, PinsFollowText
<1>4. ASSUME instr.op \in {"accept", "tick", "drain", "bias_write"}
      PROVE  accept_this_cycle => accepts(text, pc)
  BY <1>1, <1>3, <1>4 DEF FiresInTurn, accept_this_cycle
<1>5. ASSUME instr.op \in answer_loops \cup {"take"}
      PROVE  ~accept_this_cycle
  <2>1. shown_tags(text, pc) \subseteq occupied
    BY <1>1, <1>5 DEF FiresInTurn, FollowsText, SlotsFollowText, noted_tags, does, answer_loops
  <2>2. m2s.valid => m2s.tag \in shown_tags(text, pc)
    BY <1>1 DEF FollowsText, PinsFollowText, shown_tags
  <2>3. QED
    BY <2>1, <2>2 DEF occupied, accept_this_cycle, m2s_ready
<1>6. ASSUME instr.op \in ready_loops
      PROVE  ~accept_this_cycle
  BY <1>6, EdgeCases DEF accept_this_cycle, ready_loops
<1>7. ASSUME instr.op = "until_bi_req"
      PROVE  ~accept_this_cycle
  <2>1. ~bi_req_valid
    BY <1>7, EdgeCases DEF ready_loops
  <2>2. bias[m2s.addr]
    BY <1>1, <1>7, <2>1 DEF FollowsText, BiFollowsText, does
  <2>3. QED
    BY <2>2 DEF accept_this_cycle, m2s_ready, bias_query_rd_data
<1>8. instr.op \in {"accept", "tick", "drain", "bias_write", "until_bi_req", "take"}
                   \cup answer_loops \cup ready_loops
  BY EdgeCases DEF answer_loops, ready_loops
<1>9. QED
  BY <1>2, <1>4, <1>5, <1>6, <1>7, <1>8

\* An answer leaves the engine only where the text takes or drains it, and it
\* leaves where the text takes it.
LEMMA TakesAsText ==
    ASSUME ControlOK, BenchSound, FollowsText, ClockEdge
    PROVE  /\ resp_active /\ s2m_ready => takes(text[pc])
           /\ text[pc].op = "take" => resp_active /\ s2m_ready
<1>1. /\ pc \in 1 .. Len(text) /\ instr = text[pc] /\ running
      /\ TakesWhatItSaw(text, pc) /\ LooksAtAnswers(text, pc)
  BY EdgeCases, AttentiveText
<1>2. s2m_ready <=> takes_answers(text, pc)
  BY <1>1 DEF FollowsText, PinsFollowText
<1>3. text[pc].op = "take" => resp_active /\ s2m_ready
  BY <1>1, <1>2 DEF TakesWhatItSaw, FollowsText, PortsFollowText, loops
<1>4. ASSUME resp_active, s2m_ready, ~takes(text[pc])
      PROVE  FALSE
  <2>1. resp_tag_r \in occupied
    BY <1>4 DEF BenchSound, EngineTypeOK, ResponseIsOwed, slot_done, occupied
  <2>2. resp_tag_r \in owed(text, pc)
    BY <1>1, <1>4, <2>1 DEF FollowsText, SlotsFollowText
  <2>3. text[pc].op \notin ready_loops \cup {"bias_write", "until_bi_req", "accept"}
    BY <1>1, <1>2, <1>4, <2>2 DEF LooksAtAnswers
  <2>4. text[pc].op # "tick"
    BY <1>1, <1>2, <1>4, <2>2 DEF LooksAtAnswers, FollowsText, PortsFollowText, loops
  <2>5. text[pc].op # "until_valid_tag"
    BY <1>1, <1>2, <1>4, <2>2, EdgeCases DEF LooksAtAnswers, ready_loops
  <2>6. QED
    BY <1>1, <1>4, <2>3, <2>4, <2>5, EdgeCases DEF takes
<1>5. QED
  BY <1>3, <1>4

\* An edge with the text beside it: what the last three lemmas come to.
LEMMA EdgeBesideText ==
    ASSUME ControlOK, BenchSound, FollowsText, ClockEdge
    PROVE  /\ occupied' = (IF accepts(text, pc) THEN shown_tags(text, pc) ELSE {})
                          \cup (occupied \ (IF resp_active /\ s2m_ready THEN {resp_tag_r} ELSE {}))
           /\ resp_active => resp_tag_r \in occupied
           /\ resp_active' => occupied # {}
           /\ bi_state = "BI_IDLE" /\ ~m2s.valid => bi_state' = "BI_IDLE"
           /\ accepts(text, pc) => bi_state' = "BI_IDLE"
<1>1. PICK ack, rsp, set, b \in BOOLEAN, a \in Addr : Clock(s2m_ready, ack, rsp, set, a, b)
  BY EdgeIsClock DEF BenchSound
<1>2. accept_this_cycle <=> accepts(text, pc)
  BY AcceptsAsText
<1>3. accept_this_cycle => {m2s.tag} = shown_tags(text, pc)
  BY EdgeCases DEF accept_this_cycle, FollowsText, PinsFollowText, shown_tags
<1>4. QED
  BY <1>1, <1>2, <1>3, EdgeMoves

\* The instruction before a drain raises s2m_ready.
LEMMA DrainHasBegun ==
    ASSUME ControlOK, NEW n \in 1 .. Len(text), text[n].op = "drain"
    PROVE  /\ n - 1 \in 1 .. Len(text) /\ text[n - 1].op = "s2m_ready"
           /\ takes_answers(text, n)
<1>1. Len(text) \in Nat
  BY TestText DEF ControlOK, text
<1>2. n > 1 /\ text[n - 1].op = "s2m_ready" /\ text[n - 1].bit
  BY AttentiveText DEF TakesWhatItSaw
<1>3. n - 1 \in Nat \ {0} /\ (n - 1) + 1 = n
  BY <1>1, <1>2
<1>4. takes_answers(text, (n - 1) + 1)
  BY <1>2, <1>3, TakesAnswersStep
<1>5. QED
  BY <1>1, <1>2, <1>3, <1>4

\* The answers a drain loop notes are of their type.
LEMMA AnswersStep ==
    ASSUME ControlOK, BenchSound, AnswersOK, [BenchNext]_benchVars
    PROVE  AnswersOK'
<1>1. answer \in Answer
  <2>1. s2m_tag \in Tag /\ s2m_is_data \in BOOLEAN /\ s2m_rdata \in Data
    BY DEF BenchSound, EngineTypeOK, s2m_tag, s2m_is_data, s2m_rdata
  <2>2. QED
    BY <2>1 DEF answer, Answer
<1>2. answers' = answers \/ answers' = Append(answers, answer) \/ answers' = <<>>
  BY DEF BenchNext, ClockEdge, Tick, Accept, BiasWritePulse, WaitInLoop, BetweenEdges, LeaveLoop,
     DrivePins, Save, Check, Ended, benchVars, testVars
<1>3. answers' \in Seq(Answer)
  <2>1. Append(answers, answer) \in Seq(Answer)
    BY <1>1 DEF AnswersOK
  <2>2. <<>> \in Seq(Answer)
    OBVIOUS
  <2>3. QED
    BY <1>2, <2>1, <2>2 DEF AnswersOK
<1>4. QED
  BY <1>3 DEF AnswersOK, Answer

\* The tags of the answers noted, as a set of tags.
LEMMA NotedTags ==
    ASSUME AnswersOK
    PROVE  /\ IsFiniteSet(Tag)
           /\ noted_tags \subseteq Tag /\ IsFiniteSet(noted_tags)
           /\ does("drain") => noted_tags = {a.tag : a \in Range(answers)}
           /\ Len(answers) \in Nat
           /\ does("drain") => \A e : noted_tags \cup {e.tag} =
                                 {Append(answers, e)[i].tag : i \in DOMAIN Append(answers, e)}
<1>1. IsFiniteSet(Tag)
  BY NumTagsAssumption, FS_Interval DEF Tag
<1>2. noted_tags \subseteq Tag
  <2>1. \A i \in DOMAIN answers : answers[i] \in Answer
    BY DEF AnswersOK
  <2>2. \A i \in DOMAIN answers : answers[i].tag \in Tag
    BY <2>1 DEF Answer
  <2>3. QED
    BY <2>2 DEF noted_tags
<1>3. IsFiniteSet(noted_tags)
  BY <1>1, <1>2, FS_Subset
<1>4. does("drain") => noted_tags = {a.tag : a \in Range(answers)}
  BY DEF noted_tags, Range
<1>5. Len(answers) \in Nat /\ DOMAIN answers = 1 .. Len(answers)
  BY DEF AnswersOK
<1>6. ASSUME NEW e
      PROVE  /\ DOMAIN Append(answers, e) = (1 .. Len(answers)) \cup {Len(answers) + 1}
             /\ \A i \in 1 .. Len(answers) : Append(answers, e)[i] = answers[i]
             /\ Append(answers, e)[Len(answers) + 1] = e
  BY <1>5 DEF AnswersOK
<1>7. ASSUME NEW e, does("drain")
      PROVE  noted_tags \cup {e.tag} =
                {Append(answers, e)[i].tag : i \in DOMAIN Append(answers, e)}
  BY <1>5, <1>6, <1>7 DEF noted_tags
<1>8. QED
  BY <1>1, <1>2, <1>3, <1>4, <1>5, <1>7

\* Slots and text move together.  One lemma for each kind of step: an instruction
\* that takes an edge fires a request or takes the answer;
LEMMA ExecutedSlots ==
    ASSUME ControlOK, BenchSound, FollowsText, test' = test, Executes
    PROVE  SlotsFollowText'
<1> SUFFICES ASSUME running'
             PROVE  SlotsFollowText'
  BY DEF SlotsFollowText
<1>1. /\ pc \in 1 .. Len(text) /\ instr = text[pc] /\ Len(text) \in Nat /\ text' = text
      /\ pc' = pc + 1 /\ pc' \in 1 .. Len(text) /\ instr' = text[pc']
      /\ instr.op \in {"tick", "take", "accept", "bias_write"}
  BY RunningInText, TestText DEF Executes, running, instr, text, ControlOK
<1>2. /\ noted_tags = {} /\ noted_tags' = {}
      /\ ~does("drain")'
  <2>1. instr'.op # "drain"
    BY <1>1, DrainHasBegun
  <2>2. ~does("drain") /\ ~does("drain")'
    BY <1>1, <2>1 DEF does
  <2>3. QED
    BY <2>2 DEF noted_tags
<1>3. owed(text, pc) = occupied
  BY <1>2 DEF Executes, FollowsText, SlotsFollowText
<1>4. owed(text, pc)' = (IF accepts(text, pc) THEN shown_tags(text, pc) ELSE {})
                        \cup (IF takes(text[pc]) THEN {} ELSE owed(text, pc))
  BY <1>1, OwedStep
<1>5. ASSUME takes(text[pc])
      PROVE  occupied \ (IF resp_active /\ s2m_ready THEN {resp_tag_r} ELSE {}) = {}
  <2>1. text[pc].op = "take"
    BY <1>1, <1>5 DEF takes
  <2>2. resp_active /\ s2m_ready
    BY <2>1, TakesAsText DEF Executes
  <2>3. resp_tag_r \in owed(text, pc)
    BY <1>3, <2>2, EdgeBesideText DEF Executes
  <2>4. \A t, u \in owed(text, pc) : t = u
    BY <1>1, <2>1, AttentiveText DEF TakesWhatItSaw
  <2>5. QED
    BY <1>3, <2>2, <2>3, <2>4
<1>6. ~takes(text[pc]) => ~(resp_active /\ s2m_ready)
  BY TakesAsText DEF Executes
<1>7. owed(text, pc)' = occupied'
  BY <1>3, <1>4, <1>5, <1>6, EdgeBesideText DEF Executes
<1>8. QED
  BY <1>2, <1>7 DEF SlotsFollowText

\* a loop leaves them alone, but that a drain loop notes the answer it consumes;
LEMMA WaitedSlots ==
    ASSUME ControlOK, BenchSound, AnswersOK, FollowsText, test' = test, WaitsOn
    PROVE  SlotsFollowText'
<1> SUFFICES ASSUME running'
             PROVE  SlotsFollowText'
  BY DEF SlotsFollowText
<1>1. /\ pc \in 1 .. Len(text) /\ instr = text[pc] /\ Len(text) \in Nat /\ text' = text
      /\ pc' = pc /\ instr' = instr
  BY RunningInText, TestText DEF WaitsOn, running, instr, text, ControlOK
<1>2. ClockEdge
  BY DEF WaitsOn, ClockEdge
<1>3. ~accepts(text, pc)
  BY <1>1 DEF WaitsOn, WaitInLoop, loops, accepts
<1>4. owed(text, pc)' = owed(text, pc)
  BY <1>1
<1>5. ASSUME instr.op # "drain"
      PROVE  SlotsFollowText'
  <2>1. ~takes(text[pc])
    BY <1>1, <1>5 DEF WaitsOn, WaitInLoop, loops, takes
  <2>2. occupied' = occupied
    BY <1>2, <1>3, <2>1, TakesAsText, EdgeBesideText
  <2>3. ~does("drain") /\ ~does("drain")'
    BY <1>1, <1>5 DEF does
  <2>4. noted_tags = {} /\ noted_tags' = {}
    BY <2>3 DEF noted_tags
  <2>5. QED
    BY <1>4, <2>2, <2>3, <2>4 DEF FollowsText, SlotsFollowText, WaitsOn
<1>6. ASSUME instr.op = "drain"
      PROVE  SlotsFollowText'
  <2>1. does("drain") /\ does("drain")'
    BY <1>1, <1>6 DEF does, WaitsOn
  <2>2. s2m_ready
    BY <1>1, <1>6, DrainHasBegun DEF FollowsText, PinsFollowText, WaitsOn
  <2>3. /\ owed(text, pc) = occupied \cup noted_tags
        /\ occupied \cap noted_tags = {}
        /\ Cardinality(noted_tags) = Len(answers)
    BY <2>1 DEF FollowsText, SlotsFollowText, WaitsOn
  <2>4. answers' = IF resp_active THEN Append(answers, answer) ELSE answers
    BY <2>1 DEF WaitsOn, WaitInLoop, s2m_valid
  <2>5. CASE resp_active
    <3>1. occupied' = occupied \ {resp_tag_r} /\ resp_tag_r \in occupied
      BY <1>2, <1>3, <2>2, <2>5, EdgeBesideText
    <3>2. answer.tag = resp_tag_r
      BY DEF answer, s2m_tag
    <3>3. noted_tags' = noted_tags \cup {resp_tag_r}
      <4>1. noted_tags' = {answers'[i].tag : i \in DOMAIN answers'}
        BY <2>1 DEF noted_tags
      <4>2. QED
        BY <2>1, <2>4, <2>5, <3>2, <4>1, NotedTags
    <3>4. resp_tag_r \notin noted_tags
      BY <2>3, <3>1
    <3>5. Cardinality(noted_tags') = Len(answers) + 1
      BY <2>3, <3>3, <3>4, NotedTags, FS_AddElement
    <3>6. Len(answers') = Len(answers) + 1
      BY <2>4, <2>5 DEF AnswersOK
    <3>7. QED
      BY <1>4, <2>3, <3>1, <3>3, <3>4, <3>5, <3>6 DEF SlotsFollowText
  <2>6. CASE ~resp_active
    <3>1. occupied' = occupied
      BY <1>2, <1>3, <2>6, EdgeBesideText
    <3>2. noted_tags' = noted_tags
      BY <2>1, <2>4, <2>6 DEF noted_tags
    <3>3. answers' = answers
      BY <2>4, <2>6
    <3>4. QED
      BY <1>4, <2>3, <3>1, <3>2, <3>3 DEF SlotsFollowText
  <2>7. QED
    BY <2>5, <2>6
<1>7. QED
  BY <1>5, <1>6

\* and between two edges nothing moves in the engine: the drain loop that is left
\* has noted every answer owed, the one that is entered none.
LEMMA MovedSlots ==
    ASSUME ControlOK, BenchSound, AnswersOK, FollowsText, test' = test, MovesOn
    PROVE  SlotsFollowText'
<1> SUFFICES ASSUME running'
             PROVE  SlotsFollowText'
  BY DEF SlotsFollowText
<1>1. /\ pc \in 1 .. Len(text) /\ instr = text[pc] /\ Len(text) \in Nat /\ text' = text
      /\ pc' = pc + 1 /\ pc' \in 1 .. Len(text) /\ instr' = text[pc']
  BY RunningInText, TestText DEF MovesOn, running, instr, text, ControlOK
<1>2. occupied' = occupied
  BY DEF MovesOn, BetweenEdges, engineVars, slotVars, occupied
<1>3. instr.op \notin {"tick", "accept", "take"}
  BY DEF MovesOn, loop_is_done, does, edges
<1>4. owed(text, pc)' = IF text[pc].op = "drain" THEN {} ELSE owed(text, pc)
  <2>1. ~accepts(text, pc)
    BY <1>1, <1>3 DEF accepts
  <2>2. takes(text[pc]) <=> text[pc].op = "drain"
    BY <1>1, <1>3 DEF takes
  <2>3. pc \in Nat \ {0}
    BY <1>1
  <2>4. owed(text, pc + 1) = (IF accepts(text, pc) THEN shown_tags(text, pc) ELSE {})
                             \cup (IF takes(text[pc]) THEN {} ELSE owed(text, pc))
    BY <2>3, OwedStep
  <2>5. QED
    BY <1>1, <2>1, <2>2, <2>4
<1>5. /\ owed(text, pc) = occupied \cup noted_tags
      /\ occupied \cap noted_tags = {}
      /\ does("drain") => Cardinality(noted_tags) = Len(answers)
  BY DEF MovesOn, FollowsText, SlotsFollowText
<1>6. owed(text, pc)' = occupied
  <2>1. ASSUME instr.op # "drain"
        PROVE  owed(text, pc) = occupied
    BY <1>5, <2>1 DEF noted_tags, does
  <2>2. ASSUME instr.op = "drain"
        PROVE  occupied = {}
    <3>1. does("drain") /\ loop_is_done
      BY <2>2 DEF MovesOn, does, edges
    <3>2. instr.n = Cardinality(noted_tags)
      BY <1>5, <3>1, NotedTags DEF loop_is_done, does
    <3>3. instr.n = Cardinality(owed(text, pc))
      BY <1>1, <2>2, AttentiveText DEF TakesWhatItSaw
    <3>4. IsFiniteSet(owed(text, pc))
      <4>1. owed(text, pc) \subseteq Tag
        BY <1>5, NotedTags DEF occupied
      <4>2. QED
        BY <4>1, NotedTags, FS_Subset
    <3>5. noted_tags = owed(text, pc)
      BY <1>5, <3>2, <3>3, <3>4, FS_Subset
    <3>6. QED
      BY <1>5, <3>5
  <2>3. QED
    BY <1>1, <1>4, <2>1, <2>2
<1>7. ASSUME instr'.op # "drain"
      PROVE  SlotsFollowText'
  <2>1. ~does("drain")'
    BY <1>7 DEF does
  <2>2. noted_tags' = {}
    BY <2>1 DEF noted_tags
  <2>3. QED
    BY <1>2, <1>6, <2>1, <2>2 DEF SlotsFollowText
<1>8. ASSUME instr'.op = "drain"
      PROVE  SlotsFollowText'
  <2>1. instr.op = "s2m_ready"
    BY <1>1, <1>8, DrainHasBegun
  <2>2. answers' = <<>>
    BY <2>1 DEF MovesOn, BetweenEdges, LeaveLoop, DrivePins, Save, Check, loop_is_done, does
  <2>3. noted_tags' = {} /\ Len(answers') = 0
    BY <2>2 DEF noted_tags
  <2>4. Cardinality(noted_tags') = 0
    BY <2>3, FS_EmptySet
  <2>5. QED
    BY <1>2, <1>6, <2>3, <2>4 DEF SlotsFollowText
<1>9. QED
  BY <1>7, <1>8

\* Ports and text move together.
LEMMA PortsStep ==
    ASSUME ControlOK, BenchSound, FollowsText, [BenchNext]_benchVars
    PROVE  PortsFollowText'
<1> SUFFICES ASSUME running'
             PROVE  PortsFollowText'
  BY DEF PortsFollowText
<1>1. Len(text) \in Nat /\ pc \in Nat \ {0} /\ test' = test /\ text' = text
  BY BenchCases, TestText DEF ControlOK, text
<1>2. CASE Executes
  <2>1. /\ pc \in 1 .. Len(text) /\ instr = text[pc] /\ pc' = pc + 1
        /\ instr.op \in {"tick", "take", "accept", "bias_write"}
    BY <1>2, RunningInText DEF Executes
  <2>2. ~accepts(text, pc)'
    BY <1>1, <2>1 DEF accepts, ready_loops
  <2>3. ~waited(text, pc)'
    BY <1>1, <2>1, SinceEdgeStep DEF edges, answer_loops
  <2>4. ASSUME just_fired(text, pc)'
        PROVE  ~resp_active'
    <3>1. owed(text, pc) = {}
      BY <1>1, <2>1, <2>4, SinceEdgeStep DEF edges
    <3>2. occupied = {}
      BY <1>2, <3>1 DEF Executes, FollowsText, SlotsFollowText
    <3>3. QED
      BY <1>2, <3>2, EdgeBesideText DEF Executes
  <2>5. QED
    BY <2>2, <2>3, <2>4 DEF PortsFollowText
<1>3. CASE WaitsOn
  <2>1. pc' = pc /\ instr' = instr /\ loops
    BY <1>1, <1>3 DEF WaitsOn, WaitInLoop, running, text, instr
  <2>2. loops'
    BY <2>1 DEF loops
  <2>3. instr = text[pc]
    BY <1>3, RunningInText DEF WaitsOn
  <2>4. ~accepts(text, pc)'
    BY <1>1, <2>1, <2>3 DEF accepts, loops
  <2>5. QED
    BY <2>2, <2>4 DEF PortsFollowText
<1>4. CASE MovesOn
  <2>1. /\ pc \in 1 .. Len(text) /\ instr = text[pc] /\ pc' = pc + 1 /\ running
        /\ UNCHANGED engineVars
    BY <1>4, RunningInText DEF MovesOn, BetweenEdges
  <2>2. ASSUME accepts(text, pc)'
        PROVE  accept_this_cycle'
    <3>1. instr.op \in ready_loops
      BY <1>1, <2>1, <2>2 DEF accepts
    <3>2. m2s_ready
      BY <1>4, <3>1 DEF MovesOn, loop_is_done, does, edges, ready_loops
    <3>3. m2s.valid
      BY <2>1, <3>1, AttentiveText DEF FiresInTurn, FollowsText, PinsFollowText
    <3>4. UNCHANGED <<m2s, cache_bypass_en>>
      BY <1>4, <3>1 DEF MovesOn, BetweenEdges, LeaveLoop, DrivePins, Save, Check, does, ready_loops
    <3>5. QED
      BY <2>1, <3>2, <3>3, <3>4 DEF accept_this_cycle, m2s_ready, engineVars, cacheVars, slotVars,
         bias_query_rd_data, need_evict_writeback, cache_hit, m2s_idx, m2s_cache_tag_field
  <2>3. ASSUME waited(text, pc)'
        PROVE  resp_active'
    <3>1. instr.op \in answer_loops \/ (waited(text, pc) /\ instr.op \notin edges)
      BY <1>1, <2>1, <2>3, SinceEdgeStep
    <3>2. ASSUME instr.op \in answer_loops
          PROVE  resp_active
      BY <1>4, <3>2 DEF MovesOn, loop_is_done, does, edges, answer_loops, s2m_valid
    <3>3. ASSUME waited(text, pc), instr.op \notin edges
          PROVE  resp_active
      BY <2>1, <3>3 DEF FollowsText, PortsFollowText, loops, edges, ready_loops, answer_loops
    <3>4. QED
      BY <2>1, <3>1, <3>2, <3>3 DEF engineVars
  <2>4. ASSUME just_fired(text, pc)'
        PROVE  ~resp_active'
    <3>1. \/ accepts(text, pc)
          \/ just_fired(text, pc) /\ instr.op \notin edges
      BY <1>1, <2>1, <2>4, SinceEdgeStep
    <3>2. ~accepts(text, pc)
      BY <1>4, <2>1 DEF MovesOn, loop_is_done, does, edges, accepts
    <3>3. ~resp_active
      BY <2>1, <3>1, <3>2 DEF FollowsText, PortsFollowText, loops, edges, ready_loops, answer_loops
    <3>4. QED
      BY <2>1, <3>3 DEF engineVars
  <2>5. QED
    BY <2>2, <2>3, <2>4 DEF PortsFollowText
<1>5. CASE UNCHANGED benchVars
  <2>1. running /\ instr' = instr /\ pc' = pc
    BY <1>5 DEF benchVars, testVars, running, instr
  <2>2. (loops' <=> loops) /\ resp_active' = resp_active
    BY <1>5, <2>1 DEF loops, benchVars, engineVars
  <2>3. accept_this_cycle' <=> accept_this_cycle
    BY <1>5 DEF benchVars, engineVars, cacheVars, slotVars, accept_this_cycle, m2s_ready,
       bias_query_rd_data, need_evict_writeback, cache_hit, m2s_idx, m2s_cache_tag_field
  <2>4. QED
    BY <1>1, <2>1, <2>2, <2>3 DEF FollowsText, PortsFollowText
<1>6. QED
  BY <1>2, <1>3, <1>4, <1>5, BenchCases

\* The handshake of a Back-Invalidate and the text move together.
LEMMA BiStep ==
    ASSUME ControlOK, BenchSound, FollowsText, [BenchNext]_benchVars
    PROVE  BiFollowsText'
<1>1. Len(text) \in Nat /\ pc \in Nat \ {0} /\ test' = test /\ text' = text
  BY BenchCases, TestText DEF ControlOK, text
<1>2. ASSUME NEW n \in 1 .. Len(text), text[n].op = "until_bi_req"
      PROVE  /\ n > 2 /\ n - 1 \in 1 .. Len(text) /\ text[n - 1].op = "present"
             /\ text[n - 2].op = "bias_write" /\ text[n - 2].host_biased
             /\ text[n - 2].addr = text[n - 1].m2s.addr
             /\ shown(text, n) # {} /\ shown(text, n - 1) = {}
  <2>1. /\ n > 2 /\ text[n - 1].op = "present"
        /\ text[n - 2].op = "bias_write" /\ text[n - 2].host_biased
        /\ text[n - 2].addr = text[n - 1].m2s.addr
    BY <1>2, AttentiveText DEF ProvokesBi
  <2>2. /\ n - 1 \in 1 .. Len(text) /\ n - 2 \in 1 .. Len(text)
        /\ n - 1 \in Nat \ {0} /\ n - 2 \in Nat \ {0}
        /\ (n - 1) + 1 = n /\ (n - 2) + 1 = n - 1
    BY <1>1, <2>1
  <2>3. shown(text, n - 2) = {}
    BY <2>1, <2>2, AttentiveText DEF FiresInTurn
  <2>4. shown(text, (n - 2) + 1) = {}
    BY <2>1, <2>2, <2>3, ShownStep
  <2>5. shown(text, (n - 1) + 1) = {text[n - 1].m2s}
    BY <2>1, <2>2, ShownStep
  <2>6. QED
    BY <2>1, <2>2, <2>4, <2>5
<1>3. CASE Executes
  <2>1. /\ pc \in 1 .. Len(text) /\ instr = text[pc] /\ pc' = pc + 1 /\ running /\ ClockEdge
        /\ instr.op \in {"tick", "take", "accept", "bias_write"}
    BY <1>3, RunningInText DEF Executes
  <2>2. ~m2s'.valid => bi_state' = "BI_IDLE"
    <3>1. m2s' = IF instr.op = "accept" THEN [m2s EXCEPT !.valid = FALSE] ELSE m2s
      BY <2>1, EdgeIsClock DEF does, BenchSound
    <3>2. instr.op = "accept" => accepts(text, pc)
      BY <2>1, AttentiveText DEF FiresInTurn
    <3>3. ~m2s.valid => bi_state' = "BI_IDLE"
      BY <2>1, EdgeBesideText DEF FollowsText, BiFollowsText
    <3>4. QED
      BY <2>1, <3>1, <3>2, <3>3, EdgeBesideText
  <2>3. ASSUME text[pc].op = "bias_write", text[pc].host_biased
        PROVE  bias'[text[pc].addr]
    <3>1. shown(text, pc) = {}
      BY <2>1, <2>3, AttentiveText DEF FiresInTurn
    <3>2. bi_state = "BI_IDLE"
      BY <2>1, <3>1 DEF FollowsText, PinsFollowText, BiFollowsText
    <3>3. BiasWritePulse
      BY <2>1, <2>3 DEF ClockEdge, Tick, Accept, WaitInLoop, loops, does
    <3>4. bias' = [bias EXCEPT ![text[pc].addr] = text[pc].host_biased]
      BY <2>1, <3>2, <3>3 DEF BiasWritePulse, BenchEdge, Clock, BiasWrite, bi_flip_now, bias_clock
    <3>5. text[pc].addr \in Addr /\ bias \in [Addr -> BOOLEAN]
      BY <2>1, <2>3, TestText DEF ControlOK, text, BenchSound, EngineTypeOK, BiasTypeOK
    <3>6. QED
      BY <2>3, <3>4, <3>5
  <2>4. running' => pc' \in 1 .. Len(text) /\ instr' = text[pc'] /\ pc' - 1 = pc
    BY <1>1, <2>1 DEF running, instr, text
  <2>5. ~does("until_bi_req")'
    BY <1>2, <2>1, <2>4 DEF does
  <2>6. QED
    BY <1>1, <2>2, <2>3, <2>4, <2>5 DEF BiFollowsText, does
<1>4. CASE WaitsOn
  <2>1. /\ pc \in 1 .. Len(text) /\ instr = text[pc] /\ m2s' = m2s /\ ClockEdge
        /\ instr.op \notin {"accept", "tick"} /\ ~loop_is_done /\ running
    BY <1>4, RunningInText DEF WaitsOn, WaitInLoop, ClockEdge, loops
  <2>2. ~m2s'.valid => bi_state' = "BI_IDLE"
    BY <2>1, EdgeBesideText DEF FollowsText, BiFollowsText
  <2>3. running' => instr' = instr
    BY <1>1, <1>4 DEF WaitsOn, running, instr, text
  <2>4. ~does("present")'
    BY <1>4, <2>3 DEF WaitsOn, WaitInLoop, loops, does
  <2>5. does("until_bi_req")' => bi_state' = "BI_REQ"
    <3>1. SUFFICES ASSUME instr.op = "until_bi_req"
                   PROVE  bi_state' = "BI_REQ"
      BY <2>3 DEF does
    <3>2. m2s.valid
      BY <1>2, <2>1, <3>1 DEF FollowsText, PinsFollowText
    <3>3. bi_state = "BI_IDLE" /\ bias[m2s.addr]
      BY <2>1, <3>1 DEF FollowsText, BiFollowsText, loop_is_done, does
    <3>4. PICK ack, rsp, set, b \in BOOLEAN, a \in Addr : Clock(s2m_ready, ack, rsp, set, a, b)
      BY <2>1, EdgeIsClock DEF BenchSound
    <3>5. QED
      BY <3>2, <3>3, <3>4
         DEF Clock, BiSequencer, want_bi, bias_query_rd_data, bi_req_valid, bi_flip_now
  <2>6. QED
    BY <2>2, <2>4, <2>5 DEF BiFollowsText, bi_req_valid
<1>5. CASE MovesOn
  <2>1. /\ pc \in 1 .. Len(text) /\ instr = text[pc] /\ pc' = pc + 1 /\ running
        /\ bi_state' = bi_state /\ bias' = bias
        /\ m2s' = IF does("present") THEN instr.m2s ELSE m2s
    BY <1>5, RunningInText, BetweenKeepsEngine DEF MovesOn, engineVars, BenchSound
  <2>2. ~m2s'.valid => bi_state' = "BI_IDLE"
    <3>1. does("present") => instr.m2s.valid
      BY <2>1, TestText DEF does, ControlOK, text
    <3>2. QED
      BY <2>1, <3>1 DEF FollowsText, BiFollowsText
  <2>3. instr.op # "bias_write"
    BY <1>5 DEF MovesOn, loop_is_done, does, edges
  <2>4. running' => pc' \in 1 .. Len(text) /\ instr' = text[pc'] /\ pc' - 1 = pc
    BY <1>1, <2>1 DEF running, instr, text
  <2>5. ASSUME does("until_bi_req")'
        PROVE  bi_state' = "BI_IDLE" /\ bias'[m2s'.addr]
    <3>1. /\ pc > 1 /\ text[pc].op = "present" /\ text[pc - 1].op = "bias_write"
          /\ text[pc - 1].host_biased /\ text[pc - 1].addr = text[pc].m2s.addr
          /\ shown(text, pc) = {}
      <4>1. pc' \in 1 .. Len(text) /\ text[pc'].op = "until_bi_req"
        BY <2>4, <2>5 DEF does
      <4>2. pc' - 1 = pc /\ pc' - 2 = pc - 1 /\ (pc' > 2 => pc > 1)
        BY <2>1
      <4>3. QED
        BY <1>2, <4>1, <4>2
    <3>2. does("present") /\ m2s' = text[pc].m2s
      BY <2>1, <3>1 DEF does
    <3>3. bias[text[pc - 1].addr]
      BY <3>1, <3>2 DEF FollowsText, BiFollowsText
    <3>4. bi_state = "BI_IDLE"
      BY <2>1, <3>1 DEF FollowsText, PinsFollowText, BiFollowsText
    <3>5. QED
      BY <2>1, <3>1, <3>2, <3>3, <3>4
  <2>6. QED
    BY <1>1, <2>1, <2>2, <2>3, <2>4, <2>5 DEF BiFollowsText, does
<1>6. CASE UNCHANGED benchVars
  BY <1>1, <1>6 DEF FollowsText, BiFollowsText, benchVars, testVars, engineVars, does, running,
     instr, bi_req_valid
<1>7. QED
  BY <1>3, <1>4, <1>5, <1>6, BenchCases

-----------------------------------------------------------------------------
\* The testbenches miss no answer.

\* The inductive invariant.
Follows == ControlOK /\ BenchSound /\ AnswersOK /\ FollowsText

\* It holds where a testbench begins,
LEMMA FollowsStarts == BenchInit => Follows
<1> SUFFICES ASSUME BenchInit PROVE Follows
  OBVIOUS
<1>1. ControlOK /\ BenchSound
  BY BenchStarts
<1>2. pc = 1 /\ answers = <<>> /\ ~s2m_ready /\ ~m2s.valid /\ bi_state = "BI_IDLE"
      /\ ~resp_active /\ occupied = {}
  BY DEF BenchInit, EngineInit, m2s_idle, occupied
<1>3. AnswersOK
  BY <1>2 DEF AnswersOK
<1>4. PinsFollowText /\ PortsFollowText
  BY <1>2, BenchTextBegins DEF PinsFollowText, PortsFollowText
<1>5. noted_tags = {} /\ Cardinality(noted_tags) = 0 /\ Len(answers) = 0
  BY <1>2, FS_EmptySet DEF noted_tags
<1>6. SlotsFollowText
  BY <1>2, <1>5, BenchTextBegins DEF SlotsFollowText
<1>7. ~does("until_bi_req")
  <2>1. ASSUME does("until_bi_req") PROVE FALSE
    BY <1>1, <1>2, <2>1, RunningInText, AttentiveText DEF ProvokesBi, does
  <2>2. QED
    BY <2>1
<1>8. BiFollowsText
  BY <1>2, <1>7 DEF BiFollowsText
<1>9. QED
  BY <1>1, <1>3, <1>4, <1>6, <1>8 DEF Follows, FollowsText

\* and every step keeps it.
LEMMA FollowsStep ==
    ASSUME Follows, [BenchNext]_benchVars
    PROVE  Follows'
<1>1. ControlOK /\ BenchSound /\ AnswersOK /\ FollowsText
  BY DEF Follows
<1>2. ControlOK' /\ BenchSound' /\ AnswersOK'
  BY <1>1, BenchStays, StepBenchSound, AnswersStep
<1>3. PinsFollowText' /\ PortsFollowText' /\ BiFollowsText'
  BY <1>1, PinsStep, PortsStep, BiStep DEF FollowsText
<1>4. CASE UNCHANGED benchVars
  <2>1. occupied' = occupied /\ noted_tags' = noted_tags /\ answers' = answers
        /\ (running' <=> running) /\ (does("drain")' <=> does("drain"))
        /\ owed(text, pc)' = owed(text, pc)
    BY <1>4 DEF benchVars, testVars, engineVars, slotVars, occupied, noted_tags, does, running,
       instr, text
  <2>2. SlotsFollowText'
    BY <1>1, <2>1 DEF FollowsText, SlotsFollowText
  <2>3. QED
    BY <1>2, <1>3, <2>2 DEF Follows, FollowsText
<1>5. test' = test /\ (Executes \/ WaitsOn \/ MovesOn \/ UNCHANGED benchVars)
  BY <1>1, BenchCases
<1>6. Executes \/ WaitsOn \/ MovesOn => SlotsFollowText'
  BY <1>1, <1>5, ExecutedSlots, WaitedSlots, MovedSlots
<1>7. QED
  BY <1>2, <1>3, <1>4, <1>5, <1>6 DEF Follows, FollowsText

LEMMA BenchFollows == BenchSpec => []Follows
<1>1. Follows /\ [BenchNext]_benchVars => Follows'
  BY FollowsStep
<1>2. QED
  BY <1>1, FollowsStarts, PTL DEF BenchSpec

\* At every point of every testbench the requests in the engine are those that its
\* text has fired and not taken the answers of, and a drain loop counts each once:
\* none is lost, answered twice or left over for the next test.
THEOREM BenchSlotsFollowText == BenchSpec => []SlotsFollowText
<1>1. Follows => SlotsFollowText
  BY DEF Follows, FollowsText
<1>2. QED
  BY <1>1, BenchFollows, PTL

\* No testbench lets the engine hand over an answer that it does not look at, however
\* long the host takes and whatever the latency (bugs.md, BUG-005).
THEOREM BenchMissesNoAnswer == BenchSpec => NoAnswerIsMissed
<1> DEFINE Looks == ClockEdge /\ resp_consumed_this_cycle(s2m_ready) =>
                       does("take") \/ does("drain")
<1>1. Follows /\ [BenchNext]_benchVars => [Looks]_benchVars
  <2>1. SUFFICES ASSUME Follows, ClockEdge, resp_consumed_this_cycle(s2m_ready)
                 PROVE  does("take") \/ does("drain")
    OBVIOUS
  <2>2. takes(text[pc]) /\ running /\ instr = text[pc]
    BY <2>1, TakesAsText, EdgeCases DEF Follows, resp_consumed_this_cycle
  <2>3. QED
    BY <2>2 DEF takes, does
<1>2. QED
  BY <1>1, BenchFollows, PTL DEF BenchSpec, NoAnswerIsMissed

=============================================================================
