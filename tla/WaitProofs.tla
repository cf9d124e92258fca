-------------------------------- MODULE WaitProofs --------------------------------
(***************************************************************************)
(* Proofs that every loop of a testbench ends before its guard, and that   *)
(* every check finds what it expects: the testbenches pass.                *)
(***************************************************************************)
EXTENDS ReferenceProofs

-----------------------------------------------------------------------------
\* What the engine shows where the reference is known

\* The engine beside text and reference.
Together == Follows /\ EngineFollowsReference /\ HandshakeFollows

\* The requests in the engine are the ones owed, outside a drain loop.
LEMMA OwedIsOccupied ==
    Follows /\ running /\ ~does("drain") => owed(text, pc) = occupied
BY DEF Follows, FollowsText, SlotsFollowText, noted_tags

\* The request on the port is the one the text has presented.
LEMMA ShownIsPort ==
    Follows /\ running =>
        /\ shown(text, pc) # {} <=> m2s.valid
        /\ m2s.valid => shown(text, pc) = {m2s} /\ shown_tags(text, pc) = {m2s.tag}
BY DEF Follows, FollowsText, PinsFollowText, shown_tags

\* The text's rules about the reference before the instruction running.
LEMMA TextRules ==
    Follows /\ running =>
        /\ pc \in 1 .. Len(text) /\ instr = text[pc] /\ ref \in References
        /\ ExpectsReference(text, pc, ref) /\ WaitsLongEnough(test, text, pc, ref)
BY RefText DEF Follows

-----------------------------------------------------------------------------
\* The host and the handshake

\* An edge takes the handshake one stage on; nothing else but a bias write changes the
\* bias table.
LEMMA HandshakeEdge ==
    ASSUME Follows, HostFollows, ClockEdge
    PROVE  /\ bi_state = "BI_IDLE" =>
                 /\ host' = host
                 /\ bi_state' = IF m2s.valid /\ bias[m2s.addr] THEN "BI_REQ" ELSE "BI_IDLE"
           /\ bi_state = "BI_REQ" =>
                 /\ bi_state' = "BI_WAIT_RSP"
                 /\ \E d \in RspDelays :
                       host' = [state |-> "waiting_to_respond", delay_left |-> d]
           /\ bi_state = "BI_WAIT_RSP" /\ host.state = "waiting_to_respond" =>
                 /\ bi_state' = "BI_WAIT_RSP"
                 /\ host' = IF host.delay_left > 0
                            THEN [host EXCEPT !.delay_left = host.delay_left - 1]
                            ELSE [host EXCEPT !.state = "offering_rsp"]
           /\ bi_state = "BI_WAIT_RSP" /\ host.state # "waiting_to_respond" =>
                 /\ bi_state' = "BI_IDLE"
                 /\ host' = [host EXCEPT !.state = "idle"]
           /\ instr.op # "bias_write" =>
                 bias' = IF bi_state = "BI_WAIT_RSP" /\ host.state # "waiting_to_respond"
                         THEN [bias EXCEPT ![m2s.addr] = FALSE] ELSE bias
<1>1. /\ host.state \in {"idle", "waiting_to_respond", "offering_rsp"}
      /\ host.state # "idle" <=> bi_state = "BI_WAIT_RSP"
      /\ test # "phase4" => bi_state = "BI_IDLE"
      /\ bi_state \in {"BI_IDLE", "BI_REQ", "BI_WAIT_RSP"}
  BY DEF HostFollows, Follows, BenchSound, EngineTypeOK
<1>2. /\ BiSequencer(bi_req_ready, bi_rsp_valid) /\ HostBiModelStep
      /\ instr.op # "bias_write" => BiasWrite(bi_rsp_valid, FALSE, m2s.addr, FALSE)
  BY DEF ClockEdge, Tick, Accept, WaitInLoop, BiasWritePulse, QuietEdge, BenchEdge, Clock, does
<1>3. /\ bi_req_ready <=> bi_state = "BI_REQ"
      /\ bi_rsp_valid <=> host.state = "offering_rsp"
      /\ bi_rsp_ready <=> bi_state = "BI_WAIT_RSP"
  BY <1>1 DEF bi_req_ready, bi_rsp_valid, bi_rsp_ready, bi_req_valid, host_runs
<1>4. bi_state = "BI_IDLE" =>
         /\ host' = host
         /\ bi_state' = IF m2s.valid /\ bias[m2s.addr] THEN "BI_REQ" ELSE "BI_IDLE"
  BY <1>1, <1>2, <1>3
     DEF BiSequencer, HostBiModelStep, want_bi, bias_query_rd_data, bi_req_valid, bi_flip_now
<1>5. bi_state = "BI_REQ" =>
         /\ bi_state' = "BI_WAIT_RSP"
         /\ \E d \in RspDelays : host' = [state |-> "waiting_to_respond", delay_left |-> d]
  BY <1>1, <1>2, <1>3 DEF BiSequencer, HostBiModelStep, want_bi, bi_req_valid, bi_flip_now
<1>6. bi_state = "BI_WAIT_RSP" /\ host.state = "waiting_to_respond" =>
         /\ bi_state' = "BI_WAIT_RSP"
         /\ host' = IF host.delay_left > 0
                    THEN [host EXCEPT !.delay_left = host.delay_left - 1]
                    ELSE [host EXCEPT !.state = "offering_rsp"]
  BY <1>1, <1>2, <1>3 DEF BiSequencer, HostBiModelStep, want_bi, bi_req_valid, bi_flip_now
<1>7. bi_state = "BI_WAIT_RSP" /\ host.state # "waiting_to_respond" =>
         /\ bi_state' = "BI_IDLE"
         /\ host' = [host EXCEPT !.state = "idle"]
  BY <1>1, <1>2, <1>3 DEF BiSequencer, HostBiModelStep, want_bi, bi_req_valid, bi_flip_now
<1>8. instr.op # "bias_write" =>
         bias' = IF bi_state = "BI_WAIT_RSP" /\ host.state # "waiting_to_respond"
                 THEN [bias EXCEPT ![m2s.addr] = FALSE] ELSE bias
  BY <1>1, <1>2, <1>3 DEF BiasWrite, bias_clock, bi_flip_now
<1>9. QED
  BY <1>1, <1>4, <1>5, <1>6, <1>7, <1>8

\* Host and handshake move together, and outside phase 4 there is no handshake.
LEMMA HostStep ==
    ASSUME Together, HostFollows, [BenchNext]_benchVars
    PROVE  HostFollows'
<1>1. Follows /\ ControlOK /\ BenchSound /\ test' = test
  BY BenchCases DEF Together, Follows
<1>2. /\ host \in [state : {"idle", "waiting_to_respond", "offering_rsp"}, delay_left : Nat]
      /\ \E delay \in RspDelays : host.delay_left <= delay
      /\ host.state # "idle" <=> bi_state = "BI_WAIT_RSP"
      /\ test # "phase4" => bi_state = "BI_IDLE"
      /\ bi_state \in {"BI_IDLE", "BI_REQ", "BI_WAIT_RSP"}
      /\ RspDelays \subseteq Nat
  BY <1>1, RspDelaysAssumption DEF HostFollows, BenchSound, EngineTypeOK
<1>3. CASE ClockEdge
  <2>1. running /\ pc \in 1 .. Len(text) /\ instr = text[pc]
    BY <1>1, <1>3, EdgeCases
  <2>2. m2s' = IF does("accept") THEN [m2s EXCEPT !.valid = FALSE] ELSE m2s
    BY <1>1, <1>3, EdgeIsClock DEF BenchSound
  <2>3. ASSUME m2s'.valid
        PROVE  m2s' = m2s /\ m2s.valid /\ instr.op # "bias_write"
    <3>1. m2s' = m2s /\ m2s.valid
      BY <1>1, <2>2, <2>3 DEF BenchSound, EngineTypeOK, M2S
    <3>2. shown(text, pc) # {}
      BY <1>1, <2>1, <3>1, ShownIsPort
    <3>3. QED
      BY <1>1, <2>1, <3>1, <3>2, AttentiveText DEF FiresInTurn
  <2>4. /\ host' \in [state : {"idle", "waiting_to_respond", "offering_rsp"}, delay_left : Nat]
        /\ \E delay \in RspDelays : host'.delay_left <= delay
    <3>1. CASE bi_state = "BI_WAIT_RSP" /\ host.state = "waiting_to_respond" /\ host.delay_left > 0
      BY <1>1, <1>2, <1>3, <3>1, HandshakeEdge
    <3>2. CASE ~(bi_state = "BI_WAIT_RSP" /\ host.state = "waiting_to_respond" /\ host.delay_left > 0)
      BY <1>1, <1>2, <1>3, <3>2, HandshakeEdge
    <3>3. QED
      BY <3>1, <3>2
  <2>5. host'.state # "idle" <=> bi_state' = "BI_WAIT_RSP"
    BY <1>1, <1>2, <1>3, HandshakeEdge
  <2>6. ASSUME test # "phase4"
        PROVE  bi_state' = "BI_IDLE" /\ (m2s'.valid => ~bias'[m2s'.addr])
    <3>1. m2s.valid => ~bias[m2s.addr]
      BY <2>1, <2>6 DEF HostFollows
    <3>2. QED
      BY <1>1, <1>2, <1>3, <2>3, <2>6, <3>1, HandshakeEdge
  <2>7. QED
    BY <1>1, <2>4, <2>5, <2>6 DEF HostFollows
<1>4. CASE MovesOn
  <2>1. /\ UNCHANGED <<host, bi_state, bias>> /\ running
        /\ m2s' = IF does("present") THEN instr.m2s ELSE m2s
    BY <1>1, <1>4, BetweenKeepsEngine DEF MovesOn, BetweenEdges, engineVars, BenchSound
  <2>2. ASSUME test # "phase4", m2s'.valid
        PROVE  ~bias[m2s'.addr]
    <3>1. CASE does("present")
      <4>1. /\ pc \in 1 .. Len(text) /\ instr = text[pc] /\ text[pc].op = "present"
            /\ DrivesSettled(text, pc, ref) /\ WaitsLongEnough(test, text, pc, ref)
        BY <1>1, <2>1, <3>1, RefText DEF does
      <4>2. shown(text, pc + 1) = {m2s'}
        BY <1>1, <2>1, <3>1, <4>1, ShownStep DEF ControlOK, does
      <4>3. ~ref.bias[m2s'.addr]
        BY <2>2, <4>1, <4>2 DEF WaitsLongEnough
      <4>4. bias = ref.bias
        BY <2>1, <3>1, <4>1 DEF Together, EngineFollowsReference, DrivesSettled, untouched, loops
      <4>5. QED
        BY <4>3, <4>4
    <3>2. CASE ~does("present")
      BY <2>1, <2>2, <3>2 DEF HostFollows
    <3>3. QED
      BY <3>1, <3>2
  <2>3. QED
    BY <1>1, <1>2, <2>1, <2>2 DEF HostFollows
<1>5. CASE UNCHANGED benchVars
  BY <1>5 DEF HostFollows, benchVars, testVars, engineVars, running
<1>6. Executes \/ WaitsOn => ClockEdge
  BY DEF Executes, WaitsOn, ClockEdge
<1>7. QED
  BY <1>1, <1>3, <1>4, <1>5, <1>6, BenchCases

-----------------------------------------------------------------------------
\* Every loop ends before its guard.

\* The guard counts the edges of a loop, from none.
LEMMA GuardStep ==
    ASSUME ControlOK, guard \in Nat, [BenchNext]_benchVars
    PROVE  /\ guard' \in Nat
           /\ Executes \/ MovesOn => guard' = 0
           /\ WaitsOn => guard' = IF instr.limit = Unguarded THEN 0 ELSE guard + 1
<1>1. Executes => guard' = 0
  BY DEF Executes, ClockEdge, Tick, Accept, BiasWritePulse, WaitInLoop, loops, GoOn
<1>2. MovesOn => guard' = 0
  BY DEF MovesOn, BetweenEdges, LeaveLoop, DrivePins, Save, Check, GoOn
<1>3. WaitsOn => guard' = IF instr.limit = Unguarded THEN 0 ELSE guard + 1
  BY DEF WaitsOn, WaitInLoop
<1>4. QED
  BY <1>1, <1>2, <1>3, BenchCases DEF benchVars, testVars

\* A loop that has left some of its guard goes on with what is left of it.
LEMMA LeavesStep ==
    ASSUME guard \in Nat, NEW limit, NEW c \in Nat \ {0}, leaves(limit, guard + c),
           NEW d \in Nat, d < c, guard' = IF limit = Unguarded THEN 0 ELSE guard + 1
    PROVE  guard # limit /\ leaves(limit, guard' + d)
<1>1. CASE limit = Unguarded
  BY <1>1 DEF leaves, Unguarded
<1>2. CASE limit # Unguarded
  <2>1. limit \in Nat /\ limit >= guard + c /\ guard' = guard + 1
    BY <1>2 DEF leaves
  <2>2. guard + c > guard /\ guard + c >= guard' + d
    BY <2>1
  <2>3. limit # guard
    BY <2>1, <2>2
  <2>4. limit >= guard' + d
    BY <2>1, <2>2
  <2>5. QED
    BY <2>3, <2>4 DEF leaves
<1>3. QED
  BY <1>1, <1>2

\* A guard that leaves time for so many edges leaves it for fewer.
LEMMA LeavesLess ==
    ASSUME NEW limit, NEW c \in Nat, NEW d \in Nat, leaves(limit, c), d <= c
    PROVE  leaves(limit, d)
BY DEF leaves

\* A wait for m2s_ready finds its request on the port, with a tag that is free.
LEMMA ReadyLoopPort ==
    Follows /\ running /\ instr.op \in ready_loops => m2s.valid /\ ~slot_valid[m2s.tag]
<1> SUFFICES ASSUME Follows, running, instr.op \in ready_loops
             PROVE  m2s.valid /\ ~slot_valid[m2s.tag]
  OBVIOUS
<1>1. /\ pc \in 1 .. Len(text) /\ instr = text[pc] /\ FiresInTurn(text, pc)
      /\ WaitsLongEnough(test, text, pc, ref)
  BY TextRules, AttentiveText DEF Follows
<1>2. m2s.valid /\ shown_tags(text, pc) = {m2s.tag}
  BY <1>1, ShownIsPort DEF FiresInTurn
<1>3. owed(text, pc) = occupied
  BY OwedIsOccupied DEF does, ready_loops
<1>4. m2s.tag \notin occupied
  BY <1>1, <1>2, <1>3 DEF WaitsLongEnough
<1>5. m2s.tag \in Tag
  BY PortFields DEF Follows, BenchSound, EngineTypeOK
<1>6. QED
  BY <1>2, <1>4, <1>5 DEF occupied

\* It begins with time for a Back-Invalidate and a flush, in phase 4, or else for a
\* flush.
LEMMA ReadyLoopBegins ==
    Follows /\ HostFollows /\ guard = 0 => ReadyLoopsEnd
<1> SUFFICES ASSUME Follows, HostFollows, guard = 0, running, instr.op \in ready_loops,
                    NEW d \in RspDelays
             PROVE  leaves(instr.limit, guard + cycles_to_ready(d))
  BY DEF ReadyLoopsEnd
<1>1. m2s.valid
  BY ReadyLoopPort
<1>2. /\ host.delay_left \in Nat /\ d \in Nat /\ RspDelays \subseteq Nat
      /\ \E e \in RspDelays : host.delay_left <= e
  BY RspDelaysAssumption DEF HostFollows
<1>3. cycles_to_ready(d) \in Nat
  BY <1>2 DEF cycles_to_ready
<1>4. /\ test = "phase4" => \A e \in RspDelays : leaves(instr.limit, e + 6)
      /\ test # "phase4" => leaves(instr.limit, 2)
  BY TextRules DEF WaitsLongEnough
<1>5. CASE test = "phase4"
  <2>1. PICK e \in RspDelays : cycles_to_ready(d) <= e + 6
    BY <1>2 DEF cycles_to_ready
  <2>2. leaves(instr.limit, e + 6) /\ e + 6 \in Nat
    BY <1>2, <1>4, <1>5
  <2>3. leaves(instr.limit, cycles_to_ready(d))
    BY <1>3, <2>1, <2>2, LeavesLess
  <2>4. QED
    BY <1>3, <2>3
<1>6. CASE test # "phase4"
  <2>1. bi_state = "BI_IDLE" /\ ~bias[m2s.addr]
    BY <1>1, <1>6 DEF HostFollows
  <2>2. cycles_to_ready(d) <= 2
    BY <2>1 DEF cycles_to_ready
  <2>3. leaves(instr.limit, cycles_to_ready(d))
    BY <1>3, <1>4, <1>6, <2>2, LeavesLess
  <2>4. QED
    BY <1>3, <2>3
<1>7. QED
  BY <1>5, <1>6

\* Each edge that the wait takes brings it nearer to its end: to the request for a
\* Back-Invalidate, through the host's delay to the answer, through the flush.
LEMMA ReadyLoopNears ==
    ASSUME Follows, HostFollows, WaitInLoop, running, instr.op \in ready_loops,
           NEW d \in RspDelays
    PROVE  \E e \in RspDelays : cycles_to_ready(d)' < cycles_to_ready(e)
<1>1. m2s.valid /\ ~slot_valid[m2s.tag]
  BY ReadyLoopPort
<1>2. ClockEdge /\ ~m2s_ready /\ m2s' = m2s /\ cache_bypass_en' = cache_bypass_en
  BY DEF ClockEdge, WaitInLoop, loop_is_done, does, ready_loops, QuietEdge, BenchEdge
<1>3. /\ host \in [state : {"idle", "waiting_to_respond", "offering_rsp"}, delay_left : Nat]
      /\ host.state # "idle" <=> bi_state = "BI_WAIT_RSP"
      /\ d \in Nat /\ RspDelays \subseteq Nat
  BY RspDelaysAssumption DEF HostFollows
<1>4. /\ bi_state \in {"BI_IDLE", "BI_REQ", "BI_WAIT_RSP"}
      /\ flush_state \in {"FLUSH_IDLE", "FLUSH_ACTIVE"}
      /\ flush_state = "FLUSH_ACTIVE" => bi_state = "BI_IDLE"
      /\ m2s.addr \in Addr /\ bias \in [Addr -> BOOLEAN] /\ m2s_idx \in Line
      /\ cache_dirty \in [Line -> BOOLEAN]
  BY PortFields DEF Follows, BenchSound, EngineTypeOK, BiasTypeOK, FlushBiExclusive
<1>5. instr.op # "bias_write"
  BY DEF ready_loops
<1>6. EvictionFlush /\ CacheArrays
  BY DEF WaitInLoop, QuietEdge, BenchEdge, Clock
<1>7. flush_state' = IF want_flush THEN "FLUSH_ACTIVE" ELSE "FLUSH_IDLE"
  BY <1>6 DEF EvictionFlush
<1>8. CASE bi_state = "BI_REQ"
  <2>1. PICK e \in RspDelays : host' = [state |-> "waiting_to_respond", delay_left |-> e]
    BY <1>2, <1>8, HandshakeEdge
  <2>2. bi_state' = "BI_WAIT_RSP"
    BY <1>2, <1>8, HandshakeEdge
  <2>3. cycles_to_ready(d)' = e + 4
    BY <2>1, <2>2 DEF cycles_to_ready
  <2>4. cycles_to_ready(e) = e + 5
    BY <1>8 DEF cycles_to_ready
  <2>5. QED
    BY <1>3, <2>3, <2>4
<1>9. CASE bi_state = "BI_WAIT_RSP" /\ host.state = "waiting_to_respond"
  <2>1. cycles_to_ready(d) = host.delay_left + 4
    BY <1>9 DEF cycles_to_ready
  <2>2. bi_state' = "BI_WAIT_RSP"
    BY <1>2, <1>9, HandshakeEdge
  <2>3. CASE host.delay_left > 0
    <3>1. host'.state = "waiting_to_respond" /\ host'.delay_left = host.delay_left - 1
      BY <1>2, <1>3, <1>9, <2>3, HandshakeEdge
    <3>2. cycles_to_ready(d)' = host.delay_left + 3
      BY <1>3, <2>2, <3>1 DEF cycles_to_ready
    <3>3. QED
      BY <1>3, <2>1, <3>2
  <2>4. CASE ~(host.delay_left > 0)
    <3>1. host'.state = "offering_rsp"
      BY <1>2, <1>3, <1>9, <2>4, HandshakeEdge
    <3>2. cycles_to_ready(d)' = 3
      BY <2>2, <3>1 DEF cycles_to_ready
    <3>3. QED
      BY <1>3, <2>1, <3>2
  <2>5. QED
    BY <2>3, <2>4
<1>10. CASE bi_state = "BI_WAIT_RSP" /\ host.state # "waiting_to_respond"
  <2>1. cycles_to_ready(d) = 3
    BY <1>10 DEF cycles_to_ready
  <2>2. bi_state' = "BI_IDLE" /\ bias' = [bias EXCEPT ![m2s.addr] = FALSE]
    BY <1>2, <1>5, <1>10, HandshakeEdge
  <2>3. flush_state' = "FLUSH_IDLE"
    BY <1>7, <1>10 DEF want_flush
  <2>4. cycles_to_ready(d)' <= 2 /\ cycles_to_ready(d)' \in Nat
    BY <1>2, <1>4, <2>2, <2>3 DEF cycles_to_ready
  <2>5. QED
    BY <2>1, <2>4
<1>11. CASE bi_state = "BI_IDLE" /\ bias[m2s.addr]
  <2>1. cycles_to_ready(d) = d + 6
    BY <1>11 DEF cycles_to_ready
  <2>2. cycles_to_ready(d)' = d + 5
    BY <1>1, <1>2, <1>11, HandshakeEdge DEF cycles_to_ready
  <2>3. QED
    BY <1>3, <2>1, <2>2
<1>12. CASE bi_state = "BI_IDLE" /\ ~bias[m2s.addr]
  <2>1. bi_state' = "BI_IDLE" /\ bias' = bias
    BY <1>2, <1>5, <1>12, HandshakeEdge
  <2>2. CASE flush_state = "FLUSH_ACTIVE"
    <3>1. cycles_to_ready(d) = 1
      BY <1>12, <2>2 DEF cycles_to_ready
    <3>2. flush_state' = "FLUSH_IDLE"
      BY <1>7, <2>2 DEF want_flush
    <3>3. ~cache_dirty'[m2s_idx]
      BY <1>4, <1>6, <2>2
         DEF CacheArrays, cache_flush, cache_write, cache_fill, cache_hold, cache_allocates,
             do_flush_write_this_cycle
    <3>4. ~need_evict_writeback'
      BY <1>2, <3>3 DEF need_evict_writeback, m2s_idx
    <3>5. cycles_to_ready(d)' = 0
      BY <1>2, <1>12, <2>1, <3>2, <3>4 DEF cycles_to_ready
    <3>6. QED
      BY <3>1, <3>5
  <2>3. CASE flush_state # "FLUSH_ACTIVE"
    <3>1. need_evict_writeback /\ want_flush
      BY <1>1, <1>2, <1>4, <1>12, <2>3 DEF m2s_ready, bias_query_rd_data, want_flush
    <3>2. cycles_to_ready(d) = 2
      BY <1>12, <2>3, <3>1 DEF cycles_to_ready
    <3>3. cycles_to_ready(d)' = 1
      BY <1>2, <1>7, <1>12, <2>1, <3>1 DEF cycles_to_ready
    <3>4. QED
      BY <3>2, <3>3
  <2>4. QED
    BY <2>2, <2>3
<1>13. QED
  BY <1>4, <1>8, <1>9, <1>10, <1>11, <1>12

\* So a wait for m2s_ready goes on within its guard;
LEMMA ReadyLoopWaits ==
    ASSUME Follows, HostFollows, HostFollows', guard \in Nat, ReadyLoopsEnd, WaitsOn,
           [BenchNext]_benchVars, instr.op \in ready_loops
    PROVE  guard # instr.limit /\ ReadyLoopsEnd'
<1>1. WaitInLoop /\ running /\ ControlOK
  BY DEF WaitsOn, Follows
<1>2. ASSUME HostFollows, NEW d \in RspDelays
      PROVE  cycles_to_ready(d) \in Nat
  <2>1. d \in Nat /\ host.delay_left \in Nat
    BY <1>2, RspDelaysAssumption DEF HostFollows
  <2>2. QED
    BY <2>1 DEF cycles_to_ready
<1>3. ASSUME NEW d \in RspDelays
      PROVE  cycles_to_ready(d)' \in Nat
  <2>1. d \in Nat /\ host'.delay_left \in Nat
    BY RspDelaysAssumption DEF HostFollows
  <2>2. QED
    BY <2>1 DEF cycles_to_ready
<1>4. ASSUME NEW d \in RspDelays
      PROVE  guard # instr.limit /\ leaves(instr.limit, guard' + cycles_to_ready(d)')
  <2>1. PICK e \in RspDelays : cycles_to_ready(d)' < cycles_to_ready(e)
    BY <1>1, ReadyLoopNears
  <2>2. leaves(instr.limit, guard + cycles_to_ready(e))
    BY <1>1 DEF ReadyLoopsEnd
  <2>3. cycles_to_ready(e) \in Nat \ {0} /\ cycles_to_ready(d)' \in Nat
    BY <1>2, <1>3, <2>1
  <2>4. guard' = IF instr.limit = Unguarded THEN 0 ELSE guard + 1
    BY <1>1, GuardStep
  <2>5. QED
    BY <2>1, <2>2, <2>3, <2>4, LeavesStep
<1>5. guard # instr.limit
  <2>1. PICK d \in RspDelays : TRUE
    BY RspDelaysAssumption
  <2>2. QED
    BY <1>4, <2>1
<1>6. ReadyLoopsEnd'
  <2>1. SUFFICES ASSUME running', NEW d \in RspDelays
                 PROVE  leaves(instr'.limit, guard' + cycles_to_ready(d)')
    BY DEF ReadyLoopsEnd
  <2>2. instr' = instr
    BY <1>1, <2>1, RefMoves
  <2>3. QED
    BY <1>4, <2>2
<1>7. QED
  BY <1>5, <1>6

\* a wait for a Back-Invalidate takes one edge at most;
LEMMA BiLoopWaits ==
    ASSUME Follows, HostFollows, guard \in Nat, BiLoopsEnd, WaitsOn,
           [BenchNext]_benchVars, instr.op = "until_bi_req"
    PROVE  guard # instr.limit /\ bi_req_valid'
<1>1. WaitInLoop /\ running /\ does("until_bi_req") /\ ~bi_req_valid /\ ClockEdge
  BY DEF WaitsOn, WaitInLoop, does, loop_is_done, ClockEdge
<1>2. guard = 0
  BY <1>1 DEF BiLoopsEnd
<1>3. leaves(instr.limit, 1)
  BY <1>1, TextRules DEF WaitsLongEnough
<1>4. m2s.valid /\ bi_state = "BI_IDLE" /\ bias[m2s.addr]
  <2>1. bi_state = "BI_IDLE" /\ bias[m2s.addr]
    BY <1>1 DEF Follows, FollowsText, BiFollowsText
  <2>2. pc \in Nat \ {0} /\ pc > 2 /\ text[pc - 1].op = "present"
    BY <1>1, TextRules, AttentiveText DEF Follows, ControlOK, ProvokesBi
  <2>3. pc - 1 \in Nat \ {0} /\ (pc - 1) + 1 = pc
    BY <2>2
  <2>4. shown(text, (pc - 1) + 1) = {text[pc - 1].m2s}
    BY <2>2, <2>3, ShownStep
  <2>5. shown(text, pc) # {}
    BY <2>3, <2>4
  <2>6. QED
    BY <1>1, <2>1, <2>5, ShownIsPort
<1>5. bi_state' = "BI_REQ"
  BY <1>1, <1>4, HandshakeEdge
<1>6. QED
  BY <1>2, <1>3, <1>5 DEF leaves, Unguarded, bi_req_valid

\* What an edge that fires nothing does to the slots, and to the offer.
LEMMA SlotsCountDown ==
    ASSUME Follows, ClockEdge, ~accepts(text, pc)
    PROVE  /\ occupied' = occupied \ (IF resp_active /\ s2m_ready THEN {resp_tag_r} ELSE {})
           /\ \A t \in occupied' :
                 slot_cnt'[t] = IF slot_cnt[t] = 0 THEN 0 ELSE slot_cnt[t] - 1
           /\ \A t \in occupied : slot_cnt[t] \in 0 .. ReadExtraLatency
           /\ ~resp_active /\ ~resp_active' => \A t \in occupied : slot_cnt[t] # 0
           /\ ~resp_active /\ resp_active' =>
                 resp_tag_r' \in occupied /\ slot_cnt[resp_tag_r'] = 0
           /\ resp_active /\ s2m_ready => ~resp_active'
           /\ resp_active => resp_tag_r \in occupied /\ slot_cnt[resp_tag_r] = 0
<1>1. ControlOK /\ BenchSound /\ FollowsText
  BY DEF Follows
<1>2. PICK ack, rsp, set, b \in BOOLEAN, a \in Addr : Clock(s2m_ready, ack, rsp, set, a, b)
  BY <1>1, EdgeIsClock DEF BenchSound
<1>3. ~accept_this_cycle /\ s2m_ready \in BOOLEAN
  BY <1>1, AcceptsAsText DEF BenchSound
<1>4. \A t \in occupied' : slot_cnt'[t] = IF slot_cnt[t] = 0 THEN 0 ELSE slot_cnt[t] - 1
  BY <1>1, <1>2, <1>3, SlotsAtEdge
<1>5. occupied' = occupied \ (IF resp_active /\ s2m_ready THEN {resp_tag_r} ELSE {})
  BY <1>1, EdgeBesideText
<1>6. \A t \in occupied : slot_cnt[t] \in 0 .. ReadExtraLatency
  BY <1>1 DEF BenchSound, EngineTypeOK, occupied
<1>7. Response(s2m_ready)
  BY <1>2 DEF Clock
<1>8. ~resp_active /\ ~resp_active' => \A t \in occupied : slot_cnt[t] # 0
  BY <1>7 DEF Response, arb_found, slot_done, occupied
<1>9. ~resp_active /\ resp_active' => resp_tag_r' \in occupied /\ slot_cnt[resp_tag_r'] = 0
  BY <1>7 DEF Response, arb_selects, slot_done, occupied
<1>10. resp_active /\ s2m_ready => ~resp_active'
  BY <1>7 DEF Response
<1>11. resp_active => resp_tag_r \in occupied /\ slot_cnt[resp_tag_r] = 0
  BY <1>1 DEF BenchSound, EngineTypeOK, ResponseIsOwed, slot_done, occupied
<1>12. QED
  BY <1>4, <1>5, <1>6, <1>8, <1>9, <1>10, <1>11

\* a wait for an answer takes no more than the latency;
LEMMA AnswerLoopWaits ==
    ASSUME Follows, guard \in Nat, AnswerLoopsEnd, WaitsOn,
           [BenchNext]_benchVars, instr.op \in answer_loops
    PROVE  /\ guard # instr.limit
           /\ ~resp_active' =>
                 \A t \in occupied' : guard' + slot_cnt'[t] <= ReadExtraLatency
<1>1. /\ WaitInLoop /\ running /\ ~loop_is_done /\ ClockEdge /\ ControlOK
      /\ ~does("drain") /\ instr = text[pc]
  BY RunningInText DEF WaitsOn, WaitInLoop, does, ClockEdge, answer_loops, Follows
<1>2. owed(text, pc) = occupied /\ ~accepts(text, pc)
  BY <1>1, OwedIsOccupied DEF accepts, answer_loops
<1>3. /\ occupied # {} /\ leaves(instr.limit, ReadExtraLatency + 1)
      /\ instr.op = "until_valid_tag" => occupied = {instr.tag}
  BY <1>1, <1>2, TextRules DEF WaitsLongEnough
<1>4. ~resp_active
  BY <1>1, <1>2, <1>3, SlotsCountDown DEF loop_is_done, does, answer_loops, s2m_valid, s2m_tag
<1>5. \A t \in occupied : guard + slot_cnt[t] <= ReadExtraLatency
  BY <1>1, <1>4 DEF AnswerLoopsEnd
<1>6. guard <= ReadExtraLatency
  BY <1>1, <1>2, <1>3, <1>5, SlotsCountDown, LatencyAssumption
<1>7. guard # instr.limit
  BY <1>3, <1>6, LatencyAssumption DEF leaves, Unguarded
<1>8. guard' <= guard + 1 /\ guard' \in Nat
  BY <1>1, GuardStep
<1>9. ASSUME ~resp_active', NEW t \in occupied'
      PROVE  guard' + slot_cnt'[t] <= ReadExtraLatency
  <2>1. t \in occupied /\ slot_cnt[t] # 0 /\ slot_cnt[t] \in 0 .. ReadExtraLatency
    BY <1>1, <1>2, <1>4, <1>9, SlotsCountDown
  <2>2. slot_cnt'[t] = slot_cnt[t] - 1
    BY <1>1, <1>2, <1>9, <2>1, SlotsCountDown
  <2>3. QED
    BY <1>5, <1>8, <2>1, <2>2, LatencyAssumption
<1>10. QED
  BY <1>7, <1>9

\* A drain loop is done when every answer owed has been noted, and before that has
\* noted fewer than it counts to.
LEMMA DrainIsDone ==
    Follows /\ does("drain") =>
        /\ instr.n \in Nat /\ Len(answers) \in Nat
        /\ loop_is_done <=> occupied = {}
        /\ ~loop_is_done => Len(answers) + 1 <= instr.n
<1> SUFFICES ASSUME Follows, does("drain")
             PROVE  /\ instr.n \in Nat /\ Len(answers) \in Nat
                    /\ loop_is_done <=> occupied = {}
                    /\ ~loop_is_done => Len(answers) + 1 <= instr.n
  OBVIOUS
<1>1. /\ running /\ AnswersOK /\ ControlOK /\ pc \in 1 .. Len(text) /\ instr = text[pc]
  BY TextRules DEF does, Follows
<1>2. /\ owed(text, pc) = occupied \cup noted_tags
      /\ occupied \cap noted_tags = {}
      /\ Cardinality(noted_tags) = Len(answers)
  BY <1>1 DEF Follows, FollowsText, SlotsFollowText
<1>3. instr.n = Cardinality(owed(text, pc))
  BY <1>1, AttentiveText DEF TakesWhatItSaw, does
<1>4. loop_is_done <=> instr.n = Cardinality(noted_tags)
  BY <1>1, <1>2, NotedTags DEF loop_is_done, does
<1>5. IsFiniteSet(owed(text, pc)) /\ noted_tags \subseteq owed(text, pc)
  <2>1. owed(text, pc) \subseteq Tag
    BY <1>1, <1>2, NotedTags DEF occupied
  <2>2. QED
    BY <1>1, <1>2, <2>1, NotedTags, FS_Subset
<1>6. /\ Cardinality(noted_tags) \in Nat /\ Cardinality(owed(text, pc)) \in Nat
      /\ Cardinality(noted_tags) <= Cardinality(owed(text, pc))
      /\ Cardinality(noted_tags) = Cardinality(owed(text, pc)) => noted_tags = owed(text, pc)
  BY <1>5, FS_Subset, FS_CardinalityType
<1>7. loop_is_done <=> occupied = {}
  BY <1>2, <1>3, <1>4, <1>6
<1>8. ~loop_is_done => Len(answers) + 1 <= instr.n
  BY <1>2, <1>3, <1>4, <1>6
<1>9. QED
  BY <1>2, <1>3, <1>6, <1>7, <1>8

\* and a drain loop no more than the latency, and two edges for each answer.
LEMMA DrainWaits ==
    ASSUME Follows, guard \in Nat, AnswerLoopsEnd, WaitsOn, [BenchNext]_benchVars, does("drain")
    PROVE  /\ guard # instr.limit
           /\ \A t \in occupied' :
                 slot_cnt'[t] > 0 => guard' + slot_cnt'[t] <= ReadExtraLatency
           /\ guard' <= ReadExtraLatency + 2 * Len(answers') + IF resp_active' THEN 1 ELSE 0
<1>1. /\ WaitInLoop /\ running /\ ~loop_is_done /\ ClockEdge /\ ControlOK /\ AnswersOK
      /\ instr.op = "drain" /\ pc \in 1 .. Len(text) /\ instr = text[pc]
      /\ resp_active \in BOOLEAN /\ resp_active' \in BOOLEAN
  <2>1. resp_active \in BOOLEAN
    BY DEF Follows, BenchSound, EngineTypeOK
  <2>2. resp_active' \in BOOLEAN
    BY StepBenchSound DEF Follows, BenchSound, EngineTypeOK
  <2>3. QED
    BY <2>1, <2>2, TextRules DEF WaitsOn, WaitInLoop, does, ClockEdge, Follows
<1>2. ~accepts(text, pc) /\ s2m_ready
  BY <1>1, DrainHasBegun DEF accepts, Follows, FollowsText, PinsFollowText
<1>3. occupied # {} /\ Len(answers) + 1 <= instr.n /\ instr.n \in Nat /\ Len(answers) \in Nat
  BY <1>1, DrainIsDone
<1>4. /\ \A t \in occupied : slot_cnt[t] > 0 => guard + slot_cnt[t] <= ReadExtraLatency
      /\ guard <= ReadExtraLatency + 2 * Len(answers) + IF resp_active THEN 1 ELSE 0
  BY DEF AnswerLoopsEnd
<1>5. leaves(instr.limit, ReadExtraLatency + 2 * instr.n)
  BY <1>1, TextRules DEF WaitsLongEnough
<1>6. guard # instr.limit
  <2>1. guard < ReadExtraLatency + 2 * instr.n
    BY <1>1, <1>3, <1>4, LatencyAssumption
  <2>2. QED
    BY <1>3, <1>5, <2>1, LatencyAssumption DEF leaves, Unguarded
<1>7. guard' <= guard + 1 /\ guard' \in Nat
  BY <1>1, GuardStep
<1>8. ASSUME NEW t \in occupied', slot_cnt'[t] > 0
      PROVE  guard' + slot_cnt'[t] <= ReadExtraLatency
  <2>1. t \in occupied /\ slot_cnt[t] \in 0 .. ReadExtraLatency
    BY <1>1, <1>2, SlotsCountDown
  <2>2. slot_cnt[t] # 0 /\ slot_cnt'[t] = slot_cnt[t] - 1
    BY <1>1, <1>2, <1>8, SlotsCountDown
  <2>3. QED
    BY <1>4, <1>7, <2>1, <2>2, LatencyAssumption
<1>9. guard' <= ReadExtraLatency + 2 * Len(answers') + IF resp_active' THEN 1 ELSE 0
  <2>1. answers' = IF resp_active THEN Append(answers, answer) ELSE answers
    BY <1>1 DEF WaitInLoop, s2m_valid
  <2>2. CASE resp_active
    <3>1. Len(answers') = Len(answers) + 1
      BY <1>1, <2>1, <2>2 DEF AnswersOK
    <3>2. QED
      BY <1>1, <1>3, <1>4, <1>7, <2>2, <3>1, LatencyAssumption
  <2>3. CASE ~resp_active /\ resp_active'
    <3>1. Len(answers') = Len(answers)
      BY <2>1, <2>3
    <3>2. QED
      BY <1>3, <1>4, <1>7, <2>3, <3>1, LatencyAssumption
  <2>4. CASE ~resp_active /\ ~resp_active'
    <3>1. PICK t \in occupied : slot_cnt[t] # 0 /\ slot_cnt[t] \in 0 .. ReadExtraLatency
      BY <1>1, <1>2, <1>3, <2>4, SlotsCountDown
    <3>2. guard + 1 <= ReadExtraLatency
      BY <1>4, <3>1, LatencyAssumption
    <3>3. Len(answers') = Len(answers)
      BY <2>1, <2>4
    <3>4. QED
      BY <1>3, <1>7, <2>4, <3>2, <3>3, LatencyAssumption
  <2>5. QED
    BY <2>2, <2>3, <2>4
<1>10. QED
  BY <1>6, <1>8, <1>9

\* Every loop begins with an empty guard, and the slots with the latency at most.
LEMMA AnswerLoopBegins == Follows /\ guard = 0 => BiLoopsEnd /\ AnswerLoopsEnd
<1> SUFFICES ASSUME Follows, guard = 0 PROVE BiLoopsEnd /\ AnswerLoopsEnd
  OBVIOUS
<1>1. \A t \in occupied : guard + slot_cnt[t] <= ReadExtraLatency
  BY LatencyAssumption DEF Follows, BenchSound, EngineTypeOK, occupied
<1>2. guard <= ReadExtraLatency + 2 * Len(answers) + IF resp_active THEN 1 ELSE 0
  BY LatencyAssumption, NotedTags DEF Follows
<1>3. QED
  BY <1>1, <1>2 DEF BiLoopsEnd, AnswerLoopsEnd

\* No loop runs into its guard: what is left of it never falls below what the loop can
\* still take.
Waits == HostFollows /\ guard \in Nat /\ ReadyLoopsEnd /\ BiLoopsEnd /\ AnswerLoopsEnd

LEMMA NoGuardRunsOut ==
    ASSUME Follows, Waits, HostFollows', WaitsOn, [BenchNext]_benchVars
    PROVE  guard # instr.limit /\ ReadyLoopsEnd' /\ BiLoopsEnd' /\ AnswerLoopsEnd'
<1>1. /\ HostFollows /\ guard \in Nat /\ ReadyLoopsEnd /\ BiLoopsEnd /\ AnswerLoopsEnd
      /\ ControlOK
  BY DEF Waits, Follows
<1>2. running' => instr' = instr
  BY <1>1, RefMoves
<1>3. instr.op \in ready_loops \cup answer_loops \cup {"until_bi_req", "drain"} /\ running
  BY DEF WaitsOn, WaitInLoop, loops, ready_loops, answer_loops
<1>4. CASE instr.op \in ready_loops
  <2>1. guard # instr.limit /\ ReadyLoopsEnd'
    BY <1>1, <1>4, ReadyLoopWaits
  <2>2. BiLoopsEnd' /\ AnswerLoopsEnd'
    BY <1>2, <1>4 DEF BiLoopsEnd, AnswerLoopsEnd, does, ready_loops, answer_loops
  <2>3. QED
    BY <2>1, <2>2
<1>5. CASE instr.op = "until_bi_req"
  <2>1. guard # instr.limit /\ bi_req_valid'
    BY <1>1, <1>5, BiLoopWaits
  <2>2. BiLoopsEnd'
    BY <2>1 DEF BiLoopsEnd
  <2>3. ReadyLoopsEnd' /\ AnswerLoopsEnd'
    BY <1>2, <1>5 DEF ReadyLoopsEnd, AnswerLoopsEnd, does, ready_loops, answer_loops
  <2>4. QED
    BY <2>1, <2>2, <2>3
<1>6. CASE instr.op \in answer_loops
  <2>1. /\ guard # instr.limit
        /\ ~resp_active' => \A t \in occupied' : guard' + slot_cnt'[t] <= ReadExtraLatency
    BY <1>1, <1>6, AnswerLoopWaits
  <2>2. AnswerLoopsEnd'
    BY <1>2, <1>6, <2>1 DEF AnswerLoopsEnd, does, answer_loops
  <2>3. ReadyLoopsEnd' /\ BiLoopsEnd'
    BY <1>2, <1>6 DEF ReadyLoopsEnd, BiLoopsEnd, does, ready_loops, answer_loops
  <2>4. QED
    BY <2>1, <2>2, <2>3
<1>7. CASE instr.op = "drain"
  <2>1. does("drain")
    BY <1>3, <1>7 DEF does
  <2>2. /\ guard # instr.limit
        /\ \A t \in occupied' :
              slot_cnt'[t] > 0 => guard' + slot_cnt'[t] <= ReadExtraLatency
        /\ guard' <= ReadExtraLatency + 2 * Len(answers') + IF resp_active' THEN 1 ELSE 0
    BY <1>1, <2>1, DrainWaits
  <2>3. AnswerLoopsEnd'
    BY <1>2, <1>7, <2>2 DEF AnswerLoopsEnd, answer_loops
  <2>4. ReadyLoopsEnd' /\ BiLoopsEnd'
    BY <1>2, <1>7 DEF ReadyLoopsEnd, BiLoopsEnd, does, ready_loops
  <2>5. QED
    BY <2>2, <2>3, <2>4
<1>8. QED
  BY <1>3, <1>4, <1>5, <1>6, <1>7

\* Every step keeps it so.
LEMMA WaitsStep ==
    ASSUME Together, Together', Waits, [BenchNext]_benchVars
    PROVE  Waits'
<1>1. /\ HostFollows /\ guard \in Nat /\ ReadyLoopsEnd /\ BiLoopsEnd /\ AnswerLoopsEnd
      /\ ControlOK /\ Follows /\ Follows'
  BY DEF Waits, Together, Follows
<1>2. HostFollows' /\ guard' \in Nat
  BY <1>1, HostStep, GuardStep
<1>3. CASE Executes \/ MovesOn
  <2>1. guard' = 0
    BY <1>1, <1>3, GuardStep
  <2>2. Follows' /\ HostFollows' /\ (guard = 0)' => ReadyLoopsEnd' /\ BiLoopsEnd' /\ AnswerLoopsEnd'
    BY ReadyLoopBegins, AnswerLoopBegins, PTL
  <2>3. QED
    BY <1>1, <1>2, <2>1, <2>2 DEF Waits
<1>4. CASE WaitsOn
  BY <1>1, <1>2, <1>4, NoGuardRunsOut DEF Waits
<1>5. CASE UNCHANGED benchVars
  <2>1. UNCHANGED <<engineVars, m2s, cache_bypass_en, host, guard, answers, test, pc>>
    BY <1>5 DEF benchVars, testVars
  <2>2. (running' <=> running) /\ instr' = instr /\ occupied' = occupied
    BY <2>1 DEF running, instr, occupied, engineVars, slotVars
  <2>3. ReadyLoopsEnd'
    <3>1. \A d \in RspDelays : cycles_to_ready(d)' = cycles_to_ready(d)
      BY <2>1 DEF cycles_to_ready, engineVars, cacheVars, need_evict_writeback, cache_hit, m2s_idx,
         m2s_cache_tag_field
    <3>2. QED
      BY <1>1, <2>1, <2>2, <3>1 DEF ReadyLoopsEnd
  <2>4. BiLoopsEnd'
    BY <1>1, <2>1, <2>2 DEF BiLoopsEnd, does, bi_req_valid, engineVars
  <2>5. AnswerLoopsEnd'
    BY <1>1, <2>1, <2>2 DEF AnswerLoopsEnd, does, engineVars, slotVars
  <2>6. QED
    BY <1>2, <2>3, <2>4, <2>5 DEF Waits
<1>6. QED
  BY <1>1, <1>3, <1>4, <1>5, BenchCases

-----------------------------------------------------------------------------
\* What the text knows without looking

\* A request that nothing stands in the way of is accepted at once:
LEMMA ImmediateAccepts ==
    Together /\ running /\ immediate(text, pc, ref) /\ bi_state = "BI_IDLE" => accept_this_cycle
<1> SUFFICES ASSUME Together, running, immediate(text, pc, ref), bi_state = "BI_IDLE"
             PROVE  accept_this_cycle
  OBVIOUS
<1>1. /\ Follows /\ BenchSound /\ pc \in 1 .. Len(text) /\ instr = text[pc]
      /\ instr.op = "until_ready" /\ ~does("drain") /\ FiresInTurn(text, pc)
  BY TextRules, AttentiveText DEF Together, Follows, immediate, does
<1>2. PICK s \in References : s = ref
  BY <1>1, TextRules
<1>3. /\ CacheIs(s) /\ (untouched(s) \/ half_done(s))
      /\ immediate(text, pc, s)
  BY <1>2 DEF Together, EngineFollowsReference
<1>4. m2s.valid /\ shown(text, pc) = {m2s}
  BY <1>1, ShownIsPort DEF FiresInTurn, ready_loops
<1>5. ~s.bias[m2s.addr] /\ ~victim(s, m2s) /\ m2s.tag \notin owed(text, pc)
  BY <1>3, <1>4 DEF immediate
<1>6. m2s.addr \in Addr /\ m2s.tag \in Tag /\ s.bias \in [Addr -> BOOLEAN]
  BY <1>1, PortFields, ReferenceFields DEF BenchSound, EngineTypeOK
<1>7. ~slot_valid[m2s.tag]
  BY <1>1, <1>5, <1>6, OwedIsOccupied DEF occupied
<1>8. ~bias[m2s.addr]
  BY <1>3, <1>5, <1>6 DEF untouched, half_done, put
<1>9. cache_dirty = s.cache_dirty /\ flush_state = "FLUSH_IDLE"
  BY <1>3, <1>5 DEF untouched, half_done, flushed_dirty
<1>10. ~need_evict_writeback
  BY <1>1, <1>3, <1>5, <1>9, RequestAsReference DEF CacheIs
<1>11. QED
  BY <1>4, <1>7, <1>8, <1>9, <1>10 DEF accept_this_cycle, m2s_ready, bias_query_rd_data

\* the wait for it takes no edge.
LEMMA ImmediateStep ==
    ASSUME Together, Together', ImmediateFollows, [BenchNext]_benchVars
    PROVE  ImmediateFollows'
<1> SUFFICES ASSUME running', immediate(text, pc, ref)'
             PROVE  accept_this_cycle'
  BY DEF ImmediateFollows
<1>1. /\ Follows /\ ControlOK /\ BenchSound /\ running /\ text' = text /\ pc \in 1 .. Len(text)
      /\ instr = text[pc]
  BY RefMoves, TextRules DEF Together, Follows
<1>2. /\ pc' > 1 /\ text[pc'].op = "until_ready" /\ text[pc' - 1].op = "present"
      /\ shown(text, pc' - 1) = {}
  BY <1>1 DEF immediate
<1>3. CASE Executes
  BY <1>1, <1>2, <1>3 DEF Executes
<1>4. CASE WaitsOn
  <2>1. pc' = pc /\ immediate(text, pc, ref) /\ instr.op = "until_ready"
    BY <1>1, <1>2, <1>4, RefMoves
  <2>2. loop_is_done
    BY <1>1, <2>1 DEF ImmediateFollows, accept_this_cycle, loop_is_done, does
  <2>3. QED
    BY <1>4, <2>2 DEF WaitsOn, WaitInLoop
<1>5. CASE MovesOn
  <2>1. pc' = pc + 1 /\ UNCHANGED engineVars
    BY <1>5 DEF MovesOn, BetweenEdges
  <2>2. shown(text, pc) = {}
    BY <1>1, <1>2, <2>1
  <2>3. bi_state' = "BI_IDLE"
    BY <1>1, <2>1, <2>2, ShownIsPort DEF Follows, FollowsText, BiFollowsText, engineVars
  <2>4. (Together /\ running /\ immediate(text, pc, ref) /\ bi_state = "BI_IDLE" =>
            accept_this_cycle)'
    BY ImmediateAccepts, PTL
  <2>5. QED
    BY <2>3, <2>4
<1>6. CASE UNCHANGED benchVars
  <2>1. immediate(text, pc, ref)
    BY <1>6 DEF benchVars, testVars, ref, text
  <2>2. accept_this_cycle
    BY <1>1, <2>1 DEF ImmediateFollows
  <2>3. QED
    BY <1>6, <2>2 DEF benchVars, engineVars, cacheVars, slotVars, accept_this_cycle, m2s_ready,
       bias_query_rd_data, need_evict_writeback, cache_hit, m2s_idx, m2s_cache_tag_field
<1>7. QED
  BY <1>1, <1>3, <1>4, <1>5, <1>6, BenchCases

\* The Back-Invalidate that phase 4 watches for comes.
LEMMA WatchStep ==
    ASSUME Together, Together', HostFollows, WatchFollows, [BenchNext]_benchVars
    PROVE  WatchFollows'
<1> SUFFICES ASSUME running', instr'.op = "until_ready_watching_bi"
             PROVE  /\ m2s'.addr = instr'.addr
                    /\ \/ saw_bi' \/ bi_req_valid'
                       \/ bi_state' = "BI_IDLE" /\ bias'[m2s'.addr]
  BY DEF WatchFollows, does
<1>1. /\ Follows /\ Follows' /\ ControlOK /\ BenchSound /\ running /\ text' = text
      /\ test' = test /\ pc \in 1 .. Len(text) /\ instr = text[pc]
  BY RefMoves, TextRules DEF Together, Follows
<1>2. /\ pc' \in 1 .. Len(text) /\ instr' = text[pc']
      /\ WaitsLongEnough(test, text, pc', ref')
  <2>1. (Follows /\ running =>
            /\ pc \in 1 .. Len(text) /\ instr = text[pc] /\ ref \in References
            /\ ExpectsReference(text, pc, ref) /\ WaitsLongEnough(test, text, pc, ref))'
    BY TextRules, PTL
  <2>2. QED
    BY <1>1, <2>1
<1>3. /\ pc' > 1 /\ text[pc' - 1].op = "present" /\ shown(text, pc' - 1) = {}
      /\ \A r \in shown(text, pc') : r.addr = instr'.addr /\ ref'.bias[r.addr]
  BY <1>2 DEF WaitsLongEnough
<1>4. CASE Executes
  BY <1>1, <1>3, <1>4 DEF Executes
<1>5. CASE WaitsOn
  <2>1. /\ instr' = instr /\ does("until_ready_watching_bi") /\ m2s' = m2s /\ ClockEdge
        /\ saw_bi' = (saw_bi \/ sees_bi) /\ ~loop_is_done
    BY <1>1, <1>5, RefMoves DEF WaitsOn, WaitInLoop, does, ClockEdge
  <2>2. m2s.addr = instr.addr
    BY <2>1 DEF WatchFollows
  <2>3. m2s.valid
    BY <1>1, <2>1, ReadyLoopPort DEF does, ready_loops
  <2>4. CASE saw_bi
    BY <2>1, <2>2, <2>4
  <2>5. CASE bi_req_valid
    BY <2>1, <2>2, <2>5 DEF sees_bi, bi_req_addr
  <2>6. CASE bi_state = "BI_IDLE" /\ bias[m2s.addr]
    BY <1>1, <2>1, <2>2, <2>3, <2>6, HandshakeEdge DEF bi_req_valid
  <2>7. QED
    BY <2>1, <2>4, <2>5, <2>6 DEF WatchFollows
<1>6. CASE MovesOn
  <2>1. pc' = pc + 1 /\ UNCHANGED engineVars /\ ref' = Step(text, pc, ref)
    BY <1>1, <1>6, RefMoves DEF MovesOn, BetweenEdges
  <2>2. does("present") /\ shown(text, pc) = {} /\ ~loops
    BY <1>1, <1>3, <2>1 DEF does, loops
  <2>3. m2s' = instr.m2s /\ shown(text, pc') = {instr.m2s}
    <3>1. m2s' = instr.m2s
      BY <1>1, <1>6, <2>2, BetweenKeepsEngine DEF MovesOn, BenchSound
    <3>2. shown(text, pc + 1) = {text[pc].m2s}
      BY <1>1, <2>2, ShownStep DEF ControlOK, does
    <3>3. QED
      BY <1>1, <2>1, <3>1, <3>2
  <2>4. m2s'.addr = instr'.addr /\ ref'.bias[m2s'.addr]
    BY <1>3, <2>3
  <2>5. bi_state = "BI_IDLE"
    BY <1>1, <2>2, ShownIsPort DEF Follows, FollowsText, BiFollowsText
  <2>6. bias = ref.bias
    BY <1>1, <2>2 DEF Together, EngineFollowsReference, settled, untouched
  <2>7. ref'.bias = ref.bias
    <3>1. PICK s \in References : s = ref
      BY <1>1, TextRules
    <3>2. PICK z : z = ref'
      OBVIOUS
    <3>3. ~accepts(text, pc) /\ text[pc].op # "bias_write"
      BY <1>1, <2>2 DEF accepts, does
    <3>4. z.bias = s.bias
      BY <2>1, <3>1, <3>2, <3>3, QuietReference
    <3>5. QED
      BY <3>1, <3>2, <3>4
  <2>8. QED
    BY <2>1, <2>4, <2>5, <2>6, <2>7 DEF engineVars
<1>7. CASE UNCHANGED benchVars
  <2>1. UNCHANGED <<m2s, bi_state, bias, saw_bi, test, pc>>
    BY <1>7 DEF benchVars, testVars, engineVars
  <2>2. instr' = instr /\ does("until_ready_watching_bi")
    BY <1>1, <2>1 DEF instr, does
  <2>3. QED
    BY <2>1, <2>2 DEF WatchFollows, bi_req_valid
<1>8. QED
  BY <1>1, <1>4, <1>5, <1>6, <1>7, BenchCases

-----------------------------------------------------------------------------
\* Which answer comes first

\* What an instruction does to what is known since the last edge.
LEMMA OrderReference ==
    ASSUME NEW p, NEW n, NEW s \in References, NEW z, z = Step(p, n, s)
    PROVE  /\ z.since = since_edge(p, n, s)
           /\ ~accepts(p, n) => z.last = s.last /\ z.wait = s.wait
           /\ \A r : accepts(p, n) /\ shown(p, n) = {r} =>
                 /\ z.last = r.tag
                 /\ z.wait = put(s.wait, r.tag,
                                 IF r.is_write \/ hits(s, r) THEN 0 ELSE ReadExtraLatency)
<1>1. /\ z.since = since_edge(p, n, s)
      /\ ~accepts(p, n) => z.last = s.last /\ z.wait = s.wait
  BY DEF Step
<1>2. ASSUME NEW r, accepts(p, n), shown(p, n) = {r}
      PROVE  /\ z.last = r.tag
             /\ z.wait = put(s.wait, r.tag,
                             IF r.is_write \/ hits(s, r) THEN 0 ELSE ReadExtraLatency)
  BY <1>2, PortIs DEF Step
<1>3. QED
  BY <1>1, <1>2

\* The edge that fires: a first request waits for its latency, and so does a second one
\* behind a first that has two cycles to go.
LEMMA OrderWhenFiring ==
    ASSUME Together, Executes, accepts(text, pc), NEW s \in References, s = ref, InOrder(s),
           NEW z, z = Step(text, pc, s)
    PROVE  InOrder(z)'
<1>1. /\ Follows /\ ControlOK /\ BenchSound /\ FollowsText /\ running /\ ClockEdge
      /\ instr = text[pc] /\ ~does("drain")
  BY TextRules DEF Together, Follows, Executes, does
<1>2. /\ accept_this_cycle /\ shown(text, pc) = {m2s} /\ shown_tags(text, pc) = {m2s.tag}
      /\ owed(text, pc) = occupied
  BY <1>1, AcceptsAsText, ShownIsPort, OwedIsOccupied DEF accept_this_cycle
<1>3. PICK ack, rsp, set, b \in BOOLEAN, a \in Addr : Clock(s2m_ready, ack, rsp, set, a, b)
  BY <1>1, EdgeIsClock DEF BenchSound
<1>4. /\ z.since = IF occupied = {} THEN "first"
                   ELSE IF s.since = "first" /\ \A t \in occupied : s.wait[t] > 1 THEN "second"
                   ELSE "other"
      /\ z.last = m2s.tag
      /\ z.wait = put(s.wait, m2s.tag,
                      IF m2s.is_write \/ hits(s, m2s) THEN 0 ELSE ReadExtraLatency)
  BY <1>2, OrderReference DEF since_edge
<1>5. /\ m2s.tag \in Tag /\ s.wait \in [Tag -> 0 .. ReadExtraLatency]
      /\ m2s.tag \notin occupied /\ s2m_ready \in BOOLEAN
  BY <1>1, <1>2, PortFields, ReferenceFields
     DEF BenchSound, EngineTypeOK, accept_this_cycle, m2s_ready, occupied
<1>6. z.wait[m2s.tag] = accept_cnt
  <2>1. CacheIs(s)
    BY <1>1 DEF Together, EngineFollowsReference
  <2>2. cache_hit_eff <=> hits(s, m2s)
    BY <1>1, <2>1, RequestAsReference DEF CacheIs
  <2>3. QED
    BY <1>4, <1>5, <2>2 DEF put, accept_cnt
<1>7. /\ occupied' = {m2s.tag} \cup (occupied \ (IF resp_active /\ s2m_ready THEN {resp_tag_r}
                                                 ELSE {}))
      /\ resp_active' => occupied # {}
  BY <1>1, <1>2, EdgeBesideText
<1>8. \A t \in occupied' :
         IF t = m2s.tag THEN slot_cnt'[t] = z.wait[t]
         ELSE t \in occupied /\ slot_cnt'[t] = IF slot_cnt[t] = 0 THEN 0 ELSE slot_cnt[t] - 1
  BY <1>1, <1>2, <1>3, <1>5, <1>6, SlotsAtEdge
<1>9. ASSUME z.since = "second"
      PROVE  ~resp_active' /\ \A t \in occupied : slot_cnt[t] > 1 /\ slot_cnt[t] \in Nat
  <2>1. ~resp_active /\ \A t \in occupied : slot_cnt[t] = s.wait[t] /\ s.wait[t] > 1
    BY <1>4, <1>9 DEF InOrder
  <2>2. \A t \in occupied : slot_cnt[t] > 1 /\ slot_cnt[t] \in Nat
    BY <1>5, <2>1, LatencyAssumption DEF occupied
  <2>3. ~resp_active'
    BY <1>3, <2>1, <2>2 DEF Clock, Response, arb_selects, slot_done, occupied
  <2>4. QED
    BY <2>2, <2>3
<1>10. z.since # "other" => ~resp_active'
  BY <1>4, <1>7, <1>9
<1>11. z.last \in occupied'
  BY <1>4, <1>7
<1>12. z.since = "first" => \A t \in occupied' : slot_cnt'[t] = z.wait[t]
  BY <1>4, <1>7, <1>8
<1>13. z.since = "second" =>
          \A t \in occupied' : IF t = z.last THEN slot_cnt'[t] = z.wait[t] ELSE slot_cnt'[t] > 0
  BY <1>4, <1>8, <1>9
<1>14. QED
  BY <1>10, <1>11, <1>12, <1>13 DEF InOrder

\* What is known of the order goes on being so until the next edge.
LEMMA OrderStep ==
    ASSUME Together, Together', ImmediateFollows, OrderFollows, [BenchNext]_benchVars
    PROVE  OrderFollows'
<1> SUFFICES ASSUME running', in_step' PROVE InOrder(ref)'
  BY DEF OrderFollows
<1>1. /\ Follows /\ ControlOK /\ BenchSound /\ FollowsText /\ running /\ text' = text
      /\ pc \in 1 .. Len(text) /\ instr = text[pc]
  BY RefMoves, TextRules DEF Together, Follows
<1>2. PICK s \in References : s = ref
  BY <1>1, TextRules
<1>3. in_step => InOrder(s)
  BY <1>1, <1>2 DEF OrderFollows, InOrder
<1>4. PICK z : z = ref'
  OBVIOUS
<1>5. Executes \/ MovesOn => z = Step(text, pc, s)
  BY <1>1, <1>2, <1>4, RefMoves
<1>6. SUFFICES InOrder(z)'
  BY <1>4 DEF InOrder
<1>7. CASE Executes /\ accepts(text, pc)
  <2>1. InOrder(s)
    BY <1>3, <1>7 DEF Executes, in_step, loops
  <2>2. QED
    BY <1>2, <1>5, <1>7, <2>1, OrderWhenFiring
<1>8. CASE Executes /\ ~accepts(text, pc)
  <2>1. /\ ClockEdge /\ instr.op \in {"tick", "take", "accept", "bias_write"} /\ InOrder(s)
        /\ ~does("drain")
    BY <1>3, <1>8 DEF Executes, in_step, loops, does
  <2>2. /\ z.since = since_edge(text, pc, s) /\ z.wait = s.wait
        /\ ~immediate(text, pc, s) /\ instr.op \in edges
    BY <1>1, <1>5, <1>8, <2>1, OrderReference DEF immediate, edges
  <2>3. /\ z.since \in {"silent", "other"}
        /\ z.since = "silent" => s.since = "first" /\ \A t \in occupied : s.wait[t] > 0
    BY <1>1, <1>8, <2>1, <2>2, OwedIsOccupied DEF since_edge
  <2>4. z.since = "silent" => ~resp_active'
    <3>1. SUFFICES ASSUME z.since = "silent", resp_active'
                   PROVE  FALSE
      OBVIOUS
    <3>2. ~resp_active /\ \A t \in occupied : slot_cnt[t] = s.wait[t] /\ s.wait[t] > 0
      BY <2>1, <2>3, <3>1 DEF InOrder
    <3>3. resp_tag_r' \in occupied /\ slot_cnt[resp_tag_r'] = 0
      BY <1>1, <1>8, <2>1, <3>1, <3>2, SlotsCountDown
    <3>4. QED
      BY <3>2, <3>3
  <2>5. QED
    BY <2>3, <2>4 DEF InOrder
<1>9. CASE WaitsOn
  <2>1. loops /\ ~loop_is_done /\ instr' = instr /\ ref' = ref /\ pc' = pc
    BY <1>1, <1>9, RefMoves DEF WaitsOn, WaitInLoop
  <2>2. immediate(text, pc, ref)
    BY <1>1, <2>1 DEF in_step, loops
  <2>3. accept_this_cycle /\ instr.op = "until_ready"
    BY <1>1, <2>2 DEF ImmediateFollows, immediate
  <2>4. QED
    BY <1>1, <2>1, <2>3 DEF loop_is_done, does, accept_this_cycle
<1>10. CASE MovesOn
  <2>1. /\ pc' = pc + 1 /\ UNCHANGED engineVars /\ occupied' = occupied
        /\ instr.op # "tick" /\ ~accepts(text, pc)
    BY <1>1, <1>10 DEF MovesOn, BetweenEdges, engineVars, slotVars, occupied, loop_is_done, does,
       edges, accepts
  <2>2. z.since = since_edge(text, pc, s) /\ z.wait = s.wait /\ z.last = s.last
    BY <1>5, <1>10, <2>1, OrderReference
  <2>3. CASE instr.op \notin edges \/ immediate(text, pc, s)
    <3>1. in_step
      BY <1>2, <2>3 DEF in_step, loops, edges, ready_loops, answer_loops
    <3>2. z.since = s.since
      BY <1>1, <2>1, <2>2, <2>3 DEF since_edge
    <3>3. QED
      BY <1>3, <2>1, <2>2, <3>1, <3>2 DEF InOrder, engineVars, slotVars
  <2>4. CASE ~(instr.op \notin edges \/ immediate(text, pc, s))
    <3>1. z.since = "other"
      BY <1>1, <2>1, <2>2, <2>4 DEF since_edge
    <3>2. QED
      BY <3>1 DEF InOrder
  <2>5. QED
    BY <2>3, <2>4
<1>11. CASE UNCHANGED benchVars
  <2>1. /\ UNCHANGED <<engineVars, test, pc>> /\ z = s
    BY <1>1, <1>2, <1>4, <1>11, RefMoves DEF benchVars, testVars
  <2>2. in_step /\ occupied' = occupied
    <3>1. (loops' <=> loops) /\ text' = text /\ ref' = ref /\ pc' = pc
      BY <2>1 DEF loops, running, instr, text, ref
    <3>2. QED
      BY <2>1, <3>1 DEF in_step, occupied, engineVars, slotVars
  <2>3. QED
    BY <1>3, <2>1, <2>2 DEF InOrder, engineVars, slotVars
<1>12. QED
  BY <1>1, <1>7, <1>8, <1>9, <1>10, <1>11, BenchCases

\* It is entered where s2m_ready has been raised.
LEMMA DrainFollows ==
    ASSUME Follows, Follows', running, text' = text, pc' = pc + 1, does("drain")'
    PROVE  instr.op = "s2m_ready"
<1>1. ControlOK /\ pc \in 1 .. Len(text) /\ instr = text[pc] /\ Len(text) \in Nat
  BY RunningInText DEF Follows
<1>2. pc' \in 1 .. Len(text) /\ text[pc'].op = "drain" /\ pc' - 1 = pc
  BY <1>1 DEF does, running, instr, text
<1>3. QED
  BY <1>1, <1>2, DrainHasBegun

\* A drain loop notes first the answer that the reference has first.
LEMMA FirstStep ==
    ASSUME Together, Together', OrderFollows, FirstFollows, [BenchNext]_benchVars
    PROVE  FirstFollows'
<1> SUFFICES ASSUME running' PROVE FirstIs(ref)'
  BY DEF FirstFollows
<1>1. /\ Follows /\ Follows' /\ ControlOK /\ BenchSound /\ AnswersOK /\ running /\ text' = text
      /\ pc \in 1 .. Len(text) /\ instr = text[pc] /\ Len(text) \in Nat
      /\ pc' \in 1 .. Len(text) /\ instr' = text[pc']
  <2>1. (ControlOK /\ running => pc \in 1 .. Len(text) /\ instr = text[pc] /\ Len(text) \in Nat)'
    <3>1. ControlOK /\ running => pc \in 1 .. Len(text) /\ instr = text[pc] /\ Len(text) \in Nat
      BY RunningInText
    <3>2. QED
      BY RunningInText, TestText DEF ControlOK, running, instr, text
  <2>2. QED
    BY <2>1, RefMoves, RunningInText DEF Together, Follows
<1>2. PICK s \in References : s = ref
  BY <1>1, TextRules
<1>3. PICK z : z = ref'
  OBVIOUS
<1>4. FirstIs(s)
  BY <1>1, <1>2 DEF FirstFollows, FirstIs
<1>5. SUFFICES FirstIs(z)'
  BY <1>3 DEF FirstIs
<1>6. CASE Executes
  <2>1. /\ z = Step(text, pc, s) /\ answers' = answers /\ pc' = pc + 1
        /\ instr.op \in {"tick", "take", "accept", "bias_write"}
    BY <1>1, <1>2, <1>3, <1>6, RefMoves DEF Executes
  <2>2. z.first = s.first
    BY <1>1, <2>1 DEF Step
  <2>3. ~does("drain")'
    BY <1>1, <2>1, DrainFollows
  <2>4. QED
    BY <1>4, <2>1, <2>2, <2>3 DEF FirstIs
<1>7. CASE WaitsOn
  <2>1. /\ z = s /\ instr' = instr /\ loops /\ ~loop_is_done /\ ClockEdge
        /\ answers' = IF does("drain") /\ resp_active THEN Append(answers, answer) ELSE answers
    BY <1>1, <1>2, <1>3, <1>7, RefMoves DEF WaitsOn, WaitInLoop, s2m_valid, ClockEdge
  <2>2. answers # <<>> => answers' # <<>> /\ answers'[1] = answers[1]
    BY <1>1, <2>1 DEF AnswersOK
  <2>3. ASSUME does("drain"), s.since = "second", s.wait[s.last] = 0
        PROVE  IF answers' # <<>> THEN answers'[1].tag = s.last
               ELSE /\ s.last \in occupied'
                    /\ IF resp_active' THEN resp_tag_r' = s.last
                       ELSE \A t \in occupied' : slot_cnt'[t] = 0 <=> t = s.last
    <3>1. CASE answers # <<>>
      BY <1>4, <2>2, <2>3, <3>1 DEF FirstIs
    <3>2. CASE answers = <<>> /\ resp_active
      <4>1. answers' = <<answer>>
        BY <2>1, <2>3, <3>2
      <4>2. answer.tag = s.last
        BY <1>4, <2>3, <3>2 DEF answer, s2m_tag, FirstIs
      <4>3. QED
        BY <4>1, <4>2
    <3>3. CASE answers = <<>> /\ ~resp_active
      <4>1. s.last \in occupied /\ \A t \in occupied : slot_cnt[t] = 0 <=> t = s.last
        BY <1>4, <2>3, <3>3 DEF FirstIs
      <4>2. ~accepts(text, pc)
        BY <1>1, <2>3 DEF does, accepts
      <4>3. resp_active' /\ resp_tag_r' = s.last
        BY <1>1, <2>1, <3>3, <4>1, <4>2, SlotsCountDown
      <4>4. s.last \in occupied'
        BY <1>1, <2>1, <3>3, <4>1, <4>2, SlotsCountDown
      <4>5. answers' = <<>>
        BY <2>1, <3>3
      <4>6. QED
        BY <4>3, <4>4, <4>5
    <3>4. QED
      BY <3>1, <3>2, <3>3
  <2>4. does("drain")' <=> does("drain")
    BY <1>1, <2>1 DEF does
  <2>5. QED
    BY <1>4, <2>1, <2>2, <2>3, <2>4 DEF FirstIs
<1>8. CASE MovesOn
  <2>1. /\ z = Step(text, pc, s) /\ pc' = pc + 1 /\ UNCHANGED engineVars /\ ~accepts(text, pc)
        /\ answers' = IF does("s2m_ready") THEN <<>> ELSE answers
    BY <1>1, <1>2, <1>3, <1>8, RefMoves
       DEF MovesOn, BetweenEdges, LeaveLoop, DrivePins, Save, Check, loop_is_done, does, edges,
           accepts
  <2>2. z.first # NoTag => answers' # <<>> /\ answers'[1].tag = z.first
    <3>1. CASE instr.op = "s2m_ready"
      BY <1>1, <2>1, <3>1 DEF Step
    <3>2. CASE instr.op = "drain"
      <4>1. does("drain") /\ loop_is_done
        BY <1>1, <1>8, <3>2 DEF MovesOn, does, edges
      <4>2. occupied = {}
        BY <1>1, <4>1, DrainIsDone
      <4>3. z.first = IF s.since = "second" /\ s.wait[s.last] = 0 THEN s.last ELSE NoTag
        BY <1>1, <2>1, <3>2 DEF Step
      <4>4. QED
        BY <1>4, <2>1, <4>1, <4>2, <4>3 DEF does, FirstIs
    <3>3. CASE instr.op \notin {"s2m_ready", "drain"}
      <4>1. z.first = s.first
        BY <1>1, <2>1, <3>3 DEF Step
      <4>2. QED
        BY <1>4, <2>1, <3>3, <4>1 DEF does, FirstIs
    <3>4. QED
      BY <3>1, <3>2, <3>3
  <2>3. ASSUME does("drain")', z.since = "second", z.wait[z.last] = 0
        PROVE  /\ answers' = <<>> /\ z.last \in occupied' /\ ~resp_active'
               /\ \A t \in occupied' : slot_cnt'[t] = 0 <=> t = z.last
    <3>1. instr.op = "s2m_ready" /\ does("s2m_ready") /\ ~loops
      BY <1>1, <2>1, <2>3, DrainFollows DEF does, loops
    <3>2. InOrder(s)
      BY <1>1, <1>2, <3>1 DEF OrderFollows, InOrder, in_step
    <3>3. z.since = s.since /\ z.last = s.last /\ z.wait = s.wait
      BY <1>1, <2>1, <3>1, OrderReference DEF since_edge, edges, ready_loops, answer_loops
    <3>4. /\ ~resp_active /\ s.last \in occupied
          /\ \A t \in occupied : slot_cnt[t] = 0 <=> t = s.last
      BY <2>3, <3>2, <3>3 DEF InOrder
    <3>5. QED
      BY <2>1, <3>1, <3>3, <3>4 DEF engineVars, slotVars, occupied
  <2>4. QED
    BY <2>2, <2>3 DEF FirstIs
<1>9. CASE UNCHANGED benchVars
  <2>1. UNCHANGED <<engineVars, test, pc, answers>> /\ z = s
    BY <1>1, <1>2, <1>3, <1>9, RefMoves DEF benchVars, testVars
  <2>2. (does("drain")' <=> does("drain")) /\ occupied' = occupied
    BY <2>1 DEF does, running, instr, occupied, engineVars, slotVars
  <2>3. QED
    BY <1>4, <2>1, <2>2 DEF engineVars, slotVars, FirstIs
<1>10. QED
  BY <1>1, <1>6, <1>7, <1>8, <1>9, BenchCases

\* An answer is noted once, and as the reference has it.
LEMMA NotedStep ==
    ASSUME Together, Together', NotedFollow, [BenchNext]_benchVars
    PROVE  NotedFollow'
<1> SUFFICES ASSUME running' PROVE NotedAre(ref)'
  BY DEF NotedFollow
<1>1. /\ Follows /\ Follows' /\ ControlOK /\ BenchSound /\ AnswersOK /\ running /\ text' = text
      /\ pc \in 1 .. Len(text) /\ instr = text[pc]
  BY RefMoves, TextRules DEF Together, Follows
<1>2. PICK s \in References : s = ref
  BY <1>1, TextRules
<1>3. PICK z : z = ref'
  OBVIOUS
<1>4. NotedAre(s) /\ AnswersAre(s)
  BY <1>1, <1>2 DEF NotedFollow, NotedAre, Together, EngineFollowsReference
<1>5. SUFFICES NotedAre(z)'
  BY <1>3 DEF NotedAre
<1>6. s.is_data \in [Tag -> BOOLEAN] /\ s.rdata \in [Tag -> Data]
  BY ReferenceFields
<1>7. CASE Executes
  <2>1. /\ z = Step(text, pc, s) /\ answers' = answers /\ pc' = pc + 1 /\ ClockEdge
        /\ instr.op \in {"tick", "take", "accept", "bias_write"}
    BY <1>1, <1>2, <1>3, <1>7, RefMoves DEF Executes
  <2>2. ~does("drain")'
    BY <1>1, <2>1, DrainFollows
  <2>3. CASE accepts(text, pc)
    <3>1. shown(text, pc) = {m2s} /\ m2s.tag \in Tag
      BY <1>1, <2>1, <2>3, AcceptsAsText, ShownIsPort, PortFields
         DEF Follows, accept_this_cycle, BenchSound, EngineTypeOK
    <3>2. /\ z.drained = s.drained \ {m2s.tag}
          /\ z.is_data = put(s.is_data, m2s.tag, ~m2s.is_write)
          /\ z.rdata = put(s.rdata, m2s.tag, read(s, m2s))
      BY <1>1, <2>1, <2>3, <3>1, PortIs DEF Step
    <3>3. \A t \in z.drained :
             t \in s.drained /\ z.is_data[t] = s.is_data[t] /\ z.rdata[t] = s.rdata[t]
      BY <1>6, <3>2, ReferenceFields DEF put
    <3>4. QED
      BY <1>4, <2>1, <2>2, <3>2, <3>3 DEF NotedAre
  <2>4. CASE ~accepts(text, pc)
    <3>1. z.drained = s.drained /\ z.is_data = s.is_data /\ z.rdata = s.rdata
      BY <1>1, <2>1, <2>4 DEF Step
    <3>2. QED
      BY <1>4, <2>1, <2>2, <3>1 DEF NotedAre
  <2>5. QED
    BY <2>3, <2>4
<1>8. CASE WaitsOn
  <2>1. /\ z = s /\ instr' = instr /\ loops /\ ~loop_is_done /\ ClockEdge
        /\ answers' = IF does("drain") /\ resp_active THEN Append(answers, answer) ELSE answers
    BY <1>1, <1>2, <1>3, <1>8, RefMoves DEF WaitsOn, WaitInLoop, s2m_valid, ClockEdge
  <2>2. does("drain")' <=> does("drain")
    BY <1>1, <2>1 DEF does
  <2>3. CASE ~(does("drain") /\ resp_active)
    BY <1>4, <2>1, <2>2, <2>3 DEF NotedAre
  <2>4. CASE does("drain") /\ resp_active
    <3>1. Len(answers) \in Nat /\ DOMAIN answers = 1 .. Len(answers)
      BY <1>1 DEF AnswersOK
    <3>2. /\ DOMAIN answers' = (1 .. Len(answers)) \cup {Len(answers) + 1}
          /\ \A i \in 1 .. Len(answers) : answers'[i] = answers[i]
          /\ answers'[Len(answers) + 1] = answer
      BY <1>1, <2>1, <2>4, <3>1 DEF AnswersOK
    <3>3. resp_tag_r \in occupied /\ answer.tag = resp_tag_r
      BY <1>1, <2>1, <2>4, EdgeBesideText DEF Follows, answer, s2m_tag
    <3>4. \A i \in DOMAIN answers : answers[i].tag # resp_tag_r
      BY <1>1, <2>4, <3>3 DEF Follows, FollowsText, SlotsFollowText, noted_tags
    <3>5. /\ answer.is_data <=> s.is_data[answer.tag]
          /\ answer.is_data => answer.rdata = s.rdata[answer.tag]
      BY <1>4, <3>3 DEF AnswersAre, answer, s2m_is_data, s2m_rdata
    <3>6. \A i, j \in DOMAIN answers' : answers'[i].tag = answers'[j].tag => i = j
      BY <1>4, <3>1, <3>2, <3>3, <3>4 DEF NotedAre
    <3>7. z.drained \subseteq {answers'[i].tag : i \in DOMAIN answers'}
      BY <1>4, <2>1, <3>1, <3>2 DEF NotedAre
    <3>8. \A i \in DOMAIN answers' :
             /\ answers'[i].is_data <=> z.is_data[answers'[i].tag]
             /\ answers'[i].is_data => answers'[i].rdata = z.rdata[answers'[i].tag]
      BY <1>4, <2>1, <2>4, <3>1, <3>2, <3>5 DEF NotedAre
    <3>9. QED
      BY <3>6, <3>7, <3>8 DEF NotedAre
  <2>5. QED
    BY <2>3, <2>4
<1>9. CASE MovesOn
  <2>1. /\ z = Step(text, pc, s) /\ pc' = pc + 1 /\ ~accepts(text, pc)
        /\ answers' = IF does("s2m_ready") THEN <<>> ELSE answers
    BY <1>1, <1>2, <1>3, <1>9, RefMoves
       DEF MovesOn, BetweenEdges, LeaveLoop, DrivePins, Save, Check, loop_is_done, does, edges,
           accepts
  <2>2. z.is_data = s.is_data /\ z.rdata = s.rdata
    BY <2>1, QuietReference
  <2>3. CASE instr.op = "s2m_ready"
    <3>1. z.drained = {} /\ answers' = <<>>
      BY <1>1, <2>1, <2>3 DEF Step, does
    <3>2. QED
      BY <3>1 DEF NotedAre
  <2>4. CASE instr.op = "drain"
    <3>1. does("drain") /\ loop_is_done /\ answers' = answers
      BY <1>1, <1>9, <2>1, <2>4 DEF MovesOn, does, edges
    <3>2. occupied = {}
      BY <1>1, <3>1, DrainIsDone
    <3>3. z.drained = owed(text, pc)
      BY <1>1, <2>1, <2>4 DEF Step
    <3>4. z.drained = {answers[i].tag : i \in DOMAIN answers}
      BY <1>1, <3>1, <3>2, <3>3 DEF Follows, FollowsText, SlotsFollowText, noted_tags
    <3>5. QED
      BY <1>4, <2>2, <3>1, <3>4 DEF NotedAre
  <2>5. CASE instr.op \notin {"s2m_ready", "drain"}
    <3>1. z.drained = s.drained /\ answers' = answers
      BY <1>1, <2>1, <2>5 DEF Step, does
    <3>2. ~does("drain")'
      BY <1>1, <2>1, <2>5, DrainFollows
    <3>3. QED
      BY <1>4, <2>2, <3>1, <3>2 DEF NotedAre
  <2>6. QED
    BY <2>3, <2>4, <2>5
<1>10. CASE UNCHANGED benchVars
  <2>1. UNCHANGED <<test, pc, answers>> /\ z = s
    BY <1>1, <1>2, <1>3, <1>10, RefMoves DEF benchVars, testVars
  <2>2. does("drain")' <=> does("drain")
    BY <2>1 DEF does, running, instr
  <2>3. QED
    BY <1>4, <2>1, <2>2 DEF NotedAre
<1>11. QED
  BY <1>1, <1>7, <1>8, <1>9, <1>10, BenchCases

-----------------------------------------------------------------------------
\* Every check finds what it expects.

\* A check of a pin: m2s_ready is low in a handshake, and where the tag is in use; there
\* is no answer right after a request was fired; and an answer that was waited for is
\* the one of a request of the text.
LEMMA ExpectHolds ==
    ASSUME Together, OrderFollows, does("expect")
    PROVE  signal[instr.reg] = instr.value
<1>1. /\ Follows /\ BenchSound /\ running /\ ~loops /\ ~does("drain")
      /\ pc \in 1 .. Len(text) /\ instr = text[pc] /\ text[pc].op = "expect"
  BY TextRules DEF Together, Follows, does, loops
<1>2. PICK s \in References : s = ref
  BY <1>1, TextRules
<1>3. ExpectsReference(text, pc, s)
  BY <1>1, <1>2, TextRules
<1>4. owed(text, pc) = occupied
  BY <1>1, OwedIsOccupied
<1>5. /\ signal["m2s_ready"] = m2s_ready /\ signal["s2m_valid"] = resp_active
      /\ signal["s2m_tag"] = resp_tag_r /\ signal["s2m_is_data"] = (~slot_is_write[resp_tag_r])
      /\ signal["s2m_rdata"] = slot_rdata[resp_tag_r]
  BY DEF signal, s2m_valid, s2m_tag, s2m_is_data, s2m_rdata
<1>6. CASE instr.reg = "m2s_ready"
  <2>1. instr.value = FALSE /\ (s.in_handshake \/ shown_tags(text, pc) \cap owed(text, pc) # {})
    BY <1>1, <1>3, <1>6 DEF ExpectsReference
  <2>2. ASSUME s.in_handshake
        PROVE  ~m2s_ready
    BY <1>1, <1>2, <2>2 DEF Together, HandshakeFollows, bi_req_valid, m2s_ready
  <2>3. ASSUME shown_tags(text, pc) \cap owed(text, pc) # {}
        PROVE  ~m2s_ready
    <3>1. m2s.tag \in occupied
      BY <1>1, <1>4, <2>3, ShownIsPort DEF shown_tags
    <3>2. QED
      BY <3>1 DEF occupied, m2s_ready
  <2>4. m2s_ready = FALSE
    BY <2>1, <2>2, <2>3 DEF m2s_ready
  <2>5. QED
    BY <1>5, <1>6, <2>1, <2>4
<1>7. CASE instr.reg = "s2m_valid"
  <2>1. instr.value = FALSE /\ s.since # "other"
    BY <1>1, <1>3, <1>7 DEF ExpectsReference
  <2>2. resp_active = FALSE
    BY <1>1, <1>2, <2>1 DEF OrderFollows, InOrder, in_step, BenchSound, EngineTypeOK
  <2>3. QED
    BY <1>5, <1>7, <2>1, <2>2
<1>8. CASE instr.reg \notin {"m2s_ready", "s2m_valid"}
  <2>1. /\ instr.reg \in {"s2m_tag", "s2m_is_data", "s2m_rdata"} /\ waited(text, pc)
        /\ \A t \in owed(text, pc) : answer_shows(s, t, instr.reg, instr.value)
    BY <1>1, <1>3, <1>8 DEF ExpectsReference
  <2>2. resp_active
    BY <1>1, <2>1 DEF Follows, FollowsText, PortsFollowText
  <2>3. resp_tag_r \in occupied /\ resp_tag_r \in Tag
    BY <1>1, <2>2 DEF BenchSound, EngineTypeOK, ResponseIsOwed, slot_done, occupied
  <2>4. answer_shows(s, resp_tag_r, instr.reg, instr.value)
    BY <1>4, <2>1, <2>3
  <2>5. /\ slot_is_write[resp_tag_r] <=> ~s.is_data[resp_tag_r]
        /\ s.is_data[resp_tag_r] => slot_rdata[resp_tag_r] = s.rdata[resp_tag_r]
    BY <1>1, <1>2, <2>3 DEF Together, EngineFollowsReference, AnswersAre
  <2>6. (~slot_is_write[resp_tag_r]) = s.is_data[resp_tag_r]
    <3>1. s.is_data[resp_tag_r] \in BOOLEAN /\ slot_is_write[resp_tag_r] \in BOOLEAN
      BY <1>1, <2>3, ReferenceFields DEF BenchSound, EngineTypeOK
    <3>2. QED
      BY <2>5, <3>1
  <2>7. CASE instr.reg = "s2m_tag"
    BY <1>5, <2>4, <2>7 DEF answer_shows
  <2>8. CASE instr.reg = "s2m_is_data"
    <3>1. instr.value = s.is_data[resp_tag_r]
      BY <2>4, <2>8 DEF answer_shows
    <3>2. QED
      BY <1>5, <2>6, <2>8, <3>1
  <2>9. CASE instr.reg = "s2m_rdata"
    BY <1>5, <2>4, <2>5, <2>9 DEF answer_shows
  <2>10. QED
    BY <2>1, <2>7, <2>8, <2>9
<1>9. QED
  BY <1>6, <1>7, <1>8

\* A check of the bias table, or of a counter, finds the reference's.
LEMMA StateChecksHold ==
    ASSUME Together, does("bias_is") \/ does("delta")
    PROVE  check_holds
<1>1. /\ Follows /\ BenchSound /\ running /\ ~loops
      /\ pc \in 1 .. Len(text) /\ instr = text[pc]
  BY TextRules DEF Together, Follows, does, loops
<1>2. PICK s \in References : s = ref
  BY <1>1, TextRules
<1>3. ExpectsReference(text, pc, s)
  BY <1>1, <1>2, TextRules
<1>4. CountersAre(s) /\ (settled(text, pc, s) => untouched(s))
  BY <1>1, <1>2 DEF Together, EngineFollowsReference
<1>5. CASE does("bias_is")
  <2>1. shown(text, pc) = {} /\ instr.value = s.bias[instr.addr]
    BY <1>1, <1>3, <1>5 DEF ExpectsReference, does
  <2>2. bias = s.bias
    BY <1>4, <2>1 DEF settled, untouched
  <2>3. QED
    BY <1>5, <2>1, <2>2 DEF check_holds
<1>6. CASE does("delta")
  <2>1. /\ instr.reg \in counters
        /\ s[instr.reg] = (s.saved[instr.reg] + instr.by) % CounterModulus
    BY <1>1, <1>3, <1>6 DEF ExpectsReference, does
  <2>2. CASE instr.reg = "dbg_cache_hits"
    BY <1>4, <1>6, <2>1, <2>2 DEF check_holds, signal, CountersAre
  <2>3. CASE instr.reg = "dbg_cache_misses"
    BY <1>4, <1>6, <2>1, <2>3 DEF check_holds, signal, CountersAre
  <2>4. QED
    BY <2>1, <2>2, <2>3 DEF counters
<1>7. QED
  BY <1>5, <1>6

\* An answer that was drained is the only one of its tag.
LEMMA DrainedIsNoted ==
    ASSUME AnswersOK, NEW s, NotedAre(s), NEW t \in s.drained
    PROVE  \E i \in DOMAIN answers :
              i \in Nat /\ answers[i].tag = t /\ noted(t) = {i} /\ Max(noted(t)) = i
<1>1. PICK i \in DOMAIN answers : answers[i].tag = t
  BY DEF NotedAre
<1>2. noted(t) = {i}
  BY <1>1 DEF NotedAre, noted
<1>3. i \in Nat
  BY DEF AnswersOK
<1>4. Max(noted(t)) = i
  BY <1>2, <1>3 DEF Max
<1>5. QED
  BY <1>1, <1>2, <1>3, <1>4

\* A check of what a drain loop has noted, and of the order in which it has.
LEMMA DrainChecksHold ==
    ASSUME Together, FirstFollows, NotedFollow, does("answer_is") \/ does("before")
    PROVE  check_holds
<1>1. /\ Follows /\ AnswersOK /\ running
      /\ pc \in 1 .. Len(text) /\ instr = text[pc]
  BY TextRules DEF Together, Follows, does
<1>2. PICK s \in References : s = ref
  BY <1>1, TextRules
<1>3. ExpectsReference(text, pc, s)
  BY <1>1, <1>2, TextRules
<1>4. NotedAre(s) /\ FirstIs(s)
  BY <1>1, <1>2 DEF NotedFollow, FirstFollows, NotedAre, FirstIs
<1>5. CASE does("answer_is")
  <2>1. /\ instr.field \in {"is_data", "rdata"} /\ instr.tag \in s.drained
        /\ answer_shows(s, instr.tag, instr.field, instr.value)
    BY <1>1, <1>3, <1>5 DEF ExpectsReference, does
  <2>2. PICK i \in DOMAIN answers :
               answers[i].tag = instr.tag /\ noted(instr.tag) = {i} /\ Max(noted(instr.tag)) = i
    BY <1>1, <1>4, <2>1, DrainedIsNoted
  <2>3. /\ answers[i].is_data <=> s.is_data[instr.tag]
        /\ answers[i].is_data => answers[i].rdata = s.rdata[instr.tag]
    BY <1>4, <2>1, <2>2 DEF NotedAre
  <2>4. answers[i].is_data = s.is_data[instr.tag]
    <3>1. answers[i].is_data \in BOOLEAN
      <4>1. answers[i] \in Answer
        BY <1>1, <2>2 DEF AnswersOK
      <4>2. QED
        BY <4>1 DEF Answer
    <3>2. s.is_data[instr.tag] \in BOOLEAN
      BY <2>1, ReferenceFields
    <3>3. QED
      BY <2>3, <3>1, <3>2
  <2>5. last_noted(instr.tag) = answers[i]
    BY <2>2 DEF last_noted
  <2>6. CASE instr.field = "is_data"
    <3>1. instr.value = s.is_data[instr.tag]
      BY <2>1, <2>6 DEF answer_shows
    <3>2. QED
      BY <1>5, <2>2, <2>4, <2>5, <2>6, <3>1 DEF check_holds
  <2>7. CASE instr.field = "rdata"
    <3>1. s.is_data[instr.tag] /\ instr.value = s.rdata[instr.tag]
      BY <2>1, <2>7 DEF answer_shows
    <3>2. QED
      BY <1>5, <2>2, <2>3, <2>5, <2>7, <3>1 DEF check_holds
  <2>8. QED
    BY <2>1, <2>6, <2>7
<1>6. CASE does("before")
  <2>1. /\ instr.first = s.first /\ instr.first \in s.drained /\ instr.second \in s.drained
        /\ instr.first # instr.second
    BY <1>1, <1>3, <1>6 DEF ExpectsReference, does
  <2>2. PICK i \in DOMAIN answers :
               /\ i \in Nat /\ answers[i].tag = instr.first
               /\ noted(instr.first) = {i} /\ Max(noted(instr.first)) = i
    BY <1>1, <1>4, <2>1, DrainedIsNoted
  <2>3. PICK j \in DOMAIN answers :
               /\ j \in Nat /\ answers[j].tag = instr.second
               /\ noted(instr.second) = {j} /\ Max(noted(instr.second)) = j
    BY <1>1, <1>4, <2>1, DrainedIsNoted
  <2>4. s.first # NoTag
    BY <2>1, ReferenceFields DEF NoTag, Tag
  <2>5. answers[1].tag = instr.first /\ 1 \in DOMAIN answers
    BY <1>1, <1>4, <2>1, <2>2, <2>4 DEF FirstIs, AnswersOK
  <2>6. i = 1 /\ j # 1 /\ j >= 1
    BY <1>1, <2>1, <2>2, <2>3, <2>5 DEF noted, AnswersOK
  <2>7. QED
    BY <1>6, <2>2, <2>3, <2>6 DEF check_holds
<1>7. QED
  BY <1>5, <1>6

-----------------------------------------------------------------------------
\* The testbenches pass.

\* No edge ends a testbench: neither a guard nor an early answer is met.
LEMMA WaitingPasses ==
    ASSUME Together, Waits, HostFollows', TestsPass, WaitsOn, [BenchNext]_benchVars
    PROVE  TestsPass'
<1>1. Follows /\ BenchSound /\ running
  BY DEF Together, Follows, WaitsOn
<1>2. guard # instr.limit
  BY <1>1, NoGuardRunsOut
<1>3. ~answered_early
  <2>1. SUFFICES ASSUME does("until_ready_watching_bi"), resp_active PROVE FALSE
    BY DEF answered_early, s2m_valid
  <2>2. instr.op = "until_ready_watching_bi"
    BY <2>1 DEF does
  <2>3. owed(text, pc) = {}
    BY <1>1, <2>2, TextRules DEF WaitsLongEnough
  <2>4. occupied = {}
    BY <1>1, <2>2, <2>3, OwedIsOccupied DEF does
  <2>5. resp_tag_r \in occupied
    BY <1>1, <2>1 DEF BenchSound, EngineTypeOK, ResponseIsOwed, slot_done, occupied
  <2>6. QED
    BY <2>4, <2>5
<1>4. QED
  BY <1>2, <1>3 DEF WaitsOn, WaitInLoop, guard_exceeded, TestsPass

\* What phase 4 watches for was seen before m2s_ready ends the wait.
LEMMA WatchedIsSeen ==
    ASSUME Together, WatchFollows, LeaveLoop, does("until_ready_watching_bi")
    PROVE  saw_bi
<1>1. m2s_ready
  BY DEF LeaveLoop, loop_is_done, does
<1>2. bi_state = "BI_IDLE" /\ ~bias[m2s.addr]
  BY <1>1 DEF m2s_ready, bias_query_rd_data
<1>3. QED
  BY <1>2 DEF WatchFollows, bi_req_valid

\* Whatever a testbench checks holds.
LEMMA ChecksHold ==
    ASSUME Together, OrderFollows, FirstFollows, NotedFollow, Check
    PROVE  check_holds
<1>1. running /\ instr.op \in {"expect", "bias_is", "delta", "answer_is", "before"}
  BY DEF Check
<1>2. CASE instr.op = "expect"
  BY <1>1, <1>2, ExpectHolds DEF does, check_holds
<1>3. CASE instr.op \in {"bias_is", "delta"}
  BY <1>1, <1>3, StateChecksHold DEF does
<1>4. CASE instr.op \in {"answer_is", "before"}
  BY <1>1, <1>4, DrainChecksHold DEF does
<1>5. QED
  BY <1>1, <1>2, <1>3, <1>4

LEMMA PassesStep ==
    ASSUME Together, Waits, HostFollows', OrderFollows, FirstFollows, NotedFollow, WatchFollows,
           TestsPass, [BenchNext]_benchVars
    PROVE  TestsPass'
<1>1. ControlOK
  BY DEF Together, Follows
<1>2. CASE Executes
  BY <1>2 DEF Executes, ClockEdge, Tick, Accept, BiasWritePulse, WaitInLoop, loops, TestsPass
<1>3. CASE WaitsOn
  BY <1>3, WaitingPasses
<1>4. CASE MovesOn
  <2>1. LeaveLoop \/ DrivePins \/ Save \/ Check
    BY <1>4 DEF MovesOn, BetweenEdges
  <2>2. CASE LeaveLoop
    BY <2>2, WatchedIsSeen DEF LeaveLoop, TestsPass
  <2>3. CASE DrivePins \/ Save
    BY <2>3 DEF DrivePins, Save, TestsPass
  <2>4. CASE Check
    BY <2>4, ChecksHold DEF Check, TestsPass
  <2>5. QED
    BY <2>1, <2>2, <2>3, <2>4
<1>5. CASE UNCHANGED benchVars
  BY <1>5 DEF benchVars, testVars, TestsPass
<1>6. QED
  BY <1>1, <1>2, <1>3, <1>4, <1>5, BenchCases

\* The inductive invariant: the engine follows the text and its reference, every loop
\* is on its way to an end before its guard, and nothing has failed.
Passes ==
    /\ Together /\ Waits
    /\ ImmediateFollows /\ OrderFollows /\ FirstFollows /\ NotedFollow /\ WatchFollows
    /\ TestsPass

LEMMA PassesStarts == BenchInit => Passes
<1> SUFFICES ASSUME BenchInit PROVE Passes
  OBVIOUS
<1>1. /\ pc = 1 /\ guard = 0 /\ test \in DOMAIN tests /\ answers = <<>> /\ errors = FALSE
      /\ bi_state = "BI_IDLE" /\ ~m2s.valid /\ ~resp_active
      /\ host = [state |-> "idle", delay_left |-> 0]
  BY DEF BenchInit, EngineInit, m2s_idle
<1>2. Together /\ Follows
  BY FollowsStarts, ReferenceStarts DEF Together
<1>3. ref = at_reset
  BY <1>1, ReferenceAssumption DEF ref
<1>4. HostFollows
  <2>1. PICK delay \in RspDelays : delay \in Nat
    BY RspDelaysAssumption
  <2>2. \E d \in RspDelays : host.delay_left <= d
    BY <1>1, <2>1
  <2>3. QED
    BY <1>1, <2>2 DEF HostFollows
<1>5. Waits
  BY <1>1, <1>2, <1>4, ReadyLoopBegins, AnswerLoopBegins DEF Waits
<1>6. ImmediateFollows
  BY <1>1 DEF ImmediateFollows, immediate
<1>7. ref.since = "other" /\ ref.first = NoTag /\ ref.drained = {}
  BY <1>3 DEF at_reset
<1>8. OrderFollows
  BY <1>7 DEF OrderFollows, InOrder
<1>9. FirstFollows
  BY <1>7 DEF FirstFollows, FirstIs
<1>10. NotedFollow
  <2>1. DOMAIN answers = {}
    BY <1>1
  <2>2. QED
    BY <1>7, <2>1 DEF NotedFollow, NotedAre
<1>11. WatchFollows
  <2>1. ~does("until_ready_watching_bi")
    <3>1. SUFFICES ASSUME running, instr.op = "until_ready_watching_bi" PROVE FALSE
      BY DEF does
    <3>2. QED
      BY <1>1, <1>2, <3>1, TextRules DEF WaitsLongEnough
  <2>2. QED
    BY <2>1 DEF WatchFollows
<1>12. QED
  BY <1>1, <1>2, <1>5, <1>6, <1>8, <1>9, <1>10, <1>11 DEF Passes, TestsPass

LEMMA TogetherStep ==
    ASSUME Together, [BenchNext]_benchVars
    PROVE  Together'
BY FollowsStep, ReferenceStep DEF Together

\* Every testbench of the engine passes: each of its checks holds and none of its
\* loops runs into its guard, at every width of the engine, every read latency and
\* every time the host takes for which the texts keep what ReferenceAssumption and
\* AttentiveAssumption state.
THEOREM BenchesPass == BenchSpec => []TestsPass
<1>1. BenchInit => Passes
  BY PassesStarts
<1>2. Passes /\ [BenchNext]_benchVars => Passes'
  <2> SUFFICES ASSUME Passes, [BenchNext]_benchVars PROVE Passes'
    OBVIOUS
  <2>1. Together /\ Together'
    BY TogetherStep DEF Passes
  <2>2. Waits'
    BY <2>1, WaitsStep DEF Passes
  <2>3. HostFollows /\ HostFollows'
    BY <2>2 DEF Passes, Waits
  <2>4. ImmediateFollows' /\ OrderFollows'
    BY <2>1, ImmediateStep, OrderStep DEF Passes
  <2>5. FirstFollows' /\ NotedFollow'
    BY <2>1, FirstStep, NotedStep DEF Passes
  <2>6. WatchFollows' /\ TestsPass'
    BY <2>1, <2>3, WatchStep, PassesStep DEF Passes
  <2>7. QED
    BY <2>1, <2>2, <2>4, <2>5, <2>6 DEF Passes
<1>3. Passes => TestsPass
  BY DEF Passes
<1>4. QED
  BY <1>1, <1>2, <1>3, PTL DEF BenchSpec
=============================================================================
