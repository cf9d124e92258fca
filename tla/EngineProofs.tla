---------------------------- MODULE EngineProofs ----------------------------
(***************************************************************************)
(* Proofs about the protocol engine under a host that keeps the M2S        *)
(* contract (EngineHost), for every number of tags, every cache geometry   *)
(* and every latency.                                                      *)
(***************************************************************************)
EXTENDS EngineHost, ClockProofs

-----------------------------------------------------------------------------
\* The steps of the host

\* Every step of the host is a clock edge of the engine with some pulses, and
\* moves the port as the contract says.
LEMMA NextIsClock ==
    ASSUME TypeOK, Next
    PROVE  \E ready, ack, rsp, set, b \in BOOLEAN, a \in Addr :
              ClockPulses(ready, ack, rsp, set, a, b)
<1>1. m2s.addr \in Addr
  BY PortFields DEF TypeOK, EngineTypeOK
<1>2. PICK ready \in BOOLEAN : Cycle(ready)
  BY DEF Next
<1>3. CASE Quiet(ready)
  BY <1>1, <1>3 DEF Quiet
<1>4. CASE AckBi(ready)
  BY <1>1, <1>4 DEF AckBi
<1>5. CASE \E a \in Addr : SendBiRsp(ready, a)
  BY <1>5 DEF SendBiRsp
<1>6. CASE \E a \in BiasSettable, b \in BOOLEAN : WriteBias(ready, a, b)
  BY <1>6, BiasSettableAssumption DEF WriteBias
<1>7. QED
  BY <1>2, <1>3, <1>4, <1>5, <1>6 DEF Cycle

-----------------------------------------------------------------------------
\* The inductive invariant

\* Power-on establishes every part of the invariant.
LEMMA InitEstablishesIInv == Init => IInv
<1> SUFFICES ASSUME Init PROVE IInv
  OBVIOUS
<1>1. m2s \in M2S
  BY PortValuesAssumption DEF Init
<1>2. TypeOK
  BY <1>1, PowerOnTypes DEF Init, TypeOK
<1>3. FlushBiExclusive /\ ResponseIsOwed /\ HostCopyIsHostBiased
  BY DEF Init, EngineInit, FlushBiExclusive, ResponseIsOwed, HostCopyIsHostBiased
<1>4. DirtyLineIsValid /\ CleanLineMatchesMemory /\ CachedIsNotBypassed
  BY DEF Init, EngineInit, DirtyLineIsValid, CleanLineMatchesMemory, CachedIsNotBypassed
<1>5. FlushTargetsVictim /\ BiNamesPendingLine
  BY DEF Init, EngineInit, FlushTargetsVictim, do_flush_write_this_cycle,
         BiNamesPendingLine, bi_active
<1>6. PortMatchesBypass /\ HostBiasedIsNotCached
  BY DEF Init, EngineInit, PortMatchesBypass, HostBiasedIsNotCached
<1>7. QED
  BY <1>2, <1>3, <1>4, <1>5, <1>6 DEF IInv

\* A stalled request stays on the port with its bypass setting; otherwise the
\* host moves the port.
LEMMA PortStep ==
    ASSUME NEW ready, NEW ack, NEW rsp, NEW set, NEW a, NEW b,
           ClockPulses(ready, ack, rsp, set, a, b)
    PROVE  m2s.valid /\ ~m2s_ready => m2s' = m2s /\ cache_bypass_en' = cache_bypass_en
BY DEF ClockPulses, HostPort, StalledRequestStays

\* Every step, and every stuttering step, keeps the types.
LEMMA TypeStep == TypeOK /\ [Next]_vars => TypeOK'
<1>1. ASSUME TypeOK, Next PROVE TypeOK'
  <2>1. PICK ready \in BOOLEAN, ack \in BOOLEAN, rsp \in BOOLEAN, set \in BOOLEAN,
             b \in BOOLEAN, a \in Addr : ClockPulses(ready, ack, rsp, set, a, b)
    BY <1>1, NextIsClock
  <2>2. m2s' \in M2S /\ cache_bypass_en' \in BOOLEAN
    BY <1>1, <2>1, PortValuesAssumption
    DEF ClockPulses, HostPort, StalledRequestStays, FreePort, TypeOK, EngineTypeOK
  <2>3. EngineTypeOK'
    BY <1>1, <2>1, <2>2, ClockTypes DEF TypeOK, ClockPulses
  <2>4. host_copy' \subseteq Addr /\ bi_taken' \in Addr \cup {None}
    <3>1. m2s.addr \in Addr
      BY <1>1, PortFields DEF TypeOK, EngineTypeOK
    <3>2. QED
      BY <1>1, <3>1, BiasSettableAssumption
      DEF TypeOK, Next, Cycle, Quiet, AckBi, SendBiRsp, WriteBias, hostVars,
          TakeBi, RespondBi, SetBias, bi_req_addr
  <2>5. QED
    BY <2>3, <2>4 DEF TypeOK
<1>2. ASSUME TypeOK, UNCHANGED vars PROVE TypeOK'
  BY <1>2 DEF TypeOK, EngineTypeOK, BiasTypeOK, vars, engineVars, cacheVars, slotVars, hostVars
<1>3. QED
  BY <1>1, <1>2

-----------------------------------------------------------------------------
\* The steps of the invariant, one conjunct at a time, for one clock edge

\* A flush that starts stalls its request, so port and line are the same one
\* edge later; and it is over after that edge.
LEMMA KeepsFlushTargetsVictim ==
    ASSUME TypeOK,
           NEW ready, NEW ack, NEW rsp, NEW set, NEW a, NEW b,
           ClockPulses(ready, ack, rsp, set, a, b)
    PROVE  FlushTargetsVictim'
<1>1. SUFFICES ASSUME flush_state' = "FLUSH_ACTIVE"
               PROVE  (m2s.valid /\ need_evict_writeback)'
  BY DEF FlushTargetsVictim, do_flush_write_this_cycle
<1>2. want_flush
  BY <1>1 DEF ClockPulses, Clock, EvictionFlush
<1>3. m2s.valid /\ ~m2s_ready
  BY <1>2 DEF want_flush, m2s_ready
<1>4. m2s' = m2s /\ cache_bypass_en' = cache_bypass_en
  BY <1>3, PortStep
<1>5. UNCHANGED cacheVars
  BY <1>2, <1>3 DEF want_flush, ClockPulses, Clock, CacheArrays, cache_flush, cache_write,
     cache_fill, cache_hold, cache_allocates, accept_this_cycle, do_flush_write_this_cycle
<1>6. QED
  BY <1>2, <1>4, <1>5
  DEF want_flush, need_evict_writeback, cacheVars, cache_hit, m2s_idx, m2s_cache_tag_field

\* During a handshake the request stalls, because bi_state gates m2s_ready, and
\* what starts one is a request that stalls on its Host bias.
LEMMA KeepsRequestDuringBi ==
    ASSUME TypeOK, bi_active => m2s.valid,
           NEW ready, NEW ack, NEW rsp, NEW set, NEW a, NEW b,
           ClockPulses(ready, ack, rsp, set, a, b),
           bi_active'
    PROVE  m2s' = m2s /\ m2s.valid
<1>1. want_bi \/ bi_active
  BY DEF ClockPulses, Clock, BiSequencer, bi_active, want_bi, bi_req_valid
<1>2. m2s.valid /\ ~m2s_ready
  BY <1>1 DEF want_bi, bi_active, m2s_ready
<1>3. QED
  BY <1>2, PortStep

\* The bypass setting on the port is that of the request's address.
LEMMA KeepsPortMatchesBypass ==
    ASSUME PortMatchesBypass,
           NEW ready, NEW ack, NEW rsp, NEW set, NEW a, NEW b,
           ClockPulses(ready, ack, rsp, set, a, b)
    PROVE  PortMatchesBypass'
BY DEF PortMatchesBypass, ClockPulses, HostPort, StalledRequestStays, FreePort

\* A line is allocated for the request accepted with the cache enabled.
LEMMA KeepsCachedIsNotBypassed ==
    ASSUME TypeOK, PortMatchesBypass, CachedIsNotBypassed,
           NEW ready, NEW ack, NEW rsp, NEW set, NEW a, NEW b,
           ClockPulses(ready, ack, rsp, set, a, b)
    PROVE  CachedIsNotBypassed'
<1>1. SUFFICES ASSUME NEW i \in Line, cache_valid'[i]
               PROVE  <<cache_tag'[i], i>> \notin Bypassed
  BY DEF CachedIsNotBypassed
<1>2. m2s_idx \in Line /\ m2s.addr = <<m2s_cache_tag_field, m2s_idx>>
  BY PortFields DEF TypeOK, EngineTypeOK
<1>3. cache_allocates => m2s.addr \notin Bypassed
  BY DEF cache_allocates, accept_this_cycle, PortMatchesBypass, TypeOK, EngineTypeOK
<1>4. CacheArrays
  BY DEF ClockPulses, Clock
<1>5. CASE cache_flush \/ cache_hold
  BY <1>1, <1>5 DEF cache_flush, cache_hold, cacheVars, CachedIsNotBypassed
<1>6. CASE cache_write
  BY <1>1, <1>2, <1>3, <1>6 DEF cache_write, CachedIsNotBypassed, TypeOK, EngineTypeOK
<1>7. CASE cache_fill
  BY <1>1, <1>2, <1>3, <1>7 DEF cache_fill, CachedIsNotBypassed, TypeOK, EngineTypeOK
<1>8. QED
  BY <1>4, <1>5, <1>6, <1>7 DEF CacheArrays

\* A flush makes its line clean and memory equal to it; a fill copies memory;
\* a write that bypasses the cache changes an address no line holds.
LEMMA KeepsCleanLineMatchesMemory ==
    ASSUME TypeOK, CleanLineMatchesMemory, PortMatchesBypass, CachedIsNotBypassed,
           NEW ready, NEW ack, NEW rsp, NEW set, NEW a, NEW b,
           ClockPulses(ready, ack, rsp, set, a, b)
    PROVE  CleanLineMatchesMemory'
<1>1. SUFFICES ASSUME NEW i \in Line, cache_valid'[i], ~cache_dirty'[i]
               PROVE  cache_data'[i] = mem'[<<cache_tag'[i], i>>]
  BY DEF CleanLineMatchesMemory
<1>2. /\ m2s_idx \in Line /\ m2s_cache_tag_field \in CacheTag /\ m2s.addr \in Addr
      /\ m2s.addr = <<m2s_cache_tag_field, m2s_idx>>
  BY PortFields DEF TypeOK, EngineTypeOK
<1>3. \A j \in Line : <<cache_tag[j], j>> \in Addr
  BY DEF TypeOK, EngineTypeOK, Addr
<1>4. BackingMemory /\ CacheArrays
  BY DEF ClockPulses, Clock
<1>5. CASE cache_flush
  <2>1. /\ cache_valid' = cache_valid /\ cache_tag' = cache_tag /\ cache_data' = cache_data
        /\ mem' = [mem EXCEPT ![<<cache_tag[m2s_idx], m2s_idx>>] = cache_data[m2s_idx]]
    BY <1>4, <1>5 DEF BackingMemory, cache_flush, flush_addr
  <2>2. CASE i = m2s_idx
    BY <1>3, <2>1, <2>2 DEF TypeOK, EngineTypeOK
  <2>3. CASE i # m2s_idx
    <3>1. ~cache_dirty[i]
      BY <1>1, <1>2, <1>5, <2>3 DEF cache_flush, TypeOK, EngineTypeOK
    <3>2. <<cache_tag[i], i>> # <<cache_tag[m2s_idx], m2s_idx>>
      BY <2>3
    <3>3. QED
      BY <1>1, <1>2, <1>3, <2>1, <3>1, <3>2 DEF CleanLineMatchesMemory, TypeOK, EngineTypeOK
  <2>4. QED
    BY <2>2, <2>3
<1>6. CASE cache_write \/ cache_fill
  <2>1. mem' = mem
    BY <1>4, <1>6 DEF cache_write, cache_fill, cache_allocates, BackingMemory
  <2>2. CASE i = m2s_idx
    <3>1. cache_fill
      BY <1>1, <1>2, <1>6, <2>2 DEF cache_write, TypeOK, EngineTypeOK
    <3>2. cache_data'[i] = mem[m2s.addr] /\ cache_tag'[i] = m2s_cache_tag_field
      BY <1>2, <2>2, <3>1 DEF cache_fill, TypeOK, EngineTypeOK
    <3>3. QED
      BY <1>2, <2>1, <2>2, <3>2
  <2>3. CASE i # m2s_idx
    <3>1. /\ cache_valid[i] /\ ~cache_dirty[i]
          /\ cache_tag'[i] = cache_tag[i] /\ cache_data'[i] = cache_data[i]
      BY <1>1, <1>2, <1>6, <2>3 DEF cache_write, cache_fill, TypeOK, EngineTypeOK
    <3>2. QED
      BY <2>1, <3>1 DEF CleanLineMatchesMemory
  <2>4. QED
    BY <2>2, <2>3
<1>7. CASE cache_hold
  <2>1. /\ cache_valid[i] /\ ~cache_dirty[i]
        /\ cache_tag' = cache_tag /\ cache_data' = cache_data
    BY <1>1, <1>7 DEF cache_hold, cacheVars
  <2>2. <<cache_tag[i], i>> \notin Bypassed
    BY <2>1 DEF CachedIsNotBypassed
  <2>3. mem'[<<cache_tag[i], i>>] = mem[<<cache_tag[i], i>>]
    <3>1. CASE accept_this_cycle /\ cache_bypass_en /\ m2s.is_write
      <4>1. m2s.addr \in Bypassed
        BY <3>1 DEF PortMatchesBypass, accept_this_cycle, TypeOK, EngineTypeOK
      <4>2. mem' = [mem EXCEPT ![m2s.addr] = m2s.wdata]
        BY <1>4, <1>7, <3>1 DEF BackingMemory, cache_hold
      <4>3. QED
        BY <1>3, <2>2, <4>1, <4>2 DEF TypeOK, EngineTypeOK
    <3>2. CASE ~(accept_this_cycle /\ cache_bypass_en /\ m2s.is_write)
      BY <1>4, <1>7, <3>2 DEF BackingMemory, cache_hold
    <3>3. QED
      BY <3>1, <3>2
  <2>4. QED
    BY <2>1, <2>3 DEF CleanLineMatchesMemory
<1>8. QED
  BY <1>4, <1>5, <1>6, <1>7 DEF CacheArrays

\* A copy is dropped, or given up, before its line becomes Device-Biased: the
\* flip at the end of a handshake names the line whose copy the host dropped.
LEMMA KeepsHostCopyIsHostBiased ==
    ASSUME TypeOK, HostCopyIsHostBiased, BiNamesPendingLine, Next
    PROVE  HostCopyIsHostBiased'
<1>1. m2s.addr \in Addr /\ bias \in [Addr -> BOOLEAN] /\ host_copy \subseteq Addr
  BY PortFields DEF TypeOK, EngineTypeOK, BiasTypeOK
<1>2. PICK ready \in BOOLEAN : Cycle(ready)
  BY DEF Next
<1>3. CASE Quiet(ready)
  BY <1>3 DEF Quiet, ClockPulses, Clock, BiasWrite, bias_clock, bi_flip_now,
              hostVars, HostCopyIsHostBiased
<1>4. CASE AckBi(ready)
  BY <1>4 DEF AckBi, ClockPulses, Clock, BiasWrite, bias_clock, bi_flip_now,
              TakeBi, HostCopyIsHostBiased
<1>5. CASE \E a \in Addr : SendBiRsp(ready, a)
  <2>1. bias' = [bias EXCEPT ![m2s.addr] = FALSE] /\ host_copy' = host_copy \ {bi_taken}
    BY <1>5 DEF SendBiRsp, ClockPulses, Clock, BiasWrite, bias_clock, bi_flip_now, RespondBi
  <2>2. bi_taken = m2s.addr
    BY <1>5 DEF SendBiRsp, BiNamesPendingLine
  <2>3. QED
    BY <1>1, <2>1, <2>2 DEF HostCopyIsHostBiased
<1>6. CASE \E a \in BiasSettable, b \in BOOLEAN : WriteBias(ready, a, b)
  <2>1. PICK a \in BiasSettable, b \in BOOLEAN : WriteBias(ready, a, b)
    BY <1>6
  <2>2. bias' = [bias EXCEPT ![a] = b]
    BY <2>1 DEF WriteBias, ClockPulses, Clock, BiasWrite, bias_clock, bi_flip_now
  <2>3. host_copy' = IF b THEN host_copy \cup {a} ELSE host_copy \ {a}
    BY <2>1 DEF WriteBias, SetBias
  <2>4. QED
    BY <1>1, <2>2, <2>3, BiasSettableAssumption DEF HostCopyIsHostBiased
<1>7. QED
  BY <1>2, <1>3, <1>4, <1>5, <1>6 DEF Cycle

\* A line is cached for the address of a request that was accepted, hence
\* Device-Biased, and a bias write that would make it Host-Biased is not made.
LEMMA KeepsHostBiasedIsNotCached ==
    ASSUME TypeOK, HostBiasedIsNotCached, ~SetsResidentBias, Next
    PROVE  HostBiasedIsNotCached'
<1>1. SUFFICES ASSUME NEW i \in Line, cache_valid'[i]
               PROVE  ~bias'[<<cache_tag'[i], i>>]
  BY DEF HostBiasedIsNotCached
<1> DEFINE line == <<cache_tag'[i], i>>
<1>2. /\ m2s_idx \in Line /\ m2s_cache_tag_field \in CacheTag /\ m2s.addr \in Addr
      /\ m2s.addr = <<m2s_cache_tag_field, m2s_idx>>
  BY PortFields DEF TypeOK, EngineTypeOK
<1>3. line \in Addr
  BY TypeStep DEF TypeOK, EngineTypeOK, Addr
<1>4. PICK ready \in BOOLEAN : Cycle(ready)
  BY DEF Next
<1>5. CacheArrays
  BY <1>4 DEF Cycle, Quiet, AckBi, SendBiRsp, WriteBias, ClockPulses, Clock
<1>6. ~bias[line]
  <2>1. CASE cache_flush \/ cache_hold
    BY <1>1, <2>1 DEF cache_flush, cache_hold, cacheVars, HostBiasedIsNotCached
  <2>2. CASE cache_write \/ cache_fill
    <3>1. ~bias[m2s.addr]
      BY <2>2 DEF cache_write, cache_fill, cache_allocates, accept_this_cycle, m2s_ready,
                  bias_query_rd_data
    <3>2. i = m2s_idx => line = m2s.addr
      BY <1>2, <2>2 DEF cache_write, cache_fill, TypeOK, EngineTypeOK
    <3>3. i # m2s_idx => cache_valid[i] /\ cache_tag'[i] = cache_tag[i]
      BY <1>1, <1>2, <2>2 DEF cache_write, cache_fill, TypeOK, EngineTypeOK
    <3>4. QED
      BY <3>1, <3>2, <3>3 DEF HostBiasedIsNotCached
  <2>3. QED
    BY <1>5, <2>1, <2>2 DEF CacheArrays
<1>7. bias \in [Addr -> BOOLEAN]
  BY DEF TypeOK, EngineTypeOK, BiasTypeOK
<1>8. CASE Quiet(ready) \/ AckBi(ready)
  BY <1>6, <1>8 DEF Quiet, AckBi, ClockPulses, Clock, BiasWrite, bias_clock, bi_flip_now
<1>9. CASE \E a \in Addr : SendBiRsp(ready, a)
  <2>1. bias' = [bias EXCEPT ![m2s.addr] = FALSE]
    BY <1>9 DEF SendBiRsp, ClockPulses, Clock, BiasWrite, bias_clock, bi_flip_now
  <2>2. QED
    BY <1>3, <1>6, <1>7, <2>1
<1>10. CASE \E a \in BiasSettable, b \in BOOLEAN : WriteBias(ready, a, b)
  <2>1. PICK a \in BiasSettable, b \in BOOLEAN : WriteBias(ready, a, b)
    BY <1>10
  <2>2. bias' = [bias EXCEPT ![a] = b]
    BY <2>1 DEF WriteBias, ClockPulses, Clock, BiasWrite, bias_clock, bi_flip_now
  <2>3. a = line => ~b
    BY <1>1, <2>1 DEF WriteBias, resident
  <2>4. QED
    BY <1>3, <1>6, <1>7, <2>2, <2>3
<1>11. QED
  BY <1>4, <1>8, <1>9, <1>10 DEF Cycle

\* The request of a handshake stays on the port, and the line the host took in
\* BI_REQ is the one the request names in BI_WAIT_RSP.
LEMMA KeepsBiNamesPendingLine ==
    ASSUME TypeOK, BiNamesPendingLine, Next
    PROVE  BiNamesPendingLine'
<1>1. SUFFICES ASSUME bi_active'
               PROVE  m2s'.valid /\ (bi_state' = "BI_WAIT_RSP" => bi_taken' = m2s'.addr)
  BY DEF BiNamesPendingLine, bi_active
<1>2. m2s' = m2s /\ m2s.valid
  <2>1. PICK ready \in BOOLEAN, ack \in BOOLEAN, rsp \in BOOLEAN, set \in BOOLEAN,
             b \in BOOLEAN, a \in Addr : ClockPulses(ready, ack, rsp, set, a, b)
    BY NextIsClock
  <2>2. bi_active => m2s.valid
    BY DEF BiNamesPendingLine
  <2>3. QED
    BY <1>1, <2>1, <2>2, KeepsRequestDuringBi
<1>3. SUFFICES ASSUME bi_state' = "BI_WAIT_RSP" PROVE bi_taken' = m2s.addr
  BY <1>2
<1>4. PICK ready \in BOOLEAN : Cycle(ready)
  BY DEF Next
<1>5. CASE Quiet(ready)
  BY <1>3, <1>5 DEF Quiet, ClockPulses, Clock, BiSequencer, bi_flip_now,
                    hostVars, BiNamesPendingLine
<1>6. CASE AckBi(ready)
  BY <1>6 DEF AckBi, TakeBi, bi_req_addr
<1>7. CASE \E a \in Addr : SendBiRsp(ready, a)
  BY <1>3, <1>7 DEF SendBiRsp, ClockPulses, Clock, BiSequencer, want_bi, bi_req_valid,
                    bi_flip_now
<1>8. CASE \E a \in BiasSettable, b \in BOOLEAN : WriteBias(ready, a, b)
  BY <1>3, <1>8 DEF WriteBias, SetBias, ClockPulses, Clock, BiSequencer, bi_flip_now,
                    BiNamesPendingLine
<1>9. QED
  BY <1>4, <1>5, <1>6, <1>7, <1>8 DEF Cycle

\* The invariant is inductive.
LEMMA StepKeepsIInv == IInv /\ [Next]_vars => IInv'
<1>1. ASSUME IInv, Next PROVE IInv'
  <2>1. PICK ready \in BOOLEAN, ack \in BOOLEAN, rsp \in BOOLEAN, set \in BOOLEAN,
             b \in BOOLEAN, a \in Addr : ClockPulses(ready, ack, rsp, set, a, b)
    BY <1>1, NextIsClock DEF IInv
  <2>2. Clock(ready, ack, rsp, set, a, b) /\ EngineTypeOK
    BY <1>1, <2>1 DEF ClockPulses, IInv, TypeOK
  <2>3. TypeOK'
    BY <1>1, TypeStep DEF IInv
  <2>4. FlushBiExclusive'
    BY <2>2, ClockKeepsFlushBiExclusive
  <2>5. ResponseIsOwed'
    BY <1>1, <2>2, ClockKeepsResponseIsOwed DEF IInv
  <2>6. DirtyLineIsValid'
    BY <1>1, <2>2, ClockKeepsDirtyLineIsValid DEF IInv
  <2>7. FlushTargetsVictim'
    BY <1>1, <2>1, KeepsFlushTargetsVictim DEF IInv
  <2>8. CleanLineMatchesMemory'
    BY <1>1, <2>1, KeepsCleanLineMatchesMemory DEF IInv
  <2>9. HostCopyIsHostBiased'
    BY <1>1, KeepsHostCopyIsHostBiased DEF IInv
  <2>10. BiNamesPendingLine'
    BY <1>1, KeepsBiNamesPendingLine DEF IInv
  <2>11. PortMatchesBypass'
    BY <1>1, <2>1, KeepsPortMatchesBypass DEF IInv
  <2>12. CachedIsNotBypassed'
    BY <1>1, <2>1, KeepsCachedIsNotBypassed DEF IInv
  <2>13. (SetsResidentBias \/ HostBiasedIsNotCached)'
    BY <1>1, KeepsHostBiasedIsNotCached DEF IInv
  <2>14. QED
    BY <2>3, <2>4, <2>5, <2>6, <2>7, <2>8, <2>9, <2>10, <2>11, <2>12, <2>13 DEF IInv
<1>2. ASSUME IInv, UNCHANGED vars PROVE IInv'
  <2>1. TypeOK'
    BY <1>2, TypeStep DEF IInv
  <2>2. (FlushBiExclusive /\ ResponseIsOwed /\ DirtyLineIsValid)'
    BY <1>2 DEF IInv, vars, engineVars, cacheVars, slotVars, FlushBiExclusive,
                ResponseIsOwed, slot_done, DirtyLineIsValid
  <2>3. (FlushTargetsVictim /\ CleanLineMatchesMemory)'
    BY <1>2 DEF IInv, vars, engineVars, cacheVars, FlushTargetsVictim,
                CleanLineMatchesMemory, do_flush_write_this_cycle, need_evict_writeback,
                cache_hit, m2s_idx, m2s_cache_tag_field
  <2>4. (HostCopyIsHostBiased /\ BiNamesPendingLine)'
    BY <1>2 DEF IInv, vars, engineVars, hostVars, HostCopyIsHostBiased,
                BiNamesPendingLine, bi_active
  <2>5. (PortMatchesBypass /\ CachedIsNotBypassed)'
    BY <1>2 DEF IInv, vars, engineVars, cacheVars, PortMatchesBypass, CachedIsNotBypassed
  <2>6. (SetsResidentBias \/ HostBiasedIsNotCached)'
    BY <1>2 DEF IInv, vars, engineVars, cacheVars, HostBiasedIsNotCached
  <2>7. QED
    BY <2>1, <2>2, <2>3, <2>4, <2>5, <2>6 DEF IInv
<1>3. QED
  BY <1>1, <1>2

-----------------------------------------------------------------------------
\* Theorems

\* The engine's registers stay within their widths.
THEOREM TypeCorrect == Spec => []TypeOK
<1>1. Init => TypeOK
  BY InitEstablishesIInv DEF IInv
<1>2. TypeOK /\ [Next]_vars => TypeOK'
  BY TypeStep
<1>3. QED
  BY <1>1, <1>2, PTL DEF Spec

\* The invariant holds of every reachable state.
THEOREM InvariantHolds == Spec => []IInv
<1>1. QED
  BY InitEstablishesIInv, StepKeepsIInv, PTL DEF Spec

\* The device never serves a line of which the host may hold a copy without a
\* Back-Invalidate.
THEOREM HostCopiesAreSafe == Spec => []HostCopyIsHostBiased
<1>1. QED
  BY InvariantHolds, PTL DEF IInv

\* The handshake that the request on the port started is the one whose line
\* flips: the request stays, and the host was told that line.
THEOREM HandshakeIsForTheRequest == Spec => []BiNamesPendingLine
<1>1. QED
  BY InvariantHolds, PTL DEF IInv

\* No write is lost by an eviction: a line that is overwritten without a flush
\* holds what memory holds.
THEOREM EvictionLosesNothing == Spec => []CleanLineMatchesMemory
<1>1. QED
  BY InvariantHolds, PTL DEF IInv

\* A flush writes back the victim of the request on the port.
THEOREM FlushIsOfTheVictim == Spec => []FlushTargetsVictim
<1>1. QED
  BY InvariantHolds, PTL DEF IInv

\* A response on offer is owed.
THEOREM ResponsesAreOwed == Spec => []ResponseIsOwed
<1>1. QED
  BY InvariantHolds, PTL DEF IInv

\* Eviction flush and Back-Invalidate exclude each other.
THEOREM SequencersExclude == Spec => []FlushBiExclusive
<1>1. QED
  BY InvariantHolds, PTL DEF IInv

\* A host that never makes a cached line Host-Biased never finds one cached.
THEOREM HostBiasedNeverCached ==
    ASSUME ~SetsResidentBias PROVE Spec => []HostBiasedIsNotCached
<1>1. IInv => HostBiasedIsNotCached
  BY DEF IInv
<1>2. QED
  BY <1>1, InvariantHolds, PTL

-----------------------------------------------------------------------------
\* The engine implements the tagged memory.

\* The address of the request is that of a valid line exactly on a hit, and an
\* address that is used with the cache bypassed is never that of a line.
LEMMA Residency ==
    ASSUME TypeOK, CachedIsNotBypassed
    PROVE  /\ cache_hit <=> resident(m2s.addr)
           /\ \A a \in Bypassed : ~resident(a)
<1>1. m2s.addr = <<m2s_cache_tag_field, m2s_idx>>
  BY PortFields DEF TypeOK, EngineTypeOK
<1>2. cache_hit <=> resident(m2s.addr)
  BY <1>1 DEF cache_hit, resident
<1>3. ASSUME NEW a \in Bypassed, resident(a) PROVE FALSE
  <2>1. a \in Addr
    BY BypassedAssumption
  <2>2. a[2] \in Line /\ a = <<a[1], a[2]>>
    BY <2>1 DEF Addr
  <2>3. QED
    BY <1>3, <2>2 DEF CachedIsNotBypassed, resident
<1>4. QED
  BY <1>2, <1>3

\* A read is served with what the memory behind the cache looks like.
LEMMA ReadDataIsView ==
    ASSUME TypeOK, CachedIsNotBypassed, PortMatchesBypass, accept_this_cycle
    PROVE  read_data = View[m2s.addr]
<1>1. m2s.addr \in Addr
  BY PortFields DEF TypeOK, EngineTypeOK
<1>2. cache_bypass_en => ~resident(m2s.addr)
  BY Residency DEF accept_this_cycle, PortMatchesBypass, TypeOK, EngineTypeOK
<1>3. QED
  BY <1>1, <1>2, Residency DEF read_data, cache_hit_eff, View, m2s_idx

\* Only an accepted write changes what the memory looks like: a flush moves the
\* word from the line to memory, a fill the other way, and an entry that is
\* overwritten without a flush held what memory holds.
LEMMA ViewStep ==
    ASSUME TypeOK, CleanLineMatchesMemory, FlushTargetsVictim, PortMatchesBypass,
           CachedIsNotBypassed,
           NEW ready, NEW ack, NEW rsp, NEW set, NEW x, NEW y,
           ClockPulses(ready, ack, rsp, set, x, y)
    PROVE  View' = IF accept_this_cycle /\ m2s.is_write
                   THEN [View EXCEPT ![m2s.addr] = m2s.wdata]
                   ELSE View
<1>1. /\ m2s_idx \in Line /\ m2s_cache_tag_field \in CacheTag /\ m2s.addr \in Addr
      /\ m2s.addr = <<m2s_cache_tag_field, m2s_idx>>
  BY PortFields DEF TypeOK, EngineTypeOK
<1>2. BackingMemory /\ CacheArrays
  BY DEF ClockPulses, Clock
<1>3. ASSUME NEW a \in Addr
      PROVE  (IF resident(a) THEN cache_data[a[2]] ELSE mem[a])' =
             IF accept_this_cycle /\ m2s.is_write /\ a = m2s.addr
             THEN m2s.wdata ELSE IF resident(a) THEN cache_data[a[2]] ELSE mem[a]
  <2>1. a[1] \in CacheTag /\ a[2] \in Line /\ a = <<a[1], a[2]>>
    BY DEF Addr
  <2>2. CASE cache_flush
    <3>1. /\ cache_valid' = cache_valid /\ cache_tag' = cache_tag /\ cache_data' = cache_data
          /\ mem' = [mem EXCEPT ![<<cache_tag[m2s_idx], m2s_idx>>] = cache_data[m2s_idx]]
          /\ ~accept_this_cycle
      BY <1>2, <2>2 DEF BackingMemory, cache_flush, flush_addr, accept_this_cycle, m2s_ready,
                        do_flush_write_this_cycle
    <3>2. cache_valid[m2s_idx]
      BY <2>2 DEF cache_flush, FlushTargetsVictim, need_evict_writeback
    <3>3. CASE resident(a)
      BY <3>1, <3>3 DEF resident
    <3>4. CASE ~resident(a)
      <4>1. a # <<cache_tag[m2s_idx], m2s_idx>>
        BY <3>2, <3>4 DEF resident
      <4>2. mem'[a] = mem[a]
        BY <3>1, <4>1 DEF TypeOK, EngineTypeOK
      <4>3. QED
        BY <3>1, <3>4, <4>2 DEF resident
    <3>5. QED
      BY <3>3, <3>4
  <2>3. CASE cache_write \/ cache_fill
    <3>1. accept_this_cycle /\ ~cache_bypass_en /\ mem' = mem
      BY <1>2, <2>3 DEF cache_write, cache_fill, cache_allocates, BackingMemory
    <3>2. CASE a[2] # m2s_idx
      BY <1>1, <2>1, <2>3, <3>1, <3>2
      DEF resident, cache_write, cache_fill, TypeOK, EngineTypeOK
    <3>3. CASE a = m2s.addr
      <4>1. resident(a)'
        BY <1>1, <2>3, <3>3 DEF resident, cache_write, cache_fill, TypeOK, EngineTypeOK
      <4>2. CASE cache_write
        BY <1>1, <3>1, <3>3, <4>1, <4>2 DEF cache_write, TypeOK, EngineTypeOK
      <4>3. CASE cache_fill
        <5>1. cache_data'[a[2]] = mem[a]
          BY <1>1, <3>3, <4>3 DEF cache_fill, TypeOK, EngineTypeOK
        <5>2. ~resident(a)
          BY <3>3, <4>3, Residency DEF cache_fill
        <5>3. QED
          BY <4>1, <4>3, <5>1, <5>2 DEF cache_fill
      <4>4. QED
        BY <2>3, <4>2, <4>3
    <3>4. CASE a[2] = m2s_idx /\ a # m2s.addr
      <4>1. a[1] # m2s_cache_tag_field
        BY <1>1, <2>1, <3>4
      <4>2. ~resident(a)'
        BY <1>1, <2>3, <3>4, <4>1 DEF resident, cache_write, cache_fill, TypeOK, EngineTypeOK
      <4>3. ASSUME resident(a) PROVE cache_data[a[2]] = mem[a]
        <5>1. ~cache_hit
          BY <1>1, <3>4, <4>1, <4>3 DEF resident, cache_hit
        <5>2. ~cache_dirty[m2s_idx]
          BY <3>1, <3>4, <4>3, <5>1
          DEF accept_this_cycle, m2s_ready, need_evict_writeback, resident, TypeOK, EngineTypeOK
        <5>3. QED
          BY <2>1, <3>4, <4>3, <5>2 DEF CleanLineMatchesMemory, resident
      <4>4. QED
        BY <3>1, <3>4, <4>2, <4>3
    <3>5. QED
      BY <3>2, <3>3, <3>4
  <2>4. CASE cache_hold
    <3>1. resident(a)' = resident(a) /\ cache_data' = cache_data
      BY <2>4 DEF cache_hold, cacheVars, resident
    <3>2. CASE accept_this_cycle /\ m2s.is_write
      <4>1. cache_bypass_en /\ mem' = [mem EXCEPT ![m2s.addr] = m2s.wdata]
        BY <1>2, <2>4, <3>2 DEF cache_hold, cache_allocates, BackingMemory
      <4>2. ~resident(m2s.addr)
        BY <3>2, <4>1, Residency DEF accept_this_cycle, PortMatchesBypass, TypeOK, EngineTypeOK
      <4>3. QED
        BY <1>1, <3>1, <3>2, <4>1, <4>2 DEF TypeOK, EngineTypeOK
    <3>3. CASE ~(accept_this_cycle /\ m2s.is_write)
      BY <1>2, <2>4, <3>1, <3>3 DEF cache_hold, BackingMemory
    <3>4. QED
      BY <3>2, <3>3
  <2>5. QED
    BY <1>2, <2>2, <2>3, <2>4 DEF CacheArrays
<1>4. QED
  BY <1>1, <1>3 DEF View


\* The answers as the tagged memory sees them.
Owed(t) == IF slot_valid[t] THEN answer_of(t) ELSE None
Offer == IF s2m_valid
         THEN [tag |-> s2m_tag,
               answer |-> IF s2m_is_data THEN [is_data |-> TRUE, rdata |-> s2m_rdata]
                                         ELSE [is_data |-> FALSE]]
         ELSE None

\* None stands for no answer and for no offer, and for nothing else.
NoneIsNothing ==
    /\ \A t \in Tag : Owed(t) = None <=> ~slot_valid[t]
    /\ Offer = None <=> ~resp_active
    /\ resp_active => Offer = [tag |-> resp_tag_r, answer |-> answer_of(resp_tag_r)]

\* None is neither an answer nor an offer.
LEMMA NoneMeansNothing == TypeOK => NoneIsNothing
<1> SUFFICES ASSUME TypeOK PROVE NoneIsNothing
  OBVIOUS
<1>1. \A t \in Tag : answer_of(t) \in Answer
  BY DEF answer_of, Answer, TypeOK, EngineTypeOK
<1>2. resp_tag_r \in Tag
  BY DEF TypeOK, EngineTypeOK
<1>3. Offer = IF resp_active THEN [tag |-> resp_tag_r, answer |-> answer_of(resp_tag_r)]
              ELSE None
  BY DEF Offer, answer_of, s2m_valid, s2m_tag, s2m_is_data, s2m_rdata, TypeOK, EngineTypeOK
<1>4. [tag |-> resp_tag_r, answer |-> answer_of(resp_tag_r)] # None
  BY <1>1, <1>2, NoneAssumption
<1>5. \A t \in Tag : answer_of(t) # None
  BY <1>1, NoneAssumption
<1>6. QED
  BY <1>3, <1>4, <1>5 DEF NoneIsNothing, Owed

\* An occupied slot keeps its answer until it is consumed.
LEMMA SlotKeepsAnswer ==
    ASSUME TypeOK, NEW ready, Slots(ready), NEW t \in Tag, slot_valid[t]
    PROVE  answer_of(t)' = answer_of(t)
<1>1. ~accepted(t)
  BY DEF accepted, accept_this_cycle, m2s_ready
<1>2. QED
  BY <1>1 DEF Slots, answer_of, TypeOK, EngineTypeOK

\* The answer port moves as the tagged memory's does: an answer that is owed is
\* offered, stays on offer, and leaves when the host takes it.
LEMMA AnswerPort ==
    ASSUME TypeOK, TypeOK', ResponseIsOwed, NEW ready \in BOOLEAN,
           Response(ready), Slots(ready)
    PROVE  /\ \/ Offer = None /\ \E t \in Tag :
                    Owed(t) # None /\ Offer' = [tag |-> t, answer |-> Owed(t)]
              \/ Offer' = Offer
              \/ Offer # None /\ Offer' = None
           /\ Offer # None /\ Offer' = None <=> resp_consumed_this_cycle(ready)
<1>1. NoneIsNothing /\ NoneIsNothing'
  BY NoneMeansNothing, PTL
<1>2. (Offer = None <=> ~resp_active) /\ (Offer' = None <=> ~resp_active')
  BY <1>1 DEF NoneIsNothing
<1>3. CASE ~resp_active /\ resp_active'
  <2>1. PICK t \in Tag : slot_valid[t] /\ resp_tag_r' = t
    BY <1>3 DEF Response, arb_selects, slot_done
  <2>2. Owed(t) # None /\ Owed(t) = answer_of(t)
    BY <1>1, <2>1 DEF NoneIsNothing, Owed
  <2>3. Offer' = [tag |-> t, answer |-> Owed(t)]
    BY <1>1, <1>3, <2>1, <2>2, SlotKeepsAnswer DEF NoneIsNothing, answer_of
  <2>4. QED
    BY <1>2, <1>3, <2>2, <2>3 DEF resp_consumed_this_cycle
<1>4. CASE resp_active /\ resp_active'
  <2>1. resp_tag_r' = resp_tag_r /\ ~ready
    BY <1>4 DEF Response, TypeOK, EngineTypeOK
  <2>2. PICK t \in Tag : t = resp_tag_r /\ slot_valid[t]
    BY <1>4 DEF ResponseIsOwed, slot_done, TypeOK, EngineTypeOK
  <2>3. Offer' = Offer
    BY <1>1, <1>4, <2>1, <2>2, SlotKeepsAnswer DEF NoneIsNothing, answer_of
  <2>4. QED
    BY <1>2, <1>4, <2>1, <2>3 DEF resp_consumed_this_cycle
<1>5. CASE ~resp_active'
  BY <1>2, <1>5 DEF Response, resp_consumed_this_cycle, TypeOK, EngineTypeOK
<1>6. QED
  BY <1>3, <1>4, <1>5 DEF TypeOK, EngineTypeOK

\* What is owed after an edge: the answer of the accepted request, and all that
\* was owed but what the host took.
LEMMA OwedStep ==
    ASSUME TypeOK, TypeOK', CachedIsNotBypassed, PortMatchesBypass,
           NEW ready \in BOOLEAN, Slots(ready), NEW t \in Tag
    PROVE  Owed(t)' = IF accepted(t)
                      THEN IF m2s.is_write THEN [is_data |-> FALSE]
                           ELSE [is_data |-> TRUE, rdata |-> View[m2s.addr]]
                      ELSE IF resp_consumed_this_cycle(ready) /\ resp_tag_r = t THEN None
                      ELSE Owed(t)
<1>1. CASE accepted(t)
  <2>1. read_data = View[m2s.addr]
    BY <1>1, ReadDataIsView DEF accepted
  <2>2. /\ slot_valid'[t] /\ slot_is_write'[t] = m2s.is_write
        /\ ~m2s.is_write => slot_rdata'[t] = read_data
    BY <1>1 DEF Slots
  <2>3. QED
    BY <1>1, <2>1, <2>2 DEF Owed, answer_of
<1>2. CASE ~accepted(t) /\ resp_consumed_this_cycle(ready) /\ resp_tag_r = t
  BY <1>2 DEF Slots, retired, Owed
<1>3. CASE ~accepted(t) /\ ~(resp_consumed_this_cycle(ready) /\ resp_tag_r = t)
  <2>1. slot_valid'[t] = slot_valid[t]
    BY <1>3 DEF Slots, retired, TypeOK, EngineTypeOK
  <2>2. QED
    BY <1>3, <2>1, SlotKeepsAnswer DEF Owed
<1>4. QED
  BY <1>1, <1>2, <1>3

\* The refinement mapping of EngineHost, in terms of Owed and Offer.
LEMMA MemoryPorts ==
    /\ Memory!TakeOffer <=> Offer # None /\ Offer' = None
    /\ Memory!KeepOffer <=> Offer' = Offer
    /\ Memory!PutOnOffer <=>
          Offer = None /\ \E t \in Tag :
             Owed(t) # None /\ Offer' = [tag |-> t, answer |-> Owed(t)]
BY DEF Memory!TakeOffer, Memory!KeepOffer, Memory!PutOnOffer, Offer, Owed

\* A clock edge of the engine under its host is a step of the tagged memory: an
\* accepted request is performed, any other waits, and the answer port moves.
LEMMA EdgeIsMemoryStep ==
    ASSUME IInv, TypeOK',
           NEW ready \in BOOLEAN, NEW ack, NEW rsp, NEW set, NEW a, NEW b,
           ClockPulses(ready, ack, rsp, set, a, b)
    PROVE  Memory!Next
<1>1. /\ TypeOK /\ ResponseIsOwed /\ CachedIsNotBypassed /\ PortMatchesBypass
      /\ CleanLineMatchesMemory /\ FlushTargetsVictim
  BY DEF IInv
<1>2. Response(ready) /\ Slots(ready) /\ HostPort
  BY DEF ClockPulses, Clock
<1>3. m2s.valid \in BOOLEAN /\ m2s.is_write \in BOOLEAN /\ m2s.tag \in Tag
  BY <1>1, PortFields DEF TypeOK, EngineTypeOK
<1>4. Memory!PutOnOffer \/ Memory!KeepOffer \/ Memory!TakeOffer
  BY <1>1, <1>2, AnswerPort, MemoryPorts
<1>5. \A t \in Tag : Memory!StillOwed(t) =
         IF resp_consumed_this_cycle(ready) /\ resp_tag_r = t THEN None ELSE Owed(t)
  <2>1. Memory!TakeOffer <=> resp_consumed_this_cycle(ready)
    BY <1>1, <1>2, AnswerPort, MemoryPorts
  <2>2. Offer # None => Offer.tag = resp_tag_r
    BY <1>1, NoneMeansNothing DEF NoneIsNothing
  <2>3. \A t \in Tag : Memory!StillOwed(t) =
           IF Memory!TakeOffer /\ Offer.tag = t THEN None ELSE Owed(t)
    BY DEF Memory!StillOwed, Offer, Owed
  <2>4. QED
    BY <2>1, <2>2, <2>3, MemoryPorts
<1>6. View' = IF accept_this_cycle /\ m2s.is_write
              THEN [View EXCEPT ![m2s.addr] = m2s.wdata]
              ELSE View
  BY <1>1, ViewStep
<1>7. CASE accept_this_cycle
  <2>1. m2s.valid /\ m2s' \in PortValues
    BY <1>2, <1>7 DEF accept_this_cycle, HostPort, FreePort
  <2>2. Owed(m2s.tag) = None
    BY <1>7 DEF accept_this_cycle, m2s_ready, Owed
  <2>3. \A t \in Tag : accepted(t) <=> t = m2s.tag
    BY <1>7 DEF accepted
  <2> DEFINE answer == IF m2s.is_write THEN [is_data |-> FALSE]
                       ELSE [is_data |-> TRUE, rdata |-> View[m2s.addr]]
  <2>4. \A t \in Tag : Owed(t)' = IF t = m2s.tag THEN answer ELSE Memory!StillOwed(t)
    BY <1>1, <1>2, <1>5, <2>3, OwedStep
  <2>5. CASE m2s.is_write
    <3>1. Memory!Perform(Memory!Ack)
      BY <1>3, <2>1, <2>2, <2>4, <2>5 DEF Memory!Perform, Memory!Ack, Owed
    <3>2. Memory!Write
      BY <1>6, <1>7, <2>5, <3>1 DEF Memory!Write
    <3>3. QED
      BY <1>4, <3>2 DEF Memory!Next
  <2>6. CASE ~m2s.is_write
    <3>1. Memory!Perform(Memory!ReadData(View[m2s.addr]))
      BY <1>3, <2>1, <2>2, <2>4, <2>6 DEF Memory!Perform, Memory!ReadData, Owed
    <3>2. Memory!Read
      BY <1>6, <2>6, <3>1 DEF Memory!Read
    <3>3. QED
      BY <1>4, <3>2 DEF Memory!Next
  <2>7. QED
    BY <2>5, <2>6
<1>8. CASE ~accept_this_cycle
  <2>1. \A t \in Tag : Owed(t)' = Memory!StillOwed(t)
    BY <1>1, <1>2, <1>5, <1>8, OwedStep DEF accepted
  <2>2. IF m2s.valid THEN UNCHANGED m2s ELSE m2s' \in PortValues
    BY <1>2, <1>8 DEF accept_this_cycle, HostPort, StalledRequestStays, FreePort
  <2>3. Memory!NoRequest
    BY <1>6, <1>8, <2>1, <2>2 DEF Memory!NoRequest, Owed
  <2>4. QED
    BY <1>4, <2>3 DEF Memory!Next
<1>9. QED
  BY <1>7, <1>8

\* The engine with its cache, biases, handshakes and evictions is a memory that
\* performs requests in the order it accepts them and answers each exactly once
\* under its tag, a read with the word last written to its address.
THEOREM EngineImplementsMemory == Spec => ImplementsTaggedMemory
<1>1. Init => Memory!Init
  <2>1. ASSUME Init PROVE View = [a \in Addr |-> ZeroData]
    <3>1. \A a \in Addr : a[2] \in Line
      BY DEF Addr
    <3>2. \A a \in Addr : ~resident(a) /\ mem[a] = ZeroData
      BY <2>1, <3>1 DEF Init, EngineInit, resident
    <3>3. QED
      BY <3>2 DEF View
  <2>2. QED
    BY <2>1 DEF Init, EngineInit, Memory!Init, s2m_valid
<1>2. IInv /\ IInv' /\ [Next]_vars => [Memory!Next]_Memory!vars
  <2>1. ASSUME IInv, IInv', Next PROVE Memory!Next
    <3>1. PICK ready \in BOOLEAN, ack \in BOOLEAN, rsp \in BOOLEAN, set \in BOOLEAN,
               b \in BOOLEAN, a \in Addr : ClockPulses(ready, ack, rsp, set, a, b)
      BY <2>1, NextIsClock DEF IInv
    <3>2. QED
      BY <2>1, <3>1, EdgeIsMemoryStep DEF IInv
  <2>2. ASSUME UNCHANGED vars PROVE UNCHANGED Memory!vars
    BY <2>2 DEF vars, engineVars, cacheVars, slotVars, Memory!vars, View, resident,
       answer_of, s2m_valid, s2m_tag, s2m_is_data, s2m_rdata
  <2>3. QED
    BY <2>1, <2>2
<1>3. QED
  BY <1>1, <1>2, InvariantHolds, PTL DEF Spec, ImplementsTaggedMemory, Memory!Spec

=============================================================================
