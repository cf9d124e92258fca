----------------------------- MODULE ClockProofs -----------------------------
(***************************************************************************)
(* What a clock edge of the protocol engine does in every environment:     *)
(* lemmas about Clock for the modules that put an environment beside the   *)
(* engine (EngineProofs, ShimProofs, BenchProofs).                         *)
(***************************************************************************)
EXTENDS ProtocolEngine, TLAPS

-----------------------------------------------------------------------------
\* The request port and what the engine derives from it

\* The wires taken from the request port have the widths of the arrays they
\* index, and the address is the concatenation of its cache tag and index.
LEMMA PortFields ==
    ASSUME m2s \in M2S
    PROVE  /\ m2s.valid \in BOOLEAN /\ m2s.is_write \in BOOLEAN
           /\ m2s.addr \in Addr /\ m2s.tag \in Tag /\ m2s.wdata \in Data
           /\ m2s_idx \in Line /\ m2s_cache_tag_field \in CacheTag
           /\ m2s.addr = <<m2s_cache_tag_field, m2s_idx>>
BY DEF M2S, Addr, m2s_idx, m2s_cache_tag_field

-----------------------------------------------------------------------------
\* Type correctness

\* A counter stays within its width, wrap-around included.
LEMMA CounterType ==
    ASSUME NEW c \in Counter, NEW by \in BOOLEAN
    PROVE  counted(c, by) \in Counter
<1>1. \A n \in Nat : n % CounterModulus \in 0 .. CounterModulus - 1
  BY CounterAssumption
<1>2. c + 1 \in Nat
  BY CounterAssumption DEF Counter
<1>3. QED
  BY <1>1, <1>2 DEF counted, Counter

\* Power-on puts every register within its width.
LEMMA PowerOnTypes ==
    ASSUME EngineInit, m2s \in M2S, cache_bypass_en \in BOOLEAN
    PROVE  EngineTypeOK
<1>1. 0 \in Tag /\ 0 \in Counter /\ 0 \in 0 .. ReadExtraLatency
  BY NumTagsAssumption, LatencyAssumption, CounterAssumption DEF Tag, Counter
<1>2. QED
  BY <1>1, DataAssumption, CacheTagAssumption
  DEF EngineInit, EngineTypeOK, BiasTypeOK, bias_reset

\* A clock edge leaves every register of the engine within its width.
LEMMA ClockTypes ==
    ASSUME EngineTypeOK, m2s' \in M2S, cache_bypass_en' \in BOOLEAN,
           NEW ready \in BOOLEAN, NEW ack \in BOOLEAN, NEW rsp \in BOOLEAN,
           NEW set \in BOOLEAN, NEW a \in Addr, NEW b \in BOOLEAN,
           Clock(ready, ack, rsp, set, a, b)
    PROVE  EngineTypeOK'
<1>1. /\ m2s.is_write \in BOOLEAN /\ m2s.addr \in Addr /\ m2s.tag \in Tag
      /\ m2s.wdata \in Data /\ m2s_idx \in Line /\ m2s_cache_tag_field \in CacheTag
  BY PortFields DEF EngineTypeOK
<1>2. BiasTypeOK'
  BY <1>1 DEF Clock, BiasWrite, bias_clock, BiasTypeOK, EngineTypeOK
<1>3. bi_state' \in {"BI_IDLE", "BI_REQ", "BI_WAIT_RSP"}
  BY DEF Clock, BiSequencer, EngineTypeOK
<1>4. flush_state' \in {"FLUSH_IDLE", "FLUSH_ACTIVE"}
  BY DEF Clock, EvictionFlush, EngineTypeOK
<1>5. mem[m2s.addr] \in Data
  BY <1>1 DEF EngineTypeOK
<1>6. /\ cache_valid' \in [Line -> BOOLEAN] /\ cache_dirty' \in [Line -> BOOLEAN]
      /\ cache_tag' \in [Line -> CacheTag] /\ cache_data' \in [Line -> Data]
  <2>1. CacheArrays
    BY DEF Clock
  <2>2. CASE cache_flush
    BY <2>2 DEF cache_flush, EngineTypeOK
  <2>3. CASE cache_write
    BY <2>3, <1>1 DEF cache_write, EngineTypeOK
  <2>4. CASE cache_fill
    BY <2>4, <1>1, <1>5 DEF cache_fill, EngineTypeOK
  <2>5. CASE cache_hold
    BY <2>5 DEF cache_hold, cacheVars, EngineTypeOK
  <2>6. QED
    BY <2>1, <2>2, <2>3, <2>4, <2>5 DEF CacheArrays
<1>7. mem' \in [Addr -> Data]
  BY <1>1 DEF Clock, BackingMemory, EngineTypeOK
<1>8. slot_valid' \in [Tag -> BOOLEAN] /\ slot_is_write' \in [Tag -> BOOLEAN]
  BY <1>1 DEF Clock, Slots, EngineTypeOK
<1>9. read_data \in Data
  BY <1>1, <1>5 DEF read_data, EngineTypeOK
<1>10. slot_rdata' \in [Tag -> Data]
  BY <1>9 DEF Clock, Slots, EngineTypeOK
<1>11. slot_cnt' \in [Tag -> 0 .. ReadExtraLatency]
  <2>1. accept_cnt \in 0 .. ReadExtraLatency
    BY LatencyAssumption DEF accept_cnt
  <2>2. \A t \in Tag : count_down(t) \in 0 .. ReadExtraLatency
    BY LatencyAssumption DEF count_down, EngineTypeOK
  <2>3. QED
    BY <2>1, <2>2 DEF Clock, Slots, EngineTypeOK
<1>12. resp_active' \in BOOLEAN /\ resp_tag_r' \in Tag
  BY DEF Clock, Response, EngineTypeOK
<1>13. dbg_cache_hits' \in Counter /\ dbg_cache_misses' \in Counter
  BY CounterType DEF Clock, Counters, EngineTypeOK, accept_this_cycle, cache_hit_eff
<1>14. QED
  BY <1>2, <1>3, <1>4, <1>6, <1>7, <1>8, <1>10, <1>11, <1>12, <1>13 DEF EngineTypeOK
-----------------------------------------------------------------------------
\* Pulses the engine does not listen to

\* An edge is the same edge under other pulses wherever the engine does not
\* look: at `ready` without an answer on offer, at `ack` and `rsp` out of their
\* states, at the bias port without a write or under a flip.
LEMMA ClockIgnoresIdlePulses ==
    ASSUME NEW ready \in BOOLEAN, NEW ack \in BOOLEAN, NEW rsp \in BOOLEAN,
           NEW set \in BOOLEAN, NEW a, NEW b \in BOOLEAN,
           Clock(ready, ack, rsp, set, a, b),
           NEW ready2 \in BOOLEAN, NEW ack2 \in BOOLEAN, NEW rsp2 \in BOOLEAN,
           NEW a2, NEW b2 \in BOOLEAN,
           s2m_valid => ready2 = ready,
           bi_req_valid => ack2 = ack,
           bi_state = "BI_WAIT_RSP" => rsp2 = rsp,
           bi_flip_now(rsp) \/ ~set \/ (a2 = a /\ b2 = b)
    PROVE  Clock(ready2, ack2, rsp2, set, a2, b2)
<1>1. BiSequencer(ack2, rsp2)
  BY DEF Clock, BiSequencer, bi_req_valid, bi_flip_now
<1>2. BiasWrite(rsp2, set, a2, b2)
  <2>1. bi_flip_now(rsp2) <=> bi_flip_now(rsp)
    BY DEF bi_flip_now
  <2>2. CASE bi_flip_now(rsp)
    BY <2>1, <2>2 DEF Clock, BiasWrite
  <2>3. CASE ~bi_flip_now(rsp)
    BY <2>1, <2>3 DEF Clock, BiasWrite, bias_clock
  <2>4. QED
    BY <2>2, <2>3
<1>3. Response(ready2)
  BY DEF Clock, Response, s2m_valid
<1>4. Slots(ready2)
  <2>1. resp_consumed_this_cycle(ready2) <=> resp_consumed_this_cycle(ready)
    BY DEF resp_consumed_this_cycle, s2m_valid
  <2>2. \A t \in Tag : retired(t, ready2) <=> retired(t, ready)
    BY <2>1 DEF retired
  <2>3. QED
    BY <2>2 DEF Clock, Slots
<1>5. QED
  BY <1>1, <1>2, <1>3, <1>4 DEF Clock

-----------------------------------------------------------------------------
\* What holds in every environment

\* A flush starts only when no handshake runs and none starts with it, and
\* lasts one cycle.
LEMMA ClockKeepsFlushBiExclusive ==
    ASSUME NEW ready, NEW ack, NEW rsp, NEW set, NEW a, NEW b,
           Clock(ready, ack, rsp, set, a, b)
    PROVE  FlushBiExclusive'
<1>1. SUFFICES ASSUME flush_state' = "FLUSH_ACTIVE"
               PROVE  bi_state' = "BI_IDLE"
  BY DEF FlushBiExclusive
<1>2. want_flush
  BY <1>1 DEF Clock, EvictionFlush
<1>3. bi_state = "BI_IDLE" /\ ~want_bi
  BY <1>2 DEF want_flush, want_bi
<1>4. bi_state' = bi_state
  BY <1>3 DEF Clock, BiSequencer, bi_req_valid, bi_flip_now
<1>5. QED
  BY <1>3, <1>4

\* An offered response keeps its slot: no accept can take a slot that is
\* occupied, and only the consume that withdraws the offer frees it.
LEMMA ClockKeepsResponseIsOwed ==
    ASSUME EngineTypeOK, ResponseIsOwed,
           NEW ready \in BOOLEAN, NEW ack, NEW rsp, NEW set, NEW a, NEW b,
           Clock(ready, ack, rsp, set, a, b)
    PROVE  ResponseIsOwed'
<1>1. SUFFICES ASSUME resp_active'
               PROVE  slot_valid'[resp_tag_r'] /\ slot_cnt'[resp_tag_r'] = 0
  BY DEF ResponseIsOwed, slot_done
<1>2. /\ resp_tag_r' \in Tag
      /\ slot_done(resp_tag_r')
      /\ ~resp_consumed_this_cycle(ready)
  <2>1. CASE ~resp_active
    BY <2>1, <1>1 DEF Clock, Response, arb_selects, resp_consumed_this_cycle, EngineTypeOK
  <2>2. CASE resp_active
    BY <2>2, <1>1 DEF Clock, Response, resp_consumed_this_cycle, ResponseIsOwed, EngineTypeOK
  <2>3. QED
    BY <2>1, <2>2
<1>3. ~accepted(resp_tag_r')
  BY <1>2 DEF accepted, accept_this_cycle, m2s_ready, slot_done
<1>4. ~retired(resp_tag_r', ready)
  BY <1>2 DEF retired
<1>5. QED
  BY <1>2, <1>3, <1>4 DEF Clock, Slots, slot_done, count_down

\* Only a write makes a line dirty, and it makes it valid; nothing invalidates.
LEMMA ClockKeepsDirtyLineIsValid ==
    ASSUME EngineTypeOK, DirtyLineIsValid,
           NEW ready, NEW ack, NEW rsp, NEW set, NEW a, NEW b,
           Clock(ready, ack, rsp, set, a, b)
    PROVE  DirtyLineIsValid'
<1>1. SUFFICES ASSUME NEW i \in Line, cache_dirty'[i]
               PROVE  cache_valid'[i]
  BY DEF DirtyLineIsValid
<1>2. CacheArrays
  BY DEF Clock
<1>3. CASE cache_flush
  BY <1>1, <1>3 DEF cache_flush, EngineTypeOK, DirtyLineIsValid
<1>4. CASE cache_write
  BY <1>1, <1>4 DEF cache_write, EngineTypeOK, DirtyLineIsValid
<1>5. CASE cache_fill
  BY <1>1, <1>5 DEF cache_fill, EngineTypeOK, DirtyLineIsValid
<1>6. CASE cache_hold
  BY <1>1, <1>6 DEF cache_hold, cacheVars, DirtyLineIsValid
<1>7. QED
  BY <1>2, <1>3, <1>4, <1>5, <1>6 DEF CacheArrays

=============================================================================
