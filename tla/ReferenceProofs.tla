---------------------------- MODULE ReferenceProofs ----------------------------
(***************************************************************************)
(* Proofs that the engine beside a testbench follows the reference of      *)
(* BenchReference: whatever flushes, handshakes and latencies do between   *)
(* two edges, a request takes effect as a whole where the text fires it.   *)
(***************************************************************************)
EXTENDS BenchReference, BenchProofs

-----------------------------------------------------------------------------
\* The reference along a text

\* What the assumption on the texts says of instruction n of testbench t.
LEMMA ReferenceText ==
    ASSUME NEW t \in DOMAIN tests, NEW n \in 1 .. Len(tests[t])
    PROVE  /\ reference[t][n] \in References
           /\ reference[t][n + 1] = Step(tests[t], n, reference[t][n])
           /\ DrivesSettled(tests[t], n, reference[t][n])
           /\ ExpectsReference(tests[t], n, reference[t][n])
           /\ WaitsLongEnough(t, tests[t], n, reference[t][n])
BY ReferenceAssumption

\* The fields of a reference state.
LEMMA ReferenceFields ==
    ASSUME NEW s \in References
    PROVE  /\ s.bias \in [Addr -> BOOLEAN] /\ s.cache_bypass_en \in BOOLEAN
           /\ s.cache_valid \in [Line -> BOOLEAN] /\ s.cache_dirty \in [Line -> BOOLEAN]
           /\ s.cache_tag \in [Line -> CacheTag] /\ s.cache_data \in [Line -> Data]
           /\ s.mem \in [Addr -> Data]
           /\ s.is_data \in [Tag -> BOOLEAN] /\ s.rdata \in [Tag -> Data]
           /\ s.wait \in [Tag -> 0 .. ReadExtraLatency]
           /\ s.dbg_cache_hits \in Counter /\ s.dbg_cache_misses \in Counter
           /\ s.saved \in [counters -> Counter]
           /\ s.drained \subseteq Tag
           /\ s.first \in Tag \cup {NoTag} /\ s.last \in Tag \cup {NoTag}
           /\ s.in_handshake \in BOOLEAN
           /\ s.since \in {"first", "second", "silent", "other"}
BY DEF References

\* The instruction running, and the reference before it.
LEMMA RefText ==
    ASSUME ControlOK, running
    PROVE  /\ pc \in 1 .. Len(text) /\ instr = text[pc] /\ Len(text) \in Nat
           /\ ref \in References
           /\ DrivesSettled(text, pc, ref) /\ ExpectsReference(text, pc, ref)
           /\ WaitsLongEnough(test, text, pc, ref)
BY RunningInText, ReferenceText DEF ControlOK, text, ref

\* A step of the testbench takes the reference along: by an instruction, or not at
\* all while a loop waits.
LEMMA RefMoves ==
    ASSUME ControlOK, [BenchNext]_benchVars, running'
    PROVE  /\ running /\ test' = test /\ text' = text /\ ref' \in References
           /\ Executes \/ MovesOn => pc' = pc + 1 /\ ref' = Step(text, pc, ref)
           /\ WaitsOn \/ UNCHANGED benchVars => pc' = pc /\ ref' = ref /\ instr' = instr
<1>1. test' = test /\ text' = text /\ Len(text) \in Nat
  BY BenchCases, TestText DEF ControlOK, text
<1>2. running
  <2>1. CASE Executes \/ WaitsOn \/ MovesOn
    BY <2>1 DEF Executes, WaitsOn, MovesOn
  <2>2. CASE UNCHANGED benchVars
    BY <2>2 DEF benchVars, testVars, running
  <2>3. QED
    BY <2>1, <2>2, BenchCases
<1>3. Executes \/ MovesOn => pc' = pc + 1 /\ ref' = Step(text, pc, ref)
  <2>1. pc \in 1 .. Len(tests[test]) /\ test \in DOMAIN tests
    BY <1>2, RunningInText DEF ControlOK, text
  <2>2. reference[test][pc + 1] = Step(tests[test], pc, reference[test][pc])
    BY <2>1, ReferenceText
  <2>3. QED
    BY <1>1, <2>2 DEF Executes, MovesOn, ref, text
<1>4. WaitsOn \/ UNCHANGED benchVars => pc' = pc /\ ref' = ref /\ instr' = instr
  <2>1. WaitsOn => pc' = pc
    BY <1>1 DEF WaitsOn, running, text
  <2>2. UNCHANGED benchVars => pc' = pc
    BY DEF benchVars, testVars
  <2>3. QED
    BY <1>1, <2>1, <2>2 DEF ref, instr
<1>5. ref' \in References
  <2>1. ControlOK'
    BY BenchStays
  <2>2. pc' \in 1 .. Len(tests[test']) /\ test' \in DOMAIN tests
    BY <1>1, <2>1 DEF ControlOK, running, text
  <2>3. reference[test'][pc'] \in References
    BY <2>2, ReferenceText
  <2>4. QED
    BY <2>3 DEF ref
<1>6. QED
  BY <1>1, <1>2, <1>3, <1>4, <1>5

-----------------------------------------------------------------------------
\* Clock edges

\* The engine reads a request as the reference does.
LEMMA RequestAsReference ==
    ASSUME BenchSound, NEW s \in References,
           cache_bypass_en = s.cache_bypass_en, cache_valid = s.cache_valid,
           cache_tag = s.cache_tag, cache_data = s.cache_data
    PROVE  /\ cache_hit <=> finds(s, m2s)
           /\ cache_hit_eff <=> hits(s, m2s)
           /\ cache_dirty = s.cache_dirty => (need_evict_writeback <=> victim(s, m2s))
           /\ cache_dirty = flushed_dirty(s, m2s) /\ ~need_evict_writeback /\ victim(s, m2s) =>
                 ~cache_dirty[m2s_idx]
           /\ flush_addr = <<s.cache_tag[m2s.addr[2]], m2s.addr[2]>>
           /\ flush_addr \in Addr /\ flush_addr[2] = m2s_idx
           /\ mem = flushed_mem(s, m2s) => read_data = read(s, m2s)
<1>1. cache_hit <=> finds(s, m2s)
  BY DEF cache_hit, finds, m2s_idx, m2s_cache_tag_field
<1>2. cache_hit_eff <=> hits(s, m2s)
  BY <1>1 DEF cache_hit_eff, hits
<1>3. cache_dirty = s.cache_dirty => (need_evict_writeback <=> victim(s, m2s))
  BY <1>1 DEF need_evict_writeback, victim, m2s_idx
<1>4. cache_dirty = flushed_dirty(s, m2s) /\ ~need_evict_writeback /\ victim(s, m2s) =>
         ~cache_dirty[m2s_idx]
  BY <1>1 DEF need_evict_writeback, victim, m2s_idx
<1>5. flush_addr = <<s.cache_tag[m2s.addr[2]], m2s.addr[2]>>
  BY DEF flush_addr, m2s_idx
<1>6. flush_addr \in Addr /\ flush_addr[2] = m2s_idx
  <2>1. m2s_idx \in Line /\ cache_tag \in [Line -> CacheTag]
    BY PortFields DEF BenchSound, EngineTypeOK
  <2>2. QED
    BY <2>1 DEF flush_addr, Addr
<1>7. mem = flushed_mem(s, m2s) => read_data = read(s, m2s)
  BY <1>2 DEF read_data, read, m2s_idx
<1>8. QED
  BY <1>1, <1>2, <1>3, <1>4, <1>5, <1>6, <1>7

\* An edge that accepts the request on the port, its Back-Invalidate and its flush
\* over, does to cache and memory what the reference does as a whole.
LEMMA FiringEdge ==
    ASSUME BenchSound, NEW s \in References, NEW ready \in BOOLEAN,
           NEW ack, NEW rsp, NEW set, NEW a, NEW b,
           Clock(ready, ack, rsp, set, a, b), accept_this_cycle,
           cache_bypass_en = s.cache_bypass_en, cache_valid = s.cache_valid,
           cache_tag = s.cache_tag, cache_data = s.cache_data,
           cache_dirty = flushed_dirty(s, m2s), mem = flushed_mem(s, m2s)
    PROVE  LET r == m2s IN
           /\ cache_valid' = IF allocates(s, r) THEN put(s.cache_valid, r.addr[2], TRUE)
                             ELSE s.cache_valid
           /\ cache_tag' = IF allocates(s, r) THEN put(s.cache_tag, r.addr[2], r.addr[1])
                           ELSE s.cache_tag
           /\ cache_data' = IF allocates(s, r)
                            THEN put(s.cache_data, r.addr[2],
                                     IF r.is_write THEN r.wdata ELSE read(s, r))
                            ELSE s.cache_data
           /\ cache_dirty' = IF allocates(s, r)
                             THEN put(flushed_dirty(s, r), r.addr[2], r.is_write)
                             ELSE flushed_dirty(s, r)
           /\ mem' = IF s.cache_bypass_en /\ r.is_write THEN put(s.mem, r.addr, r.wdata)
                     ELSE flushed_mem(s, r)
<1>1. /\ m2s.is_write \in BOOLEAN /\ m2s.addr \in Addr /\ m2s.tag \in Tag /\ m2s.wdata \in Data
      /\ m2s_idx \in Line /\ m2s_cache_tag_field \in CacheTag
      /\ m2s_idx = m2s.addr[2] /\ m2s_cache_tag_field = m2s.addr[1]
  BY PortFields DEF BenchSound, EngineTypeOK, m2s_idx, m2s_cache_tag_field
<1>2. /\ cache_valid \in [Line -> BOOLEAN] /\ cache_dirty \in [Line -> BOOLEAN]
      /\ cache_tag \in [Line -> CacheTag] /\ cache_data \in [Line -> Data]
      /\ mem \in [Addr -> Data] /\ mem[m2s.addr] \in Data
  BY <1>1 DEF BenchSound, EngineTypeOK
<1>3. /\ cache_hit <=> finds(s, m2s)
      /\ cache_hit_eff <=> hits(s, m2s)
      /\ read_data = read(s, m2s)
  BY RequestAsReference
<1>4. ~do_flush_write_this_cycle
  BY DEF accept_this_cycle, m2s_ready, do_flush_write_this_cycle
<1>5. cache_allocates <=> ~s.cache_bypass_en
  BY <1>4 DEF cache_allocates
<1>6. CacheArrays
  BY DEF Clock
<1>7. ASSUME cache_write
      PROVE  /\ allocates(s, m2s) /\ m2s.is_write = TRUE
             /\ cache_valid' = put(cache_valid, m2s_idx, TRUE)
             /\ cache_tag' = put(cache_tag, m2s_idx, m2s_cache_tag_field)
             /\ cache_data' = put(cache_data, m2s_idx, m2s.wdata)
             /\ cache_dirty' = put(cache_dirty, m2s_idx, TRUE)
  <2>1. allocates(s, m2s) /\ m2s.is_write = TRUE
    BY <1>1, <1>5, <1>7 DEF cache_write, allocates
  <2>2. QED
    BY <1>1, <1>2, <1>7, <2>1 DEF cache_write, put
<1>8. ASSUME cache_fill
      PROVE  /\ allocates(s, m2s) /\ m2s.is_write = FALSE
             /\ cache_valid' = put(cache_valid, m2s_idx, TRUE)
             /\ cache_tag' = put(cache_tag, m2s_idx, m2s_cache_tag_field)
             /\ cache_data' = put(cache_data, m2s_idx, mem[m2s.addr])
             /\ cache_dirty' = put(cache_dirty, m2s_idx, FALSE)
             /\ mem[m2s.addr] = read(s, m2s)
  <2>1. allocates(s, m2s) /\ m2s.is_write = FALSE
    BY <1>1, <1>3, <1>5, <1>8 DEF cache_fill, allocates
  <2>2. mem[m2s.addr] = read(s, m2s)
    BY <1>3, <1>8 DEF cache_fill, cache_hit_eff, read_data
  <2>3. QED
    BY <1>1, <1>2, <1>8, <2>1, <2>2 DEF cache_fill, put
<1>9. ASSUME cache_hold
      PROVE  ~allocates(s, m2s) /\ UNCHANGED cacheVars
  BY <1>1, <1>3, <1>5, <1>9 DEF cache_hold, allocates
<1>10. ~cache_flush
  BY <1>4 DEF cache_flush
<1>11. mem' = IF s.cache_bypass_en /\ m2s.is_write THEN put(mem, m2s.addr, m2s.wdata) ELSE mem
  <2>1. mem' = IF cache_bypass_en /\ m2s.is_write
               THEN [mem EXCEPT ![m2s.addr] = m2s.wdata] ELSE mem
    BY <1>4 DEF Clock, BackingMemory
  <2>2. QED
    BY <1>1, <1>2, <2>1 DEF put
<1>12. s.cache_bypass_en => mem = s.mem
  BY DEF flushed_mem, victim
<1>13. cache_write \/ cache_fill \/ cache_hold
  BY <1>6, <1>10 DEF CacheArrays
<1>14. /\ allocates(s, m2s) =>
              /\ cache_valid' = put(s.cache_valid, m2s_idx, TRUE)
              /\ cache_tag' = put(s.cache_tag, m2s_idx, m2s_cache_tag_field)
              /\ cache_data' = put(s.cache_data, m2s_idx,
                                   IF m2s.is_write THEN m2s.wdata ELSE read(s, m2s))
              /\ cache_dirty' = put(flushed_dirty(s, m2s), m2s_idx, m2s.is_write)
       /\ ~allocates(s, m2s) =>
              /\ cache_valid' = cache_valid /\ cache_tag' = cache_tag
              /\ cache_data' = cache_data /\ cache_dirty' = cache_dirty
  BY <1>7, <1>8, <1>9, <1>13 DEF cacheVars
<1>15. QED
  BY <1>1, <1>11, <1>12, <1>14

\* The handshake and the flush of the request on the port leave the reference where it
\* is: an edge that does not accept ends one, or the other, or neither.
LEMMA WaitingEdge ==
    ASSUME BenchSound, NEW s \in References, NEW ready \in BOOLEAN,
           NEW ack \in BOOLEAN, NEW rsp \in BOOLEAN, NEW a, NEW b,
           Clock(ready, ack, rsp, FALSE, a, b), ~accept_this_cycle,
           ~m2s.valid => bi_state = "BI_IDLE",
           CacheIs(s), untouched(s) \/ half_done(s),
           m2s' = m2s, cache_bypass_en' = cache_bypass_en
    PROVE  CacheIs(s)' /\ (untouched(s) \/ half_done(s))'
<1>1. /\ m2s.addr \in Addr /\ m2s_idx \in Line /\ m2s_idx = m2s.addr[2]
      /\ bias \in [Addr -> BOOLEAN] /\ cache_dirty \in [Line -> BOOLEAN]
      /\ mem \in [Addr -> Data] /\ cache_data \in [Line -> Data]
      /\ flush_addr \in Addr
  BY PortFields, RequestAsReference DEF BenchSound, EngineTypeOK, BiasTypeOK, m2s_idx, CacheIs
<1>2. /\ cache_dirty = s.cache_dirty => (need_evict_writeback <=> victim(s, m2s))
      /\ flush_addr = <<s.cache_tag[m2s.addr[2]], m2s.addr[2]>>
      /\ cache_data[m2s_idx] = s.cache_data[m2s.addr[2]]
  BY <1>1, RequestAsReference DEF CacheIs
<1>3. UNCHANGED <<cache_valid, cache_tag, cache_data>>
  BY DEF Clock, CacheArrays, cache_flush, cache_write, cache_fill, cache_hold, cache_allocates,
     cacheVars
<1>4. CacheIs(s)'
  BY <1>3 DEF CacheIs
<1>5. ~do_flush_write_this_cycle => UNCHANGED <<cache_dirty, mem>>
  BY DEF Clock, CacheArrays, cache_flush, cache_write, cache_fill, cache_hold, cache_allocates,
     cacheVars, BackingMemory
<1>6. do_flush_write_this_cycle =>
         /\ cache_dirty' = put(cache_dirty, m2s.addr[2], FALSE)
         /\ mem' = put(mem, flush_addr, cache_data[m2s_idx])
  <2>1. SUFFICES ASSUME do_flush_write_this_cycle
                 PROVE  /\ cache_dirty' = put(cache_dirty, m2s.addr[2], FALSE)
                        /\ mem' = put(mem, flush_addr, cache_data[m2s_idx])
    OBVIOUS
  <2>2. cache_dirty' = [cache_dirty EXCEPT ![m2s_idx] = FALSE]
    BY <2>1 DEF Clock, CacheArrays, cache_flush, cache_write, cache_fill, cache_hold,
       cache_allocates
  <2>3. mem' = [mem EXCEPT ![flush_addr] = cache_data[m2s_idx]]
    BY <2>1 DEF Clock, BackingMemory
  <2>4. QED
    BY <1>1, <2>2, <2>3 DEF put
<1>7. flush_state' = IF want_flush THEN "FLUSH_ACTIVE" ELSE "FLUSH_IDLE"
  BY DEF Clock, EvictionFlush
<1>8. bias' = IF bi_flip_now(rsp) THEN put(bias, m2s.addr, FALSE) ELSE bias
  BY <1>1 DEF Clock, BiasWrite, bias_clock, put
<1>9. bi_state = "BI_IDLE" /\ ~want_bi => bi_state' = "BI_IDLE" /\ ~bi_flip_now(rsp)
  BY DEF Clock, BiSequencer, bi_req_valid, bi_flip_now
<1>10. bi_flip_now(rsp) => bi_state' = "BI_IDLE" /\ ~want_flush /\ m2s.valid
  BY DEF Clock, BiSequencer, bi_req_valid, bi_flip_now, want_bi, want_flush
<1>11. CASE half_done(s)
  <2>1. ~bias[m2s.addr]
    BY <1>1, <1>11, ReferenceFields DEF half_done, put
  <2>2. bi_state' = "BI_IDLE" /\ bias' = bias /\ m2s.valid
    BY <1>8, <1>9, <1>11, <2>1 DEF half_done, want_bi, bias_query_rd_data
  <2>3. ASSUME do_flush_write_this_cycle
        PROVE  half_done(s)'
    <3>1. victim(s, m2s) /\ cache_dirty = s.cache_dirty /\ mem = s.mem
      BY <1>11, <2>3 DEF half_done, do_flush_write_this_cycle
    <3>2. ~want_flush
      BY <2>3 DEF want_flush, do_flush_write_this_cycle
    <3>3. cache_dirty' = flushed_dirty(s, m2s) /\ mem' = flushed_mem(s, m2s)
      BY <1>2, <1>6, <2>3, <3>1 DEF flushed_dirty, flushed_mem
    <3>4. QED
      BY <1>7, <1>11, <2>2, <3>2, <3>3 DEF half_done
  <2>4. ASSUME ~do_flush_write_this_cycle, cache_dirty = s.cache_dirty, mem = s.mem
        PROVE  half_done(s)'
    BY <1>2, <1>5, <1>7, <1>11, <2>2, <2>4 DEF half_done, want_flush
  <2>5. ASSUME ~do_flush_write_this_cycle, cache_dirty = flushed_dirty(s, m2s),
               mem = flushed_mem(s, m2s)
        PROVE  half_done(s)'
    <3>1. CASE victim(s, m2s)
      <4>1. ~cache_dirty[m2s_idx]
        BY <1>1, <2>5, <3>1, ReferenceFields DEF flushed_dirty, put
      <4>2. ~want_flush
        BY <4>1 DEF want_flush, need_evict_writeback
      <4>3. QED
        BY <1>5, <1>7, <1>11, <2>2, <2>5, <4>2 DEF half_done
    <3>2. CASE ~victim(s, m2s)
      BY <2>4, <2>5, <3>2 DEF flushed_dirty, flushed_mem
    <3>3. QED
      BY <3>1, <3>2
  <2>6. QED
    BY <1>4, <1>11, <2>3, <2>4, <2>5 DEF half_done
<1>12. CASE untouched(s)
  <2>1. ~do_flush_write_this_cycle
    BY <1>12 DEF untouched, do_flush_write_this_cycle
  <2>2. cache_dirty' = s.cache_dirty /\ mem' = s.mem
    BY <1>5, <1>12, <2>1 DEF untouched
  <2>3. CASE bi_flip_now(rsp)
    BY <1>4, <1>7, <1>8, <1>10, <1>12, <2>2, <2>3 DEF untouched, half_done
  <2>4. CASE want_flush /\ ~bi_flip_now(rsp)
    <3>1. ~bias[m2s.addr] /\ m2s.valid /\ victim(s, m2s) /\ bi_state = "BI_IDLE" /\ ~want_bi
      BY <1>2, <1>12, <2>4 DEF untouched, want_flush, bias_query_rd_data, want_bi
    <3>2. bias = put(bias, m2s.addr, FALSE)
      BY <1>1, <3>1 DEF put
    <3>3. QED
      BY <1>4, <1>8, <1>9, <1>12, <2>2, <2>4, <3>1, <3>2 DEF untouched, half_done
  <2>5. CASE ~want_flush /\ ~bi_flip_now(rsp)
    BY <1>4, <1>7, <1>8, <1>12, <2>2, <2>5 DEF untouched
  <2>6. QED
    BY <1>4, <2>3, <2>4, <2>5
<1>13. QED
  BY <1>11, <1>12

\* A slot that is occupied after an edge holds what it held, or the request accepted.
LEMMA SlotsAtEdge ==
    ASSUME BenchSound, NEW ready \in BOOLEAN, NEW ack, NEW rsp, NEW set, NEW a, NEW b,
           Clock(ready, ack, rsp, set, a, b), NEW t \in occupied'
    PROVE  /\ t \in Tag
           /\ accept_this_cycle /\ t = m2s.tag =>
                 /\ slot_is_write'[t] = m2s.is_write
                 /\ ~m2s.is_write => slot_rdata'[t] = read_data
                 /\ slot_cnt'[t] = accept_cnt
           /\ ~(accept_this_cycle /\ t = m2s.tag) =>
                 /\ t \in occupied
                 /\ slot_is_write'[t] = slot_is_write[t] /\ slot_rdata'[t] = slot_rdata[t]
                 /\ slot_cnt'[t] = IF slot_cnt[t] = 0 THEN 0 ELSE slot_cnt[t] - 1
<1>1. t \in Tag /\ slot_valid'[t]
  BY DEF occupied
<1>2. Slots(ready)
  BY DEF Clock
<1>3. ASSUME accept_this_cycle /\ t = m2s.tag
      PROVE  /\ slot_is_write'[t] = m2s.is_write
             /\ ~m2s.is_write => slot_rdata'[t] = read_data
             /\ slot_cnt'[t] = accept_cnt
  BY <1>1, <1>2, <1>3 DEF Slots, accepted
<1>4. ASSUME ~(accept_this_cycle /\ t = m2s.tag)
      PROVE  /\ t \in occupied
             /\ slot_is_write'[t] = slot_is_write[t] /\ slot_rdata'[t] = slot_rdata[t]
             /\ slot_cnt'[t] = IF slot_cnt[t] = 0 THEN 0 ELSE slot_cnt[t] - 1
  <2>1. ~accepted(t)
    BY <1>4 DEF accepted
  <2>2. slot_valid[t] /\ ~retired(t, ready)
    BY <1>1, <1>2, <2>1 DEF Slots
  <2>3. slot_cnt'[t] = count_down(t)
    BY <1>1, <1>2, <2>1, <2>2 DEF Slots
  <2>4. QED
    BY <1>1, <1>2, <2>1, <2>2, <2>3 DEF Slots, count_down, occupied
<1>5. QED
  BY <1>1, <1>3, <1>4

\* The reference after an instruction that fires the request on the port, and after
\* one that does not.
LEMMA PortIs ==
    ASSUME NEW p, NEW n, NEW r, shown(p, n) = {r}
    PROVE  port(p, n) = r
BY DEF port

\* An edge at which the text fires: the reference takes the request on the port as a
\* whole, and the engine has caught up with it.
LEMMA FiresAsReference ==
    ASSUME BenchSound, NEW s \in References, NEW p, NEW n, NEW z, z = Step(p, n, s),
           NEW ready \in BOOLEAN, NEW ack \in BOOLEAN, NEW rsp \in BOOLEAN, NEW a, NEW b,
           Clock(ready, ack, rsp, FALSE, a, b), accept_this_cycle,
           accepts(p, n), shown(p, n) = {m2s},
           CacheIs(s), untouched(s) \/ half_done(s), CountersAre(s), AnswersAre(s),
           cache_bypass_en' = cache_bypass_en, saved' = saved
    PROVE  CacheIs(z)' /\ untouched(z)' /\ CountersAre(z)' /\ AnswersAre(z)'
<1>1. port(p, n) = m2s /\ p[n].op \in {"accept", "tick"}
  BY PortIs DEF accepts
<1>2. /\ m2s.addr \in Addr /\ bias \in [Addr -> BOOLEAN] /\ m2s.tag \in Tag
      /\ ~bias[m2s.addr] /\ bi_state = "BI_IDLE"
      /\ flush_state = "FLUSH_IDLE" /\ ~need_evict_writeback /\ m2s.is_write \in BOOLEAN
  BY PortFields DEF BenchSound, EngineTypeOK, BiasTypeOK, accept_this_cycle, m2s_ready,
     bias_query_rd_data
<1>3. cache_dirty = flushed_dirty(s, m2s) /\ mem = flushed_mem(s, m2s)
  <2>1. ASSUME cache_dirty = s.cache_dirty, mem = s.mem
        PROVE  ~victim(s, m2s)
    BY <1>2, <2>1, RequestAsReference DEF CacheIs
  <2>2. QED
    BY <2>1 DEF untouched, half_done, flushed_dirty, flushed_mem
<1>4. bias = put(s.bias, m2s.addr, FALSE)
  <2>1. CASE untouched(s)
    BY <1>2, <2>1 DEF untouched, put
  <2>2. CASE half_done(s)
    BY <2>2 DEF half_done
  <2>3. QED
    BY <2>1, <2>2
<1>5. bias' = bias
  BY <1>2 DEF Clock, BiasWrite, bi_flip_now, bias_clock
<1>6. flush_state' = "FLUSH_IDLE"
  BY <1>2 DEF Clock, EvictionFlush, want_flush
<1>7. /\ cache_bypass_en = s.cache_bypass_en /\ cache_valid = s.cache_valid
      /\ cache_tag = s.cache_tag /\ cache_data = s.cache_data
  BY DEF CacheIs
<1>8. /\ z.bias = put(s.bias, m2s.addr, FALSE)
      /\ z.cache_bypass_en = s.cache_bypass_en
      /\ z.cache_valid = IF allocates(s, m2s) THEN put(s.cache_valid, m2s.addr[2], TRUE)
                         ELSE s.cache_valid
      /\ z.cache_tag = IF allocates(s, m2s) THEN put(s.cache_tag, m2s.addr[2], m2s.addr[1])
                       ELSE s.cache_tag
  BY <1>1 DEF Step
<1>9. z.cache_data = IF allocates(s, m2s)
                     THEN put(s.cache_data, m2s.addr[2],
                              IF m2s.is_write THEN m2s.wdata ELSE read(s, m2s))
                     ELSE s.cache_data
  BY <1>1 DEF Step
<1>10. /\ z.cache_dirty = IF allocates(s, m2s)
                          THEN put(flushed_dirty(s, m2s), m2s.addr[2], m2s.is_write)
                          ELSE flushed_dirty(s, m2s)
       /\ z.mem = IF s.cache_bypass_en /\ m2s.is_write THEN put(s.mem, m2s.addr, m2s.wdata)
                  ELSE flushed_mem(s, m2s)
  BY <1>1 DEF Step
<1>11. /\ z.is_data = put(s.is_data, m2s.tag, ~m2s.is_write)
       /\ z.rdata = put(s.rdata, m2s.tag, read(s, m2s))
       /\ z.dbg_cache_hits = counted(s.dbg_cache_hits, hits(s, m2s))
       /\ z.dbg_cache_misses = counted(s.dbg_cache_misses, ~hits(s, m2s))
       /\ z.saved = s.saved
  BY <1>1 DEF Step, counted
<1>12. CacheIs(z)' /\ untouched(z)'
  <2>1. /\ cache_valid' = z.cache_valid /\ cache_tag' = z.cache_tag
        /\ cache_data' = z.cache_data /\ cache_dirty' = z.cache_dirty /\ mem' = z.mem
    BY <1>3, <1>7, <1>8, <1>9, <1>10, FiringEdge
  <2>2. QED
    BY <1>4, <1>5, <1>6, <1>7, <1>8, <2>1 DEF CacheIs, untouched
<1>13. CountersAre(z)'
  <2>1. cache_hit_eff <=> hits(s, m2s)
    BY <1>7, RequestAsReference
  <2>2. /\ dbg_cache_hits' = counted(dbg_cache_hits, hits(s, m2s))
        /\ dbg_cache_misses' = counted(dbg_cache_misses, ~hits(s, m2s))
    BY <2>1 DEF Clock, Counters, counted
  <2>3. QED
    BY <1>11, <2>2 DEF CountersAre
<1>14. AnswersAre(z)'
  <2>1. SUFFICES ASSUME NEW t \in occupied'
                 PROVE  /\ slot_is_write'[t] <=> ~z.is_data[t]
                        /\ z.is_data[t] => slot_rdata'[t] = z.rdata[t]
    BY DEF AnswersAre
  <2>2. read_data = read(s, m2s)
    BY <1>3, <1>7, RequestAsReference
  <2>3. s.is_data \in [Tag -> BOOLEAN] /\ s.rdata \in [Tag -> Data] /\ t \in Tag
    BY ReferenceFields, SlotsAtEdge
  <2>4. CASE t = m2s.tag
    <3>1. z.is_data[t] = ~m2s.is_write /\ z.rdata[t] = read(s, m2s)
      BY <1>11, <2>3, <2>4 DEF put
    <3>2. slot_is_write'[t] = m2s.is_write /\ (~m2s.is_write => slot_rdata'[t] = read_data)
      BY <2>4, SlotsAtEdge
    <3>3. QED
      BY <1>2, <2>2, <3>1, <3>2
  <2>5. CASE t # m2s.tag
    <3>1. z.is_data[t] = s.is_data[t] /\ z.rdata[t] = s.rdata[t]
      BY <1>11, <2>3, <2>5 DEF put
    <3>2. /\ t \in occupied /\ slot_is_write'[t] = slot_is_write[t]
          /\ slot_rdata'[t] = slot_rdata[t]
      BY <2>5, SlotsAtEdge
    <3>3. QED
      BY <3>1, <3>2 DEF AnswersAre
  <2>6. QED
    BY <2>4, <2>5
<1>15. QED
  BY <1>12, <1>13, <1>14

\* An edge that fires nothing leaves counters and answers as they are.
LEMMA QuietCountersAndAnswers ==
    ASSUME BenchSound, NEW s \in References, NEW ready \in BOOLEAN,
           NEW ack, NEW rsp, NEW set, NEW a, NEW b,
           Clock(ready, ack, rsp, set, a, b), ~accept_this_cycle,
           CountersAre(s), AnswersAre(s), saved' = saved
    PROVE  CountersAre(s)' /\ AnswersAre(s)'
<1>1. dbg_cache_hits' = dbg_cache_hits /\ dbg_cache_misses' = dbg_cache_misses
  BY DEF Clock, Counters, counted
<1>2. CountersAre(s)'
  BY <1>1 DEF CountersAre
<1>3. ASSUME NEW t \in occupied'
      PROVE  /\ t \in occupied /\ slot_is_write'[t] = slot_is_write[t]
             /\ slot_rdata'[t] = slot_rdata[t]
  BY SlotsAtEdge
<1>4. AnswersAre(s)'
  BY <1>3 DEF AnswersAre
<1>5. QED
  BY <1>2, <1>4

\* The edge of a bias write, with no request on the port, writes the bias and moves
\* nothing else.
LEMMA BiasWriteAsReference ==
    ASSUME BenchSound, NEW s \in References,
           NEW rsp \in BOOLEAN, NEW a \in Addr, NEW b \in BOOLEAN,
           BiasWrite(rsp, TRUE, a, b), EvictionFlush, CacheArrays, BackingMemory,
           ~m2s.valid, bi_state = "BI_IDLE",
           CacheIs(s), untouched(s), cache_bypass_en' = cache_bypass_en
    PROVE  /\ CacheIs(s)'
           /\ bias' = put(s.bias, a, b) /\ cache_dirty' = s.cache_dirty /\ mem' = s.mem
           /\ flush_state' = "FLUSH_IDLE"
<1>1. ~accept_this_cycle /\ ~do_flush_write_this_cycle /\ ~bi_flip_now(rsp) /\ ~want_flush
  BY DEF accept_this_cycle, do_flush_write_this_cycle, untouched, bi_flip_now, want_flush
<1>2. UNCHANGED <<cache_valid, cache_tag, cache_data, cache_dirty, mem>>
  BY <1>1 DEF CacheArrays, cache_flush, cache_write, cache_fill, cache_hold,
     cache_allocates, cacheVars, BackingMemory
<1>3. bias' = [bias EXCEPT ![a] = b] /\ bias \in [Addr -> BOOLEAN]
  BY <1>1 DEF BiasWrite, bias_clock, BenchSound, EngineTypeOK, BiasTypeOK
<1>4. bias' = put(bias, a, b)
  BY <1>3 DEF put
<1>5. flush_state' = "FLUSH_IDLE"
  BY <1>1 DEF EvictionFlush
<1>6. QED
  BY <1>2, <1>4, <1>5 DEF CacheIs, untouched

-----------------------------------------------------------------------------
\* Text and reference

\* An instruction that fires nothing changes bias, bypass or saved value, or none of
\* what the engine is compared with.
LEMMA QuietReference ==
    ASSUME NEW p, NEW n, NEW s \in References, NEW z, z = Step(p, n, s), ~accepts(p, n)
    PROVE  /\ z.cache_valid = s.cache_valid /\ z.cache_dirty = s.cache_dirty
           /\ z.cache_tag = s.cache_tag /\ z.cache_data = s.cache_data /\ z.mem = s.mem
           /\ z.is_data = s.is_data /\ z.rdata = s.rdata /\ z.wait = s.wait
           /\ z.dbg_cache_hits = s.dbg_cache_hits /\ z.dbg_cache_misses = s.dbg_cache_misses
           /\ z.bias = IF p[n].op = "bias_write" THEN put(s.bias, p[n].addr, p[n].host_biased)
                       ELSE s.bias
           /\ z.cache_bypass_en = IF p[n].op = "bypass" THEN p[n].bit ELSE s.cache_bypass_en
           /\ z.saved = IF p[n].op = "save" THEN put(s.saved, p[n].reg, s[p[n].reg]) ELSE s.saved
BY DEF Step, counted

\* The handshake goes on until the next edge.
LEMMA HandshakeReference ==
    ASSUME NEW p, NEW n, NEW s \in References, NEW z, z = Step(p, n, s), z.in_handshake
    PROVE  p[n].op = "until_bi_req" \/ (s.in_handshake /\ p[n].op \notin edges)
BY DEF Step

\* What an edge of the testbench is, by its instruction.
LEMMA EdgeByInstruction ==
    ASSUME ControlOK, BenchSound, ClockEdge
    PROVE  \E ack \in BOOLEAN, rsp \in BOOLEAN, a \in Addr, b \in BOOLEAN :
              /\ Clock(s2m_ready, ack, rsp, instr.op = "bias_write", a, b)
              /\ instr.op = "bias_write" => a = instr.addr /\ b = instr.host_biased
<1>1. bi_req_ready \in BOOLEAN /\ bi_rsp_valid \in BOOLEAN /\ m2s.addr \in Addr
  BY PortFields DEF bi_req_ready, bi_rsp_valid, bi_req_valid, host_runs, BenchSound, EngineTypeOK
<1>2. CASE BiasWritePulse
  <2>1. instr.op = "bias_write" /\ instr.addr \in Addr /\ instr.host_biased \in BOOLEAN
    BY <1>2, RunningInText, TestText DEF BiasWritePulse, does, ControlOK, text
  <2>2. Clock(s2m_ready, bi_req_ready, bi_rsp_valid, TRUE, instr.addr, instr.host_biased)
    BY <1>2 DEF BiasWritePulse, BenchEdge
  <2>3. QED
    BY <1>1, <2>1, <2>2
<1>3. CASE QuietEdge /\ ~BiasWritePulse
  <2>1. instr.op # "bias_write"
    BY <1>3 DEF ClockEdge, Tick, Accept, WaitInLoop, loops, does
  <2>2. Clock(s2m_ready, bi_req_ready, bi_rsp_valid, FALSE, m2s.addr, FALSE)
    BY <1>3 DEF QuietEdge, BenchEdge
  <2>3. QED
    BY <1>1, <2>1, <2>2
<1>4. QED
  BY <1>2, <1>3 DEF ClockEdge, Tick, Accept, WaitInLoop

-----------------------------------------------------------------------------
\* The engine follows the reference.

\* Where it does, said of a reference state that stands still.
LEMMA FollowsAs ==
    ASSUME NEW z, ref' = z, CacheIs(z)', CountersAre(z)', AnswersAre(z)',
           (untouched(z) \/ half_done(z))',
           (settled(text, pc, z) /\ ~loops => untouched(z))'
    PROVE  EngineFollowsReference'
BY DEF EngineFollowsReference, CacheIs, CountersAre, AnswersAre, untouched, half_done, settled

\* The handshake the text has waited for goes on until the next edge.
LEMMA HandshakeStep ==
    ASSUME Follows, HandshakeFollows, [BenchNext]_benchVars
    PROVE  HandshakeFollows'
<1> SUFFICES ASSUME running', ref'.in_handshake, ~loops'
             PROVE  bi_req_valid'
  BY DEF HandshakeFollows
<1>1. /\ ControlOK /\ running /\ ref \in References
      /\ pc \in 1 .. Len(text) /\ instr = text[pc]
      /\ Executes \/ MovesOn => ref' = Step(text, pc, ref)
      /\ WaitsOn \/ UNCHANGED benchVars => ref' = ref /\ instr' = instr
  BY RefMoves, RefText DEF Follows
<1>2. Executes \/ MovesOn => instr.op = "until_bi_req" \/ (ref.in_handshake /\ instr.op \notin edges)
  BY <1>1, HandshakeReference
<1>3. ~Executes
  BY <1>2 DEF Executes, edges
<1>4. ~WaitsOn
  <2>1. WaitsOn => loops /\ instr' = instr
    BY <1>1 DEF WaitsOn, WaitInLoop
  <2>2. QED
    BY <2>1 DEF loops
<1>5. CASE MovesOn
  <2>1. UNCHANGED engineVars
    BY <1>5 DEF MovesOn, BetweenEdges
  <2>2. instr.op = "until_bi_req" => bi_req_valid
    BY <1>5 DEF MovesOn, loop_is_done, does, edges
  <2>3. ref.in_handshake /\ instr.op \notin edges => bi_req_valid
    BY <1>1 DEF HandshakeFollows, loops, edges, ready_loops, answer_loops
  <2>4. QED
    BY <1>2, <1>5, <2>1, <2>2, <2>3 DEF engineVars, bi_req_valid
<1>6. CASE UNCHANGED benchVars
  <2>1. loops' <=> loops
    BY <1>1, <1>6 DEF loops
  <2>2. bi_req_valid' <=> bi_req_valid
    BY <1>6 DEF bi_req_valid, benchVars, engineVars
  <2>3. QED
    BY <1>1, <1>6, <2>1, <2>2 DEF HandshakeFollows
<1>7. QED
  BY <1>1, <1>3, <1>4, <1>5, <1>6, BenchCases

\* An edge keeps engine and reference together:
LEMMA ReferenceAtEdge ==
    ASSUME Follows, Follows', EngineFollowsReference, HandshakeFollows, HandshakeFollows',
           running', ClockEdge, Executes \/ WaitsOn, [BenchNext]_benchVars
    PROVE  EngineFollowsReference'
<1>1. /\ ControlOK /\ BenchSound /\ FollowsText /\ PinsFollowText' /\ FollowsText'
  BY DEF Follows, FollowsText
<1>2. /\ running /\ text' = text /\ instr = text[pc] /\ pc \in 1 .. Len(text)
      /\ Len(text) \in Nat
  BY <1>1, RefMoves, RefText
<1>3. PICK s \in References : s = ref
  BY <1>1, <1>2, RefText
<1>4. PICK z \in References : z = ref'
  BY <1>1, RefMoves
<1>5. /\ CacheIs(s) /\ CountersAre(s) /\ AnswersAre(s) /\ (untouched(s) \/ half_done(s))
      /\ settled(text, pc, s) /\ ~loops => untouched(s)
  BY <1>2, <1>3 DEF EngineFollowsReference
<1>6. /\ Executes => pc' = pc + 1 /\ z = Step(text, pc, s)
      /\ WaitsOn => pc' = pc /\ z = s /\ instr' = instr /\ m2s' = m2s
  BY <1>1, <1>3, <1>4, RefMoves DEF WaitsOn, WaitInLoop
<1>7. cache_bypass_en' = cache_bypass_en /\ saved' = saved
  BY DEF ClockEdge, Tick, Accept, BiasWritePulse, WaitInLoop, QuietEdge, BenchEdge
<1>8. accept_this_cycle <=> accepts(text, pc)
  BY <1>1, AcceptsAsText
<1>9. ~m2s.valid => bi_state = "BI_IDLE"
  BY <1>1 DEF FollowsText, BiFollowsText
<1>10. PICK ack \in BOOLEAN, rsp \in BOOLEAN, a \in Addr, b \in BOOLEAN :
              /\ Clock(s2m_ready, ack, rsp, instr.op = "bias_write", a, b)
              /\ instr.op = "bias_write" => a = instr.addr /\ b = instr.host_biased
  BY <1>1, EdgeByInstruction
<1>11. s2m_ready \in BOOLEAN
  BY <1>1 DEF BenchSound
<1>12. CASE accepts(text, pc)
  <2>1. Executes /\ instr.op \in {"accept", "tick"}
    BY <1>2, <1>12 DEF accepts, WaitsOn, WaitInLoop, loops
  <2>2. shown(text, pc) = {m2s}
    BY <1>1, <1>2, <1>8, <1>12 DEF FollowsText, PinsFollowText, accept_this_cycle
  <2>3. Clock(s2m_ready, ack, rsp, FALSE, a, b)
    BY <1>10, <2>1
  <2>4. CacheIs(z)' /\ untouched(z)' /\ CountersAre(z)' /\ AnswersAre(z)'
    BY <1>1, <1>5, <1>6, <1>7, <1>8, <1>11, <1>12, <2>1, <2>2, <2>3, FiresAsReference
  <2>5. QED
    BY <1>4, <2>4, FollowsAs
<1>13. CASE ~accepts(text, pc) /\ instr.op # "bias_write"
  <2>1. /\ z.cache_valid = s.cache_valid /\ z.cache_dirty = s.cache_dirty
        /\ z.cache_tag = s.cache_tag /\ z.cache_data = s.cache_data /\ z.mem = s.mem
        /\ z.is_data = s.is_data /\ z.rdata = s.rdata
        /\ z.dbg_cache_hits = s.dbg_cache_hits /\ z.dbg_cache_misses = s.dbg_cache_misses
        /\ z.bias = s.bias /\ z.cache_bypass_en = s.cache_bypass_en /\ z.saved = s.saved
    BY <1>2, <1>6, <1>13, QuietReference DEF Executes
  <2>2. Clock(s2m_ready, ack, rsp, FALSE, a, b)
    BY <1>10, <1>13
  <2>3. m2s' = m2s
    <3>1. instr.op # "accept"
      BY <1>1, <1>2, <1>13, AttentiveText DEF FiresInTurn
    <3>2. QED
      BY <1>1, <3>1, EdgeIsClock DEF BenchSound, does
  <2>4. CacheIs(s)' /\ (untouched(s) \/ half_done(s))'
    BY <1>1, <1>5, <1>7, <1>8, <1>9, <1>11, <1>13, <2>2, <2>3, WaitingEdge
  <2>5. CountersAre(s)' /\ AnswersAre(s)'
    BY <1>1, <1>5, <1>7, <1>8, <1>11, <1>13, <2>2, QuietCountersAndAnswers
  <2>6. CacheIs(z)' /\ CountersAre(z)' /\ AnswersAre(z)' /\ (untouched(z) \/ half_done(z))'
    BY <2>1, <2>4, <2>5
       DEF CacheIs, CountersAre, AnswersAre, untouched, half_done, flushed_dirty, flushed_mem,
           victim, finds
  <2>7. (settled(text, pc, z) /\ ~loops => untouched(z))'
    <3>1. SUFFICES ASSUME settled(text, pc', z), ~loops'
                   PROVE  untouched(z)'
      BY <1>2 DEF settled
    <3>2. Executes
      <4>1. WaitsOn => loops'
        BY <1>6 DEF WaitsOn, WaitInLoop, loops
      <4>2. QED
        BY <3>1, <4>1
    <3>3. ~accepts(text, pc' - 1)
      BY <1>2, <1>6, <1>13, <3>2
    <3>4. shown(text, pc') = {} \/ z.in_handshake
      BY <3>1, <3>3 DEF settled
    <3>5. ~m2s'.valid \/ bi_req_valid'
      BY <1>1, <1>2, <1>4, <3>1, <3>4 DEF PinsFollowText, HandshakeFollows
    <3>6. ~half_done(z)'
      BY <3>5 DEF half_done, bi_req_valid
    <3>7. QED
      BY <2>6, <3>6
  <2>8. QED
    BY <1>4, <2>6, <2>7, FollowsAs
<1>14. CASE instr.op = "bias_write"
  <2>1. Executes /\ ~accepts(text, pc)
    BY <1>2, <1>14 DEF accepts, WaitsOn, WaitInLoop, loops
  <2>2. shown(text, pc) = {} /\ ~loops
    BY <1>1, <1>2, <1>14, AttentiveText DEF FiresInTurn, loops
  <2>3. ~m2s.valid /\ bi_state = "BI_IDLE" /\ untouched(s)
    BY <1>1, <1>2, <1>5, <1>9, <2>2 DEF FollowsText, PinsFollowText, settled
  <2>4. /\ BiasWrite(rsp, TRUE, a, b) /\ EvictionFlush /\ CacheArrays /\ BackingMemory
        /\ a = instr.addr /\ b = instr.host_biased
    BY <1>10, <1>14 DEF Clock
  <2>5. /\ CacheIs(s)'
        /\ bias' = put(s.bias, a, b) /\ cache_dirty' = s.cache_dirty /\ mem' = s.mem
        /\ flush_state' = "FLUSH_IDLE"
    BY <1>1, <1>5, <1>7, <2>3, <2>4, BiasWriteAsReference
  <2>6. CountersAre(s)' /\ AnswersAre(s)'
    BY <1>1, <1>5, <1>7, <1>8, <1>10, <1>11, <2>1, QuietCountersAndAnswers
  <2>7. /\ z.cache_valid = s.cache_valid /\ z.cache_dirty = s.cache_dirty
        /\ z.cache_tag = s.cache_tag /\ z.cache_data = s.cache_data /\ z.mem = s.mem
        /\ z.is_data = s.is_data /\ z.rdata = s.rdata
        /\ z.dbg_cache_hits = s.dbg_cache_hits /\ z.dbg_cache_misses = s.dbg_cache_misses
        /\ z.bias = put(s.bias, a, b) /\ z.cache_bypass_en = s.cache_bypass_en
        /\ z.saved = s.saved
    BY <1>2, <1>6, <1>14, <2>1, <2>4, QuietReference
  <2>8. CacheIs(z)' /\ CountersAre(z)' /\ AnswersAre(z)' /\ untouched(z)'
    BY <2>5, <2>6, <2>7 DEF CacheIs, CountersAre, AnswersAre, untouched
  <2>9. QED
    BY <1>4, <2>8, FollowsAs
<1>15. QED
  BY <1>12, <1>13, <1>14

\* between two edges the testbench drives its pins where nothing is half done, and
\* saves the counters of the reference;
LEMMA SavesAsReference ==
    ASSUME ControlOK, running, NEW s \in References, s = ref, CountersAre(s), does("save")
    PROVE  [saved EXCEPT ![instr.reg] = signal[instr.reg]] = put(s.saved, instr.reg, s[instr.reg])
<1>1. instr.reg \in {"dbg_cache_hits", "dbg_cache_misses"}
  BY RefText DEF ExpectsReference, does, counters
<1>2. s.saved \in [counters -> Counter] /\ saved = s.saved
  BY ReferenceFields DEF CountersAre
<1>3. signal[instr.reg] = s[instr.reg]
  <2>1. CASE instr.reg = "dbg_cache_hits"
    BY <2>1 DEF signal, CountersAre
  <2>2. CASE instr.reg = "dbg_cache_misses"
    BY <2>2 DEF signal, CountersAre
  <2>3. QED
    BY <1>1, <2>1, <2>2
<1>4. QED
  BY <1>2, <1>3 DEF put

LEMMA ReferenceBetweenEdges ==
    ASSUME Follows, Follows', EngineFollowsReference, HandshakeFollows, HandshakeFollows',
           running', MovesOn, [BenchNext]_benchVars
    PROVE  EngineFollowsReference'
<1>1. /\ ControlOK /\ BenchSound /\ PinsFollowText /\ PinsFollowText'
  BY DEF Follows, FollowsText
<1>2. /\ running /\ text' = text /\ instr = text[pc] /\ pc \in 1 .. Len(text)
      /\ pc' = pc + 1
  BY <1>1, RefMoves, RefText
<1>3. PICK s \in References : s = ref
  BY <1>1, <1>2, RefText
<1>4. PICK z \in References : z = ref' /\ z = Step(text, pc, s)
  BY <1>1, <1>3, RefMoves
<1>5. /\ CacheIs(s) /\ CountersAre(s) /\ AnswersAre(s) /\ (untouched(s) \/ half_done(s))
      /\ settled(text, pc, s) /\ ~loops => untouched(s)
  BY <1>2, <1>3 DEF EngineFollowsReference
<1>6. instr.op \notin {"accept", "tick", "bias_write"} /\ ~accepts(text, pc)
  BY <1>2 DEF MovesOn, loop_is_done, does, edges, accepts
<1>7. /\ UNCHANGED <<bias, bi_state, flush_state, cacheVars, mem, slotVars,
                     dbg_cache_hits, dbg_cache_misses>>
      /\ m2s' = IF does("present") THEN instr.m2s ELSE m2s
      /\ cache_bypass_en' = IF does("bypass") THEN instr.bit ELSE cache_bypass_en
      /\ saved' = IF does("save") THEN [saved EXCEPT ![instr.reg] = signal[instr.reg]] ELSE saved
  BY DEF MovesOn, BetweenEdges, engineVars, LeaveLoop, DrivePins, Save, Check, loop_is_done, does
<1>8. /\ z.cache_valid = s.cache_valid /\ z.cache_dirty = s.cache_dirty
      /\ z.cache_tag = s.cache_tag /\ z.cache_data = s.cache_data /\ z.mem = s.mem
      /\ z.is_data = s.is_data /\ z.rdata = s.rdata
      /\ z.dbg_cache_hits = s.dbg_cache_hits /\ z.dbg_cache_misses = s.dbg_cache_misses
      /\ z.bias = s.bias
      /\ z.cache_bypass_en = IF instr.op = "bypass" THEN instr.bit ELSE s.cache_bypass_en
      /\ z.saved = IF instr.op = "save" THEN put(s.saved, instr.reg, s[instr.reg]) ELSE s.saved
  BY <1>2, <1>4, <1>6, QuietReference
<1>9. CacheIs(z)'
  BY <1>2, <1>5, <1>7, <1>8 DEF CacheIs, cacheVars, does
<1>10. CountersAre(z)'
  <2>1. saved' = z.saved
    BY <1>1, <1>2, <1>3, <1>5, <1>7, <1>8, SavesAsReference DEF CountersAre, does
  <2>2. QED
    BY <1>5, <1>7, <1>8, <2>1 DEF CountersAre
<1>11. AnswersAre(z)'
  BY <1>5, <1>7, <1>8 DEF AnswersAre, slotVars, occupied
<1>12. untouched(s) => untouched(z)'
  BY <1>7, <1>8 DEF untouched, cacheVars
<1>13. (untouched(z) \/ half_done(z))'
  <2>1. CASE instr.op \in {"present", "bypass"}
    <3>1. settled(text, pc, s) /\ ~loops
      BY <1>1, <1>2, <1>3, <2>1, RefText DEF DrivesSettled, loops
    <3>2. QED
      BY <1>5, <1>12, <3>1
  <2>2. CASE instr.op \notin {"present", "bypass"}
    <3>1. m2s' = m2s /\ z.cache_bypass_en = s.cache_bypass_en
      BY <1>7, <1>8, <2>2 DEF does
    <3>2. half_done(s) => half_done(z)'
      BY <1>7, <1>8, <3>1
         DEF half_done, cacheVars, flushed_dirty, flushed_mem, victim, finds
    <3>3. QED
      BY <1>5, <1>12, <3>2
  <2>3. QED
    BY <2>1, <2>2
<1>14. (settled(text, pc, z) /\ ~loops => untouched(z))'
  <2>1. SUFFICES ASSUME settled(text, pc', z), ~loops'
                 PROVE  untouched(z)'
    BY <1>2 DEF settled
  <2>2. ~accepts(text, pc' - 1)
    BY <1>2, <1>6
  <2>3. shown(text, pc') = {} \/ z.in_handshake
    BY <2>1, <2>2 DEF settled
  <2>4. ~m2s'.valid \/ bi_req_valid'
    BY <1>1, <1>2, <1>4, <2>1, <2>3 DEF PinsFollowText, HandshakeFollows
  <2>5. ~half_done(z)'
    BY <2>4 DEF half_done, bi_req_valid
  <2>6. QED
    BY <1>13, <2>5
<1>15. QED
  BY <1>4, <1>9, <1>10, <1>11, <1>13, <1>14, FollowsAs

\* and they start together.
LEMMA ReferenceStarts == BenchInit => EngineFollowsReference /\ HandshakeFollows
<1> SUFFICES ASSUME BenchInit, running PROVE EngineFollowsReference /\ HandshakeFollows
  BY DEF EngineFollowsReference, HandshakeFollows
<1>1. pc = 1 /\ test \in DOMAIN tests
  BY DEF BenchInit
<1>2. ref = at_reset
  BY <1>1, ReferenceAssumption DEF ref
<1>3. CacheIs(ref) /\ CountersAre(ref) /\ untouched(ref)
  BY <1>2 DEF BenchInit, EngineInit, CacheIs, CountersAre, untouched, at_reset
<1>4. occupied = {}
  BY DEF BenchInit, EngineInit, occupied
<1>5. ~ref.in_handshake
  BY <1>2 DEF at_reset
<1>6. QED
  BY <1>3, <1>4, <1>5 DEF EngineFollowsReference, AnswersAre, HandshakeFollows

LEMMA ReferenceStep ==
    ASSUME Follows, Follows', EngineFollowsReference, HandshakeFollows, [BenchNext]_benchVars
    PROVE  EngineFollowsReference' /\ HandshakeFollows'
<1>1. HandshakeFollows'
  BY HandshakeStep
<1>2. SUFFICES ASSUME running' PROVE EngineFollowsReference'
  BY <1>1 DEF EngineFollowsReference
<1>3. ControlOK
  BY DEF Follows
<1>4. CASE Executes \/ WaitsOn
  <2>1. ClockEdge
    BY <1>4 DEF Executes, WaitsOn, ClockEdge
  <2>2. QED
    BY <1>1, <1>2, <1>4, <2>1, ReferenceAtEdge
<1>5. CASE MovesOn
  BY <1>1, <1>2, <1>5, ReferenceBetweenEdges
<1>6. CASE UNCHANGED benchVars
  <2>1. ref' = ref /\ (running' <=> running) /\ text' = text /\ (loops' <=> loops)
    BY <1>6 DEF benchVars, testVars, ref, running, text, loops, instr
  <2>2. QED
    BY <1>6, <2>1
       DEF EngineFollowsReference, benchVars, testVars, engineVars, cacheVars, slotVars, CacheIs,
           CountersAre, AnswersAre, untouched, half_done, settled, occupied
<1>7. QED
  BY <1>3, <1>4, <1>5, <1>6, BenchCases

\* At every point of every testbench the engine is where the reference is: cache,
\* counters and answers owed agree with it, and bias table, dirty bits and memory do
\* but for the flush and the Back-Invalidate of the request on the port; whatever the
\* latency and the time the host takes.
THEOREM BenchFollowsReference == BenchSpec => []EngineFollowsReference
<1> DEFINE Together == Follows /\ EngineFollowsReference /\ HandshakeFollows
<1>1. BenchInit => Together
  BY FollowsStarts, ReferenceStarts
<1>2. Together /\ [BenchNext]_benchVars => Together'
  BY FollowsStep, ReferenceStep
<1>3. QED
  BY <1>1, <1>2, PTL DEF BenchSpec
=============================================================================
