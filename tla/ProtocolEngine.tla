--------------------------- MODULE ProtocolEngine ---------------------------
(***************************************************************************)
(* rtl/cxl_mem_protocol_engine.sv: the CXL.mem protocol engine with its    *)
(* tag-indexed outstanding-transaction slots, the Back-Invalidate (BI)     *)
(* sequencer, and the direct-mapped write-back cache with its one-cycle    *)
(* eviction flush.                                                         *)
(*                                                                         *)
(* One step is one rising clock edge.  Registers are variables, wires are  *)
(* operators with the wire's name, and each always_ff block is an operator *)
(* that gives its registers their next values; Clock conjoins the blocks,  *)
(* so all of them read the state before the edge, as the RTL does.  The    *)
(* request port and the bypass pin are variables of the environment (in    *)
(* the shipped system they are registers of the Avalon shim); the inputs   *)
(* that are one-cycle pulses are parameters of Clock.                      *)
(***************************************************************************)
EXTENDS Integers, CxlBiasTable

CONSTANTS
    Data,              \* values of a DATA_W-bit word
    ZeroData,          \* '0
    ZeroCacheTag,      \* '0
    NumTags,           \* NUM_TAGS = 2**TAG_W
    ReadExtraLatency,  \* READ_EXTRA_LATENCY
    CounterModulus     \* 2**32 in the RTL, the wrap-around of the counters

ASSUME DataAssumption == ZeroData \in Data
ASSUME CacheTagAssumption == ZeroCacheTag \in CacheTag
ASSUME NumTagsAssumption == NumTags \in Nat \ {0}
ASSUME LatencyAssumption == ReadExtraLatency \in Nat
ASSUME CounterAssumption == CounterModulus \in Nat \ {0}

Tag == 0 .. NumTags - 1
Counter == 0 .. CounterModulus - 1

\* The M2S request port: valid, and the payload beside it.
M2S == [valid : BOOLEAN, is_write : BOOLEAN, addr : Addr, tag : Tag, wdata : Data]

VARIABLES
    m2s,               \* the M2S request port, driven by the environment
    cache_bypass_en,   \* the bypass pin, driven by the environment
    bi_state,          \* BI sequencer
    flush_state,       \* eviction-writeback FSM
    cache_valid, cache_dirty, cache_tag, cache_data,    \* per cache line
    mem,                                                \* backing memory
    slot_valid, slot_is_write, slot_rdata, slot_cnt,    \* per tag
    resp_active, resp_tag_r,                            \* the response offered
    dbg_cache_hits, dbg_cache_misses                    \* debug counters

cacheVars == <<cache_valid, cache_dirty, cache_tag, cache_data>>
slotVars == <<slot_valid, slot_is_write, slot_rdata, slot_cnt>>
engineVars == <<bias, bi_state, flush_state, cacheVars, mem, slotVars,
                resp_active, resp_tag_r, dbg_cache_hits, dbg_cache_misses>>

-----------------------------------------------------------------------------
\* Power-on values: the reset values of the registers that have a reset, the
\* `initial` block for the slots, the cache and the memory, which have none.

EngineInit ==
    /\ bias = bias_reset
    /\ bi_state = "BI_IDLE"
    /\ flush_state = "FLUSH_IDLE"
    /\ cache_valid = [i \in Line |-> FALSE]
    /\ cache_dirty = [i \in Line |-> FALSE]
    /\ cache_tag = [i \in Line |-> ZeroCacheTag]
    /\ cache_data = [i \in Line |-> ZeroData]
    /\ mem = [a \in Addr |-> ZeroData]
    /\ slot_valid = [t \in Tag |-> FALSE]
    /\ slot_is_write = [t \in Tag |-> FALSE]
    /\ slot_rdata = [t \in Tag |-> ZeroData]
    /\ slot_cnt = [t \in Tag |-> 0]
    /\ resp_active = FALSE
    /\ resp_tag_r = 0
    /\ dbg_cache_hits = 0
    /\ dbg_cache_misses = 0

-----------------------------------------------------------------------------
\* Bias query and BI sequencer

bias_query_rd_data == bias[m2s.addr]
want_bi == bi_state = "BI_IDLE" /\ m2s.valid /\ bias_query_rd_data
bi_req_valid == bi_state = "BI_REQ"
bi_req_addr == m2s.addr
bi_active == bi_state # "BI_IDLE"
bi_flip_now(bi_rsp_valid) == bi_state = "BI_WAIT_RSP" /\ bi_rsp_valid

BiSequencer(bi_req_ready, bi_rsp_valid) ==
    \/ want_bi /\ bi_state' = "BI_REQ"
    \/ bi_req_valid /\ bi_req_ready /\ bi_state' = "BI_WAIT_RSP"
    \/ bi_flip_now(bi_rsp_valid) /\ bi_state' = "BI_IDLE"
    \/ /\ ~want_bi
       /\ ~(bi_req_valid /\ bi_req_ready)
       /\ ~bi_flip_now(bi_rsp_valid)
       /\ UNCHANGED bi_state

\* (The definitions named faulty_... are wrong on purpose: each stands for a
\* plausible slip in the definition below it, which a property must catch.)
faulty_BiasWrite(bi_rsp_valid, bias_wr_en, bias_addr, bias_wr_data) ==
    bias_clock(bi_flip_now(bi_rsp_valid) \/ bias_wr_en, bias_addr,
               bias_wr_data /\ ~bi_flip_now(bi_rsp_valid))

\* The flip that ends a handshake takes the table's write port from the debug
\* write of the same cycle, which is dropped.
BiasWrite(bi_rsp_valid, bias_wr_en, bias_addr, bias_wr_data) ==
    IF bi_flip_now(bi_rsp_valid)
    THEN bias_clock(TRUE, m2s.addr, FALSE)
    ELSE bias_clock(bias_wr_en, bias_addr, bias_wr_data)

-----------------------------------------------------------------------------
\* Cache lookup and eviction

m2s_cache_tag_field == m2s.addr[1]
m2s_idx == m2s.addr[2]
cache_hit == cache_valid[m2s_idx] /\ cache_tag[m2s_idx] = m2s_cache_tag_field
faulty_cache_hit_eff == cache_hit
cache_hit_eff == cache_hit /\ ~cache_bypass_en

faulty_need_evict_writeback == FALSE

need_evict_writeback ==
    /\ ~cache_bypass_en
    /\ cache_valid[m2s_idx]
    /\ cache_dirty[m2s_idx]
    /\ ~cache_hit

faulty_want_flush ==
    flush_state = "FLUSH_IDLE" /\ bi_state = "BI_IDLE" /\ m2s.valid /\ need_evict_writeback

want_flush ==
    /\ flush_state = "FLUSH_IDLE"
    /\ bi_state = "BI_IDLE"
    /\ ~bias_query_rd_data
    /\ m2s.valid
    /\ need_evict_writeback

faulty_EvictionFlush ==
    flush_state' = IF want_flush THEN "FLUSH_ACTIVE" ELSE flush_state

EvictionFlush == flush_state' = IF want_flush THEN "FLUSH_ACTIVE" ELSE "FLUSH_IDLE"

do_flush_write_this_cycle == flush_state = "FLUSH_ACTIVE"
faulty_flush_addr == m2s.addr
flush_addr == <<cache_tag[m2s_idx], m2s_idx>>

-----------------------------------------------------------------------------
\* Accepting a request

faulty_m2s_ready_no_slot ==
    bi_state = "BI_IDLE" /\ ~bias_query_rd_data /\ flush_state = "FLUSH_IDLE" /\ ~need_evict_writeback

faulty_m2s_ready_no_bi ==
    /\ ~slot_valid[m2s.tag] /\ ~bias_query_rd_data
    /\ flush_state = "FLUSH_IDLE" /\ ~need_evict_writeback

faulty_m2s_ready_no_evict ==
    /\ ~slot_valid[m2s.tag] /\ bi_state = "BI_IDLE"
    /\ ~bias_query_rd_data /\ flush_state = "FLUSH_IDLE"

faulty_m2s_ready_no_bias ==
    /\ ~slot_valid[m2s.tag] /\ bi_state = "BI_IDLE"
    /\ flush_state = "FLUSH_IDLE" /\ ~need_evict_writeback

m2s_ready ==
    /\ ~slot_valid[m2s.tag]
    /\ bi_state = "BI_IDLE"
    /\ ~bias_query_rd_data
    /\ flush_state = "FLUSH_IDLE"
    /\ ~need_evict_writeback

accept_this_cycle == m2s.valid /\ m2s_ready

-----------------------------------------------------------------------------
\* Response arbitration: the lowest tag whose slot is done

slot_done(t) == slot_valid[t] /\ slot_cnt[t] = 0
arb_found == \E t \in Tag : slot_done(t)
arb_selects(t) == slot_done(t) /\ \A u \in Tag : u < t => ~slot_done(u)
resp_consumed_this_cycle(s2m_ready) == resp_active /\ s2m_ready

Response(s2m_ready) ==
    \/ /\ ~resp_active
       /\ resp_active' = TRUE
       /\ \E arb_tag \in Tag : arb_selects(arb_tag) /\ resp_tag_r' = arb_tag
    \/ /\ resp_active /\ s2m_ready
       /\ resp_active' = FALSE
       /\ UNCHANGED resp_tag_r
    \/ /\ IF resp_active THEN ~s2m_ready ELSE ~arb_found
       /\ UNCHANGED <<resp_active, resp_tag_r>>

\* S2M response port
s2m_valid == resp_active
s2m_tag == resp_tag_r
s2m_is_data == ~slot_is_write[resp_tag_r]
s2m_rdata == slot_rdata[resp_tag_r]

-----------------------------------------------------------------------------
\* Per-tag slots: accept, else consume, else count down

accepted(t) == accept_this_cycle /\ m2s.tag = t
retired(t, s2m_ready) ==
    ~accepted(t) /\ resp_consumed_this_cycle(s2m_ready) /\ resp_tag_r = t

faulty_read_data == mem[m2s.addr]
read_data == IF cache_hit_eff THEN cache_data[m2s_idx] ELSE mem[m2s.addr]
accept_cnt == IF m2s.is_write \/ cache_hit_eff THEN 0 ELSE ReadExtraLatency
faulty_count_down(t) == IF slot_valid[t] THEN slot_cnt[t] - 1 ELSE slot_cnt[t]
faulty_count_down_stuck(t) == slot_cnt[t]
count_down(t) == IF slot_valid[t] /\ slot_cnt[t] # 0 THEN slot_cnt[t] - 1 ELSE slot_cnt[t]

Slots(s2m_ready) ==
    /\ slot_valid' = [t \in Tag |-> accepted(t) \/ (slot_valid[t] /\ ~retired(t, s2m_ready))]
    /\ slot_is_write' = [t \in Tag |-> IF accepted(t) THEN m2s.is_write ELSE slot_is_write[t]]
    /\ slot_rdata' = [t \in Tag |->
            IF accepted(t) /\ ~m2s.is_write THEN read_data ELSE slot_rdata[t]]
    /\ slot_cnt' = [t \in Tag |->
            IF accepted(t) THEN accept_cnt
            ELSE IF retired(t, s2m_ready) THEN slot_cnt[t] ELSE count_down(t)]

-----------------------------------------------------------------------------
\* Cache arrays: flushed, written, filled or left alone

cache_flush ==
    /\ do_flush_write_this_cycle
    /\ cache_dirty' = [cache_dirty EXCEPT ![m2s_idx] = FALSE]
    /\ UNCHANGED <<cache_valid, cache_tag, cache_data>>

faulty_cache_allocates == ~do_flush_write_this_cycle /\ accept_this_cycle
cache_allocates == ~do_flush_write_this_cycle /\ accept_this_cycle /\ ~cache_bypass_en

cache_write ==
    /\ cache_allocates /\ m2s.is_write
    /\ cache_valid' = [cache_valid EXCEPT ![m2s_idx] = TRUE]
    /\ cache_tag' = [cache_tag EXCEPT ![m2s_idx] = m2s_cache_tag_field]
    /\ cache_data' = [cache_data EXCEPT ![m2s_idx] = m2s.wdata]
    /\ cache_dirty' = [cache_dirty EXCEPT ![m2s_idx] = TRUE]

cache_fill ==
    /\ cache_allocates /\ ~m2s.is_write /\ ~cache_hit
    /\ cache_valid' = [cache_valid EXCEPT ![m2s_idx] = TRUE]
    /\ cache_tag' = [cache_tag EXCEPT ![m2s_idx] = m2s_cache_tag_field]
    /\ cache_data' = [cache_data EXCEPT ![m2s_idx] = mem[m2s.addr]]
    /\ cache_dirty' = [cache_dirty EXCEPT ![m2s_idx] = FALSE]

\* A read hit rewrites valid and tag with the values they have.
cache_hold ==
    /\ ~do_flush_write_this_cycle
    /\ cache_allocates => ~m2s.is_write /\ cache_hit
    /\ UNCHANGED cacheVars

CacheArrays == cache_flush \/ cache_write \/ cache_fill \/ cache_hold

faulty_BackingMemory ==
    mem' = IF do_flush_write_this_cycle
           THEN [mem EXCEPT ![flush_addr] = cache_data[m2s_idx]]
           ELSE mem

\* Backing memory: the write-back of a flush, or a write that bypasses the cache.
BackingMemory ==
    mem' = IF do_flush_write_this_cycle
           THEN [mem EXCEPT ![flush_addr] = cache_data[m2s_idx]]
           ELSE IF accept_this_cycle /\ cache_bypass_en /\ m2s.is_write
                THEN [mem EXCEPT ![m2s.addr] = m2s.wdata]
                ELSE mem

counted(counter, by) == IF by THEN (counter + 1) % CounterModulus ELSE counter

Counters ==
    /\ dbg_cache_hits' = counted(dbg_cache_hits, accept_this_cycle /\ cache_hit_eff)
    /\ dbg_cache_misses' = counted(dbg_cache_misses, accept_this_cycle /\ ~cache_hit_eff)

-----------------------------------------------------------------------------
\* A rising clock edge with rst_n high.
Clock(s2m_ready, bi_req_ready, bi_rsp_valid, bias_wr_en, bias_addr, bias_wr_data) ==
    /\ BiSequencer(bi_req_ready, bi_rsp_valid)
    /\ BiasWrite(bi_rsp_valid, bias_wr_en, bias_addr, bias_wr_data)
    /\ EvictionFlush
    /\ Response(s2m_ready)
    /\ Slots(s2m_ready)
    /\ CacheArrays
    /\ BackingMemory
    /\ Counters

faulty_ResetClock ==
    /\ bias' = bias_reset
    /\ bi_state' = "BI_IDLE"
    /\ flush_state' = "FLUSH_IDLE"
    /\ slot_valid' = [t \in Tag |-> FALSE]
    /\ UNCHANGED <<slot_is_write, slot_rdata, slot_cnt, resp_active, resp_tag_r,
                   cacheVars, mem, dbg_cache_hits, dbg_cache_misses>>

\* A clock cycle with rst_n low and m2s_valid low.  The blocks with an
\* asynchronous reset take their reset value; slots, cache and memory have no
\* reset, so an occupied slot goes on counting down and nothing else moves.
ResetClock ==
    /\ bias' = bias_reset
    /\ bi_state' = "BI_IDLE"
    /\ flush_state' = "FLUSH_IDLE"
    /\ resp_active' = FALSE
    /\ resp_tag_r' = 0
    /\ dbg_cache_hits' = 0
    /\ dbg_cache_misses' = 0
    /\ slot_cnt' = [t \in Tag |-> count_down(t)]
    /\ UNCHANGED <<slot_valid, slot_is_write, slot_rdata, cacheVars, mem>>

-----------------------------------------------------------------------------
\* Properties that hold in every environment

\* Every register holds a value of its width.
EngineTypeOK ==
    /\ m2s \in M2S
    /\ cache_bypass_en \in BOOLEAN
    /\ BiasTypeOK
    /\ bi_state \in {"BI_IDLE", "BI_REQ", "BI_WAIT_RSP"}
    /\ flush_state \in {"FLUSH_IDLE", "FLUSH_ACTIVE"}
    /\ cache_valid \in [Line -> BOOLEAN]
    /\ cache_dirty \in [Line -> BOOLEAN]
    /\ cache_tag \in [Line -> CacheTag]
    /\ cache_data \in [Line -> Data]
    /\ mem \in [Addr -> Data]
    /\ slot_valid \in [Tag -> BOOLEAN]
    /\ slot_is_write \in [Tag -> BOOLEAN]
    /\ slot_rdata \in [Tag -> Data]
    /\ slot_cnt \in [Tag -> 0 .. ReadExtraLatency]
    /\ resp_active \in BOOLEAN
    /\ resp_tag_r \in Tag
    /\ dbg_cache_hits \in Counter
    /\ dbg_cache_misses \in Counter

\* The two "stall, don't drop" sequencers of the engine never run at once: a
\* flush is never under way while a BI handshake is (header comment, lines
\* 24-31; the guards of want_bi and want_flush).
FlushBiExclusive == flush_state = "FLUSH_ACTIVE" => bi_state = "BI_IDLE"

\* The response on the S2M port belongs to a request that was accepted, has
\* served its latency and has not been answered: no phantom and no duplicate
\* completion, whatever the interleaving of accepts and consumes.
ResponseIsOwed == resp_active => slot_done(resp_tag_r)

\* Only an allocated line can be dirty, so a flush never writes back the
\* contents an entry had before its first allocation.
DirtyLineIsValid == \A i \in Line : cache_dirty[i] => cache_valid[i]

=============================================================================
