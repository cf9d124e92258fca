----------------------------- MODULE AvalonShim -----------------------------
(***************************************************************************)
(* rtl/cxl_avalon_shim.sv: the register-poke bridge between the HPS and    *)
(* the protocol engine.  One step is one rising clock edge; the Avalon-MM  *)
(* write on the bus in a cycle is the variable `avs`, which the bus master *)
(* holds while the shim asserts waitrequest.  Reads have no side effect in *)
(* the shim: a read cycle is a cycle without a write.                      *)
(*                                                                         *)
(* The master is either any software at all or, with HoldsRequest, one     *)
(* that leaves the request and bypass registers alone while a request is   *)
(* pending ("the host holds the request stable", interview_questions.md).  *)
(***************************************************************************)
EXTENDS Integers

CONSTANTS
    CacheTag, Line, Data, ZeroData, ZeroCacheTag, NumTags, ReadExtraLatency,
    CounterModulus, None,
    Bypassed,      \* the addresses such software uses with the cache bypassed
    BiasSettable,  \* the addresses whose bias software may set
    HoldsRequest,  \* whether software keeps the request registers stable
    MixesBypass,   \* whether it uses an address with the cache on and bypassed
    ResetsMidRun   \* whether rstn may go low again after power-on

ASSUME ConstantsAssumption ==
    /\ ZeroData \in Data /\ ZeroCacheTag \in CacheTag /\ Line # {}
    /\ NumTags \in Nat \ {0} /\ ReadExtraLatency \in Nat /\ CounterModulus \in Nat \ {0}
ASSUME AddressAssumption == Bypassed \cup BiasSettable \subseteq CacheTag \X Line
ASSUME SoftwareAssumption == {HoldsRequest, MixesBypass, ResetsMidRun} \subseteq BOOLEAN

VARIABLES
    req_addr_r, req_wdata_r, bias_addr_r, cache_bypass_en_r,  \* registers
    pending_valid_r, pending_is_write_r, pending_tag_r,       \* pending request
    avs,                                                      \* bus write
    bias, bi_state, flush_state, cache_valid, cache_dirty, cache_tag, cache_data,
    mem, slot_valid, slot_is_write, slot_rdata, slot_cnt, resp_active, resp_tag_r,
    dbg_cache_hits, dbg_cache_misses,                         \* the engine's
    host_copy, bi_taken,   \* what software knows of copies, as in EngineHost
    fired,                 \* the request as the registers held it at REQ_FIRE
    written                \* per address: the value of the last write accepted

\* The engine's request port is wired to the pending request and, for address
\* and write data, to the live registers.
m2s == [valid |-> pending_valid_r, is_write |-> pending_is_write_r,
        addr |-> req_addr_r, tag |-> pending_tag_r, wdata |-> req_wdata_r]

\* EngineProofs is EngineHost with its theorems, which ShimProofs uses.
Host == INSTANCE EngineProofs WITH
    cache_bypass_en <- cache_bypass_en_r,
    PortValues <- [valid : BOOLEAN, is_write : BOOLEAN, addr : CacheTag \X Line,
                   tag : 0 .. NumTags - 1, wdata : Data],
    SetsPendingBias <- TRUE,
    SetsResidentBias <- TRUE

ASSUME NoneAssumption ==
    None \notin Host!Answer \cup [tag : Host!Tag, answer : Host!Answer]

shimVars == <<req_addr_r, req_wdata_r, bias_addr_r, cache_bypass_en_r,
              pending_valid_r, pending_is_write_r, pending_tag_r, avs>>
engineRegs == <<bias, bi_state, flush_state, cache_valid, cache_dirty, cache_tag,
                cache_data, mem, slot_valid, slot_is_write, slot_rdata, slot_cnt,
                resp_active, resp_tag_r, dbg_cache_hits, dbg_cache_misses>>
vars == <<shimVars, engineRegs, host_copy, bi_taken, fired, written>>

\* The writes software can put on the bus.
NoWrite == [reg |-> "NONE"]
BusWrites ==
    {NoWrite, [reg |-> "RESP_ACK"], [reg |-> "BI_REQ_ACK"], [reg |-> "BI_RSP_SEND"]}
    \cup [reg : {"REQ_ADDR", "BIAS_ADDR"}, addr : Host!Addr]
    \cup [reg : {"REQ_WDATA"}, wdata : Data]
    \cup [reg : {"REQ_FIRE"}, is_write : BOOLEAN, tag : Host!Tag]
    \cup [reg : {"BIAS_SET", "CACHE_BYPASS"}, bit0 : BOOLEAN]

writes(reg) == avs.reg = reg
write_fire == writes("REQ_FIRE")
\* (faulty_...: wrong on purpose, see ProtocolEngine.)
faulty_avs_waitrequest == write_fire /\ (pending_valid_r \/ ~Host!m2s_ready)
avs_waitrequest == write_fire /\ pending_valid_r
latches_fire == write_fire /\ ~pending_valid_r

\* The bus waits for a request that waits for what only the bus can bring: an
\* answer's acknowledgement, or the two steps of a Back-Invalidate.
bus_hung ==
    avs_waitrequest /\ (slot_valid[m2s.tag] \/ Host!bi_active \/ bias[m2s.addr])

Init ==
    /\ Host!EngineInit
    /\ req_addr_r = <<ZeroCacheTag, CHOOSE i \in Line : TRUE>>
    /\ req_wdata_r = ZeroData
    /\ bias_addr_r = req_addr_r
    /\ cache_bypass_en_r = FALSE
    /\ pending_valid_r = FALSE
    /\ pending_is_write_r \in BOOLEAN   \* no reset
    /\ pending_tag_r \in Host!Tag       \* no reset
    /\ avs = NoWrite
    /\ host_copy = {}
    /\ bi_taken = None
    /\ fired = None
    /\ written = [a \in Host!Addr |-> ZeroData]

-----------------------------------------------------------------------------
\* Registers that software writes

LatchedRegisters ==
    /\ req_addr_r' = IF writes("REQ_ADDR") THEN avs.addr ELSE req_addr_r
    /\ req_wdata_r' = IF writes("REQ_WDATA") THEN avs.wdata ELSE req_wdata_r
    /\ bias_addr_r' = IF writes("BIAS_ADDR") THEN avs.addr ELSE bias_addr_r
    /\ cache_bypass_en_r' = IF writes("CACHE_BYPASS") THEN avs.bit0 ELSE cache_bypass_en_r

\* (faulty_...: wrong on purpose, see ProtocolEngine.)
faulty_PendingRequest_overwrites ==
    \/ /\ write_fire
       /\ pending_valid_r' = TRUE
       /\ pending_is_write_r' = avs.is_write
       /\ pending_tag_r' = avs.tag
    \/ /\ ~write_fire
       /\ pending_valid_r' = (pending_valid_r /\ ~Host!m2s_ready)
       /\ UNCHANGED <<pending_is_write_r, pending_tag_r>>

faulty_PendingRequest_one_cycle ==
    \/ /\ latches_fire
       /\ pending_valid_r' = TRUE
       /\ pending_is_write_r' = avs.is_write
       /\ pending_tag_r' = avs.tag
    \/ /\ ~latches_fire
       /\ pending_valid_r' = FALSE
       /\ UNCHANGED <<pending_is_write_r, pending_tag_r>>

\* The one-deep holding register: latched by REQ_FIRE when free, freed when
\* the engine is ready.
PendingRequest ==
    \/ /\ latches_fire
       /\ pending_valid_r' = TRUE
       /\ pending_is_write_r' = avs.is_write
       /\ pending_tag_r' = avs.tag
    \/ /\ ~latches_fire
       /\ pending_valid_r' = (pending_valid_r /\ ~Host!m2s_ready)
       /\ UNCHANGED <<pending_is_write_r, pending_tag_r>>

\* The engine, with the bus writes decoded to its pulses.
Engine ==
    Host!Clock(writes("RESP_ACK"), writes("BI_REQ_ACK"), writes("BI_RSP_SEND"),
               writes("BIAS_SET"), bias_addr_r, writes("BIAS_SET") /\ avs.bit0)

\* What software knows of copies: see TakeBi, RespondBi and SetBias in EngineHost.
Copies ==
    IF Host!bi_req_valid /\ writes("BI_REQ_ACK") THEN Host!TakeBi
    ELSE IF Host!bi_flip_now(writes("BI_RSP_SEND")) THEN Host!RespondBi
    ELSE IF writes("BIAS_SET") THEN Host!SetBias(bias_addr_r, avs.bit0)
    ELSE UNCHANGED <<host_copy, bi_taken>>

Fired == fired' = IF latches_fire
                  THEN [valid |-> TRUE, is_write |-> avs.is_write, addr |-> req_addr_r,
                        tag |-> avs.tag, wdata |-> req_wdata_r]
                  ELSE IF pending_valid_r' THEN fired ELSE None

Written == written' = IF Host!accept_this_cycle /\ pending_is_write_r
                      THEN [written EXCEPT ![req_addr_r] = req_wdata_r]
                      ELSE written

-----------------------------------------------------------------------------
\* Software: the next write on the bus

\* What software that keeps the host contract may write in the next cycle.
KeepsContract(w) ==
    /\ w.reg \in {"REQ_ADDR", "REQ_WDATA", "CACHE_BYPASS"} => ~pending_valid_r'
    /\ MixesBypass \/
          /\ w.reg = "REQ_FIRE" => cache_bypass_en_r' = (req_addr_r' \in Bypassed)
          /\ w.reg = "CACHE_BYPASS" => Bypassed # {}

MayWrite(w) ==
    /\ HoldsRequest => KeepsContract(w)
    /\ w.reg = "BIAS_ADDR" => w.addr \in BiasSettable
    /\ w.reg = "BIAS_SET" => bias_addr_r' \in BiasSettable

BusMaster ==
    \/ avs_waitrequest /\ UNCHANGED avs
    \/ ~avs_waitrequest /\ avs' \in {w \in BusWrites : MayWrite(w)}

ShimCycle ==
    /\ LatchedRegisters
    /\ PendingRequest
    /\ Engine
    /\ Copies
    /\ Fired
    /\ Written

BusCycle == ShimCycle /\ BusMaster

\* A cycle with rstn low.  The bus is quiet and software starts afresh.
Reset ==
    /\ ResetsMidRun
    /\ req_addr_r' = <<ZeroCacheTag, CHOOSE i \in Line : TRUE>>
    /\ req_wdata_r' = ZeroData
    /\ bias_addr_r' = req_addr_r'
    /\ cache_bypass_en_r' = FALSE
    /\ pending_valid_r' = FALSE
    /\ UNCHANGED <<pending_is_write_r, pending_tag_r>>
    /\ avs' = NoWrite
    /\ host_copy' = {} /\ bi_taken' = None /\ fired' = None
    /\ UNCHANGED written
    /\ Host!ResetClock

Next == BusCycle \/ Reset

Spec == Init /\ [][Next]_vars

\* The clock runs.
FairSpec == Spec /\ WF_vars(BusCycle)

-----------------------------------------------------------------------------
\* Properties

\* Registers hold values of their widths, and the engine's do.
TypeOK ==
    /\ Host!TypeOK
    /\ bias_addr_r \in Host!Addr
    /\ avs \in BusWrites
    /\ fired \in Host!M2S \cup {None}

\* Whatever software writes and whenever rstn falls, the engine's sequencers
\* exclude each other, its response is owed and its dirty lines are valid.
EngineStaysSound ==
    /\ Host!FlushBiExclusive
    /\ Host!ResponseIsOwed
    /\ Host!DirtyLineIsValid

\* The request the engine sees is the one REQ_FIRE fired.
PendingIsAsFired == pending_valid_r => m2s = fired

\* A stalled bus is stalled by an eviction, which ends, or it hangs (bugs.md,
\* BUG-006 and BUG-009): what the pending request waits for then needs the bus.
StallEnds == avs_waitrequest ~> ~avs_waitrequest \/ bus_hung

\* Nothing but a reset ends a hang: the write that stalls keeps off the bus
\* whatever could complete the request it waits for.
HangIsForever == [][bus_hung => bus_hung' \/ Reset]_vars

\* The holding register and the slots agree on every hand-over: a slot fills
\* only with the pending request of its tag, which then leaves the register,
\* and a request leaves the register only into its slot or by a reset.
newly_filled(t) == ~slot_valid[t] /\ slot_valid'[t]
PendingMovesToSlot ==
    [][/\ \A t \in Host!Tag : newly_filled(t) =>
            /\ pending_valid_r /\ ~pending_valid_r'
            /\ pending_tag_r = t /\ pending_is_write_r = slot_is_write'[t]
       /\ pending_valid_r /\ ~pending_valid_r' => newly_filled(pending_tag_r) \/ Reset]_vars

\* The cache is left completely untouched while it is bypassed (engine, lines
\* 91-96; shim, lines 53-56).
BypassFreezesCache == [][cache_bypass_en_r => UNCHANGED Host!cacheVars]_vars

\* A read is answered with the value last written to its address, whether the
\* cache is on or off (manual, 4.3: "data must match whether cache is on or
\* off").
ReadReturnsLastWritten ==
    [][\A t \in Host!Tag : newly_filled(t) /\ ~slot_is_write'[t] =>
          slot_rdata'[t] = written[req_addr_r]]_vars

\* Under software that keeps the contract, the shim is an EngineHost: all that
\* holds of the engine under that host holds of the engine behind the shim.
ImplementsEngineHost == Host!Spec

\* A line that is Device-Biased is one the host has no copy of (README.md,
\* "Device Bias: the host does not have a cached copy of this line"): the line
\* that flips is the line whose Back-Invalidate software answered.
HostCopyIsHostBiased == Host!HostCopyIsHostBiased

=============================================================================
