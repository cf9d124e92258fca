----------------------------- MODULE ShimProofs -----------------------------
(***************************************************************************)
(* Proofs about the Avalon shim.  Whatever software writes and whenever    *)
(* the shim is reset, the engine behind it stays sound, and a hung bus     *)
(* hangs until a reset.  Under software that keeps the contract the shim   *)
(* implements EngineHost, so the theorems of EngineProofs hold of it.      *)
(***************************************************************************)
EXTENDS AvalonShim, TLAPS

\* The assumptions of EngineProofs hold of the shim's constants; its theorems
\* are cited with this lemma, as Host!...
LEMMA EngineConstants ==
    /\ ZeroData \in Data /\ ZeroCacheTag \in CacheTag
    /\ NumTags \in Nat \ {0}
    /\ ReadExtraLatency \in Nat
    /\ CounterModulus \in Nat \ {0}
    /\ [valid : BOOLEAN, is_write : BOOLEAN, addr : CacheTag \X Line,
        tag : 0 .. NumTags - 1, wdata : Data] \subseteq Host!M2S
    /\ Bypassed \subseteq Host!Addr
    /\ BiasSettable \subseteq Host!Addr
    /\ {TRUE, TRUE} \subseteq BOOLEAN
    /\ None \notin Host!Answer \cup [tag : Host!Tag, answer : Host!Answer]
BY ConstantsAssumption, AddressAssumption, NoneAssumption DEF Host!Addr, Host!M2S, Host!Tag

-----------------------------------------------------------------------------
\* Types

\* What a write on the bus carries.
LEMMA BusWriteFields ==
    ASSUME NEW w \in BusWrites
    PROVE  /\ w.reg \in {"REQ_ADDR", "BIAS_ADDR"} => w.addr \in Host!Addr
           /\ w.reg = "REQ_WDATA" => w.wdata \in Data
           /\ w.reg = "REQ_FIRE" => w.is_write \in BOOLEAN /\ w.tag \in Host!Tag
           /\ w.reg \in {"BIAS_SET", "CACHE_BYPASS"} => w.bit0 \in BOOLEAN
BY DEF BusWrites, NoWrite

\* The engine's request port shows registers of the shim.
LEMMA PortRegisters ==
    /\ m2s \in Host!M2S <=>
          /\ pending_valid_r \in BOOLEAN /\ pending_is_write_r \in BOOLEAN
          /\ req_addr_r \in Host!Addr /\ pending_tag_r \in Host!Tag /\ req_wdata_r \in Data
    /\ m2s.valid = pending_valid_r /\ m2s.addr = req_addr_r /\ m2s.tag = pending_tag_r
BY DEF m2s, Host!M2S

\* An edge of the engine: what the bus writes to it, decoded.
LEMMA EngineEdge ==
    ASSUME TypeOK, Engine
    PROVE  \E ready, ack, rsp, set, b \in BOOLEAN, a \in Host!Addr :
              Host!Clock(ready, ack, rsp, set, a, b)
<1>1. /\ writes("RESP_ACK") \in BOOLEAN /\ writes("BI_REQ_ACK") \in BOOLEAN
      /\ writes("BI_RSP_SEND") \in BOOLEAN /\ writes("BIAS_SET") \in BOOLEAN
  BY DEF writes
<1>2. (writes("BIAS_SET") /\ avs.bit0) \in BOOLEAN
  OBVIOUS
<1>3. bias_addr_r \in Host!Addr
  BY DEF TypeOK
<1>4. QED
  BY <1>1, <1>2, <1>3 DEF Engine

\* Power-on types.
LEMMA InitTypes == Init => TypeOK
<1> SUFFICES ASSUME Init PROVE TypeOK
  OBVIOUS
<1>1. <<ZeroCacheTag, CHOOSE i \in Line : TRUE>> \in Host!Addr
  BY ConstantsAssumption DEF Host!Addr
<1>2. 0 \in Host!Tag /\ 0 \in Host!Counter /\ 0 \in 0 .. ReadExtraLatency
  BY ConstantsAssumption DEF Host!Tag, Host!Counter
<1>3. Host!EngineTypeOK
  <2>1. m2s \in Host!M2S /\ cache_bypass_en_r \in BOOLEAN
    BY <1>1, PortRegisters, ConstantsAssumption DEF Init
  <2>2. QED
    BY <1>2, <2>1, ConstantsAssumption
    DEF Init, Host!EngineInit, Host!EngineTypeOK, Host!BiasTypeOK, Host!bias_reset
<1>4. Host!TypeOK
  BY <1>3 DEF Init, Host!TypeOK
<1>5. QED
  BY <1>1, <1>4 DEF Init, TypeOK, BusWrites

\* The shim's registers after a cycle.
LEMMA RegisterTypes ==
    ASSUME TypeOK, LatchedRegisters, PendingRequest
    PROVE  /\ m2s' \in Host!M2S
           /\ cache_bypass_en_r' \in BOOLEAN
           /\ bias_addr_r' \in Host!Addr
<1>1. /\ m2s \in Host!M2S /\ cache_bypass_en_r \in BOOLEAN /\ bias_addr_r \in Host!Addr
      /\ avs \in BusWrites
  BY DEF TypeOK, Host!TypeOK, Host!EngineTypeOK
<1>2. req_addr_r' \in Host!Addr /\ req_wdata_r' \in Data
  BY <1>1, BusWriteFields, PortRegisters DEF LatchedRegisters, writes
<1>3. cache_bypass_en_r' \in BOOLEAN /\ bias_addr_r' \in Host!Addr
  BY <1>1, BusWriteFields DEF LatchedRegisters, writes
<1>4. /\ pending_valid_r' \in BOOLEAN /\ pending_is_write_r' \in BOOLEAN
      /\ pending_tag_r' \in Host!Tag
  BY <1>1, BusWriteFields, PortRegisters DEF PendingRequest, latches_fire, write_fire, writes
<1>5. m2s' \in Host!M2S
  BY <1>2, <1>4 DEF m2s, Host!M2S
<1>6. QED
  BY <1>3, <1>5

\* A cycle leaves every register within its width, whoever drives the bus.
LEMMA CycleTypes ==
    ASSUME TypeOK, ShimCycle, avs' \in BusWrites
    PROVE  TypeOK'
<1>1. m2s' \in Host!M2S /\ cache_bypass_en_r' \in BOOLEAN /\ bias_addr_r' \in Host!Addr
  BY RegisterTypes DEF ShimCycle
<1>2. Host!EngineTypeOK'
  <2>1. PICK ready \in BOOLEAN, ack \in BOOLEAN, rsp \in BOOLEAN, set \in BOOLEAN,
             b \in BOOLEAN, a \in Host!Addr : Host!Clock(ready, ack, rsp, set, a, b)
    BY EngineEdge DEF ShimCycle
  <2>2. QED
    BY <1>1, <2>1, Host!ClockTypes, EngineConstants DEF TypeOK, Host!TypeOK
<1>3. host_copy' \subseteq Host!Addr /\ bi_taken' \in Host!Addr \cup {None}
  <2>1. req_addr_r \in Host!Addr
    BY PortRegisters DEF TypeOK, Host!TypeOK, Host!EngineTypeOK
  <2>2. QED
    BY <2>1, PortRegisters DEF TypeOK, Host!TypeOK, ShimCycle, Copies, Host!TakeBi,
       Host!RespondBi, Host!SetBias, Host!bi_req_addr
<1>4. fired' \in Host!M2S \cup {None}
  <2>1. CASE latches_fire
    <3>1. avs.is_write \in BOOLEAN /\ avs.tag \in Host!Tag
      BY <2>1, BusWriteFields DEF TypeOK, latches_fire, write_fire, writes
    <3>2. req_addr_r \in Host!Addr /\ req_wdata_r \in Data
      BY PortRegisters DEF TypeOK, Host!TypeOK, Host!EngineTypeOK
    <3>3. QED
      BY <2>1, <3>1, <3>2 DEF ShimCycle, Fired, Host!M2S
  <2>2. CASE ~latches_fire
    BY <2>2 DEF ShimCycle, Fired, TypeOK
  <2>3. QED
    BY <2>1, <2>2
<1>5. QED
  BY <1>1, <1>2, <1>3, <1>4 DEF TypeOK, Host!TypeOK

\* So does a reset.
LEMMA ResetTypes ==
    ASSUME TypeOK, Reset
    PROVE  TypeOK'
<1>1. <<ZeroCacheTag, CHOOSE i \in Line : TRUE>> \in Host!Addr
  BY ConstantsAssumption DEF Host!Addr
<1>2. 0 \in Host!Tag /\ 0 \in Host!Counter
  BY ConstantsAssumption DEF Host!Tag, Host!Counter
<1>3. m2s' \in Host!M2S /\ cache_bypass_en_r' \in BOOLEAN /\ bias_addr_r' \in Host!Addr
  <2>1. /\ pending_is_write_r' \in BOOLEAN /\ pending_tag_r' \in Host!Tag
        /\ pending_valid_r' \in BOOLEAN
    BY PortRegisters DEF Reset, TypeOK, Host!TypeOK, Host!EngineTypeOK
  <2>2. req_addr_r' \in Host!Addr /\ req_wdata_r' \in Data
    BY <1>1, ConstantsAssumption DEF Reset
  <2>3. cache_bypass_en_r' \in BOOLEAN /\ bias_addr_r' \in Host!Addr
    BY <2>2 DEF Reset
  <2>4. QED
    BY <2>1, <2>2, <2>3 DEF m2s, Host!M2S
<1>4. slot_cnt' \in [Host!Tag -> 0 .. ReadExtraLatency]
  <2>1. \A t \in Host!Tag : Host!count_down(t) \in 0 .. ReadExtraLatency
    BY ConstantsAssumption DEF Host!count_down, TypeOK, Host!TypeOK, Host!EngineTypeOK
  <2>2. QED
    BY <2>1 DEF Reset, Host!ResetClock
<1>5. Host!EngineTypeOK'
  BY <1>2, <1>3, <1>4 DEF Reset, Host!ResetClock, Host!cacheVars, TypeOK, Host!TypeOK,
     Host!EngineTypeOK, Host!BiasTypeOK, Host!bias_reset
<1>6. QED
  BY <1>3, <1>5 DEF Reset, TypeOK, Host!TypeOK, BusWrites

\* Every step of the shim, whatever is on its bus, keeps the registers typed.
LEMMA StepTypes == TypeOK /\ [Next]_vars => TypeOK'
<1>1. ASSUME TypeOK, UNCHANGED vars PROVE TypeOK'
  BY <1>1 DEF TypeOK, Host!TypeOK, Host!EngineTypeOK, Host!BiasTypeOK, vars, shimVars,
     engineRegs, m2s
<1>2. TypeOK /\ BusCycle => ShimCycle /\ avs' \in BusWrites
  BY DEF BusCycle, BusMaster, TypeOK
<1>3. QED
  BY <1>1, <1>2, CycleTypes, ResetTypes DEF Next

\* Whatever software writes, registers keep within their widths.
THEOREM ShimTypeCorrect == Spec => []TypeOK
<1>1. QED
  BY InitTypes, StepTypes, PTL DEF Spec

-----------------------------------------------------------------------------
\* The engine behind the shim

\* An edge of the engine keeps it sound whatever the bus writes.
LEMMA CycleSound ==
    ASSUME TypeOK, EngineStaysSound, ShimCycle
    PROVE  EngineStaysSound'
<1>1. PICK ready \in BOOLEAN, ack \in BOOLEAN, rsp \in BOOLEAN, set \in BOOLEAN,
           b \in BOOLEAN, a \in Host!Addr : Host!Clock(ready, ack, rsp, set, a, b)
  BY EngineEdge DEF ShimCycle
<1>2. Host!EngineTypeOK
  BY DEF TypeOK, Host!TypeOK
<1>3. Host!FlushBiExclusive'
  BY <1>1, Host!ClockKeepsFlushBiExclusive, EngineConstants
<1>4. Host!ResponseIsOwed'
  BY <1>1, <1>2, Host!ClockKeepsResponseIsOwed, EngineConstants DEF EngineStaysSound
<1>5. Host!DirtyLineIsValid'
  BY <1>1, <1>2, Host!ClockKeepsDirtyLineIsValid, EngineConstants DEF EngineStaysSound
<1>6. QED
  BY <1>3, <1>4, <1>5 DEF EngineStaysSound

\* A reset withdraws the offer and stops both sequencers but leaves the lines
\* alone.
LEMMA StepSound ==
    TypeOK /\ EngineStaysSound /\ [Next]_vars => EngineStaysSound'
<1>1. ASSUME EngineStaysSound, Reset PROVE EngineStaysSound'
  BY <1>1 DEF Reset, Host!ResetClock, Host!cacheVars, EngineStaysSound,
     Host!FlushBiExclusive, Host!ResponseIsOwed, Host!DirtyLineIsValid
<1>2. ASSUME EngineStaysSound, UNCHANGED vars PROVE EngineStaysSound'
  BY <1>2 DEF vars, engineRegs, EngineStaysSound, Host!FlushBiExclusive,
     Host!ResponseIsOwed, Host!slot_done, Host!DirtyLineIsValid
<1>3. QED
  BY <1>1, <1>2, CycleSound DEF Next, BusCycle

\* Whatever software writes and whenever the shim is reset, the sequencers of
\* the engine exclude each other, its answer is owed, its dirty lines are valid.
THEOREM EngineIsSound == Spec => []EngineStaysSound
<1>1. Init => EngineStaysSound
  BY DEF Init, Host!EngineInit, EngineStaysSound, Host!FlushBiExclusive,
     Host!ResponseIsOwed, Host!DirtyLineIsValid
<1>2. QED
  BY <1>1, StepSound, ShimTypeCorrect, PTL DEF Spec

-----------------------------------------------------------------------------
\* The hand-over from the holding register to the slots

HandOver ==
    /\ \A t \in Host!Tag : newly_filled(t) =>
          /\ pending_valid_r /\ ~pending_valid_r'
          /\ pending_tag_r = t /\ pending_is_write_r = slot_is_write'[t]
    /\ pending_valid_r /\ ~pending_valid_r' => newly_filled(pending_tag_r) \/ Reset

\* A pending request leaves its register in the cycle in which it fills its slot.
LEMMA HandOverStep == TypeOK /\ [Next]_vars => [HandOver]_vars
<1>1. ASSUME TypeOK, BusCycle PROVE HandOver
  <2>1. PICK ready \in BOOLEAN, ack \in BOOLEAN, rsp \in BOOLEAN, set \in BOOLEAN,
             b \in BOOLEAN, a \in Host!Addr : Host!Clock(ready, ack, rsp, set, a, b)
    BY <1>1, EngineEdge DEF BusCycle, ShimCycle
  <2>2. Host!Slots(ready) /\ PendingRequest
    BY <1>1, <2>1 DEF Host!Clock, BusCycle, ShimCycle
  <2>3. pending_tag_r \in Host!Tag /\ pending_valid_r \in BOOLEAN
    BY <1>1, PortRegisters DEF TypeOK, Host!TypeOK, Host!EngineTypeOK
  <2>4. ASSUME NEW t \in Host!Tag, newly_filled(t)
        PROVE  /\ pending_valid_r /\ ~pending_valid_r'
               /\ pending_tag_r = t /\ pending_is_write_r = slot_is_write'[t]
    <3>1. Host!accepted(t)
      BY <2>2, <2>4 DEF newly_filled, Host!Slots
    <3>2. slot_is_write'[t] = pending_is_write_r
      BY <2>2, <3>1 DEF Host!Slots, m2s
    <3>3. pending_valid_r /\ Host!m2s_ready /\ pending_tag_r = t
      BY <3>1 DEF Host!accepted, Host!accept_this_cycle, m2s
    <3>4. QED
      BY <2>2, <3>2, <3>3 DEF PendingRequest, latches_fire
  <2>5. ASSUME pending_valid_r, ~pending_valid_r' PROVE newly_filled(pending_tag_r)
    <3>1. Host!m2s_ready
      BY <2>2, <2>3, <2>5 DEF PendingRequest
    <3>2. Host!accepted(pending_tag_r) /\ ~slot_valid[pending_tag_r]
      BY <2>5, <3>1 DEF Host!accepted, Host!accept_this_cycle, Host!m2s_ready, m2s
    <3>3. QED
      BY <2>2, <2>3, <3>2 DEF Host!Slots, newly_filled
  <2>6. QED
    BY <2>4, <2>5 DEF HandOver
<1>2. ASSUME Reset PROVE HandOver
  BY <1>2 DEF Reset, Host!ResetClock, HandOver, newly_filled
<1>3. QED
  BY <1>1, <1>2 DEF Next

\* No request is lost or doubled on its way from REQ_FIRE to its slot.
THEOREM RequestsAreHandedOver == Spec => PendingMovesToSlot
<1>1. QED
  BY ShimTypeCorrect, HandOverStep, PTL DEF Spec, PendingMovesToSlot, HandOver

-----------------------------------------------------------------------------
\* A hung bus

\* While a REQ_FIRE is on the bus no other register is written and no pulse
\* reaches the engine; the pending request stays for want of m2s_ready.
LEMMA StallHoldsRequest ==
    ASSUME TypeOK, BusCycle, avs_waitrequest, ~Host!m2s_ready
    PROVE  /\ m2s' = m2s /\ avs' = avs /\ pending_valid_r' = TRUE
           /\ cache_bypass_en_r' = cache_bypass_en_r
<1>1. avs.reg = "REQ_FIRE" /\ pending_valid_r
  BY DEF avs_waitrequest, write_fire, writes
<1>2. /\ req_addr_r' = req_addr_r /\ req_wdata_r' = req_wdata_r
      /\ cache_bypass_en_r' = cache_bypass_en_r
  BY <1>1 DEF BusCycle, ShimCycle, LatchedRegisters, writes
<1>3. pending_valid_r \in BOOLEAN
  BY PortRegisters DEF TypeOK, Host!TypeOK, Host!EngineTypeOK
<1>4. /\ pending_valid_r' = TRUE
      /\ pending_is_write_r' = pending_is_write_r /\ pending_tag_r' = pending_tag_r
  BY <1>1, <1>3 DEF BusCycle, ShimCycle, PendingRequest, latches_fire
<1>5. avs' = avs
  BY DEF BusCycle, BusMaster
<1>6. QED
  BY <1>1, <1>2, <1>3, <1>4, <1>5 DEF m2s

\* What a hang waits for does not come while the bus is stalled: its slot is
\* not consumed, its handshake does not end, its bias does not change.
LEMMA HangStep == TypeOK /\ [Next]_vars => [bus_hung => bus_hung' \/ Reset]_vars
<1>1. SUFFICES ASSUME TypeOK, BusCycle, bus_hung PROVE bus_hung'
  BY DEF Next
<1>2. avs_waitrequest /\ ~Host!m2s_ready
  BY <1>1 DEF bus_hung, Host!m2s_ready, Host!bi_active, Host!bias_query_rd_data
<1>3. m2s' = m2s /\ avs' = avs /\ pending_valid_r' = TRUE
  BY <1>1, <1>2, StallHoldsRequest
<1>4. avs_waitrequest'
  BY <1>2, <1>3 DEF avs_waitrequest, write_fire, writes
<1>5. Host!Clock(FALSE, FALSE, FALSE, FALSE, bias_addr_r, FALSE)
  BY <1>1, <1>2 DEF BusCycle, ShimCycle, Engine, avs_waitrequest, write_fire, writes
<1>6. m2s.tag \in Host!Tag
  BY <1>1, PortRegisters DEF TypeOK, Host!TypeOK, Host!EngineTypeOK
<1>7. CASE slot_valid[m2s.tag]
  <2>1. slot_valid'[m2s.tag]
    BY <1>5, <1>6, <1>7 DEF Host!Clock, Host!Slots, Host!retired, Host!resp_consumed_this_cycle
  <2>2. QED
    BY <1>3, <1>4, <2>1 DEF bus_hung
<1>8. CASE Host!bi_active
  <2>1. Host!bi_active'
    BY <1>5, <1>8 DEF Host!Clock, Host!BiSequencer, Host!bi_active, Host!bi_flip_now,
       Host!want_bi, Host!bi_req_valid
  <2>2. QED
    BY <1>4, <2>1 DEF bus_hung
<1>9. CASE bias[m2s.addr]
  <2>1. bias' = bias
    BY <1>5 DEF Host!Clock, Host!BiasWrite, Host!bi_flip_now, Host!bias_clock
  <2>2. QED
    BY <1>3, <1>4, <1>9, <2>1 DEF bus_hung
<1>10. QED
  BY <1>1, <1>7, <1>8, <1>9 DEF bus_hung

\* Nothing but a reset ends a hang of the bus.
THEOREM HangNeverEnds == Spec => HangIsForever
<1>1. QED
  BY ShimTypeCorrect, HangStep, PTL DEF Spec, HangIsForever

-----------------------------------------------------------------------------
\* Software that keeps the contract

\* While a request is pending, the bus does not write the registers it shows.
QuietWhilePending ==
    pending_valid_r => avs.reg \notin {"REQ_ADDR", "REQ_WDATA", "CACHE_BYPASS"}

\* The next bus write of such software leaves the registers of a pending request
\* alone, and a stalled write is a REQ_FIRE.
LEMMA StepQuiet ==
    ASSUME HoldsRequest
    PROVE  [Next]_vars /\ QuietWhilePending => QuietWhilePending'
<1>1. ASSUME BusCycle PROVE QuietWhilePending'
  <2>1. CASE avs_waitrequest
    BY <1>1, <2>1 DEF BusCycle, BusMaster, avs_waitrequest, write_fire, writes,
       QuietWhilePending
  <2>2. CASE ~avs_waitrequest
    BY <1>1, <2>2 DEF BusCycle, BusMaster, MayWrite, KeepsContract, QuietWhilePending
  <2>3. QED
    BY <2>1, <2>2
<1>2. ASSUME Reset PROVE QuietWhilePending'
  BY <1>2 DEF Reset, QuietWhilePending
<1>3. ASSUME QuietWhilePending, UNCHANGED vars PROVE QuietWhilePending'
  BY <1>3 DEF vars, shimVars, QuietWhilePending
<1>4. QED
  BY <1>1, <1>2, <1>3 DEF Next

\* A request that stays pending keeps its registers.
LEMMA PendingStays ==
    ASSUME TypeOK, QuietWhilePending, ShimCycle, pending_valid_r, ~Host!m2s_ready
    PROVE  m2s' = m2s /\ cache_bypass_en_r' = cache_bypass_en_r /\ ~latches_fire
<1>1. /\ req_addr_r' = req_addr_r /\ req_wdata_r' = req_wdata_r
      /\ cache_bypass_en_r' = cache_bypass_en_r
  BY DEF ShimCycle, LatchedRegisters, QuietWhilePending, writes
<1>2. ~latches_fire
  BY DEF latches_fire
<1>3. pending_valid_r = TRUE
  BY PortRegisters DEF TypeOK, Host!TypeOK, Host!EngineTypeOK
<1>4. /\ pending_valid_r' = pending_valid_r /\ pending_is_write_r' = pending_is_write_r
      /\ pending_tag_r' = pending_tag_r
  BY <1>2, <1>3 DEF ShimCycle, PendingRequest
<1>5. QED
  BY <1>1, <1>2, <1>4 DEF m2s

\* The registers show the fired request as long as it is pending.
LEMMA CyclePending ==
    ASSUME TypeOK, QuietWhilePending, PendingIsAsFired, ShimCycle, pending_valid_r'
    PROVE  m2s' = fired'
<1>1. CASE latches_fire
  <2>1. req_addr_r' = req_addr_r /\ req_wdata_r' = req_wdata_r
    BY <1>1 DEF ShimCycle, LatchedRegisters, latches_fire, write_fire, writes
  <2>2. /\ pending_valid_r' = TRUE /\ pending_is_write_r' = avs.is_write
        /\ pending_tag_r' = avs.tag
    BY <1>1 DEF ShimCycle, PendingRequest
  <2>3. QED
    BY <1>1, <2>1, <2>2 DEF ShimCycle, Fired, m2s
<1>2. CASE ~latches_fire
  <2>1. pending_valid_r /\ ~Host!m2s_ready
    BY <1>2 DEF ShimCycle, PendingRequest
  <2>2. m2s' = m2s
    BY <2>1, PendingStays
  <2>3. QED
    BY <1>2, <2>1, <2>2 DEF ShimCycle, Fired, PendingIsAsFired
<1>3. QED
  BY <1>1, <1>2

\* A step under software that holds its request keeps the request as it was fired.
LEMMA StepPending ==
    TypeOK /\ QuietWhilePending /\ PendingIsAsFired /\ [Next]_vars => PendingIsAsFired'
<1>1. ASSUME Reset PROVE PendingIsAsFired'
  BY <1>1 DEF Reset, PendingIsAsFired
<1>2. ASSUME PendingIsAsFired, UNCHANGED vars PROVE PendingIsAsFired'
  BY <1>2 DEF vars, shimVars, PendingIsAsFired, m2s
<1>3. QED
  BY <1>1, <1>2, CyclePending DEF Next, BusCycle, PendingIsAsFired

\* Under software that leaves the request registers alone while a request is
\* pending, the engine sees the request that was fired, resets or none.
THEOREM FiredRequestIsSeen ==
    ASSUME HoldsRequest PROVE Spec => []PendingIsAsFired
<1>1. Init => QuietWhilePending /\ PendingIsAsFired
  BY DEF Init, QuietWhilePending, PendingIsAsFired
<1>2. [Next]_vars /\ QuietWhilePending => QuietWhilePending'
  BY StepQuiet
<1>3. QED
  BY <1>1, <1>2, StepPending, ShimTypeCorrect, PTL DEF Spec

-----------------------------------------------------------------------------
\* The shim implements EngineHost.

\* Software that keeps the whole contract: it holds the request, uses each
\* address with one bypass setting, and nobody pulls rstn.
KeepsWholeContract == HoldsRequest /\ ~MixesBypass /\ ~ResetsMidRun

\* A REQ_FIRE on the bus finds the bypass setting of its address, and a
\* BIAS_SET an address whose bias software may set.
BusFollowsContract ==
    /\ avs.reg = "REQ_FIRE" => cache_bypass_en_r = (req_addr_r \in Bypassed)
    /\ avs.reg = "BIAS_SET" => bias_addr_r \in BiasSettable
    /\ avs.reg = "CACHE_BYPASS" \/ cache_bypass_en_r => Bypassed # {}

\* What the refinement needs to know of a state.
ContractInv == TypeOK /\ QuietWhilePending /\ BusFollowsContract

\* And it keeps the bus within the contract.
LEMMA StepFollowsContract ==
    ASSUME KeepsWholeContract
    PROVE  ContractInv /\ [Next]_vars => BusFollowsContract'
<1>1. ASSUME ContractInv, BusCycle PROVE BusFollowsContract'
  <2>1. cache_bypass_en_r' => Bypassed # {}
    BY <1>1 DEF BusCycle, ShimCycle, LatchedRegisters, writes, ContractInv, BusFollowsContract
  <2>2. CASE avs_waitrequest
    <3>1. avs' = avs /\ avs.reg = "REQ_FIRE"
      BY <1>1, <2>2 DEF BusCycle, BusMaster, avs_waitrequest, write_fire, writes
    <3>2. cache_bypass_en_r' = cache_bypass_en_r /\ req_addr_r' = req_addr_r
      BY <1>1, <3>1 DEF BusCycle, ShimCycle, LatchedRegisters, writes
    <3>3. QED
      BY <1>1, <3>1, <3>2 DEF ContractInv, BusFollowsContract
  <2>3. CASE ~avs_waitrequest
    <3>1. PICK w \in BusWrites : avs' = w /\ MayWrite(w)
      BY <1>1, <2>3 DEF BusCycle, BusMaster
    <3>2. QED
      BY <2>1, <3>1 DEF MayWrite, KeepsContract, KeepsWholeContract, BusFollowsContract
  <2>4. QED
    BY <2>2, <2>3
<1>2. ~Reset
  BY DEF Reset, KeepsWholeContract
<1>3. ASSUME ContractInv, UNCHANGED vars PROVE BusFollowsContract'
  BY <1>3 DEF vars, shimVars, ContractInv, BusFollowsContract
<1>4. QED
  BY <1>1, <1>2, <1>3 DEF Next

\* Under software that keeps the whole contract its invariant holds.
LEMMA ContractHolds == ASSUME KeepsWholeContract PROVE Spec => []ContractInv
<1>1. Init => ContractInv
  BY InitTypes DEF Init, NoWrite, ContractInv, QuietWhilePending, BusFollowsContract
<1>2. ContractInv /\ [Next]_vars => ContractInv'
  BY StepTypes, StepQuiet, StepFollowsContract DEF ContractInv, KeepsWholeContract
<1>3. QED
  BY <1>1, <1>2, PTL DEF Spec

\* The request port moves as the host's does.
LEMMA CycleIsHostPort ==
    ASSUME ContractInv, BusCycle
    PROVE  Host!HostPort
<1>1. TypeOK /\ TypeOK'
  BY StepTypes DEF ContractInv, Next
<1>2. CASE m2s.valid /\ ~Host!m2s_ready
  BY <1>1, <1>2, PortRegisters, PendingStays DEF BusCycle, ContractInv, Host!HostPort,
     Host!StalledRequestStays
<1>3. CASE ~(m2s.valid /\ ~Host!m2s_ready)
  <2>1. m2s' \in Host!M2S /\ cache_bypass_en_r' \in BOOLEAN
    BY <1>1 DEF TypeOK, Host!TypeOK, Host!EngineTypeOK
  <2>2. m2s' \in [valid : BOOLEAN, is_write : BOOLEAN, addr : CacheTag \X Line,
                  tag : 0 .. NumTags - 1, wdata : Data]
    BY <2>1 DEF Host!M2S, Host!Addr, Host!Tag
  <2>3. cache_bypass_en_r' => Bypassed # {}
    BY DEF BusCycle, ShimCycle, LatchedRegisters, writes, ContractInv, BusFollowsContract
  <2>4. ASSUME m2s'.valid PROVE cache_bypass_en_r' = (m2s'.addr \in Bypassed)
    <3>1. latches_fire
      BY <1>3, <2>4 DEF BusCycle, ShimCycle, PendingRequest, m2s
    <3>2. cache_bypass_en_r' = cache_bypass_en_r /\ req_addr_r' = req_addr_r
      BY <3>1 DEF BusCycle, ShimCycle, LatchedRegisters, latches_fire, write_fire, writes
    <3>3. QED
      BY <3>1, <3>2 DEF ContractInv, BusFollowsContract, latches_fire, write_fire, writes, m2s
  <2>5. Host!FreePort
    BY <2>1, <2>2, <2>3, <2>4 DEF Host!FreePort
  <2>6. QED
    BY <1>3, <2>5 DEF Host!HostPort
<1>4. QED
  BY <1>2, <1>3

\* The engine's edge under the bus is its edge under the host's pulses.
LEMMA EngineUnderHost ==
    ASSUME ContractInv, BusCycle,
           NEW ready \in BOOLEAN, NEW ack \in BOOLEAN, NEW rsp \in BOOLEAN,
           NEW a \in Host!Addr, NEW b \in BOOLEAN,
           Host!s2m_valid => ready = writes("RESP_ACK"),
           Host!bi_req_valid => ack = writes("BI_REQ_ACK"),
           bi_state = "BI_WAIT_RSP" => rsp = writes("BI_RSP_SEND"),
           writes("BIAS_SET") => a = bias_addr_r /\ b = avs.bit0
    PROVE  Host!ClockPulses(ready, ack, rsp, writes("BIAS_SET"), a, b)
<1>1. /\ writes("RESP_ACK") \in BOOLEAN /\ writes("BI_REQ_ACK") \in BOOLEAN
      /\ writes("BI_RSP_SEND") \in BOOLEAN /\ writes("BIAS_SET") \in BOOLEAN
      /\ (writes("BIAS_SET") /\ avs.bit0) \in BOOLEAN
  BY DEF writes
<1>2. writes("BIAS_SET") => b = (writes("BIAS_SET") /\ avs.bit0)
  OBVIOUS
<1>3. Host!Clock(writes("RESP_ACK"), writes("BI_REQ_ACK"), writes("BI_RSP_SEND"),
                 writes("BIAS_SET"), bias_addr_r, writes("BIAS_SET") /\ avs.bit0)
  BY DEF BusCycle, ShimCycle, Engine
<1>4. Host!Clock(ready, ack, rsp, writes("BIAS_SET"), a, b)
  BY <1>1, <1>2, <1>3, Host!ClockIgnoresIdlePulses, EngineConstants
<1>5. QED
  BY <1>4, CycleIsHostPort DEF Host!ClockPulses

\* Every bus cycle is a cycle of the host.
LEMMA CycleIsHostCycle ==
    ASSUME KeepsWholeContract, ContractInv, BusCycle
    PROVE  Host!Next
<1>1. m2s.addr \in Host!Addr /\ bias_addr_r \in Host!Addr
  BY PortRegisters DEF ContractInv, TypeOK, Host!TypeOK, Host!EngineTypeOK
<1>2. Copies
  BY DEF BusCycle, ShimCycle
<1>3. CASE Host!bi_req_valid /\ writes("BI_REQ_ACK")
  <2>1. Host!ClockPulses(FALSE, TRUE, FALSE, writes("BIAS_SET"), m2s.addr, FALSE)
    BY <1>1, <1>3, EngineUnderHost DEF writes, Host!bi_req_valid
  <2>2. Host!AckBi(FALSE)
    BY <1>2, <1>3, <2>1 DEF writes, Copies, Host!AckBi
  <2>3. QED
    BY <2>2 DEF Host!Next, Host!Cycle
<1>4. CASE Host!bi_flip_now(writes("BI_RSP_SEND"))
  <2>1. bi_state = "BI_WAIT_RSP" /\ writes("BI_RSP_SEND")
    BY <1>4 DEF Host!bi_flip_now
  <2>2. Host!ClockPulses(FALSE, FALSE, TRUE, writes("BIAS_SET"), bias_addr_r, TRUE)
    BY <1>1, <2>1, EngineUnderHost DEF writes, Host!bi_req_valid
  <2>3. Host!SendBiRsp(FALSE, bias_addr_r)
    BY <1>2, <1>4, <2>1, <2>2 DEF writes, Copies, Host!bi_req_valid, Host!SendBiRsp
  <2>4. QED
    BY <1>1, <2>3 DEF Host!Next, Host!Cycle
<1>5. CASE writes("BIAS_SET")
  <2>1. avs.bit0 \in BOOLEAN /\ bias_addr_r \in BiasSettable
    BY <1>5, BusWriteFields DEF writes, ContractInv, TypeOK, BusFollowsContract
  <2>2. Host!ClockPulses(FALSE, FALSE, FALSE, writes("BIAS_SET"), bias_addr_r, avs.bit0)
    BY <1>1, <1>5, <2>1, EngineUnderHost DEF writes
  <2>3. Host!WriteBias(FALSE, bias_addr_r, avs.bit0)
    BY <1>2, <1>5, <2>2 DEF writes, Copies, Host!bi_flip_now, Host!WriteBias
  <2>4. QED
    BY <2>1, <2>3 DEF Host!Next, Host!Cycle
<1>6. CASE /\ ~(Host!bi_req_valid /\ writes("BI_REQ_ACK"))
           /\ ~Host!bi_flip_now(writes("BI_RSP_SEND"))
           /\ ~writes("BIAS_SET")
  <2> DEFINE ready == writes("RESP_ACK") /\ Host!s2m_valid
  <2>1. ready \in BOOLEAN /\ writes("BIAS_SET") = FALSE
    BY <1>6 DEF writes
  <2>2. Host!ClockPulses(ready, FALSE, FALSE, writes("BIAS_SET"), m2s.addr, FALSE)
    <3>1. Host!s2m_valid => ready = writes("RESP_ACK")
      BY DEF writes
    <3>2. Host!bi_req_valid => FALSE = writes("BI_REQ_ACK")
      BY <1>6 DEF writes
    <3>3. bi_state = "BI_WAIT_RSP" => FALSE = writes("BI_RSP_SEND")
      BY <1>6 DEF writes, Host!bi_flip_now
    <3>4. QED
      BY <1>1, <1>6, <2>1, <3>1, <3>2, <3>3, EngineUnderHost
  <2>3. UNCHANGED Host!hostVars
    BY <1>2, <1>6 DEF Copies, Host!hostVars
  <2>4. Host!Quiet(ready)
    BY <2>1, <2>2, <2>3 DEF Host!Quiet
  <2>5. QED
    BY <2>1, <2>4 DEF Host!Next, Host!Cycle
<1>7. QED
  BY <1>3, <1>4, <1>5, <1>6

\* Under software that keeps the contract the shim implements EngineHost.
THEOREM ShimImplementsHost ==
    ASSUME KeepsWholeContract PROVE Spec => ImplementsEngineHost
<1>1. Init => Host!Init
  <2>1. ASSUME Init PROVE m2s \in Host!M2S /\ m2s.valid = FALSE
    BY <2>1, InitTypes, PortRegisters DEF Init, TypeOK, Host!TypeOK, Host!EngineTypeOK
  <2>2. QED
    BY <2>1 DEF Init, Host!Init, Host!M2S, Host!Addr, Host!Tag
<1>2. ContractInv /\ [Next]_vars => [Host!Next]_Host!vars
  <2>1. ~Reset
    BY DEF Reset, KeepsWholeContract
  <2>2. UNCHANGED vars => UNCHANGED Host!vars
    BY DEF vars, shimVars, engineRegs, m2s, Host!vars, Host!engineVars, Host!cacheVars,
       Host!slotVars, Host!hostVars
  <2>3. QED
    BY <2>1, <2>2, CycleIsHostCycle DEF Next
<1>3. QED
  BY <1>1, <1>2, ContractHolds, PTL DEF Spec, ImplementsEngineHost, Host!Spec

-----------------------------------------------------------------------------
\* What holds of the engine under that host holds behind the shim.

\* The inductive invariant of EngineHost holds of the engine behind the shim.
LEMMA HostInvariant == ASSUME KeepsWholeContract PROVE Spec => []Host!IInv
<1>1. Host!Spec => []Host!IInv
  BY Host!InvariantHolds, EngineConstants
<1>2. QED
  BY <1>1, ShimImplementsHost, PTL DEF ImplementsEngineHost

\* The line that flips is the one whose Back-Invalidate software answered, so a
\* line software may hold a copy of is not served to the device.
THEOREM ShimHostCopiesAreSafe ==
    ASSUME KeepsWholeContract PROVE Spec => []HostCopyIsHostBiased
<1>1. Host!IInv => HostCopyIsHostBiased
  BY DEF Host!IInv, HostCopyIsHostBiased
<1>2. QED
  BY <1>1, HostInvariant, PTL

\* To such software the shim and the engine are a tagged memory.
THEOREM ShimImplementsMemory ==
    ASSUME KeepsWholeContract PROVE Spec => Host!ImplementsTaggedMemory
<1>1. Host!Spec => Host!ImplementsTaggedMemory
  BY EngineConstants, Host!EngineImplementsMemory
<1>2. QED
  BY <1>1, ShimImplementsHost DEF ImplementsEngineHost

\* The memory behind the shim looks like what was last written to it.
ViewIsWritten == Host!View = written

\* The word a read would return stays the word that was last written, whatever
\* the cycle does to cache and memory.
LEMMA StepWritten ==
    ASSUME KeepsWholeContract, Host!IInv, ContractInv, ViewIsWritten, BusCycle
    PROVE  /\ ViewIsWritten'
           /\ \A t \in Host!Tag : newly_filled(t) /\ ~slot_is_write'[t] =>
                 slot_rdata'[t] = written[req_addr_r]
<1>1. /\ Host!TypeOK /\ Host!CleanLineMatchesMemory /\ Host!FlushTargetsVictim
      /\ Host!PortMatchesBypass /\ Host!CachedIsNotBypassed
  BY DEF Host!IInv
<1>2. PICK ready \in BOOLEAN, ack \in BOOLEAN, rsp \in BOOLEAN, set \in BOOLEAN,
           b \in BOOLEAN, a \in Host!Addr : Host!ClockPulses(ready, ack, rsp, set, a, b)
  BY <1>1, CycleIsHostCycle, Host!NextIsClock, EngineConstants
<1>3. ViewIsWritten'
  <2>1. Host!View' = IF Host!accept_this_cycle /\ m2s.is_write
                     THEN [Host!View EXCEPT ![m2s.addr] = m2s.wdata]
                     ELSE Host!View
    BY <1>1, <1>2, Host!ViewStep, EngineConstants
  <2>2. written' = IF Host!accept_this_cycle /\ m2s.is_write
                   THEN [written EXCEPT ![m2s.addr] = m2s.wdata]
                   ELSE written
    BY DEF BusCycle, ShimCycle, Written, m2s
  <2>3. QED
    BY <2>1, <2>2 DEF ViewIsWritten
<1>4. ASSUME NEW t \in Host!Tag, newly_filled(t), ~slot_is_write'[t]
      PROVE  slot_rdata'[t] = written[req_addr_r]
  <2>1. Host!Slots(ready)
    BY <1>2 DEF Host!ClockPulses, Host!Clock
  <2>2. Host!accepted(t)
    BY <1>4, <2>1 DEF newly_filled, Host!Slots
  <2>3. slot_rdata'[t] = Host!read_data
    BY <1>4, <2>1, <2>2 DEF Host!Slots
  <2>4. Host!read_data = Host!View[m2s.addr]
    BY <1>1, <2>2, Host!ReadDataIsView, EngineConstants DEF Host!accepted
  <2>5. QED
    BY <2>3, <2>4, PortRegisters DEF ViewIsWritten
<1>5. QED
  BY <1>3, <1>4

\* Under software that keeps the contract every read is answered with the word
\* last written to its address, through evictions, fills and bypassed accesses.
THEOREM ReadsReturnLastWritten ==
    ASSUME KeepsWholeContract PROVE Spec => ReadReturnsLastWritten
<1>1. Init => ViewIsWritten
  <2>1. ASSUME Init PROVE \A a \in Host!Addr : ~Host!resident(a) /\ mem[a] = ZeroData
    BY <2>1 DEF Init, Host!EngineInit, Host!resident, Host!Addr
  <2>2. QED
    BY <2>1 DEF Init, ViewIsWritten, Host!View
<1>2. Host!IInv /\ ContractInv /\ ViewIsWritten /\ [Next]_vars =>
         ViewIsWritten' /\
         [\A t \in Host!Tag : newly_filled(t) /\ ~slot_is_write'[t] =>
             slot_rdata'[t] = written[req_addr_r]]_vars
  <2>1. ~Reset
    BY DEF Reset, KeepsWholeContract
  <2>2. ASSUME ViewIsWritten, UNCHANGED vars PROVE ViewIsWritten'
    BY <2>2 DEF vars, engineRegs, ViewIsWritten, Host!View, Host!resident
  <2>3. QED
    BY <2>1, <2>2, StepWritten DEF Next
<1>3. QED
  BY <1>1, <1>2, HostInvariant, ContractHolds, PTL DEF Spec, ReadReturnsLastWritten

=============================================================================
