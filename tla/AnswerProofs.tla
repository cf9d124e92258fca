----------------------------- MODULE AnswerProofs -----------------------------
(***************************************************************************)
(* Proofs about what the drivers read: a driver that has one request       *)
(* outstanding at a time, and expects of its answer what its own text says *)
(* (DriverDiscipline), is never disappointed.                              *)
(***************************************************************************)
EXTENDS DriverProofs

WF == INSTANCE WellFoundedInduction

-----------------------------------------------------------------------------
\* Program text

\* What an instruction does to the last store to a register.
LEMMA LastStep ==
    ASSUME NEW p, NEW n \in Nat \ {0}, NEW w
    PROVE  last_is(p, n + 1, w) <=>
              \/ p[n].op = "store" /\ p[n].w = w
              \/ last_is(p, n, w) /\ ~stores(p[n], w.reg)
<1>1. 1 .. (n + 1) - 1 = (1 .. n - 1) \cup {n}
  OBVIOUS
<1>2. \A j \in 1 .. n - 1 : j + 1 .. (n + 1) - 1 = (j + 1 .. n - 1) \cup {n}
  OBVIOUS
<1>3. n + 1 .. (n + 1) - 1 = {}
  OBVIOUS
<1>4. QED
  BY <1>1, <1>2, <1>3 DEF last_is

\* What an instruction does to the word the program has fired for an address.
LEMMA WordStep ==
    ASSUME NEW p, NEW n \in Nat \ {0}, NEW a, NEW d
    PROVE  leaves_word(p, n + 1, a, d) <=>
              \/ fires_write(p, n, a) /\ wdata_is(p, n, d)
              \/ leaves_word(p, n, a, d) /\ ~fires_write(p, n, a)
<1>1. 1 .. (n + 1) - 1 = (1 .. n - 1) \cup {n}
  OBVIOUS
<1>2. \A j \in 1 .. n - 1 : j + 1 .. (n + 1) - 1 = (j + 1 .. n - 1) \cup {n}
  OBVIOUS
<1>3. n + 1 .. (n + 1) - 1 = {}
  OBVIOUS
<1>4. QED
  BY <1>1, <1>2, <1>3 DEF leaves_word

\* A program has stored and fired nothing where it begins.
LEMMA NothingYet ==
    ASSUME NEW p
    PROVE  /\ \A w : ~last_is(p, 1, w)
           /\ \A a, d : ~leaves_word(p, 1, a, d)
BY DEF last_is, leaves_word

\* Of a set of instruction numbers there is a last one.
LEMMA LastOfThem ==
    ASSUME NEW n \in Nat, NEW T \in SUBSET (1 .. n), T # {}
    PROVE  \E j \in T : \A k \in T : k <= j
<1> DEFINE R == {ss \in Nat \X Nat : ss[1] < ss[2]}
<1> DEFINE U == {n - j : j \in T}
<1>1. WF!IsWellFoundedOn(R, Nat)
  BY WF!NatLessThanWellFounded DEF WF!OpToRel
<1>2. \A j \in T : n - j \in Nat
  OBVIOUS
<1>3. U \subseteq Nat /\ U # {}
  BY <1>2
<1>4. \E x \in U : \A y \in U : ~ (<<y, x>> \in R)
  <2> HIDE DEF R, U
  <2>1. QED
    BY <1>1, <1>3, WF!WFMin
<1>5. PICK j \in T : \A y \in U : ~ (<<y, n - j>> \in R)
  BY <1>4
<1>6. \A k \in T : ~ (n - k < n - j)
  BY <1>2, <1>5
<1>7. QED
  BY <1>6

\* Where a request is outstanding there is one that was fired last.
LEMMA LastFire ==
    ASSUME NEW q \in DOMAIN programs, NEW n \in 1 .. Len(programs[q]) + 1,
           outstanding(programs[q], n)
    PROVE  \E w \in BusWrites : w.reg = "REQ_FIRE" /\ last_is(programs[q], n, w)
<1> DEFINE p == programs[q]
<1> DEFINE T == {j \in 1 .. n - 1 : fires(p[j])}
<1>1. n \in Nat /\ n - 1 \in Nat /\ Len(p) \in Nat
  BY ProgramText
<1>2. T \in SUBSET (1 .. n - 1) /\ T # {}
  BY DEF outstanding
<1>3. PICK j \in T : \A k \in T : k <= j
  <2> HIDE DEF T
  <2>1. QED
    BY <1>1, <1>2, LastOfThem
<1>4. /\ j \in 1 .. n - 1 /\ j \in 1 .. Len(p)
      /\ p[j].op = "store" /\ p[j].w.reg = "REQ_FIRE"
  BY <1>1, <1>3 DEF fires
<1>5. p[j].w \in BusWrites
  BY <1>4, ProgramText
<1>6. \A k \in j + 1 .. n - 1 : ~stores(p[k], "REQ_FIRE")
  BY <1>1, <1>3, <1>4 DEF fires, stores
<1>7. QED
  BY <1>4, <1>5, <1>6 DEF last_is

\* What the store on the bus has been preceded by, as text.
LEMMA BusInText ==
    ASSUME ControlOK, BusShowsStore, avs # NoWrite
    PROVE  /\ executing /\ position = pc - 1 /\ position \in Nat \ {0}
           /\ position + 1 = pc
           /\ position \in 1 .. Len(program)
           /\ program[position].op = "store" /\ program[position].w = avs
<1>1. executing /\ Head(todo) \in DOMAIN programs
  BY DEF BusShowsStore, ControlOK, executing
<1>2. Len(program) \in Nat
  BY <1>1, ProgramText DEF program
<1>3. QED
  BY <1>1, <1>2 DEF BusShowsStore, position, ControlOK

\* After a move of the CPU the shim is at the beginning of a program, at the CPU's
\* instruction, or past it if it is no store.
LEMMA PositionMoves ==
    ASSUME ControlOK, OneAtATime, executing, IdleOrStore \/ Read \/ System
    PROVE  \/ position' = 1
           \/ program' = program /\ position' = pc
           \/ /\ program' = program /\ position' = pc + 1
              /\ program[pc].op # "store"
<1>1. /\ Sequential(program) /\ Len(program) \in Nat
      /\ pc \in 1 .. Len(program) + 1
  BY RunningText DEF OneAtATime
<1>2. CASE Issues
  BY <1>1, <1>2, GoesOnAt DEF Issues
<1>3. CASE Executes
  <2>1. pc + 1 \in 1 .. Len(program) + 1
    BY <1>1, <1>3 DEF Executes, at_end
  <2>2. QED
    BY <1>3, <2>1, GoesOnAt DEF Executes, instr
<1>4. ~JumpsBack
  <2>1. JumpsBack => pc \in 1 .. Len(program) /\ program[pc].op = "again"
    BY <1>1 DEF JumpsBack, does, at_end, instr
  <2>2. QED
    BY <1>1, <2>1, SequentialText
<1>5. CASE Returns \/ GivesUp
  BY <1>5, LeavesAt DEF Returns, GivesUp
<1>6. QED
  BY <1>2, <1>3, <1>4, <1>5, CpuStep

\* After a move of the CPU, a store that is the last to its register is the one
\* that was on the bus, or it was the last before that one.
LEMMA LastFollows ==
    ASSUME ControlOK, OneAtATime, executing, IdleOrStore \/ Read \/ System,
           NEW w, w.reg # "NONE", last_is(program', position', w)
    PROVE  avs = w \/ (last_is(program, position, w) /\ avs.reg # w.reg)
<1>1. pc \in Nat \ {0}
  BY DEF ControlOK
<1>2. last_is(program, pc, w)
  <2>1. CASE position' = 1
    BY <2>1, NothingYet
  <2>2. CASE program' = program /\ position' = pc
    BY <2>2
  <2>3. CASE program' = program /\ position' = pc + 1 /\ program[pc].op # "store"
    BY <1>1, <2>3, LastStep
  <2>4. QED
    BY <2>1, <2>2, <2>3, PositionMoves
<1>3. CASE avs = NoWrite
  BY <1>2, <1>3 DEF position, NoWrite
<1>4. CASE avs # NoWrite
  <2>1. /\ position \in Nat \ {0} /\ position + 1 = pc
        /\ program[position].op = "store" /\ program[position].w = avs
    BY <1>4, BusInText DEF OneAtATime
  <2>2. \/ program[position].op = "store" /\ program[position].w = w
        \/ last_is(program, position, w) /\ ~stores(program[position], w.reg)
    BY <1>2, <2>1, LastStep
  <2>3. QED
    BY <2>1, <2>2 DEF stores
<1>5. QED
  BY <1>3, <1>4

\* Likewise the word left for an address is the one being fired, or it was there
\* before and nothing is being fired there.
LEMMA WordFollows ==
    ASSUME ControlOK, OneAtATime, executing, IdleOrStore \/ Read \/ System,
           NEW a, NEW d, leaves_word(program', position', a, d)
    PROVE  \/ /\ write_fire /\ avs.is_write
              /\ addr_is(program, position, a) /\ wdata_is(program, position, d)
           \/ /\ leaves_word(program, position, a, d)
              /\ ~(write_fire /\ avs.is_write /\ addr_is(program, position, a))
<1>1. pc \in Nat \ {0}
  BY DEF ControlOK
<1>2. leaves_word(program, pc, a, d)
  <2>1. CASE position' = 1
    BY <2>1, NothingYet
  <2>2. CASE program' = program /\ position' = pc
    BY <2>2
  <2>3. CASE program' = program /\ position' = pc + 1 /\ program[pc].op # "store"
    BY <1>1, <2>3, WordStep DEF fires_write, fires
  <2>4. QED
    BY <2>1, <2>2, <2>3, PositionMoves
<1>3. CASE avs = NoWrite
  BY <1>2, <1>3 DEF position, NoWrite, write_fire, writes
<1>4. CASE avs # NoWrite
  <2>1. /\ position \in Nat \ {0} /\ position + 1 = pc
        /\ program[position].op = "store" /\ program[position].w = avs
    BY <1>4, BusInText DEF OneAtATime
  <2>2. \/ fires_write(program, position, a) /\ wdata_is(program, position, d)
        \/ leaves_word(program, position, a, d) /\ ~fires_write(program, position, a)
    BY <1>2, <2>1, WordStep
  <2>3. fires_write(program, position, a) <=>
           write_fire /\ avs.is_write /\ addr_is(program, position, a)
    BY <2>1 DEF fires_write, fires, write_fire, writes
  <2>4. QED
    BY <2>2, <2>3
<1>5. QED
  BY <1>3, <1>4

\* A step of a session is a cycle of the shim in which the CPU moves or has nothing
\* to run, a move of the CPU without the bus, or nothing to either.
LEMMA SessionCases ==
    ASSUME ControlOK, OneAtATime, [SessionNext]_sessionVars
    PROVE  \/ ShimCycle /\ executing /\ (IdleOrStore \/ Read \/ System)
           \/ ShimCycle /\ ~executing /\ todo' = todo
           \/ UNCHANGED vars /\ avs = NoWrite /\ executing /\ (IdleOrStore \/ Read \/ System)
           \/ UNCHANGED <<vars, localVars>>
<1>1. ASSUME ~stalled, ConfiguredCycle
      PROVE  \/ ShimCycle /\ executing /\ (IdleOrStore \/ Read \/ System)
             \/ ShimCycle /\ ~executing /\ todo' = todo
  <2>1. ~avs_waitrequest
    BY BusFollowsText DEF avs_waitrequest, write_fire, writes, request_registers, in_flight
  <2>2. QED
    BY <1>1, <2>1 DEF ConfiguredCycle, localVars
<1>2. System => executing
  BY DEF System, Again, Open, Arm, Disarm, Exit, TimeOut, does
<1>3. EmptyFabric => avs = NoWrite
  BY DEF EmptyFabric, OneAtATime, BusShowsStore
<1>4. QED
  BY <1>1, <1>2, <1>3 DEF SessionNext, EmptyFabric, Configure, WatchdogFires, sessionVars

-----------------------------------------------------------------------------
\* Hardware

\* The request in the hardware moves from the holding register to its slot, and
\* there the answer stays as it is.
LEMMA RequestMoves ==
    ASSUME TypeOK, EngineStaysSound, AtMostOne, ShimCycle, write_fire => ~in_flight
    PROVE  IF write_fire
           THEN /\ pending_tag_r' = avs.tag /\ pending_is_write_r' = avs.is_write
                /\ \A t \in Host!Tag : ~slot_valid'[t]
           ELSE /\ UNCHANGED <<pending_tag_r, pending_is_write_r>>
                /\ pending_valid_r' => pending_valid_r
                /\ \A t \in Host!Tag : slot_valid'[t] =>
                      \/ /\ ~slot_valid[t] /\ pending_valid_r /\ pending_tag_r = t
                         /\ slot_is_write'[t] = pending_is_write_r
                      \/ /\ slot_valid[t] /\ ~pending_valid_r
                         /\ slot_is_write'[t] = slot_is_write[t]
                         /\ slot_rdata'[t] = slot_rdata[t]
<1> DEFINE ack == writes("RESP_ACK")
<1>1. /\ pending_valid_r \in BOOLEAN /\ pending_tag_r \in Host!Tag
      /\ slot_valid \in [Host!Tag -> BOOLEAN]
  BY PortRegisters DEF TypeOK, Host!TypeOK, Host!EngineTypeOK
<1>2. Host!Slots(ack) /\ PendingRequest
  BY DEF ShimCycle, Engine, Host!Clock
<1>3. \A t \in Host!Tag : Host!accepted(t) <=>
          pending_valid_r /\ Host!m2s_ready /\ pending_tag_r = t
  BY DEF Host!accepted, Host!accept_this_cycle, m2s
<1>4. \A t \in Host!Tag :
          /\ slot_valid'[t] => Host!accepted(t) \/ slot_valid[t]
          /\ slot_is_write'[t] =
                IF Host!accepted(t) THEN pending_is_write_r ELSE slot_is_write[t]
          /\ ~Host!accepted(t) => slot_rdata'[t] = slot_rdata[t]
  BY <1>2 DEF Host!Slots, m2s
<1>5. CASE write_fire
  <2>1. ~pending_valid_r /\ \A t \in Host!Tag : ~slot_valid[t]
    BY <1>5 DEF in_flight
  <2>2. QED
    BY <1>2, <1>3, <1>4, <1>5, <2>1 DEF PendingRequest, latches_fire
<1>6. CASE ~write_fire
  <2>1. /\ UNCHANGED <<pending_tag_r, pending_is_write_r>>
        /\ pending_valid_r' => pending_valid_r
    BY <1>1, <1>2, <1>6 DEF PendingRequest, latches_fire
  <2>2. \A t \in Host!Tag : Host!accepted(t) => ~slot_valid[t]
    BY <1>3 DEF AtMostOne
  <2>3. \A t \in Host!Tag : slot_valid[t] => ~pending_valid_r
    BY <1>1 DEF AtMostOne
  <2>4. QED
    BY <1>3, <1>4, <1>6, <2>1, <2>2, <2>3
<1>7. QED
  BY <1>5, <1>6

\* Memory as it will be when the request pending has been performed.
settled ==
    IF pending_valid_r /\ pending_is_write_r
    THEN [written EXCEPT ![req_addr_r] = req_wdata_r] ELSE written

\* It changes when a write is fired, and with nothing else.
LEMMA SettledStep ==
    ASSUME TypeOK, ShimCycle, avs.reg \in request_registers => ~in_flight
    PROVE  settled' = IF write_fire /\ avs.is_write
                      THEN [settled EXCEPT ![req_addr_r] = req_wdata_r] ELSE settled
<1>1. PendingRequest /\ LatchedRegisters /\ Written
  BY DEF ShimCycle
<1>2. pending_valid_r \in BOOLEAN
  BY PortRegisters DEF TypeOK, Host!TypeOK, Host!EngineTypeOK
<1>3. Host!accept_this_cycle <=> pending_valid_r /\ Host!m2s_ready
  BY DEF Host!accept_this_cycle, m2s
<1>4. CASE write_fire
  <2>1. ~pending_valid_r /\ UNCHANGED <<req_addr_r, req_wdata_r>>
    BY <1>1, <1>4 DEF write_fire, writes, request_registers, in_flight, LatchedRegisters
  <2>2. /\ pending_valid_r' = TRUE /\ pending_is_write_r' = avs.is_write
        /\ written' = written
    BY <1>1, <1>3, <1>4, <2>1 DEF PendingRequest, latches_fire, Written
  <2>3. QED
    BY <1>4, <2>1, <2>2 DEF settled
<1>5. CASE ~write_fire /\ pending_valid_r
  <2>1. UNCHANGED <<req_addr_r, req_wdata_r>>
    BY <1>1, <1>5 DEF writes, request_registers, in_flight, LatchedRegisters
  <2>2. /\ pending_valid_r' = ~Host!m2s_ready
        /\ pending_is_write_r' = pending_is_write_r
    BY <1>1, <1>5 DEF PendingRequest, latches_fire
  <2>3. QED
    BY <1>1, <1>3, <1>5, <2>1, <2>2 DEF settled, Written
<1>6. CASE ~write_fire /\ ~pending_valid_r
  BY <1>1, <1>3, <1>6 DEF PendingRequest, latches_fire, Written, settled
<1>7. QED
  BY <1>4, <1>5, <1>6

-----------------------------------------------------------------------------
\* Hardware and text

\* The registers hold what the text has stored in them last, the request in the
\* hardware is the one it has fired last, a read in its slot has the word written
\* to its address, and memory holds what the text has left there.
RegistersFollowText ==
    executing =>
        /\ \A a \in Host!Addr : addr_is(program, position, a) => req_addr_r = a
        /\ \A d \in Data : wdata_is(program, position, d) => req_wdata_r = d
        /\ \A b \in BOOLEAN : bypass_is(program, position, b) => cache_bypass_en_r = b
is_request(w) ==
    /\ pending_valid_r => pending_tag_r = w.tag /\ pending_is_write_r = w.is_write
    /\ \A t \in Host!Tag : slot_valid[t] => t = w.tag /\ slot_is_write[t] = w.is_write
RequestIsLastFired ==
    executing => \A w \in BusWrites :
        w.reg = "REQ_FIRE" /\ last_is(program, position, w) => is_request(w)
SlotHoldsWritten ==
    \A t \in Host!Tag :
        slot_valid[t] /\ ~slot_is_write[t] => slot_rdata[t] = written[req_addr_r]
MemoryFollowsText ==
    executing => \A a \in Host!Addr : \A d \in Data :
        leaves_word(program, position, a, d) => settled[a] = d
UntouchedIsZero(S) == \A a \in untouched(S) : settled[a] = ZeroData

TextInv == OneAtATime /\ RegistersFollowText /\ RequestIsLastFired

\* What the data checks need to know of a state; S is the programs of the session.
DataInv(S) ==
    /\ todo \in Seq(S) /\ written \in [Host!Addr -> Data]
    /\ SlotHoldsWritten /\ MemoryFollowsText /\ UntouchedIsZero(S)

\* A cycle that does what its bus says and in which a slot is filled with the word
\* written to the address of its request.
FillsWithWritten ==
    \A t \in Host!Tag : newly_filled(t) /\ ~slot_is_write'[t] =>
        slot_rdata'[t] = written[req_addr_r]

\* A store that was on the bus is in its register when the CPU has moved on.
LEMMA RegistersStep ==
    ASSUME ControlOK, OneAtATime, executing, IdleOrStore \/ Read \/ System,
           LatchedRegisters, RegistersFollowText
    PROVE  RegistersFollowText'
<1>1. ASSUME NEW a \in Host!Addr, addr_is(program', position', a) PROVE req_addr_r' = a
  <2> DEFINE w == [reg |-> "REQ_ADDR", addr |-> a]
  <2>1. avs = w \/ (last_is(program, position, w) /\ avs.reg # w.reg)
    BY <1>1, LastFollows DEF addr_is
  <2>2. CASE avs = w
    BY <2>2 DEF LatchedRegisters, writes
  <2>3. CASE last_is(program, position, w) /\ avs.reg # w.reg
    <3>1. req_addr_r = a
      BY <2>3 DEF RegistersFollowText, addr_is
    <3>2. QED
      BY <2>3, <3>1 DEF LatchedRegisters, writes
  <2>4. QED
    BY <2>1, <2>2, <2>3
<1>2. ASSUME NEW d \in Data, wdata_is(program', position', d) PROVE req_wdata_r' = d
  <2> DEFINE w == [reg |-> "REQ_WDATA", wdata |-> d]
  <2>1. avs = w \/ (last_is(program, position, w) /\ avs.reg # w.reg)
    BY <1>2, LastFollows DEF wdata_is
  <2>2. CASE avs = w
    BY <2>2 DEF LatchedRegisters, writes
  <2>3. CASE last_is(program, position, w) /\ avs.reg # w.reg
    <3>1. req_wdata_r = d
      BY <2>3 DEF RegistersFollowText, wdata_is
    <3>2. QED
      BY <2>3, <3>1 DEF LatchedRegisters, writes
  <2>4. QED
    BY <2>1, <2>2, <2>3
<1>3. ASSUME NEW b \in BOOLEAN, bypass_is(program', position', b)
      PROVE  cache_bypass_en_r' = b
  <2> DEFINE w == [reg |-> "CACHE_BYPASS", bit0 |-> b]
  <2>1. avs = w \/ (last_is(program, position, w) /\ avs.reg # w.reg)
    BY <1>3, LastFollows DEF bypass_is
  <2>2. CASE avs = w
    BY <2>2 DEF LatchedRegisters, writes
  <2>3. CASE last_is(program, position, w) /\ avs.reg # w.reg
    <3>1. cache_bypass_en_r = b
      BY <2>3 DEF RegistersFollowText, bypass_is
    <3>2. QED
      BY <2>3, <3>1 DEF LatchedRegisters, writes
  <2>4. QED
    BY <2>1, <2>2, <2>3
<1>4. QED
  BY <1>1, <1>2, <1>3 DEF RegistersFollowText

\* The request that a REQ_FIRE brings in is the one the text has fired last, in the
\* holding register and in its slot.
LEMMA RequestStep ==
    ASSUME TypeOK, EngineStaysSound, ControlOK, OneAtATime, ShimCycle,
           executing, IdleOrStore \/ Read \/ System, RequestIsLastFired
    PROVE  RequestIsLastFired'
<1>1. write_fire => ~in_flight
  BY BusFollowsText DEF write_fire, writes, request_registers
<1>2. AtMostOne
  BY DEF OneAtATime
<1>3. ASSUME NEW w \in BusWrites, w.reg = "REQ_FIRE", last_is(program', position', w)
      PROVE  is_request(w)'
  <2>1. avs = w \/ (last_is(program, position, w) /\ avs.reg # "REQ_FIRE")
    BY <1>3, LastFollows
  <2>2. CASE avs = w
    <3>1. write_fire
      BY <1>3, <2>2 DEF write_fire, writes
    <3>2. QED
      BY <1>1, <1>2, <2>2, <3>1, RequestMoves DEF is_request
  <2>3. CASE last_is(program, position, w) /\ avs.reg # "REQ_FIRE"
    <3>1. is_request(w)
      BY <1>3, <2>3 DEF RequestIsLastFired
    <3>2. ~write_fire
      BY <2>3 DEF write_fire, writes
    <3>3. QED
      BY <1>1, <1>2, <3>1, <3>2, RequestMoves DEF is_request
  <2>4. QED
    BY <2>1, <2>2, <2>3
<1>4. QED
  BY <1>3 DEF RequestIsLastFired

\* So it is in every step of a session.
LEMMA TextStep ==
    ASSUME TypeOK, EngineStaysSound, ControlOK, TextInv, [SessionNext]_sessionVars
    PROVE  RegistersFollowText' /\ RequestIsLastFired'
<1>1. OneAtATime /\ RegistersFollowText /\ RequestIsLastFired
  BY DEF TextInv
<1>2. CASE ShimCycle /\ executing /\ (IdleOrStore \/ Read \/ System)
  BY <1>1, <1>2, RegistersStep, RequestStep DEF ShimCycle
<1>3. CASE ~executing /\ todo' = todo
  BY <1>3 DEF executing, RegistersFollowText, RequestIsLastFired
<1>4. CASE /\ UNCHANGED vars /\ avs = NoWrite
           /\ executing /\ (IdleOrStore \/ Read \/ System)
  <2>1. \A w : w.reg # "NONE" /\ last_is(program', position', w) =>
            last_is(program, position, w)
    BY <1>1, <1>4, LastFollows DEF NoWrite
  <2>2. \A w : is_request(w)' <=> is_request(w)
    BY <1>4 DEF vars, shimVars, engineRegs, is_request
  <2>3. UNCHANGED <<req_addr_r, req_wdata_r, cache_bypass_en_r>>
    BY <1>4 DEF vars, shimVars
  <2>4. RegistersFollowText'
    BY <1>1, <1>4, <2>1, <2>3 DEF RegistersFollowText, addr_is, wdata_is, bypass_is
  <2>5. RequestIsLastFired'
    BY <1>1, <1>4, <2>1, <2>2 DEF RequestIsLastFired
  <2>6. QED
    BY <2>4, <2>5
<1>5. CASE UNCHANGED <<vars, localVars>>
  <2>1. UNCHANGED <<program, position, executing>>
    BY <1>5 DEF vars, shimVars, localVars, program, position, executing
  <2>2. QED
    BY <1>1, <1>5, <2>1 DEF vars, shimVars, engineRegs, RegistersFollowText,
       RequestIsLastFired, is_request
<1>6. QED
  BY <1>1, <1>2, <1>3, <1>4, <1>5, SessionCases

\* Registers and request follow the text in every session of sequential programs.
LEMMA TextHolds ==
    ASSUME Sessions \subseteq Seq(SequentialPrograms), ~MayTimeOut
    PROVE  SessionSpec => []TextInv
<1>1. SessionInit => RegistersFollowText /\ RequestIsLastFired
  <2> SUFFICES ASSUME SessionInit PROVE RegistersFollowText /\ RequestIsLastFired
    OBVIOUS
  <2>1. position = 1
    BY DEF SessionInit, Init, position
  <2>2. QED
    BY <2>1, NothingYet DEF RegistersFollowText, RequestIsLastFired, addr_is, wdata_is, bypass_is
<1>2. TypeOK /\ EngineStaysSound /\ ControlOK /\ TextInv /\ [SessionNext]_sessionVars
      => RegistersFollowText' /\ RequestIsLastFired'
  BY TextStep
<1>3. TextInv <=> OneAtATime /\ RegistersFollowText /\ RequestIsLastFired
  BY DEF TextInv
<1>4. QED
  BY <1>1, <1>2, <1>3, OneAtATimeHolds, ControlHolds, SessionTypes, SessionKeepsEngineSound,
     PTL DEF SessionSpec

-----------------------------------------------------------------------------
\* What programs read

\* A slot that holds a read is filled with the word written to the address, which
\* stays the same while the request is in the hardware.
LEMMA SlotStep ==
    ASSUME TypeOK, EngineStaysSound, ControlOK, OneAtATime, ShimCycle,
           FillsWithWritten, SlotHoldsWritten
    PROVE  SlotHoldsWritten'
<1>1. avs.reg \in request_registers => ~in_flight
  BY BusFollowsText
<1>2. write_fire => ~in_flight
  BY <1>1 DEF write_fire, writes, request_registers
<1>3. AtMostOne
  BY DEF OneAtATime
<1>4. ASSUME NEW t \in Host!Tag, slot_valid'[t], ~slot_is_write'[t]
      PROVE  slot_rdata'[t] = written'[req_addr_r']
  <2>1. ~write_fire
    BY <1>2, <1>3, <1>4, RequestMoves
  <2>2. in_flight
    BY <1>2, <1>3, <1>4, <2>1, RequestMoves DEF in_flight
  <2>3. req_addr_r' = req_addr_r
    BY <1>1, <2>2 DEF ShimCycle, LatchedRegisters, writes, request_registers
  <2>4. CASE ~slot_valid[t] /\ pending_valid_r /\ slot_is_write'[t] = pending_is_write_r
    <3>1. written' = written
      BY <1>4, <2>4 DEF ShimCycle, Written
    <3>2. QED
      BY <1>4, <2>3, <2>4, <3>1 DEF FillsWithWritten, newly_filled
  <2>5. CASE /\ slot_valid[t] /\ ~pending_valid_r
             /\ slot_is_write'[t] = slot_is_write[t] /\ slot_rdata'[t] = slot_rdata[t]
    <3>1. written' = written
      BY <2>5 DEF ShimCycle, Written, Host!accept_this_cycle, m2s
    <3>2. QED
      BY <1>4, <2>3, <2>5, <3>1 DEF SlotHoldsWritten
  <2>6. QED
    BY <1>2, <1>3, <1>4, <2>1, <2>4, <2>5, RequestMoves
<1>5. QED
  BY <1>4 DEF SlotHoldsWritten

\* The store on the bus, if it fires a write, is one of the text's: of the word
\* and to the address that the text has stored last.
LEMMA BusWritesInText ==
    ASSUME NEW S \in SUBSET DOMAIN programs, ChecksData(S), ControlOK, OneAtATime,
           todo \in Seq(S), RegistersFollowText, write_fire, avs.is_write
    PROVE  /\ executing /\ addr_is(program, position, req_addr_r)
           /\ \A a \in Host!Addr : addr_is(program, position, a) => a = req_addr_r
           /\ req_addr_r \notin untouched(S)
<1>1. avs # NoWrite
  BY DEF NoWrite, write_fire, writes
<1>2. /\ executing /\ position \in 1 .. Len(program)
      /\ program[position].op = "store" /\ program[position].w = avs
  BY <1>1, BusInText DEF OneAtATime
<1>3. Head(todo) \in S /\ program = programs[Head(todo)]
  BY <1>2 DEF executing, program
<1>4. ChecksItsAnswers(program, S)
  BY <1>3 DEF ChecksData
<1>5. fires(program[position])
  BY <1>2 DEF fires, write_fire, writes
<1>6. PICK a \in Host!Addr : addr_is(program, position, a)
  BY <1>2, <1>4, <1>5 DEF ChecksItsAnswers
<1>7. a = req_addr_r /\ \A b \in Host!Addr : addr_is(program, position, b) => b = req_addr_r
  BY <1>2, <1>6 DEF RegistersFollowText
<1>8. fires_write(program, position, a)
  BY <1>2, <1>5, <1>6 DEF fires_write
<1>9. a \notin untouched(S)
  BY <1>2, <1>3, <1>8 DEF untouched
<1>10. QED
  BY <1>2, <1>6, <1>7, <1>9

\* Memory with the request pending performed is a memory.
LEMMA SettledType ==
    ASSUME TypeOK, written \in [Host!Addr -> Data]
    PROVE  settled \in [Host!Addr -> Data]
<1>1. req_addr_r \in Host!Addr /\ req_wdata_r \in Data
  BY PortRegisters DEF TypeOK, Host!TypeOK, Host!EngineTypeOK
<1>2. QED
  BY <1>1 DEF settled

\* So is what was last written.
LEMMA WrittenType ==
    ASSUME TypeOK, written \in [Host!Addr -> Data], Written
    PROVE  written' \in [Host!Addr -> Data]
<1>1. req_addr_r \in Host!Addr /\ req_wdata_r \in Data
  BY PortRegisters DEF TypeOK, Host!TypeOK, Host!EngineTypeOK
<1>2. QED
  BY <1>1 DEF Written

\* A write fired is the word that the text leaves at its address; no other store
\* changes a word.
LEMMA MemoryStep ==
    ASSUME NEW S \in SUBSET DOMAIN programs, ChecksData(S), TypeOK, ControlOK, TextInv,
           DataInv(S), ShimCycle, executing, IdleOrStore \/ Read \/ System
    PROVE  MemoryFollowsText'
<1>1. settled' = IF write_fire /\ avs.is_write
                 THEN [settled EXCEPT ![req_addr_r] = req_wdata_r] ELSE settled
  BY BusFollowsText, SettledStep DEF TextInv
<1>2. settled \in [Host!Addr -> Data]
  BY SettledType DEF DataInv
<1>3. ASSUME NEW a \in Host!Addr, NEW d \in Data, leaves_word(program', position', a, d)
      PROVE  settled'[a] = d
  <2>1. CASE /\ write_fire /\ avs.is_write
             /\ addr_is(program, position, a) /\ wdata_is(program, position, d)
    <3>1. req_addr_r = a /\ req_wdata_r = d
      BY <2>1 DEF TextInv, RegistersFollowText
    <3>2. QED
      BY <1>1, <1>2, <2>1, <3>1
  <2>2. CASE /\ leaves_word(program, position, a, d)
             /\ ~(write_fire /\ avs.is_write /\ addr_is(program, position, a))
    <3>1. settled[a] = d
      BY <2>2 DEF DataInv, MemoryFollowsText
    <3>2. write_fire /\ avs.is_write => req_addr_r # a
      BY <2>2, BusWritesInText DEF TextInv, DataInv
    <3>3. QED
      BY <1>1, <1>2, <3>1, <3>2
  <2>3. QED
    BY <1>3, <2>1, <2>2, WordFollows DEF TextInv
<1>4. QED
  BY <1>3 DEF MemoryFollowsText

\* And where no program of the session writes, the word stays zero.
LEMMA UntouchedStep ==
    ASSUME NEW S \in SUBSET DOMAIN programs, ChecksData(S), TypeOK, ControlOK, TextInv,
           DataInv(S), ShimCycle
    PROVE  UntouchedIsZero(S)'
<1>1. settled' = IF write_fire /\ avs.is_write
                 THEN [settled EXCEPT ![req_addr_r] = req_wdata_r] ELSE settled
  BY BusFollowsText, SettledStep DEF TextInv
<1>2. settled \in [Host!Addr -> Data]
  BY SettledType DEF DataInv
<1>3. ASSUME NEW a \in untouched(S) PROVE settled'[a] = ZeroData
  <2>1. settled[a] = ZeroData /\ a \in Host!Addr
    BY DEF DataInv, UntouchedIsZero, untouched
  <2>2. write_fire /\ avs.is_write => req_addr_r # a
    BY BusWritesInText DEF TextInv, DataInv
  <2>3. QED
    BY <1>1, <1>2, <2>1, <2>2
<1>4. QED
  BY <1>3 DEF UntouchedIsZero

\* A step of the session keeps it all.
LEMMA DataStep ==
    ASSUME NEW S \in SUBSET DOMAIN programs, ChecksData(S), TypeOK, EngineStaysSound,
           ControlOK, TextInv, DataInv(S),
           [SessionNext]_sessionVars, [FillsWithWritten]_vars
    PROVE  DataInv(S)'
<1>1. todo' \in Seq(S)
  BY StepTodo DEF DataInv
<1>2. OneAtATime
  BY DEF TextInv
<1>3. ASSUME ShimCycle
      PROVE  /\ SlotHoldsWritten' /\ UntouchedIsZero(S)'
             /\ written' \in [Host!Addr -> Data]
  <2>1. FillsWithWritten
    BY DEF FillsWithWritten, newly_filled, vars, engineRegs
  <2>2. QED
    BY <1>2, <1>3, <2>1, SlotStep, UntouchedStep, WrittenType DEF DataInv, ShimCycle
<1>4. CASE ShimCycle /\ executing /\ (IdleOrStore \/ Read \/ System)
  BY <1>1, <1>3, <1>4, MemoryStep DEF DataInv
<1>5. CASE ShimCycle /\ ~executing /\ todo' = todo
  BY <1>1, <1>3, <1>5 DEF executing, DataInv, MemoryFollowsText
<1>6. CASE UNCHANGED vars /\ avs = NoWrite /\ executing /\ (IdleOrStore \/ Read \/ System)
  <2>1. \A a, d : leaves_word(program', position', a, d) => leaves_word(program, position, a, d)
    BY <1>2, <1>6, WordFollows DEF NoWrite, write_fire, writes
  <2>2. settled' = settled /\ written' = written
    BY <1>6 DEF vars, shimVars, settled
  <2>3. MemoryFollowsText' /\ UntouchedIsZero(S)'
    BY <1>6, <2>1, <2>2 DEF DataInv, MemoryFollowsText, UntouchedIsZero
  <2>4. SlotHoldsWritten'
    BY <1>6 DEF DataInv, vars, shimVars, engineRegs, SlotHoldsWritten
  <2>5. QED
    BY <1>1, <2>2, <2>3, <2>4 DEF DataInv
<1>7. CASE UNCHANGED <<vars, localVars>>
  <2>1. UNCHANGED <<program, position, executing, settled>>
    BY <1>7 DEF vars, shimVars, localVars, program, position, executing, settled
  <2>2. QED
    BY <1>1, <1>7, <2>1 DEF DataInv, vars, shimVars, engineRegs, SlotHoldsWritten,
       MemoryFollowsText, UntouchedIsZero
<1>8. QED
  BY <1>2, <1>4, <1>5, <1>6, <1>7, SessionCases

\* A word that a program leaves is a word of the bus.
LEMMA WordIsData ==
    ASSUME NEW q \in DOMAIN programs, NEW n \in 1 .. Len(programs[q]), NEW a, NEW d,
           leaves_word(programs[q], n, a, d)
    PROVE  d \in Data
<1> DEFINE p == programs[q]
<1> DEFINE w == [reg |-> "REQ_WDATA", wdata |-> d]
<1>1. PICK f \in 1 .. n - 1 : wdata_is(p, f, d)
  BY DEF leaves_word
<1>2. PICK j \in 1 .. f - 1 : p[j].op = "store" /\ p[j].w = w
  BY <1>1 DEF wdata_is, last_is
<1>3. Len(p) \in Nat /\ j \in 1 .. Len(p)
  BY ProgramText
<1>4. w \in BusWrites
  BY <1>2, <1>3, ProgramText
<1>5. w.reg = "REQ_WDATA" /\ w.wdata = d
  OBVIOUS
<1>6. QED
  BY <1>4, <1>5, BusWriteFields

\* Where a program checks an answer, the answer is what its text says.
LEMMA AnswersFollowText ==
    ASSUME NEW S \in SUBSET DOMAIN programs, ChecksData(S), TypeOK, EngineStaysSound,
           ControlOK, TextInv, DataInv(S)
    PROVE  AnswersAsExpected
<1> SUFFICES ASSUME executing, ~at_end, checks_answer(instr), avs = NoWrite
             PROVE  resp_active /\ readdata[instr.reg] = instr.value
  BY DEF AnswersAsExpected, readdata
<1>1. /\ Head(todo) \in S /\ program = programs[Head(todo)]
      /\ Head(todo) \in DOMAIN programs
  BY DEF DataInv, executing, program
<1>2. position = pc /\ pc \in 1 .. Len(program)
  BY <1>1, ProgramText DEF position, ControlOK, at_end
<1>3. ExpectsItsAnswer(program, pc, S)
  BY <1>1, <1>2 DEF ChecksData, ChecksItsAnswers, instr
<1>4. PICK w \in BusWrites :
          /\ w.reg = "REQ_FIRE" /\ last_is(program, pc, w)
          /\ instr.reg = "RESP_TAG" => instr.value = w.tag
          /\ instr.reg = "IS_DATA" => instr.value = ~w.is_write
          /\ instr.reg = "RESP_RDATA" =>
                /\ ~w.is_write
                /\ \E a \in Host!Addr :
                      /\ addr_is(program, pc, a)
                      /\ \/ leaves_word(program, pc, a, instr.value)
                         \/ a \in untouched(S) /\ instr.value = ZeroData
  BY <1>3 DEF ExpectsItsAnswer, instr
<1>5. resp_active
  BY <1>2, <1>3 DEF ExpectsItsAnswer, TextInv, OneAtATime, HardwareFollowsText
<1>6. resp_tag_r \in Host!Tag /\ slot_valid[resp_tag_r]
  BY <1>5 DEF TypeOK, Host!TypeOK, Host!EngineTypeOK, EngineStaysSound, Host!ResponseIsOwed,
     Host!slot_done
<1>7. ~pending_valid_r
  BY <1>6 DEF TextInv, OneAtATime, AtMostOne
<1>8. resp_tag_r = w.tag /\ slot_is_write[resp_tag_r] = w.is_write
  BY <1>2, <1>4, <1>6 DEF TextInv, RequestIsLastFired, is_request
<1>9. CASE instr.reg = "RESP_TAG"
  BY <1>4, <1>5, <1>8, <1>9 DEF readdata, Host!s2m_tag
<1>10. CASE instr.reg = "IS_DATA"
  BY <1>4, <1>5, <1>8, <1>10 DEF readdata, Host!s2m_is_data
<1>11. CASE instr.reg = "RESP_RDATA"
  <2>1. PICK a \in Host!Addr :
            /\ addr_is(program, pc, a)
            /\ \/ leaves_word(program, pc, a, instr.value)
               \/ a \in untouched(S) /\ instr.value = ZeroData
    BY <1>4, <1>11
  <2>2. req_addr_r = a
    BY <1>2, <2>1 DEF TextInv, RegistersFollowText
  <2>3. settled[a] = instr.value
    <3>1. CASE leaves_word(program, pc, a, instr.value)
      <4>1. instr.value \in Data
        BY <1>1, <1>2, <3>1, WordIsData
      <4>2. QED
        BY <1>2, <3>1, <4>1 DEF DataInv, MemoryFollowsText
    <3>2. CASE a \in untouched(S) /\ instr.value = ZeroData
      BY <3>2 DEF DataInv, UntouchedIsZero
    <3>3. QED
      BY <2>1, <3>1, <3>2
  <2>4. slot_rdata[resp_tag_r] = written[req_addr_r]
    BY <1>4, <1>6, <1>8, <1>11 DEF DataInv, SlotHoldsWritten
  <2>5. settled = written
    BY <1>7 DEF settled
  <2>6. readdata[instr.reg] = slot_rdata[resp_tag_r]
    BY <1>11 DEF readdata, Host!s2m_rdata
  <2>7. QED
    BY <1>5, <2>2, <2>3, <2>4, <2>5, <2>6
<1>12. QED
  BY <1>9, <1>10, <1>11 DEF checks_answer, answer_registers

\* What the theorems below assume: the session runs programs of S one after the
\* other, none gives up, the programs expect what their text says; and the
\* constants of the shim's software, which a session does not mention, are those
\* of such programs.
RunsDataChecks(S) ==
    /\ S \subseteq DOMAIN programs /\ Sessions \subseteq Seq(S) /\ ChecksData(S)
    /\ ~MayTimeOut
    /\ KeepsWholeContract /\ BiasSettable = Host!Addr /\ Bypassed = {}

\* In a session of programs that check what their text says, the data follows it.
LEMMA DataInvHolds ==
    ASSUME NEW S, RunsDataChecks(S)
    PROVE  SessionSpec => [](TextInv /\ DataInv(S))
<1>1. /\ Sessions \subseteq Seq(SequentialPrograms) /\ Sessions \subseteq Seq(CachedPrograms)
  <2>1. S \subseteq SequentialPrograms /\ S \subseteq CachedPrograms
    BY DEF RunsDataChecks, ChecksData, SequentialPrograms, CachedPrograms
  <2>2. Seq(S) \subseteq Seq(SequentialPrograms) /\ Seq(S) \subseteq Seq(CachedPrograms)
    BY <2>1
  <2>3. QED
    BY <2>2 DEF RunsDataChecks
<1>2. ConstantsFitSessions
  BY <1>1 DEF ConstantsFitSessions, RunsDataChecks
<1>3. SessionInit => DataInv(S)
  <2> SUFFICES ASSUME SessionInit PROVE DataInv(S)
    OBVIOUS
  <2>1. /\ todo \in Seq(S) /\ pc = 1 /\ avs = NoWrite /\ ~pending_valid_r
        /\ \A t \in Host!Tag : ~slot_valid[t]
        /\ written = [a \in Host!Addr |-> ZeroData]
    BY DEF SessionInit, Init, Host!EngineInit, RunsDataChecks
  <2>2. position = 1
    BY <2>1 DEF position
  <2>3. MemoryFollowsText
    BY <2>2, NothingYet DEF MemoryFollowsText
  <2>4. written \in [Host!Addr -> Data]
    BY <2>1, ConstantsAssumption
  <2>5. SlotHoldsWritten /\ UntouchedIsZero(S)
    BY <2>1 DEF SlotHoldsWritten, UntouchedIsZero, untouched, settled
  <2>6. QED
    BY <2>1, <2>3, <2>4, <2>5 DEF DataInv
<1>4. SessionSpec => []TextInv
  BY <1>1, TextHolds DEF RunsDataChecks
<1>5. SessionSpec => ReadReturnsLastWritten
  BY <1>2, DriversReadLastWritten DEF RunsDataChecks
<1>6. SessionSpec => [][FillsWithWritten]_vars
  BY <1>5 DEF ReadReturnsLastWritten, FillsWithWritten
<1>7. /\ ControlOK /\ TypeOK /\ EngineStaysSound /\ TextInv /\ DataInv(S)
      /\ [SessionNext]_sessionVars /\ [FillsWithWritten]_vars
      => DataInv(S)'
  BY DataStep DEF RunsDataChecks
<1>8. QED
  BY <1>3, <1>4, <1>6, <1>7, ControlHolds, SessionTypes, SessionKeepsEngineSound, PTL
  DEF SessionSpec

\* Every answer a driver checks is on offer and is the one it expects: its own
\* request's tag and kind, and of a read the word the driver wrote there last,
\* whatever was evicted and refilled in between and however fast the CPU is.
THEOREM DriversAnswersAsExpected ==
    ASSUME NEW S, RunsDataChecks(S) PROVE SessionSpec => []AnswersAsExpected
<1>1. TypeOK /\ EngineStaysSound /\ ControlOK /\ TextInv /\ DataInv(S) => AnswersAsExpected
  BY AnswersFollowText DEF RunsDataChecks
<1>2. QED
  BY <1>1, DataInvHolds, ControlHolds, SessionTypes, SessionKeepsEngineSound, PTL

\* A driver that checks only such answers never counts an error.
THEOREM DriversFindNoErrors ==
    ASSUME NEW S, RunsDataChecks(S), ChecksOnlyData(S) PROVE SessionSpec => []NoErrors
<1>1. SessionInit => NoErrors
  BY DEF SessionInit, NoErrors
<1>2. ControlOK /\ AnswersAsExpected /\ todo \in Seq(S) /\ NoErrors /\ [SessionNext]_sessionVars
      => NoErrors'
  <2> SUFFICES ASSUME ControlOK, AnswersAsExpected, todo \in Seq(S), ~errors,
                      [SessionNext]_sessionVars
               PROVE  ~errors'
    BY DEF NoErrors
  <2>1. ASSUME executing, ~at_end
        PROVE  /\ instr.op \notin {"delta", "take"}
               /\ instr.op = "expect" => checks_answer(instr)
    <3>1. Head(todo) \in S /\ Head(todo) \in DOMAIN programs
      BY <2>1 DEF executing, RunsDataChecks
    <3>2. pc \in 1 .. Len(programs[Head(todo)])
      BY <2>1, <3>1, ProgramText DEF at_end, program, ControlOK
    <3>3. QED
      BY <3>1, <3>2 DEF ChecksOnlyData, instr, program
  <2>2. CASE executing /\ (IdleOrStore \/ Read \/ System)
    <3>1. CASE IdleOrStore
      BY <3>1 DEF IdleOrStore
    <3>2. CASE Read
      <4>1. CASE Poll \/ Look \/ Save
        BY <4>1 DEF Poll, Look, Save
      <4>2. CASE Expect
        <5>1. executing /\ ~at_end /\ instr.op = "expect" /\ avs = NoWrite
          BY <3>2, <4>2 DEF Expect, does, Read
        <5>2. readdata[instr.reg] = instr.value
          BY <2>1, <5>1 DEF AnswersAsExpected, checks_answer, answer_registers, readdata
        <5>3. QED
          BY <4>2, <5>2 DEF Expect
      <4>3. ~Delta /\ ~TakeTag
        BY <2>1 DEF Delta, TakeTag, does
      <4>4. QED
        BY <3>2, <4>1, <4>2, <4>3 DEF Read
    <3>3. CASE System
      BY <3>3 DEF System, Again, Open, Arm, Disarm, Exit, TimeOut, Leave
    <3>4. QED
      BY <2>2, <3>1, <3>2, <3>3
  <2>3. CASE UNCHANGED localVars
    BY <2>3 DEF localVars
  <2>4. QED
    BY <2>2, <2>3, SessionStep
<1>3. DataInv(S) => todo \in Seq(S)
  BY DEF DataInv
<1>4. QED
  BY <1>1, <1>2, <1>3, DriversAnswersAsExpected, DataInvHolds, ControlHolds, PTL DEF SessionSpec

-----------------------------------------------------------------------------
\* Phase 8

\* What an instruction does to the accesses of an address.
LEMMA KeepsStep ==
    ASSUME NEW p, NEW n \in Nat \ {0}, NEW a
    PROVE  keeps_cached(p, n + 1, a) <=>
              \/ caches(p, n, a)
              \/ keeps_cached(p, n, a) /\ (fires(p[n]) => addr_is(p, n, a))
<1>1. 1 .. (n + 1) - 1 = (1 .. n - 1) \cup {n}
  OBVIOUS
<1>2. \A j \in 1 .. n - 1 : j + 1 .. (n + 1) - 1 = (j + 1 .. n - 1) \cup {n}
  OBVIOUS
<1>3. n + 1 .. (n + 1) - 1 = {}
  OBVIOUS
<1>4. QED
  BY <1>1, <1>2, <1>3 DEF keeps_cached

\* What an instruction does to whether the request outstanding accesses again what
\* is cached.
LEMMA AgainStep ==
    ASSUME NEW p, NEW n \in Nat \ {0}
    PROVE  accesses_again(p, n + 1) <=>
              \/ \E a \in Host!Addr : caches(p, n, a) /\ keeps_cached(p, n, a)
              \/ accesses_again(p, n) /\ ~fires(p[n])
<1>1. 1 .. (n + 1) - 1 = (1 .. n - 1) \cup {n}
  OBVIOUS
<1>2. \A j \in 1 .. n - 1 : j + 1 .. (n + 1) - 1 = (j + 1 .. n - 1) \cup {n}
  OBVIOUS
<1>3. n + 1 .. (n + 1) - 1 = {}
  OBVIOUS
<1>4. QED
  BY <1>1, <1>2, <1>3 DEF accesses_again

\* A program has accessed nothing where it begins.
LEMMA NoAccessYet ==
    ASSUME NEW p
    PROVE  ~accesses_again(p, 1) /\ \A a : ~keeps_cached(p, 1, a)
BY DEF accesses_again, keeps_cached

\* What the text keeps cached after a move of the CPU, in terms of the store that
\* was on the bus.
LEMMA CachedFollows ==
    ASSUME ControlOK, OneAtATime, executing, IdleOrStore \/ Read \/ System
    PROVE  /\ \A a : keeps_cached(program', position', a) =>
                 \/ write_fire /\ addr_is(program, position, a) /\ bypass_is(program, position, FALSE)
                 \/ /\ keeps_cached(program, position, a)
                    /\ write_fire => addr_is(program, position, a)
           /\ accesses_again(program', position') =>
                 \/ /\ write_fire
                    /\ \E a \in Host!Addr :
                          /\ addr_is(program, position, a) /\ bypass_is(program, position, FALSE)
                          /\ keeps_cached(program, position, a)
                 \/ accesses_again(program, position) /\ ~write_fire
<1>1. pc \in Nat \ {0}
  BY DEF ControlOK
<1>2. /\ \A a : keeps_cached(program', position', a) => keeps_cached(program, pc, a)
      /\ accesses_again(program', position') => accesses_again(program, pc)
  <2>1. CASE position' = 1
    BY <2>1, NoAccessYet
  <2>2. CASE program' = program /\ position' = pc
    BY <2>2
  <2>3. CASE program' = program /\ position' = pc + 1 /\ program[pc].op # "store"
    <3>1. ~fires(program[pc]) /\ \A a : ~caches(program, pc, a)
      BY <2>3 DEF fires, caches
    <3>2. QED
      BY <1>1, <2>3, <3>1, KeepsStep, AgainStep
  <2>4. QED
    BY <2>1, <2>2, <2>3, PositionMoves
<1>3. CASE avs = NoWrite
  BY <1>2, <1>3 DEF position, NoWrite, write_fire, writes
<1>4. CASE avs # NoWrite
  <2>1. /\ position \in Nat \ {0} /\ position + 1 = pc
        /\ program[position].op = "store" /\ program[position].w = avs
    BY <1>4, BusInText DEF OneAtATime
  <2>2. fires(program[position]) <=> write_fire
    BY <2>1 DEF fires, write_fire, writes
  <2>3. \A a : keeps_cached(program, pc, a) <=>
            \/ caches(program, position, a)
            \/ /\ keeps_cached(program, position, a)
               /\ fires(program[position]) => addr_is(program, position, a)
    BY <2>1, KeepsStep
  <2>4. accesses_again(program, pc) <=>
            \/ \E a \in Host!Addr :
                  caches(program, position, a) /\ keeps_cached(program, position, a)
            \/ accesses_again(program, position) /\ ~fires(program[position])
    BY <2>1, AgainStep
  <2>5. QED
    BY <1>2, <2>2, <2>3, <2>4 DEF caches
<1>5. QED
  BY <1>3, <1>4

\* A line stays in the cache until a request with the cache on is accepted, and
\* then the line accessed is there.
LEMMA ResidentStep ==
    ASSUME TypeOK, ShimCycle
    PROVE  /\ ~Host!accept_this_cycle \/ cache_bypass_en_r =>
                 \A a \in Host!Addr : Host!resident(a)' <=> Host!resident(a)
           /\ Host!accept_this_cycle /\ ~cache_bypass_en_r =>
                 \A a \in {req_addr_r} : Host!resident(a)'
<1> DEFINE a0 == req_addr_r
<1>1. Host!CacheArrays
  BY DEF ShimCycle, Engine, Host!Clock
<1>2. /\ cache_valid \in [Line -> BOOLEAN] /\ cache_tag \in [Line -> CacheTag]
      /\ a0 \in CacheTag \X Line
      /\ Host!m2s_idx = a0[2] /\ Host!m2s_cache_tag_field = a0[1]
  BY PortRegisters DEF TypeOK, Host!TypeOK, Host!EngineTypeOK, Host!Addr, Host!m2s_idx,
     Host!m2s_cache_tag_field, m2s
<1>3. Host!accept_this_cycle => ~Host!do_flush_write_this_cycle
  BY DEF Host!accept_this_cycle, Host!m2s_ready, Host!do_flush_write_this_cycle
<1>4. CASE Host!cache_flush \/ Host!cache_hold
  <2>1. cache_valid' = cache_valid /\ cache_tag' = cache_tag
    BY <1>4 DEF Host!cache_flush, Host!cache_hold, Host!cacheVars
  <2>2. Host!accept_this_cycle /\ ~cache_bypass_en_r => cache_valid[a0[2]] /\ cache_tag[a0[2]] = a0[1]
    BY <1>2, <1>3, <1>4 DEF Host!cache_flush, Host!cache_hold, Host!cache_allocates,
       Host!cache_hit
  <2>3. QED
    BY <2>1, <2>2 DEF Host!resident
<1>5. CASE Host!cache_write \/ Host!cache_fill
  <2>1. Host!accept_this_cycle /\ ~cache_bypass_en_r
    BY <1>5 DEF Host!cache_write, Host!cache_fill, Host!cache_allocates
  <2>2. cache_valid'[a0[2]] /\ cache_tag'[a0[2]] = a0[1]
    BY <1>2, <1>5 DEF Host!cache_write, Host!cache_fill
  <2>3. QED
    BY <2>1, <2>2 DEF Host!resident
<1>6. QED
  BY <1>1, <1>4, <1>5 DEF Host!CacheArrays

\* An address the text keeps cached is in the cache, or it will be when the request
\* pending is accepted, which is a request for it; the request pending, if it
\* accesses its address again, will hit.
CacheFollowsText ==
    executing =>
        /\ \A a \in Host!Addr : keeps_cached(program, position, a) =>
              /\ Host!resident(a) \/ (pending_valid_r /\ ~cache_bypass_en_r)
              /\ pending_valid_r => req_addr_r = a
        /\ pending_valid_r /\ accesses_again(program, position) =>
              Host!resident(req_addr_r) /\ ~cache_bypass_en_r

\* A cycle in which the CPU moves keeps it: the only access that could replace the
\* line is one that the text does not make.
LEMMA CacheCycle ==
    ASSUME TypeOK, ControlOK, TextInv, CacheFollowsText, ShimCycle,
           executing, IdleOrStore \/ Read \/ System
    PROVE  CacheFollowsText'
<1> DEFINE quiet == UNCHANGED <<req_addr_r, cache_bypass_en_r>>
<1>1. /\ OneAtATime /\ PendingRequest /\ LatchedRegisters
      /\ \A a \in Host!Addr : addr_is(program, position, a) => req_addr_r = a
      /\ bypass_is(program, position, FALSE) => ~cache_bypass_en_r
  BY DEF TextInv, ShimCycle, RegistersFollowText
<1>2. avs.reg \in request_registers => ~pending_valid_r
  BY <1>1, BusFollowsText DEF in_flight
<1>3. /\ pending_valid_r \in BOOLEAN /\ cache_bypass_en_r \in BOOLEAN
      /\ req_addr_r \in Host!Addr
  BY PortRegisters DEF TypeOK, Host!TypeOK, Host!EngineTypeOK
<1>4. Host!accept_this_cycle <=> pending_valid_r /\ Host!m2s_ready
  BY DEF Host!accept_this_cycle, m2s
<1>5. CASE write_fire
  <2>1. ~pending_valid_r /\ quiet
    BY <1>1, <1>2, <1>5 DEF write_fire, writes, request_registers, LatchedRegisters
  <2>2. pending_valid_r'
    BY <1>1, <1>5, <2>1 DEF PendingRequest, latches_fire
  <2>3. \A a \in Host!Addr : Host!resident(a)' <=> Host!resident(a)
    BY <1>4, <2>1, ResidentStep
  <2>4. ASSUME NEW a \in Host!Addr, keeps_cached(program', position', a)
        PROVE  req_addr_r' = a /\ (Host!resident(a)' \/ ~cache_bypass_en_r')
    <3>1. CASE addr_is(program, position, a) /\ bypass_is(program, position, FALSE)
      BY <1>1, <2>1, <3>1
    <3>2. CASE keeps_cached(program, position, a) /\ addr_is(program, position, a)
      BY <1>1, <2>1, <2>3, <3>2 DEF CacheFollowsText
    <3>3. QED
      BY <1>1, <1>5, <2>4, <3>1, <3>2, CachedFollows
  <2>5. accesses_again(program', position') => Host!resident(req_addr_r)' /\ ~cache_bypass_en_r'
    <3>1. accesses_again(program', position') =>
             \E a \in Host!Addr :
                 /\ addr_is(program, position, a) /\ bypass_is(program, position, FALSE)
                 /\ keeps_cached(program, position, a)
      BY <1>1, <1>5, CachedFollows
    <3>2. accesses_again(program', position') => Host!resident(req_addr_r)
      BY <1>1, <2>1, <3>1 DEF CacheFollowsText
    <3>3. accesses_again(program', position') => \A a \in {req_addr_r} : Host!resident(a)'
      BY <1>3, <2>3, <3>2
    <3>4. QED
      BY <1>1, <2>1, <3>1, <3>3 DEF Host!resident
  <2>6. QED
    BY <2>2, <2>4, <2>5 DEF CacheFollowsText
<1>6. CASE ~write_fire
  <2>1. /\ \A a \in Host!Addr : keeps_cached(program', position', a) =>
              keeps_cached(program, position, a)
        /\ accesses_again(program', position') => accesses_again(program, position)
    BY <1>1, <1>6, CachedFollows
  <2>2. pending_valid_r' => pending_valid_r /\ ~Host!accept_this_cycle
    BY <1>1, <1>3, <1>4, <1>6 DEF PendingRequest, latches_fire
  <2>3. pending_valid_r => quiet
    BY <1>1, <1>2 DEF writes, request_registers, LatchedRegisters
  <2>4. ASSUME NEW a \in Host!Addr, keeps_cached(program', position', a)
        PROVE  /\ Host!resident(a)' \/ (pending_valid_r' /\ ~cache_bypass_en_r')
               /\ pending_valid_r' => req_addr_r' = a
    <3>1. keeps_cached(program, position, a)
      BY <2>1, <2>4
    <3>2. CASE ~Host!accept_this_cycle
      <4>1. Host!resident(a)' <=> Host!resident(a)
        BY <3>2, ResidentStep
      <4>2. pending_valid_r => pending_valid_r' /\ quiet
        BY <1>1, <1>3, <1>4, <1>6, <2>3, <3>2 DEF PendingRequest, latches_fire
      <4>3. QED
        BY <2>2, <3>1, <4>1, <4>2 DEF CacheFollowsText
    <3>3. CASE Host!accept_this_cycle
      <4>1. pending_valid_r /\ ~pending_valid_r' /\ a = req_addr_r
        BY <1>4, <2>2, <3>1, <3>3 DEF CacheFollowsText
      <4>2. CASE cache_bypass_en_r
        <5>1. Host!resident(a)
          BY <3>1, <4>2 DEF CacheFollowsText
        <5>2. QED
          BY <4>1, <4>2, <5>1, ResidentStep
      <4>3. CASE ~cache_bypass_en_r
        BY <3>3, <4>1, <4>3, ResidentStep
      <4>4. QED
        BY <4>2, <4>3
    <3>4. QED
      BY <3>2, <3>3
  <2>5. pending_valid_r' /\ accesses_again(program', position') =>
            Host!resident(req_addr_r)' /\ ~cache_bypass_en_r'
    <3>1. pending_valid_r' /\ accesses_again(program', position') =>
             /\ Host!resident(req_addr_r) /\ ~cache_bypass_en_r
             /\ quiet /\ ~Host!accept_this_cycle
      BY <2>1, <2>2, <2>3 DEF CacheFollowsText
    <3>2. ~Host!accept_this_cycle => \A a \in Host!Addr : Host!resident(a)' <=> Host!resident(a)
      BY ResidentStep
    <3>3. QED
      BY <1>3, <3>1, <3>2 DEF Host!resident
  <2>6. QED
    BY <2>4, <2>5 DEF CacheFollowsText
<1>7. QED
  BY <1>5, <1>6

\* So it is in every step of a session.
LEMMA CacheStep ==
    ASSUME TypeOK, ControlOK, TextInv, CacheFollowsText, [SessionNext]_sessionVars
    PROVE  CacheFollowsText'
<1>1. OneAtATime
  BY DEF TextInv
<1>2. CASE ShimCycle /\ executing /\ (IdleOrStore \/ Read \/ System)
  BY <1>2, CacheCycle
<1>3. CASE ~executing /\ todo' = todo
  BY <1>3 DEF executing, CacheFollowsText
<1>4. CASE UNCHANGED vars /\ avs = NoWrite /\ executing /\ (IdleOrStore \/ Read \/ System)
  <2>1. /\ \A a : keeps_cached(program', position', a) => keeps_cached(program, position, a)
        /\ accesses_again(program', position') => accesses_again(program, position)
    BY <1>1, <1>4, CachedFollows DEF NoWrite, write_fire, writes
  <2>2. /\ UNCHANGED <<pending_valid_r, req_addr_r, cache_bypass_en_r>>
        /\ \A a : Host!resident(a)' <=> Host!resident(a)
    BY <1>4 DEF vars, shimVars, engineRegs, Host!resident
  <2>3. Host!resident(req_addr_r)' <=> Host!resident(req_addr_r)
    BY <1>4 DEF vars, shimVars, engineRegs, Host!resident
  <2>4. QED
    BY <1>4, <2>1, <2>2, <2>3 DEF CacheFollowsText
<1>5. CASE UNCHANGED <<vars, localVars>>
  <2>1. UNCHANGED <<program, position, executing>>
    BY <1>5 DEF vars, shimVars, localVars, program, position, executing
  <2>2. QED
    BY <1>5, <2>1 DEF vars, shimVars, engineRegs, CacheFollowsText, Host!resident
<1>6. QED
  BY <1>1, <1>2, <1>3, <1>4, <1>5, SessionCases

\* Phase 8 accesses what it says: every access of its first loop hits, every access
\* of its second misses, for any number of iterations and every speed of the CPU.
THEOREM Phase8Measures ==
    ASSUME Sessions \subseteq Seq(SequentialPrograms), ~MayTimeOut,
           MeasuresInText(programs["phase8"])
    PROVE  SessionSpec => MeasuresWhatItSays
<1>1. SessionInit => CacheFollowsText
  <2> SUFFICES ASSUME SessionInit PROVE CacheFollowsText
    OBVIOUS
  <2>1. position = 1
    BY DEF SessionInit, Init, position
  <2>2. QED
    BY <2>1, NoAccessYet DEF CacheFollowsText
<1>2. TypeOK /\ ControlOK /\ TextInv /\ CacheFollowsText /\ [SessionNext]_sessionVars
      => CacheFollowsText'
  BY CacheStep
<1>3. ASSUME TypeOK, ControlOK, TextInv, CacheFollowsText, [SessionNext]_sessionVars,
             executing, Head(todo) = "phase8", Host!accept_this_cycle
      PROVE  /\ m2s.tag = 2 => dbg_cache_misses' = dbg_cache_misses
             /\ m2s.tag = 3 => dbg_cache_hits' = dbg_cache_hits
  <2>1. pending_valid_r /\ m2s.tag = pending_tag_r /\ m2s.addr = req_addr_r
    BY <1>3 DEF Host!accept_this_cycle, m2s
  <2>2. OneAtATime /\ in_flight /\ outstanding(program, position)
    BY <1>3, <2>1 DEF TextInv, OneAtATime, HardwareFollowsText, in_flight
  <2>3. position \in 1 .. Len(program) + 1
    <3>1. Len(program) \in Nat
      BY <1>3, ProgramText DEF program, ControlOK
    <3>2. CASE avs = NoWrite
      BY <1>3, <3>1, <3>2 DEF position, ControlOK
    <3>3. CASE avs # NoWrite
      BY <1>3, <2>2, <3>1, <3>3, BusInText DEF OneAtATime
    <3>4. QED
      BY <3>2, <3>3
  <2>4. PICK w \in BusWrites : w.reg = "REQ_FIRE" /\ last_is(program, position, w)
    <3>1. Head(todo) \in DOMAIN programs
      BY <1>3 DEF ControlOK, executing
    <3>2. QED
      BY <2>2, <2>3, <3>1, LastFire DEF program
  <2>5. pending_tag_r = w.tag
    BY <1>3, <2>1, <2>4 DEF TextInv, RequestIsLastFired, is_request
  <2>6. /\ w.tag = 2 => accesses_again(program, position)
        /\ w.tag = 3 => bypass_is(program, position, TRUE)
    BY <1>3, <2>2, <2>3, <2>4 DEF MeasuresInText, program
  <2>7. CASE UNCHANGED vars
    BY <2>7 DEF vars, engineRegs
  <2>8. CASE ShimCycle
    <3>1. Host!Counters
      BY <2>8 DEF ShimCycle, Engine, Host!Clock
    <3>2. m2s.tag = 2 => Host!cache_hit_eff
      BY <1>3, <2>1, <2>5, <2>6 DEF CacheFollowsText, Host!cache_hit_eff, Host!cache_hit,
         Host!resident, Host!m2s_idx, Host!m2s_cache_tag_field
    <3>3. m2s.tag = 3 => ~Host!cache_hit_eff
      BY <1>3, <2>1, <2>5, <2>6 DEF TextInv, RegistersFollowText, Host!cache_hit_eff
    <3>4. QED
      BY <3>1, <3>2, <3>3 DEF Host!Counters, Host!counted
  <2>9. QED
    BY <1>3, <2>7, <2>8, SessionCycle DEF TypeOK
<1>4. TypeOK /\ ControlOK /\ TextInv /\ CacheFollowsText /\ [SessionNext]_sessionVars
      => [executing /\ Head(todo) = "phase8" /\ Host!accept_this_cycle =>
            /\ m2s.tag = 2 => dbg_cache_misses' = dbg_cache_misses
            /\ m2s.tag = 3 => dbg_cache_hits' = dbg_cache_hits]_sessionVars
  BY <1>3
<1>5. QED
  BY <1>1, <1>2, <1>4, TextHolds, ControlHolds, SessionTypes, PTL
  DEF SessionSpec, MeasuresWhatItSays

=============================================================================
