----------------------------- MODULE DriverProofs -----------------------------
(***************************************************************************)
(* Proofs about the drivers: what the text of a program promises, the      *)
(* hardware behind the shim does.                                          *)
(***************************************************************************)
EXTENDS DriverDiscipline, ShimProofs

-----------------------------------------------------------------------------
\* Program text

\* The programs of a session are sequences of instructions whose stores the bus
\* can carry.
LEMMA ProgramText ==
    ASSUME NEW q \in DOMAIN programs
    PROVE  /\ Len(programs[q]) \in Nat
           /\ \A n \in 1 .. Len(programs[q]) :
                 /\ programs[q][n].op = "store" => programs[q][n].w \in BusWrites \ {NoWrite}
                 /\ programs[q][n].op = "again" => programs[q][n].back \in 1 .. n - 1
BY ProgramAssumption

\* What an instruction does to the request outstanding.
LEMMA OutstandingStep ==
    ASSUME NEW p, NEW n \in Nat \ {0}
    PROVE  outstanding(p, n + 1) <=> fires(p[n]) \/ (outstanding(p, n) /\ ~acks(p[n]))
<1>1. 1 .. (n + 1) - 1 = (1 .. n - 1) \cup {n}
  OBVIOUS
<1>2. \A j \in 1 .. n - 1 : j + 1 .. (n + 1) - 1 = (j + 1 .. n - 1) \cup {n}
  OBVIOUS
<1>3. n + 1 .. (n + 1) - 1 = {}
  OBVIOUS
<1>4. QED
  BY <1>1, <1>2, <1>3 DEF outstanding

\* What an instruction does to the answer the program has waited for.
LEMMA AnsweredStep ==
    ASSUME NEW p, NEW n \in Nat \ {0}
    PROVE  answered(p, n + 1) <=>
              awaits(p[n]) \/ (answered(p, n) /\ ~acks(p[n]) /\ ~fires(p[n]))
<1>1. 1 .. (n + 1) - 1 = (1 .. n - 1) \cup {n}
  OBVIOUS
<1>2. \A j \in 1 .. n - 1 : j + 1 .. (n + 1) - 1 = (j + 1 .. n - 1) \cup {n}
  OBVIOUS
<1>3. n + 1 .. (n + 1) - 1 = {}
  OBVIOUS
<1>4. QED
  BY <1>1, <1>2, <1>3 DEF answered

\* What an instruction does to the watchdog.
LEMMA ArmedStep ==
    ASSUME NEW p, NEW n \in Nat \ {0}
    PROVE  armed_at(p, n + 1) <=>
              p[n].op = "arm" \/ (armed_at(p, n) /\ p[n].op # "disarm")
<1>1. 1 .. (n + 1) - 1 = (1 .. n - 1) \cup {n}
  OBVIOUS
<1>2. \A j \in 1 .. n - 1 : j + 1 .. (n + 1) - 1 = (j + 1 .. n - 1) \cup {n}
  OBVIOUS
<1>3. n + 1 .. (n + 1) - 1 = {}
  OBVIOUS
<1>4. QED
  BY <1>1, <1>2, <1>3 DEF armed_at

\* Nothing is outstanding, answered or armed where a program begins.
LEMMA TextBegins ==
    ASSUME NEW p
    PROVE  ~outstanding(p, 1) /\ ~answered(p, 1) /\ ~armed_at(p, 1)
BY DEF outstanding, answered, armed_at

-----------------------------------------------------------------------------
\* Control

\* The program running and its counter stay within the session's text.
ControlOK ==
    /\ todo \in Seq(DOMAIN programs)
    /\ pc \in Nat \ {0}
    /\ executing => pc <= Len(program) + 1

\* The CPU goes on in the same program, or it leaves it for the next.
GoesOn(n) == todo' = todo /\ Proceed(n)
Leaves == todo' = Tail(todo) /\ pc' = 1 /\ avs' = NoWrite

\* What it does in one step: nothing or a store; an instruction that is no
\* store; a jump back; or it leaves.
Issues == GoesOn(pc) /\ watchdog' = watchdog
Executes ==
    /\ ~at_end /\ instr.op # "store" /\ GoesOn(pc + 1)
    /\ awaits(instr) => avs = NoWrite /\ resp_active
    /\ IF instr.op = "arm" THEN watchdog' \in {watchdog, "armed"}
       ELSE IF instr.op = "disarm" THEN watchdog' = "off"
       ELSE watchdog' = watchdog
JumpsBack == does("again") /\ GoesOn(pc - instr.back) /\ watchdog' = watchdog
Returns ==
    /\ Leaves
    /\ \/ at_end
       \/ instr.op = "open"
       \/ instr.op = "arm" /\ instr.required
    /\ watchdog' = watchdog
GivesUp ==
    /\ Leaves
    /\ MayTimeOut /\ ~at_end /\ instr.op \in {"poll", "again"} /\ instr.timeout # "never"
    /\ watchdog' = limit_leaves

\* Every step of the CPU is one of these.
LEMMA CpuStep ==
    ASSUME executing, IdleOrStore \/ Read \/ System
    PROVE  Issues \/ Executes \/ JumpsBack \/ Returns \/ GivesUp
<1> USE DEF GoesOn, does
<1>1. CASE IdleOrStore
  BY <1>1 DEF IdleOrStore, Issues
<1>2. CASE Read
  <2>1. CASE Poll
    BY <1>2, <2>1 DEF Read, Poll, bit_is_set, readdata, awaits, Executes, Host!s2m_valid
  <2>2. CASE Look \/ Expect \/ Save \/ Delta \/ TakeTag
    BY <2>2 DEF Look, Expect, Save, Delta, TakeTag, awaits, Executes
  <2>3. QED
    BY <1>2, <2>1, <2>2 DEF Read
<1>3. CASE System
  <2>1. CASE Again
    BY <2>1 DEF Again, awaits, Executes, JumpsBack
  <2>2. CASE Open
    BY <2>2 DEF Open, Leave, Leaves, awaits, Executes, Returns
  <2>3. CASE Arm
    BY <2>3 DEF Arm, Leave, Leaves, awaits, Executes, Returns
  <2>4. CASE Disarm
    BY <2>4 DEF Disarm, awaits, Executes
  <2>5. CASE Exit
    BY <2>5 DEF Exit, Leave, Leaves, Returns
  <2>6. CASE TimeOut
    BY <2>6 DEF TimeOut, Leave, Leaves, GivesUp
  <2>7. QED
    BY <1>3, <2>1, <2>2, <2>3, <2>4, <2>5, <2>6 DEF System
<1>4. QED
  BY <1>1, <1>2, <1>3

\* Going on at n puts the shim at n, with the store there on the bus or none.
LEMMA GoesOnAt ==
    ASSUME ControlOK, executing, NEW n \in 1 .. Len(program) + 1, GoesOn(n)
    PROVE  /\ ControlOK' /\ executing' /\ program' = program
           /\ pc' \in {n, n + 1} /\ position' = n
           /\ avs' # NoWrite => /\ pc' = n + 1 /\ n <= Len(program)
                                /\ program[n].op = "store" /\ avs' = program[n].w
           /\ avs' \in BusWrites
<1>1. Head(todo) \in DOMAIN programs
  BY DEF ControlOK, executing
<1>2. /\ Len(program) \in Nat
      /\ \A k \in 1 .. Len(program) :
            program[k].op = "store" => program[k].w \in BusWrites \ {NoWrite}
  BY <1>1, ProgramText DEF program
<1>3. todo' = todo /\ program' = program /\ executing'
  BY DEF GoesOn, program, executing
<1>4. CASE pc' = n /\ avs' = NoWrite
  BY <1>2, <1>3, <1>4 DEF ControlOK, position, BusWrites
<1>5. CASE /\ n <= Len(program) /\ program[n].op = "store"
           /\ pc' = n + 1 /\ avs' = program[n].w
  BY <1>2, <1>3, <1>5 DEF ControlOK, position
<1>6. QED
  BY <1>4, <1>5 DEF GoesOn, Proceed

\* Leaving puts it at the beginning of the next program, with a quiet bus.
LEMMA LeavesAt ==
    ASSUME ControlOK, executing, Leaves
    PROVE  /\ ControlOK'
           /\ pc' = 1 /\ position' = 1 /\ avs' = NoWrite
           /\ todo' = Tail(todo)
<1>1. todo' \in Seq(DOMAIN programs)
  BY DEF ControlOK, executing, Leaves
<1>2. executing' => Len(program)' \in Nat
  <2>1. executing' => Head(todo') \in DOMAIN programs
    BY <1>1 DEF executing
  <2>2. QED
    BY <2>1, ProgramText DEF program
<1>3. QED
  BY <1>1, <1>2 DEF Leaves, ControlOK, position

\* Every step of the CPU is one of these moves.
LEMMA CpuMoves ==
    ASSUME ControlOK, executing, IdleOrStore \/ Read \/ System
    PROVE  \/ Leaves
           \/ \E n \in 1 .. Len(program) + 1 :
                 /\ GoesOn(n)
                 /\ n \in {pc, pc + 1} \/ does("again")
<1>1. /\ Head(todo) \in DOMAIN programs
  BY DEF ControlOK, executing
<1>2. /\ Len(program) \in Nat
      /\ \A k \in 1 .. Len(program) :
            program[k].op = "again" => program[k].back \in 1 .. k - 1
  BY <1>1, ProgramText DEF program
<1>3. pc \in 1 .. Len(program) + 1 /\ (~at_end => pc \in 1 .. Len(program))
  BY <1>2 DEF ControlOK, at_end
<1>4. CASE Issues
  BY <1>3, <1>4 DEF Issues
<1>5. CASE Executes
  <2>1. pc + 1 \in 1 .. Len(program) + 1
    BY <1>2, <1>3, <1>5 DEF Executes
  <2>2. QED
    BY <1>5, <2>1 DEF Executes
<1>6. CASE JumpsBack
  <2>1. instr.back \in 1 .. pc - 1 /\ pc \in 1 .. Len(program)
    BY <1>2, <1>3, <1>6 DEF JumpsBack, does, instr
  <2>2. pc - instr.back \in 1 .. Len(program) + 1
    BY <1>2, <2>1
  <2>3. QED
    BY <1>6, <2>2 DEF JumpsBack
<1>7. QED
  BY <1>4, <1>5, <1>6, CpuStep DEF Returns, GivesUp

\* In a step of a session the CPU makes one of its moves, or it stands still.
LEMMA SessionStep ==
    ASSUME [SessionNext]_sessionVars
    PROVE  \/ executing /\ (IdleOrStore \/ Read \/ System)
           \/ UNCHANGED localVars /\ avs' \in {avs, NoWrite}
<1>1. System => executing
  BY DEF System, Again, Open, Arm, Disarm, Exit, TimeOut, does
<1>2. QED
  BY <1>1 DEF SessionNext, ConfiguredCycle, EmptyFabric, Configure, WatchdogFires,
     sessionVars, cpuVars, vars, shimVars

\* The program counter stays within the text of the program running.
LEMMA ControlStep == ControlOK /\ [SessionNext]_sessionVars => ControlOK'
<1> SUFFICES ASSUME ControlOK, [SessionNext]_sessionVars PROVE ControlOK'
  OBVIOUS
<1>1. CASE executing /\ (IdleOrStore \/ Read \/ System)
  BY <1>1, CpuMoves, GoesOnAt, LeavesAt
<1>2. CASE UNCHANGED localVars
  BY <1>2 DEF localVars, ControlOK, executing, program
<1>3. QED
  BY <1>1, <1>2, SessionStep

\* Every session runs its programs in order, each within its text.
LEMMA ControlHolds == SessionSpec => []ControlOK
<1>1. SessionInit => ControlOK
  <2> SUFFICES ASSUME SessionInit PROVE ControlOK
    OBVIOUS
  <2>1. todo \in Seq(DOMAIN programs) /\ pc = 1
    BY SessionAssumption DEF SessionInit
  <2>2. executing => Head(todo) \in DOMAIN programs
    BY <2>1 DEF executing
  <2>3. executing => Len(program) \in Nat
    BY <2>2, ProgramText DEF program
  <2>4. QED
    BY <2>1, <2>3 DEF ControlOK
<1>2. QED
  BY <1>1, ControlStep, PTL DEF SessionSpec

-----------------------------------------------------------------------------
\* The watchdog

\* After going on at n, the watchdog may be armed where it may be at n.
LEMMA ArmedWhereItGoesOn ==
    ASSUME ControlOK, executing, NEW n \in 1 .. Len(program) + 1, GoesOn(n)
    PROVE  armed_at(program', pc') <=> armed_at(program, n)
<1>1. Len(program) \in Nat
  BY ProgramText DEF program, ControlOK, executing
<1>2. n \in Nat \ {0} /\ program' = program
  BY <1>1, GoesOnAt
<1>3. CASE pc' = n
  BY <1>2, <1>3
<1>4. CASE pc' = n + 1
  <2>1. program[n].op = "store"
    BY <1>1, <1>4, GoesOnAt DEF GoesOn, Proceed
  <2>2. armed_at(program, n + 1) <=> armed_at(program, n)
    BY <1>2, <2>1, ArmedStep
  <2>3. QED
    BY <1>2, <1>4, <2>2
<1>5. QED
  BY <1>3, <1>4, GoesOnAt

\* The rule of such a text for one of its instructions.
LEMMA DisarmingText ==
    ASSUME NEW p, DisarmsOnLeaving(p), NEW n \in 1 .. Len(p)
    PROVE  /\ armed_at(p, n) =>
                 /\ p[n].op # "open" /\ ~(p[n].op = "arm" /\ p[n].required)
                 /\ p[n].op \in {"poll", "again"} => p[n].timeout \in {"never", "disarm and exit"}
           /\ p[n].op = "again" => (armed_at(p, n - p[n].back) <=> armed_at(p, n))
BY DEF DisarmsOnLeaving

\* A step keeps the watchdog off where such a text says so, one kind of step of the
\* CPU after the other.
LEMMA StepArmed ==
    ASSUME ControlOK, todo \in Seq(DisarmingPrograms), ArmedByText, [SessionNext]_sessionVars
    PROVE  todo' \in Seq(DisarmingPrograms) /\ ArmedByText'
<1>1. watchdog # "off" => executing /\ armed_at(program, pc)
  BY DEF ArmedByText
<1>2. ASSUME executing, IdleOrStore \/ Read \/ System
      PROVE  /\ todo' \in Seq(DisarmingPrograms)
             /\ watchdog' # "off" => executing' /\ armed_at(program', pc')
  <2>1. /\ Head(todo) \in DOMAIN programs
        /\ DisarmsOnLeaving(program)
    BY <1>2 DEF executing, DisarmingPrograms, program
  <2>2. Len(program) \in Nat
    BY <2>1, ProgramText DEF program
  <2>3. pc \in Nat \ {0} /\ pc <= Len(program) + 1
    BY <1>2 DEF ControlOK
  <2>4. CASE Issues
    <3>1. pc \in 1 .. Len(program) + 1
      BY <2>2, <2>3
    <3>2. (armed_at(program', pc') <=> armed_at(program, pc)) /\ executing' /\ todo' = todo
      BY <1>2, <2>4, <3>1, ArmedWhereItGoesOn, GoesOnAt DEF Issues, GoesOn
    <3>3. QED
      BY <1>1, <2>4, <3>2 DEF Issues
  <2>5. CASE Executes
    <3>1. pc + 1 \in 1 .. Len(program) + 1
      BY <2>2, <2>3, <2>5 DEF Executes, at_end
    <3>2. (armed_at(program', pc') <=> armed_at(program, pc + 1)) /\ executing' /\ todo' = todo
      BY <1>2, <2>5, <3>1, ArmedWhereItGoesOn, GoesOnAt DEF Executes, GoesOn
    <3>3. armed_at(program, pc + 1) <=>
             instr.op = "arm" \/ (armed_at(program, pc) /\ instr.op # "disarm")
      BY <2>3, ArmedStep DEF instr
    <3>4. QED
      BY <1>1, <2>5, <3>2, <3>3 DEF Executes
  <2>6. CASE JumpsBack
    <3>1. /\ pc \in 1 .. Len(program) /\ program[pc].op = "again"
      BY <2>2, <2>3, <2>6 DEF JumpsBack, does, at_end, instr
    <3>6. armed_at(program, pc - program[pc].back) <=> armed_at(program, pc)
      BY <2>1, <3>1, DisarmingText
    <3>2. program[pc].back \in 1 .. pc - 1
      BY <2>1, <3>1, ProgramText DEF program
    <3>3. pc - program[pc].back \in 1 .. Len(program) + 1
      BY <2>2, <3>1, <3>2
    <3>4. /\ (armed_at(program', pc') <=> armed_at(program, pc - program[pc].back))
          /\ executing' /\ todo' = todo
      BY <1>2, <2>6, <3>3, ArmedWhereItGoesOn, GoesOnAt DEF JumpsBack, GoesOn, instr
    <3>5. QED
      BY <1>1, <2>6, <3>4, <3>6 DEF JumpsBack
  <2>7. CASE Returns \/ GivesUp
    <3>1. todo' \in Seq(DisarmingPrograms)
      BY <1>2, <2>7 DEF Returns, GivesUp, Leaves, executing
    <3>2. CASE ~armed_at(program, pc)
      BY <1>1, <2>7, <3>1, <3>2 DEF Returns, GivesUp, limit_leaves
    <3>3. CASE armed_at(program, pc)
      <4>1. pc \in 1 .. Len(program)
        <5>1. pc # Len(program) + 1
          BY <2>1, <3>3 DEF DisarmsOnLeaving
        <5>2. QED
          BY <2>2, <2>3, <5>1
      <4>2. /\ instr.op # "open" /\ ~(instr.op = "arm" /\ instr.required) /\ ~at_end
            /\ instr.op \in {"poll", "again"} =>
                  instr.timeout \in {"never", "disarm and exit"}
        <5>1. /\ program[pc].op # "open" /\ ~(program[pc].op = "arm" /\ program[pc].required)
              /\ program[pc].op \in {"poll", "again"} =>
                    program[pc].timeout \in {"never", "disarm and exit"}
          BY <2>1, <3>3, <4>1, DisarmingText
        <5>2. ~at_end
          BY <2>2, <4>1 DEF at_end
        <5>3. QED
          BY <5>1, <5>2 DEF instr
      <4>3. watchdog' = "off"
        BY <2>7, <4>2 DEF Returns, GivesUp, limit_leaves
      <4>4. QED
        BY <3>1, <4>3
    <3>4. QED
      BY <3>2, <3>3
  <2>8. QED
    BY <1>2, <2>4, <2>5, <2>6, <2>7, CpuStep
<1>3. CASE UNCHANGED localVars
  BY <1>1, <1>3 DEF localVars, ArmedByText, executing, program
<1>4. QED
  BY <1>2, <1>3, SessionStep DEF ArmedByText

\* Every driver whose text disarms the watchdog wherever it may leave, leaves it
\* disarmed, whatever it was doing when its time limit ran out.
THEOREM DriversDisarm ==
    ASSUME Sessions \subseteq Seq(DisarmingPrograms)
    PROVE  SessionSpec => []ExitDisarms
<1> DEFINE Inv == todo \in Seq(DisarmingPrograms) /\ ArmedByText
<1>1. SessionInit => Inv
  BY DEF SessionInit, ArmedByText
<1>2. ControlOK /\ Inv /\ [SessionNext]_sessionVars => Inv'
  BY StepArmed
<1>3. ControlOK /\ Inv => ExitDisarms
  BY TextBegins DEF ArmedByText, ControlOK, ExitDisarms, running
<1> HIDE DEF Inv
<1>4. QED
  BY <1>1, <1>2, <1>3, ControlHolds, PTL DEF SessionSpec

-----------------------------------------------------------------------------
\* The shim under a session

\* Whatever a session runs and whenever a program gives up, its steps are cycles
\* of the shim or leave the shim alone.
LEMMA SessionCycle ==
    ASSUME ControlOK, avs \in BusWrites, [SessionNext]_sessionVars
    PROVE  \/ ShimCycle /\ avs' \in BusWrites /\ (avs_waitrequest => avs' = avs)
           \/ UNCHANGED vars
<1>1. CASE ~stalled /\ ConfiguredCycle
  <2>1. NoWrite \in BusWrites
    BY DEF BusWrites
  <2>2. executing /\ (IdleOrStore \/ Read \/ System) => avs' \in BusWrites
    BY <2>1, CpuMoves, GoesOnAt DEF Leaves
  <2>3. QED
    BY <1>1, <2>1, <2>2 DEF ConfiguredCycle, cpuVars
<1>2. CASE EmptyFabric \/ Configure \/ WatchdogFires \/ UNCHANGED sessionVars
  BY <1>2 DEF EmptyFabric, Configure, WatchdogFires, sessionVars
<1>3. QED
  BY <1>1, <1>2 DEF SessionNext

\* The registers of the shim and the engine stay typed in every session.
LEMMA SessionTypes == SessionSpec => []TypeOK
<1>1. SessionInit => TypeOK
  BY InitTypes DEF SessionInit
<1>2. ControlOK /\ TypeOK /\ [SessionNext]_sessionVars => TypeOK'
  <2>1. ASSUME TypeOK, UNCHANGED vars PROVE TypeOK'
    BY <2>1, StepTypes
  <2>2. QED
    BY <2>1, SessionCycle, CycleTypes DEF TypeOK
<1>3. QED
  BY <1>1, <1>2, ControlHolds, PTL DEF SessionSpec

\* Whatever the programs of a session do, the engine stays sound.
THEOREM SessionKeepsEngineSound == SessionSpec => []EngineStaysSound
<1>1. SessionInit => EngineStaysSound
  BY DEF SessionInit, Init, Host!EngineInit, EngineStaysSound, Host!FlushBiExclusive,
     Host!ResponseIsOwed, Host!DirtyLineIsValid
<1>2. ControlOK /\ TypeOK /\ EngineStaysSound /\ [SessionNext]_sessionVars => EngineStaysSound'
  <2>1. ASSUME TypeOK, EngineStaysSound, UNCHANGED vars PROVE EngineStaysSound'
    BY <2>1, StepSound
  <2>2. QED
    BY <2>1, SessionCycle, CycleSound DEF TypeOK
<1>3. QED
  BY <1>1, <1>2, ControlHolds, SessionTypes, PTL DEF SessionSpec

\* A cycle with at most one request in the hardware: a REQ_FIRE brings one, the
\* acknowledgement of its answer ends it, nothing else does either.
LEMMA FlightStep ==
    ASSUME TypeOK, EngineStaysSound, AtMostOne, ShimCycle,
           write_fire => ~in_flight,
           writes("RESP_ACK") => resp_active
    PROVE  /\ AtMostOne'
           /\ in_flight' <=> write_fire \/ (in_flight /\ ~writes("RESP_ACK"))
           /\ resp_active /\ ~writes("RESP_ACK") => resp_active'
<1> DEFINE ack == writes("RESP_ACK")
<1>1. /\ pending_valid_r \in BOOLEAN /\ pending_tag_r \in Host!Tag
      /\ slot_valid \in [Host!Tag -> BOOLEAN] /\ resp_tag_r \in Host!Tag
      /\ resp_active \in BOOLEAN
  BY PortRegisters DEF TypeOK, Host!TypeOK, Host!EngineTypeOK
<1>2. Host!Slots(ack) /\ Host!Response(ack) /\ PendingRequest
  BY DEF ShimCycle, Engine, Host!Clock
<1>3. resp_active => slot_valid[resp_tag_r]
  BY DEF EngineStaysSound, Host!ResponseIsOwed, Host!slot_done
<1>4. ~(write_fire /\ ack)
  BY DEF write_fire, writes
<1>5. \A t \in Host!Tag : Host!accepted(t) <=>
          pending_valid_r /\ Host!m2s_ready /\ pending_tag_r = t
  BY DEF Host!accepted, Host!accept_this_cycle, m2s
<1>6. \A t \in Host!Tag : slot_valid'[t] <=>
          Host!accepted(t) \/ (slot_valid[t] /\ ~Host!retired(t, ack))
  BY <1>2 DEF Host!Slots
<1>7. resp_active /\ ~ack => resp_active'
  BY <1>2 DEF Host!Response
<1>8. CASE write_fire
  <2>1. ~pending_valid_r /\ \A t \in Host!Tag : ~slot_valid[t]
    BY <1>8 DEF in_flight
  <2>2. pending_valid_r' /\ \A t \in Host!Tag : ~slot_valid'[t]
    BY <1>2, <1>5, <1>6, <1>8, <2>1 DEF PendingRequest, latches_fire
  <2>3. QED
    BY <1>4, <1>7, <1>8, <2>2 DEF AtMostOne, in_flight
<1>9. CASE ~write_fire /\ pending_valid_r
  <2>1. (\A t \in Host!Tag : ~slot_valid[t]) /\ ~resp_active /\ ~ack
    BY <1>1, <1>3, <1>9 DEF AtMostOne
  <2>2. pending_valid_r' <=> ~Host!m2s_ready
    BY <1>2, <1>9 DEF PendingRequest, latches_fire
  <2>3. \A t \in Host!Tag : slot_valid'[t] <=> Host!m2s_ready /\ pending_tag_r = t
    BY <1>5, <1>6, <1>9, <2>1
  <2>4. QED
    BY <1>1, <1>9, <2>1, <2>2, <2>3 DEF AtMostOne, in_flight
<1>10. CASE ~write_fire /\ ~pending_valid_r
  <2>1. ~pending_valid_r'
    BY <1>2, <1>10 DEF PendingRequest, latches_fire
  <2>2. \A t \in Host!Tag : slot_valid'[t] <=>
            slot_valid[t] /\ ~(resp_active /\ ack /\ resp_tag_r = t)
    BY <1>5, <1>6, <1>10 DEF Host!retired, Host!resp_consumed_this_cycle
  <2>3. CASE ack
    <3>1. resp_active /\ slot_valid[resp_tag_r]
      BY <1>3, <2>3
    <3>2. \A t \in Host!Tag : ~slot_valid'[t]
      BY <1>1, <2>2, <2>3, <3>1 DEF AtMostOne
    <3>3. QED
      BY <1>10, <2>1, <2>3, <3>2 DEF AtMostOne, in_flight
  <2>4. CASE ~ack
    BY <1>7, <1>10, <2>1, <2>2, <2>4 DEF AtMostOne, in_flight
  <2>5. QED
    BY <2>3, <2>4
<1>11. QED
  BY <1>8, <1>9, <1>10

-----------------------------------------------------------------------------
\* One request at a time

OneAtATime ==
    /\ todo \in Seq(SequentialPrograms)
    /\ BusShowsStore /\ AtMostOne /\ HardwareFollowsText

\* The text of the program running, and where the CPU is in it.
LEMMA RunningText ==
    ASSUME ControlOK, todo \in Seq(SequentialPrograms), executing
    PROVE  /\ Sequential(program) /\ Len(program) \in Nat
           /\ pc \in 1 .. Len(program) + 1
           /\ todo' = Tail(todo) => todo' \in Seq(SequentialPrograms)
<1>1. Head(todo) \in DOMAIN programs /\ Sequential(program)
  BY DEF executing, SequentialPrograms, program
<1>2. Len(program) \in Nat
  BY <1>1, ProgramText DEF program
<1>3. pc \in 1 .. Len(program) + 1
  BY <1>2 DEF ControlOK
<1>4. todo' = Tail(todo) => todo' \in Seq(SequentialPrograms)
  BY DEF executing
<1>5. QED
  BY <1>1, <1>2, <1>3, <1>4

\* The rule of a sequential text for one of its instructions.
LEMMA SequentialText ==
    ASSUME NEW p, Sequential(p), NEW n \in 1 .. Len(p)
    PROVE  /\ p[n].op # "again"
           /\ p[n].op \in {"open", "arm"} => ~outstanding(p, n)
           /\ p[n].op = "store" /\ p[n].w.reg \in request_registers => ~outstanding(p, n)
           /\ p[n].op = "store" /\ p[n].w.reg = "RESP_ACK" => answered(p, n)
BY DEF Sequential, acks

\* So the bus never carries a store to a register of a request in the hardware,
\* and an acknowledgement only where there is an answer.
LEMMA BusFollowsText ==
    ASSUME ControlOK, OneAtATime
    PROVE  /\ avs.reg \in request_registers => ~in_flight
           /\ avs.reg = "RESP_ACK" => resp_active
<1>1. CASE avs = NoWrite
  BY <1>1 DEF NoWrite, request_registers
<1>2. CASE avs # NoWrite
  <2>1. /\ executing /\ position = pc - 1
        /\ program[pc - 1].op = "store" /\ program[pc - 1].w = avs
        /\ pc - 1 \in 1 .. Len(program) /\ Sequential(program)
    BY <1>2, RunningText DEF OneAtATime, BusShowsStore, position, ControlOK
  <2>2. /\ avs.reg \in request_registers => ~outstanding(program, position)
        /\ avs.reg = "RESP_ACK" => answered(program, position)
    BY <2>1, SequentialText
  <2>3. QED
    BY <2>1, <2>2 DEF OneAtATime, HardwareFollowsText
<1>3. QED
  BY <1>1, <1>2

\* The store on the bus, as text: what is outstanding and answered at the next
\* instruction of the CPU.
LEMMA TextAfterBus ==
    ASSUME ControlOK, BusShowsStore, executing
    PROVE  /\ outstanding(program, pc) <=>
                 write_fire \/ (outstanding(program, position) /\ ~writes("RESP_ACK"))
           /\ answered(program, pc) <=>
                 answered(program, position) /\ ~writes("RESP_ACK") /\ ~write_fire
<1>1. CASE avs = NoWrite
  BY <1>1 DEF position, NoWrite, write_fire, writes
<1>2. CASE avs # NoWrite
  <2>1. /\ position = pc - 1 /\ pc - 1 \in Nat \ {0} /\ (pc - 1) + 1 = pc
        /\ program[pc - 1].op = "store" /\ program[pc - 1].w = avs
    BY <1>2 DEF BusShowsStore, position, ControlOK
  <2>2. /\ fires(program[pc - 1]) <=> write_fire
        /\ acks(program[pc - 1]) <=> writes("RESP_ACK")
        /\ ~awaits(program[pc - 1])
    BY <2>1 DEF fires, acks, awaits, write_fire, writes
  <2>3. /\ outstanding(program, pc) <=>
              fires(program[pc - 1]) \/
              (outstanding(program, pc - 1) /\ ~acks(program[pc - 1]))
        /\ answered(program, pc) <=>
              awaits(program[pc - 1]) \/
              (answered(program, pc - 1) /\ ~acks(program[pc - 1]) /\ ~fires(program[pc - 1]))
    BY <2>1, OutstandingStep, AnsweredStep
  <2>4. QED
    BY <2>1, <2>2, <2>3
<1>3. QED
  BY <1>1, <1>2

\* What the hardware does in a step of the session, as to the request in it.
FlightMoves ==
    /\ in_flight' <=> write_fire \/ (in_flight /\ ~writes("RESP_ACK"))
    /\ resp_active /\ ~writes("RESP_ACK") => resp_active'

\* The CPU moves on in step with it.
LEMMA CpuFollowsText ==
    ASSUME ControlOK, OneAtATime, ~MayTimeOut, FlightMoves,
           executing, IdleOrStore \/ Read \/ System
    PROVE  todo' \in Seq(SequentialPrograms) /\ HardwareFollowsText'
<1>1. /\ Sequential(program) /\ Len(program) \in Nat
      /\ pc \in 1 .. Len(program) + 1
      /\ todo' = Tail(todo) => todo' \in Seq(SequentialPrograms)
  BY RunningText DEF OneAtATime
<1>2. BusShowsStore /\ HardwareFollowsText
  BY DEF OneAtATime
<1>3. in_flight' <=> outstanding(program, pc)
  BY <1>2, TextAfterBus DEF FlightMoves, HardwareFollowsText
<1>4. answered(program, pc) => resp_active'
  BY <1>2, TextAfterBus DEF FlightMoves, HardwareFollowsText
<1>5. CASE Issues
  <2>1. executing' /\ program' = program /\ position' = pc /\ todo' = todo
    BY <1>1, <1>5, GoesOnAt DEF Issues, GoesOn
  <2>2. QED
    BY <1>3, <1>4, <2>1 DEF OneAtATime, HardwareFollowsText
<1>6. CASE Executes
  <2>1. pc \in 1 .. Len(program) /\ pc + 1 \in 1 .. Len(program) + 1 /\ pc \in Nat \ {0}
    BY <1>1, <1>6 DEF Executes, at_end
  <2>2. executing' /\ program' = program /\ position' = pc + 1 /\ todo' = todo
    BY <1>6, <2>1, GoesOnAt DEF Executes, GoesOn
  <2>3. ~fires(program[pc]) /\ ~acks(program[pc])
    BY <1>6 DEF Executes, instr, fires, acks
  <2>4. /\ outstanding(program, pc + 1) <=> outstanding(program, pc)
        /\ answered(program, pc + 1) <=> awaits(program[pc]) \/ answered(program, pc)
    BY <2>1, <2>3, OutstandingStep, AnsweredStep
  <2>5. awaits(program[pc]) => resp_active'
    BY <1>6 DEF Executes, instr, FlightMoves, NoWrite, writes
  <2>6. QED
    BY <1>3, <1>4, <2>2, <2>4, <2>5 DEF OneAtATime, HardwareFollowsText
<1>7. CASE Returns
  <2>1. ~outstanding(program, pc)
    <3>1. CASE at_end
      <4>1. pc = Len(program) + 1
        BY <1>1, <3>1 DEF at_end
      <4>2. QED
        BY <1>1, <4>1 DEF Sequential
    <3>2. CASE ~at_end
      <4>1. pc \in 1 .. Len(program) /\ program[pc].op \in {"open", "arm"}
        BY <1>1, <1>7, <3>2 DEF at_end, Returns, instr
      <4>2. QED
        BY <1>1, <4>1, SequentialText
    <3>3. QED
      BY <3>1, <3>2
  <2>2. position' = 1 /\ todo' \in Seq(SequentialPrograms)
    BY <1>1, <1>7, LeavesAt DEF Returns, Leaves
  <2>3. QED
    BY <1>3, <2>1, <2>2, TextBegins DEF HardwareFollowsText
<1>8. ~JumpsBack /\ ~GivesUp
  <2>1. JumpsBack => pc \in 1 .. Len(program) /\ program[pc].op = "again"
    BY <1>1 DEF JumpsBack, does, at_end, instr
  <2>2. QED
    BY <1>1, <2>1, SequentialText DEF GivesUp
<1>9. QED
  BY <1>5, <1>6, <1>7, <1>8, CpuStep

\* A move of the CPU puts on the bus what BusShowsStore says.
LEMMA BusAfterCpu ==
    ASSUME ControlOK, executing, configured', IdleOrStore \/ Read \/ System
    PROVE  BusShowsStore'
<1>1. CASE Leaves
  BY <1>1 DEF Leaves, BusShowsStore
<1>2. CASE \E n \in 1 .. Len(program) + 1 : GoesOn(n)
  <2>1. PICK n \in 1 .. Len(program) + 1 : GoesOn(n)
    BY <1>2
  <2>2. Len(program) \in Nat
    BY ProgramText DEF program, ControlOK, executing
  <2>3. /\ executing' /\ program' = program
        /\ avs' # NoWrite => /\ pc' = n + 1
                             /\ program[n].op = "store" /\ avs' = program[n].w
    BY <2>1, GoesOnAt
  <2>4. avs' # NoWrite => pc' > 1 /\ pc' - 1 = n
    BY <2>2, <2>3
  <2>5. QED
    BY <2>3, <2>4 DEF BusShowsStore
<1>3. QED
  BY <1>1, <1>2, CpuMoves

\* A step of the session keeps hardware and text together.
LEMMA StepOneAtATime ==
    ASSUME ~MayTimeOut, ControlOK, TypeOK, EngineStaysSound, OneAtATime,
           [SessionNext]_sessionVars
    PROVE  OneAtATime'
<1>1. /\ avs.reg \in request_registers => ~in_flight
      /\ avs.reg = "RESP_ACK" => resp_active
  BY BusFollowsText
<1>2. /\ todo \in Seq(SequentialPrograms) /\ BusShowsStore /\ AtMostOne
      /\ HardwareFollowsText
  BY DEF OneAtATime
<1>3. CASE ~stalled /\ ConfiguredCycle
  <2>1. write_fire => ~in_flight
    BY <1>1 DEF write_fire, writes, request_registers
  <2>2. AtMostOne' /\ FlightMoves
    BY <1>1, <1>2, <1>3, <2>1, FlightStep DEF ConfiguredCycle, FlightMoves, writes
  <2>3. ~avs_waitrequest
    BY <2>1 DEF avs_waitrequest, in_flight
  <2>4. CASE executing
    <3>1. IdleOrStore \/ Read \/ System
      BY <1>3, <2>3, <2>4 DEF ConfiguredCycle
    <3>2. configured'
      BY <1>3 DEF ConfiguredCycle
    <3>3. QED
      BY <2>2, <2>4, <3>1, <3>2, CpuFollowsText, BusAfterCpu DEF OneAtATime
  <2>5. CASE ~executing
    <3>1. avs' = NoWrite /\ UNCHANGED localVars
      BY <1>3, <2>3, <2>5 DEF ConfiguredCycle
    <3>2. ~in_flight /\ ~write_fire
      BY <1>2, <2>5 DEF HardwareFollowsText, BusShowsStore, NoWrite, write_fire, writes
    <3>3. QED
      BY <1>2, <2>2, <2>5, <3>1, <3>2 DEF localVars, OneAtATime, executing, FlightMoves,
         HardwareFollowsText, BusShowsStore
  <2>6. QED
    BY <2>4, <2>5
<1>4. CASE EmptyFabric /\ System /\ UNCHANGED vars
  <2>1. executing
    BY <1>4 DEF System, Again, Open, Arm, Disarm, Exit, TimeOut, does
  <2>2. avs = NoWrite /\ avs' = NoWrite
    BY <1>2, <1>4 DEF EmptyFabric, BusShowsStore, vars, shimVars
  <2>3. AtMostOne' /\ FlightMoves
    BY <1>2, <1>4, <2>2 DEF vars, shimVars, engineRegs, AtMostOne, FlightMoves, in_flight,
       NoWrite, write_fire, writes
  <2>4. BusShowsStore'
    BY <2>2 DEF BusShowsStore
  <2>5. QED
    BY <1>4, <2>1, <2>3, <2>4, CpuFollowsText DEF OneAtATime
<1>5. CASE UNCHANGED <<vars, localVars>> /\ (configured => configured')
  BY <1>2, <1>5 DEF vars, shimVars, engineRegs, localVars, OneAtATime, BusShowsStore,
     AtMostOne, HardwareFollowsText, executing, program, position, in_flight
<1>6. \/ ~stalled /\ ConfiguredCycle
      \/ EmptyFabric /\ System /\ UNCHANGED vars
      \/ UNCHANGED <<vars, localVars>> /\ (configured => configured')
  BY DEF SessionNext, EmptyFabric, Configure, WatchdogFires, sessionVars
<1>7. QED
  BY <1>3, <1>4, <1>5, <1>6

\* So sequential programs keep hardware and text together from the empty shim on.
LEMMA OneAtATimeHolds ==
    ASSUME Sessions \subseteq Seq(SequentialPrograms), ~MayTimeOut
    PROVE  SessionSpec => []OneAtATime
<1>1. SessionInit => OneAtATime
  <2> SUFFICES ASSUME SessionInit PROVE OneAtATime
    OBVIOUS
  <2>1. /\ todo \in Seq(SequentialPrograms) /\ pc = 1 /\ avs = NoWrite
        /\ ~pending_valid_r /\ \A t \in Host!Tag : ~slot_valid[t]
    BY DEF SessionInit, Init, Host!EngineInit
  <2>2. position = 1
    BY <2>1 DEF position
  <2>3. QED
    BY <2>1, <2>2, TextBegins DEF OneAtATime, BusShowsStore, AtMostOne, HardwareFollowsText,
       in_flight
<1>2. ControlOK /\ TypeOK /\ EngineStaysSound /\ OneAtATime /\ [SessionNext]_sessionVars
      => OneAtATime'
  BY StepOneAtATime
<1>3. QED
  BY <1>1, <1>2, ControlHolds, SessionTypes, SessionKeepsEngineSound, PTL DEF SessionSpec

\* In a session of such programs, none of which gives up, the hardware holds a
\* request exactly where the text has one outstanding.
THEOREM DriversHaveOneOutstanding ==
    ASSUME Sessions \subseteq Seq(SequentialPrograms), ~MayTimeOut
    PROVE  SessionSpec => []OneOutstanding
<1>1. OneAtATime => OneOutstanding
  BY DEF OneAtATime, OneOutstanding
<1>2. QED
  BY <1>1, OneAtATimeHolds, PTL

\* The answer that ends a driver's wait is the answer to the request it fired
\* last: no request is pending or on the bus when it sees one.
THEOREM DriversGetTheirAnswers ==
    ASSUME Sessions \subseteq Seq(SequentialPrograms), ~MayTimeOut
    PROVE  SessionSpec => []AnswersItsOwn
<1>1. ASSUME ControlOK, TypeOK, EngineStaysSound, OneAtATime, readdata.VALID
      PROVE  ~pending_valid_r /\ ~write_fire
  <2>1. resp_active /\ resp_tag_r \in Host!Tag
    BY <1>1 DEF readdata, Host!s2m_valid, TypeOK, Host!TypeOK, Host!EngineTypeOK
  <2>2. slot_valid[resp_tag_r]
    BY <1>1, <2>1 DEF EngineStaysSound, Host!ResponseIsOwed, Host!slot_done
  <2>3. in_flight /\ ~pending_valid_r
    BY <1>1, <2>1, <2>2 DEF in_flight, OneAtATime, AtMostOne
  <2>4. ~write_fire
    BY <1>1, <2>3, BusFollowsText DEF write_fire, writes, request_registers
  <2>5. QED
    BY <2>3, <2>4
<1>2. ControlOK /\ TypeOK /\ EngineStaysSound /\ OneAtATime => AnswersItsOwn
  BY <1>1 DEF AnswersItsOwn
<1>3. QED
  BY <1>2, OneAtATimeHolds, ControlHolds, SessionTypes, SessionKeepsEngineSound, PTL

\* A request reaches the engine as the driver fired it, although programs go on
\* and rewrite the live registers.
THEOREM DriversRequestsAreSeen ==
    ASSUME Sessions \subseteq Seq(SequentialPrograms), ~MayTimeOut
    PROVE  SessionSpec => []FiredIsSeen
<1>1. SessionInit => PendingIsAsFired
  BY DEF SessionInit, Init, PendingIsAsFired
<1>2. ASSUME ControlOK, TypeOK, OneAtATime, PendingIsAsFired, [SessionNext]_sessionVars
      PROVE  PendingIsAsFired'
  <2>1. QuietWhilePending
    BY <1>2, BusFollowsText DEF QuietWhilePending, in_flight, request_registers
  <2>2. CASE ShimCycle
    BY <1>2, <2>1, <2>2, CyclePending DEF PendingIsAsFired
  <2>3. CASE UNCHANGED vars
    BY <1>2, <2>3 DEF vars, shimVars, PendingIsAsFired, m2s
  <2>4. QED
    BY <1>2, <2>2, <2>3, SessionCycle DEF TypeOK
<1>3. ControlOK /\ TypeOK /\ OneAtATime /\ PendingIsAsFired /\ [SessionNext]_sessionVars
      => PendingIsAsFired'
  BY <1>2
<1>4. PendingIsAsFired => FiredIsSeen
  BY DEF PendingIsAsFired, FiredIsSeen
<1>5. QED
  BY <1>1, <1>3, <1>4, OneAtATimeHolds, ControlHolds, SessionTypes, PTL DEF SessionSpec

\* No such driver blocks the CPU for ever, if the fabric is configured first.
THEOREM DriversNeverWedge ==
    ASSUME Sessions \subseteq Seq(SequentialPrograms), ~MayTimeOut, ConfiguredFirst
    PROVE  SessionSpec => []NoWedge
<1> DEFINE Inv == configured /\ ~stalled
<1>1. SessionInit => Inv
  BY DEF SessionInit
<1>2. Inv /\ [SessionNext]_sessionVars => Inv'
  <2> SUFFICES ASSUME configured, ~stalled, [SessionNext]_sessionVars
               PROVE  configured' = configured /\ stalled' = stalled
    OBVIOUS
  <2>1. CASE ConfiguredCycle
    BY <2>1 DEF ConfiguredCycle
  <2>2. ~EmptyFabric /\ ~Configure
    BY DEF EmptyFabric, Configure
  <2>3. CASE WatchdogFires
    BY <2>3 DEF WatchdogFires
  <2>4. QED
    BY <2>1, <2>2, <2>3 DEF SessionNext, sessionVars
<1>3. ControlOK /\ OneAtATime /\ Inv => NoWedge
  BY BusFollowsText DEF NoWedge, wedged, bus_hung, avs_waitrequest, write_fire, writes,
     request_registers, in_flight
<1> HIDE DEF Inv
<1>4. QED
  BY <1>1, <1>2, <1>3, OneAtATimeHolds, ControlHolds, PTL DEF SessionSpec

-----------------------------------------------------------------------------
\* The drivers are the software of the shim.

\* The shim's constants describe the software of the sessions: it may set any
\* bias, it holds a request if all programs keep to one at a time, and it uses
\* every address with the cache on if they all do.
ConstantsFitSessions ==
    /\ BiasSettable = Host!Addr
    /\ HoldsRequest => ~MayTimeOut /\ Sessions \subseteq Seq(SequentialPrograms)
    /\ HoldsRequest /\ ~MixesBypass => Bypassed = {} /\ Sessions \subseteq Seq(CachedPrograms)

\* The programs still to run are programs of the session.
LEMMA StepTodo ==
    ASSUME NEW S, ControlOK, todo \in Seq(S), [SessionNext]_sessionVars
    PROVE  todo' \in Seq(S)
<1>1. CASE executing /\ (IdleOrStore \/ Read \/ System)
  <2>1. todo' = todo \/ todo' = Tail(todo)
    BY <1>1, CpuStep DEF Issues, Executes, JumpsBack, Returns, GivesUp, GoesOn, Leaves
  <2>2. Tail(todo) \in Seq(S)
    BY <1>1 DEF executing
  <2>3. QED
    BY <2>1, <2>2
<1>2. CASE UNCHANGED localVars
  BY <1>2 DEF localVars
<1>3. QED
  BY <1>1, <1>2, SessionStep

\* While a request is pending, a session of sequential programs does not write
\* the registers it shows.
LEMMA SessionHoldsRequest ==
    ASSUME ConstantsFitSessions, HoldsRequest
    PROVE  SessionSpec => []QuietWhilePending
<1>1. Sessions \subseteq Seq(SequentialPrograms) /\ ~MayTimeOut
  BY DEF ConstantsFitSessions
<1>2. ControlOK /\ OneAtATime => QuietWhilePending
  BY BusFollowsText DEF QuietWhilePending, in_flight, request_registers
<1>3. SessionSpec => []OneAtATime
  BY <1>1, OneAtATimeHolds
<1>4. QED
  BY <1>2, <1>3, ControlHolds, PTL

\* A session that leaves the cache on never has it bypassed.
CacheStaysOn == cache_bypass_en_r = FALSE /\ avs.reg # "CACHE_BYPASS"

\* A session whose programs never store to CACHE_BYPASS has the cache on.
LEMMA SessionLeavesCacheOn ==
    ASSUME Sessions \subseteq Seq(CachedPrograms)
    PROVE  SessionSpec => []CacheStaysOn
<1> DEFINE Inv == todo \in Seq(CachedPrograms) /\ CacheStaysOn
<1>1. SessionInit => Inv
  BY DEF SessionInit, Init, NoWrite, CacheStaysOn
<1>2. ControlOK /\ TypeOK /\ Inv /\ [SessionNext]_sessionVars => Inv'
  <2> SUFFICES ASSUME ControlOK, TypeOK, Inv, [SessionNext]_sessionVars
               PROVE  Inv'
    OBVIOUS
  <2>1. todo' \in Seq(CachedPrograms)
    BY StepTodo
  <2>2. cache_bypass_en_r' = FALSE
    <3>1. CASE ShimCycle
      BY <3>1 DEF ShimCycle, LatchedRegisters, writes, CacheStaysOn
    <3>2. CASE UNCHANGED vars
      BY <3>2 DEF vars, shimVars, CacheStaysOn
    <3>3. QED
      BY <3>1, <3>2, SessionCycle DEF TypeOK
  <2>3. avs'.reg # "CACHE_BYPASS"
    <3>1. CASE executing /\ (IdleOrStore \/ Read \/ System)
      <4>1. CASE Leaves
        BY <4>1 DEF Leaves, NoWrite
      <4>2. CASE \E n \in 1 .. Len(program) + 1 : GoesOn(n)
        <5>1. PICK n \in 1 .. Len(program) + 1 : GoesOn(n)
          BY <4>2
        <5>2. /\ Head(todo) \in DOMAIN programs /\ LeavesCacheOn(program)
          BY <3>1 DEF executing, CachedPrograms, program
        <5>3. Len(program) \in Nat
          BY <5>2, ProgramText DEF program
        <5>4. CASE avs' = NoWrite
          BY <5>4 DEF NoWrite
        <5>5. CASE n <= Len(program) /\ program[n].op = "store" /\ avs' = program[n].w
          BY <5>1, <5>2, <5>3, <5>5 DEF LeavesCacheOn
        <5>6. QED
          BY <3>1, <5>1, <5>4, <5>5, GoesOnAt
      <4>3. QED
        BY <3>1, <4>1, <4>2, CpuMoves
    <3>2. CASE avs' \in {avs, NoWrite}
      BY <3>2 DEF CacheStaysOn, NoWrite
    <3>3. QED
      BY <3>1, <3>2, SessionStep
  <2>4. QED
    BY <2>1, <2>2, <2>3 DEF CacheStaysOn
<1>3. Inv => CacheStaysOn
  OBVIOUS
<1> HIDE DEF Inv
<1>4. QED
  BY <1>1, <1>2, <1>3, ControlHolds, SessionTypes, PTL DEF SessionSpec

\* What the software may put on the bus, as far as the constants say.
SoftwareIsDisciplined ==
    /\ HoldsRequest => QuietWhilePending
    /\ HoldsRequest /\ ~MixesBypass => CacheStaysOn

\* What ShimProofs asks of software holds of a session whose text fits the
\* constants.
LEMMA SessionIsDisciplined ==
    ASSUME ConstantsFitSessions PROVE SessionSpec => []SoftwareIsDisciplined
<1>1. CASE ~HoldsRequest
  <2>1. SoftwareIsDisciplined
    BY <1>1 DEF SoftwareIsDisciplined
  <2>2. QED
    BY <2>1, PTL
<1>2. CASE HoldsRequest /\ MixesBypass
  <2>1. QuietWhilePending => SoftwareIsDisciplined
    BY <1>2 DEF SoftwareIsDisciplined
  <2>2. SessionSpec => []QuietWhilePending
    BY <1>2, SessionHoldsRequest
  <2>3. QED
    BY <2>1, <2>2, PTL
<1>3. CASE HoldsRequest /\ ~MixesBypass
  <2>1. QuietWhilePending /\ CacheStaysOn => SoftwareIsDisciplined
    BY DEF SoftwareIsDisciplined
  <2>2. SessionSpec => []QuietWhilePending
    BY <1>3, SessionHoldsRequest
  <2>3. SessionSpec => []CacheStaysOn
    BY <1>3, SessionLeavesCacheOn DEF ConstantsFitSessions
  <2>4. QED
    BY <2>1, <2>2, <2>3, PTL
<1>4. QED
  BY <1>1, <1>2, <1>3

\* So every store that the CPU puts on the bus is one that such software may make.
LEMMA CycleKeepsContract ==
    ASSUME ConstantsFitSessions, TypeOK', SoftwareIsDisciplined'
    PROVE  MayWrite(avs')
<1>1. bias_addr_r' \in BiasSettable
  BY DEF ConstantsFitSessions, TypeOK
<1>2. avs'.reg = "BIAS_ADDR" => avs'.addr \in BiasSettable
  <2>1. avs' \in BusWrites
    BY DEF TypeOK
  <2>2. QED
    BY <2>1, BusWriteFields DEF ConstantsFitSessions
<1>3. ASSUME HoldsRequest PROVE KeepsContract(avs')
  <2>1. avs'.reg \in {"REQ_ADDR", "REQ_WDATA", "CACHE_BYPASS"} => ~pending_valid_r'
    BY <1>3 DEF SoftwareIsDisciplined, QuietWhilePending
  <2>2. ASSUME ~MixesBypass
        PROVE  /\ avs'.reg = "REQ_FIRE" => cache_bypass_en_r' = (req_addr_r' \in Bypassed)
               /\ avs'.reg = "CACHE_BYPASS" => Bypassed # {}
    <3>1. cache_bypass_en_r' = FALSE /\ avs'.reg # "CACHE_BYPASS"
      BY <1>3, <2>2 DEF SoftwareIsDisciplined, CacheStaysOn
    <3>2. (req_addr_r' \in Bypassed) = FALSE
      BY <1>3, <2>2 DEF ConstantsFitSessions
    <3>3. QED
      BY <3>1, <3>2
  <2>3. QED
    BY <2>1, <2>2 DEF KeepsContract
<1>4. QED
  BY <1>1, <1>2, <1>3 DEF MayWrite

\* Every session of such programs is a behaviour of the shim under software that
\* keeps the contract, as far as the constants say: what ShimProofs proves of the
\* shim holds of it.
THEOREM SessionsImplementShim ==
    ASSUME ConstantsFitSessions PROVE SessionSpec => Spec
<1>1. SessionInit => Init
  BY DEF SessionInit
<1>2. ControlOK /\ TypeOK /\ TypeOK' /\ SoftwareIsDisciplined' /\ [SessionNext]_sessionVars
      => [Next]_vars
  BY SessionCycle, CycleKeepsContract DEF TypeOK, Next, BusCycle, BusMaster
<1>3. QED
  BY <1>1, <1>2, ControlHolds, SessionTypes, SessionIsDisciplined, PTL DEF SessionSpec, Spec

\* The drivers keep the contract that the shim's theorems ask of software.
THEOREM DriversKeepShimContract ==
    ASSUME ConstantsFitSessions PROVE SessionSpec => KeepsShimContract
<1>1. TypeOK' /\ SoftwareIsDisciplined' =>
          (~avs_waitrequest /\ todo \in Seq(SequentialPrograms) => MayWrite(avs'))
  BY CycleKeepsContract
<1>2. QED
  BY <1>1, SessionTypes, SessionIsDisciplined, PTL DEF KeepsShimContract

-----------------------------------------------------------------------------
\* What follows from the shim's theorems

\* Whatever the programs do, time limits included, the shim hands every request
\* over to its slot.
THEOREM SessionsHandOver ==
    ASSUME ConstantsFitSessions PROVE SessionSpec => PendingMovesToSlot
BY SessionsImplementShim, RequestsAreHandedOver

\* A hang that a program runs into lasts until the board resets.
THEOREM SessionHangNeverEnds ==
    ASSUME ConstantsFitSessions PROVE SessionSpec => HangIsForever
BY SessionsImplementShim, HangNeverEnds

\* The shim and the engine under the programs that keep the whole contract are an
\* EngineHost.
THEOREM DriversImplementHost ==
    ASSUME ConstantsFitSessions, KeepsWholeContract
    PROVE  SessionSpec => ImplementsEngineHost
BY SessionsImplementShim, ShimImplementsHost

\* What a program reads is what was written last to the address it read.
THEOREM DriversReadLastWritten ==
    ASSUME ConstantsFitSessions, KeepsWholeContract
    PROVE  SessionSpec => ReadReturnsLastWritten
BY SessionsImplementShim, ReadsReturnLastWritten

\* A program that holds a copy of a line keeps the device off it.
THEOREM DriversCopiesAreSafe ==
    ASSUME ConstantsFitSessions, KeepsWholeContract
    PROVE  SessionSpec => []HostCopyIsHostBiased
BY SessionsImplementShim, ShimHostCopiesAreSafe

\* To the programs the FPGA is a tagged memory.
THEOREM DriversSeeMemory ==
    ASSUME ConstantsFitSessions, KeepsWholeContract
    PROVE  SessionSpec => Host!ImplementsTaggedMemory
BY SessionsImplementShim, ShimImplementsMemory

=============================================================================
