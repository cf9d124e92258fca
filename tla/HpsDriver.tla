----------------------------- MODULE HpsDriver -----------------------------
(***************************************************************************)
(* The HPS beside the shim: a CPU that executes the programs of            *)
(* sw/hps_driver one after the other, its watchdog, and the FPGA fabric,   *)
(* which is empty until it is configured over JTAG (bugs.md, BUG-010).     *)
(* A behaviour is one power session: it ends when the board resets.        *)
(*                                                                         *)
(* While the fabric is configured a step is a clock edge of the shim; in   *)
(* each cycle the CPU may idle, so programs run at every speed, down from  *)
(* one register access per cycle.  A store that meets waitrequest blocks   *)
(* the CPU, and so does any access to an empty fabric: neither a signal    *)
(* nor the program's own time limit can end it, only a reset.              *)
(***************************************************************************)
EXTENDS AvalonShim, ShimTests

CONSTANTS
    Sessions,         \* the sequences of programs a session may run
    MayTimeOut,       \* whether five seconds may pass in a polling loop
    ConfiguredFirst,  \* whether the fabric is configured before any program runs
    WatchdogOpens     \* whether /dev/watchdog can always be opened

ASSUME SessionAssumption ==
    /\ Sessions \subseteq Seq(DOMAIN programs)
    /\ {MayTimeOut, ConfiguredFirst, WatchdogOpens} \subseteq BOOLEAN

\* The shim is wide enough for the programs, and their loops stay within them.
ASSUME ProgramAssumption ==
    \A q \in DOMAIN programs :
        /\ programs[q] \in Seq(Range(programs[q]))
        /\ \A n \in 1 .. Len(programs[q]) : LET i == programs[q][n] IN
              /\ i.op = "store" => i.w \in BusWrites \ {NoWrite}
              /\ i.op = "again" => i.back \in 1 .. n - 1

VARIABLES
    todo,      \* the programs still to run; the first is the one running
    pc,        \* its next instruction
    saved,     \* the counter values it read last
    seen,      \* the tags whose answers its drain loop took
    errors,    \* whether a program counted an error
    watchdog,  \* "off" or "armed"
    configured,   \* whether the fabric is configured
    stalled,      \* whether the CPU waits for an empty fabric
    board         \* "up" or "reset"

localVars == <<todo, pc, saved, seen, errors, watchdog>>
cpuVars == <<avs, localVars>>
sessionVars == <<vars, localVars, configured, stalled, board>>

program == programs[Head(todo)]
executing == todo # <<>>
at_end == pc > Len(program)
instr == program[pc]
does(op) == executing /\ ~at_end /\ instr.op = op

\* Between two programs nothing of the next one has run yet.
running == executing /\ pc > 1

SessionInit ==
    /\ Init
    /\ todo \in Sessions
    /\ pc = 1
    /\ saved = [reg \in {"CACHE_HITS", "CACHE_MISS"} |-> 0]
    /\ seen = {}
    /\ errors = FALSE
    /\ watchdog = "off"
    /\ configured = ConfiguredFirst
    /\ stalled = FALSE
    /\ board = "up"

-----------------------------------------------------------------------------
\* The CPU

\* What a read of a register returns in this cycle.
readdata == [
    VALID |-> Host!s2m_valid,
    IS_DATA |-> Host!s2m_is_data,
    RESP_TAG |-> Host!s2m_tag,
    RESP_RDATA |-> Host!s2m_rdata,
    BIAS_GET |-> bias[bias_addr_r],
    BI_PENDING |-> Host!bi_req_valid,
    BI_REQ_ADDR |-> Host!bi_req_addr,
    CACHE_HITS |-> dbg_cache_hits,
    CACHE_MISS |-> dbg_cache_misses,
    CACHE_BYPASS |-> cache_bypass_en_r]

\* Go on at instruction n; if that is a store, the next cycle may carry it.
Proceed(n) ==
    \/ pc' = n /\ avs' = NoWrite
    \/ /\ n <= Len(program) /\ program[n].op = "store"
       /\ pc' = n + 1
       /\ avs' = program[n].w

IdleOrStore == Proceed(pc) /\ UNCHANGED <<todo, saved, seen, errors, watchdog>>

\* Reads, in a cycle whose bus carries no store.
\* (faulty_...: wrong on purpose, see ProtocolEngine.)
faulty_bit_is_set == does("poll")
bit_is_set == does("poll") /\ readdata[instr.bit]

Poll ==
    /\ bit_is_set
    /\ Proceed(pc + 1)
    /\ UNCHANGED <<todo, saved, seen, errors, watchdog>>

Look ==
    /\ does("look")
    /\ Proceed(pc + 1)
    /\ UNCHANGED <<todo, saved, seen, errors, watchdog>>

Expect ==
    /\ does("expect")
    /\ errors' = (errors \/ readdata[instr.reg] # instr.value)
    /\ Proceed(pc + 1)
    /\ UNCHANGED <<todo, saved, seen, watchdog>>

Save ==
    /\ does("save")
    /\ saved' = [saved EXCEPT ![instr.reg] = readdata[instr.reg]]
    /\ Proceed(pc + 1)
    /\ UNCHANGED <<todo, seen, errors, watchdog>>

\* (faulty_...: wrong on purpose, see ProtocolEngine.)
faulty_counted_since(reg) == readdata[reg] - saved[reg]
counted_since(reg) == (readdata[reg] - saved[reg]) % CounterModulus

Delta ==
    /\ does("delta")
    /\ errors' = (errors \/ counted_since(instr.reg) # instr.by)
    /\ saved' = [saved EXCEPT ![instr.reg] = readdata[instr.reg]]
    /\ Proceed(pc + 1)
    /\ UNCHANGED <<todo, seen, watchdog>>

\* An answer in a drain loop: one that is awaited, or another.
TakeTag ==
    /\ does("take")
    /\ LET tag == readdata.RESP_TAG IN
       IF tag \in instr.tags \ seen
       THEN seen' = seen \cup {tag} /\ UNCHANGED errors
       ELSE errors' = (errors \/ instr.counts_others) /\ UNCHANGED seen
    /\ Proceed(pc + 1)
    /\ UNCHANGED <<todo, saved, watchdog>>

Read == avs = NoWrite /\ (Poll \/ Look \/ Expect \/ Save \/ Delta \/ TakeTag)

-----------------------------------------------------------------------------
\* What the CPU does without the bus

\* The drain loop's condition.
Again ==
    /\ does("again")
    /\ Proceed(IF seen = instr.tags THEN pc + 1 ELSE pc - instr.back)
    /\ UNCHANGED <<todo, saved, seen, errors, watchdog>>

Leave(watchdog_left) ==
    /\ todo' = Tail(todo) /\ pc' = 1 /\ seen' = {}
    /\ saved' = [reg \in DOMAIN saved |-> 0]
    /\ watchdog' = watchdog_left
    /\ avs' = NoWrite
    /\ UNCHANGED errors

Open ==
    /\ does("open")
    /\ \/ Proceed(pc + 1) /\ UNCHANGED <<todo, saved, seen, errors, watchdog>>
       \/ Leave(watchdog)

Arm ==
    /\ does("arm")
    /\ \/ /\ watchdog' = "armed"
          /\ Proceed(pc + 1) /\ UNCHANGED <<todo, saved, seen, errors>>
       \/ /\ ~WatchdogOpens
          /\ IF instr.required
             THEN Leave(watchdog)
             ELSE Proceed(pc + 1) /\ UNCHANGED <<todo, saved, seen, errors, watchdog>>

Disarm ==
    /\ does("disarm")
    /\ watchdog' = "off"
    /\ Proceed(pc + 1)
    /\ UNCHANGED <<todo, saved, seen, errors>>

Exit == executing /\ at_end /\ Leave(watchdog)

\* Five seconds pass in a polling loop whose bit is not set, or by the end of
\* an iteration of a drain loop.
faulty_limit_leaves == watchdog
limit_leaves == IF instr.timeout = "disarm and exit" THEN "off" ELSE watchdog

TimeOut ==
    /\ MayTimeOut
    /\ does("poll") \/ does("again")
    /\ instr.timeout # "never"
    /\ does("poll") => avs = NoWrite /\ ~bit_is_set
    /\ Leave(limit_leaves)

System == Again \/ Open \/ Arm \/ Disarm \/ Exit \/ TimeOut

-----------------------------------------------------------------------------
\* The fabric, the watchdog and the board

\* A clock edge of the shim.  A blocked CPU holds its store on the bus.
ConfiguredCycle ==
    /\ configured
    /\ ShimCycle
    /\ IF avs_waitrequest
       THEN UNCHANGED cpuVars
       ELSE IF executing THEN IdleOrStore \/ Read \/ System
       ELSE avs' = NoWrite /\ UNCHANGED localVars
    /\ UNCHANGED <<configured, stalled, board>>

\* With an empty fabric there are no registers: any access stalls the CPU.
accesses_bus ==
    executing /\ ~at_end /\ instr.op \in {"store", "poll", "expect", "save", "look",
                                          "delta", "take"}

EmptyFabric ==
    /\ ~configured /\ ~stalled
    /\ \/ accesses_bus /\ stalled' = TRUE /\ UNCHANGED <<vars, localVars>>
       \/ System /\ UNCHANGED <<vars, stalled>>
    /\ UNCHANGED <<configured, board>>

\* quartus_pgm.  A CPU that is stalled stays stalled.
Configure ==
    /\ ~configured
    /\ configured' = TRUE
    /\ UNCHANGED <<vars, localVars, stalled, board>>

wedged == stalled \/ bus_hung

\* The watchdog of a program that goes on finishes in time; that of a program
\* that is wedged, or has exited and left it armed, runs out.
WatchdogFires ==
    /\ watchdog = "armed"
    /\ wedged \/ ~running
    /\ board' = "reset"
    /\ UNCHANGED <<vars, localVars, configured, stalled>>

SessionNext ==
    /\ board = "up"
    /\ (~stalled /\ ConfiguredCycle) \/ EmptyFabric \/ Configure \/ WatchdogFires

SessionSpec == SessionInit /\ [][SessionNext]_sessionVars

\* The fabric's clock runs, the CPU goes on, and a watchdog that may fire does.
\* Nothing makes a loop run into its time limit, and nobody has to configure
\* the fabric.
CpuGoesOn == ConfiguredCycle /\ <<todo, pc>>' # <<todo, pc>>
Fairness ==
    /\ WF_sessionVars(board = "up" /\ ~stalled /\ ConfiguredCycle)
    /\ WF_sessionVars(board = "up" /\ ~stalled /\ CpuGoesOn)
    /\ WF_sessionVars(board = "up" /\ EmptyFabric)
    /\ WF_sessionVars(board = "up" /\ WatchdogFires)

FairSession == SessionSpec /\ Fairness

-----------------------------------------------------------------------------
\* Properties

\* The checks the programs make of the hardware never fail, however fast or
\* slow the CPU is: data survives evictions, tags are answered once, counters
\* move by what the access was, across their wrap-around too.
NoErrors == ~errors

\* No program blocks the CPU for ever.
NoWedge == ~wedged

\* The answer that ends a program's wait is the answer to the request it fired
\* last: "one outstanding request at a time -- so a single fixed tag is safe"
\* (host_driver_linux_phase56h.c, lines 75-77).
awaits_answer == does("poll") /\ instr.bit = "VALID" /\ program[pc + 1].op # "take"
AnswersItsOwn ==
    awaits_answer /\ readdata.VALID => ~pending_valid_r /\ ~write_fire

\* A request reaches the engine as the program fired it, although programs go
\* on and rewrite the live registers REQ_ADDR and REQ_WDATA.  The exceptions are
\* the two bursts that fire without waiting, where programs before them wrote
\* other lines: "no eviction stall interferes" (host_driver_linux_phase7.c,
\* lines 109-112) only if no line has to be written back.
burst_of == [phase7 |-> test_max_outstanding,
             phase234h |-> test_phase2h, phase23h |-> test_phase2h]
in_burst == /\ executing /\ Head(todo) \in DOMAIN burst_of
            /\ pc \in 3 .. 2 + Len(burst_of[Head(todo)])
writes_line(i, a) == i.op = "store" /\ i.w.reg = "REQ_ADDR" /\ i.w.addr = a
written_before ==
    \E a \in Host!Addr :
        /\ Host!View[a] # zero
        /\ \A i \in Range(burst_of[Head(todo)]) : ~writes_line(i, a)
FiredIsSeen == pending_valid_r /\ m2s # fired => in_burst /\ written_before

\* Phase 8's two loops measure what they are labelled with: every access of the
\* first hits, every access of the second misses (host_driver_linux_phase8.c,
\* lines 123-124 and 134-135).
MeasuresWhatItSays ==
    [][executing /\ Head(todo) = "phase8" /\ Host!accept_this_cycle =>
          /\ m2s.tag = 2 => dbg_cache_misses' = dbg_cache_misses
          /\ m2s.tag = 3 => dbg_cache_hits' = dbg_cache_hits]_sessionVars

\* The drivers of phases 5 to 8 do not leave the watchdog armed when they give up
\* or end.
ExitDisarms == ~running => watchdog = "off"

\* Every program of a session ends, unless one before it leaves the watchdog
\* armed (safe_probe does when it cannot open /dev/mem) and the board resets.
ProgramsFinish == <>(todo = <<>> \/ board = "reset")

\* A wedge ends in a reset of the board, not in a power cycle.
WedgeEnds == wedged ~> board = "reset"

=============================================================================
