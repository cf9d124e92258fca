# CXL-Lite memory-side cache: a TLA+ verification project

This directory models the CXL-Lite device of this repository — a CXL.mem-style
protocol engine with a bias table, a Back-Invalidate handshake and a write-back
cache, and the Avalon shim through which software drives it — together with the
software that drives it: every program of `sw/hps_driver` and every testbench of
`sim/`. TLC model-checks it, and TLAPS proves that the engine implements a tagged
memory, that the shim is a host as the engine needs it, the safety invariants of
both, that a driver whose text keeps to one request at a time finds a tagged
memory behind the shim, and that the testbenches of the engine pass, whatever the
latency and the host's delay. Every definition follows the source; `PROJECT.json`
names the lines.

## 1. The system

### Components

| component | state it keeps | operations | modelled by |
|---|---|---|---|
| **Bias table** `rtl/cxl_bias_table.sv` | one bit per address: Host-Biased or Device-Biased | clocked write, two combinational reads, reset | `CxlBiasTable` |
| **Protocol engine** `rtl/cxl_mem_protocol_engine.sv` | BI sequencer, flush FSM, per-tag slots, offered response, cache arrays, backing memory, two counters | one clock edge: accept a request, run the BI handshake, flush a victim, allocate, count down latencies, arbitrate and retire responses | `ProtocolEngine` |
| **Avalon shim** `rtl/cxl_avalon_shim.sv` | request address and data, bias address, bypass bit, one-deep pending request, wait request | decode a bus write, latch a request, free it when the engine is ready, turn acknowledgements into pulses, reset | `AvalonShim` |
| **CXL host** (as the testbenches play it) | the request it holds on the port, BI responder state | present a request and hold it, take responses, acknowledge and answer BIs after a delay, write biases | `EngineHost` (any), `EngineBench` (as coded) |
| **Engine testbenches** `sim/phase1`–`6`, `8` | position, loop guard, saved counters, answers seen | drive pins, clock, wait with a guard, check | `EngineTests`, `EngineBench` |
| **Shim testbenches** `sim/phase1h`, `3h`, `4h`, `8` | as the drivers | register programs | `ShimTests`, `HpsDriver` |
| **Drivers and probes** `sw/hps_driver/*.c` | position, saved counters, tags seen, error flag, watchdog | stores, polls with and without limit, checks, drain loops, watchdog, exits | `DriverPrograms`, `HpsDriver` |
| **HPS, fabric** | CPU stalled or not, fabric configured or not, watchdog | execute, stall, configure over JTAG, reset the board | `HpsDriver` |
| **Board** `quartus/` | none of the protocol's | wiring, pins, vendor IP, generated system | not modelled |

### How they interact

Software makes single-word writes and reads over one Avalon-MM bus. The shim
stores address and data in registers, and `REQ_FIRE` puts a request in the
one-deep pending register, whose bits are the engine's `m2s_valid`, `m2s_is_write`
and `m2s_tag`; the *address and data are the live registers*. The engine accepts
the request when five conditions hold together (`m2s_ready`): the tag's slot is
free, no handshake runs, the line is Device-Biased, no flush runs, and no dirty
victim stands in the way. Anything else stalls it ("stall, don't drop"), and the
engine resolves the reason itself: a Host-Biased line starts a Back-Invalidate,
which *software* must acknowledge and answer over the same bus; a dirty victim
starts a one-cycle flush to the backing memory. Accepted requests complete out of
order: writes and hits at once, misses after `READ_EXTRA_LATENCY` cycles; the
lowest done tag is put on offer until software acknowledges it.

### What is hard, and what correctness means

* **Coherence.** A line the host may hold a copy of is Host-Biased, so that the
  device never serves it without a Back-Invalidate. The response to one names no
  line: it flips whatever line is on the port at that moment.
* **Two stalling sequencers.** Flush and handshake are separate state machines
  that both stall the request and share the line it names. They must exclude each
  other, and the line a flush writes back must still be the one that was chosen.
* **Write-back.** No value is lost: a line replaced without a flush equals memory.
* **Out-of-order completion.** Each accepted request is answered once, under its
  tag, with the value that was current when it was accepted, and an answer on
  offer stays there.
* **Progress.** A stalled request is accepted in the end; an accepted one is
  answered in the end, except that lower tags can starve a higher one.
* **The register interface.** Two registers, one pending slot and one engine
  slot agree on who holds the request; software sees none of these hand-overs.
* **Reset.** Bias, sequencers and response port have a reset; slots, cache and
  memory only have an `initial` block.
* **Bypass.** The bypass bit is a register that changes between two cycles,
  whatever the flush FSM is about to do.
* **Software that gives up.** Loops have time limits; what a program leaves in the
  engine (a request, a half-done handshake, dirty lines, biases, an armed
  watchdog) is what the next program starts on.
* **A processor that waits for itself.** A store the shim holds with waitrequest
  blocks the only processor that could answer the Back-Invalidate it waits for, and
  an access to an empty fabric blocks it too. No time limit of a program helps.

`PROJECT.json` lists these as hazards, each at the line where it bites, with the
properties that would catch it.

## 2. The modules

| module | extends or instantiates | used by |
|---|---|---|
| `CxlBiasTable` | | `ProtocolEngine` |
| `ProtocolEngine` | `CxlBiasTable` | `EngineHost`, `EngineBench` |
| `EngineHost` | `ProtocolEngine`, `TaggedMemory` (instance) | `MCEngine` (TLC), `EngineProofs` (TLAPS) |
| `ClockProofs` | `ProtocolEngine` | `EngineProofs`, `BenchProofs` |
| `EngineProofs` | `EngineHost`, `ClockProofs` | `AvalonShim` |
| `AvalonShim` | `EngineProofs` (instance) | `MCShim` (TLC), `ShimProofs` (TLAPS), `HpsDriver` |
| `HpsDriver` | `AvalonShim`, `ShimTests` → `DriverPrograms` → `Instructions` | `DriverDiscipline` |
| `DriverDiscipline` | `HpsDriver` | `MCDriver`, `MCDriverTexts` (TLC), `DriverProofs` (TLAPS) |
| `DriverProofs` | `DriverDiscipline`, `ShimProofs` | `AnswerProofs` |
| `AnswerProofs` | `DriverProofs` | |
| `EngineBench` | `ProtocolEngine`, `EngineTests` → `Instructions` | `BenchDiscipline` |
| `BenchDiscipline` | `EngineBench` | `BenchReference`, `BenchProofs` (TLAPS) |
| `BenchReference` | `BenchDiscipline` | `MCBench` (TLC), `ReferenceProofs` (TLAPS) |
| `BenchProofs` | `BenchDiscipline`, `ClockProofs` | `ReferenceProofs` |
| `ReferenceProofs` | `BenchReference`, `BenchProofs` | `WaitProofs` |
| `WaitProofs` | `ReferenceProofs` | |

* **`CxlBiasTable`** — the table, its reset and its single write port. An address
  is the pair (cache tag, index) the engine takes it apart into.
* **`ProtocolEngine`** — the engine. One step is one rising clock edge. Registers
  are variables, wires are operators with the wire's name (`want_bi`, `m2s_ready`,
  `cache_hit_eff`, ...), and each `always_ff` block is an operator that gives its
  registers their next values: `BiSequencer`, `BiasWrite`, `EvictionFlush`,
  `Response`, `Slots`, `CacheArrays`, `BackingMemory`, `Counters`. `Clock` conjoins
  them, so all read the state before the edge, as the RTL does. `ResetClock` is a
  cycle with `rst_n` low. The M2S port and the bypass pin belong to the
  environment; one-cycle pulses are parameters of `Clock`.
* **`EngineHost`** — the engine with a host that keeps the valid/ready contract,
  as the testbenches do: a stalled request stays as it is; everything else (what to
  request, when to take answers, when to acknowledge and answer a handshake, when
  to write a bias) is free. `host_copy` and `bi_taken` record what such a host
  knows: which lines it may hold a copy of, and which line it was told to
  invalidate. Like the shim, whose bus carries one write at a time, this host does
  not write a bias in the cycle of a BIRsp.
* **`TaggedMemory`** — what the engine promises: a memory whose requests take
  effect one at a time in the order they are accepted, answered later in any
  order, each once and under its tag. It sees the two ports of the host (the
  request, the answer on offer) and nothing of cache, bias or latencies.
* **`AvalonShim`** — the shim, with the engine as `INSTANCE EngineProofs` (which is
  `EngineHost` with its theorems) whose port is substituted by the pending bits and
  the live registers. `avs` is the write on the bus; software is a nondeterministic choice of the next one. Three constants
  say how disciplined it is: `HoldsRequest` (leaves request and bypass registers
  alone while a request is pending), `MixesBypass` (uses one address cached and
  bypassed), `ResetsMidRun`. `fired` and `written` are history variables.
* **`Instructions`, `DriverPrograms`, `ShimTests`, `EngineTests`** — the programs and
  testbenches as sequences of instructions: stores, polls with what happens at
  their limit, checks, saved counters, drain loops, watchdog calls. Loops with a
  constant trip count are unrolled; each program has the name of its function.
* **`HpsDriver`** — the CPU that executes sequences of programs ("sessions") over
  the shim, its watchdog, and the fabric, which is empty until it is configured.
  In each clock cycle the CPU may idle, so programs run at every speed down to one
  register access per cycle. A store that meets waitrequest, or any access to an
  empty fabric, blocks the CPU. A session ends when the board resets.
* **`DriverDiscipline`** — what the text of a program promises, as predicates of its
  instruction sequence: one request outstanding at a time (`Sequential`), the
  watchdog disarmed wherever the program may leave (`DisarmsOnLeaving`), checks that
  expect what the program itself has fired (`ChecksItsAnswers`), accesses that hit or
  bypass (`MeasuresInText`); and the properties that say what the hardware does while
  such a program runs.
* **`EngineBench`** — a testbench beside the engine: an edge of the clock with the
  instruction that waits for it, or what happens between two edges; phase 4's
  `HostBiModel` with any delay in a range.
* **`BenchDiscipline`** — when the text of a testbench is `Attentive`: it fires
  requests one by one, each after the wait for `m2s_ready`; takes an answer it has
  seen, or drains as many as there are; and has `s2m_ready` high only while no answer
  can come that it does not look at. All seven are (`AttentiveAssumption`, which TLC
  evaluates; it does not depend on the constants). The draft of phase 2's second test
  that `sim/phase2/tb_protocol_engine.cpp` 62–71 tells of is not.
* **`BenchReference`** — the engine without its timing: a record of bias table, cache,
  memory, counters and answers that each instruction of a text changes as a whole
  (`Step`, folded over the text by `reference`). What a testbench expects is stated as
  rules about this reference (`ExpectsReference`), and so is that a loop waits for
  something that comes, with a guard that leaves time for it (`WaitsLongEnough`).
  `ReferenceAssumption` says that the texts keep these rules; TLC evaluates it.
  `EngineFollowsReference` and the predicates after it relate the engine to it.
* **`MCEngine`, `MCShim`, `MCBench`, `MCDriver`** — model values and the named
  bounds. `MCDriverTexts` adds which programs have which discipline.
* **`ClockProofs`** — lemmas about a clock edge of the engine in any environment.
* **`EngineProofs`, `ShimProofs`, `DriverProofs`, `AnswerProofs`, `BenchProofs`,
  `ReferenceProofs`, `WaitProofs`** — the theorems.

Operators named `faulty_...` are deliberately wrong variants of the definition
that follows them. No specification uses them; each is put in place of the
original to confirm that a property notices the slip.

## 3. The runs

| run | configuration | what it checks |
|---|---|---|
| `engine_core` | 2 addresses on 1 line, 2 data values, 2 tags, latency 1, any bias writes | types, the safety invariants, implements `TaggedMemory` |
| `engine_bypass` | 4 addresses on 2 lines, 1 tag, latency 0, one bypassed address, no bias set on a cached line | the inductive invariant; no Host-Biased line is cached; implements `TaggedMemory` |
| `engine_live` | 1 line, 3 tags, 1 data value, fairness | `RequestIsAccepted`, `RequestIsAnswered` |
| `shim_contract` | 3 addresses on 1 line, 1 tag, disciplined software | the shim implements `EngineHost`; reads return the last write; the request seen is the request fired |
| `shim_any_software` | 2 addresses, 1 tag, latency 1, any software, resets, clock fairness | engine soundness, hand-over of requests, which bus stalls end and which do not |
| `bench` | the seven engine testbenches, BI answered after 0 to 6 cycles | every check passes and no guard runs out; the engine is where the reference is; the slots hold the requests that the text has outstanding; no answer is missed |
| `driver_sessions` | 14 programs and testbenches alone, 36 pairs of hardware drivers, every CPU speed | checks pass, no wedge, each wait ends with its own answer, which is as the text expects; requests are seen as fired; sequential programs have one request in the hardware and keep the shim's contract; phase 8 measures hits and misses |
| `driver_gives_up` | pairs of drivers of phases 5–8, loops may time out anywhere, fabric configured at any time | no exit leaves the watchdog armed; wedges end in a reset; programs end |
| `shim_live_registers` | 2 addresses, any software | **violated**: the flipped line is not the invalidated one |
| `shim_bypass_frozen` | any software | **violated**: a flush touches the cache while it is bypassed |
| `driver_stale_answer` | phase56h, times out, run again | **violated**: a wait ends with the answer to an earlier program's request |
| `driver_bus_hang` | phase234h times out, then host_driver_linux | **violated**: the bus is stalled for ever |

### What they show

The passing runs show the engine sound for every host that holds its request
stable, and the shim to be such a host as long as software does not touch
`REQ_ADDR`, `REQ_WDATA` or `CACHE_BYPASS` while a request is pending. Even for
arbitrary software, completions are never phantom or doubled and no request is
lost or duplicated on its way from the bus into a slot; a bus stalled by a second
`REQ_FIRE` comes free by itself exactly when an eviction is all that its request
waits for.

The drivers do *not* keep that discipline (two bursts fire without waiting), and
still, as long as no loop runs into its limit, all checks of the hardware drivers
hold, alone and after any other, at every CPU speed, and none wedges the bus. `FiredIsSeen` says where the
luck ends: the bursts of `host_driver_linux_phase7.c` and of `test_phase2h` rewrite
`REQ_ADDR` while a request may be held, and only a cache without dirty lines of
earlier programs keeps a flush from holding it.

The violations are disagreements between the code and what the repository says:

1. **Live address register.** The shim's comment says the request is latched at
   `REQ_FIRE`; only three of its five fields are. Software that has seen `REQ_FIRE`
   complete and prepares its next request can change the request the engine is
   holding. In the run: a line A is Host-Biased and requested, software
   acknowledges the BI for A, writes `REQ_ADDR = B`, answers the BI — and B flips.
   No status bit tells software when the pending register has been freed.
2. **Bypass and flush.** "The cache arrays are left completely untouched while
   bypassed" and "`do_flush_write_this_cycle` can't be true while bypassed" fail for
   one cycle: the decision to flush is registered. The flush itself is harmless
   (it writes back the right line), the claim is not true.
3. **A late answer.** `do_req` uses one tag and checks none, "safe" because one
   request is outstanding. After a timeout the request is still there, and the next
   run's first wait ends with its answer; all later waits are one answer off.
4. **A bus that waits for itself.** `host_driver_linux.c` takes waitrequest for all
   the flow control it needs. If the program before it gave up during a handshake,
   its `REQ_FIRE` never retires: only the same bus could answer the handshake.

Further disagreements, which the modelling met and no run is spent on:

* The manual (4.3) asks that data match whether the cache is on or off. A bypassed
  read after a cached write misses the dirty line; the roadmap documents the reverse
  staleness as a tradeoff. With each address used in one mode only, reads are right
  (`shim_contract`, `ReadsReturnLastWritten`).
* The shim's comment on its bypass reset says it "matches cache_valid's own
  all-invalid reset": `cache_valid` has an `initial` block and no reset.
* `README.md` 80–81 calls "never cache a Host-Biased line" true by construction.
  `BIAS_SET` on a cached line makes it false (BUG-011); `HostBiasedIsNotCached` is
  checked and proved for hosts that do not do this.
* `README.md` 195–196 and `bugs.md` 141 say that every hardware driver arms the
  watchdog: `host_driver_linux.c`, `host_driver_linux_extended_test.c` and
  `diag_bias_readonly.c` do not.
* `phase7.c` 109–112 rules out eviction stalls in its burst. In the README's order
  of the hardware tests the cache is full of dirty lines by then. With one store
  per cycle the stalled write is even accepted under the next address.
* `host_driver_linux_phase234h.c` (57–66, 143–148) exits at a limit with the watchdog
  armed, as does `safe_probe.c` (54–56) when it cannot open `/dev/mem`. The drivers
  of phases 5 to 8 disarm (`ExitDisarms`), which is why that run has only these.
* `phase56h`'s check "first touch of index 5" is false after `host_driver_linux`, which
  leaves 0x05 cached; the README's order does not run that driver.

### Bounds, and why they are enough

* **Addresses.** Two or three cache tags on one line make every access collide;
  hit, clean miss, dirty miss and refill all occur with two. Lines interact only
  through the request port, and `engine_bypass` has two lines to confirm that a
  flush, a fill and a bypassed write leave the other line alone.
* **Tags.** Two tags give out-of-order completion, reuse of a tag while another is
  outstanding and arbitration; three are the least with which two tags can starve
  another, so `engine_live` has three.
* **Latency.** 0 or 1 in the free runs; non-zero where reads are to be overtaken by
  later writes. The driver and bench runs have the RTL's 3. `slot_cnt` ranges over
  `0 .. ReadExtraLatency`, which fits its `CNT_W` bits for every latency: the type
  invariant shows that it neither wraps nor grows.
* **Data.** Two values distinguish "current" from "stale"; one where data is not
  what the run is about. In `engine_core` one of its two addresses is written with
  either value, the other with the one that is not its initial value.
* **`CounterModulus = 1`** in the engine and shim runs: nothing there reads the
  counters. In the driver and bench runs, where checks compare differences, it is
  8 and 4, so that the counters wrap within a program as they do at 2^32. The
  proofs hold for every modulus.
* **Drivers and benches** run with the real geometry (16 tags, 16 lines, 8-bit
  addresses, 32-bit words of which only those a program names occur).
  `N_ITERS = 3` in place of phase 8's 2000 accesses per loop: from the second on,
  all do the same. `RspDelays = 0 .. 6` includes the testbench's 4.
* **Sessions** are single programs and pairs: a program reads only what cache,
  memory, biases and counters hold, and two programs suffice for one to start on
  whatever another leaves. The runs with time limits have three pairs, since every
  poll adds an exit.
* **`PortValues`.** Payload that nothing reads (beside a low `m2s_valid`; write data
  beside a read) has one value in the MC modules.
* In `engine_live`, one address is only read and the other only written, one
  address's bias may be set, and the host does not set the bias of its own stalled
  request; without the last restriction a host could make a line Host-Biased again
  after every handshake and stall its own request for ever.

### Fairness

`FairSpec` assumes weak fairness of the clock, of taking an answer that stays on
offer, of acknowledging a Back-Invalidate and of answering it. The clock runs; the
three others are the polling loops of the host (`poll_status_valid`, `do_req`,
`test_phase4h` in `sw/hps_driver`, `HostBiModel` in `sim/phase4`), which wait for
exactly these conditions, and each condition stays until it is served. Nothing is
assumed about new requests or bias writes. The engine itself gets no fairness
beyond the clock: what it does in a cycle is determined.

`RequestIsAnswered` carries the condition that lower tags are eventually no longer
accepted. That is the code's: the arbiter takes the lowest done tag, and without
the condition TLC finds two low tags served in turn for ever.

In `shim_any_software` fairness is that of the clock alone. `FairSession` assumes
the clock, that the CPU goes on, and that a watchdog that may fire does; nothing
makes a loop run into its limit, and nobody has to configure the fabric.

The engine, shim and bench have no deadlock, and their runs leave TLC's deadlock
check on (a testbench that has ended stutters by an action of its own). A driver
session really ends, with the reset of the board or with a stalled CPU that no
watchdog guards, so those configurations say `CHECK_DEADLOCK FALSE`.

## 4. The proofs

The theorems hold for every number of tags, cache geometry, data set, latency,
counter width and division of the addresses into cached and bypassed ones, from the
named assumptions on the constants alone.

### `EngineProofs`: the engine under a host that holds its request

* `TypeCorrect`, `InvariantHolds` — `Spec => []TypeOK`, `Spec => []IInv`.
* `HostCopiesAreSafe`, `HandshakeIsForTheRequest`, `EvictionLosesNothing`,
  `FlushIsOfTheVictim`, `ResponsesAreOwed`, `SequencersExclude` — the safety
  invariants of `engine_core`, as consequences of `IInv`.
* `HostBiasedNeverCached` — under `~SetsResidentBias`.
* `EngineImplementsMemory` — every step maps to a step of `TaggedMemory` or stutters.

The type invariant is inductive by itself. The safety invariants are not:

* `HostCopyIsHostBiased` needs `BiNamesPendingLine`: the flip clears the bias of the
  line on the port, so one has to know that this is the line the host took in
  `BI_REQ`. That in turn needs the request to be on the port throughout the
  handshake, which is what `m2s_ready` and the host's contract give together
  (`KeepsRequestDuringBi`).
* `CleanLineMatchesMemory` needs `PortMatchesBypass` and `CachedIsNotBypassed`: a
  bypassed write changes memory under a clean line only if that line can be cached.
* `ResponseIsOwed` needs no host at all: an accept requires the slot to be free, so
  it cannot take the slot of the response on offer (`ClockKeepsResponseIsOwed`).

`IInv` is their conjunction; `engine_bypass` checks it with TLC. `NextIsClock` shows
that every step of the host is a clock edge with some pulses, one lemma per conjunct
treats a clock edge, and `StepKeepsIInv` puts them together.

The refinement maps the store to `View` (the cached word of a resident line, else
memory's). An accept changes it as the abstract write does (`ViewStep`, which splits
on hit, allocation, flush and bypass, and uses `CleanLineMatchesMemory` where a clean
line is replaced); what a read captures is the view (`ReadDataIsView`); a busy slot
keeps its answer (`SlotKeepsAnswer`); `EdgeIsMemoryStep` combines store, slots and
ports.

### `ShimProofs`: the shim, under any software and under software that keeps the contract

Any software, any reset: `ShimTypeCorrect`, `EngineIsSound`, `RequestsAreHandedOver`,
`HangNeverEnds`. These need nothing of the port, only the engine's lemmas about a clock
edge and about `ResetClock`.

`FiredRequestIsSeen` assumes `HoldsRequest`. Under `KeepsWholeContract` (also no mixed
bypass and no reset), with the inductive invariants `QuietWhilePending`,
`BusFollowsContract` and `ContractInv`: `ShimImplementsHost` — the shim implements
`EngineHost`; with `EngineProofs` it follows that it implements `TaggedMemory`, and
`ShimHostCopiesAreSafe`, which `shim_live_registers` shows to be false without the
contract. `ReadsReturnLastWritten` adds `ViewIsWritten`: what a read would return is
what the history variable says was last written. `ShimImplementsMemory` composes the
two refinements.

### `DriverProofs`: the drivers over the shim

These theorems are about sessions of any length, of any programs whose *text* has a
stated discipline, at every speed of the CPU. The disciplines are predicates of an
instruction sequence (`DriverDiscipline`); `MCDriverTexts` has TLC evaluate them on the
programs of the repository (`MeasuresInText` for `N_ITERS = 3`):

| text discipline | what it says | the programs that have it |
|---|---|---|
| `Sequential` | one request at a time, its registers left alone, its answer awaited before it is acknowledged, none left at the end | all but the three with bursts or drain loops (`phase234h`, `phase23h`, `phase7`) |
| `LeavesCacheOn` | no store to `CACHE_BYPASS` | all but `phase8`, `tb_phase8` |
| `DisarmsOnLeaving` | where the watchdog may be armed, only an exit that disarms it leaves | all but `phase234h`, `phase23h`, `safe_probe` |
| `ChecksItsAnswers` | each check is of its own answer, and of a read expects the word it fired there last, or zero where no program of the session writes | `host_driver_linux`, `phase56h`, `safe_probe`, `tb_phase1h`, and `host_driver`, `extended_test` |
| `MeasuresInText` | requests with tag 2 access again what is cached, those with tag 3 bypass | `phase8` |

* `DriversDisarm` — under `DisarmsOnLeaving`, `ExitDisarms`, with time limits that may
  run out anywhere and a watchdog that may fail to open. The invariant is
  `ArmedByText`: the watchdog is armed only where the text says so.
* `SessionKeepsEngineSound` — no hypothesis: any programs, any time limits.
* `DriversHaveOneOutstanding`, and from it `DriversGetTheirAnswers`,
  `DriversRequestsAreSeen`, `DriversNeverWedge` — under `Sequential` and no time limit
  that runs out. `driver_stale_answer` and `driver_bus_hang` show that the last
  hypothesis is needed. The inductive invariant, `OneAtATime`, ties text and hardware
  at `position`, the instruction of the store that is on the bus: a request is
  outstanding in the text if and only if shim or engine hold one; where the text has
  awaited its answer, that answer is on offer. Of the clock edge it needs only
  `FlightStep` (a `REQ_FIRE` brings a request, the acknowledgement of its answer ends
  it); the rest is about the text.
* `SessionsImplementShim` — every session is a behaviour of `AvalonShim`'s `Spec`,
  whose software is as disciplined as the texts are (`ConstantsFitSessions`). So the
  theorems of `ShimProofs` hold of the drivers: `DriversKeepShimContract`,
  `SessionsHandOver`, `SessionHangNeverEnds`, and for sequential programs with the cache
  on `DriversImplementHost`, `DriversReadLastWritten`, `DriversCopiesAreSafe` and
  `DriversSeeMemory`: driver → shim → `EngineHost` → `TaggedMemory`.
  (`HoldsRequest`, `MixesBypass` and `BiasSettable` only describe the software in
  `Spec`; a session does not mention them.)

### `AnswerProofs`: what the drivers read

* `DriversAnswersAsExpected` — under `ChecksItsAnswers`, every tag, kind and word that a
  program checks is there and is the expected one, whatever was evicted and refilled
  in between. `DriversFindNoErrors`: a program that checks nothing else ends without
  an error. The argument is a chain: the registers hold what the text has stored last
  and the request in the hardware is the one it has fired last (`TextInv`); memory as it will be when that
  request is performed (`settled`) holds what the text has left there, and the slot of
  a read holds the last word written to its address (`DataInv`, from
  `DriversReadLastWritten`).
* `Phase8Measures` — under `MeasuresInText`, phase 8's first loop always hits and its
  second always misses, after any sequential programs (`CacheFollowsText`: a line that
  the text has accessed with the cache on, and nothing else since, is resident).

The predicates quantify over instruction numbers, and one lemma each says what the
next instruction changes (`OutstandingStep`, `LastStep`, `WordStep`, ...), so that no
induction over the text is needed. That there is a last instruction of a kind
(`LastOfThem`) comes from the well-foundedness of the naturals.

### `BenchProofs`: the testbenches of the engine

For any latency, cache geometry and delays of the host model that the testbenches'
requests fit into (`TestAssumption`):

* `BenchKeepsEngineSound` — types, `FlushBiExclusive`, `ResponseIsOwed` and
  `DirtyLineIsValid`, whatever the text does: phase 4 even drives another request
  between two edges of a handshake, a step that no host of `EngineHost` takes, so
  that only what `ClockProofs` says of every environment can be used.
* `BenchSlotsFollowText` and `BenchMissesNoAnswer` — the requests in the engine are
  those the text has outstanding, and no answer is consumed unseen (BUG-005). This
  uses `Attentive` and ties text and engine in both directions at every instruction:
  pins (`PinsFollowText`), slots (`SlotsFollowText`), what is accepted and on offer
  (`PortsFollowText`), and the handshake that a loop waits for (`BiFollowsText`). None
  of the four is inductive alone: that an edge frees exactly the slot of an answer the
  text takes (`TakesAsText`) needs the slots, the pins and the ports; that it fills
  exactly the slot of a request the text fires (`AcceptsAsText`) needs the handshake
  too; and a drain loop that has noted as many answers as are owed has noted all of
  them, because the noted ones are different and owed.

### `ReferenceProofs` and `WaitProofs`: the testbenches pass

* `BenchFollowsReference` — at every point of every testbench cache, bypass, counters
  and owed answers are those of the reference; bias table, dirty bits and memory are
  too, except that the handshake and the flush of the request on the port may already
  be over (`half_done`). Firing a request catches up with the reference
  (`FiresAsReference`) because it is accepted only when both are.
* `BenchesPass` — no check fails and no loop runs into its guard. Its inductive
  invariant `Passes` adds to the above:
  * what each loop still has to wait: `cycles_to_ready` bounds the cycles to
    `m2s_ready` through handshake, host delay and flush, and decreases at every edge
    (`ReadyLoopNears`; the host may choose its delay anew, so "for every delay before
    there is one after"); `AnswerLoopsEnd` counts down the slots and, in a drain loop,
    two cycles per answer. Together with a guard that leaves that much when the loop
    begins, no guard runs out (`NoGuardRunsOut`);
  * the order of answers: right after two requests in a row the slots count down from
    the latencies of the reference (`OrderFollows`), so that the drain loop notes the
    later write before the earlier read (`FirstFollows`), and what it has noted is
    each tag once, with the reference's answer (`NotedFollow`);
  * that phase 4 has seen, or will see, the Back-Invalidate it watches for
    (`WatchFollows`).

Three things come from the constants and not from the proof. `TestAssumption` is that
the requests fit the engine. `ReferenceAssumption` is that the texts keep their rules;
TLC evaluates it for the geometry of the RTL with latency 3 and delays up to 6, and in
trials it holds for latencies 2 to 49 and delays up to 94. Below, the write of phase 2
no longer overtakes the read; above, a guard of 50 or 100 cycles is too short. So a
change of latency or of the host's delay within these bounds cannot break a testbench.
`RspDelaysAssumption` is that the host answers after some delay. What the rules do not
say, and the proof shows, is that the engine with its flushes, handshakes, slots and
arbiter does what an engine without them would do.

### Only model-checked

* Liveness: `RequestIsAccepted`, `RequestIsAnswered`, `StallEnds`, `WedgeEnds`,
  `ProgramsFinish`. They rest on fairness and `ENABLED`.
* `NoErrors` where a program compares counters, bias bits or tags of a drain loop, and
  all driver properties of the programs with bursts (`phase7`, `phase234h`,
  `phase23h`): there several requests are outstanding, and the properties hold
  because of what the programs before have left in the cache. Each is a finite
  program, so that a run is the whole of it, up to the bounds above.

## 5. Not modelled

* The heartbeat counter and the seen flags of the shim: they only drive LEDs.
* Bits of a word, the numbering of registers and of tags in `REQ_FIRE`: a bus write
  is a record with the fields the shim extracts.
* Unreachable encodings of the state registers (the `default` branches).
* Metastability, timing, clock domains; the board's wiring and vendor IP; the copy
  of the RTL under `quartus/ip/cxl_avalon_shim`, which is identical to `rtl/`.
* Printing, statistics and waveforms of drivers and testbenches; the watchdog's
  keepalive calls (the watchdog of a program that goes on is taken not to run out);
  `startup.s`, `linker.ld`, `uart.c`.
* A host that writes to the copy it holds of a Host-Biased line: no code does.

## 6. Plan

Done: the engine, the shim, all drivers and testbenches; the refinements driver →
shim → `EngineHost` → `TaggedMemory`, checked and proved; the safety properties of
the sequential drivers, and that the testbenches of the engine pass, proved from their
texts. Every invariant that a run checks is the subject of a theorem.

What could follow:

1. A reference like `BenchReference` for the drivers with bursts, whose requests are
   accepted at a time that the text does not fix.
2. The counters in the drivers' texts: a delta that the text expects is the number of
   accesses since the save, whose hits and misses the text determines.
3. A coherence specification above `EngineHost` in which the host may write its
   copy, to state what BUG-011 loses and under which discipline nothing is lost.
4. Drivers that drain on entry and answer a pending handshake before they fire: the
   sessions with time limits would then satisfy `AnswersItsOwn` and `NoWedge`.
