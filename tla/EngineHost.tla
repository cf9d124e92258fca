----------------------------- MODULE EngineHost -----------------------------
(***************************************************************************)
(* The protocol engine and a host that keeps the M2S valid/ready contract  *)
(* the engine relies on ("the host holds m2s_valid/m2s_addr stable while   *)
(* stalled", rtl/cxl_mem_protocol_engine.sv lines 24-27 and 194-195), as   *)
(* the testbenches sim/phase*/tb_*.cpp drive it.  The host takes answers   *)
(* when it likes, answers Back-Invalidates when it likes, and sets biases  *)
(* through the debug port.  Like the Avalon shim, it does not write a bias *)
(* in the cycle in which it answers a Back-Invalidate.                     *)
(***************************************************************************)
EXTENDS ProtocolEngine

CONSTANTS
    None,
    PortValues,   \* what the host drives on the M2S request port
    Bypassed,     \* the addresses the host uses with the cache bypassed; it
                  \* uses all others with the cache enabled
    BiasSettable, \* the addresses whose bias the host may set
    SetsPendingBias, \* whether it may set the bias of its stalled request
    SetsResidentBias \* whether it may make a line Host-Biased that is cached

ASSUME PortValuesAssumption == PortValues \subseteq M2S
ASSUME BypassedAssumption == Bypassed \subseteq Addr
ASSUME BiasSettableAssumption == BiasSettable \subseteq Addr
ASSUME SetsBiasAssumption == {SetsPendingBias, SetsResidentBias} \subseteq BOOLEAN

\* What the host gets for a request, as TaggedMemory sees it: an acknowledgement
\* or a word read.  None is neither that nor an answer on offer.
Answer == [is_data : {FALSE}] \cup [is_data : {TRUE}, rdata : Data]
ASSUME NoneAssumption == None \notin Answer \cup [tag : Tag, answer : Answer]

VARIABLES
    host_copy,   \* the lines the host may hold a copy of
    bi_taken     \* the line of the Back-Invalidate the host acknowledged

hostVars == <<host_copy, bi_taken>>
vars == <<engineVars, m2s, cache_bypass_en, hostVars>>

TypeOK ==
    /\ EngineTypeOK
    /\ host_copy \subseteq Addr
    /\ bi_taken \in Addr \cup {None}

Init ==
    /\ EngineInit
    /\ m2s \in {r \in PortValues : ~r.valid}
    /\ cache_bypass_en = FALSE
    /\ host_copy = {}
    /\ bi_taken = None

\* The port in the next cycle: a request that is stalled stays.  Otherwise the
\* host presents a request, with the bypass setting it uses for the address, or
\* none, and then the payload and the bypass pin may show anything.
StalledRequestStays == UNCHANGED <<m2s, cache_bypass_en>>

FreePort ==
    /\ m2s' \in PortValues
    /\ cache_bypass_en' \in IF Bypassed = {} THEN {FALSE} ELSE BOOLEAN
    /\ m2s'.valid => cache_bypass_en' = (m2s'.addr \in Bypassed)

HostPort == IF m2s.valid /\ ~m2s_ready THEN StalledRequestStays ELSE FreePort

\* What the host knows of copies: it gets one with a Host bias, gives it up
\* before it sets a Device bias, and drops the copy of the line whose
\* Back-Invalidate it took before it sends the response.
TakeBi == bi_taken' = bi_req_addr /\ UNCHANGED host_copy
RespondBi == host_copy' = host_copy \ {bi_taken} /\ bi_taken' = None
SetBias(a, host_biased) ==
    /\ host_copy' = IF host_biased THEN host_copy \cup {a} ELSE host_copy \ {a}
    /\ UNCHANGED bi_taken

\* One clock cycle.  The pulses a cycle carries are chosen only where the
\* engine listens to them; `a` and `b` are what the debug bias port shows.
ClockPulses(ready, ack, rsp, set, a, b) ==
    /\ Clock(ready, ack, rsp, set, a, b)
    /\ HostPort

\* Nothing but (perhaps) taking an answer happens at the side ports.
Quiet(ready) ==
    /\ ClockPulses(ready, FALSE, FALSE, FALSE, m2s.addr, FALSE)
    /\ UNCHANGED hostVars

AckBi(ready) ==
    /\ bi_req_valid
    /\ ClockPulses(ready, TRUE, FALSE, FALSE, m2s.addr, FALSE)
    /\ TakeBi

SendBiRsp(ready, a) ==
    /\ bi_state = "BI_WAIT_RSP"
    /\ ClockPulses(ready, FALSE, TRUE, FALSE, a, TRUE)
    /\ RespondBi

\* The address is that of a valid line.
resident(a) == cache_valid[a[2]] /\ cache_tag[a[2]] = a[1]

WriteBias(ready, a, b) ==
    /\ SetsPendingBias \/ ~(m2s.valid /\ m2s.addr = a)
    /\ ClockPulses(ready, FALSE, FALSE, TRUE, a, b)
    /\ SetsResidentBias \/ ~b \/ ~resident(a)'
    /\ SetBias(a, b)

Cycle(ready) ==
    /\ ready => s2m_valid
    /\ \/ Quiet(ready)
       \/ AckBi(ready)
       \/ \E a \in Addr : SendBiRsp(ready, a)
       \/ \E a \in BiasSettable, b \in BOOLEAN : WriteBias(ready, a, b)

Next == \E ready \in BOOLEAN : Cycle(ready)

Spec == Init /\ [][Next]_vars

\* The clock runs, and the host does its part: it takes an answer that stays on
\* offer, acknowledges a Back-Invalidate and responds to it, as the polling
\* loops of sw/hps_driver do.  Presenting requests and setting biases is up to
\* the host.
Fairness ==
    /\ WF_vars(Next)
    /\ WF_vars(s2m_valid /\ Cycle(TRUE))
    /\ WF_vars(\E ready \in BOOLEAN : AckBi(ready))
    /\ WF_vars(\E ready \in BOOLEAN, a \in Addr : SendBiRsp(ready, a))

FairSpec == Spec /\ Fairness

-----------------------------------------------------------------------------
\* Safety

\* The flush FSM writes back the line that stands in the way of the request on
\* the port, and that line is still there, dirty, under another tag.
FlushTargetsVictim == do_flush_write_this_cycle => m2s.valid /\ need_evict_writeback

\* A line evicted without a write-back loses nothing: a valid line that is not
\* dirty holds what backing memory holds.
CleanLineMatchesMemory ==
    \A i \in Line : cache_valid[i] /\ ~cache_dirty[i] =>
        cache_data[i] = mem[<<cache_tag[i], i>>]

\* A line the host may hold a copy of is Host-Biased in the table, so the
\* device never serves it without a Back-Invalidate (README.md, "The bias
\* mechanism": "Device Bias: the host does not have a cached copy of this line").
HostCopyIsHostBiased == \A a \in host_copy : bias[a]

\* While a handshake runs, the request that caused it is still on the port, and
\* the line the host was told to invalidate is the line that will be flipped.
BiNamesPendingLine ==
    /\ bi_active => m2s.valid
    /\ bi_state = "BI_WAIT_RSP" => bi_taken = m2s.addr

\* A line is cached only while it is Device-Biased ("never cache a Host-Biased
\* line", README.md, lines 80-81), unless the host makes a cached line
\* Host-Biased through the debug port (bugs.md, BUG-011).
HostBiasedIsNotCached ==
    \A i \in Line : cache_valid[i] => ~bias[<<cache_tag[i], i>>]

\* The bypass setting beside a request is that of its address, and so a line
\* holds only addresses that are used with the cache enabled.
PortMatchesBypass == m2s.valid => cache_bypass_en = (m2s.addr \in Bypassed)
CachedIsNotBypassed == \A i \in Line : cache_valid[i] => <<cache_tag[i], i>> \notin Bypassed

\* All of it together is inductive: every clock edge of the engine with this
\* host keeps it, from whatever state it holds in.
IInv ==
    /\ TypeOK
    /\ FlushBiExclusive
    /\ ResponseIsOwed
    /\ DirtyLineIsValid
    /\ FlushTargetsVictim
    /\ CleanLineMatchesMemory
    /\ HostCopyIsHostBiased
    /\ BiNamesPendingLine
    /\ SetsResidentBias \/ HostBiasedIsNotCached
    /\ PortMatchesBypass
    /\ CachedIsNotBypassed

-----------------------------------------------------------------------------
\* Liveness

\* A stalled request is not stalled for ever: Back-Invalidate, flush and tag
\* occupancy each end and let it through m2s_ready.
RequestIsAccepted == m2s.valid ~> accept_this_cycle

\* An accepted request is answered, unless the host goes on for ever having
\* requests with lower tags accepted: the arbiter serves the lowest tag first,
\* so two busy lower tags can starve a higher one.
RequestIsAnswered == \A t \in Tag :
    <>[](\A u \in 0 .. t - 1 : ~accepted(u)) =>
        (slot_valid[t] ~> s2m_valid /\ s2m_tag = t)

-----------------------------------------------------------------------------
\* The engine implements the tagged memory.

\* What a read of the address would return: the cached word, else memory's.
View == [a \in Addr |-> IF resident(a) THEN cache_data[a[2]] ELSE mem[a]]

answer_of(t) == IF slot_is_write[t]
                THEN [is_data |-> FALSE]
                ELSE [is_data |-> TRUE, rdata |-> slot_rdata[t]]

Memory == INSTANCE TaggedMemory WITH
    Requests <- PortValues,
    request <- m2s,
    store <- View,
    owed <- [t \in Tag |-> IF slot_valid[t] THEN answer_of(t) ELSE None],
    offer <- IF s2m_valid
             THEN [tag |-> s2m_tag,
                   answer |-> IF s2m_is_data THEN [is_data |-> TRUE, rdata |-> s2m_rdata]
                                             ELSE [is_data |-> FALSE]]
             ELSE None

\* Every behaviour of the engine under this host is one of the tagged memory.
ImplementsTaggedMemory == Memory!Spec

=============================================================================
