---------------------------- MODULE TaggedMemory ----------------------------
(***************************************************************************)
(* What the protocol engine promises its host: a memory whose requests     *)
(* take effect one at a time, in the order they are accepted, and whose    *)
(* answers come back later, in any order, each exactly once and under the  *)
(* tag of its request.  A tag has at most one request outstanding, a read  *)
(* is answered with the value last written to its address, and an answer   *)
(* that has been offered stays on offer until the host takes it.           *)
(*                                                                         *)
(* Cache, bias, Back-Invalidates, evictions and latencies are invisible    *)
(* here.  A request and an answer may happen in the same cycle.            *)
(***************************************************************************)
CONSTANTS
    Addr, Data, ZeroData, Tag,
    Requests,   \* what the host may drive on the request port
    None

VARIABLES
    request, \* the request port; the host holds a request until it is performed
    store,   \* the memory
    owed,    \* per tag: the answer the host is owed, or None
    offer    \* the answer on offer to the host, or None

vars == <<request, store, owed, offer>>

Ack == [is_data |-> FALSE]
ReadData(d) == [is_data |-> TRUE, rdata |-> d]

Init ==
    /\ request \in {r \in Requests : ~r.valid}
    /\ store = [a \in Addr |-> ZeroData]
    /\ owed = [t \in Tag |-> None]
    /\ offer = None

\* What happens at the answer port: an answer owed is put on offer, the port
\* stays as it is, or the host takes the answer on offer.
PutOnOffer ==
    /\ offer = None
    /\ \E t \in Tag :
          owed[t] # None /\ offer' = [tag |-> t, answer |-> owed[t]]

KeepOffer == offer' = offer

TakeOffer == offer # None /\ offer' = None

\* The answers owed after this step, without that of a request it performs.
StillOwed(t) == IF TakeOffer /\ offer.tag = t THEN None ELSE owed[t]

\* The request on the port is performed, and its answer is owed from now on.
Perform(answer) ==
    /\ request.valid
    /\ owed[request.tag] = None
    /\ owed' = [t \in Tag |-> IF t = request.tag THEN answer ELSE StillOwed(t)]
    /\ request' \in Requests

Read ==
    /\ ~request.is_write
    /\ Perform(ReadData(store[request.addr]))
    /\ UNCHANGED store

Write ==
    /\ request.is_write
    /\ Perform(Ack)
    /\ store' = [store EXCEPT ![request.addr] = request.wdata]

NoRequest ==
    /\ IF request.valid THEN UNCHANGED request ELSE request' \in Requests
    /\ owed' = [t \in Tag |-> StillOwed(t)]
    /\ UNCHANGED store

Next ==
    /\ PutOnOffer \/ KeepOffer \/ TakeOffer
    /\ Read \/ Write \/ NoRequest

Spec == Init /\ [][Next]_vars

=============================================================================
