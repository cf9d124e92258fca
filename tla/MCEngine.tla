------------------------------ MODULE MCEngine ------------------------------
(***************************************************************************)
(* Instances of EngineHost for TLC.  The addresses <<c0, l>> and <<c1, l>> *)
(* collide in cache line l.                                                *)
(***************************************************************************)
EXTENDS EngineHost

CONSTANTS c0, c1, l0, l1

NoAddr == {}
OneSettable == {<<c0, l0>>}
OneBypassed == {<<c1, l1>>}

\* Bound: payload that nothing reads has one value, all of it beside a low
\* m2s_valid and the write data beside a read.
IdlePort == [valid |-> FALSE, is_write |-> FALSE, addr |-> <<c0, l0>>, tag |-> 0,
             wdata |-> ZeroData]
ReadOrWrite ==
    {IdlePort} \cup {r \in M2S : r.valid /\ (r.is_write \/ r.wdata = ZeroData)}
\* Bound: one value is written to one of the addresses, any to the other.
OneValueToC0 ==
    {r \in ReadOrWrite : r.is_write /\ r.addr[1] = c0 => r.wdata # ZeroData}
\* Bound: one address is only read, the other only written.
ReadC0WriteC1 == {r \in ReadOrWrite : r.valid => r.is_write = (r.addr[1] = c1)}

=============================================================================
