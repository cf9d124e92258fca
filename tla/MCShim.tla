------------------------------- MODULE MCShim -------------------------------
(***************************************************************************)
(* Instances of AvalonShim for TLC.                                        *)
(***************************************************************************)
EXTENDS AvalonShim

CONSTANTS c0, c1, c2, l0

NoAddr == {}
OneSettable == {<<c0, l0>>}
AllAddrs == CacheTag \X Line
OneBypassed == {<<c2, l0>>}
=============================================================================
