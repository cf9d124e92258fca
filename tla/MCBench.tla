------------------------------- MODULE MCBench -------------------------------
(***************************************************************************)
(* EngineBench with the engine's real geometry, latency and widths, but    *)
(* for the counters, which wrap at 4.                                      *)
(***************************************************************************)
EXTENDS BenchReference

Nibble == 0 .. 15
Delays == 0 .. 6
Presented(t) == {k \in DOMAIN tests[t] : tests[t][k].op = "present"}
Words == {zero} \cup UNION {{tests[t][k].m2s.wdata : k \in Presented(t)} : t \in DOMAIN tests}
=============================================================================
