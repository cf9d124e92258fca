---------------------------- MODULE MCDriverTexts ----------------------------
(***************************************************************************)
(* The instances of MCDriver, and which programs have the disciplines that *)
(* the theorems of DriverProofs and AnswerProofs assume of a text.  TLC    *)
(* evaluates these assumptions on the programs of DriverPrograms and       *)
(* ShimTests.                                                              *)
(***************************************************************************)
EXTENDS MCDriver

\* The programs that keep to one request at a time, all but those with bursts,
\* and those that disarm the watchdog, all but those whose time limit exits.
ASSUME SequentialOnes ==
    DOMAIN programs \ {"phase234h", "phase23h", "phase7"} \subseteq SequentialPrograms
ASSUME CachedOnes == DOMAIN programs \ {"phase8", "tb_phase8"} \subseteq CachedPrograms
ASSUME DisarmingOnes ==
    DOMAIN programs \ {"phase234h", "phase23h", "safe_probe"} \subseteq DisarmingPrograms

\* What the programs expect of answers is in their text, for those that run
\* together with others and for those that start on a fresh memory.
ASSUME DataOnes ==
    /\ ChecksData({"host_driver_linux", "phase56h", "safe_probe", "tb_phase1h"})
    /\ \A q \in {"host_driver", "host_driver_linux", "extended_test", "tb_phase1h"} :
          ChecksData({q}) /\ ChecksOnlyData({q})

\* Phase 8's text measures what it says.
ASSUME Phase8Text == MeasuresInText(programs["phase8"])

=============================================================================
