------------------------------ MODULE MCDriver ------------------------------
(***************************************************************************)
(* Instances of HpsDriver for TLC, with the shim's real geometry: 16 tags, *)
(* 16 lines, 8-bit addresses.                                              *)
(***************************************************************************)
EXTENDS DriverDiscipline

NoAddr == {}
Nibble == 0 .. 15
EveryAddr == Nibble \X Nibble

\* The words the programs write and expect.
Words ==
    {zero} \cup UNION {
        {i.w.wdata : i \in {j \in Range(programs[p]) : j.op = "store" /\ j.w.reg = "REQ_WDATA"}}
        : p \in DOMAIN programs}

\* Each program alone, and any two of the programs that README.md, "Hardware
\* tests", names, in either order, and each rerun.
Hardware == {"safe_probe", "phase234h", "phase23h", "phase56h", "phase7", "phase8"}
AloneAndPairs == {<<p>> : p \in DOMAIN programs} \cup {<<p, q>> : p, q \in Hardware}
\* The programs that disarm the watchdog when they give up, and a program after.
GivingUp == {<<"phase56h", "phase8">>, <<"phase7", "phase56h">>, <<"phase8", "phase7">>}
Rerun56h == {<<"phase56h", "phase56h">>}
LinuxAfter234h == {<<"phase234h", "host_driver_linux">>}
=============================================================================
