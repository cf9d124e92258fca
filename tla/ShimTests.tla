----------------------------- MODULE ShimTests -----------------------------
(***************************************************************************)
(* The testbenches of the shim, sim/phase1h, phase3h, phase4h and phase8,  *)
(* which drive the same registers from simulation, as programs of the same *)
(* instructions.  avs_write and avs_read take the bus for as long as       *)
(* waitrequest lasts, like a store and a load of the CPU.                  *)
(***************************************************************************)
EXTENDS DriverPrograms

write_and_read_back(wdata) ==
    fire(TRUE, \h05, 3, wdata) \o poll("VALID", "exit") \o RESP_ACK
    \o REQ_ADDR(\h05) \o REQ_FIRE(7, FALSE)
    \o poll("VALID", "exit") \o expect("RESP_RDATA", wdata) \o RESP_ACK

tb_phase1h ==
    fire(TRUE, \h05, 3, ABCD1234)
    \o poll("VALID", "exit") \o expect("IS_DATA", FALSE) \o expect("RESP_TAG", 3)
    \o RESP_ACK
    \o REQ_ADDR(\h05) \o REQ_FIRE(7, FALSE)
    \o poll("VALID", "exit") \o expect("IS_DATA", TRUE) \o expect("RESP_TAG", 7)
    \o expect("RESP_RDATA", ABCD1234)
    \o RESP_ACK

tb_phase3h ==
    bias_write(\h03, TRUE) \o bias_write(\h10, FALSE) \o bias_write(\h20, TRUE)
    \o bias_read(\h03, TRUE) \o bias_read(\h10, FALSE) \o bias_read(\h20, TRUE)
    \o bias_read(\h55, FALSE)
    \o write_and_read_back(word(\h9988, \h7766))

tb_phase4h ==
    bias_write(\h25, TRUE)
    \o REQ_ADDR(\h25) \o REQ_FIRE(9, FALSE)
    \o poll("BI_PENDING", "exit")
    \o expect("BI_REQ_ADDR", at(\h25))
    \o BI_REQ_ACK \o BI_RSP_SEND
    \o bias_read(\h25, FALSE)
    \o poll("VALID", "exit") \o expect("RESP_TAG", 9)
    \o RESP_ACK

fire_and_drain(is_write, n, tag, wdata) ==
    fire(is_write, n, tag, wdata) \o poll("VALID", "exit") \o RESP_ACK

tb_phase8 ==
    expect("CACHE_BYPASS", FALSE)
    \o CACHE_BYPASS(TRUE) \o expect("CACHE_BYPASS", TRUE)
    \o CACHE_BYPASS(FALSE) \o expect("CACHE_BYPASS", FALSE)
    \o fire_and_drain(TRUE, \h33, 1, word(\h7777, \h0001))
    \o save("CACHE_HITS")
    \o fire_and_drain(FALSE, \h33, 2, zero)
    \o delta("CACHE_HITS", 1)
    \o CACHE_BYPASS(TRUE)
    \o save("CACHE_MISS") \o save("CACHE_HITS")
    \o fire_and_drain(FALSE, \h33, 3, zero)
    \o delta("CACHE_MISS", 1) \o delta("CACHE_HITS", 0)
    \o CACHE_BYPASS(FALSE)

\* The programs by name, the testbenches among them.
programs == drivers @@ [
    tb_phase1h |-> tb_phase1h,
    tb_phase3h |-> tb_phase3h,
    tb_phase4h |-> tb_phase4h,
    tb_phase8 |-> tb_phase8]

=============================================================================
