---------------------------- MODULE CxlBiasTable ----------------------------
(***************************************************************************)
(* rtl/cxl_bias_table.sv: one bit per address, TRUE when the line is       *)
(* Host-Biased.  There is one write port; the protocol engine decides each *)
(* cycle which of its two writers drives it.                               *)
(*                                                                         *)
(* An address is the concatenation {cache tag, cache index} that the       *)
(* engine takes it apart into, so it is modelled as that pair.             *)
(***************************************************************************)
CONSTANTS
    CacheTag,   \* values of the upper ADDR_W - CACHE_IDX_W address bits
    Line        \* values of the lower CACHE_IDX_W address bits

Addr == CacheTag \X Line

VARIABLE bias

BiasTypeOK == bias \in [Addr -> BOOLEAN]

\* The reset value: every line Device-Biased.
bias_reset == [a \in Addr |-> FALSE]

\* One clock edge of the table.
bias_clock(wr_en, wr_addr, wr_data) ==
    bias' = IF wr_en THEN [bias EXCEPT ![wr_addr] = wr_data] ELSE bias

=============================================================================
