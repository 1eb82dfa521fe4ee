----------------------------- MODULE MC_PciShim -----------------------------
(***************************************************************************)
(* PciShim for TLC. N = 40 words become 4 (two pair stores, so a pair     *)
(* dropped at either end or stored at the wrong stride shows); the 8192-   *)
(* word mapping becomes 6, so that offset 4 reads its last pair and 5 is   *)
(* one word short of the end. uint64_t and int become 3 and 2 bits: 6 is   *)
(* a word whose conversion to int wraps, 1 one whose conversion does not.  *)
(***************************************************************************)
EXTENDS PciShim

MCNWords == 4
MCMapWords == 6
MCOffsets == {0, 4, 5}
MCVals == {1, 6}
MCWordWidth == 3
MCIntWidth == 2
=============================================================================
