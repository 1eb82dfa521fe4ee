--------------------------- MODULE MC_EnzianMemory ---------------------------
(* TLC instance of EnzianMemory: two threads; a mapping of two huge pages *)
(* of two pages each, so two threads can fault different pages of one    *)
(* huge page or pages of different huge pages; PUD-aligned offsets 0 (what*)
(* mem.c, mem2.c and mb_enzian.c pass) and one huge page; ioctl commands  *)
(* at both ends of the valid range and just outside it (-1 is 2^32 - 1   *)
(* as an unsigned int); the mapping made twice in one load of the       *)
(* module.                                                                *)
EXTENDS EnzianMemory

MCNHuge == 2
MCHugeSize == 2
MCBase == 8
MCOffsets == {0, 2}
MCCmds == {-1, 0, 10, 11}
MCMaxMaps == 2
MCMaxLoads == 1

=============================================================================
