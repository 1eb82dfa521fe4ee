--------------------------- MODULE MC_EnzianBench ---------------------------
(* TLC instance of EnzianBench: the benchmark's one thread; a mapping of  *)
(* four huge pages of two pages each, so mem2.c's sweep through its first *)
(* half faults two huge pages and a single touch of mem.c or mem2.c may   *)
(* fall at a huge page's start, inside one, or past the mapping; offset 0 *)
(* only, as the benchmarks pass; one mmap and one module load.            *)
EXTENDS EnzianBench

MCNHuge == 4
MCHugeSize == 2
MCBase == 8
MCOffsets == {0}
MCCmds == {0}
MCMaxMaps == 1
MCMaxLoads == 1

=============================================================================
