---------------------------- MODULE MC_XdmaShim ----------------------------
(* TLC instance of XdmaShim: four-byte requests and answers moved in     *)
(* write()/read() calls of at most two bytes, so every split of both      *)
(* transfers (1+1+1+1, 1+1+2, 1+2+1, 2+1+1, 2+2) happens, and the FPGA   *)
(* streams its answer in pieces that the reads overtake or lag; three     *)
(* runs per context so later runs follow completed ones.                  *)
EXTENDS XdmaShim

MCOutSize == 4
MCInSize == 4
MCMaxChunk == 2
MCMaxRuns == 3

=============================================================================
