------------------------------ MODULE MC_PciRpc ------------------------------
(* TLC instance of PciRpc: a request of 4 words (two 16-byte stores, so a *)
(* lost first or last pair shows), 6 words read back (one pair past the   *)
(* request), an 8-word BAR whose words start as 0 or 1, a stack r2 of 0s  *)
(* or 1s, none of them a request word, and the code's ten iterations.     *)
EXTENDS PciRpc

MCNWords == 4
MCReadWords == 6
MCMapWords == 8
MCIters == 10
MCDeviceVals == {0, 1}
MCStackVals == {0, 1}

=============================================================================
