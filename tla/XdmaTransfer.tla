---------------------------- MODULE XdmaTransfer ----------------------------
(***************************************************************************)
(* What the XDMA shim (src/testing_with_shim/xdma_shim.c) promises its     *)
(* caller, with the chunking, the two channels and the device abstracted   *)
(* away: a context is opened once, each run atomically turns the payload   *)
(* in the output buffer into the device's answer in the input buffer, the  *)
(* context is closed once, and the process may die at any point (abort,    *)
(* failed assert, a crash of the caller).                                  *)
(*                                                                         *)
(* XdmaShim implements this specification; MC_XdmaShim checks it as a     *)
(* PROPERTY through an INSTANCE ... WITH refinement mapping.               *)
(***************************************************************************)
EXTENDS Sequences

CONSTANTS
    Payload,    \* the payloads a caller may put in the output buffer
    Answer(_),  \* the device's answer to a payload
    Unset,      \* the output buffer before the caller wrote it
    NONE        \* no answer is readable

VARIABLES
    life,   \* "unopened", "opened", "running", "closed" or "dead"
    out,    \* the payload in the output buffer
    in      \* the answer the caller may read, or NONE

avars == <<life, out, in>>

Init ==
    /\ life = "unopened"
    /\ out = Unset
    /\ in = NONE

\* initialize() returned a complete context.
Open ==
    /\ life = "unopened"
    /\ life' = "opened"
    /\ UNCHANGED <<out, in>>

\* The caller filled the output buffer and called run().
Submit ==
    /\ life = "opened"
    /\ \E p \in Payload : out' = p
    /\ life' = "running"
    /\ in' = NONE

\* run() returned: the answer to the whole payload is in the input buffer.
Complete ==
    /\ life = "running"
    /\ life' = "opened"
    /\ in' = Answer(out)
    /\ UNCHANGED out

\* closeHardware() released the context.
Close ==
    /\ life = "opened"
    /\ life' = "closed"
    /\ in' = NONE
    /\ UNCHANGED out

\* The process ended abnormally.
Die ==
    /\ life \notin {"closed", "dead"}
    /\ life' = "dead"
    /\ in' = NONE
    /\ UNCHANGED out

ANext == Open \/ Submit \/ Complete \/ Close \/ Die

ASpec == Init /\ [][ANext]_avars

=============================================================================
