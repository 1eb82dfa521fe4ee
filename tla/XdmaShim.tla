------------------------------ MODULE XdmaShim ------------------------------
(***************************************************************************)
(* The blocking XDMA shim of src/testing_with_shim/xdma_shim.c, driven by  *)
(* the caller of src/testing_with_shim/test_16.c (test_31_op.c and         *)
(* test_64.c have the same shape), against an FPGA that answers a request  *)
(* once it has consumed all of it.                                         *)
(*                                                                         *)
(*  - initialize() acquires five resources in order and unwinds through a  *)
(*    goto chain when one acquisition fails;                               *)
(*  - run() is send() then receive(): loops of write()/read() calls that   *)
(*    may each move fewer bytes than asked, block, or fail;                *)
(*  - closeHardware() releases everything;                                 *)
(*  - a failed assert or a failed transfer abort()s the process, a NULL    *)
(*    dereference in the caller kills it with SIGSEGV; the OS then         *)
(*    reclaims every descriptor and every allocation.                      *)
(*                                                                         *)
(* Bytes are symbolic: byte i of the payload of the r-th run is <<r, i>>,  *)
(* so a byte sent twice, skipped or stored in the wrong place is visible.  *)
(***************************************************************************)
EXTENDS Integers, Sequences, FiniteSets

CONSTANTS
    OutSize,    \* output_size: bytes sent on H2C per run
    InSize,     \* input_size: bytes received on C2H per run
    MaxChunk,   \* the most bytes one write()/read() call moves
    MaxRuns,    \* bound on the runs of one context
    NULL,       \* the NULL pointer
    GARBAGE     \* a byte of memory nobody wrote

ASSUME OutSize \in Nat \ {0} /\ InSize \in Nat \ {0}
ASSUME MaxChunk \in Nat \ {0} /\ MaxRuns \in Nat \ {0}

VARIABLES
    cpc,     \* where the caller's main() is
    hc,      \* the context pointer initialize() returned: "hc" or NULL
    held,    \* the resources the process holds (allocations and descriptors)
    runs,    \* runs started on the context
    phase,   \* inside run(): "idle", "send" or "receive"
    count,   \* send()/receive(): bytes moved so far
    ptr,     \* send_ptr - mem_out, recv_ptr - mem_in
    memOut,  \* contents of hc->mem_out
    memIn,   \* contents of hc->mem_in
    h2c,     \* bytes of the current request the FPGA has consumed
    c2h,     \* bytes of the FPGA's answer streamed to C2H and not yet read
    answer   \* bytes of the FPGA's answer not yet streamed

vars == <<cpc, hc, held, runs, phase, count, ptr, memOut, memIn, h2c, c2h,
          answer>>

(* The acquisitions of initialize(), in program order: calloc of the      *)
(* context, posix_memalign of mem_out and mem_in, open of H2C and C2H.    *)
Acquire == <<"hc", "mem_out", "mem_in", "fd_out", "fd_in">>
(* What a context owns: hc itself and the fields of struct HardwareCommon.*)
Resources == {Acquire[i] : i \in 1..5}
Index(res) == CHOOSE i \in 1..5 : Acquire[i] = res

(* The resource whose validity the check after each acquisition tests:    *)
(* after the open of C2H the code tests hc->fd_out (line 64).             *)
Tested == [res \in Resources |-> IF res = "fd_in" THEN "fd_out" ELSE res]

(* Mutant: fd_out_fail forgets free(hc->mem_in).                         *)
ReleasedNoFreeMemIn ==
    [hc |-> {}, mem_out |-> {"hc"}, mem_in |-> {"mem_out", "hc"},
     fd_out |-> {"mem_out", "hc"},
     fd_in |-> {"fd_out", "mem_in", "mem_out", "hc"}]

(* What the cleanup labels release when the acquisition of res fails and  *)
(* the check notices it: fd_in_fail, fd_out_fail, mem_in_fail,            *)
(* mem_out_fail, hc_fail fall through to each other.                      *)
Released ==
    [hc |-> {}, mem_out |-> {"hc"}, mem_in |-> {"mem_out", "hc"},
     fd_out |-> {"mem_in", "mem_out", "hc"},
     fd_in |-> {"fd_out", "mem_in", "mem_out", "hc"}]

Req(r) == [i \in 1..OutSize |-> <<r, i>>]
Answer(q) == [i \in 1..InSize |-> <<q, i>>]
Uninit(n) == [i \in 1..n |-> GARBAGE]
Dead == {"abort", "segv"}

Min2(a, b) == IF a < b THEN a ELSE b

Init ==
    /\ cpc = "initialize"
    /\ hc = NULL
    /\ held = {}
    /\ runs = 0
    /\ phase = "idle"
    /\ count = 0
    /\ ptr = 0
    /\ memOut = Uninit(OutSize)
    /\ memIn = Uninit(InSize)
    /\ h2c = <<>>
    /\ c2h = <<>>
    /\ answer = <<>>

(* The process ends abnormally; the OS closes its descriptors and frees   *)
(* its memory.                                                            *)
Die(how) ==
    /\ cpc' = how
    /\ held' = {}

---------------------------------------------------------------------------
(* initialize(input_size, output_size). fail is the first acquisition     *)
(* that fails, or "none". The ones before it succeeded; no later one is   *)
(* attempted unless the failure goes unnoticed, and the failure of the    *)
(* last one always does.                                                  *)
Initialize(fail) ==
    LET got == {Acquire[i] : i \in 1..(IF fail = "none" THEN 5
                                       ELSE Index(fail) - 1)}
    IN
    /\ cpc = "initialize"
    /\ IF fail # "none" /\ Tested[fail] = fail
         THEN /\ hc' = NULL
              /\ held' = got \ Released[fail]
         ELSE /\ hc' = "hc"
              /\ held' = got
    /\ cpc' = "fill"
    /\ UNCHANGED <<runs, phase, count, ptr, memOut, memIn, h2c, c2h, answer>>

(* main(): the caller writes its payload through hc->mem_out without     *)
(* testing hc, then calls run().                                          *)
Fill ==
    /\ cpc \in {"fill", "inspect"}
    /\ runs < MaxRuns
    /\ IF hc = NULL
         THEN /\ Die("segv")
              /\ UNCHANGED <<hc, runs, memOut>>
         ELSE /\ memOut' = Req(runs + 1)
              /\ runs' = runs + 1
              /\ cpc' = "run"
              /\ UNCHANGED <<hc, held>>
    /\ UNCHANGED <<phase, count, ptr, memIn, h2c, c2h, answer>>

(* run(): the asserts on the context, then send() starts.                 *)
RunStart ==
    /\ cpc = "run"
    /\ phase = "idle"
    /\ IF {"fd_in", "fd_out"} \subseteq held
         THEN /\ phase' = "send"
              /\ count' = 0
              /\ ptr' = 0
              /\ UNCHANGED <<cpc, held>>
         ELSE /\ Die("abort")
              /\ UNCHANGED <<phase, count, ptr>>
    /\ UNCHANGED <<hc, runs, memOut, memIn, h2c, c2h, answer>>

(* One write(hc->fd_out, send_ptr, total - count) in send()'s loop. The   *)
(* call blocks while the FPGA has no room for more of its request; n < 0  *)
(* (an error, EINTR included) makes send() fail and run() abort.          *)
WriteRoom == OutSize - Len(h2c)

(* Mutant: send() drops the check if(written < 0) return written.        *)
WriteNoErrorCheck(n) ==
    /\ cpc = "run"
    /\ phase = "send"
    /\ count < OutSize
    /\ n <= Min2(OutSize - count, Min2(MaxChunk, WriteRoom))
    /\ h2c' = h2c \o SubSeq(memOut, ptr + 1, ptr + n)
    /\ count' = count + n
    /\ ptr' = ptr + n
    /\ UNCHANGED <<cpc, held, hc, runs, phase, memOut, memIn, c2h, answer>>

(* Mutant: send() forgets send_ptr += written.                           *)
WriteNoPtrAdvance(n) ==
    /\ cpc = "run"
    /\ phase = "send"
    /\ count < OutSize
    /\ n <= Min2(OutSize - count, Min2(MaxChunk, WriteRoom))
    /\ IF n < 0
         THEN /\ Die("abort")
              /\ UNCHANGED <<count, ptr, h2c>>
         ELSE /\ h2c' = h2c \o SubSeq(memOut, ptr + 1, ptr + n)
              /\ count' = count + n
              /\ UNCHANGED <<cpc, held, ptr>>
    /\ UNCHANGED <<hc, runs, phase, memOut, memIn, c2h, answer>>

Write(n) ==
    /\ cpc = "run"
    /\ phase = "send"
    /\ count < OutSize
    /\ n <= Min2(OutSize - count, Min2(MaxChunk, WriteRoom))
    /\ IF n < 0
         THEN /\ Die("abort")
              /\ UNCHANGED <<count, ptr, h2c>>
         ELSE /\ h2c' = h2c \o SubSeq(memOut, ptr + 1, ptr + n)
              /\ count' = count + n
              /\ ptr' = ptr + n
              /\ UNCHANGED <<cpc, held>>
    /\ UNCHANGED <<hc, runs, phase, memOut, memIn, c2h, answer>>

(* Mutant: send()'s loop stops one byte early (count + 1 < total).       *)
SendDoneEarly ==
    /\ cpc = "run"
    /\ phase = "send"
    /\ ~(count + 1 < OutSize)
    /\ phase' = "receive"
    /\ count' = 0
    /\ ptr' = 0
    /\ UNCHANGED <<cpc, hc, held, runs, memOut, memIn, h2c, c2h, answer>>

(* Mutant: send()'s loop runs while count <= total.                       *)
SendDoneLate ==
    /\ cpc = "run"
    /\ phase = "send"
    /\ ~(count <= OutSize)
    /\ phase' = "receive"
    /\ count' = 0
    /\ ptr' = 0
    /\ UNCHANGED <<cpc, hc, held, runs, memOut, memIn, h2c, c2h, answer>>

(* send() leaves its loop and returns 0; receive() starts.                *)
SendDone ==
    /\ cpc = "run"
    /\ phase = "send"
    /\ ~(count < OutSize)
    /\ phase' = "receive"
    /\ count' = 0
    /\ ptr' = 0
    /\ UNCHANGED <<cpc, hc, held, runs, memOut, memIn, h2c, c2h, answer>>

(* One read(hc->fd_in, recv_ptr, total - count) in receive()'s loop. It   *)
(* blocks until the FPGA has answer bytes; n < 0 makes run() abort.      *)
Read(n) ==
    /\ cpc = "run"
    /\ phase = "receive"
    /\ count < InSize
    /\ n <= Min2(InSize - count, Min2(MaxChunk, Len(c2h)))
    /\ IF n < 0
         THEN /\ Die("abort")
              /\ UNCHANGED <<count, ptr, memIn, c2h>>
         ELSE /\ memIn' = [k \in 1..InSize |->
                              IF ptr < k /\ k <= ptr + n
                                THEN c2h[k - ptr] ELSE memIn[k]]
              /\ c2h' = SubSeq(c2h, n + 1, Len(c2h))
              /\ count' = count + n
              /\ ptr' = ptr + n
              /\ UNCHANGED <<cpc, held>>
    /\ UNCHANGED <<hc, runs, phase, memOut, h2c, answer>>

(* receive() leaves its loop and returns 0; run() returns.                *)
RecvDone ==
    /\ cpc = "run"
    /\ phase = "receive"
    /\ ~(count < InSize)
    /\ phase' = "idle"
    /\ cpc' = "inspect"
    /\ UNCHANGED <<hc, held, runs, count, ptr, memOut, memIn, h2c, c2h, answer>>

(* closeHardware(): the asserts, close of both descriptors, free of both  *)
(* buffers and of the context; then main() returns.                       *)
CloseHardware ==
    /\ cpc = "inspect"
    /\ IF {"fd_in", "fd_out"} \subseteq held
         THEN /\ held' = {}
              /\ hc' = NULL
              /\ cpc' = "exit"
         ELSE /\ Die("abort")
              /\ UNCHANGED hc
    /\ UNCHANGED <<runs, phase, count, ptr, memOut, memIn, h2c, c2h, answer>>

(* The FPGA, once it has consumed a whole request and streamed out its   *)
(* previous answer, computes the answer to it.                           *)
Respond ==
    /\ Len(h2c) = OutSize
    /\ answer = <<>>
    /\ c2h = <<>>
    /\ answer' = Answer(h2c)
    /\ h2c' = <<>>
    /\ UNCHANGED <<cpc, hc, held, runs, phase, count, ptr, memOut, memIn, c2h>>

(* The FPGA streams the next k bytes of its answer to the C2H channel.    *)
Stream(k) ==
    /\ 1 <= k /\ k <= Len(answer)
    /\ c2h' = c2h \o SubSeq(answer, 1, k)
    /\ answer' = SubSeq(answer, k + 1, Len(answer))
    /\ UNCHANGED <<cpc, hc, held, runs, phase, count, ptr, memOut, memIn, h2c>>

Chunk == (-1..MaxChunk) \ {0}

Next ==
    \/ \E fail \in Resources \cup {"none"} : Initialize(fail)
    \/ Fill
    \/ RunStart
    \/ \E n \in Chunk : Write(n)
    \/ SendDone
    \/ \E n \in Chunk : Read(n)
    \/ RecvDone
    \/ CloseHardware
    \/ Respond
    \/ \E k \in 1..InSize : Stream(k)

(* The shim's thread keeps running, and the FPGA keeps serving. A write  *)
(* or read that moves bytes is assumed to happen eventually: the XDMA *)
(* driver completes a transfer once the engine is ready.                 *)
Fairness ==
    /\ WF_vars(Fill \/ RunStart \/ SendDone \/ RecvDone \/ CloseHardware)
    /\ WF_vars(\E n \in 1..MaxChunk : Write(n))
    /\ WF_vars(\E n \in 1..MaxChunk : Read(n))
    /\ WF_vars(Respond)
    /\ WF_vars(\E k \in 1..InSize : Stream(k))

Spec == Init /\ [][Next]_vars
FairSpec == Spec /\ Fairness

---------------------------------------------------------------------------
(* Properties *)

TypeOK ==
    /\ cpc \in {"initialize", "fill", "run", "inspect", "exit"} \cup Dead
    /\ hc \in {NULL, "hc"}
    /\ held \subseteq Resources
    /\ runs \in 0..MaxRuns
    /\ phase \in {"idle", "send", "receive"}
    /\ count \in 0..Len(memOut) + Len(memIn)
    /\ ptr \in 0..Len(memOut) + Len(memIn)
    /\ Len(h2c) <= OutSize /\ Len(c2h) + Len(answer) <= InSize

(* No leak: whenever the caller has no context (initialize() returned     *)
(* NULL, or closeHardware() released it), the process holds no            *)
(* allocation and no descriptor. Breaks if a cleanup label of             *)
(* initialize() or closeHardware() forgets a close() or a free().         *)
NoLeak == hc = NULL => held = {}

(* All or nothing: a context initialize() returns owns both buffers and   *)
(* both descriptors, as spec section 4.2 and the header comment promise.  *)
ContextComplete == (hc # NULL /\ cpc \notin Dead) => held = Resources

(* Strict phase order (spec 4.2, 8.6): receive() is entered only once the *)
(* FPGA has consumed the whole request of this run, so the answer it      *)
(* waits for is on its way.                                                *)
SendCompletesBeforeReceive ==
    [][(phase = "send" /\ phase' = "receive")
          => (Len(h2c) = OutSize \/ answer \o c2h # <<>>)]_vars

(* Every run() returns or ends the process: neither loop spins or blocks  *)
(* forever when the driver keeps moving bytes and the FPGA keeps          *)
(* answering.                                                             *)
RunEnds == cpc = "run" ~> (cpc = "inspect" \/ cpc \in Dead)

---------------------------------------------------------------------------
(* Refinement: the chunked two-phase transfer implements the atomic       *)
(* request/answer of XdmaTransfer. In particular, when run() returns,     *)
(* mem_in holds exactly the FPGA's answer to the whole of mem_out, however *)
(* send() and receive() were split into short write() and read() calls,   *)
(* on every run of the context. The abstract input buffer is readable     *)
(* only between run() and the next fill.                                  *)
Life ==
    CASE cpc \in Dead -> "dead"
      [] cpc = "exit" -> "closed"
      [] cpc = "run" -> "running"
      [] cpc \in {"fill", "inspect"} /\ hc # NULL -> "opened"
      [] OTHER -> "unopened"

InView == IF cpc = "inspect" THEN memIn ELSE NULL

Transfer == INSTANCE XdmaTransfer
    WITH life <- Life, out <- memOut, in <- InView,
         Payload <- {Req(r) : r \in 1..MaxRuns}, Answer <- Answer,
         Unset <- Uninit(OutSize), NONE <- NULL

ImplementsTransfer == Transfer!ASpec

=============================================================================
