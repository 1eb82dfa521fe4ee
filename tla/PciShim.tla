------------------------------- MODULE PciShim -------------------------------
(***************************************************************************)
(* The PCIe MMIO shim of src/testing_with_shim/pci_shim.c (interface in    *)
(* pci_shim.h): initialize() allocates a context, opens the BAR file of    *)
(* the FPGA and maps 64 KiB of it; write_data() copies the caller's N      *)
(* output words pairwise into a local array r2 and stores the pairs into   *)
(* the BAR with 16-byte stores; read_data() loads one pair at hc->offset   *)
(* into the int fields val1_o and val2_o; closeHardware() closes the file  *)
(* and frees hc->mem and hc.                                               *)
(*                                                                         *)
(* The caller is any program written against pci_shim.h: it tests the     *)
(* result of initialize() for NULL, as the header says to, and may set     *)
(* the public fields omem and offset before the calls that read them.      *)
(*                                                                         *)
(* Word and int widths are scaled down (WordWidth for uint64_t, IntWidth   *)
(* for int) so that the conversion of a loaded word to int keeps its       *)
(* wrap-around.                                                            *)
(***************************************************************************)
EXTENDS Integers, Sequences

CONSTANTS
    NWords,     \* N: the words write_data() copies and stores
    MapWords,   \* the 64 KiB mapping, in uint64_t words
    Offsets,    \* values the caller may put in hc->offset
    Vals,       \* values the caller may put in its output words
    WordWidth,  \* bits of a uint64_t, scaled
    IntWidth,   \* bits of an int, scaled
    NULL

ASSUME NWords \in Nat /\ NWords % 2 = 0 /\ NWords <= MapWords
ASSUME IntWidth \in Nat \ {0} /\ IntWidth < WordWidth
ASSUME Vals \subseteq 0..(2^WordWidth - 1)

VARIABLES
    cpc,      \* the caller: "init", "ready", "failed", "exit", "segv", "abort"
    hc,       \* the context initialize() returned: "hc" or NULL
    held,     \* what the process holds: the context "hc", the BAR fd, the "map"
    badFree,  \* free() was handed a pointer malloc() never returned
    omem,     \* hc->omem: NULL or the caller's "output" buffer
    offset,   \* hc->offset
    out,      \* out[i]: word i of the caller's output buffer
    space,    \* space[w]: word w of the mapped BAR
    wrote,    \* write_data() has returned
    vals      \* <<hc->val1_o, hc->val2_o>>

vars == <<cpc, hc, held, badFree, omem, offset, out, space, wrote, vals>>

Words == 0..(2^WordWidth - 1)
BarWords == 0..(MapWords - 1)
OutWords == 0..(NWords - 1)
Pairs == 0..(NWords \div 2 - 1)

(* Mutant: the conversion keeps the low bits as an unsigned value.       *)
ToIntUnsigned(v) == v % 2^IntWidth

(* The conversion of a uint64_t to int on assignment: the low IntWidth     *)
(* bits, read as two's complement.                                        *)
ToInt(v) ==
    LET low == v % 2^IntWidth
    IN  IF low >= 2^(IntWidth - 1) THEN low - 2^IntWidth ELSE low

Ints == (-(2^(IntWidth - 1)))..(2^(IntWidth - 1) - 1)

Init ==
    /\ cpc = "init"
    /\ hc = NULL
    /\ held = {}
    /\ badFree = FALSE
    /\ omem = NULL
    /\ offset = 0
    /\ out \in [OutWords -> Vals]
    /\ space = [w \in BarWords |-> 0]
    /\ wrote = FALSE
    /\ vals = <<0, 0>>

(* The process ends abnormally; the OS reclaims what it held.             *)
Die(how) ==
    /\ cpc' = how
    /\ held' = {}

---------------------------------------------------------------------------
(* initialize(): calloc's result is reported but not acted on; a failed    *)
(* open() returns NULL; a failed mmap() closes the fd and returns NULL;    *)
(* otherwise hc->mem and hc->fd are set and hc returned. A NULL result     *)
(* ends the caller.                                                        *)
Initialize(callocOk, openOk, mmapOk) ==
    LET ctx == IF callocOk THEN {"hc"} ELSE {}
    IN
    /\ cpc = "init"
    /\ CASE ~openOk ->
              /\ held' = ctx
              /\ cpc' = "failed"
              /\ UNCHANGED hc
         [] ~mmapOk ->
              /\ held' = ctx
              /\ cpc' = "failed"
              /\ UNCHANGED hc
         [] ~callocOk ->
              /\ Die("segv")
              /\ UNCHANGED hc
         [] OTHER ->
              /\ held' = {"hc", "fd", "map"}
              /\ hc' = "hc"
              /\ cpc' = "ready"
    /\ UNCHANGED <<badFree, omem, offset, out, space, wrote, vals>>

(* The caller points hc->omem at its output buffer.                       *)
SetOmem ==
    /\ cpc = "ready"
    /\ omem = NULL
    /\ omem' = "output"
    /\ UNCHANGED <<cpc, hc, held, badFree, offset, out, space, wrote, vals>>

(* The caller sets hc->offset.                                            *)
SetOffset(o) ==
    /\ cpc = "ready"
    /\ offset' = o
    /\ UNCHANGED <<cpc, hc, held, badFree, omem, out, space, wrote, vals>>

(* write_data()'s first loop: for (i = 0; i < N - 1; i += 2) r2[i/2] gets  *)
(* <<output[i], output[i+1]>>.                                             *)
RECURSIVE PackShortLoop(_, _, _)
(* Mutant: the loop runs while i < N - 2.                                 *)
PackShortLoop(o, i, r2) ==
    IF i < NWords - 2
      THEN PackShortLoop(o, i + 2, [r2 EXCEPT ![i \div 2] = <<o[i], o[i + 1]>>])
      ELSE r2

RECURSIVE PackLoop(_, _, _)
PackLoop(o, i, r2) ==
    IF i < NWords - 1
      THEN PackLoop(o, i + 2, [r2 EXCEPT ![i \div 2] = <<o[i], o[i + 1]>>])
      ELSE r2

(* The twenty 16-byte stores of write_data(): pair r2[k] goes to words    *)
(* 2k and 2k + 1 of the BAR, k = 0 .. N/2 - 1.                           *)
StorePairs(sp, r2) ==
    [w \in BarWords |-> IF w < NWords THEN r2[w \div 2][(w % 2) + 1] ELSE sp[w]]

(* write_data(): output = hc->omem is dereferenced in the first loop. r2   *)
(* starts uninitialized: any words.                                        *)
WriteData ==
    /\ cpc = "ready"
    /\ IF omem = NULL
         THEN /\ Die("segv")
              /\ UNCHANGED <<space, wrote>>
         ELSE /\ \E junk \in [Pairs -> Words \X Words] :
                   space' = StorePairs(space, PackLoop(out, 0, junk))
              /\ wrote' = TRUE
              /\ UNCHANGED <<cpc, held>>
    /\ UNCHANGED <<hc, badFree, omem, offset, out, vals>>

(* read_data(): one 16-byte load at space + hc->offset, then val1_o and    *)
(* val2_o get its two words. A load outside the mapping faults.           *)
ReadData ==
    /\ cpc = "ready"
    /\ IF offset \in 0..(MapWords - 2)
         THEN /\ vals' = <<ToInt(space[offset]), ToInt(space[offset + 1])>>
              /\ UNCHANGED <<cpc, held>>
         ELSE /\ Die("segv")
              /\ UNCHANGED vals
    /\ UNCHANGED <<hc, badFree, omem, offset, out, space, wrote>>

(* closeHardware(): close(hc->fd); free(hc->mem), which mmap() returned;   *)
(* free(hc). glibc may detect the bad pointer and abort, or not.          *)
CloseHardware ==
    /\ cpc = "ready"
    /\ \/ Die("abort") /\ UNCHANGED <<hc, badFree>>
       \/ /\ held' = held \ {"fd", "hc"}
          /\ badFree' = TRUE
          /\ hc' = NULL
          /\ cpc' = "exit"
    /\ UNCHANGED <<omem, offset, out, space, wrote, vals>>

Next ==
    \/ \E c, o, m \in BOOLEAN : Initialize(c, o, m)
    \/ SetOmem
    \/ \E o \in Offsets : SetOffset(o)
    \/ WriteData
    \/ ReadData
    \/ CloseHardware

Spec == Init /\ [][Next]_vars

---------------------------------------------------------------------------
TypeOK ==
    /\ cpc \in {"init", "ready", "failed", "exit", "segv", "abort"}
    /\ hc \in {"hc", NULL}
    /\ held \subseteq {"hc", "fd", "map"}
    /\ badFree \in BOOLEAN
    /\ omem \in {"output", NULL}
    /\ offset \in Offsets \cup {0}
    /\ out \in [OutWords -> Vals]
    /\ space \in [BarWords -> Words]
    /\ wrote \in BOOLEAN
    /\ vals \in Ints \X Ints

(* After write_data() returns, the first N words of the BAR hold the      *)
(* caller's output words in order: the pairing loop and the fixed stores  *)
(* of write_data() together copy every word once, to its own place.       *)
WriteDataStoresOutput ==
    wrote => \A i \in OutWords : space[i] = out[i]

(* initialize() "returns NULL on failure" (pci_shim.h): it either returns *)
(* a context, or returns NULL holding nothing it acquired; it does not    *)
(* crash on a failed calloc(), open() or mmap().                          *)
InitializeFailsCleanly ==
    [][cpc = "init" => /\ cpc' # "segv"
                       /\ (cpc' = "failed" => held' = {})]_vars

(* closeHardware() "frees all resources" (pci_shim.h): once it returned,  *)
(* no descriptor, mapping or allocation of the context is left, and free  *)
(* was handed only what malloc returned.                                  *)
CloseReleasesAll ==
    cpc = "exit" => held = {} /\ ~badFree

(* read_data() hands back the two words it loaded from the BAR.           *)
ReadDataKeepsWords ==
    [][(ReadData /\ cpc' = "ready")
          => vals' = <<space[offset], space[offset + 1]>>]_vars

=============================================================================
