------------------------------- MODULE PciRpc -------------------------------
(***************************************************************************)
(* main() of src/testing_with_shim/pci_rpc_512.c: open the FPGA's BAR     *)
(* file (return 1 on failure), map 64 KiB of it (on failure close the fd  *)
(* and return 1), then ten times: fill output[0 .. N-1], pack it pairwise *)
(* into the stack array r2, store r2 into BAR words 0 .. N-1 with twenty  *)
(* written-out 16-byte stores, __sync_synchronize(), and load BAR words   *)
(* 0 .. M-1 back pairwise; finally munmap and return 0 (the fd is left to *)
(* exit).                                                                 *)
(*                                                                         *)
(* The BAR holds whatever the FPGA left in it when the program starts.    *)
(* The FPGA's own writes to the BAR are not modelled: what it computes is *)
(* not in the repository.                                                 *)
(***************************************************************************)
EXTENDS Integers, Sequences

CONSTANTS
    NWords,     \* N: the request words
    ReadWords,  \* M: the words read back
    MapWords,   \* the 64 KiB mapping, in uint64_t words
    Iters,      \* iterations of the main loop
    DeviceVals, \* values the BAR may hold before the program runs
    StackVals   \* values the uninitialized r2 may hold

ASSUME NWords % 2 = 0 /\ ReadWords % 2 = 0
ASSUME NWords <= ReadWords /\ ReadWords <= MapWords
ASSUME NWords <= 40

VARIABLES
    pc,     \* "open", "mmap", "loop", "read", "exit"
    held,   \* what the process holds: the BAR "fd", the "map"
    ret,    \* main()'s return value, once it returned
    iter,   \* the loop's i
    r2,     \* r2[k]: the k-th pair of the stack array
    space,  \* space[w]: word w of the mapped BAR
    got     \* the words the last read-back loop loaded, in order

vars == <<pc, held, ret, iter, r2, space, got>>

BarWords == 0..(MapWords - 1)
Pairs == 0..(NWords \div 2 - 1)

(* The forty words the loop body assigns to output[0 .. 39] in every     *)
(* iteration: 3, 5, .., 49, then 21, 25, .., 37 and 39, 41, .., 53.       *)
OutputWords ==
    << 3,  5,  7,  9, 11, 13, 15, 17, 19, 21, 23, 25, 27, 29, 31, 33,
      35, 37, 39, 41, 43, 45, 47, 49, 21, 25, 27, 29, 31, 33, 35, 37,
      39, 41, 43, 45, 47, 49, 51, 53 >>

Output == [i \in 0..(NWords - 1) |-> OutputWords[i + 1]]

(* for (i = 0; i < N - 1; i += 2) r2[i/2] = <<output[i], output[i+1]>>.   *)
RECURSIVE PackLoop(_, _)
PackLoop(i, r) ==
    IF i < NWords - 1
      THEN PackLoop(i + 2, [r EXCEPT ![i \div 2] = <<Output[i], Output[i + 1]>>])
      ELSE r

(* Mutant: the last store repeats the offset of the one before it.       *)
StoreSlotsRepeated ==
    [k \in Pairs |-> IF k = NWords \div 2 - 1 /\ k > 0 THEN 2 * (k - 1) ELSE 2 * k]

(* The written-out 16-byte stores of r2[k] at space + 2k.                 *)
StoreSlots == [k \in Pairs |-> 2 * k]

(* The BAR after the stores, issued in order k = 0, 1, ...               *)
RECURSIVE StoreFrom(_, _, _)
StoreFrom(k, sp, r) ==
    IF k > NWords \div 2 - 1 THEN sp
    ELSE LET s == StoreSlots[k]
         IN  StoreFrom(k + 1, [sp EXCEPT ![s] = r[k][1], ![s + 1] = r[k][2]], r)

(* Mutant: the read-back loop stops at i < M - 2.                         *)
RECURSIVE ReadLoopShort(_, _)
ReadLoopShort(i, acc) ==
    IF i < ReadWords - 2
      THEN ReadLoopShort(i + 2, acc \o <<space[i], space[i + 1]>>)
      ELSE acc

(* for (i = 0; i < M - 1; i += 2) r3 = the 16-byte load at space + i.    *)
RECURSIVE ReadLoop(_, _)
ReadLoop(i, acc) ==
    IF i < ReadWords - 1
      THEN ReadLoop(i + 2, acc \o <<space[i], space[i + 1]>>)
      ELSE acc

Init ==
    /\ pc = "open"
    /\ held = {}
    /\ ret = 0
    /\ iter = 0
    /\ r2 \in [Pairs -> StackVals \X StackVals]
    /\ space \in [BarWords -> DeviceVals]
    /\ got = <<>>

---------------------------------------------------------------------------
(* open(".../resource0", O_RDWR | O_SYNC): on -1, perror and return 1.    *)
Open(ok) ==
    /\ pc = "open"
    /\ IF ok THEN held' = {"fd"} /\ pc' = "mmap" /\ UNCHANGED ret
             ELSE pc' = "exit" /\ ret' = 1 /\ UNCHANGED held
    /\ UNCHANGED <<iter, r2, space, got>>

(* Mutant: the MAP_FAILED branch returns without close(fdpcie).           *)
MmapNoClose(ok) ==
    /\ pc = "mmap"
    /\ IF ok THEN held' = held \cup {"map"} /\ pc' = "loop" /\ UNCHANGED ret
             ELSE pc' = "exit" /\ ret' = 1 /\ UNCHANGED held
    /\ UNCHANGED <<iter, r2, space, got>>

(* mmap(base_address, 65536, ..., MAP_SHARED, fdpcie, 0): on MAP_FAILED,  *)
(* perror, close(fdpcie) and return 1.                                    *)
Mmap(ok) ==
    /\ pc = "mmap"
    /\ IF ok THEN held' = held \cup {"map"} /\ pc' = "loop" /\ UNCHANGED ret
             ELSE pc' = "exit" /\ ret' = 1 /\ held' = held \ {"fd"}
    /\ UNCHANGED <<iter, r2, space, got>>

(* One iteration up to the barrier: fill output, pack r2, the stores.     *)
Request ==
    /\ pc = "loop"
    /\ iter < Iters
    /\ r2' = PackLoop(0, r2)
    /\ space' = StoreFrom(0, space, r2')
    /\ pc' = "read"
    /\ UNCHANGED <<held, ret, iter, got>>

(* __sync_synchronize() and the read-back loop; the iteration ends.       *)
ReadBack ==
    /\ pc = "read"
    /\ got' = ReadLoop(0, <<>>)
    /\ iter' = iter + 1
    /\ pc' = "loop"
    /\ UNCHANGED <<held, ret, r2, space>>

(* The loop is done: munmap(pcie_mem_base, 65536); return 0.             *)
Finish ==
    /\ pc = "loop"
    /\ iter = Iters
    /\ held' = held \ {"map"}
    /\ pc' = "exit"
    /\ ret' = 0
    /\ UNCHANGED <<iter, r2, space, got>>

Next ==
    \/ \E ok \in BOOLEAN : Open(ok) \/ Mmap(ok)
    \/ Request
    \/ ReadBack
    \/ Finish

Spec == Init /\ [][Next]_vars

---------------------------------------------------------------------------
(* After the stores of an iteration, BAR words 0 .. N-1 hold the request  *)
(* output[0 .. N-1] in order: the pack loop and the twenty written-out    *)
(* stores together put every word once, at its own place, whatever the    *)
(* uninitialized r2 and the BAR held before.                              *)
StoresPlaceOutput ==
    pc = "read" => \A i \in 0..(NWords - 1) : space[i] = Output[i]

(* Each read-back loop loads BAR words 0 .. M-1, each once and in order,  *)
(* so the request just stored is read back in full at its head.           *)
ReadBackCoversAnswer ==
    (pc = "loop" /\ iter > 0) =>
        /\ got = [j \in 1..ReadWords |-> space[j - 1]]
        /\ SubSeq(got, 1, NWords) = [j \in 1..NWords |-> Output[j - 1]]

(* main() returns 1 only having released what it acquired, and returns 0 *)
(* with the BAR unmapped (the fd it leaves open is closed by exit).      *)
ReturnsReleased ==
    pc = "exit" => "map" \notin held /\ (ret = 1 => held = {})

=============================================================================
