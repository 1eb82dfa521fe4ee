----------------------------- MODULE EnzianBench -----------------------------
(***************************************************************************)
(* The driver of EnzianMemory composed with the programs that use it:     *)
(* main() of src/eci_driver/mem.c, mem2.c and mb_enzian.c. Each opens     *)
(* /dev/fpgamem and asserts on the result, maps it MAP_SHARED|MAP_FIXED   *)
(* at offset 0 and asserts, touches the mapping, unmaps it and closes the *)
(* file (mb_enzian.c unmaps only a prefix and leaves the rest, with the   *)
(* file, to exit). Each is single-threaded: its thread is Main.           *)
(*                                                                         *)
(* A touch of a huge page with no entry faults through the driver         *)
(* (HandleFault, PudLock, SetPud) and is retried; one with an entry goes  *)
(* to the frame the MMU makes of the entry and the address. The entry     *)
(* of a PUD block should hold a huge-page-aligned frame; for one that     *)
(* does not, arm64 leaves it CONSTRAINED UNPREDICTABLE whether the low    *)
(* bits are taken as zero or ORed with the address's offset.              *)
(***************************************************************************)
EXTENDS EnzianMemory, Bitwise, Sequences

VARIABLES
    prog,     \* the program running: "mem", "mem2" or "mb"
    plan,     \* the pages its touches address, in order (its argv decides)
    pc,       \* the index of its next system call in Ops(prog)
    step,     \* the index of its next touch in plan
    reached,  \* <<page, frame>> of the last access, or NONE
    fate      \* "running", or how the process ended

benchVars == <<prog, plan, pc, step, reached, fate>>
allVars == <<vars, benchVars>>

Main == CHOOSE t \in Threads : TRUE

(* The first page past the mapping.                                       *)
Beyond == NHuge * HugeSize

(* One access at page a of an offset-0 mapping, or at a page past it.     *)
OnePage == {<<a>> : a \in Pages \cup {Beyond}}

(* mem.c main(): open, assert(fd >= 0), mmap 16 GiB at 0x10000000000,     *)
(* assert; with argc 2 one read, with argc 3 a thousand writes, of        *)
(* ptr[offset / 8] for the offset in argv[1]; munmap, assert(!r), close.  *)
MemOps == <<"open", "mmap", "touch", "munmap", "close">>
MemPlans == {<<>>} \cup OnePage

(* mem2.c main(): the same calls. argc 1 reads the first 64 KiB; argc 2   *)
(* writes ptr[i * 0x200000] for i < 512, every 16 MiB through the first   *)
(* half of the mapping, so each huge page is first touched at its start;  *)
(* argc 3 touches nothing; argc 4 writes ptr[offset / 8] a thousand times.*)
Mem2Ops == MemOps
Mem2Sweep == [i \in 1..(Beyond \div 2) |-> i - 1]
Mem2Plans == {<<0>>, Mem2Sweep, <<>>} \cup OnePage

(* mb_enzian.c main(): open and assert, mmap 1 TiB at 0x100000000000 and  *)
(* assert; then munmap(area, SIZE * no_cpus) and return, with no close.   *)
MbOps == <<"open", "mmap", "touch", "munmap_prefix">>

(* mb_enzian.c's ten iterations write and read words 0 .. 31 of the area: *)
(* all in its first page.                                                 *)
MbPlans == {<<0>>}

(* munmap(area, SIZE * no_cpus): 64 MiB per CPU, a few GiB of the 1 TiB.  *)
(* The kernel zaps every PUD entry the range reaches, the one it ends in  *)
(* too, since a PUD block cannot be split.                                *)
MbUnmapped(h) == h < 1

Ops(p) == CASE p = "mem" -> MemOps [] p = "mem2" -> Mem2Ops [] OTHER -> MbOps
Plans(p) == CASE p = "mem" -> MemPlans [] p = "mem2" -> Mem2Plans [] OTHER -> MbPlans

Op == IF pc <= Len(Ops(prog)) THEN Ops(prog)[pc] ELSE "return"

(* The frames the MMU may make of PUD entry e for an access at page a.    *)
Translate(e, a) ==
    LET block == HugeBase(e)
    IN  {block + (a % HugeSize), block + ((e % HugeSize) | (a % HugeSize))}

BenchInit ==
    /\ Init
    /\ prog \in {"mem", "mem2", "mb"}
    /\ plan \in Plans(prog)
    /\ pc = 1
    /\ step = 1
    /\ reached = NONE
    /\ fate = "running"

(* The process ends; exit_mm() unmaps what is left, exit_files() closes  *)
(* the file.                                                              *)
Terminate(how) ==
    /\ fate' = how
    /\ mapped' = FALSE
    /\ fileOpen' = FALSE
    /\ pud' = [h \in HugePages |-> NONE]
    /\ UNCHANGED <<loaded, reg, loads, dax, maps, pgoff, ptl, ThreadVars,
                   lastOp, ioctlRet, prog, plan, pc, step, reached>>

Running == fate = "running"

Advance == pc' = pc + 1 /\ UNCHANGED <<prog, plan, step, reached, fate>>

(* open("/dev/fpgamem"); without the node or the cdev it fails and the   *)
(* assert aborts.                                                         *)
BenchOpen ==
    /\ Running /\ Op = "open"
    /\ \/ EnzianMemoryOpen /\ Advance
       \/ /\ ~(loaded /\ {"cdev", "device"} \subseteq reg)
          /\ Terminate("abort")

BenchMmap ==
    /\ Running /\ Op = "mmap"
    /\ EnzianMemoryMmap(0)
    /\ Advance

(* A touch through an installed entry.                                    *)
Access ==
    /\ Running /\ Op = "touch" /\ step <= Len(plan)
    /\ tpc[Main] = "run"
    /\ plan[step] \in Pages
    /\ pud[HugeOf(plan[step])] # NONE
    /\ \E f \in Translate(pud[HugeOf(plan[step])], plan[step]) :
          reached' = <<plan[step], f>>
    /\ step' = step + 1
    /\ UNCHANGED <<vars, prog, plan, pc, fate>>

(* A touch of a huge page with no entry: the driver's fault handler.      *)
BenchFault ==
    /\ Running /\ Op = "touch" /\ step <= Len(plan)
    /\ plan[step] \in Pages
    /\ \E size \in Sizes : HandleFault(Main, plan[step], size)
    /\ UNCHANGED benchVars

(* VM_FAULT_SIGBUS: the signal's default action kills the process.        *)
BenchSigbus ==
    /\ Running /\ tpc[Main] = "sigbus"
    /\ Terminate("sigbus")

(* A touch past the end of the mapping: SIGSEGV.                          *)
BenchSegv ==
    /\ Running /\ Op = "touch" /\ step <= Len(plan)
    /\ plan[step] = Beyond
    /\ Terminate("segv")

TouchesDone ==
    /\ Running /\ Op = "touch" /\ step > Len(plan)
    /\ Advance /\ UNCHANGED vars

BenchMunmap ==
    /\ Running /\ Op = "munmap"
    /\ Munmap
    /\ Advance

BenchMunmapPrefix ==
    /\ Running /\ Op = "munmap_prefix"
    /\ tpc[Main] = "run"
    /\ pud' = [h \in HugePages |-> IF MbUnmapped(h) THEN NONE ELSE pud[h]]
    /\ UNCHANGED <<loaded, reg, loads, fileOpen, dax, mapped, maps, pgoff,
                   ptl, ThreadVars, lastOp, ioctlRet>>
    /\ Advance

BenchClose ==
    /\ Running /\ Op = "close"
    /\ EnzianMemoryRelease
    /\ Advance

BenchReturn ==
    /\ Running /\ Op = "return"
    /\ Terminate("exit")

(* The program's steps, as the scheduler runs them.                       *)
BenchStep ==
    \/ BenchOpen \/ BenchMmap \/ Access \/ BenchFault \/ BenchSigbus
    \/ BenchSegv \/ TouchesDone \/ BenchMunmap \/ BenchMunmapPrefix
    \/ BenchClose \/ BenchReturn

(* insmod and rmmod, run by the administrator at any time.                *)
Admin ==
    \/ \E failed \in SUBSET Regs : ModuleInit(failed)
    \/ ModuleExit

BenchNext ==
    \/ Admin /\ UNCHANGED benchVars
    \/ PudLock(Main) /\ UNCHANGED benchVars
    \/ SetPud(Main) /\ UNCHANGED benchVars
    \/ BenchStep

(* The process is scheduled while it can run; the fault handler runs to   *)
(* its unlock and gets the lock (see EnzianMemory's Fairness).            *)
BenchFairness ==
    /\ WF_allVars(BenchStep)
    /\ WF_allVars(SetPud(Main) /\ UNCHANGED benchVars)
    /\ SF_allVars(PudLock(Main) /\ UNCHANGED benchVars)

BenchSpec == BenchInit /\ [][BenchNext]_allVars /\ BenchFairness

---------------------------------------------------------------------------
(* Every access the benchmarks make reaches the device frame its address  *)
(* names (Base + page, the mapping being at offset 0), whichever way the  *)
(* MMU reads a misaligned entry: huge_fault() does not round the frame to *)
(* the huge page, and this holds only because each benchmark touches a    *)
(* huge page first at its start or touches one page only.                 *)
AccessHitsAddressedFrame ==
    reached = NONE \/ reached[2] = Base + reached[1]

(* Every run of a benchmark ends: it returns, or dies of an assert, a     *)
(* SIGSEGV or a SIGBUS; no fault it takes leaves it waiting.              *)
BenchEnds == <>(fate # "running")

(* huge_fault() never runs in an unloaded module: a thread inside the     *)
(* fault handler (spinning on or holding the page-table lock) and an      *)
(* rmmod that freed the handler's code never coexist. Only a chain keeps  *)
(* them apart: the fault needs the mapping, the mapping holds the file,   *)
(* and the file holds the module through the cdev's owner                 *)
(* (enzian_memory_init).                                                  *)
FaultRunsInLoadedModule ==
    \A t \in Threads : tpc[t] \in {"lock", "locked"} => loaded

=============================================================================
