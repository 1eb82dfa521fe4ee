---------------------------- MODULE EnzianMemory ----------------------------
(***************************************************************************)
(* The FPGA memory driver of src/eci_driver/enzian_memory.c: module        *)
(* init/exit, open/release, mmap, the huge-page fault handler and the      *)
(* cache-maintenance ioctl, used by one process whose threads touch the    *)
(* mapping concurrently (as src/eci_driver/mem.c, mem2.c and mb_enzian.c   *)
(* do: open /dev/fpgamem, mmap it MAP_SHARED|MAP_FIXED at offset 0, touch  *)
(* it, munmap, close).                                                     *)
(*                                                                         *)
(* Addresses are counted in pages. A huge page (PUD, 1 GiB) is HugeSize    *)
(* pages; the mapping spans NHuge huge pages from a PUD-aligned start, as  *)
(* the MAP_FIXED addresses of the callers are. pud[h] is the PUD entry of  *)
(* huge page h of the mapping: NONE or the frame number written into it.  *)
(*                                                                         *)
(* The kernel's part of a fault is modelled as the driver sees it: the     *)
(* fault path tests pud_none() without a lock and then calls huge_fault()  *)
(* (size PUD when the task may use huge pages; PMD when the PUD slot is    *)
(* already a table) or, for a task with huge pages disabled, fault().      *)
(* munmap() holds mmap_sem for writing, so no fault is in progress.        *)
(***************************************************************************)
EXTENDS Integers, FiniteSets

CONSTANTS
    Threads,      \* the threads of the process touching the mapping
    NHuge,        \* huge pages in the mapping
    HugeSize,     \* pages per huge page (PUD_SIZE >> PAGE_SHIFT, scaled)
    Base,         \* 0x10000000000 >> PAGE_SHIFT, scaled: the device's first frame
    Offsets,      \* mmap offsets (vm_pgoff) the process may pass
    Cmds,         \* ioctl commands the process may pass, as C ints
    MaxMaps,      \* bound on the mmap() calls
    MaxLoads,     \* bound on the module loads
    NONE          \* no entry, no holder, no instruction

ASSUME NHuge \in Nat \ {0} /\ HugeSize \in Nat \ {0}
ASSUME Base % HugeSize = 0
ASSUME \A o \in Offsets : o \in Nat

VARIABLES
    loaded,    \* the module is loaded
    reg,       \* kernel registrations the module made and has not undone
    loads,     \* module loads so far
    fileOpen,  \* the process has /dev/fpgamem open
    dax,       \* S_DAX in the device inode's i_flags
    mapped,    \* the process has a mapping of the device
    maps,      \* mmap() calls so far
    pgoff,     \* vm_pgoff of the mapping
    pud,       \* pud[h]: the entry of huge page h of the mapping
    ptl,       \* the holder of pud_lock(mm, pud), i.e. mm->page_table_lock
    tpc,       \* tpc[t]: "run", "lock" (spinning), "locked" or "sigbus"
    taddr,     \* taddr[t]: the page thread t faulted on
    tsize,     \* tsize[t]: the size the kernel asked huge_fault() for
    tpfn,      \* tpfn[t]: the frame huge_fault() computed
    lastOp,    \* the cache instruction the last ioctl issued, or NONE
    ioctlRet   \* what the last ioctl returned

vars == <<loaded, reg, loads, fileOpen, dax, mapped, maps, pgoff, pud, ptl,
          tpc, taddr, tsize, tpfn, lastOp, ioctlRet>>

HugePages == 0..(NHuge - 1)
Pages == 0..(NHuge * HugeSize - 1)
HugeOf(a) == a \div HugeSize
HugeBase(f) == f - (f % HugeSize)
Sizes == {"PUD", "PMD", "PTE"}
Regs == {"region", "class", "cdev", "device"}
EINVAL == 22

(* The instruction each ioctl command issues (enzian_memory_ioctl's       *)
(* switch): the SYS encodings c11,cX,#Y of the ThunderX cache ops.        *)
CacheOps ==
    <<"CVMCACHEWBIL2I", "CVMCACHEWBL2I", "CVMCACHELTGL2I", "CVMCACHESTGL2I",
      "CVMCACHEINVL2", "CVMCACHEWBIL2", "CVMCACHEWBL2", "CVMCACHELCKL2",
      "CVMCACHERDUTLB", "CVMCACHERDMTLB", "CVMCACHEPREFUTLB">>

Init ==
    /\ loaded = FALSE
    /\ reg = {}
    /\ loads = 0
    /\ fileOpen = FALSE
    /\ dax = FALSE
    /\ mapped = FALSE
    /\ maps = 0
    /\ pgoff = 0
    /\ pud = [h \in HugePages |-> NONE]
    /\ ptl = NONE
    /\ tpc = [t \in Threads |-> "run"]
    /\ taddr = [t \in Threads |-> 0]
    /\ tsize = [t \in Threads |-> "PUD"]
    /\ tpfn = [t \in Threads |-> 0]
    /\ lastOp = NONE
    /\ ioctlRet = 0

ThreadVars == <<tpc, taddr, tsize, tpfn>>

---------------------------------------------------------------------------
(* enzian_memory_init(): alloc_chrdev_region, class_create, cdev_add and  *)
(* device_create; failed ones register nothing (device_create fails on an *)
(* ERR_PTR class) and every result is ignored: the init returns 0.        *)
ModuleInit(failed) ==
    /\ ~loaded
    /\ loads < MaxLoads
    /\ loaded' = TRUE
    /\ loads' = loads + 1
    /\ reg' = reg \cup
              ((Regs \ failed) \ (IF "class" \in failed THEN {"device"} ELSE {}))
    /\ UNCHANGED <<fileOpen, dax, mapped, maps, pgoff, pud, ptl, ThreadVars,
                   lastOp, ioctlRet>>

(* Mutant: the cdev without cdev.owner = THIS_MODULE, so that an open     *)
(* file or a mapping no longer pins the module.                           *)
ModuleExitUnpinned ==
    /\ loaded
    /\ loaded' = FALSE
    /\ reg' = reg \ {"device", "class"}
    /\ UNCHANGED <<loads, fileOpen, dax, mapped, maps, pgoff, pud, ptl,
                   ThreadVars, lastOp, ioctlRet>>

(* enzian_memory_exit(): device_destroy and class_destroy undo theirs;    *)
(* unregister_chrdev_region(MKDEV(major, 0), MINORMASK) names a range of  *)
(* MINORMASK minors where one was allocated, so the kernel finds no such  *)
(* region; there is no cdev_del(). Open files and mappings pin the module.*)
ModuleExit ==
    /\ loaded
    /\ ~fileOpen /\ ~mapped
    /\ loaded' = FALSE
    /\ reg' = reg \ {"device", "class"}
    /\ UNCHANGED <<loads, fileOpen, dax, mapped, maps, pgoff, pud, ptl,
                   ThreadVars, lastOp, ioctlRet>>

(* enzian_memory_open(): reachable through the device node; sets          *)
(* inode->i_flags = S_DAX.                                                *)
EnzianMemoryOpen ==
    /\ loaded /\ {"cdev", "device"} \subseteq reg
    /\ ~fileOpen
    /\ fileOpen' = TRUE
    /\ dax' = TRUE
    /\ UNCHANGED <<loaded, reg, loads, mapped, maps, pgoff, pud, ptl,
                   ThreadVars, lastOp, ioctlRet>>

(* enzian_memory_release(): nothing to undo. A mapping keeps its own      *)
(* reference to the file.                                                 *)
EnzianMemoryRelease ==
    /\ fileOpen
    /\ fileOpen' = FALSE
    /\ UNCHANGED <<loaded, reg, loads, dax, mapped, maps, pgoff, pud, ptl,
                   ThreadVars, lastOp, ioctlRet>>

(* enzian_memory_mmap(): VM_PFNMAP and the vm_ops; no frame is mapped     *)
(* until a fault.                                                         *)
EnzianMemoryMmap(off) ==
    /\ fileOpen /\ ~mapped
    /\ maps < MaxMaps
    /\ mapped' = TRUE
    /\ maps' = maps + 1
    /\ pgoff' = off
    /\ pud' = [h \in HugePages |-> NONE]
    /\ UNCHANGED <<loaded, reg, loads, fileOpen, dax, ptl, ThreadVars,
                   lastOp, ioctlRet>>

(* munmap(): under mmap_sem held for writing, so no fault is in progress; *)
(* the entries are zapped and enzian_memory_vma_close() does nothing.     *)
Munmap ==
    /\ mapped
    /\ \A t \in Threads : tpc[t] \in {"run", "sigbus"}
    /\ mapped' = FALSE
    /\ pud' = [h \in HugePages |-> NONE]
    /\ UNCHANGED <<loaded, reg, loads, fileOpen, dax, maps, pgoff, ptl,
                   ThreadVars, lastOp, ioctlRet>>

(* enzian_memory_ioctl(): cmd arrives as an unsigned int; 0..10 issue one *)
(* cache instruction, anything else is -EINVAL. A negative C int becomes  *)
(* 2^32 + cmd >= 2^31, outside 0..10, so the test is on the signed value.  *)
Switch(cmd) == cmd >= 0 /\ cmd <= 10

EnzianMemoryIoctl(cmd) ==
    /\ fileOpen
    /\ IF Switch(cmd)
         THEN lastOp' = CacheOps[cmd + 1] /\ ioctlRet' = 0
         ELSE lastOp' = NONE /\ ioctlRet' = -EINVAL
    /\ UNCHANGED <<loaded, reg, loads, fileOpen, dax, mapped, maps, pgoff,
                   pud, ptl, ThreadVars>>

---------------------------------------------------------------------------
(* Mutant: the pfn ignores the mapping's offset into the device.          *)
FaultPfnNoPgoff(a) == Base + a

(* Mutant: vmf->pgoff shifted by one bit too many.                        *)
FaultPfnWrongShift(a) == Base + 2 * (pgoff + a)

(* The frame enzian_memory_huge_fault() computes: phys_to_pfn_t(          *)
(* 0x10000000000 + (vmf->pgoff << PAGE_SHIFT)), vmf->pgoff being the file *)
(* page of the faulting address.                                          *)
FaultPfn(a) == Base + pgoff + a

(* Thread t touches page a whose PUD is empty. The fault path calls       *)
(* huge_fault(size) on a DAX mapping when size is PUD or PMD, fault()     *)
(* otherwise; fault() and a non-PUD huge_fault() return VM_FAULT_SIGBUS.  *)
(* A PUD-size huge_fault() computes the frame and goes for the lock.      *)
HandleFault(t, a, size) ==
    /\ mapped
    /\ tpc[t] = "run"
    /\ pud[HugeOf(a)] = NONE
    /\ taddr' = [taddr EXCEPT ![t] = a]
    /\ tsize' = [tsize EXCEPT ![t] = size]
    /\ IF dax /\ size \in {"PUD", "PMD"}
         THEN /\ tpfn' = [tpfn EXCEPT ![t] = FaultPfn(a)]
              /\ tpc' = [tpc EXCEPT ![t] = IF size # "PUD" THEN "sigbus"
                                                           ELSE "lock"]
         ELSE /\ tpc' = [tpc EXCEPT ![t] = "sigbus"]
              /\ UNCHANGED tpfn
    /\ UNCHANGED <<loaded, reg, loads, fileOpen, dax, mapped, maps, pgoff,
                   pud, ptl, lastOp, ioctlRet>>

(* ptl = pud_lock(mm, pud): spins until the page-table lock is free.      *)
PudLock(t) ==
    /\ tpc[t] = "lock"
    /\ ptl = NONE
    /\ ptl' = t
    /\ tpc' = [tpc EXCEPT ![t] = "locked"]
    /\ UNCHANGED <<loaded, reg, loads, fileOpen, dax, mapped, maps, pgoff,
                   pud, taddr, tsize, tpfn, lastOp, ioctlRet>>

(* The handler's locals (address, size, pfn) end with its return.        *)
ForgetFault(t) ==
    /\ taddr' = [taddr EXCEPT ![t] = 0]
    /\ tsize' = [tsize EXCEPT ![t] = "PUD"]
    /\ tpfn' = [tpfn EXCEPT ![t] = 0]

(* Mutant: the handler returns without spin_unlock(ptl).                  *)
SetPudNoUnlock(t) ==
    /\ tpc[t] = "locked"
    /\ pud' = [pud EXCEPT ![HugeOf(taddr[t])] = tpfn[t]]
    /\ tpc' = [tpc EXCEPT ![t] = "run"]
    /\ ForgetFault(t)
    /\ UNCHANGED <<loaded, reg, loads, fileOpen, dax, mapped, maps, pgoff,
                   ptl, lastOp, ioctlRet>>

(* pfn_pud, pud_mkhuge, pte_mkwrite, set_pte_at on vmf->pud, without      *)
(* looking at what the slot holds; spin_unlock; return VM_FAULT_NOPAGE,   *)
(* after which the access is retried through the new entry.               *)
SetPud(t) ==
    /\ tpc[t] = "locked"
    /\ pud' = [pud EXCEPT ![HugeOf(taddr[t])] = tpfn[t]]
    /\ ptl' = NONE
    /\ tpc' = [tpc EXCEPT ![t] = "run"]
    /\ ForgetFault(t)
    /\ UNCHANGED <<loaded, reg, loads, fileOpen, dax, mapped, maps, pgoff,
                   lastOp, ioctlRet>>

Next ==
    \/ \E failed \in SUBSET Regs : ModuleInit(failed)
    \/ ModuleExit
    \/ EnzianMemoryOpen
    \/ EnzianMemoryRelease
    \/ \E off \in Offsets : EnzianMemoryMmap(off)
    \/ Munmap
    \/ \E cmd \in Cmds : EnzianMemoryIoctl(cmd)
    \/ \E t \in Threads, a \in Pages, size \in Sizes : HandleFault(t, a, size)
    \/ \E t \in Threads : PudLock(t)
    \/ \E t \in Threads : SetPud(t)

(* A thread holding a spinlock runs on to the unlock; a spinning thread   *)
(* eventually gets the lock (arm64 spinlocks are queued, so fair).        *)
Fairness ==
    /\ \A t \in Threads : WF_vars(SetPud(t))
    /\ \A t \in Threads : SF_vars(PudLock(t))

Spec == Init /\ [][Next]_vars
FairSpec == Spec /\ Fairness

---------------------------------------------------------------------------
(* Properties *)

(* The frames of the device window any offset in Offsets can reach.      *)
DeviceFrames ==
    {Base + o + a : o \in Offsets, a \in Pages}

TypeOK ==
    /\ loaded \in BOOLEAN /\ fileOpen \in BOOLEAN /\ dax \in BOOLEAN
    /\ mapped \in BOOLEAN
    /\ reg \subseteq Regs
    /\ loads \in 0..MaxLoads /\ maps \in 0..MaxMaps
    /\ pgoff \in Offsets \cup {0}
    /\ pud \in [HugePages -> DeviceFrames \cup {NONE}]
    /\ ptl \in Threads \cup {NONE}
    /\ tpc \in [Threads -> {"run", "lock", "locked", "sigbus"}]
    /\ taddr \in [Threads -> Pages] /\ tsize \in [Threads -> Sizes]
    /\ tpfn \in [Threads -> DeviceFrames \cup {0}]
    /\ lastOp \in {CacheOps[i] : i \in 1..11} \cup {NONE}
    /\ ioctlRet \in {0, -EINVAL}

(* Every installed PUD entry points into the device huge page that backs  *)
(* its huge page of the mapping (file pages pgoff + h * HugeSize onward), *)
(* whichever thread and whichever page of it faulted first, over munmap   *)
(* and mmap again at another offset.                                      *)
EntryInBackingHugePage ==
    \A h \in HugePages :
        pud[h] # NONE => HugeBase(pud[h]) = Base + pgoff + h * HugeSize

(* Spec 8.1: the installed frame is the device base plus the faulting     *)
(* offset rounded down to the huge page: exactly the first frame of the   *)
(* backing huge page.                                                     *)
SpecFrame ==
    \A h \in HugePages :
        pud[h] # NONE => pud[h] = Base + pgoff + h * HugeSize

(* An installed PUD entry is never rewritten while the mapping lives: a   *)
(* thread that already reached memory through it must keep doing so, and  *)
(* arm64 forbids changing a live block entry without break-before-make.   *)
NoLiveEntryOverwrite ==
    [][\A h \in HugePages : pud[h] # NONE => pud'[h] \in {pud[h], NONE}]_vars

(* Every huge fault that goes for the page-table lock gets it, installs   *)
(* its entry and returns: nobody keeps the lock, nobody spins forever.    *)
FaultsComplete ==
    \A t \in Threads : tpc[t] \in {"lock", "locked"} ~> tpc[t] = "run"

(* Unloading the module undoes every registration loading it made.        *)
ExitReleasesAll == ~loaded => reg = {}

=============================================================================
