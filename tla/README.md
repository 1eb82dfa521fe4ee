# TLA+ models of timely-mirror

This directory holds TLA+ models of the FPGA-access code under `src/`. TLC checks them. Each model is written from the C source: every action names the function it translates. `PROJECT.json` lists, for each definition, the source lines it models. It also lists the runs, the mutants, the findings and the hazards.

## The system

| Part | Source | What it does |
|---|---|---|
| Physical memory mapper | `src/eci_driver/enzian_memory.c` | A Linux character device, `/dev/fpgamem`. `mmap` installs a fault handler. `huge_fault` maps 1 GiB PUD pages of FPGA memory at physical `0x10000000000 + (pgoff << PAGE_SHIFT)` under `pud_lock`. `ioctl` issues one of 11 ThunderX cache instructions. |
| Streaming DMA shim | `src/testing_with_shim/xdma_shim.c`, `.h` | `initialize()` allocates two page-aligned buffers and opens the H2C and C2H XDMA devices. `run()` = `send()` (a loop of `write()`) then `receive()` (a loop of `read()`); any error aborts. `closeHardware()` releases everything. |
| Shim test clients | `test_16.c`, `test_31_op.c`, `test_64.c` | Each one calls `initialize`, fills `mem_out`, calls `run` once, prints `mem_in`, then calls `closeHardware`. |
| PCIe MMIO shim | `src/testing_with_shim/pci_shim.c`, `.h` | `initialize()` maps 64 KiB of the FPGA's BAR. `write_data()` stores 40 words as twenty 16-byte stores. `read_data()` loads a pair into two `int` fields. |
| Driver benchmarks | `src/eci_driver/mem.c`, `mem2.c`, `mb_enzian.c` | Timing loops. They open `/dev/fpgamem`, `mmap` it `MAP_SHARED \| MAP_FIXED` at offset 0, touch it, then `munmap` and `close` it. |
| PCIe RPC benchmark | `src/testing_with_shim/pci_rpc_512.c` | Maps the same BAR as the PCIe shim, on its own. Ten times, it stores a 40-word request with twenty written-out 16-byte stores, issues a barrier, and loads 96 words back pairwise. |
| Generated | `*.mod.c` | modpost symbol tables. |

How the parts interact:
- A process's threads touch the driver's mapping concurrently. The kernel calls `huge_fault` for each first touch of a huge page.
- The driver benchmarks are the driver's only users in the repository. They open the node that `init` created; `rmmod` can race them. Their touch pattern decides which PUD entries `huge_fault` installs.
- The shim clients drive the XDMA shim sequentially, against an FPGA that answers a request once it has consumed all of it.

## Modules

| Module | Models | State | Actions |
|---|---|---|---|
| `XdmaTransfer` | The abstract promise of the XDMA shim | `life`, `out`, `in` | Open, Submit, Complete (atomic: the whole answer appears), Close, Die |
| `XdmaShim` | `xdma_shim.c` and the `main()` of `test_16.c` | Caller pc, context, held resources, `run()` phase, loop `count`/`ptr`, both buffers, both channels, the FPGA's pending answer | `Initialize(fail)`, `Fill`, `RunStart`, `Write(n)`, `SendDone`, `Read(n)`, `RecvDone`, `CloseHardware`; FPGA `Respond` and `Stream(k)` |
| `EnzianMemory` | `enzian_memory.c` used by one process with `Threads` threads | Module registrations, open file, `S_DAX`, the mapping and its `pgoff`, one PUD entry per huge page, the page-table lock holder, each thread's fault state | `ModuleInit(failed)`, `ModuleExit`, `EnzianMemoryOpen`, `EnzianMemoryRelease`, `EnzianMemoryMmap(off)`, `Munmap`, `EnzianMemoryIoctl(cmd)`, `HandleFault(t,a,size)`, `PudLock(t)`, `SetPud(t)` |
| `EnzianBench` | `EnzianMemory` composed with the `main()` of `mem.c`, `mem2.c` and `mb_enzian.c` | The driver's state, plus the program, its argv-chosen touch plan, its next call, its next touch, the last access (page and frame reached) and how it ended | `BenchOpen` (or the assert abort), `BenchMmap`, `Access`, `BenchFault` (the driver's `HandleFault`), `BenchSigbus`, `BenchSegv`, `TouchesDone`, `BenchMunmap`, `BenchMunmapPrefix`, `BenchClose`, `BenchReturn`; `insmod`/`rmmod` at any time; the driver's `PudLock`/`SetPud` |
| `PciRpc` | `main()` of `pci_rpc_512.c` | pc, held fd/map, return value, loop counter, the stack array `r2`, BAR words, the words last read back | `Open(ok)`, `Mmap(ok)`, `Request` (fill, pack, stores), `ReadBack` (barrier and load loop), `Finish` |
| `PciShim` | `pci_shim.c` with a caller written against `pci_shim.h` | Caller pc, context, held resources, `omem`, `offset`, output buffer, BAR words, `val1_o`/`val2_o` | `Initialize(calloc,open,mmap)`, `SetOmem`, `SetOffset(o)`, `WriteData`, `ReadData`, `CloseHardware` |

Each `MC_*.tla` binds a module's constants for TLC. Each `MC_*.cfg` chooses the properties of one run.

Modelling choices:
- **XdmaShim.**
  - Bytes are symbolic (`<<run, index>>`), so a byte lost, duplicated or misplaced shows.
  - One `write()`/`read()` returns −1, or 1..`MaxChunk` bytes (a short transfer). It blocks while the channel has no room or no data.
  - `abort()`, a failed `assert` and `SIGSEGV` end the process; the OS reclaims what it held.
  - `Initialize` is one action: which acquisition fails, the code's test after each, and the goto unwind.
  - The test clients call `run()` once. The model lets the caller run a context up to `MaxRuns` times, as the interface in `xdma_shim.h` allows, so that reuse of `count`, `ptr` and the buffers is checked too.
- **EnzianMemory.**
  - Addresses are in pages.
  - The kernel tests `pud_none()` without the lock before calling `huge_fault`. It passes size PUD, or PMD when the PUD already holds a table. A task with huge pages disabled gets `fault()`, which is `SIGBUS`.
  - `HandleFault` is `huge_fault` up to its size check. `PudLock` is `pud_lock`. `SetPud` is the entry construction, `set_pte_at`, `spin_unlock` and the return.
  - `munmap` holds `mmap_sem` for writing, so it waits until no fault is in progress.
  - The ioctl's `unsigned int cmd` is modelled by its range test, because TLC cannot hold 2^32.
- **EnzianBench.**
  - Each program is its sequence of calls (`MemOps`, `Mem2Ops`, `MbOps`) and the set of touch plans its argv cases produce (`MemPlans`, `Mem2Plans`, `MbPlans`), in pages of an offset-0 mapping of `NHuge` huge pages. The page `Beyond` is past the mapping.
  - A touch with no entry runs the driver's fault path and is retried. A touch with an entry reaches one of the frames the MMU may make of it: arm64 leaves a misaligned block address CONSTRAINED UNPREDICTABLE, so the low bits are either taken as zero or ORed with the address's offset.
  - The process's end (return, failed assert, `SIGSEGV`, `SIGBUS`) unmaps what is left and closes the file, as `exit_mm` and `exit_files` do.
  - `mb_enzian.c`'s `munmap(area, SIZE * no_cpus)` zaps the first huge page, the only one it touches; the rest stays mapped until exit.
- **PciRpc.**
  - The BAR starts with any contents and `r2` with any stack garbage.
  - The FPGA's processing of the request is not modelled: it is not in the repository. So the words read back past the request are whatever the BAR held.
  - The request values are the forty literal words the code assigns to `output`; a run uses the first `NWords` of them.
- **PciShim.**
  - `uint64_t` and `int` are scaled to 3 and 2 bits, so the narrowing in `read_data()` wraps as it does in the code.
  - `write_data()`'s pairing loop is the recursive operator `PackLoop`, taken from the `for` loop as written. Its `r2` starts as arbitrary words: it is uninitialised stack.
  - `free()` of the mmap'd pointer is undefined. The model lets glibc abort, or lets the call return having freed nothing valid.

## Runs

Passing runs (`expect: pass`):
- **`xdma_pass`**: 151 states. Sizes: 4-byte request, 4-byte answer, chunks of at most 2, 3 runs. Checks:
  - `TypeOK`.
  - `NoLeak`: a NULL context means nothing is held.
  - `SendCompletesBeforeReceive` (action property).
  - `RunEnds`: liveness.
  - `ImplementsTransfer`: `XdmaTransfer!ASpec` under the refinement mapping, so each run delivers exactly the FPGA's answer to exactly the payload.
- **`enzian_pass`**: 107,593 states. Two threads, 2 huge pages of 2 pages each, offsets {0, 2}, commands {−1, 0, 10, 11}, 2 mmaps, 1 module load. Checks:
  - `TypeOK`.
  - `EntryInBackingHugePage`: an installed entry lies in the huge page of device memory that backs its huge page.
  - `FaultsComplete`: liveness, every fault eventually completes.
- **`bench_pass`**: 1,464 states. One thread; 4 huge pages of 2 pages; one mmap; one module load. Checks:
  - `AccessHitsAddressedFrame`: every access reaches frame `Base + page`. This holds although `huge_fault` does not round the frame, because each benchmark touches a huge page first at its start, or touches one page only.
  - `FaultRunsInLoadedModule`: no thread is inside `huge_fault` after `rmmod` took the module away. The fault needs the mapping, the mapping holds the file, and the file pins the module through `cdev.owner`.
  - `BenchEnds`: liveness, every benchmark run returns or dies.
- **`rpc_pass`**: 16,720 states. A 4-word request, 6 words read back, an 8-word BAR, the code's ten iterations. Checks:
  - `StoresPlaceOutput`: after the stores, BAR words 0..N−1 hold the request in order.
  - `ReadBackCoversAnswer`: each read-back loads words 0..M−1 once, in order, and its head is the request just stored.
  - `ReturnsReleased`: `return 1` leaves nothing held, and `return 0` leaves the BAR unmapped.
- **`pci_pass`**: 736 states. 4 words, a 6-word BAR, offsets {0, 4, 5}, values {1, 6}. Checks:
  - `TypeOK`.
  - `WriteDataStoresOutput`: the packing loop and the fixed stores, against the reference "word i of the BAR is output word i".

Violation runs (`expect: violation`). Each checks one property the code breaks; `PROJECT.json` "findings" says what each shows.

| Run | Property | What TLC finds |
|---|---|---|
| `xdma_context_complete` | `ContextComplete` | `xdma_shim.c:64` tests `fd_out` for the `fd_in` open |
| `enzian_spec_frame` | `SpecFrame` | the frame is not rounded to the huge page (spec §8.1) |
| `enzian_exit_releases` | `ExitReleasesAll` | no `cdev_del`, and a `MINORMASK` count |
| `enzian_live_overwrite` | `NoLiveEntryOverwrite` | no `pud_none` re-check under the lock |
| `pci_initialize_fails_cleanly` | `InitializeFailsCleanly` | NULL returned with the context still held after `open`/`mmap` fails; crash after a failed `calloc` |
| `pci_close_releases` | `CloseReleasesAll` | `free()` of the mmap'd BAR |
| `pci_truncation` | `ReadDataKeepsWords` | `uint64_t` narrowed to `int` |

Each property of a passing run has a mutant in `PROJECT.json`. A mutant is a plausible bug in the mapped definition, and the run finds it. The mutants are:
- a dropped error check;
- a `send_ptr` that is not advanced;
- loop bounds off by one either way;
- a missing free in the unwind;
- a pfn with the wrong shift or without `pgoff`;
- a dropped size check;
- a missing `spin_unlock`;
- a cdev without `owner`, so nothing pins the module;
- a pairing loop stopping at `N - 2`;
- a written-out store repeating the previous offset, and a read-back loop stopping at `M - 2`;
- a failed `mmap` returning without `close`;
- an unsigned narrowing.

### Why the bounds are enough

- **XdmaShim.** A 4-byte transfer in chunks of at most 2 covers:
  - one-chunk, two-chunk and four-chunk sends;
  - a short chunk followed by a full one;
  - an error at every position;
  - the FPGA streaming its answer in pieces that do not line up with the reads.

  Three runs reuse a context after a complete run.
- **EnzianMemory.** Two threads and two huge pages of two pages give every pair of contexts:
  - same page;
  - same huge page, different page;
  - different huge pages.

  Offset 2 makes `pgoff` non-zero but still a whole huge page (`HugeSize` is 2), the only kind of offset `EntryInBackingHugePage` holds for; the benchmarks pass 0. A fault at a page inside a huge page still makes `vmf->pgoff` unaligned, and `enzian_spec_frame` shows the unrounded frame that results. Two mmaps cover remapping after `munmap`.
- **EnzianBench.** Four huge pages of two pages let `mem2.c`'s sweep fault two huge pages, each at its start. They also let a single touch fall at a huge page's start, inside one, or past the mapping.
- **PciRpc.** Two stores show a lost first or last pair. Six words read back include a pair past the request. BAR and stack values 0/1 are never request words, so stale data shows.
- **PciShim.** Four words are two stores, so a lost first or last pair shows. Offset 4 reads the last in-range pair. Offset 5 runs off the end.

### Fairness

- **XdmaShim.** There is weak fairness on the caller's steps and on writes and reads that move bytes: the XDMA driver completes a transfer once the engine is ready. There is also weak fairness on the FPGA answering and streaming. A failing transfer is not fair; the process may simply never get an error.
- **EnzianMemory.** `SetPud` has weak fairness: the holder of a spinlock runs to the unlock. `PudLock` has strong fairness, because a spinning thread contends with others that take and release the lock repeatedly. This assumes a fair spinlock, which is what the arm64 queued spinlock provides. Module loading, mmap, munmap and faults themselves are not fair: a process may stop.
- **EnzianBench.** The benchmark's own steps have weak fairness: it is a running process. `SetPud` and `PudLock` keep their fairness from above. `insmod` and `rmmod` have none.

`CHECK_DEADLOCK FALSE` is set in every cfg, because the modelled programs end: after `exit`, after a crash or abort, or, for the driver, once the bounded loads and mmaps are spent.

## Not modelled

- **A zero-byte `read()`/`write()` in `run()`.** `XdmaShim` assumes each transfer moves at least one byte. One that returns 0 would spin `send()`/`receive()` forever (hazard at `xdma_shim.c:144`). Whether the XDMA devices can do this depends on the XDMA driver, which is not in the repository.
- **The sizes of `test_31_op.c` and `test_64.c`.** Their `main()` makes `test_16.c`'s calls with other sizes, so `XdmaShim`'s caller stands for all three at scaled sizes.
- **The contention of `pud_lock`.** `pud_lock` is the mm-wide `page_table_lock`, so faults on different huge pages serialise, where spec §5 says they do not contend. This is a performance divergence. Its run was given up for `rpc_pass`. No property of the passing runs states it: without a re-check of the slot the lock protects nothing a safety property could tell apart, so a wrong lock would not show.
- **The benchmarks' timing, printing and values.** Only which pages they touch, and in what order, reaches the driver.
- **The `test_16.c` NULL context.** `XdmaShim` still models the `SIGSEGV` after a failed `initialize()`, but no run checks it any more. It is listed as a hazard.
- **The `*.mod.c` files.** They are generated.
- **The effect of the cache instructions.** The ioctl is modelled as the choice of instruction and the return value.
- **The FPGA's computation** of its answer, which is a fixed function of the request.
- **The other flags of the inode** that `open()` clears.

## Status and what is left

Done:
- `XdmaTransfer`, `XdmaShim`, `EnzianMemory`, `PciShim`, `EnzianBench` and `PciRpc`, each with a passing run, a mutant for every property, and the violation runs above.
- Every program component is modelled. The generated `*.mod.c` files are not.
- A half-failed `init` followed by `open` is covered by `bench_pass`: the benchmark aborts on its assert, and `BenchEnds` checks that it ends.

All twelve run slots are used, so a new question must replace or merge a run. What is left:
- **`hc->omem` in PciShim** (hazard at `pci_shim.c:109`). The model reaches the crash, but the header says nothing of `omem`, so no property states it.
- **A module reload** (`MaxLoads = 2`). It would show what a second load meets after the leaky exit. Its root cause, the missing `cdev_del`, is already the `enzian_exit_releases` finding.
- **The ioctl's command range** (hazard at `enzian_memory.c:32`). The model reaches −EINVAL for −1 and 11. A property would only restate the `switch`.
- **An abstract fault-resolution module** for spec §8. `EnzianMemory` cannot refine it as written, because the frame is not rounded (`enzian_spec_frame`) and a live entry can be overwritten (`enzian_live_overwrite`). Those two findings are where the refinement would fail.
