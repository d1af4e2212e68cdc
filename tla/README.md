# Verification of the Linux safety isolation demo

This directory holds TLA+ models of the kernel modules under `kernel/` and of the
programs `harness`, `monitor` and `devmem` under `userspace/`, the TLC runs that
check them, and TLAPS proofs of their safety properties. `PROJECT.json` lists the components, the runs,
the mutants that show each property can fail, the source lines behind every
definition, the findings, the hazards and the theorems.

## 1. The system

The demo shows what a mutex, page permissions and an IOMMU do and do not
protect. One physical page, the *safety page*, holds a sentinel word. Kernel
modules protect it, use it politely, or attack it; a harness loads and unloads
them scenario by scenario; a monitor in another terminal shows what happens.

| Component | State it keeps | Operations | Talks to |
|---|---|---|---|
| `kernel/safety_mem` | the page, its direct-map and `vmap()` aliases with their permissions, `g_ctx_protected`, `safety_mutex`, `g_smmu_active` | init, exit, `set_protection`, `safe_write`, proc read and write | gives `ctx_monitor` the range to watch; exports the page and the mutex to every other module |
| `kernel/bad_driver` | `g_last_*`, `g_attack_count` | three attack modes chosen by a write to `/proc/bad_driver_ts` | stores into the page without the mutex |
| `kernel/mutex_threads` | two counters, Threads A and B | init, exit, the two thread loops | share `safety_mutex` with `safety_mem` |
| `kernel/mutex_threads/rogue_thread.c` | Thread C, evidence counters | init, exit, the thread loop in two attack modes | overwrites the page, or the owner word of the mutex |
| `kernel/ctx_monitor` | protected range, ring of fault records, `log_lock` | set range, die notifier, proc read | called by `safety_mem`, and by the kernel on any CPU that faults |
| `kernel/smmu_guard` | device, IOMMU domain, attachment, ring of blocked accesses | init with three soft failures, exit, fault handler, proc read | sets `smmu_active` in `safety_mem` |
| `userspace/harness` | plan, one `ModuleLoader` per scenario, the list of active loaders, the signal flag | setup, action, teardown, signal cleanup, destructors | `insmod`, `rmmod`, proc files, `/tmp/demo_state` |
| `userspace/monitor` | scenario shown, BEFORE and AFTER snapshots, live status, trace events, `g_running` | three threads: poll `/tmp/demo_state`, stream `trace_pipe`, draw; shutdown on a signal | reads what the harness and the kernel write |
| `userspace/devmem` with `common/memory_region.hpp` | a mapping of `/dev/mem`, the stop flag, the last value watched | read, write, watch | the physical memory the kernel modules store into |
| `userspace/analysis`, the rest of `userspace/common` | none that outlives a call | print a report, helpers | proc files |
| `env/`, `cmake/`, Makefiles | none | build and boot | |

### What is hard here

* **Interleaving.** `safe_write()` opens a writable window on a protected page;
  the attack modules and the status reader take no lock; attack commands are not
  serialized among themselves; the notifier runs on another CPU without the lock
  of the range it reads.
* **A lock word in writable memory.** Storing 0 into `safety_mutex.owner`
  changes the owner and also the flags the kernel keeps there for its waiters.
* **Partial failure.** Two `set_memory_*()` calls with separate results; three
  soft failures in the init of `smmu_guard`; an `insmod` sequence that stops half
  way; `kthread_run()` failing for the second thread; a result that is dropped;
  proc files and a state file that may not open, with a scenario going on regardless;
  `open()` or `mmap()` of `/dev/mem` failing half way.
* **Shutdown.** `rmmod` waits for threads that sleep in `mutex_lock()`; a signal
  is acted on only when the next scenario starts; the monitor's `main()` leaves
  by destructors while its threads use what it owns; a module is unloaded while a
  fault handler or a reader is inside it.
* **Timing between processes.** The harness truncates and rewrites
  `/tmp/demo_state` while the monitor polls it, and only sleeps keep them in step;
  verdicts read the page once while Thread B restores it.
* **Input in pieces.** `read()` of `trace_pipe` ends anywhere in a line.
* **Limits.** Two rings and an event list that overflow, counters, addresses and
  values that wrap, words that cross a page.

`PROJECT.json` lists these as hazards, each at its line, with the properties that
would catch them. Hazards without a property say why.

### What makes each part correct

* `safety_mem`: the flag can be believed, the return value is honest, authorized
  writes work and let others in again, a page whose protection was set without an
  error is not freed read-only.
* `bad_driver`: reported protection stops a store through the protected alias;
  the report of an attack describes that attack.
* `mutex_threads`: mutual exclusion as long as the lock word is intact; a detected
  violation is a real one; threads make progress and can be stopped.
* `ctx_monitor` and `smmu_guard`: the log holds the last entries in order; the
  filter follows the range; nothing stays attached after unload.
* Harness: a module has one owner, unloading works in the chosen order, and no
  module survives the process; a verdict has the cause it claims, where proc files
  fail too; the process ends.
* Monitor: from a scenario's action to its teardown the display shows that
  scenario; events are the lines traced; a signal ends it with the terminal
  restored.
* `devmem`: accesses go where the argument says and stay in the mapping; the exit
  status and the lines of a watch tell what happened; nothing leaks.

## 2. Modules

| Module | Models | Built on |
|---|---|---|
| `SafetyMem` | `safety_mem.c` | |
| `BadDriver` | `bad_driver.c`, composed with `SafetyMem` | `SafetyMem` |
| `KernelMutex` | the Linux mutex, external | |
| `MutexThreads` | `mutex_threads.c`, `rogue_thread.c` | `KernelMutex` |
| `BoundedLog` | abstract: the last *Capacity* entries | |
| `LogRing` | the ring code of `ctx_monitor.c` and `smmu_guard.c` | |
| `CtxMonitor` | `ctx_monitor.c` | `BoundedLog` |
| `SmmuGuard` | `smmu_guard.c` with its log | `LogRing`; implements `BoundedLog` |
| `Harness` | `harness/main.cpp`, `scenario_runner.hpp`, `module_loader.*`, `scenarios/*` | |
| `Monitor` | the poller of `monitor/main.cpp`, composed with the harness | `Harness` |
| `MonitorUI` | the threads of `monitor/main.cpp` with `renderer.*` | implements `BoundedLog` |
| `DevMem` | `devmem/main.cpp`, `phys_view.cpp`, `common/memory_region.hpp` | |
| `SafetyMemProofs`, `BadDriverProofs`, `MutexThreadsProofs`, `CtxMonitorProofs`, `SmmuGuardProofs`, `HarnessProofs` (with `Monitor`), `MonitorUIProofs`, `DevMemProofs` | theorems | the module they are about, TLAPS |
| `MC*` | the instance TLC checks | |

### SafetyMem

`mem` is the one word all aliases show; `writable` is the write bit of each
alias in the page tables; `vmapped` says whether `vmap()` worked. `pc`, `op`,
`wasRo`, `retVirt` and `retVmalloc` are a caller's program counter and locals.
Every access of `set_protection()` and `safe_write()` to shared state is an
action of its own, in source order, the early exits and ignored results included.
`ForeignStore` is a store by code that does not take the mutex: it lands exactly
when the alias is writable, as `copy_to_kernel_nofault()` does. `StoreFaults` is
an authorized store to a read-only direct alias: the kernel kills the context,
which keeps the mutex for ever. The reader of `/proc/safety_mem_status` has five
steps, because it takes no lock. The results of `vmap()` and `set_memory_*()`
are chosen from the constants `VmapOutcomes`, `DirectOutcomes` and
`VmallocOutcomes`; on arm64 with Linux 6.6, the build target, `set_memory_*()`
refuses the linear map, so `DirectOutcomes = {FALSE}` there. `showStored` and
`showHeld` are history variables.

So is `dropped`: the aliases whose last change of permission failed at a place
where the code does not look at the result (the end of the window in
`safe_write()`, and the exit). It names the one way in which the flag may be
wrong, so that `FlagSound` can say that there is no other. And so is `lastOk`: the
last `set_protection()` returned 0.

Left out: the levels of the page table walk, the owner's name and the addresses
in the report, log messages, and `g_smmu_active` (in `SmmuGuard`).

### BadDriver

Extends `SafetyMem`. A command runs `target`, `mode`, `load`, `count`, in mode 2
`sample`, `attack`, `result`: one step per access to a global, because two
processes may be in `bad_driver_proc_write()` at once and `g_attack_count++` is
a load and a store. The attack itself is `ForeignStore` or a refusal.
`steady`, `met`, `alone` and `begun` are history. Loading `bad_driver` pins
`safety_mem`. Time stamps and torn copies of the result string are left out.

### KernelMutex and MutexThreads

`KernelMutex` is external: the fast path, the queue, the WAITERS, HANDOFF and
PICKUP bits and the unlock slow path of Linux 6.6 with `CONFIG_DEBUG_MUTEXES`
off, as operators on a record. `MutexThreads` gives each thread the labels of its
loop. `awake` says that a queued task has been woken. `kthread_stop()` is split
into the request, which wakes the thread, and the wait for its end. Counters
wrap at `CounterMod`. `attackMode` is the parameter `attack_mode` of `rogue_thread`: in
one behaviour every `insmod` gives it the same value, chosen at the start, so that
properties can be stated for boots without a metadata attack. The page may hold either value at the start, because
earlier attacks leave theirs. `Writers` stand for processes inside
`safety_mem_set_protection()`; they take the mutex and do nothing else here.
`HarnessOrder` restricts loading to the order the harness uses; nothing in the
kernel does. The counters of `/proc/rogue_thread_status` are left out here; the
one a scenario reads is `cleared` in `Harness`.

### LogRing, BoundedLog, SmmuGuard

`LogRing` has the ring, `log_head`, `log_count` and the spinlock, with the copy
loop of the reader one slot at a time, for any number of contexts that log or
read. `BoundedLog` is the promise: a sequence that keeps the last `Capacity`
entries. The refinement mapping counts an entry as logged when its slot is
filled, and reads a full ring from its head.

`SmmuGuard` extends `LogRing` with the module around it. `stage` walks through
the init and the exit. Each of the three calls that may fail softly chooses its
result; a failing `proc_create()` joins the exit path at `detach`, as in the
source. `BlockedDma` begins the fault handler, on any CPU while the device is
attached: the domain maps nothing, so every access of the device arrives there.
`OpenLog` begins a reader while the proc file exists. Handlers and readers run
while the module is being unloaded; removing the file waits for the readers and
detaching the device for the handlers, which is what the kernel's side does.
Unloading discards the ring, and the next load starts with an empty one; the log
otherwise behaves as `BoundedLog` says.

### CtxMonitor

`CtxMonitor` uses the abstract log. The two stores of the range and the four
loads of the filter condition race, and none is marked `READ_ONCE` or
`WRITE_ONCE`. So stores of different globals become visible in either order,
loads of different globals happen in any order, and the second read of a global
may repeat the first. `during` records the complete ranges a notifier could have
seen. A fault has a program counter (`fault`), the only thing the filter looks at, and
the address whose access failed, which the code does not keep; `access` records it as
history, so that a property can speak of it. `page`
is the page of the `safety_mem` that is loaded: it sets the range of that page,
or none, and does not withdraw it when it goes.

### Harness

`live` is the kernel's list of modules, with their symbol dependencies;
`tracked` is `loaded_modules_` of each scenario's loader; `registered` is
`g_active_loaders`. `Start` computes the plan from the command line as `main()`
does. An `insmod` may fail because of the state of the kernel or for reasons of
its own. Destructors, signal cleanup and teardown share `unload_all()`.

`page` is the safety page at the grain of whole proc commands: its word, whether
it has a vmap alias, and whether that alias is read-only and so reported.
`SafetyMem` and `BadDriver` look inside those commands; a single-threaded harness
issues them one at a time. The model is of arm64, so a store through the linear
map always lands. `ThreadsStep` lets the kernel threads of loaded modules run
between any two steps. The setup, the action and the test behind the verdict of
each scenario are operators named for it (`SetupF`, `RunVmallocAttack`,
`PassedF`). The status file never contains the word "CORRUPTED", for which three
verdicts also look, and without DMA the log of `smmu_guard` is empty; so both are
left out of the verdicts. Any proc file may fail to open or to be read
(`ProcOutcomes`): then no protection is asked for, no attack is made, a snapshot is
empty (`Snapshots`), Scenario F's setup fails, and a verdict is Failed. `landed`,
`restored` and `statusRead` are history.

`publish_state()` is two steps: the open that truncates (`Publish`), as part of the
step before, and `WriteState`, the close that writes the buffered lines. If the open
fails (`StateOutcomes`) the file stays as it is and nothing is written. A snapshot
(`snap`) is the name of the scenario it was taken in, or empty. `told` is history: the
snapshots this scenario has published. An `rmmod mutex_threads` after Thread C has
cleared the owner word (`MayHang`) need not return; `MutexThreads` shows why.

### DevMem

One process after the other runs `devmem` with any subcommand and arguments:
none, too few, an empty text, no number, a number with something behind it,
numbers in range, negative and too large ones. `Strtoull` converts as
`strtoull()` does without a look at `errno`; a value is then cut to 32 bits.
Memory is bytes, words are `WordSize` bytes at any offset, and a mapping is whole
pages from `page_base`. `open()` fails at will, and so does `mmap()`, which
succeeds only where there is memory (`/dev/mem` may also map where there is none and
fault at the access, which kills the process; that is left out). `Close` comes before the test for
`MAP_FAILED`, as in the source. The test of the stop flag, the sleep with the
read after it, and the first read of a watch are steps of their own; `KernelStore`
and `Signal` may come between any two. Before `std::signal()` a signal kills
the process. `stored` and `wordLog` are history.

Left out: an unaligned word is read or written in one step, though the hardware
may split it; the interval only says how long a sleep lasts; `single_shot`,
`watch_phys()` and the accessors `view()`, `mutable_view()` have no caller.

### Monitor

A poll reads the state file (`PollRead`) and updates what is shown
(`PollApply`); the file is smaller than a stream buffer, so a poll sees it empty
or complete, never in part. `Sync` has the rule of `sync_scenario_state()`:
snapshots follow the lines that are there and are reset by the SETUP phase only.
The two sleeps of the harness end only after a poll that began in them
(`fresh`): 300 ms and 1500 ms against a period of 100 ms. This is an assumption about
timing: the code only sleeps, and on a machine that stalls the poller for as long,
`DisplayFollows` fails. Nothing else orders the two processes. The state file may be left over from an earlier harness.

### MonitorUI

The same program from within: its three threads and what they share. The streamer
reads `trace_pipe` in pieces of any length up to the buffer, cuts lines off
`pending`, skips blank ones, and appends events; a read may also return nothing
(`EAGAIN`, `EINTR`), with bytes waiting or without; `push_back()` and `erase()` are
two steps under `events_mx`. The poller stores a field of a snapshot that is atomic
(`val`) and then one under the snapshot's mutex (`status`), as they come in the
state file; here the file may hold anything, for `Monitor` says what it holds when.
The renderer loads the two fields, copies the events and draws. After its loop
the destructors of `main()` run in reverse order: each `std::jthread` requests
its stop and joins, then `TerminalGuard` restores the terminal. A signal clears
`g_running` at any moment. `overlap`, `lines`, `spoken`,
`appended` and `traced` are history: how many lines were traced and which of them
are not blank, the events appended, and the text of those from `trace_pipe`.

A line is two bytes and a newline, so that a read can end inside it. Left out:
one snapshot with two fields stands for two with eight; the flags, the prefix and
the length limit of a message; the layout of a frame; and the live fields of
`DisplayState`, which the poller stores and nothing reads.

## 3. Runs

All bounds are constants of the `.cfg` files. The type invariant of `SafetyMem` is
part of its run. Those of the other modules are the base of their proofs and not
questions of their own: an ill-typed state makes the deeper properties fail or TLC
stop. Of these, the one of `MutexThreads` is not proved in full (section 4).

| Run | Question | Size |
|---|---|---|
| `safety_mem` | With every call to the kernel failing or not: are calls serialized (`CallsSerialized`), can the flag be believed but for a dropped failure (`FlagSound`), can the report contradict itself only for a reason (`StatusCoherent`), does 0 mean success (`ReturnValueHonest`), does the window of `safe_write()` work (`WindowWorks`), is the page freed read-only only after a failure or without a vmap alias (`ReadOnlyFreeExplained`), does every call return (`CallsReturn`)? | 510 k states |
| `safety_mem_linear_map` | Violated: are both aliases locked (`BothAliasesLocked`)? | |
| `bad_driver` | Is a store through the vmap alias refused while protection is steady (`SteadyProtectionBlocks`), is a reported race a race (`RaceReportSound`), does the report describe one attack (`ReportDescribesOneAttack`)? | 1.1 M |
| `mutex_threads` | Both attack modes. Mode 0: wake-ups (`NoLostWakeup`), progress (`ThreadAProgress`), termination of `rmmod` (`ThreadsStopUnlessRobbed`). Mode 1: exclusion before the attack, and how far its damage reaches (`OverlapNeedsMetadataAttack`). Either: no false alarm (`ViolationSound`), the rogue can be stopped (`RogueStops`) | 339 k |
| `mutex_threads_lost_wakeup` | Violated: does `rmmod mutex_threads` end after a metadata attack (`ThreadsStop`)? | |
| `ctx_monitor` | Is a stable range applied exactly to program counters, though it is read without the lock (`CounterFilterExact`), is it that of the page in use whatever inits failed before (`RangeFollowsPage`)? | 951 k |
| `ctx_monitor_torn_range` | Violated: does the filter act on one range (`FilterSeesOneRange`)? | |
| `ctx_monitor_fault_address` | Violated: is a fault on an access to the registered page logged (`FaultsInRangeLogged`)? | |
| `smmu_guard` | Is nothing ever attached to a freed domain, and nothing left behind, no handler and no reader either (`TeardownSound`)? Does the ring implement the bounded log (`ImplementsBoundedLog`), does a reader see one moment (`SnapshotAtomic`)? | 338 k |
| `harness_monitor` | Ownership (`OwnershipExact`), unload order (`UnloadOrderSafe`), no leftovers (`CleanExit`), modules present during the action (`ActionHasItsModules`), meaning of verdicts (`VerdictsExplained`), display in step (`DisplayFollows`), termination (`HarnessEnds`) | 957 k |
| `devmem` | Accesses in the mapping (`AccessWithinMapping`), honest exit status and no leak (`ExitHonest`), a watch that invents nothing (`WatchFaithful`), keeps up (`WatchCatchesUp`) and ends (`WatchStops`) | 452 k |
| `monitor_ui` | Lines whole, once and in order (`LinesWholeInOrder`, `LinesArrive`), the event list as a bounded log (`ImplementsBoundedLog`), frames that show what was there (`FrameFaithful`), shutdown with the threads joined first (`ShutdownCompletes`) | 450 k |

Why the bounds suffice:

* `SafetyMem`: two callers give every pair of overlapping calls and a waiter; one
  foreign and one authorized value distinguish who wrote last. The module may be
  loaded and unloaded any number of times.
* `BadDriver`: two attackers overlap, with two commands per load of the module;
  the counter wraps at 2 so that wrapping happens. One caller is enough for the
  protection to change under them.
* `MutexThreads`: A, B and one writer give a queue of two behind an owner, which
  is what handoff and passing over need. The behaviour is unbounded otherwise.
* `SmmuGuard` with `LogRing`: capacity 3 with unbounded logging of three different
  entries wraps; two contexts are a writer with a reader, two writers, or two
  readers. The lock makes a third wait. Every combination of failures, any number
  of loads.
* `CtxMonitor`: pages `<<2, 3>>` and `<<3, 5>>` share a boundary, addresses 1 to 3
  lie inside, at the end of and outside each, as program counter and as address
  accessed; two faults in a behaviour and a log
  of one entry make it overflow. One CPU is used, because CPUs meet only in the
  log's lock, and that is checked in `SmmuGuard`; two exceed five minutes.
* `Harness` and `Monitor`: every value of `--scenario` and `--start-at` that the
  code distinguishes, and an unknown one; each `insmod`, `vmap()`, `set_memory_ro()`,
  proc file and open of the state file works or fails, each time anew. The file left by
  an earlier harness is that of Scenario F, which `all` runs last (`LeftBy`; the proofs
  take any). `RmmodOutcomes = {TRUE}`: an `rmmod`
  is refused for dependencies only. An `rmmod` that fails for another reason leaves
  its module behind by design of `unload_all()`, which forgets it.
* `DevMem`: two pages of two words of two bytes, with addresses at the start of a
  page, across the end of the first page, across the end of memory, negative and
  too large, and values that fit and do not. Two stores by the kernel give a change, two
  changes and a change back within a sleep. Any number of invocations.
* `MonitorUI`: two traced lines, blank ones included, against a list of two events
  that the monitor's own message already shares, so that it overflows; reads of up
  to four bytes end before, in and after a newline and can hold more than a line.
  One version of the state file besides none and SETUP gives mixed snapshots.

Deadlock is checked in every run but `monitor_ui`, whose program ends. Instances differ in their constants alone, and
no definition is replaced.

### Fairness

* `SafetyMem`: weak fairness for each caller's steps (a running task is
  scheduled) and strong fairness for `Lock`: a waiter that the mutex keeps
  becoming free for gets it. The kernel guarantees this by handoff, and
  `ThreadAProgress` checks it on the real lock word.
* `MutexThreads`: weak fairness for each thread (scheduling; sleeps end) and for
  an `insmod` or `rmmod` in progress. No fairness for the lock itself: progress
  follows from the queue and the handoff. Nothing makes an operator load or unload
  a module or a writer begin.
* `Harness` and `Monitor`: weak fairness for the harness's one thread, so every
  `insmod` and `rmmod` returns, and for the poller. Not for the `rmmod` of finding 2,
  that of `mutex_threads` after the owner word was cleared (`MayHang`): it may wait for
  ever, and `HarnessEnds` says that the harness ends or comes to it. No fairness for
  the kernel threads: no property relies on them.
* `DevMem`: weak fairness for the process, whose sleeps end. None for signals and
  stores.
* `MonitorUI`: weak fairness for each of the three threads, and strong fairness for a
  read that returns bytes: a streamer that comes back to waiting bytes again and again
  is not interrupted each time. None for what is traced, for the signal, or for how many
  bytes a read returns.

`CallsReturn` allows an oops: where the direct map can be protected, an
authorized write may fault and leave the mutex owned (observation 5).

### Findings

1. `safety_mem_linear_map`: `README.md:74` says Scenario F locks "both `vmalloc`
   AND linear map PTEs". The code sets the flag from the vmap alias alone
   (`safety_mem.c:212`), and on arm64 the linear map stays writable.
2. `mutex_threads_lost_wakeup`: after Thread C stores 0 into the owner word, the
   WAITERS bit is gone and the next unlock wakes nobody. A thread sleeps in
   `mutex_lock()`, which cannot be interrupted; the wake-up by `kthread_stop()`
   gives it one try, and if the mutex is taken then and the thread is not the first of
   the queue (whose try asks for a handoff), `rmmod` waits for ever.
   `mutex_threads.c:189` expects the opposite. The run uses the harness's own
   load order.
3. `ctx_monitor_torn_range`: the notifier reads the range without `log_lock`
   (`ctx_monitor.c:124`), although the comment at line 62 says that the lock
   protects it; a fault can be judged by half of an update.
4. `ctx_monitor_fault_address`: `ctx_die_notifier_cb()` takes the program counter for
   the fault address (`ctx_monitor.c:122`) and compares it with the range of the page.
   Its comment says "log faults in the protected range" (line 105),
   `docs/implementation_plan.md:240` "On DIE_PAGE_FAULT in safety buffer range", and
   `docs/presentation_scenarios.md:179` shows a logged write whose address is not its
   program counter. A faulting store to the page from code outside it is not logged.
   `CounterFilterExact` says what the filter does instead.

### Observations without a run

1. `safe_write()` ignores the results of re-protecting (`safety_mem.c:273`). If
   the vmap alias fails there, the flag reports protection over a writable alias
   until the next change. `FlagSound` and its theorem name this case (`dropped`)
   and show that there is no other.
2. `smmu_active` is published even if no domain was allocated or no device
   attached (`smmu_guard.c:190`).
3. `--start-at D` runs D alone (`harness/main.cpp:59`): only the test for B sets
   `active`. `Plan` models it as it is.
4. After a failed setup `run()` returns without `teardown()`
   (`scenario_runner.hpp:34`), so the next scenario finds the modules in its way
   and fails as well. Destructors remove them at the end: `CleanExit` holds.
5. Where the direct alias can be protected, but the vmap alias does not exist or
   refuses, `set_protection(true)` leaves the flag clear and the direct alias
   read-only. An authorized write then opens no window and faults with the mutex
   held, and the page is freed read-only, because the exit looks at the flag alone
   (`safety_mem.c:462`). Without a vmap alias this happens although
   `set_protection()` returned 0. `ReadOnlyFreeExplained` shows that it takes such a
   page, a `set_protection()` that returned an error, or a refusal in the exit itself;
   `WindowWorks` is stated for a window that was opened.
6. The monitor resets its snapshots only if a poll sees the SETUP phase
   (`monitor/main.cpp:131`). A setup shorter than a poll, or a poll that reads the
   file while it is truncated, misses it, and the AFTER of the scenario before
   stays beside the new BEFORE until the new AFTER is published. TLC reaches this
   (`shown.after \notin {"", shown.id}`); `DisplayFollows` says what remains true.
7. Scenario D reports that its attack failed when Thread B restores the sentinel
   between the store and the read (`scenario_d.cpp:35`); Scenario B can do the
   same. Otherwise D fails only if a proc file does (`VerdictsExplained`). Scenario F
   passes without an attack if `/proc/bad_driver_ts` does not open
   (`scenario_f.cpp:39`): the value is preserved then, too.
8. Neither a failed init nor the exit of `safety_mem` withdraws the range it gave
   to `ctx_monitor`, so faults in a freed page count as faults in the protected one
   until the next init. `RangeFollowsPage` shows that this init puts it right.
9. `devmem write` takes a value that does not fit 32 bits and stores its low half,
   and takes addresses that wrap (`phys_view.cpp:41`); the help speaks of a "32-bit
   hex value". `ExitHonest` is stated for arguments in range.
10. Frames can mix two contents of the state file (`renderer.cpp:148`), for 100 ms
   at most: `FrameFaithful` shows that it takes a store during the frame.
11. If the state file does not open for BEFORE or AFTER, or the status cannot be read,
   the display keeps what it had, which may be the snapshot of an earlier scenario
   (`scenario_runner.hpp:82`, `:64`). `DisplayFollows` speaks of what was published.

## 4. Proofs

TLAPS proves the following for every value of the constants that satisfies the
`ASSUME`s of the modules: any number of callers, attackers, writers, CPUs or
contexts, any capacity, any widths. With them every invariant, every action
property and every refinement that a run checks is also a theorem. A theorem with
a further hypothesis says so here. What the proofs need besides the definitions
are the named assumptions of each module; none of them excludes the real values
(`DevMem` assumes that a word fits an address: `ByteMod ^ i \in 1 .. AddrMod` for
`i \in 0 .. WordSize`).

Each proof has the same form: an inductive invariant as a conjunction of named
parts, a lemma for the initial states, a lemma per group of actions, and a last
step that combines them. The named parts are where the thought is; they say what
the code relies on and nowhere writes down.

### SafetyMem

**`TypeCorrect`**: `Spec => []TypeOK`. The store of
`safe_write()` needs to know that the caller's operation carries a value, so the
invariant is `TypeInv == TypeOK /\ OpInv`: a caller that is not idle has a call,
and one at a label only `safe_write()` reaches has a write.

**`MutualExclusion`**: `Spec => []CallsSerialized`. With `TypeInv`, it is
inductive: only `Lock` enters the critical labels, and it needs a free mutex.

**`ProtectionFlagSound`**: `Spec => [](FlagSound /\ StatusCoherent)`, whatever
`vmap()` and `set_memory_*()` return; `StatusReportCoherent` states its second half
alone. `FlagSound` speaks of two pieces of state
that change in different steps of a call, so its inductive form `FlagInv` follows
each call: what the vmap alias is at every label of a writing call (`WriteInv`),
what the reader has seen and what may have happened since (`ShowInv`), and that an
unloaded module has no running calls (`LoadInv`). The lemma `SetMemoryEffect` says
what one change of a permission does to the alias and to `dropped`, and the steps
that change one rest on it. A context that an oops killed inside its window counts
as a window that stays open.

**`ProtectionFlagSoundArm64`**: on arm64 (`VmallocOutcomes = {TRUE}`,
`DirectOutcomes = {FALSE}`) the direct alias is never made read-only, so no
authorized write faults (`NoOops`), and no failure on the vmap alias is dropped
(`VmallocServed`): neither exception in `FlagSound` arises.

**`SetProtectionHonest`, `WindowSound`**: `ReturnValueHonest` and
`WindowWorks`, from `PermInv`: what a call has asked for and
obtained stays so until its unlock (`AskedPermissions`), and a window once opened
stays open until the store (`WindowStaysOpen`). Both need `MutualExclusion`.

**`FreedReadOnly`**: `Spec => ReadOnlyFreeExplained`, an action property of the exit.
The exit looks at the flag, which follows the vmap alias, and what it must not leave
behind is the state of the other alias. `ReportedInv` connects the two: outside a call
that is changing the protection, a clear flag over a read-only direct alias means that
the last call failed or that there is no vmap alias.

### BadDriver

**`AttacksRefinePage`**: `BDSpec => Spec`. A step of `bad_driver` is a
`ForeignStore` or leaves the page alone, so the theorems above hold under attack,
and the ones below may use them. **`BDTypeCorrect`** gives the types.

**`SteadyBlocks`**: an attack through the vmap alias while the flag is steady is
refused, unless `safe_write()` dropped a failure. **`SteadyBlocksArm64`**: with
`VmallocOutcomes = {TRUE}` nothing is dropped, and `SteadyProtectionBlocks` holds.
The run uses the arm64 outcomes too; without them it is false, and the first
theorem says exactly how. `GuardInv` says that `bad_driver` pins `safety_mem`, that
the history means what it should, and that protection is reported only for a page
with a vmap alias.

**`RaceReportCorrect`** and **`ReportCorrect`**: `RaceReportSound` and
`ReportDescribesOneAttack`. The second follows a lone command through its seven
steps (`AttackProgress`): which of the globals are already its own at each label.

### MutexThreads

**`Exclusion`**: `Spec => []OverlapNeedsMetadataAttack`.
It is not inductive, for it says nothing about the lock word. `ExclInv` adds
`Owned` (as long as no owner word has been overwritten since the mutex was last
without a user, every user inside is the task in the owner word) and `ShapeInv`
(program counters are labels, the mutex has its fields, `cleared` is Boolean). The
metadata attack makes `Owned` vacuous by setting `cleared`; the proof shows that
the last robbed user to leave re-establishes it.

**`ViolationTrue`**: `Spec => ViolationSound`, an action property, in both attack
modes. `DataInv`: between Thread A's two reads, unless C stored or attacked the
mutex, the page still holds what A read, because B and the writers are outside.

**`NoneForgotten`**: `Spec => []NoLostWakeup`, for boots with `attackMode = "write"`,
as the property says. `WakeInv`
is the contract of the kernel mutex: the queue holds just the waiters, each once,
and WAITERS is set while there are any (`QueueInv`); the owner is inside, or was
handed the mutex and is awake (`OwnerInv`). In mode `"metadata"` `WakeInv` is false:
that is finding 2.

### CtxMonitor

**`FilterExact`** (`CounterFilterExact`), **`RangeIsCurrent`** (`RangeFollowsPage`),
**`TypeCorrect`**, from `CMInv`. It
relates the racing accesses to `during`: each global holds the range of the last
update, or of the running one once that has stored it (`MemoryInv`); a notifier
still reading has in `during` every range it can find (`DuringInv`), and whatever it
has read is a bound of one of them (`LoadsInv`). **`TornReadsBounded`** states the
last part by itself: it limits the tearing of finding 3.

### SmmuGuard and LogRing

**`ReadersSeeOneLog`** (`SnapshotAtomic`), **`TeardownCorrect`** (`TeardownSound`),
**`SGTypeCorrect`**: `LockInv` (only the holder of the spinlock is between its lock
and its unlock), `RingInv` (which slots are filled, and that `log_head` equals
`log_count` until the ring is full), `SnapInv` (a reader has copied a prefix of what
it found), `StageInv` (what exists at each stage of init and exit).

**`RingImplementsBoundedLog`**: `SGSpec => ImplementsBoundedLog`, step by step: the
step that fills a slot is the abstract append, for a ring that is full and for one
that is not; only unloading empties the log; every other step stutters. The
lemmas `SlotRange`, `FullRingSlot` and `HeadAdvances` do the modular arithmetic.

### Harness and Monitor

**`LoadersOwn`** (`OwnershipExact`), **`ActsWithModules`** (`ActionHasItsModules`),
**`VerdictsTrue`** (`VerdictsExplained`), from `HInv`. A loader tracks a prefix of
what its scenario loads, all of it live (`PrefixInv`), one loader at a time tracks
any (`OneOwner`: since all scenarios begin with `ctx_monitor`, the setup of a
second one fails), live modules have what they need (`DepsClosed`), scenarios still
in the plan have loaded nothing (`PlanInv`), and `PageInv` says who can have stored
to the page of a scenario that loaded it: nobody but Thread B before the attack, which
stores the sentinel, and after it what the page holds depends on whether the attack was
made, landed and was restored. The verdict theorem holds for any `ProcOutcomes`.

**`UnloadsInOrder`** (`UnloadOrderSafe`) and **`LeavesNothing`** (`CleanExit`), with
`RmmodOutcomes = {TRUE}`, as in the run: an `rmmod` fails only if the kernel
refuses it. Then all that is live is tracked, and all that is tracked is
still to be unloaded at the end (`ExitInv`). The last module of a prefix is one
nothing else needs. Without the hypothesis both are false by design of
`unload_all()`.

**`MonitorOnlyWatches`**: `MonSpec => Spec`, so all this holds with the monitor
running. **`DisplayInStep`** (`DisplayFollows`): what is in the file at each
label (`FileInv`), what a poll begun since carries or has shown (`FreshInv`), and
that from the action on no poll carries anything older (`ShownInv`). All three are
conditional on what was published (`told`); `SnapInv` says whose snapshots `run()` holds
at each label, and that nothing counts as published before it is.

### MonitorUI

**`LinesCorrect`** (`LinesWholeInOrder`): lines of any number, pieces of any size.
Since induction over data is out of reach, `Encodes(q, sp, t)` says without
recursion that bytes `q` are what is left of the lines `sp` after the first `t`: a
witness gives every byte its line and its place in it. Tracing extends the
witness, reading moves bytes within `pending \o pipe`, and cutting at the first
newline takes just the next line, whole (`EncodesTake`).

**`EventsAreBoundedLog`** (`ImplementsBoundedLog`): the list is the end of what was
appended and one too long only under the lock (`ListInv`). **`FramesTrue`**
(`FrameFaithful`): outside the lock the newest rows of the list are the newest of
all (`NewestOfAll`); the snapshot is mixed only between the two stores of a poll
(`SnapInv`). **`ThreadsEndFirst`**: `OutlivesThreads`, the safety half of
`ShutdownCompletes`. **`UITypeCorrect`**: types.

### DevMem

**`AccessSound`** (`AccessWithinMapping`), **`ExitCorrect`** (`ExitHonest`),
**`WatchCorrect`** (`WatchFaithful`), **`DMTypeCorrect`**, for any page and word
size: the mapping of `MapLength` bytes from `page_base` covers a word at any offset
(`ViewInv` and the lemmas on division), a word is what its bytes say, and the
history of the word ends with its present value while it is mapped (`LogInv`).

### Only model-checked

* Liveness is out of the prover's reach: `CallsReturn`, `ThreadAProgress`,
  `ThreadsStopUnlessRobbed`, `RogueStops`, `HarnessEnds`, `WatchStops`, `WatchCatchesUp`,
  `LinesArrive`, and that the monitor ends in `ShutdownCompletes`.
* The violations of the four findings.
* `TypeOK` of `MutexThreads` beyond `ShapeInv`, in attack mode 1.

### Taken from outside the repository

Both aliases map one physical page. `set_memory_*()` changes the permission or
fails without effect. `remove_proc_entry()` and module references wait for
running calls; `unregister_die_notifier()` waits for running notifiers.
`iommu_detach_device()` ignores a device that is not attached, and waits for
fault handlers that are running. The destructor of `std::jthread` requests a stop
and joins. `mmap()` maps whole pages. `insmod` and
`rmmod` obey symbol dependencies. The mutex is as in `KernelMutex`.

## 5. Not modelled

* `userspace/analysis`: prints a report from what it reads, and keeps no state.
* `userspace/common/expected.hpp`, `proc_reader.hpp`: a sum type and a function that
  reads a file; what they do is inside the actions that use them.
* Lifetime of `task_struct` in the status report (`safety_mem.c:314`).
* The layout of a frame of the monitor: widths, padding, UTF-8 lengths.
* Build, boot and container files.

## 6. Plan

Done, in this order: `SafetyMem` and its proofs; `BadDriver` on top of it;
`KernelMutex` with `MutexThreads` and the exclusion proof; `BoundedLog`,
`LogRing`, `CtxMonitor`; `SmmuGuard`; `Harness` with the scenarios and their
verdicts; `Monitor` on top of it; failures that `safety_mem` drops; `SmmuGuard` on
top of `LogRing`; `DevMem`; `MonitorUI`.

Next, models: `Harness` with `BadDriver` and `MutexThreads` in place of `page`, so
that the grain of whole proc commands is itself checked. The product of the three
is beyond TLC at the bounds above and would need smaller ones.

Proofs, done: `SafetyMem`, `BadDriver`, `MutexThreads`, `CtxMonitor`, `SmmuGuard`
with `LogRing`, `Harness` with `Monitor`, `MonitorUI`, `DevMem`: every safety
property and refinement of the runs.

Next, proofs:

1. `MutexThreads`: `TypeOK` in boots with attack mode 1, which needs `QueueInv` there (the
   attack spares the queue), and how far a cleared owner word can spread.
2. Shorter proofs: shared facts about sequences are stated once per module.
