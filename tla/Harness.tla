------------------------------ MODULE Harness ------------------------------
(***************************************************************************)
(* The presenter harness (userspace/harness): the execution plan of        *)
(* main(), ScenarioRunner::run() with the setup, action and teardown of    *)
(* each scenario, the ModuleLoader of each scenario object, and the signal *)
(* cleanup, against the kernel's list of live modules and the safety page. *)
(*                                                                         *)
(* The harness has one thread; a signal may arrive at any moment and only  *)
(* sets a flag.  insmod and rmmod obey the kernel's module dependencies    *)
(* and may also fail for reasons of their own.  The page is seen at the    *)
(* grain of whole proc commands (SafetyMem and BadDriver look inside       *)
(* them), on arm64, where the linear map stays writable.                   *)
(***************************************************************************)
EXTENDS Naturals, FiniteSets, Sequences, SequencesExt

CONSTANTS
  ScenarioArgs,   \* values of --scenario to consider ("all" is the default)
  StartArgs,      \* values of --start-at to consider ("" when not given)
  InsmodOutcomes, \* FALSE: an insmod may fail although nothing is in its way
  RmmodOutcomes,  \* the same for rmmod
  VmapOutcomes,   \* results of vmap() when safety_mem is loaded
  ProtectOutcomes,\* results of set_memory_ro() on the vmap alias
  ProcOutcomes,   \* FALSE: a file under /proc may fail to open or to be read
  StateOutcomes,  \* the same for opening /tmp/demo_state to write
  LeftBy          \* scenarios whose AFTER an earlier harness may have left there

Scenarios == {"B", "D", "E", "F", "G"}

ASSUME HarnessAssumption ==
  /\ InsmodOutcomes  \in SUBSET BOOLEAN /\ InsmodOutcomes  # {}
  /\ RmmodOutcomes   \in SUBSET BOOLEAN /\ RmmodOutcomes   # {}
  /\ VmapOutcomes    \in SUBSET BOOLEAN /\ VmapOutcomes    # {}
  /\ ProtectOutcomes \in SUBSET BOOLEAN /\ ProtectOutcomes # {}
  /\ ProcOutcomes    \in SUBSET BOOLEAN /\ ProcOutcomes    # {}
  /\ StateOutcomes   \in SUBSET BOOLEAN /\ StateOutcomes   # {}
  /\ LeftBy \subseteq Scenarios

VARIABLES
  live,       \* modules in the kernel
  page,       \* the safety page: its word, has it a vmap alias, is that
              \* alias read-only (and reported so)
  cleared,    \* metadata_attack_count > 0
  tracked,    \* loaded_modules_ of each scenario's loader
  registered, \* g_active_loaders, each loader at its first registration
  signaled,   \* g_signal_received # 0
  pc,         \* where main() is
  plan,       \* scenarios main() has still to run
  cur,        \* the scenario it runs
  todo,       \* modules its setup has still to load
  unload,     \* loaders whose unload_all() is still to finish
  result,     \* ScenarioStatus of the current scenario
  snap,       \* run()'s before_snapshot and after_snapshot: whose, or ""
  file,       \* /tmp/demo_state
  landed,     \* history: this scenario's bad_driver store has landed
  restored,   \* history: ... and Thread B has stored the sentinel since
  statusRead, \* history: run() has read its proc file
  told        \* history: the snapshots this scenario has published

kernelVars == <<live, page, cleared>>
loaderVars == <<tracked, registered>>
planVars == <<plan, cur>>
stateVars == <<snap, file, told>>
history == <<landed, restored, statusRead>>
vars == <<kernelVars, loaderVars, signaled, pc, planVars, todo, unload, result,
          stateVars, history>>

Unloading == {"teardown", "destroy", "cleanup"}

(* The word in the page: the sentinel, or the value of one attacker.       *)
NoPage == [val |-> "none", vmap |-> FALSE, prot |-> FALSE]
NewPage(vmap) == [val |-> "SAFE", vmap |-> vmap, prot |-> FALSE]

(* The state file: scenario, phase, and whose snapshots are in it.  An     *)
(* absent and a truncated file read alike.                                 *)
State(id, phase, before, after) ==
  [id |-> id, phase |-> phase, before |-> before, after |-> after]
Truncated == State("", "", "", "")
NoSnap == [before |-> "", after |-> ""]

(* Symbol dependencies: insmod needs them live, rmmod refuses while a live *)
(* module needs the one to remove.                                         *)
Deps(mod) ==
  CASE mod = "ctx_monitor" -> {}
    [] mod = "safety_mem" -> {"ctx_monitor"}
    [] OTHER -> {"safety_mem"}

InUse(mod) == \E other \in live : mod \in Deps(other)

(* The modules each setup() loads, in order.                               *)
SetupB == <<"ctx_monitor", "safety_mem", "mutex_threads">>
SetupD == <<"ctx_monitor", "safety_mem", "mutex_threads", "bad_driver">>
SetupE == <<"ctx_monitor", "safety_mem", "smmu_guard", "bad_driver">>
SetupF == <<"ctx_monitor", "safety_mem", "smmu_guard", "mutex_threads", "bad_driver">>
SetupG == <<"ctx_monitor", "safety_mem", "mutex_threads">>

SetupModules(s) ==
  CASE s = "B" -> SetupB [] s = "D" -> SetupD [] s = "E" -> SetupE
    [] s = "F" -> SetupF [] s = "G" -> SetupG

(* main(): which scenarios run, in the order of the source.  Only the test *)
(* for B sets the local "active".                                          *)
Runs(s, scenario, startAt) ==
  LET runsB == scenario = "B" \/ (scenario = "all" /\ startAt \in {"", "B"})
      active == startAt = "" \/ runsB
  IN  CASE s = "B" -> runsB
        [] s = "G" -> scenario = "G"
        [] OTHER -> scenario = s \/ (scenario = "all" /\ (active \/ startAt = s))

Plan(scenario, startAt) ==
  LET If(s) == IF Runs(s, scenario, startAt) THEN <<s>> ELSE <<>>
  IN  If("B") \o If("D") \o If("E") \o If("F") \o If("G")

(* No module is loaded; the state file may be that of an earlier harness.  *)
Init ==
  /\ live = {} /\ page = NoPage /\ cleared = FALSE
  /\ tracked = [s \in Scenarios |-> <<>>]
  /\ registered = <<>>
  /\ signaled = FALSE
  /\ pc = "idle"
  /\ plan = <<>> /\ cur = "B" /\ todo = <<>> /\ unload = <<>>
  /\ result = "none"
  /\ file \in {Truncated} \cup {State(s, "AFTER", s, s) : s \in LeftBy}
  /\ snap = NoSnap /\ told = {}
  /\ landed = FALSE /\ restored = FALSE /\ statusRead = FALSE

-----------------------------------------------------------------------------
(* ModuleLoader.                                                           *)

CanInsmod(mod) == mod \notin live /\ Deps(mod) \subseteq live

(* A newly loaded safety_mem has a fresh page, a newly loaded rogue_thread *)
(* has fresh counters.                                                     *)
Insmod(mod) ==
  /\ live' = live \cup {mod}
  /\ IF mod = "safety_mem" THEN \E vmap \in VmapOutcomes : page' = NewPage(vmap)
                           ELSE UNCHANGED page
  /\ cleared' = (cleared /\ mod # "rogue_thread")

(* A slip for mutation: a loader is not registered for the signal cleanup. *)
LoadOkUnregistered(s, mod) ==
  /\ CanInsmod(mod) /\ TRUE \in InsmodOutcomes
  /\ Insmod(mod)
  /\ tracked' = [tracked EXCEPT ![s] = Append(@, mod)]
  /\ UNCHANGED registered

(* load() by the loader of scenario s returns success: it tracks the       *)
(* module already, or insmod worked and the module is recorded.            *)
LoadOk(s, mod) ==
  IF mod \in Range(tracked[s])
  THEN UNCHANGED <<kernelVars, loaderVars>>
  ELSE /\ CanInsmod(mod) /\ TRUE \in InsmodOutcomes
       /\ Insmod(mod)
       /\ tracked' = [tracked EXCEPT ![s] = Append(@, mod)]
       /\ registered' = IF s \in Range(registered) THEN registered
                        ELSE Append(registered, s)

(* A slip for mutation: the module is recorded before insmod has worked.   *)
LoadFailsRecorded(s, mod) ==
  /\ ~CanInsmod(mod) \/ FALSE \in InsmodOutcomes
  /\ tracked' = [tracked EXCEPT ![s] = Append(@, mod)]
  /\ UNCHANGED <<kernelVars, registered>>

(* load() returns an error: no such file, or insmod failed.                *)
LoadFails(s, mod) ==
  /\ mod \notin Range(tracked[s])
  /\ ~CanInsmod(mod) \/ FALSE \in InsmodOutcomes
  /\ UNCHANGED <<kernelVars, loaderVars>>

(* A slip for mutation: unload_all() starts with the first module loaded.  *)
FirstLoaded(s) == Head(tracked[s])

(* unload_all() removes the module loaded last.                            *)
NextToUnload(s) == Last(tracked[s])

(* One turn of unload_all(): the result of rmmod is ignored, the module is *)
(* forgotten either way.                                                   *)
UnloadOne(s) ==
  /\ tracked[s] # <<>>
  /\ \E ok \in RmmodOutcomes :
       live' = IF ok /\ ~InUse(NextToUnload(s)) THEN live \ {NextToUnload(s)} ELSE live
  /\ page' = IF "safety_mem" \in live' THEN page ELSE NoPage
  /\ tracked' = [tracked EXCEPT ![s] = Front(@)]
  /\ UNCHANGED <<cleared, registered>>

(* handle_signal().                                                        *)
Signal ==
  /\ pc \notin {"idle", "done", "killed"}
  /\ ~signaled
  /\ signaled' = TRUE
  /\ UNCHANGED <<kernelVars, loaderVars, pc, planVars, todo, unload, result, stateVars, history>>

-----------------------------------------------------------------------------
(* The threads of the loaded modules, at any moment between two steps of   *)
(* the harness.                                                            *)

(* Thread B restores the sentinel; scenario B's Thread C overwrites it.    *)
ThreadBStores ==
  /\ "mutex_threads" \in live
  /\ page' = [page EXCEPT !.val = "SAFE"]
  /\ restored' = landed
  /\ UNCHANGED <<live, cleared, loaderVars, signaled, pc, planVars, todo, unload, result, stateVars,
                 landed, statusRead>>

RogueStores ==
  /\ "rogue_thread" \in Range(tracked["B"])
  /\ page' = [page EXCEPT !.val = "DEAD"]
  /\ UNCHANGED <<live, cleared, loaderVars, signaled, pc, planVars, todo, unload, result, stateVars,
                 history>>

(* Scenario G's Thread C has cleared the owner word at least once.         *)
RogueClears ==
  /\ "rogue_thread" \in Range(tracked["G"])
  /\ cleared' = TRUE
  /\ UNCHANGED <<live, page, loaderVars, signaled, pc, planVars, todo, unload, result, stateVars,
                 history>>

ThreadsStep == ThreadBStores \/ RogueStores \/ RogueClears

-----------------------------------------------------------------------------
(* main() and ScenarioRunner::run().                                       *)

Start ==
  /\ pc = "idle"
  /\ \E scenario \in ScenarioArgs, startAt \in StartArgs :
       plan' = Plan(scenario, startAt)
  /\ pc' = "next"
  /\ UNCHANGED <<kernelVars, loaderVars, signaled, cur, todo, unload, result, stateVars, history>>

(* read_status(): a snapshot of the running scenario, or an empty string.  *)
Snapshots == {IF ok THEN cur ELSE "" : ok \in ProcOutcomes}

(* publish_state() truncates the file when it opens it, and writes nothing *)
(* if it cannot.                                                           *)
Publish(pub, then) ==
  \/ TRUE \in StateOutcomes /\ file' = Truncated /\ pc' = pub
  \/ FALSE \in StateOutcomes /\ UNCHANGED file /\ pc' = then

(* run() starts with cleanup_on_signal(), which does not return if a       *)
(* signal was received; otherwise it opens the state file to publish SETUP *)
(* and then calls setup().                                                 *)
RunBegin ==
  /\ pc = "next" /\ plan # <<>> /\ ~signaled
  /\ cur' = Head(plan) /\ plan' = Tail(plan)
  /\ todo' = SetupModules(Head(plan))
  /\ snap' = NoSnap
  /\ Publish("pubSetup", "setup")
  /\ result' = "none" /\ told' = {}
  /\ landed' = FALSE /\ restored' = FALSE /\ statusRead' = FALSE
  /\ UNCHANGED <<kernelVars, loaderVars, signaled, unload>>

CleanupOnSignal ==
  /\ pc = "next" /\ plan # <<>> /\ signaled
  /\ signaled' = FALSE
  /\ unload' = registered
  /\ pc' = "cleanup"
  /\ UNCHANGED <<kernelVars, loaderVars, planVars, todo, result, stateVars, history>>

(* publish_state(), the other half: closing the file writes the buffered   *)
(* lines.                                                                  *)
WriteState ==
  /\ \/ /\ pc = "pubSetup"  /\ pc' = "setup"
        /\ file' = State(cur, "SETUP", snap.before, snap.after)
        /\ UNCHANGED told
     \/ /\ pc = "pubBefore" /\ pc' = "settle"
        /\ file' = State(cur, "BEFORE", snap.before, snap.after)
        /\ told' = told \cup {"BEFORE"}
     \/ /\ pc = "pubAfter"  /\ pc' = "show"
        /\ file' = State(cur, "AFTER", snap.before, snap.after)
        /\ told' = told \cup {"AFTER"}
  /\ UNCHANGED <<kernelVars, loaderVars, signaled, planVars, todo, unload, result, snap, history>>

SetupLoad ==
  /\ pc = "setup" /\ todo # <<>>
  /\ LoadOk(cur, Head(todo))
  /\ todo' = Tail(todo)
  /\ UNCHANGED <<signaled, pc, planVars, unload, result, stateVars, history>>

(* setup() fails: run() returns an error, and does not call teardown().    *)
SetupError ==
  /\ pc' = "next"
  /\ todo' = <<>>
  /\ result' = "Error"
  /\ UNCHANGED <<signaled, planVars, unload, stateVars, history>>

(* A slip for mutation: the error of one load() is not returned.           *)
SetupLoadIgnored ==
  /\ pc = "setup" /\ todo # <<>>
  /\ LoadFails(cur, Head(todo))
  /\ todo' = Tail(todo)
  /\ UNCHANGED <<signaled, pc, planVars, unload, result, stateVars, history>>

SetupLoadFails ==
  /\ pc = "setup" /\ todo # <<>>
  /\ LoadFails(cur, Head(todo))
  /\ SetupError

(* ScenarioD and ScenarioF write "protect" to /proc/safety_mem_status, if  *)
(* it opens; no result comes back.                                         *)
SetupProtect ==
  /\ pc = "setup" /\ todo = <<>>
  /\ \/ /\ cur \in {"D", "F"} /\ TRUE \in ProcOutcomes
        /\ \E ok \in ProtectOutcomes : page' = [page EXCEPT !.prot = page.vmap /\ ok]
     \/ /\ cur \notin {"D", "F"} \/ FALSE \in ProcOutcomes
        /\ UNCHANGED page
  /\ pc' = "verify"
  /\ UNCHANGED <<live, cleared, loaderVars, signaled, planVars, todo, unload, result, stateVars,
                 history>>

(* ScenarioF reads the status back and gives up if that fails or if its    *)
(* target is writable.                                                     *)
SetupVerifyFails ==
  /\ pc = "verify"
  /\ cur = "F" /\ (~page.prot \/ FALSE \in ProcOutcomes)
  /\ UNCHANGED <<kernelVars, loaderVars>>
  /\ SetupError

(* run() goes on after setup(): its first snapshot, and the state file is  *)
(* opened to publish it as BEFORE.                                         *)
PublishBaseline ==
  /\ snap' \in {[before |-> b, after |-> ""] : b \in Snapshots}
  /\ Publish("pubBefore", "settle")
  /\ UNCHANGED <<kernelVars, loaderVars, signaled, planVars, todo, unload, result, told, history>>

(* A slip for mutation: ScenarioF does not verify its target.              *)
SetupDoneUnverified ==
  /\ pc = "verify"
  /\ PublishBaseline

SetupDone ==
  /\ pc = "verify"
  /\ cur = "F" => page.prot /\ TRUE \in ProcOutcomes
  /\ PublishBaseline

(* The sleeps that give the monitor time: before the action, and before    *)
(* the teardown.                                                           *)
SleepEnds ==
  /\ \/ pc = "settle" /\ pc' = "run" /\ UNCHANGED unload
     \/ pc = "show" /\ pc' = "teardown" /\ unload' = <<cur>>
  /\ UNCHANGED <<kernelVars, loaderVars, signaled, planVars, todo, result, stateVars, history>>

-----------------------------------------------------------------------------
(* The actions of the scenarios.                                           *)

(* ScenarioB and ScenarioG load rogue_thread.                              *)
RunRogue ==
  /\ pc = "run" /\ cur \in {"B", "G"}
  /\ LoadOk(cur, "rogue_thread")
  /\ pc' = "observe"
  /\ UNCHANGED <<signaled, planVars, todo, unload, result, stateVars, history>>

(* The action ends, having read its proc file or not: run() takes its      *)
(* second snapshot and opens the state file to publish AFTER.              *)
ActionEnds(status, read) ==
  /\ result' = status
  /\ statusRead' = read
  /\ snap' \in {[snap EXCEPT !.after = a] : a \in Snapshots}
  /\ Publish("pubAfter", "show")
  /\ UNCHANGED <<signaled, planVars, todo, unload, told, landed, restored>>

RunRogueFails ==
  /\ pc = "run" /\ cur \in {"B", "G"}
  /\ LoadFails(cur, "rogue_thread")
  /\ ActionEnds("Error", FALSE)

(* ScenarioD and ScenarioE have bad_driver write through the linear map,   *)
(* if its proc file opens.                                                 *)
RunLinearAttack ==
  /\ pc = "run" /\ cur \in {"D", "E"}
  /\ landed' \in ProcOutcomes /\ restored' = FALSE
  /\ page' = IF landed' THEN [page EXCEPT !.val = "BAD3"] ELSE page
  /\ pc' = "observe"
  /\ UNCHANGED <<live, cleared, loaderVars, signaled, planVars, todo, unload, result, stateVars,
                 statusRead>>

(* ScenarioF has it write through the vmap alias, which must be writable.  *)
RunVmallocAttack ==
  /\ pc = "run" /\ cur = "F"
  /\ landed' \in {opened /\ ~page.prot : opened \in ProcOutcomes} /\ restored' = FALSE
  /\ page' = IF landed' THEN [page EXCEPT !.val = "BAD1"] ELSE page
  /\ pc' = "observe"
  /\ UNCHANGED <<live, cleared, loaderVars, signaled, planVars, todo, unload, result, stateVars,
                 statusRead>>

(* What each run() looks for in the proc files after a fixed sleep (in G,  *)
(* until a timeout).  No DMA happens, so the log of smmu_guard is silent.  *)
PassedB == page.val = "DEAD"
PassedD == page.val # "SAFE"
PassedE == page.val = "BAD3"
PassedF == page.vmap /\ page.val = "SAFE"
PassedG == cleared

Passed(s) ==
  CASE s = "B" -> PassedB [] s = "D" -> PassedD [] s = "E" -> PassedE
    [] s = "F" -> PassedF [] s = "G" -> PassedG

(* A slip for mutation: ScenarioG waits for its attack without a deadline. *)
ObserveNoDeadline ==
  /\ pc = "observe"
  /\ cur = "G" => Passed("G")
  /\ UNCHANGED <<kernelVars, loaderVars>>
  /\ \E read \in ProcOutcomes :
       ActionEnds(IF read /\ Passed(cur) THEN "Passed" ELSE "Failed", read)

Observe ==
  /\ pc = "observe"
  /\ UNCHANGED <<kernelVars, loaderVars>>
  /\ \E read \in ProcOutcomes :
       ActionEnds(IF read /\ Passed(cur) THEN "Passed" ELSE "Failed", read)

-----------------------------------------------------------------------------
(* main() returns: the destructors of the scenario objects unload what     *)
(* their loaders still track, last object first.                           *)
MainReturns ==
  /\ pc = "next" /\ plan = <<>>
  /\ unload' = <<"G", "F", "E", "D", "B">>
  /\ pc' = "destroy"
  /\ UNCHANGED <<kernelVars, loaderVars, signaled, planVars, todo, result, stateVars, history>>

UnloadStep ==
  /\ pc \in Unloading /\ unload # <<>>
  /\ UnloadOne(Head(unload))
  /\ UNCHANGED <<signaled, pc, planVars, todo, unload, result, stateVars, history>>

UnloadNext ==
  /\ pc \in Unloading /\ unload # <<>>
  /\ tracked[Head(unload)] = <<>>
  /\ unload' = Tail(unload)
  /\ UNCHANGED <<kernelVars, loaderVars, signaled, pc, planVars, todo, result, stateVars, history>>

(* teardown() returns to main(), the destructors end the process, and      *)
(* cleanup_on_signal() calls _Exit().                                      *)
Unloaded ==
  /\ pc \in Unloading /\ unload = <<>>
  /\ pc' = CASE pc = "teardown" -> "next"
             [] pc = "destroy" -> "done"
             [] pc = "cleanup" -> "killed"
  /\ UNCHANGED <<kernelVars, loaderVars, signaled, planVars, todo, unload, result, stateVars,
                 history>>

(* The steps of a started harness, without those a monitor takes part in.  *)
LocalStep ==
  \/ RunBegin \/ CleanupOnSignal
  \/ SetupLoad \/ SetupLoadFails \/ SetupProtect \/ SetupVerifyFails \/ SetupDone
  \/ RunRogue \/ RunRogueFails \/ RunLinearAttack \/ RunVmallocAttack \/ Observe
  \/ MainReturns \/ UnloadStep \/ UnloadNext \/ Unloaded

HarnessStep == LocalStep \/ WriteState \/ SleepEnds

Next == Start \/ HarnessStep \/ Signal \/ ThreadsStep

Spec == Init /\ [][Next]_vars

(* The rmmod that may wait for ever: that of mutex_threads, after Thread C *)
(* has cleared the owner word (MutexThreads shows how).                    *)
MayHang ==
  /\ pc \in Unloading /\ unload # <<>> /\ cleared
  /\ tracked[Head(unload)] # <<>> /\ NextToUnload(Head(unload)) = "mutex_threads"

(* The process is scheduled, and every other insmod and rmmod returns.     *)
FairSpec == Spec /\ WF_vars(HarnessStep /\ ~MayHang)

-----------------------------------------------------------------------------
(* Properties.                                                             *)

(* Loaders own their modules: what a loader tracks is live, tracked once,  *)
(* and tracked by no other loader, so nothing is ever unloaded twice or    *)
(* under another scenario's feet.                                          *)
OwnershipExact ==
  \A s \in Scenarios :
    /\ Range(tracked[s]) \subseteq live
    /\ Len(tracked[s]) = Cardinality(Range(tracked[s]))
    /\ \A t \in Scenarios \ {s} : Range(tracked[s]) \cap Range(tracked[t]) = {}

(* unload_all() works in an order in which no rmmod is refused, however    *)
(* far the setup got and whether teardown, a destructor or the signal      *)
(* cleanup calls it.                                                       *)
UnloadOrderSafe ==
  pc \in Unloading /\ unload # <<>> =>
    LET s == Head(unload) IN
    tracked[s] # <<>> => ~InUse(NextToUnload(s))

(* The harness leaves no module behind: not after failed insmods, not      *)
(* after a failed setup, not after a signal at any moment.                 *)
CleanExit == pc \in {"done", "killed"} => live = {}

(* While a scenario acts on the system and its snapshots are published,    *)
(* every module it asked for is in the kernel.                             *)
ActionHasItsModules ==
  pc \in {"settle", "run", "observe"} => Range(SetupModules(cur)) \subseteq live

(* A verdict says what happened, where proc files fail to open or to be    *)
(* read too.  No store of ScenarioF lands, so that it passes whenever it   *)
(* can read the status (also if no store was attempted), and never because *)
(* Thread B restored the sentinel; ScenarioE passes exactly if its store   *)
(* was made and the status was read; ScenarioD passes only then, and       *)
(* misses a store only if Thread B restored the sentinel before the status *)
(* was read.                                                               *)
VerdictsExplained ==
  pc \in {"pubAfter", "show"} =>
    /\ cur = "F" => ~landed /\ (result = "Passed" <=> statusRead)
    /\ cur = "E" => (result = "Passed" <=> landed /\ statusRead)
    /\ cur = "D" => /\ result = "Passed" => landed /\ statusRead
                    /\ result = "Failed" => ~landed \/ restored \/ ~statusRead

(* Every started harness ends, through every failure and signal, unless    *)
(* it comes to wait for the rmmod that the metadata attack can make hang.  *)
HarnessEnds == pc = "next" ~> pc \in {"done", "killed"} \/ MayHang

=============================================================================
