----------------------------- MODULE SafetyMem -----------------------------
(***************************************************************************)
(* The safety page of kernel/safety_mem/safety_mem.c: one physical page    *)
(* with two kernel mappings (the direct map and a vmap() alias), their     *)
(* write permissions, the g_ctx_protected flag that reports them, and the  *)
(* calls that change them under safety_mutex.                              *)
(*                                                                         *)
(* Calls run in their own contexts (processes writing the proc file,       *)
(* kernel callers of the exported functions) and interleave at every       *)
(* access to shared state.  Stores that do not go through this module      *)
(* (rogue thread, bad driver) take no lock and are the action              *)
(* ForeignStore.  The mutex is a plain exclusive lock here; the kernel's   *)
(* lock word is modelled in KernelMutex and MutexThreads.                  *)
(***************************************************************************)
EXTENDS Naturals

CONSTANTS
  Callers,          \* contexts that call set_protection() or safe_write()
  NoOwner,          \* "no context owns safety_mutex"
  Sentinel,         \* SAFETY_SENTINEL
  ForeignValues,    \* what uncooperative writers store
  AuthorizedValues, \* what callers of safe_write() store
  Zero,             \* what proc_show() prints for an alias that does not exist
  DirectOutcomes,   \* possible results of set_memory_*() on the direct map
  VmallocOutcomes,  \* possible results of set_memory_*() on the vmap alias
  VmapOutcomes      \* possible results of vmap(): FALSE is a NULL pointer

ASSUME SafetyMemAssumption ==
  /\ NoOwner \notin Callers
  /\ DirectOutcomes  \in SUBSET BOOLEAN /\ DirectOutcomes  # {}
  /\ VmallocOutcomes \in SUBSET BOOLEAN /\ VmallocOutcomes # {}
  /\ VmapOutcomes    \in SUBSET BOOLEAN /\ VmapOutcomes    # {}

VARIABLES
  loaded,       \* safety_mem.ko is live
  vmapped,      \* g_vmalloc_addr # NULL
  mem,          \* the word at the start of the page, seen through any alias
  writable,     \* write permission of each alias in the page tables
  ctxProtected, \* g_ctx_protected
  range,        \* range given to ctx_monitor: "page", or "none" for (0, 0)
  dropped,      \* history: aliases whose last change failed, the result dropped
  lastOk,       \* history: the last set_protection() returned 0
  holder,       \* owner of safety_mutex
  pc, op,       \* where each caller is, and in which call
  wasRo,        \* local was_ro of safe_write()
  retVirt,      \* local ret_virt, TRUE for 0
  retVmalloc,   \* local ret_vmalloc, TRUE for 0
  showPc,       \* where the reader of /proc/safety_mem_status is
  showFlag,     \* its local protected_state
  showVmalloc,  \* its local val_vmalloc
  showPhys,     \* its local val_phys
  showRw,       \* is_writable of its vmalloc_mapping
  showStored,   \* history: a store landed between its two value reads
  showHeld      \* history: the mutex was owned since it read the flag

callVars == <<holder, pc, op, wasRo, retVirt, retVmalloc>>
pageVars == <<vmapped, mem, writable, ctxProtected, range, dropped, lastOk>>
showVars == <<showPc, showFlag, showVmalloc, showPhys, showRw, showStored, showHeld>>
vars == <<loaded, pageVars, callVars, showVars>>

Aliases == {"direct", "vmalloc"}
Values  == {Sentinel} \cup ForeignValues \cup AuthorizedValues
Writes  == [kind : {"write"}, val : AuthorizedValues]
Calls   == [kind : {"protect", "unprotect"}] \cup Writes
NoCall  == [kind |-> "none"]
Labels  == {"idle", "lock", "range", "check", "direct", "vmalloc", "flag",
            "store", "reDirect", "reVmalloc", "unlock", "oops"}

(***************************************************************************)
(* safety_mem_walk_pgtable(): is_valid and is_writable for an alias.  The  *)
(* direct map is always present; a NULL vmap alias has no translation.     *)
(***************************************************************************)
IsValid(a)    == a = "direct" \/ vmapped
IsWritable(a) == IsValid(a) /\ writable[a]

NoteStore ==
  /\ showStored' = (showStored \/ showPc = "phys")
  /\ UNCHANGED <<showPc, showFlag, showVmalloc, showPhys, showRw, showHeld>>

NoteHeld ==
  /\ showHeld' = (showHeld \/ showPc # "idle")
  /\ UNCHANGED <<showPc, showFlag, showVmalloc, showPhys, showRw, showStored>>

-----------------------------------------------------------------------------
(* Module load and unload.                                                 *)

Init ==
  /\ loaded = FALSE /\ vmapped = FALSE /\ mem = Sentinel
  /\ writable = [a \in Aliases |-> TRUE]
  /\ ctxProtected = FALSE /\ range = "none" /\ dropped = {} /\ lastOk = TRUE
  /\ holder = NoOwner
  /\ pc = [c \in Callers |-> "idle"]
  /\ op = [c \in Callers |-> NoCall]
  /\ wasRo      = [c \in Callers |-> FALSE]
  /\ retVirt    = [c \in Callers |-> TRUE]
  /\ retVmalloc = [c \in Callers |-> TRUE]
  /\ showPc = "idle" /\ showFlag = FALSE /\ showVmalloc = Zero /\ showPhys = Zero
  /\ showRw = FALSE /\ showStored = FALSE /\ showHeld = FALSE

(* safety_mem_init() up to a successful proc_create(): a fresh page, both  *)
(* aliases writable, static data of a newly loaded module.                 *)
SafetyMemInit ==
  /\ ~loaded
  /\ loaded' = TRUE
  /\ vmapped' \in VmapOutcomes
  /\ mem' = Sentinel
  /\ writable' = [a \in Aliases |-> TRUE]
  /\ ctxProtected' = FALSE
  /\ range' = "page"
  /\ dropped' = {} /\ lastOk' = TRUE
  /\ UNCHANGED <<callVars, showVars>>

(* safety_mem_init() whose proc_create() fails: the page is given back but *)
(* the range registered with ctx_monitor stays.                            *)
SafetyMemInitFails ==
  /\ ~loaded
  /\ range' = "page"
  /\ UNCHANGED <<loaded, vmapped, mem, writable, ctxProtected, dropped, lastOk, callVars,
                 showVars>>

(* safety_mem_exit().  remove_proc_entry() and the module reference count  *)
(* wait for every running call; then the aliases are restored if the flag  *)
(* says they are protected, and the page is freed.                         *)
RestoreOnExit(w, d) ==
  IF ctxProtected
  THEN \E okD \in DirectOutcomes, okV \in VmallocOutcomes :
         LET done == {a \in Aliases : IF a = "direct" THEN okD ELSE vmapped /\ okV}
         IN  /\ w = [a \in Aliases |-> writable[a] \/ a \in done]
             /\ d = {a \in Aliases : IsValid(a)} \ done
  ELSE w = writable /\ d = dropped

SafetyMemExit ==
  /\ loaded
  /\ \A c \in Callers : pc[c] = "idle"
  /\ showPc = "idle"
  /\ RestoreOnExit(writable', dropped')
  /\ loaded' = FALSE
  /\ vmapped' = FALSE
  /\ UNCHANGED <<mem, ctxProtected, range, lastOk, callVars, showVars>>

-----------------------------------------------------------------------------
(* set_protection() and safe_write(), one action per access.               *)

(* A context enters a call: the "protect"/"1" and "unprotect"/"0" commands *)
(* of proc_write(), or an exported function.                               *)
Begin(c) ==
  /\ loaded
  /\ pc[c] = "idle"
  /\ pc' = [pc EXCEPT ![c] = "lock"]
  /\ \E call \in Calls : op' = [op EXCEPT ![c] = call]
  /\ UNCHANGED <<loaded, pageVars, holder, wasRo, retVirt, retVmalloc, showVars>>

(* A slip for mutation: the result of a trylock is ignored.               *)
LockIgnoringOwner(c) ==
  /\ pc[c] = "lock"
  /\ holder' = c
  /\ pc' = [pc EXCEPT ![c] = IF op[c].kind = "write" THEN "check" ELSE "range"]
  /\ NoteHeld
  /\ UNCHANGED <<loaded, pageVars, op, wasRo, retVirt, retVmalloc>>

Lock(c) ==
  /\ pc[c] = "lock"
  /\ holder = NoOwner
  /\ holder' = c
  /\ pc' = [pc EXCEPT ![c] = IF op[c].kind = "write" THEN "check" ELSE "range"]
  /\ NoteHeld
  /\ UNCHANGED <<loaded, pageVars, op, wasRo, retVirt, retVmalloc>>

(* ctx_monitor_set_protected_range() at the top of both branches.          *)
SetRange(c) ==
  /\ pc[c] = "range"
  /\ range' = IF op[c].kind = "protect" THEN "page" ELSE "none"
  /\ pc' = [pc EXCEPT ![c] = "direct"]
  /\ UNCHANGED <<loaded, vmapped, mem, writable, ctxProtected, dropped, lastOk, holder, op,
                 wasRo, retVirt, retVmalloc, showVars>>

(* A slip for mutation: safe_write() does not open its window.            *)
CheckRoWithoutWindow(c) ==
  /\ pc[c] = "check"
  /\ wasRo' = [wasRo EXCEPT ![c] = ctxProtected]
  /\ pc' = [pc EXCEPT ![c] = "store"]
  /\ UNCHANGED <<loaded, pageVars, holder, op, retVirt, retVmalloc, showVars>>

(* was_ro = safety_mem_is_protected() in safe_write().                     *)
CheckRo(c) ==
  /\ pc[c] = "check"
  /\ wasRo' = [wasRo EXCEPT ![c] = ctxProtected]
  /\ pc' = [pc EXCEPT ![c] = IF ctxProtected THEN "direct" ELSE "store"]
  /\ UNCHANGED <<loaded, pageVars, holder, op, retVirt, retVmalloc, showVars>>

(* set_memory_ro()/set_memory_rw() on one alias: on success the permission *)
(* changes, on failure the page tables are left alone.  set_protection()   *)
(* looks at the result, safe_write() drops it.                             *)
SetMemory(a, rw, ok, looksAtResult) ==
  /\ writable' = IF ok THEN [writable EXCEPT ![a] = rw] ELSE writable
  /\ dropped' = CASE ok -> dropped \ {a}
                  [] ~ok /\ looksAtResult -> dropped
                  [] ~ok /\ ~looksAtResult -> dropped \cup {a}

(* The first permission change of a call: only "protect" clears it.        *)
SetDirect(c) ==
  /\ pc[c] = "direct"
  /\ \E ok \in DirectOutcomes :
       /\ SetMemory("direct", op[c].kind # "protect", ok, op[c].kind # "write")
       /\ retVirt' = [retVirt EXCEPT ![c] = ok]
  /\ pc' = [pc EXCEPT ![c] = "vmalloc"]
  /\ UNCHANGED <<loaded, vmapped, mem, ctxProtected, range, lastOk, holder, op, wasRo,
                 retVmalloc, showVars>>

(* A slip for mutation: the result of the second set_memory call is lost. *)
SetVmallocUnchecked(c) ==
  /\ pc[c] = "vmalloc"
  /\ IF vmapped
     THEN \E ok \in VmallocOutcomes : SetMemory("vmalloc", op[c].kind # "protect", ok, op[c].kind # "write")
     ELSE UNCHANGED <<writable, dropped>>
  /\ retVmalloc' = [retVmalloc EXCEPT ![c] = TRUE]
  /\ pc' = [pc EXCEPT ![c] = IF op[c].kind = "write" THEN "store" ELSE "flag"]
  /\ UNCHANGED <<loaded, vmapped, mem, ctxProtected, range, lastOk, holder, op, wasRo,
                 retVirt, showVars>>

SetVmalloc(c) ==
  /\ pc[c] = "vmalloc"
  /\ IF vmapped
     THEN \E ok \in VmallocOutcomes :
            /\ SetMemory("vmalloc", op[c].kind # "protect", ok, op[c].kind # "write")
            /\ retVmalloc' = [retVmalloc EXCEPT ![c] = ok]
     ELSE /\ retVmalloc' = [retVmalloc EXCEPT ![c] = TRUE]
          /\ UNCHANGED <<writable, dropped>>
  /\ pc' = [pc EXCEPT ![c] = IF op[c].kind = "write" THEN "store" ELSE "flag"]
  /\ UNCHANGED <<loaded, vmapped, mem, ctxProtected, range, lastOk, holder, op, wasRo,
                 retVirt, showVars>>

(* A slip for mutation: unprotecting leaves the flag set.                 *)
SetFlagKept(c) ==
  /\ pc[c] = "flag"
  /\ ctxProtected' = IF op[c].kind = "protect"
                     THEN retVmalloc[c] /\ IsValid("vmalloc") /\ ~IsWritable("vmalloc")
                     ELSE ctxProtected
  /\ pc' = [pc EXCEPT ![c] = "unlock"]
  /\ UNCHANGED <<loaded, vmapped, mem, writable, range, dropped, lastOk, holder, op, wasRo,
                 retVirt, retVmalloc, showVars>>

(* atomic_set(&g_ctx_protected, ...): the flag depends on the vmap alias   *)
(* alone.                                                                  *)
SetFlag(c) ==
  /\ pc[c] = "flag"
  /\ ctxProtected' = /\ op[c].kind = "protect"
                     /\ retVmalloc[c]
                     /\ IsValid("vmalloc")
                     /\ ~IsWritable("vmalloc")
  /\ pc' = [pc EXCEPT ![c] = "unlock"]
  /\ UNCHANGED <<loaded, vmapped, mem, writable, range, dropped, lastOk, holder, op, wasRo,
                 retVirt, retVmalloc, showVars>>

(* A slip for mutation: safe_write() closes a window it never opened.      *)
StoreThenProtect(c) ==
  /\ pc[c] = "store"
  /\ writable["direct"]
  /\ mem' = op[c].val
  /\ NoteStore
  /\ pc' = [pc EXCEPT ![c] = "reDirect"]
  /\ UNCHANGED <<loaded, vmapped, writable, ctxProtected, range, dropped, lastOk, holder, op,
                 wasRo, retVirt, retVmalloc>>

(* The store of safe_write() goes through the direct alias.                *)
Store(c) ==
  /\ pc[c] = "store"
  /\ writable["direct"]
  /\ mem' = op[c].val
  /\ NoteStore
  /\ pc' = [pc EXCEPT ![c] = IF wasRo[c] THEN "reDirect" ELSE "unlock"]
  /\ UNCHANGED <<loaded, vmapped, writable, ctxProtected, range, dropped, lastOk, holder, op,
                 wasRo, retVirt, retVmalloc>>

(* The same store while the direct alias is read-only: a kernel oops kills *)
(* the context, which never releases the mutex.                            *)
StoreFaults(c) ==
  /\ pc[c] = "store"
  /\ ~writable["direct"]
  /\ pc' = [pc EXCEPT ![c] = "oops"]
  /\ UNCHANGED <<loaded, pageVars, holder, op, wasRo, retVirt, retVmalloc, showVars>>

(* safe_write() closes its window; the results are ignored.                *)
ReprotectDirect(c) ==
  /\ pc[c] = "reDirect"
  /\ \E ok \in DirectOutcomes : SetMemory("direct", FALSE, ok, FALSE)
  /\ pc' = [pc EXCEPT ![c] = "reVmalloc"]
  /\ UNCHANGED <<loaded, vmapped, mem, ctxProtected, range, lastOk, holder, op, wasRo,
                 retVirt, retVmalloc, showVars>>

(* A slip for mutation: only the direct alias is protected again.         *)
ReprotectVmallocForgotten(c) ==
  /\ pc[c] = "reVmalloc"
  /\ pc' = [pc EXCEPT ![c] = "unlock"]
  /\ UNCHANGED <<loaded, pageVars, holder, op, wasRo, retVirt, retVmalloc, showVars>>

ReprotectVmalloc(c) ==
  /\ pc[c] = "reVmalloc"
  /\ IF vmapped
     THEN \E ok \in VmallocOutcomes : SetMemory("vmalloc", FALSE, ok, FALSE)
     ELSE UNCHANGED <<writable, dropped>>
  /\ pc' = [pc EXCEPT ![c] = "unlock"]
  /\ UNCHANGED <<loaded, vmapped, mem, ctxProtected, range, lastOk, holder, op, wasRo,
                 retVirt, retVmalloc, showVars>>

(* A slip for mutation: an early return without mutex_unlock().           *)
UnlockForgotten(c) ==
  /\ pc[c] = "unlock"
  /\ pc' = [pc EXCEPT ![c] = "idle"]
  /\ op' = [op EXCEPT ![c] = NoCall]
  /\ wasRo' = [wasRo EXCEPT ![c] = FALSE]
  /\ retVirt' = [retVirt EXCEPT ![c] = TRUE]
  /\ retVmalloc' = [retVmalloc EXCEPT ![c] = TRUE]
  /\ UNCHANGED <<loaded, pageVars, holder, showVars>>

(* mutex_unlock(), the logging walk and the return: the locals are gone,   *)
(* and proc_write() drops the value set_protection() returns.              *)
Unlock(c) ==
  /\ pc[c] = "unlock"
  /\ holder' = NoOwner
  /\ pc' = [pc EXCEPT ![c] = "idle"]
  /\ op' = [op EXCEPT ![c] = NoCall]
  /\ wasRo' = [wasRo EXCEPT ![c] = FALSE]
  /\ retVirt' = [retVirt EXCEPT ![c] = TRUE]
  /\ retVmalloc' = [retVmalloc EXCEPT ![c] = TRUE]
  /\ lastOk' = IF op[c].kind = "write" THEN lastOk ELSE retVirt[c] /\ retVmalloc[c]
  /\ UNCHANGED <<loaded, vmapped, mem, writable, ctxProtected, range, dropped, showVars>>

-----------------------------------------------------------------------------
(* Uncooperative writers and the status reader.                            *)

(* A store by code that ignores safety_mutex: it lands exactly when the    *)
(* alias it uses is writable (otherwise the writer gets -EFAULT).          *)
ForeignStore(a, v) ==
  /\ loaded
  /\ IsWritable(a)
  /\ mem' = v
  /\ NoteStore
  /\ UNCHANGED <<loaded, vmapped, writable, ctxProtected, range, dropped, lastOk, callVars>>

(* safety_mem_proc_show() takes no lock: it reads the flag, the value      *)
(* through each alias, and the permissions, one after the other.           *)
ReadFlag ==
  /\ loaded
  /\ showPc = "idle"
  /\ showPc' = "vmalloc"
  /\ showFlag' = ctxProtected
  /\ showHeld' = (holder # NoOwner)
  /\ UNCHANGED <<loaded, pageVars, callVars, showVmalloc, showPhys, showRw, showStored>>

(* A slip for mutation: val_vmalloc has no initializer.                   *)
ReadVmallocUninitialized ==
  /\ showPc = "vmalloc"
  /\ showPc' = "phys"
  /\ showVmalloc' = IF vmapped THEN mem ELSE "garbage"
  /\ UNCHANGED <<loaded, pageVars, callVars, showFlag, showPhys, showRw, showStored, showHeld>>

ReadVmalloc ==
  /\ showPc = "vmalloc"
  /\ showPc' = "phys"
  /\ showVmalloc' = IF vmapped THEN mem ELSE Zero
  /\ UNCHANGED <<loaded, pageVars, callVars, showFlag, showPhys, showRw, showStored, showHeld>>

ReadPhys ==
  /\ showPc = "phys"
  /\ showPc' = "walk"
  /\ showPhys' = mem
  /\ UNCHANGED <<loaded, pageVars, callVars, showFlag, showVmalloc, showRw, showStored, showHeld>>

Walk ==
  /\ showPc = "walk"
  /\ showPc' = "print"
  /\ showRw' = IsWritable("vmalloc")
  /\ UNCHANGED <<loaded, pageVars, callVars, showFlag, showVmalloc, showPhys, showStored, showHeld>>

(* The report is printed and the locals are gone.                          *)
Report ==
  /\ showPc = "print"
  /\ showPc' = "idle" /\ showFlag' = FALSE /\ showVmalloc' = Zero /\ showPhys' = Zero
  /\ showRw' = FALSE /\ showStored' = FALSE /\ showHeld' = FALSE
  /\ UNCHANGED <<loaded, pageVars, callVars>>

-----------------------------------------------------------------------------

CallStep(c) ==
  \/ SetRange(c) \/ CheckRo(c) \/ SetDirect(c) \/ SetVmalloc(c) \/ SetFlag(c)
  \/ Store(c) \/ StoreFaults(c) \/ ReprotectDirect(c) \/ ReprotectVmalloc(c)
  \/ Unlock(c)

ShowStep == ReadFlag \/ ReadVmalloc \/ ReadPhys \/ Walk \/ Report

SafetyMemStep ==
  \/ SafetyMemInit \/ SafetyMemInitFails \/ SafetyMemExit
  \/ \E c \in Callers : Begin(c) \/ Lock(c) \/ CallStep(c)
  \/ ShowStep

Next ==
  \/ SafetyMemStep
  \/ \E a \in Aliases, v \in ForeignValues : ForeignStore(a, v)

Spec == Init /\ [][Next]_vars

(* A running context is scheduled, and the kernel mutex hands the lock to  *)
(* a waiter it has passed over (MutexThreads checks that), so a waiter for *)
(* which the mutex keeps becoming free gets it.                            *)
Fairness == \A c \in Callers : WF_vars(CallStep(c)) /\ SF_vars(Lock(c))

FairSpec == Spec /\ Fairness

-----------------------------------------------------------------------------
(* Properties.                                                             *)

Critical == Labels \ {"idle", "lock"}

TypeOK ==
  /\ loaded \in BOOLEAN /\ vmapped \in BOOLEAN /\ ctxProtected \in BOOLEAN
  /\ mem \in Values
  /\ writable \in [Aliases -> BOOLEAN]
  /\ range \in {"page", "none"} /\ dropped \in SUBSET Aliases
  /\ lastOk \in BOOLEAN /\ holder \in Callers \cup {NoOwner}
  /\ pc \in [Callers -> Labels]
  /\ op \in [Callers -> Calls \cup {NoCall}]
  /\ wasRo \in [Callers -> BOOLEAN]
  /\ retVirt \in [Callers -> BOOLEAN] /\ retVmalloc \in [Callers -> BOOLEAN]
  /\ showPc \in {"idle", "vmalloc", "phys", "walk", "print"}
  /\ showFlag \in BOOLEAN /\ showRw \in BOOLEAN
  /\ showVmalloc \in Values \cup {Zero} /\ showPhys \in Values \cup {Zero}
  /\ showStored \in BOOLEAN /\ showHeld \in BOOLEAN

(* Permission changes and authorized writes are serialized by the mutex:   *)
(* every call between its mutex_lock() and its mutex_unlock() owns it, so  *)
(* no call sees or undoes half of another one's permission changes.        *)
CallsSerialized ==
  \A c \in Callers : pc[c] \in Critical => holder = c

(* The call c has itself made the vmap alias writable and has not yet      *)
(* closed its window (safe_write, which never will once its store faulted) *)
(* or cleared the flag (unprotect).                                        *)
WindowOpen(c) ==
  /\ holder = c
  /\ \/ op[c].kind = "write" /\ wasRo[c] /\ pc[c] \in {"store", "oops", "reDirect", "reVmalloc"}
     \/ op[c].kind = "unprotect" /\ pc[c] = "flag"

(* safety_mem_is_protected() can be believed: while it reports protection, *)
(* the vmap alias is read-only, except inside the window of the one call   *)
(* that owns the mutex, or after the set_memory_ro() that should have      *)
(* closed such a window failed and safe_write() dropped the result.        *)
FlagSound ==
  loaded /\ ctxProtected /\ IsWritable("vmalloc") =>
    "vmalloc" \in dropped \/ \E c \in Callers : WindowOpen(c)

(* What /proc/safety_mem_status prints can only disagree with itself if    *)
(* something ran in between: two different values for the one page mean a  *)
(* store between the two reads, and PROTECTED_RO beside a writable vmap    *)
(* entry means that a call owned the mutex since the flag was read, or     *)
(* that a dropped failure left the entry writable.                         *)
StatusCoherent ==
  /\ showPc \in {"walk", "print"} /\ vmapped /\ showVmalloc # showPhys => showStored
  /\ showPc = "print" /\ showFlag /\ showRw => showHeld \/ "vmalloc" \in dropped

(* safety_mem_exit() trusts the flag alone to decide whether the direct    *)
(* map has to be made writable again; the next user of the page would      *)
(* fault on memory it owns.  A page goes back read-only only if            *)
(* set_memory_rw() refused it on the way out, if the last                  *)
(* set_protection() had returned an error, or if there is no vmap alias    *)
(* (then a set_protection(true) that succeeded leaves the flag clear):     *)
(* after a call that returned 0 on a page with both aliases, never.        *)
ReadOnlyFreeExplained ==
  [][loaded /\ ~loaded' /\ ~writable'["direct"]
       => "direct" \in dropped' \/ ~lastOk \/ ~vmapped]_vars

(* set_protection() returns 0 only when all mappings were updated: at its  *)
(* return each alias that exists has the permission that was asked for.    *)
ReturnValueHonest ==
  \A c \in Callers :
    pc[c] = "unlock" /\ op[c].kind # "write" /\ retVirt[c] /\ retVmalloc[c] =>
      \A a \in Aliases : IsValid(a) => writable[a] = (op[c].kind = "unprotect")

(* The window of safe_write() works: a store that it opened a window for   *)
(* never faults (which would leave safety_mutex owned by a dead context),  *)
(* whatever other callers do to the permissions and whichever of their     *)
(* changes fail.                                                           *)
WindowWorks ==
  \A c \in Callers : pc[c] = "oops" => ~(wasRo[c] /\ retVirt[c])

(* "Level 2 page-table walking locks both vmalloc AND linear map PTEs":    *)
(* whenever protection is reported and no call is at work, neither alias   *)
(* is writable.                                                            *)
BothAliasesLocked ==
  loaded /\ ctxProtected /\ holder = NoOwner =>
    ~IsWritable("vmalloc") /\ ~IsWritable("direct")

(* Every call that asks for safety_mutex returns, unless an authorized     *)
(* write faulted while it owned the mutex.                                 *)
CallsReturn ==
  \A c \in Callers : pc[c] = "lock" ~> pc[c] = "idle" \/ \E d \in Callers : pc[d] = "oops"

=============================================================================
