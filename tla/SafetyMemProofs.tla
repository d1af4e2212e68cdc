-------------------------- MODULE SafetyMemProofs --------------------------
(***************************************************************************)
(* Proofs about SafetyMem, for any callers, values and outcomes of         *)
(* set_memory_*() and vmap().                                              *)
(***************************************************************************)
EXTENDS SafetyMem, TLAPS

(* No authorized write takes a fault on its own page.                      *)
NoOops == \A c \in Callers : pc[c] # "oops"

(* A call is where its kind can be: TypeOK alone is not inductive, because *)
(* the value a store writes is typed only in a safe_write() call.          *)
OpInv ==
  \A c \in Callers :
    /\ pc[c] # "idle" => op[c] \in Calls
    /\ pc[c] \in {"check", "store", "reDirect", "reVmalloc"} => op[c] \in Writes
    /\ pc[c] \in {"range", "flag"} => op[c].kind # "write"

TypeInv == TypeOK /\ OpInv

(* Calls and reads happen only while the module is loaded.                 *)
LoadInv ==
  ~loaded => showPc = "idle" /\ \A c \in Callers : pc[c] = "idle"

(* What safe_write() knows about the flag while it owns the mutex: it      *)
(* changes permissions only if the flag was set, and the flag is still     *)
(* what it read.                                                           *)
WriteInv ==
  \A c \in Callers : op[c].kind = "write" =>
    /\ pc[c] \in {"direct", "vmalloc", "reDirect", "reVmalloc"} => wasRo[c]
    /\ pc[c] \in {"direct", "vmalloc", "store", "reDirect", "reVmalloc"}
         => wasRo[c] = ctxProtected

(* What the status reader has seen is still so, unless its history says    *)
(* that somebody interfered; and an owner of the mutex is always noticed.  *)
ShowInv ==
  /\ showPc # "idle" /\ holder # NoOwner => showHeld
  /\ showPc = "phys" /\ vmapped => showVmalloc = mem \/ showStored
  /\ showPc \in {"vmalloc", "phys", "walk"} /\ showFlag
       => showHeld \/ (ctxProtected /\ holder = NoOwner)

FlagInv == /\ LoadInv /\ WriteInv /\ ShowInv
           /\ CallsSerialized /\ FlagSound /\ StatusCoherent

-----------------------------------------------------------------------------
LEMMA InitTypeInv == Init => TypeInv
  BY DEF Init, TypeInv, TypeOK, OpInv, Aliases, Values, Labels, NoCall

(* set_memory_*() touches one alias; a refused change leaves its           *)
(* permission, and is remembered where the result is dropped.              *)
LEMMA SetMemoryEffect ==
  ASSUME TypeOK, NEW a \in Aliases, NEW rw \in BOOLEAN, NEW ok \in BOOLEAN,
         NEW looks \in BOOLEAN, SetMemory(a, rw, ok, looks)
  PROVE  /\ writable' \in [Aliases -> BOOLEAN]
         /\ dropped' \in SUBSET Aliases
         /\ \A b \in Aliases : b # a =>
              writable'[b] = writable[b] /\ (b \in dropped' <=> b \in dropped)
         /\ ok => writable'[a] = rw
         /\ ~ok => writable'[a] = writable[a]
         /\ ~ok /\ looks => dropped' = dropped
         /\ ~ok /\ ~looks => a \in dropped'
<1>1. CASE ok
  BY <1>1 DEF SetMemory, TypeOK
<1>2. CASE ~ok /\ looks
  BY <1>2 DEF SetMemory, TypeOK
<1>3. CASE ~ok /\ ~looks
  BY <1>3 DEF SetMemory, TypeOK
<1> QED BY <1>1, <1>2, <1>3

LEMMA CallStepTypeInv ==
  ASSUME TypeInv, NEW c \in Callers, CallStep(c)
  PROVE  TypeInv'
<1> USE SafetyMemAssumption DEF TypeInv, TypeOK, OpInv, Aliases, Labels, Calls, Writes
<1>1. CASE SetRange(c)  BY <1>1 DEF SetRange, showVars
<1>2. CASE CheckRo(c)   BY <1>2 DEF CheckRo, pageVars, showVars
<1>3. CASE SetDirect(c) BY <1>3 DEF SetDirect, SetMemory, showVars
<1>4. CASE SetVmalloc(c)
  <2>1. CASE vmapped
    <3>1. PICK ok \in VmallocOutcomes :
            /\ SetMemory("vmalloc", op[c].kind # "protect", ok, op[c].kind # "write")
            /\ retVmalloc' = [retVmalloc EXCEPT ![c] = ok]
      BY <1>4, <2>1 DEF SetVmalloc
    <3>2. writable' \in [Aliases -> BOOLEAN] /\ dropped' \in SUBSET Aliases
      BY <3>1 DEF SetMemory
    <3> QED BY <1>4, <3>1, <3>2 DEF SetVmalloc, showVars
  <2>2. CASE ~vmapped
    <3>1. /\ retVmalloc' = [retVmalloc EXCEPT ![c] = TRUE]
          /\ writable' = writable /\ dropped' = dropped
      BY <1>4, <2>2 DEF SetVmalloc
    <3> QED BY <1>4, <3>1 DEF SetVmalloc, showVars
  <2> QED BY <2>1, <2>2
<1>5. CASE SetFlag(c)   BY <1>5 DEF SetFlag, IsValid, IsWritable, showVars
<1>6. CASE Store(c)     BY <1>6 DEF Store, NoteStore, Values
<1>7. CASE StoreFaults(c) BY <1>7 DEF StoreFaults, pageVars, showVars
<1>8. CASE ReprotectDirect(c) BY <1>8 DEF ReprotectDirect, SetMemory, showVars
<1>9. CASE ReprotectVmalloc(c)
  <2>1. writable' \in [Aliases -> BOOLEAN] /\ dropped' \in SUBSET Aliases
    <3>1. CASE vmapped
      <4>1. PICK ok \in VmallocOutcomes : SetMemory("vmalloc", FALSE, ok, FALSE)
        BY <1>9, <3>1 DEF ReprotectVmalloc
      <4>2. ok \in BOOLEAN
        BY Zenon, <4>1
      <4> QED BY <4>1, <4>2, SetMemoryEffect
    <3>2. CASE ~vmapped BY <1>9, <3>2 DEF ReprotectVmalloc
    <3> QED BY <3>1, <3>2
  <2> QED BY <1>9, <2>1 DEF ReprotectVmalloc, showVars
<1>10. CASE Unlock(c)   BY <1>10 DEF Unlock, NoCall, pageVars, showVars
<1> QED BY <1>1, <1>2, <1>3, <1>4, <1>5, <1>6, <1>7, <1>8, <1>9, <1>10 DEF CallStep

LEMMA NextTypeInv == TypeInv /\ [Next]_vars => TypeInv'
<1> SUFFICES ASSUME TypeInv, [Next]_vars PROVE TypeInv'
  OBVIOUS
<1> USE SafetyMemAssumption DEF TypeInv, TypeOK, OpInv, Aliases, Labels
<1>1. CASE SafetyMemInit
  <2>1. vmapped' \in BOOLEAN
    BY <1>1, Zenon DEF SafetyMemInit, SafetyMemAssumption
  <2>2. loaded' \in BOOLEAN /\ ctxProtected' \in BOOLEAN /\ lastOk' \in BOOLEAN
    BY <1>1, Zenon DEF SafetyMemInit
  <2>3. /\ writable' = [a \in Aliases |-> TRUE] /\ mem' = Sentinel /\ range' = "page"
        /\ dropped' = {}
        /\ UNCHANGED <<callVars, showVars>>
    BY <1>1 DEF SafetyMemInit
  <2> QED BY <2>1, <2>2, <2>3 DEF Values, callVars, showVars
<1>2. CASE SafetyMemInitFails
  BY <1>2 DEF SafetyMemInitFails, callVars, showVars
<1>3. CASE SafetyMemExit
  <2>1. writable' \in [Aliases -> BOOLEAN] /\ dropped' \in SUBSET Aliases
    <3>1. CASE ctxProtected
      <4>1. PICK okD \in DirectOutcomes, okV \in VmallocOutcomes :
              LET done == {a \in Aliases : IF a = "direct" THEN okD ELSE vmapped /\ okV}
              IN  /\ writable' = [a \in Aliases |-> writable[a] \/ a \in done]
                  /\ dropped' = {a \in Aliases : IsValid(a)} \ done
        BY <1>3, <3>1 DEF SafetyMemExit, RestoreOnExit
      <4> QED BY <4>1
    <3>2. CASE ~ctxProtected
      BY <1>3, <3>2 DEF SafetyMemExit, RestoreOnExit
    <3> QED BY <3>1, <3>2
  <2> QED BY <1>3, <2>1 DEF SafetyMemExit, callVars, showVars
<1>4. ASSUME NEW c \in Callers, Begin(c) PROVE TypeInv'
  BY <1>4 DEF Begin, pageVars, showVars
<1>5. ASSUME NEW c \in Callers, Lock(c) PROVE TypeInv'
  BY <1>5 DEF Lock, pageVars, NoteHeld, Calls, Writes
<1>6. ASSUME NEW c \in Callers, CallStep(c) PROVE TypeInv'
  BY <1>6, CallStepTypeInv
<1>7. CASE ShowStep
  <2> USE DEF pageVars, callVars
  <2>1. CASE ReadFlag    BY <2>1 DEF ReadFlag
  <2>2. CASE ReadVmalloc BY <2>2 DEF ReadVmalloc, Values
  <2>3. CASE ReadPhys    BY <2>3 DEF ReadPhys
  <2>4. CASE Walk        BY <2>4 DEF Walk, IsValid, IsWritable
  <2>5. CASE Report      BY <2>5 DEF Report
  <2> QED BY <1>7, <2>1, <2>2, <2>3, <2>4, <2>5 DEF ShowStep
<1>8. ASSUME NEW a \in Aliases, NEW v \in ForeignValues, ForeignStore(a, v)
      PROVE TypeInv'
  BY <1>8 DEF ForeignStore, NoteStore, Values, callVars
<1>9. CASE UNCHANGED vars
  BY <1>9 DEF vars, pageVars, callVars, showVars
<1> QED
  BY <1>1, <1>2, <1>3, <1>4, <1>5, <1>6, <1>7, <1>8, <1>9 DEF Next, SafetyMemStep

(***************************************************************************)
(* Type correctness: every step of every caller, of the reader and of the  *)
(* foreign writers keeps the variables in their types.                     *)
(***************************************************************************)
THEOREM TypeCorrect == Spec => []TypeOK
<1>1. TypeInv => TypeOK
  BY DEF TypeInv
<1> QED BY <1>1, InitTypeInv, NextTypeInv, PTL DEF Spec


-----------------------------------------------------------------------------
LEMMA InitFlagInv == Init => FlagInv
  BY SafetyMemAssumption
     DEF Init, FlagInv, LoadInv, WriteInv, ShowInv, CallsSerialized, Critical,
         Labels, FlagSound, StatusCoherent, NoCall

(* A protecting call closes the vmap alias or leaves everything as it was. *)
LEMMA SetVmallocEffect ==
  ASSUME TypeOK, NEW c \in Callers, SetVmalloc(c), vmapped, op[c].kind = "protect"
  PROVE  writable'["vmalloc"] = FALSE \/ UNCHANGED <<writable, dropped>>
<1>1. PICK ok \in VmallocOutcomes :
        SetMemory("vmalloc", op[c].kind # "protect", ok, op[c].kind # "write")
  BY DEF SetVmalloc
<1>2. CASE ok
  BY <1>1, <1>2 DEF SetMemory, TypeOK, Aliases
<1>3. CASE ~ok
  BY <1>1, <1>3 DEF SetMemory
<1> QED BY <1>2, <1>3

(* safe_write() closes the vmap alias, or drops the failure.               *)
LEMMA ReprotectVmallocEffect ==
  ASSUME TypeOK, NEW c \in Callers, ReprotectVmalloc(c), vmapped
  PROVE  writable'["vmalloc"] = FALSE \/ "vmalloc" \in dropped'
<1>1. PICK ok \in VmallocOutcomes : SetMemory("vmalloc", FALSE, ok, FALSE)
  BY DEF ReprotectVmalloc
<1>2. CASE ok
  BY <1>1, <1>2 DEF SetMemory, TypeOK, Aliases
<1>3. CASE ~ok
  BY <1>1, <1>3 DEF SetMemory
<1> QED BY <1>2, <1>3

(* One call step.  The window of safe_write() opens in SetVmalloc and is   *)
(* closed in ReprotectVmalloc; the window of an unprotect ends in SetFlag. *)
LEMMA CallStepFlagInv ==
  ASSUME TypeInv, FlagInv, NEW c \in Callers, CallStep(c)
  PROVE  FlagInv'
<1> USE SafetyMemAssumption
    DEF TypeInv, TypeOK, OpInv, Aliases, Labels, Calls, Writes, Critical,
        FlagInv, LoadInv, WriteInv, ShowInv, CallsSerialized, FlagSound,
        StatusCoherent, WindowOpen, IsValid, IsWritable
<1>1. CASE SetRange(c)  BY <1>1 DEF SetRange, showVars
<1>2. CASE CheckRo(c)   BY <1>2 DEF CheckRo, pageVars, showVars
<1>3. CASE SetDirect(c) BY <1>3 DEF SetDirect, SetMemory, showVars
<1>4. CASE SetVmalloc(c)
  <2>1. op[c].kind = "protect" /\ vmapped =>
          writable'["vmalloc"] = FALSE \/ UNCHANGED <<writable, dropped>>
    BY <1>4, SetVmallocEffect
  <2>2. ~vmapped => UNCHANGED <<writable, dropped>>
    BY <1>4 DEF SetVmalloc
  <2> QED BY <1>4, <2>1, <2>2 DEF SetVmalloc, showVars
<1>5. CASE SetFlag(c)
  <2>1. ctxProtected' => vmapped /\ ~writable["vmalloc"]
    BY <1>5 DEF SetFlag
  <2>2. holder = c /\ op[c].kind # "write"
    BY <1>5 DEF SetFlag
  <2>3. ctxProtected' \in BOOLEAN
    BY <1>5 DEF SetFlag
  <2>4. /\ pc' = [pc EXCEPT ![c] = "unlock"]
        /\ UNCHANGED <<loaded, vmapped, mem, writable, range, dropped, holder, op, wasRo,
                       retVirt, retVmalloc, showVars>>
    BY <1>5 DEF SetFlag
  <2>5. LoadInv' /\ CallsSerialized'
    BY <1>5, <2>2, <2>4 DEF SetFlag, showVars
  <2>6. WriteInv'
    BY <2>2, <2>3, <2>4
  <2>7. FlagSound'
    BY <2>1, <2>4
  <2>8. ShowInv' /\ StatusCoherent'
    BY <2>2, <2>4 DEF showVars
  <2> QED BY <2>5, <2>6, <2>7, <2>8
<1>6. CASE Store(c)     BY <1>6 DEF Store, NoteStore
<1>7. CASE StoreFaults(c) BY <1>7 DEF StoreFaults, pageVars, showVars
<1>8. CASE ReprotectDirect(c) BY <1>8 DEF ReprotectDirect, SetMemory, showVars
<1>9. CASE ReprotectVmalloc(c)
  <2>1. vmapped => writable'["vmalloc"] = FALSE \/ "vmalloc" \in dropped'
    BY <1>9, ReprotectVmallocEffect
  <2>2. ~vmapped => UNCHANGED <<writable, dropped>>
    BY <1>9 DEF ReprotectVmalloc
  <2> QED BY <1>9, <2>1, <2>2 DEF ReprotectVmalloc, showVars
<1>10. CASE Unlock(c)   BY <1>10 DEF Unlock, NoCall, pageVars, showVars
<1> QED BY <1>1, <1>2, <1>3, <1>4, <1>5, <1>6, <1>7, <1>8, <1>9, <1>10 DEF CallStep

LEMMA NextFlagInv ==
  ASSUME TypeInv, FlagInv, [Next]_vars
  PROVE  FlagInv'
<1> USE SafetyMemAssumption
    DEF TypeInv, TypeOK, OpInv, Aliases, Labels, Calls, Writes, Critical,
        FlagInv, LoadInv, WriteInv, ShowInv, CallsSerialized, FlagSound,
        StatusCoherent, WindowOpen, IsValid, IsWritable
<1>1. CASE SafetyMemInit
  BY <1>1 DEF SafetyMemInit, callVars, showVars
<1>2. CASE SafetyMemInitFails
  BY <1>2 DEF SafetyMemInitFails, callVars, showVars
<1>3. CASE SafetyMemExit
  BY <1>3 DEF SafetyMemExit, callVars, showVars
<1>4. ASSUME NEW c \in Callers, Begin(c) PROVE FlagInv'
  BY <1>4 DEF Begin, pageVars, showVars
<1>5. ASSUME NEW c \in Callers, Lock(c) PROVE FlagInv'
  BY <1>5 DEF Lock, pageVars, NoteHeld
<1>6. ASSUME NEW c \in Callers, CallStep(c) PROVE FlagInv'
  BY <1>6, CallStepFlagInv
<1>7. CASE ReadFlag
  BY <1>7 DEF ReadFlag, pageVars, callVars
<1>8. CASE ReadVmalloc
  BY <1>8 DEF ReadVmalloc, pageVars, callVars
<1>9. CASE ReadPhys
  BY <1>9 DEF ReadPhys, pageVars, callVars
<1>10. CASE Walk
  BY <1>10 DEF Walk, pageVars, callVars
<1>11. CASE Report
  BY <1>11 DEF Report, pageVars, callVars
<1>12. ASSUME NEW a \in Aliases, NEW v \in ForeignValues, ForeignStore(a, v)
      PROVE FlagInv'
  BY <1>12 DEF ForeignStore, NoteStore, Values, callVars
<1>13. CASE UNCHANGED vars
  BY <1>13 DEF vars, pageVars, callVars, showVars
<1> QED
  BY <1>1, <1>2, <1>3, <1>4, <1>5, <1>6, <1>7, <1>8, <1>9, <1>10, <1>11, <1>12,
     <1>13 DEF Next, SafetyMemStep, ShowStep

(***************************************************************************)
(* safety_mutex serializes the calls: between its mutex_lock() and its     *)
(* mutex_unlock() every call owns it, whatever the outcomes of             *)
(* set_memory_*() and vmap() and whoever stores into the page meanwhile.   *)
(***************************************************************************)
THEOREM MutualExclusion == Spec => []CallsSerialized
<1>1. Init => CallsSerialized
  BY DEF Init, CallsSerialized, Critical, Labels
<1>2. ASSUME TypeInv, CallsSerialized, [Next]_vars PROVE CallsSerialized'
  <2> USE SafetyMemAssumption
      DEF TypeInv, TypeOK, CallsSerialized, Critical, Labels
  <2>1. CASE SafetyMemInit BY <1>2, <2>1 DEF SafetyMemInit, callVars
  <2>2. CASE SafetyMemInitFails BY <1>2, <2>2 DEF SafetyMemInitFails, callVars
  <2>3. CASE SafetyMemExit BY <1>2, <2>3 DEF SafetyMemExit, callVars
  <2>4. ASSUME NEW c \in Callers, Begin(c) PROVE CallsSerialized'
    BY <1>2, <2>4 DEF Begin
  <2>5. ASSUME NEW c \in Callers, Lock(c) PROVE CallsSerialized'
    BY <1>2, <2>5 DEF Lock
  <2>6. ASSUME NEW c \in Callers, CallStep(c), ~Unlock(c) PROVE CallsSerialized'
    BY <1>2, <2>6 DEF CallStep, SetRange, CheckRo, SetDirect, SetVmalloc, SetFlag,
       Store, StoreFaults, ReprotectDirect, ReprotectVmalloc
  <2>7. ASSUME NEW c \in Callers, Unlock(c) PROVE CallsSerialized'
    BY <1>2, <2>7 DEF Unlock
  <2>8. CASE ShowStep
    BY <1>2, <2>8 DEF ShowStep, ReadFlag, ReadVmalloc, ReadPhys, Walk, Report, callVars
  <2>9. ASSUME NEW a \in Aliases, NEW v \in ForeignValues, ForeignStore(a, v)
        PROVE CallsSerialized'
    BY <1>2, <2>9 DEF ForeignStore, callVars
  <2>10. CASE UNCHANGED vars BY <1>2, <2>10 DEF vars, callVars
  <2> QED BY <1>2, <2>1, <2>2, <2>3, <2>4, <2>5, <2>6, <2>7, <2>8, <2>9, <2>10
          DEF Next, SafetyMemStep
<1> QED BY <1>1, <1>2, InitTypeInv, NextTypeInv, PTL DEF Spec

(* On arm64 set_memory_*() refuses the direct map, which is therefore      *)
(* always writable.                                                        *)
DirectWritable == writable["direct"] = TRUE

LEMMA DirectStaysWritable ==
  ASSUME DirectOutcomes = {FALSE}, TypeInv, DirectWritable, [Next]_vars
  PROVE  DirectWritable'
<1> USE SafetyMemAssumption DEF TypeInv, TypeOK, Aliases, DirectWritable
<1>1. CASE SafetyMemInit BY <1>1 DEF SafetyMemInit
<1>2. CASE SafetyMemInitFails BY <1>2 DEF SafetyMemInitFails
<1>3. CASE SafetyMemExit BY <1>3 DEF SafetyMemExit, RestoreOnExit
<1>4. ASSUME NEW c \in Callers, Begin(c) \/ Lock(c) PROVE DirectWritable'
  BY <1>4 DEF Begin, Lock, pageVars
<1>5. ASSUME NEW c \in Callers, CallStep(c) PROVE DirectWritable'
  BY <1>5 DEF CallStep, SetRange, CheckRo, SetDirect, SetVmalloc, SetFlag, Store,
     StoreFaults, ReprotectDirect, ReprotectVmalloc, Unlock, SetMemory, pageVars
<1>6. CASE ShowStep
  BY <1>6 DEF ShowStep, ReadFlag, ReadVmalloc, ReadPhys, Walk, Report, pageVars
<1>7. ASSUME NEW a \in Aliases, NEW v \in ForeignValues, ForeignStore(a, v)
      PROVE DirectWritable'
  BY <1>7 DEF ForeignStore
<1>8. CASE UNCHANGED vars BY <1>8 DEF vars, pageVars
<1> QED BY <1>1, <1>2, <1>3, <1>4, <1>5, <1>6, <1>7, <1>8 DEF Next, SafetyMemStep

LEMMA NextNoOops ==
  ASSUME TypeInv, DirectWritable, NoOops, [Next]_vars
  PROVE  NoOops'
<1> USE DEF TypeInv, TypeOK, DirectWritable, NoOops, Labels
<1>1. CASE SafetyMemInit \/ SafetyMemInitFails \/ SafetyMemExit
  BY <1>1 DEF SafetyMemInit, SafetyMemInitFails, SafetyMemExit, callVars
<1>2. ASSUME NEW c \in Callers, Begin(c) \/ Lock(c) PROVE NoOops'
  BY <1>2 DEF Begin, Lock
<1>3. ASSUME NEW c \in Callers, CallStep(c) PROVE NoOops'
  BY <1>3 DEF CallStep, SetRange, CheckRo, SetDirect, SetVmalloc, SetFlag, Store,
     StoreFaults, ReprotectDirect, ReprotectVmalloc, Unlock
<1>4. CASE ShowStep
  BY <1>4 DEF ShowStep, ReadFlag, ReadVmalloc, ReadPhys, Walk, Report, callVars
<1>5. ASSUME NEW a \in Aliases, NEW v \in ForeignValues, ForeignStore(a, v)
      PROVE NoOops'
  BY <1>5 DEF ForeignStore, callVars
<1>6. CASE UNCHANGED vars BY <1>6 DEF vars, callVars
<1> QED BY <1>1, <1>2, <1>3, <1>4, <1>5, <1>6 DEF Next, SafetyMemStep

(* No change of the vmap alias was refused and its result dropped.         *)
VmallocServed == "vmalloc" \notin dropped

LEMMA NextVmallocServed ==
  ASSUME VmallocOutcomes = {TRUE}, VmallocServed, [Next]_vars
  PROVE  VmallocServed'
<1> USE DEF VmallocServed
<1>1. CASE SafetyMemInit \/ SafetyMemInitFails
  BY <1>1 DEF SafetyMemInit, SafetyMemInitFails
<1>2. CASE SafetyMemExit
  <2>1. CASE ctxProtected
    <3>1. PICK okD \in DirectOutcomes, okV \in VmallocOutcomes :
            dropped' = {a \in Aliases : IsValid(a)}
                         \ {a \in Aliases : IF a = "direct" THEN okD ELSE vmapped /\ okV}
      BY <1>2, <2>1 DEF SafetyMemExit, RestoreOnExit
    <3>2. okV
      BY <3>1
    <3> QED BY <3>1, <3>2 DEF IsValid, Aliases
  <2>2. CASE ~ctxProtected
    BY <1>2, <2>2 DEF SafetyMemExit, RestoreOnExit
  <2> QED BY <2>1, <2>2
<1>3. ASSUME NEW c \in Callers, Begin(c) \/ Lock(c) PROVE VmallocServed'
  BY <1>3 DEF Begin, Lock, pageVars
<1>4. ASSUME NEW c \in Callers, CallStep(c) PROVE VmallocServed'
  <2>1. CASE SetDirect(c)
    <3>1. PICK ok \in DirectOutcomes :
            SetMemory("direct", op[c].kind # "protect", ok, op[c].kind # "write")
      BY <2>1 DEF SetDirect
    <3> QED BY <3>1 DEF SetMemory
  <2>2. CASE ReprotectDirect(c)
    <3>1. PICK ok \in DirectOutcomes : SetMemory("direct", FALSE, ok, FALSE)
      BY <2>2 DEF ReprotectDirect
    <3> QED BY <3>1 DEF SetMemory
  <2>3. CASE SetVmalloc(c)
    BY <2>3 DEF SetVmalloc, SetMemory
  <2>4. CASE ReprotectVmalloc(c)
    BY <2>4 DEF ReprotectVmalloc, SetMemory
  <2>5. CASE SetRange(c) \/ CheckRo(c) \/ SetFlag(c) \/ Store(c) \/ StoreFaults(c)
             \/ Unlock(c)
    BY <2>5 DEF SetRange, CheckRo, SetFlag, Store, StoreFaults, Unlock, pageVars
  <2> QED BY <1>4, <2>1, <2>2, <2>3, <2>4, <2>5 DEF CallStep
<1>5. CASE ShowStep
  BY <1>5 DEF ShowStep, ReadFlag, ReadVmalloc, ReadPhys, Walk, Report, pageVars
<1>6. ASSUME NEW a \in Aliases, NEW v \in ForeignValues, ForeignStore(a, v)
      PROVE VmallocServed'
  BY <1>6 DEF ForeignStore
<1>7. CASE UNCHANGED vars BY <1>7 DEF vars, pageVars
<1> QED BY <1>1, <1>2, <1>3, <1>4, <1>5, <1>6, <1>7 DEF Next, SafetyMemStep

(***************************************************************************)
(* The flag and the status file can be believed, whatever set_memory_*()   *)
(* and vmap() return: while is_protected() reports TRUE the vmap alias is  *)
(* read-only outside the window of the one call that owns the mutex,       *)
(* unless safe_write() dropped a failure to close it, and a report that    *)
(* contradicts itself has seen a store, a call or such a failure.          *)
(***************************************************************************)
THEOREM ProtectionFlagSound == Spec => [](FlagSound /\ StatusCoherent)
<1>1. TypeInv /\ FlagInv /\ [Next]_vars => FlagInv'
  BY NextFlagInv
<1>2. FlagInv => FlagSound /\ StatusCoherent
  BY DEF FlagInv
<1> QED BY <1>1, <1>2, InitTypeInv, NextTypeInv, InitFlagInv, PTL DEF Spec

(***************************************************************************)
(* On arm64, where set_memory_*() refuses the direct map and serves the    *)
(* vmap alias, neither exception to FlagSound arises: no authorized write  *)
(* faults and no failure to close a window is dropped.                     *)
(***************************************************************************)
THEOREM ProtectionFlagSoundArm64 ==
  ASSUME VmallocOutcomes = {TRUE}, DirectOutcomes = {FALSE}
  PROVE  Spec => [](NoOops /\ VmallocServed /\ FlagSound)
<1>1. Init => DirectWritable /\ NoOops /\ VmallocServed
  BY DEF Init, DirectWritable, NoOops, VmallocServed, Aliases
<1>2. TypeInv /\ DirectWritable /\ [Next]_vars => DirectWritable'
  BY DirectStaysWritable
<1>3. TypeInv /\ DirectWritable /\ NoOops /\ [Next]_vars => NoOops'
  BY NextNoOops
<1>4. VmallocServed /\ [Next]_vars => VmallocServed'
  BY NextVmallocServed
<1> QED
  BY <1>1, <1>2, <1>3, <1>4, InitTypeInv, NextTypeInv, ProtectionFlagSound, PTL DEF Spec

-----------------------------------------------------------------------------
(* The permissions a call has asked for and obtained are still those of    *)
(* the page until it unlocks, since nobody else changes them meanwhile.    *)
AskedPermissions ==
  \A c \in Callers : op[c].kind # "write" =>
    /\ pc[c] \in {"vmalloc", "flag", "unlock"} /\ retVirt[c]
         => writable["direct"] = (op[c].kind = "unprotect")
    /\ pc[c] \in {"flag", "unlock"} /\ retVmalloc[c] /\ vmapped
         => writable["vmalloc"] = (op[c].kind = "unprotect")

(* Once safe_write() has opened its window, the direct alias stays open    *)
(* until its store.                                                        *)
WindowStaysOpen ==
  \A c \in Callers :
    op[c].kind = "write" /\ wasRo[c] /\ retVirt[c] /\ pc[c] \in {"vmalloc", "store"}
      => writable["direct"] = TRUE

(* While the flag is clear and no set_protection() runs, the direct map of *)
(* a page with both aliases is read-only only after a set_protection()     *)
(* that reported it; its return value is known before it unlocks.          *)
ReportedInv ==
  /\ ~ctxProtected /\ ~writable["direct"] /\ lastOk /\ vmapped =>
       \E c \in Callers : pc[c] \in Critical /\ op[c].kind # "write"
  /\ \A c \in Callers :
       /\ pc[c] = "unlock" /\ op[c].kind # "write" /\ retVirt[c] /\ retVmalloc[c] /\ vmapped
       /\ ~ctxProtected
       => writable["direct"]

PermInv == AskedPermissions /\ WindowStaysOpen /\ WindowWorks

LEMMA InitPermInv == Init => PermInv
  BY DEF Init, PermInv, AskedPermissions, WindowStaysOpen, WindowWorks,
         NoCall, Aliases

LEMMA CallStepPermInv ==
  ASSUME TypeInv, FlagInv, PermInv, NEW c \in Callers, CallStep(c)
  PROVE  PermInv'
<1> USE DEF TypeInv, TypeOK, OpInv, Calls, Writes, Critical, Labels, CallsSerialized,
        FlagInv, LoadInv, PermInv, AskedPermissions, WindowStaysOpen, WindowWorks
<1>1. CASE SetRange(c)  BY <1>1 DEF SetRange
<1>2. CASE CheckRo(c)   BY <1>2 DEF CheckRo, pageVars
<1>3. CASE SetDirect(c)
  <2>1. PICK ok \in DirectOutcomes :
          /\ SetMemory("direct", op[c].kind # "protect", ok, op[c].kind # "write")
          /\ retVirt' = [retVirt EXCEPT ![c] = ok]
    BY <1>3 DEF SetDirect
  <2>2. ok \in BOOLEAN
    BY <2>1, SafetyMemAssumption, Zenon DEF SafetyMemAssumption
  <2>3. ok => writable'["direct"] = (op[c].kind # "protect")
    BY <2>1, <2>2, SetMemoryEffect DEF Aliases
  <2> QED BY <1>3, <2>1, <2>2, <2>3 DEF SetDirect
<1>4. CASE SetVmalloc(c)
  <2>1. writable'["direct"] = writable["direct"]
    BY <1>4 DEF SetVmalloc, SetMemory, Aliases
  <2>2. vmapped /\ retVmalloc'[c] => writable'["vmalloc"] = (op[c].kind # "protect")
    BY <1>4 DEF SetVmalloc, SetMemory, Aliases
  <2> QED BY <1>4, <2>1, <2>2 DEF SetVmalloc
<1>5. CASE SetFlag(c)   BY <1>5 DEF SetFlag
<1>6. CASE Store(c)     BY <1>6 DEF Store
<1>7. CASE StoreFaults(c) BY <1>7 DEF StoreFaults, pageVars
<1>8. CASE ReprotectDirect(c)
  BY <1>8 DEF ReprotectDirect
<1>9. CASE ReprotectVmalloc(c)
  BY <1>9 DEF ReprotectVmalloc
<1>10. CASE Unlock(c)   BY <1>10 DEF Unlock, NoCall, pageVars
<1> QED BY <1>1, <1>2, <1>3, <1>4, <1>5, <1>6, <1>7, <1>8, <1>9, <1>10 DEF CallStep

LEMMA NextPermInv ==
  ASSUME TypeInv, FlagInv, PermInv, [Next]_vars
  PROVE  PermInv'
<1> USE DEF TypeInv, TypeOK, OpInv, Labels, FlagInv, LoadInv, PermInv, AskedPermissions,
        WindowStaysOpen, WindowWorks, Aliases
<1>1. CASE SafetyMemInit
  BY <1>1 DEF SafetyMemInit, callVars
<1>2. CASE SafetyMemInitFails
  BY <1>2 DEF SafetyMemInitFails, callVars
<1>3. CASE SafetyMemExit
  BY <1>3 DEF SafetyMemExit, callVars
<1>4. ASSUME NEW c \in Callers, Begin(c) PROVE PermInv'
  BY <1>4 DEF Begin, pageVars
<1>5. ASSUME NEW c \in Callers, Lock(c) PROVE PermInv'
  BY <1>5 DEF Lock, pageVars
<1>6. ASSUME NEW c \in Callers, CallStep(c) PROVE PermInv'
  BY <1>6, CallStepPermInv
<1>7. CASE ShowStep
  BY <1>7 DEF ShowStep, ReadFlag, ReadVmalloc, ReadPhys, Walk, Report, pageVars, callVars
<1>8. ASSUME NEW a \in Aliases, NEW v \in ForeignValues, ForeignStore(a, v)
      PROVE PermInv'
  BY <1>8 DEF ForeignStore, callVars
<1>9. CASE UNCHANGED vars
  BY <1>9 DEF vars, pageVars, callVars
<1> QED
  BY <1>1, <1>2, <1>3, <1>4, <1>5, <1>6, <1>7, <1>8, <1>9 DEF Next, SafetyMemStep

LEMMA PermInvHolds == Spec => []PermInv
<1>1. TypeInv /\ FlagInv /\ [Next]_vars => FlagInv'
  BY NextFlagInv
<1>2. TypeInv /\ FlagInv /\ PermInv /\ [Next]_vars => PermInv'
  BY NextPermInv
<1> QED
  BY <1>1, <1>2, InitTypeInv, NextTypeInv, InitFlagInv, InitPermInv, PTL DEF Spec

(***************************************************************************)
(* /proc/safety_mem_status is coherent in the same sense: the reader takes *)
(* no lock, and whatever it prints that contradicts itself is explained by *)
(* a store or a call in between, or by a dropped failure.                  *)
(***************************************************************************)
THEOREM StatusReportCoherent == Spec => []StatusCoherent
  BY ProtectionFlagSound, PTL

(***************************************************************************)
(* set_protection() returns 0 only when every mapping that exists has the  *)
(* permission that was asked for, whichever of its own and of the other    *)
(* calls' changes are refused.                                             *)
(***************************************************************************)
THEOREM SetProtectionHonest == Spec => []ReturnValueHonest
<1>1. TypeInv /\ PermInv => ReturnValueHonest
  BY DEF PermInv, AskedPermissions, ReturnValueHonest, Aliases, IsValid
<1> QED BY <1>1, InitTypeInv, NextTypeInv, PermInvHolds, PTL DEF Spec

(***************************************************************************)
(* The store of safe_write() never faults on a page that the same call has *)
(* made writable, so that no context dies there with safety_mutex owned.   *)
(***************************************************************************)
THEOREM WindowSound == Spec => []WindowWorks
<1>1. PermInv => WindowWorks
  BY DEF PermInv
<1> QED BY <1>1, PermInvHolds, PTL

LEMMA CallStepReported ==
  ASSUME TypeInv, FlagInv, PermInv, ReportedInv, NEW c \in Callers, CallStep(c)
  PROVE  ReportedInv'
<1> USE DEF TypeInv, TypeOK, OpInv, Aliases, Calls, Writes, Critical, Labels, FlagInv,
        CallsSerialized, WriteInv, ReportedInv
<1>1. CASE SetRange(c)  BY <1>1 DEF SetRange
<1>2. CASE CheckRo(c)   BY <1>2 DEF CheckRo, pageVars
<1>3. CASE SetDirect(c) BY <1>3 DEF SetDirect
<1>4. CASE SetVmalloc(c)
  <2>1. writable'["direct"] = writable["direct"]
    BY <1>4 DEF SetVmalloc, SetMemory
  <2> QED BY <1>4, <2>1 DEF SetVmalloc
<1>5. CASE SetFlag(c)
  <2>1. /\ retVirt[c] => writable["direct"] = (op[c].kind = "unprotect")
        /\ retVmalloc[c] /\ vmapped => writable["vmalloc"] = (op[c].kind = "unprotect")
    BY <1>5 DEF SetFlag, PermInv, AskedPermissions
  <2>2. retVmalloc[c] /\ vmapped /\ op[c].kind = "protect" => ctxProtected'
    BY <1>5, <2>1 DEF SetFlag, IsValid, IsWritable
  <2> QED BY <1>5, <2>1, <2>2 DEF SetFlag
<1>6. CASE Store(c)     BY <1>6 DEF Store
<1>7. CASE StoreFaults(c) BY <1>7 DEF StoreFaults, pageVars
<1>8. CASE ReprotectDirect(c) BY <1>8 DEF ReprotectDirect
<1>9. CASE ReprotectVmalloc(c) BY <1>9 DEF ReprotectVmalloc
<1>10. CASE Unlock(c)   BY <1>10 DEF Unlock
<1> QED BY <1>1, <1>2, <1>3, <1>4, <1>5, <1>6, <1>7, <1>8, <1>9, <1>10 DEF CallStep

LEMMA NextReported ==
  ASSUME TypeInv, FlagInv, PermInv, ReportedInv, [Next]_vars
  PROVE  ReportedInv'
<1> USE DEF TypeInv, TypeOK, OpInv, Aliases, Labels, Critical, FlagInv, LoadInv, ReportedInv
<1>1. CASE SafetyMemInit BY <1>1 DEF SafetyMemInit, callVars
<1>2. CASE SafetyMemInitFails BY <1>2 DEF SafetyMemInitFails, callVars
<1>3. CASE SafetyMemExit BY <1>3 DEF SafetyMemExit, callVars
<1>4. ASSUME NEW c \in Callers, Begin(c) PROVE ReportedInv'
  BY <1>4 DEF Begin, pageVars
<1>5. ASSUME NEW c \in Callers, Lock(c) PROVE ReportedInv'
  BY <1>5 DEF Lock, pageVars
<1>6. ASSUME NEW c \in Callers, CallStep(c) PROVE ReportedInv'
  BY <1>6, CallStepReported
<1>7. CASE ShowStep
  BY <1>7 DEF ShowStep, ReadFlag, ReadVmalloc, ReadPhys, Walk, Report, pageVars, callVars
<1>8. ASSUME NEW a \in Aliases, NEW v \in ForeignValues, ForeignStore(a, v)
      PROVE ReportedInv'
  BY <1>8 DEF ForeignStore, callVars
<1>9. CASE UNCHANGED vars
  BY <1>9 DEF vars, pageVars, callVars
<1> QED
  BY <1>1, <1>2, <1>3, <1>4, <1>5, <1>6, <1>7, <1>8, <1>9 DEF Next, SafetyMemStep

(* Only safety_mem_exit() unloads the module.                              *)
LEMMA OnlyExitUnloads ==
  ASSUME TypeInv, [Next]_vars, loaded, ~loaded'
  PROVE  SafetyMemExit
<1>1. ASSUME NEW c \in Callers, Begin(c) \/ Lock(c) \/ CallStep(c) PROVE FALSE
  BY <1>1 DEF Begin, Lock, CallStep, SetRange, CheckRo, SetDirect, SetVmalloc, SetFlag,
     Store, StoreFaults, ReprotectDirect, ReprotectVmalloc, Unlock
<1>2. CASE ShowStep
  BY <1>2 DEF ShowStep, ReadFlag, ReadVmalloc, ReadPhys, Walk, Report
<1>3. ASSUME NEW a \in Aliases, NEW v \in ForeignValues, ForeignStore(a, v) PROVE FALSE
  BY <1>3 DEF ForeignStore
<1>4. CASE SafetyMemInit \/ SafetyMemInitFails
  BY <1>4 DEF SafetyMemInit, SafetyMemInitFails
<1>5. CASE UNCHANGED vars BY <1>5 DEF vars
<1> QED BY <1>1, <1>2, <1>3, <1>4, <1>5 DEF Next, SafetyMemStep

(***************************************************************************)
(* safety_mem_exit() gives the page back with a read-only direct map only  *)
(* if set_memory_rw() refused it there, if the last set_protection() had   *)
(* returned an error, or if the page has no vmap alias: the flag, which    *)
(* tells of the other alias, is otherwise a safe guide for the direct map  *)
(* too.                                                                    *)
(***************************************************************************)
THEOREM FreedReadOnly == Spec => ReadOnlyFreeExplained
<1>1. Init => ReportedInv
  BY DEF Init, ReportedInv, Aliases
<1>2. TypeInv /\ FlagInv /\ PermInv /\ ReportedInv /\ [Next]_vars => ReportedInv'
  BY NextReported
<1>3. TypeInv /\ ReportedInv /\ [Next]_vars
        => [loaded /\ ~loaded' /\ ~writable'["direct"]
              => "direct" \in dropped' \/ ~lastOk \/ ~vmapped]_vars
  <2> SUFFICES ASSUME TypeInv, ReportedInv, [Next]_vars, loaded, ~loaded',
                      ~writable'["direct"], lastOk, vmapped
               PROVE  "direct" \in dropped'
    OBVIOUS
  <2>1. SafetyMemExit
    BY OnlyExitUnloads
  <2>2. CASE ctxProtected
    <3>1. PICK okD \in DirectOutcomes, okV \in VmallocOutcomes :
            LET done == {a \in Aliases : IF a = "direct" THEN okD ELSE vmapped /\ okV}
            IN  /\ writable' = [a \in Aliases |-> writable[a] \/ a \in done]
                /\ dropped' = {a \in Aliases : IsValid(a)} \ done
      BY <2>1, <2>2 DEF SafetyMemExit, RestoreOnExit
    <3> QED BY <3>1 DEF IsValid, Aliases
  <2>3. CASE ~ctxProtected
    <3>1. writable' = writable /\ \A c \in Callers : pc[c] = "idle"
      BY <2>1, <2>3 DEF SafetyMemExit, RestoreOnExit
    <3> QED BY <2>3, <3>1 DEF ReportedInv, Critical, Labels
  <2> QED BY <2>2, <2>3
<1>4. TypeInv /\ FlagInv /\ [Next]_vars => FlagInv'
  BY NextFlagInv
<1> QED
  BY <1>1, <1>2, <1>3, <1>4, InitTypeInv, NextTypeInv, InitFlagInv, PermInvHolds, PTL
  DEF Spec, ReadOnlyFreeExplained

=============================================================================
