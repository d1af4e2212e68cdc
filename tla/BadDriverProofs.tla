-------------------------- MODULE BadDriverProofs --------------------------
(***************************************************************************)
(* Proofs about BadDriver, for any callers, attackers, values, counter     *)
(* width and outcomes of set_memory_*() and vmap().  A step of bad_driver  *)
(* is a step of SafetyMem, so that what SafetyMemProofs shows of the page  *)
(* holds while it is attacked.                                             *)
(***************************************************************************)
EXTENDS BadDriver, SafetyMemProofs

AttackLabels == {"idle", "target", "mode", "load", "count", "sample", "attack", "result"}

BDTypeInv ==
  /\ BDTypeOK
  /\ apc \in [Attackers -> AttackLabels]
  /\ mode \in [Attackers -> Modes]
  /\ wasLocked \in [Attackers -> BOOLEAN] /\ ret \in [Attackers -> BOOLEAN]
  /\ begun \in Nat
  /\ steady \in [Attackers -> BOOLEAN] /\ met \in [Attackers -> BOOLEAN]

(* bad_driver pins safety_mem, and commands run only while it is loaded.   *)
PinInv ==
  /\ bdLoaded => loaded
  /\ \A w \in Attackers : apc[w] # "idle" => bdLoaded

(* The history says what it is meant to say.                               *)
HistoryInv ==
  \A w \in Attackers :
    /\ steady[w] => apc[w] # "idle" /\ ctxProtected /\ holder = NoOwner
    /\ apc[w] # "idle" /\ holder # NoOwner => met[w]
    /\ wasLocked[w] => apc[w] # "idle" /\ met[w]

(* Protection is only ever reported for a page that has a vmap alias.      *)
FlagHasAlias == loaded /\ ctxProtected => vmapped

(* The general form of SteadyProtectionBlocks: the attack is refused,      *)
(* unless safe_write() dropped a failure to make the alias read-only.      *)
SteadyBlocksUnlessDropped ==
  \A w \in Attackers :
    apc[w] = "result" /\ mode[w] = 1 /\ steady[w] => ~ret[w] \/ "vmalloc" \in dropped

-----------------------------------------------------------------------------
LEMMA InitBDTypeInv == BDInit => BDTypeInv
<1> SUFFICES ASSUME BDInit PROVE BDTypeInv
  OBVIOUS
<1>1. bdLoaded \in BOOLEAN
  BY Zenon DEF BDInit
<1> QED
  BY <1>1, BadDriverAssumption
     DEF BDInit, BDTypeInv, BDTypeOK, AttackLabels, Modes, Results

LEMMA AttackStepTypeInv ==
  ASSUME BDTypeInv, NEW w \in Attackers, AttackStep(w)
  PROVE  BDTypeInv'
<1> USE BadDriverAssumption DEF BDTypeInv, BDTypeOK, AttackLabels, Modes, history
<1>1. CASE SetTarget(w) BY <1>1 DEF SetTarget, Target, Aliases
<1>2. CASE SetMode(w) BY <1>2 DEF SetMode
<1>3. CASE LoadCount(w) BY <1>3 DEF LoadCount
<1>4. CASE StoreCount(w) BY <1>4 DEF StoreCount
<1>5. CASE SampleLock(w) BY <1>5 DEF SampleLock
<1>6. CASE Attack(w) BY <1>6 DEF Attack
<1>7. CASE SetResult(w)
  <2>1. ResultOf(w) \in Results
    BY DEF ResultOf, Results
  <2> QED BY <1>7, <2>1 DEF SetResult
<1> QED BY <1>1, <1>2, <1>3, <1>4, <1>5, <1>6, <1>7 DEF AttackStep

LEMMA NextBDTypeInv == BDTypeInv /\ [BDNext]_bdVars => BDTypeInv'
<1> SUFFICES ASSUME BDTypeInv, [BDNext]_bdVars PROVE BDTypeInv'
  OBVIOUS
<1> USE BadDriverAssumption DEF BDTypeInv, BDTypeOK, attackVars, history
<1>1. CASE PageStep BY <1>1 DEF PageStep
<1>2. CASE BadDriverInit
  <2>1. bdLoaded' \in BOOLEAN
    BY <1>2, Zenon DEF BadDriverInit
  <2> QED BY <1>2, <2>1 DEF BadDriverInit, Results
<1>3. CASE BadDriverExit
  <2>1. bdLoaded' \in BOOLEAN
    BY <1>3, Zenon DEF BadDriverExit
  <2> QED BY <1>3, <2>1 DEF BadDriverExit
<1>4. ASSUME NEW w \in Attackers, NEW m \in Modes, Command(w, m) PROVE BDTypeInv'
  BY <1>4 DEF Command, AttackLabels
<1>5. ASSUME NEW w \in Attackers, AttackStep(w) PROVE BDTypeInv'
  BY <1>5, AttackStepTypeInv
<1>6. CASE UNCHANGED bdVars BY <1>6 DEF bdVars
<1> QED BY <1>1, <1>2, <1>3, <1>4, <1>5, <1>6 DEF BDNext

(* Every step of the composition is one of the page, or leaves it alone.   *)
LEMMA BDStepIsPageStep ==
  ASSUME BDTypeInv, [BDNext]_bdVars
  PROVE  [Next]_vars
<1>1. CASE PageStep BY <1>1 DEF PageStep, Next, SafetyMemStep
<1>2. CASE BadDriverInit \/ BadDriverExit BY <1>2 DEF BadDriverInit, BadDriverExit
<1>3. ASSUME NEW w \in Attackers, NEW m \in Modes, Command(w, m) PROVE UNCHANGED vars
  BY <1>3 DEF Command
<1>4. ASSUME NEW w \in Attackers, Attack(w) PROVE [Next]_vars
  <2>1. Target(mode[w]) \in Aliases /\ BadValue[mode[w]] \in ForeignValues
    BY BadDriverAssumption DEF BDTypeInv, Target, Aliases
  <2> QED BY <1>4, <2>1 DEF Attack, Next
<1>5. ASSUME NEW w \in Attackers, AttackStep(w), ~Attack(w) PROVE UNCHANGED vars
  BY <1>5 DEF AttackStep, SetTarget, SetMode, LoadCount, StoreCount, SampleLock, SetResult
<1>6. CASE UNCHANGED bdVars BY <1>6 DEF bdVars
<1> QED BY <1>1, <1>2, <1>3, <1>4, <1>5, <1>6 DEF BDNext

(***************************************************************************)
(* Attacking through bad_driver adds no behaviour to the safety page: the  *)
(* composition implements SafetyMem, with the attacks as foreign stores,   *)
(* and every theorem about the page holds under attack.                    *)
(***************************************************************************)
THEOREM AttacksRefinePage == BDSpec => Spec
<1>1. BDInit => Init
  BY DEF BDInit
<1>2. BDTypeInv /\ [BDNext]_bdVars => [Next]_vars
  BY BDStepIsPageStep
<1> QED BY <1>1, <1>2, InitBDTypeInv, NextBDTypeInv, PTL DEF BDSpec, Spec

(***************************************************************************)
(* The globals of bad_driver keep their types, also when two commands      *)
(* write them at once: g_attack_count stays below its modulus.             *)
(***************************************************************************)
THEOREM BDTypeCorrect == BDSpec => []BDTypeOK
<1>1. BDTypeInv => BDTypeOK
  BY DEF BDTypeInv
<1> QED BY <1>1, InitBDTypeInv, NextBDTypeInv, PTL DEF BDSpec

-----------------------------------------------------------------------------
(* What a step of safety_mem leaves alone.                                 *)

(* A call past its mutex_lock() owns the mutex; every step of it up to the *)
(* unlock keeps it.                                                        *)
LEMMA CallStepNeedsMutex ==
  ASSUME FlagInv, NEW c \in Callers, CallStep(c)
  PROVE  holder = c
  BY DEF FlagInv, CallsSerialized, Critical, Labels, CallStep, SetRange, CheckRo, SetDirect,
         SetVmalloc, SetFlag, Store, StoreFaults, ReprotectDirect, ReprotectVmalloc, Unlock

LEMMA CallsKeepAlias ==
  ASSUME NEW c \in Callers, Begin(c) \/ Lock(c) \/ CallStep(c)
  PROVE  UNCHANGED <<loaded, vmapped>>
  BY DEF Begin, Lock, CallStep, SetRange, CheckRo, SetDirect, SetVmalloc, SetFlag, Store,
         StoreFaults, ReprotectDirect, ReprotectVmalloc, Unlock, pageVars

(* While an attack is steady, the page's permissions stand still.          *)
LEMMA SteadyPage ==
  ASSUME TypeInv, FlagInv, PinInv, HistoryInv, PageStep, NEW w \in Attackers, steady'[w]
  PROVE  steady[w] /\ UNCHANGED <<loaded, vmapped, writable, dropped, ctxProtected, holder>>
<1>1. steady[w] /\ holder' = NoOwner
  BY DEF PageStep
<1>2. bdLoaded /\ loaded /\ holder = NoOwner
  BY <1>1 DEF PinInv, HistoryInv
<1>3. PICK c \in Callers : Begin(c) \/ Lock(c) \/ CallStep(c)
  BY <1>2 DEF PageStep, SafetyMemInit
<1>4. ~CallStep(c)
  BY <1>2, CallStepNeedsMutex, SafetyMemAssumption
<1>5. ~Lock(c)
  BY <1>1, SafetyMemAssumption DEF Lock
<1> QED BY <1>1, <1>3, <1>4, <1>5 DEF Begin, pageVars

-----------------------------------------------------------------------------
GuardInv == PinInv /\ HistoryInv /\ FlagHasAlias

LEMMA NextFlagHasAlias ==
  ASSUME TypeInv, FlagInv, FlagHasAlias, [Next]_vars
  PROVE  FlagHasAlias'
<1> USE DEF FlagHasAlias
<1>1. CASE SafetyMemInit \/ SafetyMemInitFails \/ SafetyMemExit
  BY <1>1 DEF SafetyMemInit, SafetyMemInitFails, SafetyMemExit
<1>2. ASSUME NEW c \in Callers, SetFlag(c) PROVE FlagHasAlias'
  BY <1>2 DEF SetFlag, IsValid
<1>3. ASSUME NEW c \in Callers, Begin(c) \/ Lock(c) \/ CallStep(c), ~SetFlag(c)
      PROVE  FlagHasAlias'
  <2>1. UNCHANGED <<loaded, vmapped>>
    BY <1>3, CallsKeepAlias
  <2>2. UNCHANGED ctxProtected
    BY <1>3 DEF Begin, Lock, CallStep, SetRange, CheckRo, SetDirect, SetVmalloc, Store,
       StoreFaults, ReprotectDirect, ReprotectVmalloc, Unlock, pageVars
  <2> QED BY <2>1, <2>2
<1>4. CASE ShowStep
  BY <1>4 DEF ShowStep, ReadFlag, ReadVmalloc, ReadPhys, Walk, Report, pageVars
<1>5. ASSUME NEW a \in Aliases, NEW v \in ForeignValues, ForeignStore(a, v)
      PROVE  FlagHasAlias'
  BY <1>5 DEF ForeignStore
<1>6. CASE UNCHANGED vars BY <1>6 DEF vars, pageVars
<1> QED BY <1>1, <1>2, <1>3, <1>4, <1>5, <1>6 DEF Next, SafetyMemStep, CallStep

LEMMA InitGuardInv == BDInit => GuardInv
  BY DEF BDInit, Init, GuardInv, PinInv, HistoryInv, FlagHasAlias

LEMMA NextGuardInv ==
  ASSUME TypeInv, FlagInv, BDTypeInv, GuardInv, [BDNext]_bdVars
  PROVE  GuardInv'
<1>1. FlagHasAlias'
  BY BDStepIsPageStep, NextFlagHasAlias DEF GuardInv
<1>2. PinInv' /\ HistoryInv'
  <2> USE DEF GuardInv, PinInv, HistoryInv, BDTypeInv, BDTypeOK, AttackLabels
  <2>1. CASE PageStep
    <3>1. bdLoaded => loaded'
      BY <2>1, CallsKeepAlias DEF PageStep, SafetyMemInit
    <3> QED BY <2>1, <3>1 DEF PageStep, attackVars
  <2>2. CASE BadDriverInit BY <2>2 DEF BadDriverInit, vars, pageVars, callVars
  <2>3. CASE BadDriverExit
    BY <2>3 DEF BadDriverExit, vars, pageVars, callVars, attackVars, history
  <2>4. ASSUME NEW w \in Attackers, NEW m \in Modes, Command(w, m) PROVE <1>2!:
    BY <2>4 DEF Command, vars, pageVars, callVars
  <2>5. ASSUME NEW w \in Attackers, Attack(w) PROVE <1>2!:
    <3>1. UNCHANGED <<loaded, ctxProtected, holder>>
      BY <2>5 DEF Attack, ForeignStore, vars, pageVars, callVars
    <3> QED BY <2>5, <3>1 DEF Attack, history
  <2>6. ASSUME NEW w \in Attackers, AttackStep(w), ~Attack(w) PROVE <1>2!:
    <3> USE DEF vars, pageVars, callVars, history
    <3>1. CASE SetTarget(w) BY <3>1 DEF SetTarget
    <3>2. CASE SetMode(w) BY <3>2 DEF SetMode
    <3>3. CASE LoadCount(w) BY <3>3 DEF LoadCount
    <3>4. CASE StoreCount(w) BY <3>4 DEF StoreCount
    <3>5. CASE SampleLock(w) BY <3>5 DEF SampleLock
    <3>6. CASE SetResult(w) BY <3>6 DEF SetResult
    <3> QED BY <2>6, <3>1, <3>2, <3>3, <3>4, <3>5, <3>6 DEF AttackStep
  <2>7. CASE UNCHANGED bdVars
    BY <2>7 DEF bdVars, vars, pageVars, callVars, attackVars, history
  <2> QED BY <2>1, <2>2, <2>3, <2>4, <2>5, <2>6, <2>7 DEF BDNext, AttackStep
<1> QED BY <1>1, <1>2 DEF GuardInv

(* In steady protection the vmap alias is there and read-only, or a failed *)
(* set_memory_ro() was dropped.                                            *)
LEMMA SteadyAliasReadOnly ==
  ASSUME TypeInv, FlagInv, GuardInv, NEW w \in Attackers, steady[w]
  PROVE  vmapped /\ (~IsWritable("vmalloc") \/ "vmalloc" \in dropped)
<1>1. loaded /\ ctxProtected /\ holder = NoOwner
  BY DEF GuardInv, PinInv, HistoryInv
<1>2. \A c \in Callers : ~WindowOpen(c)
  BY <1>1, SafetyMemAssumption DEF WindowOpen
<1> QED BY <1>1, <1>2 DEF FlagInv, FlagSound, GuardInv, FlagHasAlias

LEMMA NextSteadyBlocks ==
  ASSUME TypeInv, FlagInv, BDTypeInv, GuardInv, SteadyBlocksUnlessDropped, [BDNext]_bdVars
  PROVE  SteadyBlocksUnlessDropped'
<1> USE DEF SteadyBlocksUnlessDropped, BDTypeInv, AttackLabels
<1>1. CASE PageStep
  <2>1. \A w \in Attackers : steady'[w] => steady[w] /\ dropped' = dropped
    BY <1>1, SteadyPage DEF GuardInv
  <2> QED BY <1>1, <2>1 DEF PageStep, attackVars
<1>2. CASE BadDriverInit BY <1>2 DEF BadDriverInit, vars, pageVars
<1>3. CASE BadDriverExit BY <1>3 DEF BadDriverExit, vars, pageVars, attackVars, history
<1>4. ASSUME NEW w \in Attackers, NEW m \in Modes, Command(w, m)
      PROVE  SteadyBlocksUnlessDropped'
  BY <1>4 DEF Command, vars, pageVars
<1>5. ASSUME NEW w \in Attackers, Attack(w) PROVE SteadyBlocksUnlessDropped'
  <2>1. UNCHANGED dropped
    BY <1>5 DEF Attack, ForeignStore, vars, pageVars
  <2>2. steady[w] /\ mode[w] = 1 => ret'[w] = FALSE \/ "vmalloc" \in dropped
    <3> SUFFICES ASSUME steady[w], mode[w] = 1, "vmalloc" \notin dropped
                 PROVE  ret'[w] = FALSE
      OBVIOUS
    <3>1. Target(mode[w]) = "vmalloc" /\ ~IsWritable("vmalloc")
      BY SteadyAliasReadOnly DEF Target
    <3> QED BY <1>5, <3>1 DEF Attack, ForeignStore
  <2> QED BY <1>5, <2>1, <2>2 DEF Attack, history
<1>6. ASSUME NEW w \in Attackers, AttackStep(w), ~Attack(w)
      PROVE  SteadyBlocksUnlessDropped'
  <2> USE DEF vars, pageVars, history
  <2>1. CASE SetTarget(w) BY <2>1 DEF SetTarget
  <2>2. CASE SetMode(w) BY <2>2 DEF SetMode
  <2>3. CASE LoadCount(w) BY <2>3 DEF LoadCount
  <2>4. CASE StoreCount(w) BY <2>4 DEF StoreCount
  <2>5. CASE SampleLock(w) BY <2>5 DEF SampleLock
  <2>6. CASE SetResult(w) BY <2>6 DEF SetResult
  <2> QED BY <1>6, <2>1, <2>2, <2>3, <2>4, <2>5, <2>6 DEF AttackStep
<1>7. CASE UNCHANGED bdVars BY <1>7 DEF bdVars, vars, pageVars, attackVars, history
<1> QED BY <1>1, <1>2, <1>3, <1>4, <1>5, <1>6, <1>7 DEF BDNext

LEMMA PageInvHolds == BDSpec => [](TypeInv /\ FlagInv)
<1>1. TypeInv /\ FlagInv /\ [Next]_vars => FlagInv'
  BY NextFlagInv
<1> QED
  BY <1>1, InitTypeInv, NextTypeInv, InitFlagInv, AttacksRefinePage, PTL DEF Spec

LEMMA GuardInvHolds == BDSpec => [](BDTypeInv /\ GuardInv)
<1>1. TypeInv /\ FlagInv /\ BDTypeInv /\ GuardInv /\ [BDNext]_bdVars => GuardInv'
  BY NextGuardInv
<1> QED
  BY <1>1, InitBDTypeInv, NextBDTypeInv, InitGuardInv, PageInvHolds, PTL DEF BDSpec

(***************************************************************************)
(* While is_protected() reports TRUE and safety_mutex stays free, a write  *)
(* through the vmap alias is refused, whatever set_memory_*() and vmap()   *)
(* return, unless safe_write() dropped a failure to close its window.      *)
(***************************************************************************)
THEOREM SteadyBlocks == BDSpec => []SteadyBlocksUnlessDropped
<1>1. BDInit => SteadyBlocksUnlessDropped
  BY DEF BDInit, SteadyBlocksUnlessDropped
<1>2. /\ TypeInv /\ FlagInv /\ BDTypeInv /\ GuardInv
      /\ SteadyBlocksUnlessDropped /\ [BDNext]_bdVars
      => SteadyBlocksUnlessDropped'
  BY NextSteadyBlocks
<1> QED BY <1>1, <1>2, PageInvHolds, GuardInvHolds, PTL DEF BDSpec

(***************************************************************************)
(* On arm64, where set_memory_*() serves the vmap alias, the exception     *)
(* does not arise: what Scenario F relies on holds for any number of       *)
(* callers and attackers.                                                  *)
(***************************************************************************)
THEOREM SteadyBlocksArm64 ==
  ASSUME VmallocOutcomes = {TRUE}
  PROVE  BDSpec => []SteadyProtectionBlocks
<1>1. Init => VmallocServed
  BY DEF Init, VmallocServed
<1>2. VmallocServed /\ [Next]_vars => VmallocServed'
  BY NextVmallocServed
<1>3. VmallocServed /\ SteadyBlocksUnlessDropped => SteadyProtectionBlocks
  BY DEF VmallocServed, SteadyBlocksUnlessDropped, SteadyProtectionBlocks
<1> QED BY <1>1, <1>2, <1>3, AttacksRefinePage, SteadyBlocks, PTL DEF Spec

(***************************************************************************)
(* MUTEX_BYPASS_RACE is only ever reported for an attack during which      *)
(* safety_mutex was owned, however stale the sample is by then.            *)
(***************************************************************************)
THEOREM RaceReportCorrect == BDSpec => []RaceReportSound
<1>1. BDTypeInv /\ GuardInv => RaceReportSound
  <2> SUFFICES ASSUME BDTypeInv, GuardInv, NEW w \in Attackers,
                      ResultOf(w) = "MUTEX_BYPASS_RACE"
               PROVE  met[w]
    BY DEF RaceReportSound
  <2>1. wasLocked[w]
    BY DEF ResultOf, BDTypeInv
  <2> QED BY <2>1 DEF GuardInv, HistoryInv
<1> QED BY <1>1, GuardInvHolds, PTL

-----------------------------------------------------------------------------
(* What /proc/bad_driver_ts reports.                                       *)

(* As long as no two commands have overlapped, there is one attack at      *)
(* most, and the globals have followed it: the counter is one behind until *)
(* it has been stored, the target and the mode are its own once set.       *)
Idle == \A w \in Attackers : apc[w] = "idle"

AttackProgress(w) ==
  /\ begun > 0
  /\ apc[w] \in {"target", "mode", "load", "count"} => count = (begun - 1) % CounterMod
  /\ apc[w] \in {"sample", "attack", "result"} => count = begun % CounterMod
  /\ apc[w] = "count" => loadedCnt[w] = count
  /\ apc[w] # "target" => last.target = Target(mode[w])
  /\ apc[w] \notin {"target", "mode"} => last.mode = mode[w]

ReportInv ==
  alone =>
    /\ \A w, x \in Attackers : apc[w] # "idle" /\ apc[x] # "idle" => w = x
    /\ \A w \in Attackers : apc[w] # "idle" => AttackProgress(w)
    /\ Idle /\ bdLoaded => count = begun % CounterMod
    /\ ReportDescribesOneAttack

(* Division with remainder, for a divisor that is not a literal.           *)
LEMMA DivMod ==
  ASSUME NEW M \in Nat \ {0}, NEW x \in Nat
  PROVE  x \div M \in Nat /\ x % M \in 0 .. M - 1 /\ x = M * (x \div M) + (x % M)
  OBVIOUS

LEMMA RemainderUnique ==
  ASSUME NEW M \in Nat \ {0}, NEW q \in Nat, NEW r \in 0 .. M - 1,
         NEW s \in Nat, NEW t \in 0 .. M - 1, M * q + r = M * s + t
  PROVE  r = t
<1>1. CASE q = s BY <1>1
<1>2. CASE q > s
  <2>1. PICK d \in Nat : q = s + 1 + d
    <3>1. q - s - 1 \in Nat /\ q = s + 1 + (q - s - 1)
      BY <1>2
    <3> QED BY <3>1
  <2>2. M * q = M * s + M + M * d /\ M * d >= 0
    BY <2>1
  <2> QED BY <2>2
<1>3. CASE s > q
  <2>1. PICK d \in Nat : s = q + 1 + d
    <3>1. s - q - 1 \in Nat /\ s = q + 1 + (s - q - 1)
      BY <1>3
    <3> QED BY <3>1
  <2>2. M * s = M * q + M + M * d /\ M * d >= 0
    BY <2>1
  <2> QED BY <2>2
<1> QED BY <1>1, <1>2, <1>3

(* Incrementing a wrapped counter counts modulo its width.                 *)
LEMMA WrappedIncrement ==
  ASSUME NEW M \in Nat \ {0}, NEW n \in Nat \ {0}
  PROVE  (((n - 1) % M) + 1) % M = n % M
<1>1. n - 1 \in Nat
  OBVIOUS
<1>2. PICK q \in Nat, r \in 0 .. M - 1 : n - 1 = M * q + r /\ r = (n - 1) % M
  BY <1>1, DivMod
<1>3. PICK s \in Nat, t \in 0 .. M - 1 : n = M * s + t /\ t = n % M
  BY DivMod
<1>4. CASE r + 1 < M
  <2>1. r + 1 \in 0 .. M - 1 /\ M * q + (r + 1) = M * s + t
    BY <1>2, <1>3, <1>4
  <2>2. t = r + 1
    BY <2>1, RemainderUnique
  <2>3. (r + 1) % M = r + 1
    BY <1>4
  <2> QED BY <1>2, <1>3, <2>2, <2>3
<1>5. CASE r + 1 = M
  <2>1. q + 1 \in Nat /\ 0 \in 0 .. M - 1 /\ M * (q + 1) + 0 = M * s + t
    BY <1>2, <1>3, <1>5
  <2>2. t = 0
    BY <2>1, RemainderUnique
  <2>3. (r + 1) % M = 0
    BY <1>5
  <2> QED BY <1>2, <1>3, <2>2, <2>3
<1> QED BY <1>4, <1>5

LEMMA InitReportInv == BDInit => ReportInv
  BY BadDriverAssumption DEF BDInit, ReportInv, ReportDescribesOneAttack

(* The result that is reported fits the mode.                              *)
LEMMA ResultFitsMode ==
  ASSUME BDTypeInv, NEW w \in Attackers
  PROVE  /\ ResultOf(w) = "SUCCESS_BYPASS" => mode[w] = 3
         /\ ResultOf(w) = "MUTEX_BYPASS_RACE" => mode[w] = 2
         /\ ResultOf(w) = "SUCCESS_UNPROTECTED" => mode[w] \in {1, 2}
<1>1. mode[w] \in {1, 2, 3} /\ ret[w] \in BOOLEAN
  BY DEF BDTypeInv, Modes
<1>2. CASE ret[w] = FALSE BY <1>2 DEF ResultOf
<1>3. CASE ret[w] = TRUE /\ mode[w] = 3 BY <1>3 DEF ResultOf
<1>4. CASE ret[w] = TRUE /\ mode[w] = 2 BY <1>4 DEF ResultOf
<1>5. CASE ret[w] = TRUE /\ mode[w] = 1 BY <1>5 DEF ResultOf
<1> QED BY <1>1, <1>2, <1>3, <1>4, <1>5

LEMMA AttackStepReportInv ==
  ASSUME BDTypeInv, PinInv, ReportInv, NEW w \in Attackers, AttackStep(w)
  PROVE  ReportInv'
<1> SUFFICES ASSUME alone' PROVE ReportInv'
  BY DEF ReportInv
<1>1. alone /\ UNCHANGED <<begun, vmapped, bdLoaded>>
  BY DEF AttackStep, SetTarget, SetMode, LoadCount, StoreCount, SampleLock, Attack,
     SetResult, ForeignStore, history, vars, pageVars
<1>2. apc[w] # "idle" /\ \A x \in Attackers : x # w => apc[x] = "idle"
  BY <1>1 DEF ReportInv, AttackStep, SetTarget, SetMode, LoadCount, StoreCount, SampleLock,
     Attack, SetResult
<1>3. AttackProgress(w)
  BY <1>1, <1>2 DEF ReportInv
<1>4. ASSUME apc'[w] # "idle", AttackProgress(w)',
             \A x \in Attackers : x # w => apc'[x] = "idle"
      PROVE  ReportInv'
  BY <1>4 DEF ReportInv, Idle, ReportDescribesOneAttack
<1> USE <1>1, <1>2, <1>3 DEF BDTypeInv, BDTypeOK, AttackLabels, AttackProgress, Target
<1>5. CASE SetTarget(w) BY <1>4, <1>5 DEF SetTarget
<1>6. CASE SetMode(w) BY <1>4, <1>6 DEF SetMode
<1>7. CASE LoadCount(w) BY <1>4, <1>7 DEF LoadCount
<1>8. CASE StoreCount(w)
  <2>1. count' = begun % CounterMod
    <3>1. begun \in Nat \ {0} /\ CounterMod \in Nat \ {0}
      BY BadDriverAssumption
    <3>2. count' = (((begun - 1) % CounterMod) + 1) % CounterMod
      BY <1>8 DEF StoreCount
    <3> QED BY <3>1, <3>2, WrappedIncrement
  <2> QED BY <1>4, <1>8, <2>1 DEF StoreCount
<1>9. CASE SampleLock(w) BY <1>4, <1>9 DEF SampleLock
<1>10. CASE Attack(w) BY <1>4, <1>10 DEF Attack
<1>11. CASE SetResult(w)
  <2>1. Idle'
    BY <1>11 DEF SetResult, Idle
  <2>2. /\ last'.result = ResultOf(w) /\ last'.mode = mode[w]
        /\ last'.target = Target(mode[w]) /\ count' = begun % CounterMod
    BY <1>11 DEF SetResult
  <2>3. ReportDescribesOneAttack'
    BY <2>2, ResultFitsMode DEF ReportDescribesOneAttack
  <2> QED BY <2>1, <2>2, <2>3 DEF ReportInv, Idle
<1> QED BY <1>5, <1>6, <1>7, <1>8, <1>9, <1>10, <1>11 DEF AttackStep

LEMMA NextReportInv ==
  ASSUME BDTypeInv, GuardInv, ReportInv, [BDNext]_bdVars
  PROVE  ReportInv'
<1>1. CASE PageStep
  <2>1. bdLoaded => vmapped' = vmapped
    BY <1>1, CallsKeepAlias DEF PageStep, GuardInv, PinInv, SafetyMemInit
  <2>2. UNCHANGED <<bdLoaded, attackVars, begun, alone>>
    BY <1>1 DEF PageStep
  <2> QED BY <2>1, <2>2 DEF ReportInv, AttackProgress, ReportDescribesOneAttack, Idle, Target,
     attackVars, GuardInv, PinInv
<1>2. CASE BadDriverInit
  <2>1. Idle'
    BY <1>2 DEF BadDriverInit, GuardInv, PinInv, Idle
  <2>2. count' = 0 /\ begun' = 0
    BY <1>2 DEF BadDriverInit
  <2> QED BY <2>1, <2>2, BadDriverAssumption DEF ReportInv, Idle, ReportDescribesOneAttack
<1>3. CASE BadDriverExit
  BY <1>3 DEF BadDriverExit, ReportInv, AttackProgress, Idle, ReportDescribesOneAttack,
     attackVars, history
<1>4. ASSUME NEW w \in Attackers, NEW m \in Modes, Command(w, m) PROVE ReportInv'
  <2> SUFFICES ASSUME alone' PROVE ReportInv'
    BY DEF ReportInv
  <2>1. alone /\ Idle /\ bdLoaded
    BY <1>4 DEF Command, Idle
  <2>2. count' = (begun' - 1) % CounterMod /\ begun' > 0
    BY <1>4, <2>1 DEF Command, ReportInv, BDTypeInv
  <2>3. apc'[w] = "target" /\ \A x \in Attackers : x # w => apc'[x] = "idle"
    BY <1>4, <2>1 DEF Command, Idle, BDTypeInv
  <2> QED BY <2>2, <2>3 DEF ReportInv, AttackProgress, Idle, ReportDescribesOneAttack
<1>5. ASSUME NEW w \in Attackers, AttackStep(w) PROVE ReportInv'
  BY <1>5, AttackStepReportInv DEF GuardInv
<1>6. CASE UNCHANGED bdVars
  BY <1>6 DEF bdVars, vars, pageVars, attackVars, history, ReportInv, AttackProgress, Idle,
     ReportDescribesOneAttack, Target
<1> QED BY <1>1, <1>2, <1>3, <1>4, <1>5, <1>6 DEF BDNext

(***************************************************************************)
(* /proc/bad_driver_ts describes one attack and counts all of them, modulo *)
(* the width of g_attack_count, as long as commands do not overlap.        *)
(***************************************************************************)
THEOREM ReportCorrect == BDSpec => []ReportDescribesOneAttack
<1>1. BDTypeInv /\ GuardInv /\ ReportInv /\ [BDNext]_bdVars => ReportInv'
  BY NextReportInv
<1>2. ReportInv => ReportDescribesOneAttack
  BY DEF ReportInv, ReportDescribesOneAttack
<1> QED BY <1>1, <1>2, InitReportInv, GuardInvHolds, PTL DEF BDSpec

=============================================================================
