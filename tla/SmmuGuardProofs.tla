-------------------------- MODULE SmmuGuardProofs --------------------------
(***************************************************************************)
(* Proofs about SmmuGuard and the LogRing in it, for any contexts, records *)
(* and capacity: the reader's snapshot, the teardown of the module and the *)
(* refinement of BoundedLog.                                               *)
(***************************************************************************)
EXTENDS SmmuGuard, SequenceTheorems, TLAPS

(* The labels between spin_lock_irqsave(&log_lock) and its unlock.         *)
Locking == {"fill", "advance", "logUnlock", "copy"}

Stages == {"unloaded", "domain", "attach", "proc", "publish", "live", "removeProc",
           "detach", "free", "unregister"}

SGTypeOK ==
  /\ TypeOK
  /\ stage \in Stages
  /\ pdev \in BOOLEAN /\ domain \in BOOLEAN /\ attached \in BOOLEAN
  /\ procFile \in BOOLEAN /\ active \in BOOLEAN

(* log_lock excludes: only its holder is between its lock and its unlock.  *)
LockInv ==
  /\ \A c \in Contexts : pc[c] \in Locking => lock = {c}
  /\ lock # {} => \E c \in Contexts : pc[c] \in Locking

(* The first count slots were written, and until the ring is full the next *)
(* one is slot count; a handler about to advance has written its slot.     *)
RingInv ==
  /\ count < Capacity => head = count
  /\ \A i \in Slots : i < count => ring[i] # Blank
  /\ \A c \in Contexts : pc[c] \in {"logSpin", "fill", "advance"} => entry[c] \in Entries
  /\ \A c \in Contexts : pc[c] = "advance" => ring[head] \in Entries

(* A reader has copied a prefix of the log it found, which cannot change   *)
(* while it holds the lock.                                                *)
SnapInv ==
  \A c \in Contexts :
    /\ pc[c] \notin {"copy", "print"} => snapshot[c] = <<>>
    /\ pc[c] = "copy" =>
         /\ total[c] = count
         /\ seen[c] = Contents(ring, head, count)
         /\ Len(snapshot[c]) <= count
         /\ \A i \in 1 .. Len(snapshot[c]) : snapshot[c][i] = seen[c][i]

(* What exists at each stage of the init and of the exit, and that the     *)
(* fault handlers and the readers run only while they may.                 *)
StageInv ==
  /\ \A c \in Contexts : /\ pc[c] \in Showing => procFile
                         /\ pc[c] \in Logging => attached
  /\ attached => domain /\ pdev
                 /\ stage \in {"proc", "publish", "live", "removeProc", "detach"}
  /\ procFile => stage \in {"publish", "live", "removeProc"}
  /\ active => stage = "live"
  /\ stage = "unloaded" => ~pdev
  /\ stage \in {"unloaded", "domain", "unregister"} => ~domain
  /\ stage = "attach" => domain /\ pdev

-----------------------------------------------------------------------------
(* The slots of the ring.                                                  *)

LEMMA SlotRange ==
  ASSUME NEW h \in Slots, NEW n \in 0 .. Capacity, NEW i \in 0 .. n - 1
  PROVE  SlotOf(h, n, i) \in Slots /\ (n < Capacity => SlotOf(h, n, i) = i)
  BY LogRingAssumption DEF Slots, SlotOf

LEMMA FullRingSlot ==
  ASSUME NEW h \in Slots, NEW i \in Slots
  PROVE  SlotOf(h, Capacity, i) = IF h + i < Capacity THEN h + i ELSE h + i - Capacity
  BY LogRingAssumption DEF Slots, SlotOf

LEMMA ContentsIsLog ==
  ASSUME NEW r \in [Slots -> Entries \cup {Blank}], NEW h \in Slots, NEW n \in 0 .. Capacity
  PROVE  /\ Contents(r, h, n) \in Seq(Entries \cup {Blank})
         /\ Len(Contents(r, h, n)) = n
         /\ \A i \in 1 .. n : Contents(r, h, n)[i] = r[SlotOf(h, n, i - 1)]
<1>1. \A i \in 1 .. n : r[SlotOf(h, n, i - 1)] \in Entries \cup {Blank}
  BY SlotRange, LogRingAssumption
<1> QED BY <1>1, LogRingAssumption DEF Contents

LEMMA HeadAdvances ==
  ASSUME NEW h \in Slots, NEW n \in 0 .. Capacity
  PROVE  /\ NextHead(h) = IF h + 1 < Capacity THEN h + 1 ELSE 0
         /\ NextHead(h) \in Slots /\ NextCount(n) \in 0 .. Capacity
  BY LogRingAssumption DEF Slots, NextHead, NextCount

-----------------------------------------------------------------------------
LEMMA InitSGTypeOK == SGInit => SGTypeOK
<1> SUFFICES ASSUME SGInit PROVE SGTypeOK
  OBVIOUS
<1>1. TypeOK
  BY LogRingAssumption DEF SGInit, Init, TypeOK, Slots
<1>2. /\ pdev \in BOOLEAN /\ domain \in BOOLEAN /\ attached \in BOOLEAN
      /\ procFile \in BOOLEAN /\ active \in BOOLEAN
  BY Zenon DEF SGInit
<1> QED BY <1>1, <1>2 DEF SGInit, SGTypeOK, Stages

LEMMA StepTypeOK ==
  ASSUME TypeOK, SnapInv, NEW c \in Contexts, Step(c)
  PROVE  TypeOK'
<1> USE DEF TypeOK, Goto
<1>1. CASE LogLock(c) BY <1>1 DEF LogLock
<1>2. CASE LogFill(c) BY <1>2 DEF LogFill
<1>3. CASE LogAdvance(c) BY <1>3, HeadAdvances DEF LogAdvance
<1>4. CASE LogUnlock(c) BY <1>4 DEF LogUnlock
<1>5. CASE ShowLock(c)
  <2>1. Contents(ring, head, count) \in Seq(Entries \cup {Blank})
    BY ContentsIsLog
  <2> QED BY <1>5, <2>1 DEF ShowLock
<1>6. CASE ShowCopy(c)
  <2>1. Len(snapshot[c]) \in 0 .. count - 1
    BY <1>6 DEF ShowCopy, SnapInv
  <2>2. ring[SlotOf(head, count, Len(snapshot[c]))] \in Entries \cup {Blank}
    BY <2>1, SlotRange
  <2> QED BY <1>6, <2>2 DEF ShowCopy
<1>7. CASE ShowUnlock(c) BY <1>7 DEF ShowUnlock
<1>8. CASE ShowPrint(c) BY <1>8, LogRingAssumption DEF ShowPrint
<1> QED BY <1>1, <1>2, <1>3, <1>4, <1>5, <1>6, <1>7, <1>8 DEF Step

LEMMA StepLockInv ==
  ASSUME TypeOK, LockInv, NEW c \in Contexts, Step(c)
  PROVE  LockInv'
<1> USE DEF TypeOK, LockInv, Locking, Goto
<1>1. CASE LogLock(c) BY <1>1 DEF LogLock
<1>2. CASE LogFill(c) BY <1>2 DEF LogFill
<1>3. CASE LogAdvance(c) BY <1>3 DEF LogAdvance
<1>4. CASE LogUnlock(c) BY <1>4 DEF LogUnlock
<1>5. CASE ShowLock(c) BY <1>5 DEF ShowLock
<1>6. CASE ShowCopy(c) BY <1>6 DEF ShowCopy
<1>7. CASE ShowUnlock(c) BY <1>7 DEF ShowUnlock
<1>8. CASE ShowPrint(c) BY <1>8 DEF ShowPrint
<1> QED BY <1>1, <1>2, <1>3, <1>4, <1>5, <1>6, <1>7, <1>8 DEF Step

LEMMA StepRingInv ==
  ASSUME TypeOK, LockInv, RingInv, NEW c \in Contexts, Step(c)
  PROVE  RingInv'
<1> USE LogRingAssumption DEF TypeOK, LockInv, Locking, RingInv, Slots, Goto
<1>1. CASE LogLock(c) BY <1>1 DEF LogLock
<1>2. CASE LogFill(c) BY <1>2 DEF LogFill
<1>3. CASE LogAdvance(c)
  <2>1. NextHead(head) = IF head + 1 < Capacity THEN head + 1 ELSE 0
    BY HeadAdvances
  <2>2. \A d \in Contexts : pc'[d] # "advance"
    BY <1>3 DEF LogAdvance
  <2>3. count' < Capacity => head' = count'
    BY <1>3, <2>1 DEF LogAdvance, NextCount
  <2>4. \A i \in Slots : i < count' => ring'[i] # Blank
    <3>1. ring[head] # Blank /\ ring' = ring
      BY <1>3 DEF LogAdvance
    <3>2. \A i \in Slots : i < count' => i < count \/ (count < Capacity /\ i = count)
      BY <1>3 DEF LogAdvance, NextCount
    <3> QED BY <3>1, <3>2
  <2> QED BY <1>3, <2>2, <2>3, <2>4 DEF LogAdvance
<1>4. CASE LogUnlock(c) BY <1>4 DEF LogUnlock
<1>5. CASE ShowLock(c) BY <1>5 DEF ShowLock
<1>6. CASE ShowCopy(c) BY <1>6 DEF ShowCopy
<1>7. CASE ShowUnlock(c) BY <1>7 DEF ShowUnlock
<1>8. CASE ShowPrint(c) BY <1>8 DEF ShowPrint
<1> QED BY <1>1, <1>2, <1>3, <1>4, <1>5, <1>6, <1>7, <1>8 DEF Step

(* Entries of a log are never blank.                                       *)
LEMMA LogNotBlank ==
  ASSUME TypeOK, RingInv
  PROVE  \A i \in 1 .. count : Contents(ring, head, count)[i] # Blank
<1> SUFFICES ASSUME NEW i \in 1 .. count
             PROVE  Contents(ring, head, count)[i] # Blank
  OBVIOUS
<1>1. Contents(ring, head, count)[i] = ring[SlotOf(head, count, i - 1)]
  BY ContentsIsLog DEF TypeOK
<1>2. i - 1 \in 0 .. count - 1 /\ head \in Slots /\ count \in 0 .. Capacity
  BY DEF TypeOK
<1>3. SlotOf(head, count, i - 1) \in Slots
  BY <1>2, SlotRange
<1>4. SlotOf(head, count, i - 1) < count
  BY <1>2, <1>3, SlotRange, LogRingAssumption DEF Slots
<1> QED BY <1>1, <1>3, <1>4 DEF RingInv

(* ShowUnlock: a copy as long as the log is the log.                       *)
LEMMA CopyComplete ==
  ASSUME TypeOK, SnapInv, NEW c \in Contexts, pc[c] = "copy", Len(snapshot[c]) = total[c]
  PROVE  snapshot[c] = seen[c]
<1>1. seen[c] \in Seq(Entries \cup {Blank}) /\ snapshot[c] \in Seq(Entries \cup {Blank})
  BY DEF TypeOK
<1>2. Len(Contents(ring, head, count)) = count
  BY ContentsIsLog DEF TypeOK
<1>3. Len(seen[c]) = Len(snapshot[c])
  BY <1>2 DEF SnapInv
<1>4. \A i \in 1 .. Len(snapshot[c]) : snapshot[c][i] = seen[c][i]
  BY DEF SnapInv
<1> QED BY <1>1, <1>3, <1>4, SeqEqual

LEMMA LockExcludes ==
  ASSUME LockInv, NEW c \in Contexts, NEW d \in Contexts,
         pc[c] \in Locking, pc[d] \in Locking
  PROVE  c = d
  BY DEF LockInv

(* One step of a context keeps the copies of the readers: whoever writes   *)
(* the ring holds the lock, and then nobody is copying.                    *)
LEMMA StepSnapInv ==
  ASSUME TypeOK, LockInv, RingInv, SnapInv, SnapshotAtomic, NEW c \in Contexts, Step(c)
  PROVE  SnapInv' /\ SnapshotAtomic'
<1> USE DEF TypeOK, LockInv, Locking, SnapInv, SnapshotAtomic, Goto
<1>1. CASE LogLock(c) BY <1>1 DEF LogLock
<1>2. CASE LogFill(c)
  <2>1. \A d \in Contexts : pc[d] # "copy"
    BY <1>2, LockExcludes DEF LogFill
  <2>2. \A d \in Contexts : pc'[d] # "copy"
    BY <1>2, <2>1 DEF LogFill
  <2> QED BY <1>2, <2>1, <2>2 DEF LogFill
<1>3. CASE LogAdvance(c)
  <2>1. \A d \in Contexts : pc[d] # "copy"
    BY <1>3, LockExcludes DEF LogAdvance
  <2>2. \A d \in Contexts : pc'[d] # "copy"
    BY <1>3, <2>1 DEF LogAdvance
  <2> QED BY <1>3, <2>1, <2>2 DEF LogAdvance
<1>4. CASE LogUnlock(c) BY <1>4 DEF LogUnlock
<1>5. CASE ShowLock(c)
  <2>1. \A d \in Contexts : pc[d] # "copy"
    BY <1>5 DEF ShowLock
  <2>2. snapshot[c] = <<>> /\ snapshot'[c] = <<>>
    BY <1>5 DEF ShowLock
  <2> QED BY <1>5, <2>1, <2>2, LogRingAssumption DEF ShowLock
<1>6. CASE ShowCopy(c)
  <2> DEFINE n == Len(snapshot[c])
  <2>1. n \in 0 .. count - 1 /\ total[c] = count /\ seen[c] = Contents(ring, head, count)
    BY <1>6 DEF ShowCopy
  <2>2. seen[c][n + 1] = ring[SlotOf(head, count, n)]
    <3>1. n + 1 \in 1 .. count /\ (n + 1) - 1 = n
      BY <2>1
    <3>2. \A i \in 1 .. count :
            Contents(ring, head, count)[i] = ring[SlotOf(head, count, i - 1)]
      BY ContentsIsLog
    <3> QED BY <2>1, <3>1, <3>2
  <2>3. ring[SlotOf(head, count, n)] \in Entries \cup {Blank}
    BY <2>1, SlotRange
  <2>4. /\ snapshot'[c] = Append(snapshot[c], ring[SlotOf(head, count, n)])
        /\ \A d \in Contexts : d # c => snapshot'[d] = snapshot[d]
        /\ UNCHANGED <<ring, head, count, lock, pc, entry, total, seen>>
    BY <1>6 DEF ShowCopy
  <2>5. Len(snapshot'[c]) = n + 1
    BY <2>3, <2>4
  <2>6. \A i \in 1 .. n + 1 : snapshot'[c][i] = seen[c][i]
    <3>1. \A i \in 1 .. n : snapshot'[c][i] = snapshot[c][i]
      BY <2>3, <2>4
    <3>2. snapshot'[c][n + 1] = ring[SlotOf(head, count, n)]
      BY <2>3, <2>4
    <3> QED BY <1>6, <2>1, <2>2, <3>1, <3>2 DEF ShowCopy
  <2> HIDE DEF n
  <2> QED BY <1>6, <2>1, <2>4, <2>5, <2>6 DEF ShowCopy
<1>7. CASE ShowUnlock(c)
  <2>1. snapshot[c] = seen[c]
    BY <1>7, CopyComplete DEF ShowUnlock
  <2>2. \A i \in 1 .. Len(snapshot[c]) : snapshot[c][i] # Blank
    BY <1>7, <2>1, LogNotBlank DEF ShowUnlock
  <2> QED BY <1>7, <2>1, <2>2 DEF ShowUnlock
<1>8. CASE ShowPrint(c) BY <1>8 DEF ShowPrint
<1> QED BY <1>1, <1>2, <1>3, <1>4, <1>5, <1>6, <1>7, <1>8 DEF Step

-----------------------------------------------------------------------------
(* The ring in the life of the module.                                     *)

LogInv == LockInv /\ RingInv /\ SnapInv /\ SnapshotAtomic

SGInv == SGTypeOK /\ LogInv /\ StageInv

LEMMA InitSGInv == SGInit => SGInv
<1> SUFFICES ASSUME SGInit PROVE SGInv
  OBVIOUS
<1>1. LogInv
  BY LogRingAssumption
     DEF SGInit, Init, LogInv, LockInv, Locking, RingInv, SnapInv, SnapshotAtomic, Slots
<1>2. StageInv
  BY DEF SGInit, Init, StageInv, Showing, Logging
<1> QED BY <1>1, <1>2, InitSGTypeOK DEF SGInv

(* The steps of smmu_guard_init() and smmu_guard_exit() that keep the log. *)
DeviceStep ==
  \/ RegisterDevice \/ AllocDomain \/ Attach \/ CreateProc \/ CreateProcFails
  \/ Publish \/ Withdraw \/ RemoveProc \/ Detach \/ FreeDomain

LEMMA DeviceStepKeepsLog ==
  ASSUME DeviceStep
  PROVE  UNCHANGED vars
  BY DEF DeviceStep, RegisterDevice, AllocDomain, Attach, CreateProc, CreateProcFails,
         Publish, Withdraw, RemoveProc, Detach, FreeDomain

LEMMA SameLog ==
  ASSUME UNCHANGED vars
  PROVE  (TypeOK => TypeOK') /\ (LogInv => LogInv')
<1>1. TypeOK => TypeOK'
  BY DEF vars, TypeOK
<1>2. LogInv => LogInv'
  BY DEF vars, LogInv, LockInv, RingInv, SnapInv, SnapshotAtomic
<1> QED BY <1>1, <1>2

LEMMA DeviceStepInv ==
  ASSUME SGInv, DeviceStep
  PROVE  SGInv'
<1>1. UNCHANGED vars
  BY DeviceStepKeepsLog
<1>2. TypeOK' /\ LogInv'
  BY <1>1, SameLog DEF SGInv, SGTypeOK
<1>3. /\ stage' \in Stages
      /\ pdev' \in BOOLEAN /\ domain' \in BOOLEAN /\ attached' \in BOOLEAN
      /\ procFile' \in BOOLEAN /\ active' \in BOOLEAN
  <2> USE DEF SGInv, SGTypeOK, Stages
  <2>1. CASE RegisterDevice BY <2>1 DEF RegisterDevice
  <2>2. CASE AllocDomain BY <2>2 DEF AllocDomain
  <2>3. CASE Attach BY <2>3 DEF Attach
  <2>4. CASE CreateProc \/ CreateProcFails BY <2>4 DEF CreateProc, CreateProcFails
  <2>5. CASE Publish \/ Withdraw BY <2>5 DEF Publish, Withdraw
  <2>6. CASE RemoveProc \/ Detach \/ FreeDomain BY <2>6 DEF RemoveProc, Detach, FreeDomain
  <2> QED BY <2>1, <2>2, <2>3, <2>4, <2>5, <2>6 DEF DeviceStep
<1>4. StageInv'
  <2> USE <1>1 DEF SGInv, SGTypeOK, Stages, TypeOK, vars, StageInv, Showing, Logging
  <2>1. CASE RegisterDevice BY <2>1 DEF RegisterDevice
  <2>2. CASE AllocDomain BY <2>2 DEF AllocDomain
  <2>3. CASE Attach BY <2>3 DEF Attach
  <2>4. CASE CreateProc BY <2>4 DEF CreateProc
  <2>5. CASE CreateProcFails BY <2>5 DEF CreateProcFails
  <2>6. CASE Publish \/ Withdraw BY <2>6 DEF Publish, Withdraw
  <2>7. CASE RemoveProc BY <2>7 DEF RemoveProc
  <2>8. CASE Detach BY <2>8 DEF Detach
  <2>9. CASE FreeDomain BY <2>9 DEF FreeDomain
  <2> QED BY <2>1, <2>2, <2>3, <2>4, <2>5, <2>6, <2>7, <2>8, <2>9 DEF DeviceStep
<1> QED BY <1>2, <1>3, <1>4 DEF SGInv, SGTypeOK

(* By the time the module's memory goes nobody is in the log.              *)
LEMMA QuietWhenUnloading ==
  ASSUME SGInv, stage \in {"unregister", "unloaded"}
  PROVE  lock = {} /\ \A c \in Contexts : pc[c] = "idle"
<1>1. \A c \in Contexts : pc[c] = "idle"
  BY DEF SGInv, SGTypeOK, TypeOK, StageInv, Showing, Logging
<1> QED BY <1>1 DEF SGInv, LogInv, LockInv, Locking

LEMMA UnregisterInv ==
  ASSUME SGInv, UnregisterDevice
  PROVE  SGInv'
<1>1. lock = {} /\ \A c \in Contexts : pc[c] = "idle"
  BY QuietWhenUnloading DEF UnregisterDevice
<1>2. TypeOK'
  BY LogRingAssumption DEF SGInv, SGTypeOK, TypeOK, UnregisterDevice, Slots
<1>3. /\ pdev' \in BOOLEAN /\ domain' \in BOOLEAN /\ attached' \in BOOLEAN
      /\ procFile' \in BOOLEAN /\ active' \in BOOLEAN /\ stage' \in Stages
  BY DEF SGInv, SGTypeOK, UnregisterDevice, Stages
<1>4. LogInv'
  BY <1>1, LogRingAssumption
     DEF SGInv, LogInv, LockInv, Locking, RingInv, SnapInv, SnapshotAtomic, UnregisterDevice,
         Slots
<1>5. StageInv'
  BY <1>1 DEF SGInv, StageInv, UnregisterDevice, Showing, Logging
<1> QED BY <1>2, <1>3, <1>4, <1>5 DEF SGInv, SGTypeOK

LEMMA ContextStepInv ==
  ASSUME SGInv, NEW c \in Contexts,
         (\E t \in Entries : BlockedDma(c, t)) \/ OpenLog(c) \/ LogStep(c)
  PROVE  SGInv'
<1> USE DEF SGInv, SGTypeOK, devVars
<1>1. ASSUME NEW t \in Entries, BlockedDma(c, t) PROVE SGInv'
  <2> USE <1>1 DEF BlockedDma, LogBegin, Goto
  <2>1. TypeOK'
    BY DEF TypeOK
  <2>2. LogInv'
    BY DEF TypeOK, LogInv, LockInv, Locking, RingInv, SnapInv, SnapshotAtomic
  <2>3. StageInv'
    BY DEF TypeOK, StageInv, Showing, Logging
  <2> QED BY <2>1, <2>2, <2>3
<1>2. CASE OpenLog(c)
  <2> USE <1>2 DEF OpenLog, ShowBegin, Goto
  <2>1. TypeOK'
    BY DEF TypeOK
  <2>2. LogInv'
    BY DEF TypeOK, LogInv, LockInv, Locking, RingInv, SnapInv, SnapshotAtomic
  <2>3. StageInv'
    BY DEF TypeOK, StageInv, Showing, Logging
  <2> QED BY <2>1, <2>2, <2>3
<1>3. CASE LogStep(c)
  <2>1. TypeOK' /\ LogInv'
    BY <1>3, StepTypeOK, StepLockInv, StepRingInv, StepSnapInv DEF LogStep, LogInv
  <2>2. StageInv'
    <3>1. /\ \A d \in Contexts : d # c => pc'[d] = pc[d]
          /\ pc'[c] \in Showing => pc[c] \in Showing
          /\ pc'[c] \in Logging => pc[c] \in Logging
      BY <1>3 DEF TypeOK, LogStep, Step, LogLock, LogFill, LogAdvance, LogUnlock,
         ShowLock, ShowCopy, ShowUnlock, ShowPrint, Goto, Showing, Logging
    <3> QED BY <1>3, <3>1 DEF LogStep, StageInv
  <2> QED BY <1>3, <2>1, <2>2 DEF LogStep
<1> QED BY <1>1, <1>2, <1>3

LEMMA NextSGInv == SGInv /\ [SGNext]_sgVars => SGInv'
<1> SUFFICES ASSUME SGInv, [SGNext]_sgVars PROVE SGInv'
  OBVIOUS
<1>1. CASE DeviceStep BY <1>1, DeviceStepInv
<1>2. CASE UnregisterDevice BY <1>2, UnregisterInv
<1>3. ASSUME NEW c \in Contexts,
             (\E t \in Entries : BlockedDma(c, t)) \/ OpenLog(c) \/ LogStep(c)
      PROVE  SGInv'
  BY <1>3, ContextStepInv
<1>4. CASE UNCHANGED sgVars
  <2>1. UNCHANGED vars /\ UNCHANGED devVars
    BY <1>4 DEF sgVars
  <2>2. TypeOK' /\ LogInv'
    BY <2>1, SameLog DEF SGInv, SGTypeOK
  <2>3. StageInv'
    BY <2>1 DEF SGInv, StageInv, vars, devVars
  <2> QED BY <2>1, <2>2, <2>3 DEF SGInv, SGTypeOK, devVars
<1> QED BY <1>1, <1>2, <1>3, <1>4 DEF SGNext, DeviceStep

LEMMA SGInvHolds == SGSpec => []SGInv
  BY InitSGInv, NextSGInv, PTL DEF SGSpec

(***************************************************************************)
(* Type correctness of the module and its log: in particular log_head is   *)
(* always a slot of the ring and no copy loop runs past it.                *)
(***************************************************************************)
THEOREM SGTypeCorrect == SGSpec => []SGTypeOK
<1>1. SGInv => SGTypeOK
  BY DEF SGInv
<1> QED BY <1>1, SGInvHolds, PTL

(***************************************************************************)
(* Every read of /proc/smmu_guard_log prints the log as it was at one      *)
(* moment, complete, in order and without unwritten slots, for any         *)
(* capacity and any number of fault handlers and readers.                  *)
(***************************************************************************)
THEOREM ReadersSeeOneLog == SGSpec => []SnapshotAtomic
<1>1. SGInv => SnapshotAtomic
  BY DEF SGInv, LogInv
<1> QED BY <1>1, SGInvHolds, PTL

(***************************************************************************)
(* The teardown of the module, also after an init that failed halfway,     *)
(* takes things down in a safe order and completely: no fault handler      *)
(* without its domain, and nothing left once the module is gone.           *)
(***************************************************************************)
THEOREM TeardownCorrect == SGSpec => []TeardownSound
<1>1. SGInv => AttachedHasDomain
  BY DEF SGInv, StageInv, AttachedHasDomain
<1>2. SGInv => NothingLeft
  <2> SUFFICES ASSUME SGInv, stage = "unloaded"
               PROVE  /\ ~pdev /\ ~domain /\ ~attached /\ ~procFile /\ ~active
                      /\ lock = {} /\ \A c \in Contexts : pc[c] = "idle"
    BY DEF NothingLeft
  <2>1. lock = {} /\ \A c \in Contexts : pc[c] = "idle"
    BY QuietWhenUnloading
  <2> QED BY <2>1 DEF SGInv, StageInv
<1> QED BY <1>1, <1>2, SGInvHolds, PTL DEF TeardownSound

-----------------------------------------------------------------------------
(* The refinement of BoundedLog.                                           *)

(* Writing the slot at the head and then advancing pushes the entry: a     *)
(* ring with room grows by it, a full one loses its oldest entry.          *)
LEMMA FillPushes ==
  ASSUME NEW r \in [Slots -> Entries \cup {Blank}], NEW h \in Slots,
         NEW n \in 0 .. Capacity, n < Capacity => h = n, NEW e \in Entries
  PROVE  Contents([r EXCEPT ![h] = e], NextHead(h), NextCount(n))
           = Abstract!Push(Contents(r, h, n), e)
<1> DEFINE S   == Entries \cup {Blank}
           old == Contents(r, h, n)
           r2  == [r EXCEPT ![h] = e]
           h2  == NextHead(h)
           n2  == NextCount(n)
           new == Contents(r2, h2, n2)
           psh == Abstract!Push(old, e)
<1>1. /\ h2 = IF h + 1 < Capacity THEN h + 1 ELSE 0
      /\ h2 \in Slots /\ n2 \in 0 .. Capacity
  BY HeadAdvances
<1>2. r2 \in [Slots -> S]
  OBVIOUS
<1>3. /\ old \in Seq(S) /\ Len(old) = n
      /\ \A i \in 1 .. n : old[i] = r[SlotOf(h, n, i - 1)]
  BY ContentsIsLog
<1>4. /\ new \in Seq(S) /\ Len(new) = n2
      /\ \A i \in 1 .. n2 : new[i] = r2[SlotOf(h2, n2, i - 1)]
  BY <1>1, <1>2, ContentsIsLog
<1> SUFFICES new = psh
  OBVIOUS
<1> HIDE DEF old, new, r2, h2, n2, psh
<1>5. CASE n < Capacity
  <2>1. n2 = n + 1 /\ psh = Append(old, e)
    BY <1>3, <1>5 DEF n2, NextCount, Abstract!Push, psh
  <2>2. \A i \in 1 .. n + 1 : SlotOf(h2, n2, i - 1) = i - 1
    BY <1>1, <1>5, <2>1, LogRingAssumption DEF SlotOf, Slots
  <2>3. \A i \in 1 .. n : new[i] = old[i]
    <3>1. \A i \in 1 .. n : new[i] = r2[i - 1] /\ old[i] = r[i - 1] /\ i - 1 # h
      BY <1>3, <1>4, <1>5, <2>1, <2>2, LogRingAssumption DEF SlotOf
    <3> QED BY <1>5, <3>1, LogRingAssumption DEF r2, Slots
  <2>4. new[n + 1] = e
    BY <1>4, <1>5, <2>1, <2>2, LogRingAssumption DEF r2, Slots
  <2>5. \A i \in 1 .. n + 1 : new[i] = Append(old, e)[i]
    BY <1>3, <2>3, <2>4
  <2> QED BY <1>3, <1>4, <2>1, <2>5, SeqEqual
<1>6. CASE n = Capacity
  <2>1. n2 = n /\ psh = Append(Tail(old), e)
    BY <1>3, <1>6, LogRingAssumption DEF n2, NextCount, Abstract!Push, psh
  <2>2. old # <<>>
    BY <1>3, <1>6, LogRingAssumption
  <2>3. /\ Tail(old) \in Seq(S) /\ Len(Tail(old)) = n - 1
        /\ \A i \in 1 .. n - 1 : Tail(old)[i] = old[i + 1]
    BY <1>3, <2>2, HeadTailProperties
  <2>4. \A i \in 1 .. n - 1 : SlotOf(h2, n2, i - 1) = SlotOf(h, n, i)
    <3> SUFFICES ASSUME NEW i \in 1 .. n - 1
                 PROVE  SlotOf(h2, Capacity, i - 1) = SlotOf(h, Capacity, i)
      BY <1>6, <2>1
    <3>1. i \in Slots /\ i - 1 \in Slots
      BY <1>6, LogRingAssumption DEF Slots
    <3> QED BY <1>1, <3>1, FullRingSlot, LogRingAssumption DEF Slots
  <2>5. \A i \in 1 .. n - 1 : SlotOf(h, n, i) \in Slots /\ SlotOf(h, n, i) # h
    BY <1>6, LogRingAssumption DEF SlotOf, Slots
  <2>6. SlotOf(h2, n2, n - 1) = h
    BY <1>1, <1>6, <2>1, LogRingAssumption DEF SlotOf, Slots
  <2>7. \A i \in 1 .. n - 1 : new[i] = Tail(old)[i]
    <3>1. \A i \in 1 .. n - 1 : new[i] = r2[SlotOf(h, n, i)]
      BY <1>4, <1>6, <2>1, <2>4, LogRingAssumption
    <3>2. \A i \in 1 .. n - 1 : r2[SlotOf(h, n, i)] = r[SlotOf(h, n, i)]
      BY <2>5 DEF r2
    <3>3. \A i \in 1 .. n - 1 : i + 1 \in 1 .. n /\ (i + 1) - 1 = i
      BY <1>6, LogRingAssumption
    <3>4. \A i \in 1 .. n - 1 : old[i + 1] = r[SlotOf(h, n, i)]
      BY <1>3, <3>3
    <3> QED BY <2>3, <3>1, <3>2, <3>4
  <2>8. new[n] = e
    BY <1>4, <1>6, <2>1, <2>6, LogRingAssumption DEF r2
  <2>9. \A i \in 1 .. n : new[i] = Append(Tail(old), e)[i]
    BY <1>6, <2>3, <2>7, <2>8, LogRingAssumption
  <2> QED BY <1>3, <1>4, <1>6, <2>1, <2>3, <2>9, LogRingAssumption, SeqEqual
<1> QED BY <1>5, <1>6, LogRingAssumption

LEMMA SameAbstractLog ==
  ASSUME UNCHANGED <<ring, head, count>>,
         (\E c \in Contexts : pc'[c] = "advance") <=> (\E c \in Contexts : pc[c] = "advance")
  PROVE  UNCHANGED Log
  BY DEF Log

(* Log' = Log while no context enters or leaves the label "advance".       *)
LEMMA OtherStepsKeepLog ==
  ASSUME TypeOK, NEW c \in Contexts,
         \/ \E t \in Entries : BlockedDma(c, t)
         \/ OpenLog(c)
         \/ LogStep(c) /\ ~LogFill(c) /\ ~LogAdvance(c)
  PROVE  UNCHANGED Log
<1>1. /\ pc'[c] # "advance" /\ pc[c] # "advance"
      /\ \A d \in Contexts : d # c => pc'[d] = pc[d]
      /\ UNCHANGED <<ring, head, count>>
  <2>1. ASSUME NEW t \in Entries, BlockedDma(c, t) PROVE <1>1!:
    BY <2>1 DEF BlockedDma, LogBegin, Goto, TypeOK
  <2>2. CASE OpenLog(c)
    BY <2>2 DEF OpenLog, ShowBegin, Goto, TypeOK
  <2>3. CASE LogStep(c) /\ ~LogFill(c) /\ ~LogAdvance(c)
    BY <2>3 DEF TypeOK, LogStep, Step, LogLock, LogUnlock, ShowLock, ShowCopy, ShowUnlock,
       ShowPrint, Goto
  <2> QED BY <2>1, <2>2, <2>3
<1> QED BY <1>1, SameAbstractLog

LEMMA FillRefines ==
  ASSUME SGInv, NEW c \in Contexts, LogFill(c)
  PROVE  Abstract!Next
<1>1. TypeOK /\ LockInv /\ RingInv
  BY DEF SGInv, SGTypeOK, LogInv
<1>2. \A d \in Contexts : pc[d] # "advance"
  BY <1>1, LockExcludes DEF LogFill, Locking
<1>3. pc'[c] = "advance"
  BY <1>1 DEF LogFill, Goto, TypeOK
<1>4. Log = Contents(ring, head, count)
  BY <1>2 DEF Log
<1>5. Log' = Contents([ring EXCEPT ![head] = entry[c]], NextHead(head), NextCount(count))
  BY <1>3 DEF Log, LogFill
<1>6. entry[c] \in Entries
  BY <1>1 DEF RingInv, LogFill
<1>7. Log' = Abstract!Push(Log, entry[c])
  BY <1>1, <1>4, <1>5, <1>6, FillPushes DEF TypeOK, RingInv
<1> QED BY <1>6, <1>7 DEF Abstract!Next

LEMMA AdvanceKeepsLog ==
  ASSUME SGInv, NEW c \in Contexts, LogAdvance(c)
  PROVE  UNCHANGED Log
<1>1. TypeOK /\ LockInv
  BY DEF SGInv, SGTypeOK, LogInv
<1>2. \A d \in Contexts : pc'[d] # "advance"
  BY <1>1, LockExcludes DEF LogAdvance, Goto, TypeOK, Locking
<1>3. Log = Contents(ring, NextHead(head), NextCount(count))
  BY DEF Log, LogAdvance
<1>4. Log' = Contents(ring, NextHead(head), NextCount(count))
  BY <1>2 DEF Log, LogAdvance
<1> QED BY <1>3, <1>4

LEMMA NextRefines ==
  ASSUME SGInv, [SGNext]_sgVars
  PROVE  [Abstract!Next \/ UnregisterDevice]_Log
<1>1. CASE DeviceStep
  BY <1>1, DeviceStepKeepsLog, SameAbstractLog DEF vars
<1>2. CASE UnregisterDevice BY <1>2
<1>3. ASSUME NEW c \in Contexts, LogStep(c), LogFill(c)
      PROVE  Abstract!Next
  BY <1>3, FillRefines
<1>4. ASSUME NEW c \in Contexts, LogStep(c), LogAdvance(c)
      PROVE  UNCHANGED Log
  BY <1>4, AdvanceKeepsLog
<1>5. ASSUME NEW c \in Contexts,
             \/ \E t \in Entries : BlockedDma(c, t)
             \/ OpenLog(c)
             \/ LogStep(c) /\ ~LogFill(c) /\ ~LogAdvance(c)
      PROVE  UNCHANGED Log
  BY <1>5, OtherStepsKeepLog DEF SGInv, SGTypeOK
<1>6. CASE UNCHANGED sgVars
  BY <1>6, SameAbstractLog DEF sgVars, vars
<1> QED BY <1>1, <1>2, <1>3, <1>4, <1>5, <1>6 DEF SGNext, DeviceStep

(***************************************************************************)
(* log_ring with log_head and log_count implements the log of the last     *)
(* DEMO_LOG_CAPACITY entries: filling a slot is the push, every other step *)
(* of handlers, readers and module code is a stutter, and only unloading   *)
(* the module empties the log.                                             *)
(***************************************************************************)
THEOREM RingImplementsBoundedLog == SGSpec => ImplementsBoundedLog
<1>1. SGInit => Abstract!Init
  <2> SUFFICES ASSUME SGInit PROVE Log = <<>>
    BY DEF Abstract!Init
  <2>1. Log = Contents(ring, 0, 0)
    BY DEF SGInit, Init, Log
  <2>2. Contents(ring, 0, 0) = <<>>
    BY DEF Contents
  <2> QED BY <2>1, <2>2
<1>2. SGInv /\ [SGNext]_sgVars => [Abstract!Next \/ UnregisterDevice]_Log
  BY NextRefines
<1> QED BY <1>1, <1>2, SGInvHolds, PTL DEF SGSpec, ImplementsBoundedLog

=============================================================================
