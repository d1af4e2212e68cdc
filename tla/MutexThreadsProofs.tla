------------------------ MODULE MutexThreadsProofs ------------------------
(***************************************************************************)
(* Proofs about MutexThreads, for any set of writers, in both attack modes *)
(* and for every order of insmod and rmmod.                                *)
(***************************************************************************)
EXTENDS MutexThreads, SequenceTheorems, TLAPS

Users  == Lockers \cup {C}
Labels == Inside \cup {"off", "top", "lock", "wait", "nap", "exited", "clear"}
Fields == {"task", "waiters", "handoff", "pickup", "queue"}

(* What the proof needs of the types.                                      *)
ShapeInv ==
  /\ pc \in [Users -> Labels]
  /\ DOMAIN m = Fields
  /\ cleared \in BOOLEAN

(* Without a metadata attack the users inside the mutex own it.  This is   *)
(* what makes the exclusion inductive: the owner word names at most one.   *)
Owned == ~cleared => \A t \in Lockers : pc[t] \in Inside => m.task = t

ExclInv == ShapeInv /\ Owned

(* A thread that does not run is nowhere in its function.                  *)
ModInv ==
  /\ threadsMod \in {"unloaded", "joinB"} => pc[A] = "off"
  /\ threadsMod \in {"unloaded", "startB", "abort"} => pc[B] = "off"

(* Between its two reads, and unless Thread C has stored to the page or    *)
(* attacked the mutex, Thread A would read the same again.                 *)
DataInv == pc[A] \in {"hold", "check"} /\ ~stored /\ ~cleared => mem = initial

Mutexes == [task : Lockers \cup {NoTask}, waiters : BOOLEAN, handoff : BOOLEAN,
            pickup : BOOLEAN, queue : Seq(Lockers)]

(* The mutex while its owner word is left alone.                           *)
MutexInv ==
  /\ m \in Mutexes /\ awake \in [Lockers -> BOOLEAN]
  /\ ~cleared /\ pc[C] # "clear"

(* The queue holds just the waiters, each once, and the flag tells of it.  *)
QueueInv ==
  /\ \A i \in 1 .. Len(m.queue) : pc[m.queue[i]] = "wait"
  /\ \A i, j \in 1 .. Len(m.queue) : i # j => m.queue[i] # m.queue[j]
  /\ \A t \in Lockers : pc[t] = "wait" => \E i \in 1 .. Len(m.queue) : m.queue[i] = t
  /\ m.queue # <<>> => m.waiters

(* The owner is inside, or was handed the mutex in its sleep and is awake. *)
OwnerInv ==
  /\ m.task # NoTask /\ ~m.pickup => pc[m.task] \in Inside
  /\ m.pickup => m.task # NoTask /\ pc[m.task] = "wait" /\ awake[m.task]

WakeInv == MutexInv /\ QueueInv /\ OwnerInv /\ WaiterMinded

-----------------------------------------------------------------------------
LEMMA NamesDistinct ==
  /\ NoTask \notin Lockers
  /\ A \in Lockers /\ B \in Lockers /\ C \notin Lockers
  /\ A # B
  BY MutexThreadsAssumption DEF Lockers, Threads, A, B, C

(* What the mutex operations do to the owner.                              *)
LEMMA AcquireTask ==
  ASSUME NEW x, DOMAIN x = Fields, NEW t
  PROVE  DOMAIN Acquire(x, t) = Fields /\ Acquire(x, t).task = t
  BY Zenon DEF Acquire, Fields

LEMMA EnqueueTask ==
  ASSUME NEW x, DOMAIN x = Fields, NEW t
  PROVE  DOMAIN Enqueue(x, t) = Fields /\ Enqueue(x, t).task = x.task
  BY Zenon DEF Enqueue, Fields

LEMMA RetryTask ==
  ASSUME NEW x, DOMAIN x = Fields, NEW t
  PROVE  DOMAIN RetryFailed(x, t) = Fields /\ RetryFailed(x, t).task = x.task
  BY Zenon DEF RetryFailed, Fields

LEMMA FreeShape == DOMAIN FreeMutex = Fields
  BY Zenon DEF FreeMutex, Fields

LEMMA AcquireQueuedTask ==
  ASSUME NEW x, DOMAIN x = Fields, NEW t
  PROVE  DOMAIN AcquireQueued(x, t) = Fields /\ AcquireQueued(x, t).task = t
<1>1. DOMAIN [FreeMutex EXCEPT !.task = t] = Fields /\ [FreeMutex EXCEPT !.task = t].task = t
  BY FreeShape, Zenon DEF Fields
<1>2. ASSUME NEW r
      PROVE  /\ DOMAIN [Acquire(x, t) EXCEPT !.queue = r] = Fields
             /\ [Acquire(x, t) EXCEPT !.queue = r].task = t
  BY AcquireTask, Zenon DEF Fields
<1> QED BY <1>1, <1>2 DEF AcquireQueued

LEMMA ReleaseShape ==
  ASSUME NEW x, DOMAIN x = Fields
  PROVE  DOMAIN Release(x) = Fields
  BY Zenon DEF Release, Fields

LEMMA ClearShape ==
  ASSUME NEW x
  PROVE  DOMAIN ClearOwnerWord(x) = Fields
  BY FreeShape, Zenon DEF ClearOwnerWord

(* The steps that matter, whatever the thread.  Moving: the owner stays    *)
(* and nobody enters.                                                      *)
LEMMA MovePreserves ==
  ASSUME ExclInv, NEW t \in Users, NEW l \in Labels,
         l \in Inside => pc[t] \in Inside,
         pc' = [pc EXCEPT ![t] = l],
         DOMAIN m' = Fields, m'.task = m.task, cleared' = cleared
  PROVE  ExclInv'
<1>1. ShapeInv' BY DEF ExclInv, ShapeInv
<1>2. ASSUME ~cleared', NEW u \in Lockers, pc'[u] \in Inside
      PROVE  m'.task = u
  <2>1. u \in Users BY DEF Users
  <2>2. pc[u] \in Inside BY <1>2, <2>1 DEF ExclInv, ShapeInv
  <2> QED BY <1>2, <2>2 DEF ExclInv, Owned
<1> QED BY <1>1, <1>2 DEF ExclInv, Owned

(* Entering: a user takes a mutex that is free or was handed to it; no     *)
(* other user can be inside, because the owner word would name it.         *)
LEMMA EnterPreserves ==
  ASSUME ExclInv, NEW t \in Lockers, NEW l \in Labels,
         CanAcquire(m, t),
         pc' = [pc EXCEPT ![t] = l],
         DOMAIN m' = Fields, m'.task = t, cleared' = cleared
  PROVE  ExclInv'
<1>0. t \in Users BY DEF Users
<1>1. ShapeInv' BY <1>0 DEF ExclInv, ShapeInv
<1>2. ASSUME ~cleared', NEW u \in Lockers, pc'[u] \in Inside
      PROVE  m'.task = u
  <2>1. u \in Users BY DEF Users
  <2>2. CASE u = t BY <2>2
  <2>3. CASE u # t
    <3>1. pc[u] \in Inside BY <1>2, <2>1, <2>3 DEF ExclInv, ShapeInv
    <3>2. m.task = u BY <1>2, <3>1 DEF ExclInv, Owned
    <3>3. m.task = NoTask \/ m.task = t BY DEF CanAcquire
    <3> QED BY <2>3, <3>2, <3>3, NamesDistinct
  <2> QED BY <2>2, <2>3
<1> QED BY <1>1, <1>2 DEF ExclInv, Owned

(* Leaving: after mutex_unlock() nobody is inside, or the mutex still has  *)
(* users it met in a metadata attack.                                      *)
LEMMA UnlockPreserves ==
  ASSUME ExclInv, NEW t \in Lockers, Unlock(t)
  PROVE  ExclInv'
<1> DEFINE l == IF t \in Writers THEN "off" ELSE "nap"
<1>0. t \in Users BY DEF Users
<1>1. /\ pc' = [pc EXCEPT ![t] = l] /\ pc[t] = "unlock"
      /\ m' = Release(m)
      /\ cleared' = (cleared /\ \E u \in Lockers \ {t} : pc[u] \in Inside)
  BY DEF Unlock, Goto
<1>2. l \in Labels /\ l \notin Inside BY DEF Labels, Inside
<1>3. DOMAIN m' = Fields BY <1>1, ReleaseShape DEF ExclInv, ShapeInv
<1>4. pc' \in [Users -> Labels] BY <1>0, <1>1, <1>2 DEF ExclInv, ShapeInv
<1>5. cleared' \in BOOLEAN BY <1>1, Zenon
<1>6. ASSUME ~cleared', NEW u \in Lockers, pc'[u] \in Inside
      PROVE  FALSE
  <2>1. u \in Users BY DEF Users
  <2>2. u # t BY <1>0, <1>1, <1>2, <1>6 DEF ExclInv, ShapeInv
  <2>3. pc[u] \in Inside BY <1>1, <1>6, <2>1, <2>2 DEF ExclInv, ShapeInv
  <2>4. ~cleared BY <1>1, <1>6, <2>2, <2>3, Zenon
  <2>5. pc[t] \in Inside BY <1>1 DEF Inside
  <2>6. m.task = u /\ m.task = t BY <2>3, <2>4, <2>5 DEF ExclInv, Owned
  <2> QED BY <2>2, <2>6
<1> QED BY <1>3, <1>4, <1>5, <1>6 DEF ExclInv, ShapeInv, Owned

(* Storing 0 into the owner word owes nothing until the users are gone.    *)
LEMMA ClearPreserves ==
  ASSUME ExclInv, CClear
  PROVE  ExclInv'
<1>1. pc' \in [Users -> Labels]
  BY DEF ExclInv, ShapeInv, CClear, Goto, Users, Labels
<1>2. DOMAIN m' = Fields BY ClearShape DEF CClear
<1>3. cleared' = TRUE BY DEF CClear
<1> QED BY <1>1, <1>2, <1>3 DEF ExclInv, ShapeInv, Owned

(* Stuttering of the three variables ExclInv mentions.                     *)
LEMMA StutterPreserves ==
  ASSUME ExclInv, UNCHANGED <<m, pc, cleared>>
  PROVE  ExclInv'
  BY DEF ExclInv, ShapeInv, Owned

-----------------------------------------------------------------------------
LEMMA InitExcl == Init => ExclInv
<1> SUFFICES ASSUME Init PROVE ExclInv OBVIOUS
<1>1. DOMAIN m = Fields BY FreeShape DEF Init
<1>2. pc \in [Users -> Labels] BY DEF Init, Users, Labels
<1>3. \A t \in Lockers : pc[t] \notin Inside BY DEF Init, Inside
<1> QED BY <1>1, <1>2, <1>3 DEF Init, ExclInv, ShapeInv, Owned

(* The steps of the mutex.                                                 *)
LEMMA MutexExcl ==
  ASSUME ExclInv, NEW t \in Lockers, MutexStep(t)
  PROVE  ExclInv'
<1>0. t \in Users /\ DOMAIN m = Fields BY DEF Users, ExclInv, ShapeInv
<1>1. Entry(t) \in Labels BY DEF Entry, Labels, Inside
<1>2. CASE LockFast(t)
  <2>1. m' = Acquire(m, t) /\ pc' = [pc EXCEPT ![t] = Entry(t)] /\ cleared' = cleared
    BY <1>2 DEF LockFast, Goto
  <2>2. DOMAIN m' = Fields /\ m'.task = t BY <1>0, <2>1, AcquireTask
  <2>3. CanAcquire(m, t) BY <1>2 DEF LockFast
  <2> QED BY <1>1, <2>1, <2>2, <2>3, EnterPreserves
<1>3. CASE LockSleep(t)
  <2>1. m' = Enqueue(m, t) /\ pc' = [pc EXCEPT ![t] = "wait"] /\ cleared' = cleared
    BY <1>3 DEF LockSleep, Goto
  <2>2. DOMAIN m' = Fields /\ m'.task = m.task BY <1>0, <2>1, EnqueueTask
  <2>3. "wait" \in Labels /\ "wait" \notin Inside BY DEF Labels, Inside
  <2> QED BY <1>0, <2>1, <2>2, <2>3, MovePreserves
<1>4. CASE WakeAcquire(t)
  <2>1. m' = AcquireQueued(m, t) /\ pc' = [pc EXCEPT ![t] = Entry(t)] /\ cleared' = cleared
    BY <1>4 DEF WakeAcquire, Goto
  <2>2. DOMAIN m' = Fields /\ m'.task = t BY <1>0, <2>1, AcquireQueuedTask
  <2>3. CanAcquire(m, t) BY <1>4 DEF WakeAcquire
  <2> QED BY <1>1, <2>1, <2>2, <2>3, EnterPreserves
<1>5. CASE WakeRetry(t)
  <2>1. m' = RetryFailed(m, t) /\ pc' = pc /\ cleared' = cleared
    BY <1>5 DEF WakeRetry
  <2>2. DOMAIN m' = Fields /\ m'.task = m.task BY <1>0, <2>1, RetryTask
  <2> QED BY <2>1, <2>2 DEF ExclInv, ShapeInv, Owned
<1>6. CASE Unlock(t) BY <1>6, UnlockPreserves
<1> QED BY <1>2, <1>3, <1>4, <1>5, <1>6 DEF MutexStep

(* The steps of the thread functions.                                      *)
LEMMA BodyExcl ==
  ASSUME ExclInv, NEW t \in Users,
         \/ t \in Threads /\ (ThreadExit(t) \/ NapEnds(t))
         \/ t = A /\ AStep
         \/ t = B /\ BStep
         \/ t = C /\ CStep
         \/ t \in Writers /\ (WriterWork(t) \/ WriterBegin(t))
  PROVE  ExclInv'
<1>0. DOMAIN m = Fields BY DEF ExclInv, ShapeInv
<1>m. ASSUME NEW l \in Labels, l \in Inside => pc[t] \in Inside,
             pc' = [pc EXCEPT ![t] = l], UNCHANGED <<m, cleared>>
      PROVE  ExclInv'
  BY <1>0, <1>m, MovePreserves
<1>1. CASE ThreadExit(t) \/ NapEnds(t)
  BY <1>1, <1>m DEF ThreadExit, NapEnds, Goto, Labels, Inside
<1>2. CASE t = A /\ ATrylock
  <2>1. CASE CanAcquire(m, A)
    <3>1. m' = Acquire(m, A) /\ pc' = [pc EXCEPT ![A] = "read"] /\ cleared' = cleared
      BY <1>2, <2>1 DEF ATrylock, Goto
    <3>2. DOMAIN m' = Fields /\ m'.task = A BY <1>0, <3>1, AcquireTask
    <3>3. "read" \in Labels BY DEF Labels, Inside
    <3> QED BY <2>1, <3>1, <3>2, <3>3, NamesDistinct, EnterPreserves
  <2>2. CASE ~CanAcquire(m, A)
    <3>1. pc' = [pc EXCEPT ![t] = "lock"] /\ UNCHANGED <<m, cleared>>
      BY <1>2, <2>2 DEF ATrylock, Goto
    <3> QED BY <3>1, <1>m DEF Labels, Inside
  <2> QED BY <2>1, <2>2
<1>3. CASE t = A /\ ARead BY <1>3, <1>m DEF ARead, Goto, Labels, Inside
<1>4. CASE t = A /\ AHold BY <1>4, <1>m DEF AHold, Goto, Labels, Inside
<1>5. CASE t = A /\ ACheck BY <1>5, <1>m DEF ACheck, Goto, Labels, Inside
<1>6. CASE t = B /\ BTop BY <1>6, <1>m DEF BTop, Goto, Labels, Inside
<1>7. CASE t = B /\ BWrite BY <1>7, <1>m DEF BWrite, Goto, Labels, Inside
<1>8. CASE t = C /\ CStore BY <1>8, <1>m DEF CStore, Goto, Labels, Inside
<1>9. CASE t = C /\ CSample
  <2> DEFINE l == IF IsLocked(m) THEN "clear" ELSE "nap"
  <2>1. pc' = [pc EXCEPT ![t] = l] /\ UNCHANGED <<m, cleared>>
    BY <1>9 DEF CSample, Goto
  <2>2. l \in Labels /\ l \notin Inside BY DEF Labels, Inside
  <2> QED BY <2>1, <2>2, <1>m
<1>10. CASE CClear BY <1>10, ClearPreserves
<1>11. CASE WriterWork(t) BY <1>11, <1>m DEF WriterWork, Goto, Labels, Inside
<1>12. CASE WriterBegin(t) BY <1>12, <1>m DEF WriterBegin, Goto, Labels, Inside
<1> QED BY <1>1, <1>2, <1>3, <1>4, <1>5, <1>6, <1>7, <1>8, <1>9, <1>10, <1>11, <1>12
        DEF AStep, BStep, CStep

(* insmod and rmmod: a thread is put at its top or taken off, never inside.*)
LEMMA ModuleExcl ==
  ASSUME ExclInv, OperatorStep \/ ThreadsModStep \/ JoinC
  PROVE  ExclInv'
<1>0. DOMAIN m = Fields /\ A \in Users /\ B \in Users /\ C \in Users
  BY NamesDistinct DEF ExclInv, ShapeInv, Users
<1>m. ASSUME NEW t \in Users, NEW l \in {"top", "off"},
             pc' = [pc EXCEPT ![t] = l], UNCHANGED <<m, cleared>>
      PROVE  ExclInv'
  <2>1. l \in Labels /\ l \notin Inside BY DEF Labels, Inside
  <2> QED BY <1>0, <1>m, <2>1, MovePreserves
<1>1. CASE StartA BY <1>0, <1>1, <1>m DEF StartA, Start, Goto
<1>2. CASE StopA BY <1>2, StutterPreserves DEF StopA
<1>3. CASE StartC BY <1>0, <1>3, <1>m DEF StartC, Start, Goto
<1>4. CASE StopC BY <1>4, StutterPreserves DEF StopC
<1>5. CASE StartB BY <1>0, <1>5, <1>m DEF StartB, Start, Goto
<1>6. CASE StartBFails BY <1>6, StutterPreserves DEF StartBFails
<1>7. CASE AbortJoin BY <1>0, <1>7, <1>m DEF AbortJoin, Join, Goto
<1>8. CASE JoinAStopB BY <1>0, <1>8, <1>m DEF JoinAStopB, Join, Goto
<1>9. CASE JoinB BY <1>0, <1>9, <1>m DEF JoinB, Join, Goto
<1>10. CASE JoinC BY <1>0, <1>10, <1>m DEF JoinC, Join, Goto
<1> QED BY <1>1, <1>2, <1>3, <1>4, <1>5, <1>6, <1>7, <1>8, <1>9, <1>10
        DEF OperatorStep, ThreadsModStep

LEMMA NextExcl == ExclInv /\ [Next]_vars => ExclInv'
<1> SUFFICES ASSUME ExclInv, [Next]_vars PROVE ExclInv' OBVIOUS
<1>1. CASE \E t \in Lockers \cup {C} : ThreadStep(t)
  <2> PICK t \in Users : ThreadStep(t) BY <1>1 DEF Users
  <2>1. CASE t \in Lockers /\ MutexStep(t) BY <2>1, MutexExcl
  <2>2. CASE ~(t \in Lockers /\ MutexStep(t)) BY <2>2, BodyExcl DEF ThreadStep
  <2> QED BY <2>1, <2>2
<1>2. CASE \E w \in Writers : WriterBegin(w)
  <2> PICK w \in Writers : WriterBegin(w) BY <1>2
  <2>1. w \in Users BY DEF Users, Lockers
  <2> QED BY <2>1, BodyExcl
<1>3. CASE OperatorStep \/ ThreadsModStep \/ JoinC BY <1>3, ModuleExcl
<1>4. CASE UNCHANGED vars BY <1>4, StutterPreserves DEF vars
<1> QED BY <1>1, <1>2, <1>3, <1>4 DEF Next

(* Two users are inside safety_mutex at once only after the rogue thread   *)
(* overwrote its owner word: for any number of writers, with stores into   *)
(* the page, failed insmods and rmmods at any moment.                      *)
THEOREM Exclusion == Spec => []OverlapNeedsMetadataAttack
<1>1. ExclInv => OverlapNeedsMetadataAttack
  BY DEF ExclInv, ShapeInv, Owned, OverlapNeedsMetadataAttack, Overlap
<1> QED BY <1>1, InitExcl, NextExcl, PTL DEF Spec

-----------------------------------------------------------------------------
(* Every step of a thread or writer moves only itself, and not out of      *)
(* "off": that is left to insmod.                                          *)
LEMMA OneMoves ==
  ASSUME ShapeInv, NEW t \in Users, ThreadStep(t)
  PROVE  /\ pc[t] # "off" /\ \E l \in Labels : pc' = [pc EXCEPT ![t] = l]
         /\ UNCHANGED modVars
<1>0. pc \in [Users -> Labels]
  BY DEF ShapeInv
<1>1. ASSUME NEW l \in Labels, Goto(t, l)
      PROVE  \E k \in Labels : pc' = [pc EXCEPT ![t] = k]
  BY <1>1 DEF Goto
<1>2. CASE t \in Threads /\ (ThreadExit(t) \/ NapEnds(t))
  BY <1>1, <1>2 DEF ThreadExit, NapEnds, Labels
<1>3. CASE t \in Lockers /\ MutexStep(t)
  <2>1. Entry(t) \in Labels
    BY DEF Entry, Labels, Inside
  <2>2. CASE LockFast(t) BY <1>1, <2>1, <2>2 DEF LockFast
  <2>3. CASE LockSleep(t) BY <1>1, <2>3 DEF LockSleep, Labels
  <2>4. CASE WakeAcquire(t) BY <1>1, <2>1, <2>4 DEF WakeAcquire
  <2>5. CASE WakeRetry(t)
    <3>1. pc' = [pc EXCEPT ![t] = "wait"] /\ "wait" \in Labels
      BY <1>0, <2>5 DEF WakeRetry, Labels
    <3> QED BY <2>5, <3>1 DEF WakeRetry
  <2>6. CASE Unlock(t)
    <3>1. (IF t \in Writers THEN "off" ELSE "nap") \in Labels
      BY DEF Labels
    <3> QED BY <1>1, <2>6, <3>1 DEF Unlock
  <2> QED BY <1>3, <2>2, <2>3, <2>4, <2>5, <2>6 DEF MutexStep
<1>4. CASE t = A /\ AStep
  BY <1>1, <1>4 DEF AStep, ATrylock, ARead, AHold, ACheck, Labels, Inside
<1>5. CASE t = B /\ BStep
  BY <1>1, <1>5 DEF BStep, BTop, BWrite, Labels, Inside
<1>6. CASE t = C /\ CStep
  <2>1. (IF IsLocked(m) THEN "clear" ELSE "nap") \in Labels
    BY DEF Labels
  <2> QED BY <1>1, <1>6, <2>1 DEF CStep, CStore, CSample, CClear, Labels
<1>7. CASE t \in Writers /\ WriterWork(t)
  BY <1>1, <1>7 DEF WriterWork, Labels, Inside
<1> QED BY <1>2, <1>3, <1>4, <1>5, <1>6, <1>7 DEF ThreadStep

LEMMA NextMod ==
  ASSUME ShapeInv, ModInv, [Next]_vars
  PROVE  ModInv'
<1>0. /\ pc \in [Users -> Labels] /\ A \in Users /\ B \in Users /\ C \in Users /\ A # B
      /\ C # A /\ C # B /\ \A w \in Writers : w \in Users /\ w # A /\ w # B
  BY NamesDistinct, MutexThreadsAssumption DEF ShapeInv, Users, Lockers, Threads
<1>1. CASE \E t \in Lockers \cup {C} : ThreadStep(t)
  <2>1. PICK t \in Users : ThreadStep(t)
    BY <1>1 DEF Users
  <2>2. PICK l \in Labels : pc' = [pc EXCEPT ![t] = l]
    BY <2>1, OneMoves
  <2>3. pc[t] # "off" /\ threadsMod' = threadsMod
    BY <2>1, OneMoves DEF modVars
  <2> QED BY <1>0, <2>2, <2>3 DEF ModInv
<1>2. CASE \E w \in Writers : WriterBegin(w)
  BY <1>0, <1>2 DEF WriterBegin, Goto, modVars, ModInv
<1>3. CASE StartA BY <1>0, <1>3 DEF StartA, Start, Goto, ModInv
<1>4. CASE StopA BY <1>0, <1>4 DEF StopA, ModInv
<1>5. CASE StartC BY <1>0, <1>5 DEF StartC, Start, Goto, ModInv
<1>6. CASE StopC BY <1>0, <1>6 DEF StopC, ModInv
<1>7. CASE StartB BY <1>0, <1>7 DEF StartB, Start, Goto, ModInv
<1>8. CASE StartBFails BY <1>0, <1>8 DEF StartBFails, ModInv
<1>9. CASE AbortJoin BY <1>0, <1>9 DEF AbortJoin, Join, Goto, ModInv
<1>10. CASE JoinAStopB BY <1>0, <1>10 DEF JoinAStopB, Join, Goto, ModInv
<1>11. CASE JoinB BY <1>0, <1>11 DEF JoinB, Join, Goto, ModInv
<1>12. CASE JoinC BY <1>0, <1>12 DEF JoinC, Join, Goto, ModInv
<1>13. CASE UNCHANGED vars BY <1>13 DEF vars, modVars, ModInv
<1> QED BY <1>1, <1>2, <1>3, <1>4, <1>5, <1>6, <1>7, <1>8, <1>9, <1>10, <1>11, <1>12, <1>13
        DEF Next, OperatorStep, ThreadsModStep

(* What Thread A read first is still there.  Only the owner of the mutex   *)
(* and Thread C store to the page, and Thread A is the owner.              *)
LEMMA NextData ==
  ASSUME ExclInv, ModInv, DataInv, [Next]_vars
  PROVE  DataInv'
<1>0. /\ pc \in [Users -> Labels] /\ A \in Users /\ B \in Users /\ C \in Users /\ A # B
      /\ C # A /\ C # B /\ \A w \in Writers : w \in Users /\ w # A /\ w # B
      /\ A \in Lockers /\ B \in Lockers
  BY NamesDistinct, MutexThreadsAssumption DEF ExclInv, ShapeInv, Users, Lockers, Threads
(* Steps that touch none of it, and after which Thread A is not between    *)
(* its reads or was so before.                                             *)
<1>s. ASSUME UNCHANGED <<mem, initial, stored, cleared>>, 
             pc'[A] \in {"hold", "check"} => pc[A] \in {"hold", "check"}
      PROVE  DataInv'
  BY <1>s DEF DataInv
<1>1. ASSUME NEW t \in Users, ThreadStep(t) PROVE DataInv'
  <2>1. PICK l \in Labels : pc' = [pc EXCEPT ![t] = l]
    BY <1>1, OneMoves DEF ExclInv
  <2>2. CASE t \in Threads /\ (ThreadExit(t) \/ NapEnds(t))
    BY <1>0, <1>s, <2>2 DEF ThreadExit, NapEnds, Goto, dataVars
  <2>3. CASE t \in Lockers /\ MutexStep(t)
    <3>1. CASE \/ LockFast(t) \/ LockSleep(t) \/ WakeAcquire(t) \/ WakeRetry(t)
      BY <1>0, <1>s, <3>1
         DEF LockFast, LockSleep, WakeAcquire, WakeRetry, Goto, Entry, dataVars
    <3>2. CASE Unlock(t)
      <4>1. /\ pc' = [pc EXCEPT ![t] = IF t \in Writers THEN "off" ELSE "nap"]
            /\ UNCHANGED <<mem, initial, stored>>
            /\ cleared' = (cleared /\ \E u \in Lockers \ {t} : pc[u] \in Inside)
        BY <3>2 DEF Unlock, Goto, dataVars
      <4>2. CASE t = A BY <1>0, <4>1, <4>2 DEF DataInv
      <4>3. CASE t # A
        <5>1. pc'[A] = pc[A]
          BY <1>0, <4>1, <4>3
        <5>2. pc[A] \in {"hold", "check"} /\ ~cleared' => ~cleared
          <6>1. pc[A] \in {"hold", "check"} => \E u \in Lockers \ {t} : pc[u] \in Inside
            BY <1>0, <4>3 DEF Inside
          <6> QED BY <4>1, <6>1, Zenon
        <5> QED BY <4>1, <5>1, <5>2 DEF DataInv
      <4> QED BY <4>2, <4>3
    <3> QED BY <2>3, <3>1, <3>2 DEF MutexStep
  <2>4. CASE t = A /\ AStep
    <3>1. CASE ATrylock \/ AHold
      BY <1>0, <1>s, <3>1 DEF ATrylock, AHold, Goto, dataVars
    <3>2. CASE ARead BY <1>0, <3>2 DEF ARead, DataInv
    <3>3. CASE ACheck BY <1>0, <3>3 DEF ACheck, Goto, DataInv
    <3> QED BY <2>4, <3>1, <3>2, <3>3 DEF AStep
  <2>5. CASE t = B /\ BStep
    <3>1. CASE BTop BY <1>0, <1>s, <3>1 DEF BTop, Goto, dataVars
    <3>2. CASE BWrite
      <4>1. pc[B] \in Inside /\ pc'[A] = pc[A] /\ cleared' = cleared
        BY <1>0, <3>2 DEF BWrite, Goto, Inside
      <4>2. cleared \/ pc[A] \notin Inside
        BY <1>0, <4>1 DEF ExclInv, Owned
      <4> QED BY <4>1, <4>2 DEF DataInv, Inside
    <3> QED BY <2>5, <3>1, <3>2 DEF BStep
  <2>6. CASE t = C /\ CStep
    <3>1. CASE CStore BY <3>1 DEF CStore, DataInv
    <3>2. CASE CSample BY <1>0, <1>s, <3>2 DEF CSample, Goto, dataVars
    <3>3. CASE CClear BY <3>3 DEF CClear, DataInv
    <3> QED BY <2>6, <3>1, <3>2, <3>3 DEF CStep
  <2>7. CASE t \in Writers /\ WriterWork(t)
    BY <1>0, <1>s, <2>7 DEF WriterWork, Goto, dataVars
  <2> QED BY <1>1, <2>2, <2>3, <2>4, <2>5, <2>6, <2>7 DEF ThreadStep
<1>2. CASE \E w \in Writers : WriterBegin(w)
  BY <1>0, <1>2, <1>s DEF WriterBegin, Goto, dataVars
<1>3. CASE OperatorStep \/ ThreadsModStep \/ JoinC
  BY <1>0, <1>3, <1>s
     DEF OperatorStep, StartA, StopA, StartC, StopC, ThreadsModStep, StartB, StartBFails, AbortJoin,
         JoinAStopB, JoinB, JoinC, Start, Join, Goto, dataVars
<1>4. CASE UNCHANGED vars
  BY <1>4, <1>s DEF vars, dataVars
<1> QED BY <1>1, <1>2, <1>3, <1>4 DEF Next, Users

(* "VIOLATION DETECTED" is never a false alarm, for any number of writers, *)
(* both attack modes and every interleaving with Thread B's own stores.    *)
THEOREM ViolationTrue == Spec => ViolationSound
<1> DEFINE Inv == ExclInv /\ ModInv /\ DataInv
<1>1. Init => Inv
  <2>1. Init => ModInv /\ DataInv
    BY NamesDistinct DEF Init, ModInv, DataInv
  <2> QED BY <2>1, InitExcl
<1>2. Inv /\ [Next]_vars => Inv'
  BY NextExcl, NextMod, NextData DEF ExclInv
<1>3. Inv /\ [Next]_vars
        => [violation' = Tick(violation) /\ pc[A] = "check" => stored \/ cleared]_violation
  <2> SUFFICES ASSUME Inv, [Next]_vars, violation' # violation, pc[A] = "check"
               PROVE  stored \/ cleared
    OBVIOUS
  <2>1. threadsMod # "unloaded"
    BY DEF ModInv
  <2>2. ACheck
    BY <2>1
       DEF Next, vars, ThreadStep, ThreadExit, NapEnds, MutexStep, LockFast, LockSleep, WakeAcquire,
           WakeRetry, Unlock, AStep, ATrylock, ARead, AHold, BStep, BTop, BWrite, CStep, CStore,
           CSample, CClear, WriterWork, WriterBegin, OperatorStep, StartA, StopA, StartC, StopC,
           ThreadsModStep, StartB, StartBFails, AbortJoin, JoinAStopB, JoinB, JoinC, dataVars
  <2>3. mem # initial
    BY <2>2 DEF ACheck
  <2> QED BY <2>3 DEF DataInv
<1> QED BY <1>1, <1>2, <1>3, PTL DEF Spec, ViolationSound

-----------------------------------------------------------------------------
(* What the operations of the mutex do while the owner word is intact.     *)

LEMMA AcquireEffect ==
  ASSUME NEW x \in Mutexes, NEW t \in Lockers, x.pickup => x.task # NoTask
  PROVE  /\ Acquire(x, t) \in Mutexes
         /\ Acquire(x, t).task = t /\ ~Acquire(x, t).pickup
         /\ Acquire(x, t).queue = x.queue /\ Acquire(x, t).waiters = x.waiters
<1> DEFINE y == Acquire(x, t)
           p == x.task = NoTask /\ x.pickup
<1>1. y = [x EXCEPT !.task = t, !.pickup = p]
  BY DEF Acquire
<1>2. p \in BOOLEAN /\ ~p
  OBVIOUS
<1> HIDE DEF p
<1> QED BY <1>1, <1>2 DEF Mutexes

LEMMA EnqueueEffect ==
  ASSUME NEW x \in Mutexes, NEW t \in Lockers
  PROVE  /\ Enqueue(x, t) \in Mutexes
         /\ Enqueue(x, t).task = x.task /\ Enqueue(x, t).pickup = x.pickup
         /\ Enqueue(x, t).queue = Append(x.queue, t)
         /\ (x.queue # <<>> => x.waiters) => Enqueue(x, t).waiters
<1> DEFINE w == x.waiters \/ x.queue = <<>>
           q == Append(x.queue, t)
<1>1. Enqueue(x, t) = [x EXCEPT !.queue = q, !.waiters = w]
  BY DEF Enqueue
<1>2. w \in BOOLEAN /\ q \in Seq(Lockers) /\ ((x.queue # <<>> => x.waiters) => w)
  BY DEF Mutexes
<1> HIDE DEF w, q
<1>3. /\ Enqueue(x, t) \in Mutexes /\ Enqueue(x, t).queue = q /\ Enqueue(x, t).waiters = w
      /\ Enqueue(x, t).task = x.task /\ Enqueue(x, t).pickup = x.pickup
  BY <1>1, <1>2 DEF Mutexes
<1> QED BY <1>2, <1>3 DEF q

LEMMA RetryEffect ==
  ASSUME NEW x \in Mutexes, NEW t \in Lockers
  PROVE  /\ RetryFailed(x, t) \in Mutexes
         /\ RetryFailed(x, t).task = x.task /\ RetryFailed(x, t).pickup = x.pickup
         /\ RetryFailed(x, t).queue = x.queue /\ RetryFailed(x, t).waiters = x.waiters
<1> DEFINE h == x.handoff \/ IsFirst(x, t)
<1>1. RetryFailed(x, t) = [x EXCEPT !.handoff = h]
  BY DEF RetryFailed
<1>2. h \in BOOLEAN
  BY DEF IsFirst
<1> HIDE DEF h
<1> QED BY <1>1, <1>2 DEF Mutexes

LEMMA ReleaseEffect ==
  ASSUME NEW x \in Mutexes, ~x.pickup
  PROVE  /\ Release(x) \in Mutexes
         /\ Release(x).queue = x.queue /\ Release(x).waiters = x.waiters
         /\ \/ Release(x).task = NoTask /\ ~Release(x).pickup
            \/ /\ x.queue # <<>> /\ Release(x).task = Head(x.queue) /\ Release(x).pickup
               /\ x.handoff
<1>1. CASE x.handoff /\ x.queue # <<>>
  <2>1. Release(x) = [x EXCEPT !.task = Head(x.queue), !.handoff = FALSE, !.pickup = TRUE]
    BY <1>1 DEF Release
  <2>2. Head(x.queue) \in Lockers /\ TRUE \in BOOLEAN /\ FALSE \in BOOLEAN
    BY <1>1 DEF Mutexes
  <2> QED BY <1>1, <2>1, <2>2 DEF Mutexes
<1>2. CASE x.handoff /\ x.queue = <<>>
  <2>1. Release(x) = [x EXCEPT !.task = NoTask, !.handoff = FALSE, !.pickup = FALSE]
    BY <1>2 DEF Release
  <2> QED BY <1>2, <2>1 DEF Mutexes
<1>3. CASE ~x.handoff
  <2>1. Release(x) = [x EXCEPT !.task = NoTask]
    BY <1>3 DEF Release
  <2> QED BY <1>3, <2>1 DEF Mutexes
<1> QED BY <1>1, <1>2, <1>3

(* The queue without its element number i.                                 *)
LEMMA RemoveAtEffect ==
  ASSUME NEW S, NEW s \in Seq(S), NEW i \in 1 .. Len(s)
  PROVE  /\ RemoveAt(s, i) \in Seq(S) /\ Len(RemoveAt(s, i)) = Len(s) - 1
         /\ \A j \in 1 .. Len(s) - 1 : RemoveAt(s, i)[j] = IF j < i THEN s[j] ELSE s[j + 1]
<1> DEFINE a == SubSeq(s, 1, i - 1)
           b == SubSeq(s, i + 1, Len(s))
<1>1. /\ a \in Seq(S) /\ Len(a) = i - 1 /\ \A j \in 1 .. i - 1 : a[j] = s[j]
  OBVIOUS
<1>2. /\ b \in Seq(S) /\ Len(b) = Len(s) - i /\ \A j \in 1 .. Len(s) - i : b[j] = s[i + j]
  OBVIOUS
<1>3. RemoveAt(s, i) = a \o b
  BY DEF RemoveAt
<1> HIDE DEF a, b
<1>4. a \o b \in Seq(S) /\ Len(a \o b) = Len(a) + Len(b)
  BY <1>1, <1>2, ConcatProperties
<1>5. ASSUME NEW j \in 1 .. Len(s) - 1
      PROVE  (a \o b)[j] = IF j < i THEN s[j] ELSE s[j + 1]
  <2>1. CASE j < i BY <1>1, <1>2, <2>1
  <2>2. CASE ~(j < i)
    <3>1. j - (i - 1) \in 1 .. Len(s) - i /\ i + (j - (i - 1)) = j + 1
      BY <2>2
    <3>2. (a \o b)[j] = b[j - (i - 1)]
      BY <1>1, <1>2, <2>2
    <3> QED BY <1>2, <2>2, <3>1, <3>2
  <2> QED BY <2>1, <2>2
<1> QED BY <1>1, <1>2, <1>3, <1>4, <1>5

LEMMA AcquireQueuedEffect ==
  ASSUME NEW x \in Mutexes, NEW t \in Lockers, x.pickup => x.task # NoTask,
         \E i \in 1 .. Len(x.queue) : x.queue[i] = t
  PROVE  /\ AcquireQueued(x, t) \in Mutexes
         /\ AcquireQueued(x, t).task = t /\ ~AcquireQueued(x, t).pickup
         /\ AcquireQueued(x, t).queue # <<>> => AcquireQueued(x, t).waiters = x.waiters
         /\ \E i \in 1 .. Len(x.queue) :
              x.queue[i] = t /\ AcquireQueued(x, t).queue = RemoveAt(x.queue, i)
<1> DEFINE i == CHOOSE k \in DOMAIN x.queue : x.queue[k] = t
           rest == RemoveAt(x.queue, i)
<1>1. x.queue \in Seq(Lockers)
  BY DEF Mutexes
<1>2. i \in 1 .. Len(x.queue) /\ x.queue[i] = t
  BY <1>1
<1>3. rest \in Seq(Lockers)
  BY <1>1, <1>2, RemoveAtEffect
<1>4. AcquireQueued(x, t) = IF rest = <<>> THEN [FreeMutex EXCEPT !.task = t]
                            ELSE [Acquire(x, t) EXCEPT !.queue = rest]
  BY DEF AcquireQueued
<1>r. rest = RemoveAt(x.queue, i)
  OBVIOUS
<1> HIDE DEF i, rest
<1>5. CASE rest = <<>>
  <2>1. AcquireQueued(x, t) = [task |-> t, waiters |-> FALSE, handoff |-> FALSE,
                               pickup |-> FALSE, queue |-> <<>>]
    BY <1>4, <1>5 DEF FreeMutex
  <2>2. AcquireQueued(x, t) \in Mutexes
    BY <2>1 DEF Mutexes
  <2> QED BY <1>2, <1>5, <1>r, <2>1, <2>2
<1>6. CASE rest # <<>>
  <2>1. AcquireQueued(x, t) = [Acquire(x, t) EXCEPT !.queue = rest]
    BY <1>4, <1>6
  <2>2. /\ Acquire(x, t) \in Mutexes /\ Acquire(x, t).task = t /\ ~Acquire(x, t).pickup
        /\ Acquire(x, t).waiters = x.waiters
    BY AcquireEffect
  <2>3. /\ AcquireQueued(x, t) \in Mutexes /\ AcquireQueued(x, t).task = t
        /\ ~AcquireQueued(x, t).pickup /\ AcquireQueued(x, t).waiters = x.waiters
        /\ AcquireQueued(x, t).queue = rest
    BY <1>3, <2>1, <2>2 DEF Mutexes
  <2> QED BY <1>2, <1>r, <2>3
<1> QED BY <1>5, <1>6

-----------------------------------------------------------------------------
(* No waiter is forgotten.  The steps that matter, whatever the thread.    *)

LEMMA WakeTypes ==
  ASSUME ExclInv, WakeInv
  PROVE  /\ pc \in [Users -> Labels] /\ Lockers \subseteq Users /\ C \in Users \ Lockers
         /\ m \in Mutexes /\ m.queue \in Seq(Lockers) /\ awake \in [Lockers -> BOOLEAN]
         /\ m.task \in Lockers \cup {NoTask} /\ NoTask \notin Lockers
         /\ \A i \in 1 .. Len(m.queue) : m.queue[i] \in Lockers
         /\ \A t \in Lockers : pc[t] \in Inside => m.task = t
         /\ "wait" \notin Inside /\ "lock" \notin Inside
<1>1. pc \in [Users -> Labels] /\ Lockers \subseteq Users /\ C \in Users \ Lockers
  BY NamesDistinct DEF ExclInv, ShapeInv, Users
<1>2. m \in Mutexes /\ m.queue \in Seq(Lockers) /\ awake \in [Lockers -> BOOLEAN]
      /\ m.task \in Lockers \cup {NoTask}
  BY DEF WakeInv, MutexInv, Mutexes
<1>3. \A t \in Lockers : pc[t] \in Inside => m.task = t
  BY DEF ExclInv, Owned, WakeInv, MutexInv
<1>4. \A i \in 1 .. Len(m.queue) : m.queue[i] \in Lockers
  BY <1>2
<1>5. "wait" \notin Inside /\ "lock" \notin Inside
  BY DEF Inside
<1> QED BY <1>1, <1>2, <1>3, <1>4, <1>5, NamesDistinct

(* A step that leaves the mutex alone and may wake somebody.               *)
LEMMA QuietWake ==
  ASSUME ExclInv, WakeInv, NEW t \in Users, NEW l \in Labels,
         pc' = [pc EXCEPT ![t] = l], UNCHANGED <<m, cleared>>,
         t \in Lockers => (l \in Inside <=> pc[t] \in Inside),
         t \in Lockers => (l = "wait" <=> pc[t] = "wait"),
         l # "clear",
         awake' \in [Lockers -> BOOLEAN], \A u \in Lockers : awake[u] => awake'[u]
  PROVE  WakeInv'
<1>0. \A u \in Lockers : /\ pc'[u] \in Inside <=> pc[u] \in Inside
                         /\ pc'[u] = "wait" <=> pc[u] = "wait"
  BY WakeTypes
<1>1. MutexInv'
  BY WakeTypes DEF WakeInv, MutexInv
<1>2. QueueInv'
  BY <1>0, WakeTypes DEF WakeInv, QueueInv
<1>3. OwnerInv'
  BY <1>0, WakeTypes DEF WakeInv, OwnerInv
<1>4. WaiterMinded'
  BY <1>0, WakeTypes DEF WakeInv, WaiterMinded
<1> QED BY <1>1, <1>2, <1>3, <1>4 DEF WakeInv

(* The owner, if there is one, is inside or about to be.                   *)
LEMMA OwnerIsThere ==
  ASSUME ExclInv, WakeInv, m.task # NoTask
  PROVE  /\ m.task \in Lockers
         /\ pc[m.task] \in Inside \/ (m.pickup /\ pc[m.task] = "wait" /\ awake[m.task])
  BY WakeTypes DEF WakeInv, OwnerInv

(* A user takes the mutex without having slept.                            *)
LEMMA EnterWake ==
  ASSUME ExclInv, WakeInv, NEW t \in Lockers, NEW l \in Inside,
         pc[t] # "wait", m' = Acquire(m, t), pc' = [pc EXCEPT ![t] = l],
         UNCHANGED <<awake, cleared>>
  PROVE  WakeInv'
<1>1. /\ m' \in Mutexes /\ m'.task = t /\ ~m'.pickup
      /\ m'.queue = m.queue /\ m'.waiters = m.waiters
  BY WakeTypes, AcquireEffect DEF WakeInv, OwnerInv
<1>2. \A u \in Lockers : /\ pc'[u] = "wait" <=> pc[u] = "wait"
                         /\ u = t => pc'[u] \in Inside
  BY WakeTypes
<1>3. MutexInv'
  BY <1>1, WakeTypes DEF WakeInv, MutexInv
<1>4. QueueInv'
  BY <1>1, <1>2, WakeTypes DEF WakeInv, QueueInv
<1>5. OwnerInv'
  BY <1>1, <1>2 DEF OwnerInv
<1>6. WaiterMinded'
  BY <1>1, <1>2, <1>4 DEF WaiterMinded, QueueInv
<1> QED BY <1>3, <1>4, <1>5, <1>6 DEF WakeInv

LEMMA SleepWake ==
  ASSUME ExclInv, WakeInv, NEW t \in Lockers, LockSleep(t)
  PROVE  WakeInv'
<1>0. /\ pc[t] = "lock" /\ m.task # NoTask /\ ~(m.pickup /\ m.task = t)
      /\ m' = Enqueue(m, t) /\ cleared' = cleared
      /\ awake' = [awake EXCEPT ![t] = FALSE] /\ pc' = [pc EXCEPT ![t] = "wait"]
  BY DEF LockSleep, CanAcquire, Goto
<1>1. /\ m' \in Mutexes /\ m'.task = m.task /\ m'.pickup = m.pickup
      /\ m'.queue = Append(m.queue, t) /\ m'.waiters
  BY <1>0, WakeTypes, EnqueueEffect DEF WakeInv, QueueInv
<1>2. /\ pc'[t] = "wait"
      /\ \A u \in Users \ {t} : pc'[u] = pc[u]
      /\ \A u \in Lockers \ {t} : awake'[u] = awake[u]
  BY <1>0, WakeTypes
<1>3. awake' \in [Lockers -> BOOLEAN]
  BY <1>0, WakeTypes, Zenon
<1>4. MutexInv'
  BY <1>0, <1>1, <1>2, <1>3, WakeTypes DEF WakeInv, MutexInv
<1> DEFINE n == Len(m.queue)
<1>5. /\ Len(m'.queue) = n + 1 /\ n \in Nat /\ m'.queue[n + 1] = t
      /\ \A i \in 1 .. n : m'.queue[i] = m.queue[i] /\ m.queue[i] \in Lockers /\ m.queue[i] # t
  BY <1>0, <1>1, WakeTypes DEF WakeInv, QueueInv
<1>6. QueueInv'
  <2>1. \A i \in 1 .. n + 1 : pc'[m'.queue[i]] = "wait"
    BY <1>2, <1>5, WakeTypes DEF WakeInv, QueueInv
  <2>2. \A i, j \in 1 .. n + 1 : i # j => m'.queue[i] # m'.queue[j]
    <3> SUFFICES ASSUME NEW i \in 1 .. n + 1, NEW j \in 1 .. n + 1, i # j
                 PROVE  m'.queue[i] # m'.queue[j]
      OBVIOUS
    <3>1. i \in 1 .. n \/ i = n + 1
      BY <1>5
    <3>2. j \in 1 .. n \/ j = n + 1
      BY <1>5
    <3>3. \A p, q \in 1 .. n : p # q => m.queue[p] # m.queue[q]
      BY DEF WakeInv, QueueInv
    <3> QED BY <1>5, <3>1, <3>2, <3>3
  <2>3. \A u \in Lockers : pc'[u] = "wait" => \E i \in 1 .. n + 1 : m'.queue[i] = u
    <3> SUFFICES ASSUME NEW u \in Lockers, pc'[u] = "wait"
                 PROVE  \E i \in 1 .. n + 1 : m'.queue[i] = u
      OBVIOUS
    <3>1. CASE u = t BY <1>5, <3>1
    <3>2. CASE u # t
      <4>1. PICK i \in 1 .. n : m.queue[i] = u
        BY <1>2, <3>2, WakeTypes DEF WakeInv, QueueInv
      <4> QED BY <1>5, <4>1
    <3> QED BY <3>1, <3>2
  <2> QED BY <1>1, <1>5, <2>1, <2>2, <2>3 DEF QueueInv
<1>7. m.task # t /\ m.task \in Lockers
      /\ (pc'[m.task] \in Inside \/ (m.pickup /\ pc'[m.task] = "wait" /\ awake'[m.task]))
  BY <1>0, <1>2, OwnerIsThere, WakeTypes
<1>8. OwnerInv'
  BY <1>0, <1>1, <1>2, <1>7, WakeTypes DEF WakeInv, OwnerInv
<1>9. WaiterMinded'
  BY <1>1, <1>7 DEF WaiterMinded
<1> QED BY <1>4, <1>6, <1>8, <1>9 DEF WakeInv

(* A waiter gets the mutex and leaves the queue.                           *)
LEMMA AcquireWake ==
  ASSUME ExclInv, WakeInv, NEW t \in Lockers, WakeAcquire(t)
  PROVE  WakeInv'
<1>0. /\ pc[t] = "wait" /\ m' = AcquireQueued(m, t) /\ cleared' = cleared
      /\ awake' = [awake EXCEPT ![t] = FALSE] /\ pc' = [pc EXCEPT ![t] = Entry(t)]
  BY DEF WakeAcquire, Goto
<1>1. /\ m' \in Mutexes /\ m'.task = t /\ ~m'.pickup
      /\ m'.queue # <<>> => m'.waiters = m.waiters
      /\ \E i \in 1 .. Len(m.queue) : m.queue[i] = t /\ m'.queue = RemoveAt(m.queue, i)
  BY <1>0, WakeTypes, AcquireQueuedEffect DEF WakeInv, OwnerInv, QueueInv
<1>2. Entry(t) \in Inside /\ Entry(t) # "wait"
  BY DEF Entry, Inside
<1>3. pc'[t] \in Inside /\ pc'[t] # "wait" /\ \A u \in Users \ {t} : pc'[u] = pc[u]
  BY <1>0, <1>2, WakeTypes
<1>4. awake' \in [Lockers -> BOOLEAN]
  BY <1>0, WakeTypes, Zenon
<1>5. MutexInv'
  BY <1>0, <1>1, <1>3, <1>4, WakeTypes DEF WakeInv, MutexInv
<1>6. PICK i \in 1 .. Len(m.queue) : m.queue[i] = t /\ m'.queue = RemoveAt(m.queue, i)
  BY <1>1
<1> DEFINE n == Len(m.queue)
           at(j) == IF j < i THEN j ELSE j + 1
<1>7. /\ Len(m'.queue) = n - 1 /\ n \in Nat \ {0}
      /\ \A j \in 1 .. n - 1 : m'.queue[j] = m.queue[at(j)]
  <2>1. m.queue \in Seq(Lockers) /\ n \in Nat \ {0}
    BY <1>6, WakeTypes
  <2>2. \A j \in 1 .. n - 1 : m'.queue[j] = IF j < i THEN m.queue[j] ELSE m.queue[j + 1]
    BY <1>6, <2>1, RemoveAtEffect
  <2> QED BY <1>6, <2>1, <2>2, RemoveAtEffect
<1>8. \A j \in 1 .. n - 1 : at(j) \in 1 .. n /\ at(j) # i
  BY <1>7
<1>9. \A j, k \in 1 .. n - 1 : j # k => at(j) # at(k)
  BY <1>7
<1>10. \A k \in 1 .. n : k # i => \E j \in 1 .. n - 1 : at(j) = k
  <2> SUFFICES ASSUME NEW k \in 1 .. n, k # i PROVE \E j \in 1 .. n - 1 : at(j) = k
    OBVIOUS
  <2>1. CASE k < i BY <1>7, <2>1
  <2>2. CASE ~(k < i)
    <3>1. k - 1 \in 1 .. n - 1 /\ at(k - 1) = k
      BY <1>7, <2>2
    <3> QED BY <3>1
  <2> QED BY <2>1, <2>2
<1> HIDE DEF at, n
<1>11. /\ \A j \in 1 .. n : m.queue[j] \in Lockers /\ pc[m.queue[j]] = "wait"
       /\ \A j, k \in 1 .. n : j # k => m.queue[j] # m.queue[k]
       /\ \A u \in Lockers : pc[u] = "wait" => \E j \in 1 .. n : m.queue[j] = u
  BY WakeTypes DEF WakeInv, QueueInv, n
<1>12. QueueInv'
  <2>1. \A j \in 1 .. n - 1 : pc'[m'.queue[j]] = "wait"
    <3> SUFFICES ASSUME NEW j \in 1 .. n - 1 PROVE pc'[m.queue[at(j)]] = "wait"
      BY <1>7
    <3>1. m.queue[at(j)] # t /\ m.queue[at(j)] \in Lockers /\ pc[m.queue[at(j)]] = "wait"
      BY <1>6, <1>8, <1>11 DEF n
    <3> QED BY <1>3, <3>1, WakeTypes
  <2>2. \A j, k \in 1 .. n - 1 : j # k => m'.queue[j] # m'.queue[k]
    <3> SUFFICES ASSUME NEW j \in 1 .. n - 1, NEW k \in 1 .. n - 1, j # k
                 PROVE  m'.queue[j] # m'.queue[k]
      OBVIOUS
    <3>1. at(j) \in 1 .. n /\ at(k) \in 1 .. n /\ at(j) # at(k)
      BY <1>8, <1>9
    <3>2. m.queue[at(j)] # m.queue[at(k)]
      BY <1>11, <3>1
    <3> QED BY <1>7, <3>2
  <2>3. \A u \in Lockers : pc'[u] = "wait" => \E j \in 1 .. n - 1 : m'.queue[j] = u
    <3> SUFFICES ASSUME NEW u \in Lockers, pc'[u] = "wait"
                 PROVE  \E j \in 1 .. n - 1 : m'.queue[j] = u
      OBVIOUS
    <3>1. u # t /\ pc[u] = "wait"
      BY <1>3, WakeTypes
    <3>2. PICK k \in 1 .. n : m.queue[k] = u
      BY <1>11, <3>1
    <3>3. k # i
      BY <1>6, <3>1, <3>2
    <3>4. PICK j \in 1 .. n - 1 : at(j) = k
      BY <1>10, <3>3
    <3> QED BY <1>7, <3>2, <3>4
  <2>4. m'.queue # <<>> => m'.waiters
    BY <1>1, <1>6, WakeTypes DEF WakeInv, QueueInv
  <2> QED BY <1>7, <2>1, <2>2, <2>3, <2>4 DEF QueueInv
<1>13. OwnerInv'
  BY <1>1, <1>3 DEF OwnerInv
<1>14. WaiterMinded'
  BY <1>3, <1>12 DEF WaiterMinded, QueueInv
<1> QED BY <1>5, <1>12, <1>13, <1>14 DEF WakeInv

(* A waiter wakes up in vain: somebody is inside, or was handed the mutex. *)
LEMMA RetryWake ==
  ASSUME ExclInv, WakeInv, NEW t \in Lockers, WakeRetry(t)
  PROVE  WakeInv'
<1>0. /\ pc[t] = "wait" /\ m.task # NoTask /\ ~(m.pickup /\ m.task = t)
      /\ m' = RetryFailed(m, t) /\ cleared' = cleared /\ pc' = pc
      /\ awake' = [awake EXCEPT ![t] = FALSE]
  BY DEF WakeRetry, CanAcquire
<1>1. /\ m' \in Mutexes /\ m'.task = m.task /\ m'.pickup = m.pickup
      /\ m'.queue = m.queue /\ m'.waiters = m.waiters
  BY <1>0, WakeTypes, RetryEffect
<1>2. awake' \in [Lockers -> BOOLEAN]
  BY <1>0, WakeTypes, Zenon
<1>3. m.task \in Lockers /\ m.task # t /\ awake'[m.task] = awake[m.task]
  <2>1. m.task \in Lockers /\ m.task # t
    BY <1>0, OwnerIsThere, WakeTypes
  <2> QED BY <1>0, <2>1, WakeTypes
<1>4. MutexInv'
  BY <1>0, <1>1, <1>2 DEF WakeInv, MutexInv
<1>5. QueueInv'
  BY <1>0, <1>1 DEF WakeInv, QueueInv
<1>6. OwnerInv'
  BY <1>0, <1>1, <1>3 DEF WakeInv, OwnerInv
<1>7. WaiterMinded'
  <2>1. \/ pc'[m.task] \in Inside
        \/ pc'[m.task] = "wait" /\ awake'[m.task]
    BY <1>0, <1>3, OwnerIsThere
  <2> QED BY <1>3, <1>5, <2>1 DEF WaiterMinded, QueueInv
<1> QED BY <1>4, <1>5, <1>6, <1>7 DEF WakeInv

(* The owner leaves and wakes the first waiter.                            *)
LEMMA UnlockWake ==
  ASSUME ExclInv, WakeInv, NEW t \in Lockers, Unlock(t)
  PROVE  WakeInv'
<1> DEFINE l == IF t \in Writers THEN "off" ELSE "nap"
<1>0. /\ pc[t] = "unlock" /\ m' = Release(m) /\ pc' = [pc EXCEPT ![t] = l]
      /\ awake' = [u \in Lockers |-> awake[u] \/ u \in Woken(m)]
      /\ cleared' = (cleared /\ \E u \in Lockers \ {t} : pc[u] \in Inside)
  BY DEF Unlock, Goto
<1>1. ~cleared'
  BY <1>0 DEF WakeInv, MutexInv
<1>2. m.task = t /\ ~m.pickup
  BY <1>0, WakeTypes DEF WakeInv, OwnerInv, Inside
<1>3. /\ m' \in Mutexes /\ m'.queue = m.queue /\ m'.waiters = m.waiters
      /\ \/ m'.task = NoTask /\ ~m'.pickup
         \/ m.queue # <<>> /\ m'.task = Head(m.queue) /\ m'.pickup
  BY <1>0, <1>2, WakeTypes, ReleaseEffect
<1>4. pc'[t] \notin Inside \cup {"wait", "clear"} /\ \A u \in Users \ {t} : pc'[u] = pc[u]
  BY <1>0, WakeTypes DEF Inside
<1>5. awake' \in [Lockers -> BOOLEAN]
  BY <1>0, WakeTypes
<1>6. m.queue # <<>> => /\ Head(m.queue) \in Lockers /\ Head(m.queue) # t
                        /\ pc'[Head(m.queue)] = "wait" /\ awake'[Head(m.queue)]
  <2> SUFFICES ASSUME m.queue # <<>> PROVE
        /\ Head(m.queue) \in Lockers /\ Head(m.queue) # t
        /\ pc'[Head(m.queue)] = "wait" /\ awake'[Head(m.queue)]
    OBVIOUS
  <2>1. 1 \in 1 .. Len(m.queue) /\ Head(m.queue) = m.queue[1]
    BY WakeTypes
  <2>2. Head(m.queue) \in Lockers /\ pc[Head(m.queue)] = "wait"
    BY <2>1, WakeTypes DEF WakeInv, QueueInv
  <2>3. Head(m.queue) \in Woken(m)
    BY DEF WakeInv, QueueInv, Woken
  <2> QED BY <1>0, <1>4, <2>2, <2>3, WakeTypes
<1>7. MutexInv'
  BY <1>1, <1>3, <1>4, <1>5, WakeTypes DEF WakeInv, MutexInv
<1>8. \A u \in Lockers : pc'[u] = "wait" <=> pc[u] = "wait"
  BY <1>0, <1>4, WakeTypes
<1>9. QueueInv'
  BY <1>3, <1>8, WakeTypes DEF WakeInv, QueueInv
<1>10. OwnerInv'
  BY <1>3, <1>6, NamesDistinct DEF OwnerInv
<1>11. WaiterMinded'
  BY <1>3, <1>6 DEF WaiterMinded
<1> QED BY <1>7, <1>9, <1>10, <1>11 DEF WakeInv

LEMMA NextWake ==
  ASSUME attackMode = "write", ExclInv, ModInv, WakeInv, [Next]_vars
  PROVE  WakeInv'
<1>0. /\ A \in Lockers /\ B \in Lockers /\ C \notin Lockers /\ A \in Users /\ B \in Users
      /\ C \in Users /\ \A w \in Writers : w \in Lockers /\ w \in Users
  BY NamesDistinct DEF Users, Lockers
<1>1. pc \in [Users -> Labels] /\ pc[C] # "clear" /\ awake \in [Lockers -> BOOLEAN]
  BY WakeTypes DEF WakeInv, MutexInv
<1>q. ASSUME NEW t \in Users, NEW l \in Labels,
             pc' = [pc EXCEPT ![t] = l], UNCHANGED <<m, awake, cleared>>,
             t \in Lockers => (l \in Inside <=> pc[t] \in Inside),
             t \in Lockers => (l = "wait" <=> pc[t] = "wait"),
             l # "clear"
      PROVE  WakeInv'
  BY <1>1, <1>q, QuietWake
<1>a. ASSUME NEW t \in Threads, RequestStop(t)
      PROVE  awake' \in [Lockers -> BOOLEAN] /\ \A u \in Lockers : awake[u] => awake'[u]
  <2>1. CASE awake' = awake BY <1>1, <2>1
  <2>2. CASE t \in Lockers /\ awake' = [awake EXCEPT ![t] = TRUE]
    <3>1. awake' \in [Lockers -> BOOLEAN]
      BY <1>1, <2>2, Zenon
    <3> QED BY <1>1, <2>2, <3>1
  <2> QED BY <1>a, <2>1, <2>2 DEF RequestStop
<1>w. ASSUME NEW t \in Threads, RequestStop(t), UNCHANGED <<m, pc, cleared>>
      PROVE  WakeInv'
  <2>1. pc' = [pc EXCEPT ![C] = pc[C]] /\ pc[C] \in Labels
    BY <1>0, <1>1, <1>w
  <2> QED BY <1>0, <1>1, <1>a, <1>w, <2>1, QuietWake
<1>2. ASSUME NEW t \in Users, ThreadStep(t) PROVE WakeInv'
  <2>1. CASE t \in Threads /\ (ThreadExit(t) \/ NapEnds(t))
    BY <1>q, <2>1 DEF ThreadExit, NapEnds, Goto, Labels, Inside
  <2>2. CASE t \in Lockers /\ MutexStep(t)
    <3>1. CASE LockFast(t)
      <4>1. Entry(t) \in Inside
        BY DEF Entry, Inside
      <4> QED BY <2>2, <3>1, <4>1, EnterWake DEF LockFast, Goto
    <3> QED BY <2>2, <3>1, SleepWake, AcquireWake, RetryWake, UnlockWake DEF MutexStep
  <2>3. CASE t = A /\ AStep
    <3>1. CASE ATrylock
      <4>1. CASE CanAcquire(m, A)
        BY <1>0, <3>1, <4>1, EnterWake DEF ATrylock, Goto, Inside
      <4>2. CASE ~CanAcquire(m, A)
        BY <1>0, <1>q, <3>1, <4>2 DEF ATrylock, Goto, Labels, Inside
      <4> QED BY <4>1, <4>2
    <3>2. CASE ARead BY <1>0, <1>q, <3>2 DEF ARead, Goto, Labels, Inside
    <3>3. CASE AHold BY <1>0, <1>q, <3>3 DEF AHold, Goto, Labels, Inside
    <3>4. CASE ACheck BY <1>0, <1>q, <3>4 DEF ACheck, Goto, Labels, Inside
    <3> QED BY <2>3, <3>1, <3>2, <3>3, <3>4 DEF AStep
  <2>4. CASE t = B /\ BStep
    BY <1>0, <1>q, <2>4 DEF BStep, BTop, BWrite, Goto, Labels, Inside
  <2>5. CASE t = C /\ CStep
    <3>1. CStore
      BY <1>1, <2>5 DEF CStep, CSample, CClear
    <3> QED BY <1>0, <1>q, <3>1 DEF CStore, Goto, Labels
  <2>6. CASE t \in Writers /\ WriterWork(t)
    BY <1>0, <1>q, <2>6 DEF WriterWork, Goto, Labels, Inside
  <2> QED BY <1>2, <2>1, <2>2, <2>3, <2>4, <2>5, <2>6 DEF ThreadStep
<1>3. ASSUME NEW w \in Writers, WriterBegin(w) PROVE WakeInv'
  BY <1>0, <1>3, <1>q DEF WriterBegin, Goto, Labels, Inside
<1>4. CASE StartA BY <1>0, <1>4, <1>q DEF StartA, Start, Goto, ModInv, Labels, Inside
<1>5. CASE StopA BY <1>5, <1>w DEF StopA, Threads
<1>6. CASE StartC BY <1>0, <1>6, <1>q DEF StartC, Start, Goto, Labels
<1>7. CASE StopC BY <1>7, <1>w DEF StopC, Threads
<1>8. CASE StartB BY <1>0, <1>8, <1>q DEF StartB, Start, Goto, ModInv, Labels, Inside
<1>9. CASE StartBFails BY <1>9, <1>w DEF StartBFails, Threads
<1>10. CASE AbortJoin BY <1>0, <1>10, <1>q DEF AbortJoin, Join, Goto, Labels, Inside
<1>11. CASE JoinAStopB
  <2>1. /\ pc[A] = "exited" /\ pc' = [pc EXCEPT ![A] = "off"] /\ UNCHANGED <<m, cleared>>
        /\ RequestStop(B) /\ B \in Threads
    BY <1>11 DEF JoinAStopB, Join, Goto, Threads
  <2>2. "off" \in Labels /\ "off" \notin Inside /\ "exited" \notin Inside
    BY DEF Labels, Inside
  <2> QED BY <1>0, <1>a, <2>1, <2>2, QuietWake
<1>12. CASE JoinB BY <1>0, <1>12, <1>q DEF JoinB, Join, Goto, Labels, Inside
<1>13. CASE JoinC BY <1>0, <1>13, <1>q DEF JoinC, Join, Goto, Labels
<1>14. CASE UNCHANGED vars
  BY <1>14 DEF vars, WakeInv, MutexInv, QueueInv, OwnerInv, WaiterMinded
<1> QED BY <1>2, <1>3, <1>4, <1>5, <1>6, <1>7, <1>8, <1>9, <1>10, <1>11, <1>12, <1>13, <1>14
        DEF Next, OperatorStep, ThreadsModStep, Users

(* attack_mode is set by insmod's command line and by nothing else.        *)
LEMMA ModeKept ==
  ASSUME ShapeInv, [Next]_vars
  PROVE  attackMode' = attackMode
<1>1. CASE \E t \in Lockers \cup {C} : ThreadStep(t)
  BY <1>1, OneMoves DEF Users, modVars
<1>2. CASE \E w \in Writers : WriterBegin(w)
  BY <1>2 DEF WriterBegin, modVars
<1>3. CASE OperatorStep BY <1>3 DEF OperatorStep, StartA, StopA, StartC, StopC
<1>4. CASE ThreadsModStep
  BY <1>4 DEF ThreadsModStep, StartB, StartBFails, AbortJoin, JoinAStopB, JoinB
<1>5. CASE JoinC BY <1>5 DEF JoinC
<1>6. CASE UNCHANGED vars BY <1>6 DEF vars, modVars
<1> QED BY <1>1, <1>2, <1>3, <1>4, <1>5, <1>6 DEF Next

LEMMA InitWake == Init => WakeInv
<1> SUFFICES ASSUME Init PROVE WakeInv
  OBVIOUS
<1>1. m = [task |-> NoTask, waiters |-> FALSE, handoff |-> FALSE, pickup |-> FALSE,
           queue |-> <<>>]
  BY DEF Init, FreeMutex
<1>2. m \in Mutexes
  BY <1>1 DEF Mutexes
<1>3. awake \in [Lockers -> BOOLEAN]
  BY DEF Init
<1>4. \A t \in Users : pc[t] = "off"
  BY DEF Init, Users
<1>5. Lockers \subseteq Users /\ C \in Users
  BY DEF Users
<1>6. MutexInv
  BY <1>2, <1>3, <1>4, <1>5 DEF Init, MutexInv
<1>7. QueueInv /\ OwnerInv /\ WaiterMinded
  BY <1>1, <1>4, <1>5 DEF QueueInv, OwnerInv, WaiterMinded
<1> QED BY <1>6, <1>7 DEF WakeInv

(* While rogue_thread only stores to the page, no waiter of safety_mutex   *)
(* is forgotten: somebody inside will wake the first of them, or one is    *)
(* awake.  For any number of writers, with handoffs, and with rmmod waking *)
(* Threads A and B in the queue.                                           *)
THEOREM NoneForgotten == Spec => []NoLostWakeup
<1> DEFINE Inv == ExclInv /\ ModInv /\ (attackMode = "write" => WakeInv)
<1>1. Init => Inv
  <2>1. Init => ModInv
    BY NamesDistinct DEF Init, ModInv
  <2> QED BY <2>1, InitExcl, InitWake
<1>2. Inv /\ [Next]_vars => Inv'
  <2> SUFFICES ASSUME Inv, [Next]_vars PROVE Inv'
    OBVIOUS
  <2>1. attackMode' = attackMode
    BY ModeKept DEF ExclInv
  <2> QED BY <2>1, NextExcl, NextMod, NextWake DEF ExclInv
<1>3. Inv => NoLostWakeup
  BY DEF WakeInv, NoLostWakeup
<1> QED BY <1>1, <1>2, <1>3, PTL DEF Spec

=============================================================================
