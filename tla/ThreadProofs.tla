----------------------------- MODULE ThreadProofs -----------------------------
(***************************************************************************)
(* Proofs about Thread, for any users and any number of starts.            *)
(***************************************************************************)
EXTENDS Thread, TLAPS

-----------------------------------------------------------------------------
(* The flags are Boolean.                                                  *)

\* Every flag of the reference stays a Boolean, whatever function is called.
LEMMA FlagsStep == FlagType /\ [Next]_vars => FlagType'
<1>. SUFFICES ASSUME FlagType, [Next]_vars PROVE FlagType'
  OBVIOUS
<1>. USE DEF FlagType, refVars, condVars, pthreadVars, userVars, histVars
<1>1. ASSUME NEW u \in Users, NEW r \in Routines, Start(u, r) \/ StartFails(u, r)
      PROVE  FlagType'
  BY <1>1, Zenon DEF Start, StartFails, Prepare
<1>2. ASSUME NEW u \in Users, Cancel(u) PROVE FlagType'
  BY <1>2, Zenon DEF Cancel, NotifyAll
<1>3. ASSUME NEW u \in Users, Join(u) \/ OutsideJoin(u) \/ KillLater(u) \/ Kill(u)
      PROVE  FlagType'
  BY <1>3, ZenonT(40) DEF Join, OutsideJoin, KillLater, Kill
<1>4. ASSUME NEW u \in Users, UserStep(u) PROVE FlagType'
  <2>1. CASE JoinTid(u) \/ JoinReturn(u)
    BY <2>1, ZenonT(40) DEF JoinTid, JoinReturn
  <2>2. CASE KillTid(u)
    BY <2>2, Zenon DEF KillTid
  <2>. QED
    BY <1>4, <2>1, <2>2 DEF UserStep
<1>5. CASE Destroy
  BY <1>5, Zenon DEF Destroy, RemoveRef
<1>6. ASSUME NEW g \in Gens, ThreadInit(g) \/ Check(g) \/ RunEnds(g) \/ Exit(g)
      PROVE  FlagType'
  <2>1. CASE ThreadInit(g)
    BY <2>1, Zenon DEF ThreadInit
  <2>2. CASE Check(g) \/ Exit(g)
    BY <2>2, ZenonT(40) DEF Check, Exit
  <2>3. CASE RunEnds(g)
    BY <2>3, Zenon DEF RunEnds
  <2>. QED
    BY <1>6, <2>1, <2>2, <2>3
<1>7. ASSUME NEW g \in Gens,
             WaitTest(g) \/ WaitSleep(g) \/ WaitTimeout(g) \/ WaitReturn(g) \/ Again(g)
      PROVE  FlagType'
  <2>1. CASE WaitTest(g) \/ WaitSleep(g)
    BY <2>1, ZenonT(40) DEF WaitTest, WaitSleep
  <2>2. CASE WaitTimeout(g) \/ WaitReturn(g)
    BY <2>2, Zenon DEF WaitTimeout, WaitReturn
  <2>3. CASE Again(g)
    BY <2>3, Zenon DEF Again
  <2>. QED
    BY <1>7, <2>1, <2>2, <2>3
<1>8. ASSUME NEW g \in Gens, Cleanup(g) PROVE FlagType'
  BY <1>8, Zenon DEF Cleanup, RemoveRef
<1>9. CASE UNCHANGED vars
  BY <1>9, Zenon DEF vars
<1>. QED
  BY <1>1, <1>2, <1>3, <1>4, <1>5, <1>6, <1>7, <1>8, <1>9 DEF Next, Call, PThread

\* new Thread establishes the invariant.
LEMMA InitInductive == Init => Inductive
<1>. SUFFICES ASSUME Init PROVE Inductive
  OBVIOUS
<1>. USE MaxStartsAssumption DEF Init, Gens, Active
<1>1. FlagType
  BY Zenon DEF FlagType
<1>2. DataType
  BY DEF DataType, Routines, LateCap, ThreadPCs
<1>3. OneThread /\ Unborn /\ Counted
  BY DEF OneThread, Unborn, Counted
<1>4. Stopping /\ Noticed /\ JoinsReal
  BY DEF Stopping, Noticed, JoinsReal
<1>. QED
  BY <1>1, <1>2, <1>3, <1>4 DEF Inductive, TypeOK

-----------------------------------------------------------------------------
(* The functions of the object.                                            *)

\* Join, kill and their later steps leave most of the invariant's state alone.
LEMMA Frame ==
    ASSUME Inductive, FlagType', DataType', JoinsReal',
           UNCHANGED <<object, count, isended, iscanceldelaystart, tid, freed, condVars, tpc,
                       asked, late>>
    PROVE  Inductive'
<1>. USE DEF Inductive, condVars
<1>1. OneThread' /\ Unborn'
  BY DEF OneThread, Unborn, Active
<1>2. Counted'
  BY DEF Counted
<1>3. Stopping' /\ Noticed'
  BY DEF Stopping, Noticed, Active
<1>. QED
  BY <1>1, <1>2, <1>3 DEF TypeOK

\* start, with a pthread created.
LEMMA StepStart ==
    ASSUME Inductive, FlagType', NEW u \in Users, NEW r \in Routines, Start(u, r)
    PROVE  Inductive'
<1>. USE MaxStartsAssumption DEF Inductive, TypeOK, Start, Prepare, isruning, Idle
<1>1. tid + 1 \in Gens /\ tpc[tid + 1] = "none" /\ Active = {}
  BY DEF FlagType, DataType, Gens, Unborn, OneThread
<1>2. DataType'
  <2>1. count' \in 0 .. 2
    BY DEF Counted, FlagType
  <2>2. tid' \in 0 .. MaxStarts /\ (anyway_notify_ \in {0, 1})'
    BY DEF DataType
  <2>3. (tpc \in [Gens -> ThreadPCs])'
    BY <1>1 DEF DataType, ThreadPCs
  <2>. QED
    BY <2>1, <2>2, <2>3 DEF DataType, userVars, LateCap
<1>3. OneThread'
  BY <1>1 DEF OneThread, Active, DataType, ThreadPCs
<1>4. Unborn'
  BY <1>1 DEF Unborn, DataType, Gens
<1>5. Counted'
  BY DEF Counted, FlagType, DataType
<1>6. Stopping' /\ Noticed'
  BY <1>1 DEF Stopping, Noticed
<1>7. JoinsReal'
  BY DEF JoinsReal, DataType, userVars
<1>. QED
  BY <1>2, <1>3, <1>4, <1>5, <1>6, <1>7

\* start, when pthread_create fails.
LEMMA StepStartFails ==
    ASSUME Inductive, FlagType', NEW u \in Users, NEW r \in Routines, StartFails(u, r)
    PROVE  Inductive'
<1>. USE DEF Inductive, TypeOK, StartFails, Prepare, pthreadVars, userVars, isruning
<1>1. DataType'
  BY DEF DataType, LateCap
<1>2. OneThread' /\ Unborn'
  BY DEF OneThread, Unborn, Active
<1>3. Counted'
  BY DEF Counted
<1>4. Stopping' /\ Noticed' /\ JoinsReal'
  BY DEF Stopping, Noticed, JoinsReal, Active
<1>. QED
  BY <1>1, <1>2, <1>3, <1>4

\* cancel_after and cancel_periodic.
LEMMA StepCancel ==
    ASSUME Inductive, FlagType', NEW u \in Users, Cancel(u)
    PROVE  Inductive'
<1>. USE DEF Inductive, TypeOK, Cancel, NotifyAll, userVars
<1>1. Active' = Active
  BY DEF Active, DataType
<1>2. DataType'
  BY DEF DataType, ThreadPCs
<1>3. OneThread' /\ Unborn'
  BY <1>1 DEF OneThread, Unborn
<1>4. Counted'
  BY DEF Counted
<1>5. Stopping'
  BY <1>1 DEF Stopping, Active, DataType
<1>6. Noticed' /\ JoinsReal'
  BY DEF Noticed, JoinsReal, DataType
<1>. QED
  BY <1>2, <1>3, <1>4, <1>5, <1>6

\* join, outside_join, kill, and what follows them without the lock.
LEMMA StepUser ==
    ASSUME Inductive, FlagType', NEW u \in Users,
           \/ Join(u) \/ OutsideJoin(u) \/ KillLater(u) \/ Kill(u)
           \/ JoinTid(u) \/ JoinReturn(u) \/ KillTid(u)
    PROVE  Inductive'
<1>. USE MaxStartsAssumption
     DEF Inductive, TypeOK, refVars, condVars, pthreadVars, userVars, histVars
<1>1. CASE Join(u)
  <2>1. tid # 0
    BY <1>1 DEF Join, isruning, OneThread, Active, Gens
  <2>2. DataType' /\ JoinsReal'
    BY <1>1, <2>1 DEF DataType, JoinsReal, Join
  <2>. QED
    BY <1>1, <2>2, Frame DEF Join
<1>2. CASE OutsideJoin(u) \/ KillLater(u)
  <2>1. DataType' /\ JoinsReal'
    BY <1>2 DEF DataType, JoinsReal, OutsideJoin, KillLater
  <2>. QED
    BY <1>2, <2>1, Frame DEF OutsideJoin, KillLater
<1>3. CASE Kill(u) \/ KillTid(u)
  <2>1. DataType' /\ JoinsReal'
    BY <1>3 DEF DataType, JoinsReal, Kill, KillTid
  <2>. QED
    BY <1>3, <2>1, Frame DEF Kill, KillTid
<1>4. CASE JoinTid(u)
  <2>1. DataType' /\ JoinsReal'
    BY <1>4 DEF DataType, JoinsReal, JoinTid
  <2>. QED
    BY <1>4, <2>1, Frame DEF JoinTid
<1>5. CASE JoinReturn(u)
  <2>1. target[u] \in Gens
    BY <1>5 DEF JoinReturn, JoinsReal, DataType, Gens
  <2>2. DataType' /\ JoinsReal'
    BY <1>5, <2>1 DEF DataType, JoinsReal, JoinReturn
  <2>. QED
    BY <1>5, <2>2, Frame DEF JoinReturn
<1>. QED
  BY <1>1, <1>2, <1>3, <1>4, <1>5

\* ~Thread.
LEMMA StepDestroy ==
    ASSUME Inductive, FlagType', Destroy
    PROVE  Inductive'
<1>. USE DEF Inductive, TypeOK, Destroy, RemoveRef, condVars, pthreadVars, userVars, histVars
<1>1. Counted' /\ count' \in 0 .. 2
  BY DEF Counted, FlagType
<1>2. DataType'
  BY <1>1 DEF DataType
<1>3. OneThread' /\ Unborn'
  BY DEF OneThread, Unborn, Active
<1>4. Stopping' /\ Noticed' /\ JoinsReal'
  BY DEF Stopping, Noticed, JoinsReal, Active
<1>. QED
  BY <1>1, <1>2, <1>3, <1>4

-----------------------------------------------------------------------------
(* The pthread.                                                            *)

\* A step of the running pthread that changes its place only, or also the notification.
LEMMA Move ==
    ASSUME Inductive, FlagType', NEW g \in Active, NEW pc \in ThreadPCs,
           pc \notin {"none", "exit", "dead"},
           TGoto(g, pc),
           UNCHANGED <<object, count, isended, iscanceldelaystart, tid, freed, missed, routine,
                       detached, joined, userVars, asked>>,
           anyway_notify_' \in {0, 1}, late' \in 0 .. LateCap,
           Stopping', asked => /\ pc = "wait" => anyway_notify_' = 1
                               /\ pc \in {"tested", "sleep"} => missed
    PROVE  Inductive'
<1>. USE DEF Inductive, TypeOK, TGoto, userVars
<1>1. g \in Gens /\ Active = {g} /\ g = tid /\ ~isended
  BY DEF OneThread, Active, FlagType
<1>2. DataType'
  BY <1>1 DEF DataType
<1>3. Active' = Active
  BY <1>1 DEF Active, DataType, ThreadPCs
<1>4. OneThread' /\ Unborn'
  BY <1>1, <1>3 DEF OneThread, Unborn, DataType, Gens
<1>5. Counted' /\ JoinsReal'
  BY DEF Counted, JoinsReal
<1>6. Noticed'
  <2>1. \A h \in Gens : h # g => tpc'[h] \notin {"wait", "tested", "sleep"}
    BY <1>1 DEF Active, DataType
  <2>. QED
    BY <1>1, <2>1 DEF Noticed, DataType
<1>. QED
  BY <1>2, <1>4, <1>5, <1>6

\* The routines between init and cleanup.
LEMMA StepRoutine ==
    ASSUME Inductive, FlagType', NEW g \in Gens,
           \/ ThreadInit(g) \/ Check(g) \/ WaitTest(g) \/ WaitSleep(g) \/ WaitTimeout(g)
           \/ WaitReturn(g) \/ Again(g) \/ RunEnds(g)
    PROVE  Inductive'
<1>. USE DEF Inductive, TypeOK, refVars, condVars, userVars, histVars
<1>1. CASE ThreadInit(g)
  BY <1>1, Move DEF ThreadInit, Active, ThreadPCs, Stopping, DataType, FlagType, TGoto
<1>2. CASE Check(g)
  BY <1>2, Move DEF Check, Active, ThreadPCs, Stopping, DataType, FlagType, TGoto
<1>3. CASE WaitTest(g)
  BY <1>3, Move DEF WaitTest, Active, ThreadPCs, Stopping, Noticed, DataType, FlagType, TGoto
<1>4. CASE WaitSleep(g)
  BY <1>4, Move DEF WaitSleep, Active, ThreadPCs, Stopping, Noticed, DataType, FlagType, TGoto
<1>5. CASE WaitTimeout(g)
  BY <1>5, Move DEF WaitTimeout, Active, ThreadPCs, Stopping, DataType, FlagType, TGoto
<1>6. CASE WaitReturn(g)
  BY <1>6, Move DEF WaitReturn, Active, ThreadPCs, Stopping, DataType, FlagType, TGoto
<1>7. CASE Again(g)
  BY <1>7, Move DEF Again, Active, ThreadPCs, Stopping, DataType, FlagType, TGoto
<1>8. CASE RunEnds(g)
  <2>1. PICK pc \in {"check", "cleanup"} : TGoto(g, pc)
    BY <1>8 DEF RunEnds
  <2>2. g \in Active /\ Active = {g} /\ late = 0
    BY <1>8 DEF RunEnds, OneThread, Active, Stopping, DataType, LateCap
  <2>3. late' = 0 \/ (late' = 1 /\ asked)
    BY <1>8, <2>2 DEF RunEnds, LateCap
  <2>4. \A h \in Active' : tpc'[h] \in {"check", "cleanup"}
    BY <2>1, <2>2 DEF Active, TGoto, DataType
  <2>5. Stopping'
    BY <1>8, <2>3, <2>4 DEF RunEnds, Stopping
  <2>. QED
    BY <1>8, <2>1, <2>2, <2>3, <2>5, Move DEF RunEnds, ThreadPCs, DataType, LateCap
<1>. QED
  BY <1>1, <1>2, <1>3, <1>4, <1>5, <1>6, <1>7, <1>8

\* cleanup.
LEMMA StepCleanup ==
    ASSUME Inductive, FlagType', NEW g \in Gens, Cleanup(g)
    PROVE  Inductive'
<1>. USE DEF Inductive, TypeOK, Cleanup, RemoveRef, TGoto, condVars, userVars
<1>1. Active = {g} /\ g = tid /\ ~isended
  BY DEF OneThread, Active, FlagType
<1>2. Counted' /\ count' \in 0 .. 2
  <2>1. count = (IF object THEN 2 ELSE 1) /\ count' = count - 1 /\ isended'
    BY <1>1 DEF Counted
  <2>2. freed' <=> count = 1
    OBVIOUS
  <2>3. object' = object
    OBVIOUS
  <2>. QED
    BY ONLY <2>1, <2>2, <2>3, FlagType DEF Counted, FlagType
<1>3. DataType'
  BY <1>2 DEF DataType, ThreadPCs
<1>4. Active' = {}
  BY <1>1 DEF Active, DataType
<1>5. OneThread' /\ Unborn'
  BY <1>1, <1>4 DEF OneThread, Unborn, DataType, Gens
<1>6. Stopping' /\ Noticed' /\ JoinsReal'
  BY <1>4 DEF Stopping, Noticed, JoinsReal, DataType
<1>. QED
  BY <1>2, <1>3, <1>5, <1>6

\* The end of the pthread.
LEMMA StepExit ==
    ASSUME Inductive, FlagType', NEW g \in Gens, Exit(g)
    PROVE  Inductive'
<1>. USE DEF Inductive, TypeOK, Exit, TGoto, refVars, condVars, userVars, histVars
<1>1. Active' = Active
  BY DEF Active, DataType
<1>2. DataType'
  BY DEF DataType, ThreadPCs
<1>3. OneThread' /\ Unborn'
  BY <1>1 DEF OneThread, Unborn, DataType
<1>4. Counted' /\ JoinsReal'
  BY DEF Counted, JoinsReal
<1>5. Stopping' /\ Noticed'
  BY <1>1 DEF Stopping, Noticed, Active, DataType
<1>. QED
  BY <1>2, <1>3, <1>4, <1>5

-----------------------------------------------------------------------------
(* The theorems.                                                           *)

\* Every step of every function and of the pthread keeps the invariant.
LEMMA NextInductive == Inductive /\ [Next]_vars => Inductive'
<1>. SUFFICES ASSUME Inductive, [Next]_vars PROVE Inductive'
  OBVIOUS
<1>1. FlagType'
  BY FlagsStep DEF Inductive, TypeOK
<1>2. ASSUME NEW u \in Users, Call(u) \/ UserStep(u) PROVE Inductive'
  BY <1>1, <1>2, StepStart, StepStartFails, StepCancel, StepUser DEF Call, UserStep
<1>3. CASE Destroy
  BY <1>1, <1>3, StepDestroy
<1>4. ASSUME NEW g \in Gens, PThread(g) PROVE Inductive'
  BY <1>1, <1>4, StepRoutine, StepCleanup, StepExit DEF PThread
<1>5. CASE UNCHANGED vars
  <2>1. DataType' /\ JoinsReal'
    BY <1>5 DEF Inductive, TypeOK, DataType, JoinsReal, vars, refVars, condVars, pthreadVars,
                userVars, histVars
  <2>. QED
    BY <1>1, <1>5, <2>1, Frame
    DEF vars, refVars, condVars, pthreadVars, userVars, histVars
<1>. QED
  BY <1>2, <1>3, <1>4, <1>5 DEF Next

\* The inductive invariant holds in every reachable state.
THEOREM InductiveCorrect == Spec => []Inductive
<1>. QED
  BY InitInductive, NextInductive, PTL DEF Spec

\* The types hold: in particular the reference count never leaves 0 .. 2.
THEOREM TypeCorrect == Spec => []TypeOK
<1>1. Inductive => TypeOK
  BY DEF Inductive
<1>. QED
  BY <1>1, InductiveCorrect, PTL

\* start never lets two pthreads of one object run at the same time.
THEOREM AtMostOneThread == Spec => []OneThread
<1>1. Inductive => OneThread
  BY DEF Inductive
<1>. QED
  BY <1>1, InductiveCorrect, PTL

\* The RunnableReference is deleted when, and only when, neither the Thread object nor a
\* pthread can use it.
THEOREM FreedWhenUnused == Spec => []FreedIffUnused
<1>1. Inductive => FreedIffUnused
  BY DEF Inductive, TypeOK, FlagType, OneThread, Counted, FreedIffUnused
<1>. QED
  BY <1>1, InductiveCorrect, PTL

\* After a cancel at most one run() comes to its end, and only a cancel that falls into the
\* gap of Condition::wait is slept over.
THEOREM CancelCorrect == Spec => []CancelWorks
<1>1. Inductive => CancelWorks
  BY DEF Inductive, Stopping, Noticed, CancelWorks, CancelHolds, PromptCancel
<1>. QED
  BY <1>1, InductiveCorrect, PTL
===============================================================================
