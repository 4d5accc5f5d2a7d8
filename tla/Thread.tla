-------------------------------- MODULE Thread --------------------------------
(***************************************************************************)
(* class Thread of utils/thread.h and the Condition it sleeps on           *)
(* (utils/condition.h).  A Thread object and the pthreads it creates share *)
(* a RunnableReference, counted: one reference for the object, one for the *)
(* pthread from its creation to its cleanup handler.  A pthread is named by*)
(* the order of creation, tid is the last one created.                     *)
(*                                                                         *)
(* A section under the reference's spin lock is one action; what a function*)
(* does after it has released the lock (pthread_join, pthread_kill) is a   *)
(* later action, which reads tid then, as the code does.  The time a       *)
(* pthread sleeps is not modelled: a timed wait may end at any moment.     *)
(***************************************************************************)
EXTENDS Integers, FiniteSets

CONSTANTS
    Users,      \* the threads that call the object's functions
    MaxStarts   \* bound: the number of pthreads created

ASSUME MaxStartsAssumption == MaxStarts \in Nat

Gens == 1 .. MaxStarts
LateCap == 2        \* bound: the history of run() calls after a cancel counts this far
Routines == {"once", "after", "periodic"}

VARIABLES
    object,              \* the Thread object exists
    count, isjoined, isended, iscanceldelaystart, isinthread, killsig,
    tid,                 \* the last pthread created, or 0
    freed,               \* the RunnableReference was deleted
    anyway_notify_,      \* of condtime
    routine,             \* the routine the last pthread was created with
    tpc,                 \* where every pthread is
    detached, joined,    \* the pthreads whose resources were given back
    upc, target,         \* every user: where it is, and the pthread it joins
    asked,               \* history: the running pthread was cancelled
    late,                \* history: the calls of run() that ended since then
    missed,              \* history: a cancel came between the test and the sleep
    outside              \* history: isjoined was set by outside_join

refVars == <<count, isjoined, isended, iscanceldelaystart, isinthread, killsig, tid, freed>>
condVars == <<anyway_notify_, missed>>
pthreadVars == <<tpc, detached, joined>>
userVars == <<upc, target>>
histVars == <<asked, late, outside>>
vars == <<object, refVars, condVars, routine, pthreadVars, userVars, histVars>>

\* new Thread(op): the reference is created and counted once.
Init ==
    /\ object = TRUE /\ count = 1 /\ isjoined = FALSE /\ isended = TRUE
    /\ iscanceldelaystart = FALSE /\ isinthread = FALSE /\ killsig = FALSE
    /\ tid = 0 /\ freed = FALSE /\ anyway_notify_ = 0 /\ routine = "once"
    /\ tpc = [g \in Gens |-> "none"] /\ detached = {} /\ joined = {}
    /\ upc = [u \in Users |-> "idle"] /\ target = [u \in Users |-> 0]
    /\ asked = FALSE /\ late = 0 /\ missed = FALSE /\ outside = FALSE

isruning == ~isended
Idle(u) == object /\ upc[u] = "idle"

\* RunnableReference::RemoveRef: the last one out deletes it.
RemoveRef ==
    /\ count' = count - 1
    /\ freed' = (count = 1)

-----------------------------------------------------------------------------
(* start, start_after, start_periodic                                      *)

\* start leaves the cancel flag and the notification as they are; the delayed ones clear
\* both.
Prepare(r) ==
    /\ iscanceldelaystart' = (IF r = "once" THEN iscanceldelaystart ELSE FALSE)
    /\ anyway_notify_' = (IF r = "once" THEN anyway_notify_ ELSE 0)
    /\ asked' = FALSE /\ late' = 0 /\ missed' = FALSE

\* Mutant: start without the test for a running thread.
StartAlways(u, r) ==
    /\ Idle(u) /\ tid < MaxStarts
    /\ Prepare(r)
    /\ isended' = FALSE /\ count' = count + 1
    /\ tid' = tid + 1
    /\ routine' = r
    /\ tpc' = [tpc EXCEPT ![tid + 1] = "start"]
    /\ UNCHANGED <<object, isjoined, isinthread, killsig, freed, detached, joined, userVars,
                   outside>>

\* Mutant: start without AddRef.
StartNoRef(u, r) ==
    /\ Idle(u) /\ ~isruning /\ tid < MaxStarts
    /\ Prepare(r)
    /\ isended' = FALSE
    /\ tid' = tid + 1
    /\ routine' = r
    /\ tpc' = [tpc EXCEPT ![tid + 1] = "start"]
    /\ UNCHANGED <<object, count, isjoined, isinthread, killsig, freed, detached, joined,
                   userVars, outside>>

\* The call that creates a pthread; while one is running start returns 0 and does nothing.
Start(u, r) ==
    /\ Idle(u) /\ ~isruning /\ tid < MaxStarts
    /\ Prepare(r)
    /\ isended' = FALSE /\ count' = count + 1
    /\ tid' = tid + 1
    /\ routine' = r
    /\ tpc' = [tpc EXCEPT ![tid + 1] = "start"]
    /\ UNCHANGED <<object, isjoined, isinthread, killsig, freed, detached, joined, userVars,
                   outside>>

\* pthread_create fails: isended is set and the reference given back.
StartFails(u, r) ==
    /\ Idle(u) /\ ~isruning
    /\ Prepare(r)
    /\ UNCHANGED <<object, count, isjoined, isended, isinthread, killsig, tid, freed, routine,
                   pthreadVars, userVars, outside>>

-----------------------------------------------------------------------------
(* The other functions of the object                                       *)

\* Mutant: notifyAll(false).
NotifySleepers ==
    /\ anyway_notify_' = anyway_notify_
    /\ tpc' = [g \in Gens |-> IF tpc[g] = "sleep" THEN "woken" ELSE tpc[g]]
    /\ missed' = (missed \/ \E g \in Gens : tpc[g] = "tested")

\* condtime.notifyAll(true): the flag is for who is not asleep yet.
NotifyAll ==
    /\ anyway_notify_' = 1
    /\ tpc' = [g \in Gens |-> IF tpc[g] = "sleep" THEN "woken" ELSE tpc[g]]
    /\ missed' = (missed \/ \E g \in Gens : tpc[g] = "tested")

\* Mutant: a cancel that wakes the thread and does not set the flag.
CancelWakesOnly(u) ==
    /\ Idle(u) /\ isruning
    /\ NotifyAll
    /\ asked' = TRUE
    /\ UNCHANGED <<object, count, isjoined, isended, iscanceldelaystart, isinthread, killsig,
                   tid, freed, routine, detached, joined, userVars, late, outside>>

\* cancel_after and cancel_periodic.
Cancel(u) ==
    /\ Idle(u) /\ isruning
    /\ iscanceldelaystart' = TRUE
    /\ NotifyAll
    /\ asked' = TRUE
    /\ UNCHANGED <<object, count, isjoined, isended, isinthread, killsig, tid, freed, routine,
                   detached, joined, userVars, late, outside>>

\* join: a thread that has ended is not joined.  Its assertion is a duty of the caller: no
\* second join while one is under way.
Join(u) ==
    /\ Idle(u) /\ ~isjoined /\ isruning
    /\ isjoined' = TRUE
    /\ upc' = [upc EXCEPT ![u] = "join"]
    /\ UNCHANGED <<object, count, isended, iscanceldelaystart, isinthread, killsig, tid, freed,
                   condVars, routine, pthreadVars, target, histVars>>

\* pthread_join(tid(), 0), after the lock was released.
JoinTid(u) ==
    /\ upc[u] = "join"
    /\ upc' = [upc EXCEPT ![u] = "joining"]
    /\ target' = [target EXCEPT ![u] = tid]
    /\ UNCHANGED <<object, refVars, condVars, routine, pthreadVars, histVars>>

\* The join of a pthread that was detached need not return (the warning of thread.h).
JoinReturn(u) ==
    /\ upc[u] = "joining"
    /\ tpc[target[u]] = "dead" /\ target[u] \notin detached
    /\ joined' = joined \cup {target[u]}
    /\ upc' = [upc EXCEPT ![u] = "idle"]
    /\ target' = [target EXCEPT ![u] = 0]
    /\ UNCHANGED <<object, refVars, condVars, routine, tpc, detached, histVars>>

\* outside_join: the next pthread will be joined by somebody who has its tid.
OutsideJoin(u) ==
    /\ Idle(u) /\ ~isjoined /\ ~isruning
    /\ isjoined' = TRUE /\ outside' = TRUE
    /\ UNCHANGED <<object, count, isended, iscanceldelaystart, isinthread, killsig, tid, freed,
                   condVars, routine, pthreadVars, userVars, asked, late>>

\* kill before the thread is up: the signal is kept for init.
KillLater(u) ==
    /\ Idle(u) /\ isruning /\ ~isinthread
    /\ killsig' = TRUE
    /\ UNCHANGED <<object, count, isjoined, isended, iscanceldelaystart, isinthread, tid, freed,
                   condVars, routine, pthreadVars, userVars, histVars>>

\* Otherwise the lock is released and ...
Kill(u) ==
    /\ Idle(u) /\ isruning /\ isinthread
    /\ upc' = [upc EXCEPT ![u] = "kill"]
    /\ UNCHANGED <<object, refVars, condVars, routine, pthreadVars, target, histVars>>

\* ... pthread_kill(tid(), sig) is called.
KillTid(u) ==
    /\ upc[u] = "kill"
    /\ upc' = [upc EXCEPT ![u] = "idle"]
    /\ UNCHANGED <<object, refVars, condVars, routine, pthreadVars, target, histVars>>

\* ~Thread, when no user is inside a function of the object.
Destroy ==
    /\ object /\ \A u \in Users : upc[u] = "idle"
    /\ object' = FALSE
    /\ RemoveRef
    /\ UNCHANGED <<isjoined, isended, iscanceldelaystart, isinthread, killsig, tid, condVars,
                   routine, pthreadVars, userVars, histVars>>

-----------------------------------------------------------------------------
(* The pthread: start_routine, start_routine_after, start_routine_periodic *)

TGoto(g, pc) == tpc' = [tpc EXCEPT ![g] = pc]

\* init: a signal kept by kill is raised here.
ThreadInit(g) ==
    /\ tpc[g] = "start"
    /\ isinthread' = TRUE
    /\ TGoto(g, IF routine = "once" THEN "run" ELSE "check")
    /\ UNCHANGED <<object, count, isjoined, isended, iscanceldelaystart, killsig, tid, freed,
                   condVars, routine, detached, joined, userVars, histVars>>

\* The test of iscanceldelaystart before a wait; it also ends the periodic loop.
Check(g) ==
    /\ tpc[g] = "check"
    /\ TGoto(g, IF iscanceldelaystart THEN "cleanup" ELSE "wait")
    /\ UNCHANGED <<object, refVars, condVars, routine, detached, joined, userVars, histVars>>

\* condtime.wait: the flag is tested and cleared; if it was not set ...
WaitTest(g) ==
    /\ tpc[g] = "wait"
    /\ anyway_notify_' = 0
    /\ TGoto(g, IF anyway_notify_ = 1 THEN "woken" ELSE "tested")
    /\ UNCHANGED <<object, refVars, missed, routine, detached, joined, userVars, histVars>>

\* ... the thread goes to sleep; the notifier does not hold the mutex, so it may come between.
WaitSleep(g) ==
    /\ tpc[g] = "tested" /\ TGoto(g, "sleep")
    /\ UNCHANGED <<object, refVars, condVars, routine, detached, joined, userVars, histVars>>

\* The time is up, or a spurious wakeup.
WaitTimeout(g) ==
    /\ tpc[g] = "sleep" /\ TGoto(g, "woken")
    /\ UNCHANGED <<object, refVars, condVars, routine, detached, joined, userVars, histVars>>

WaitReturn(g) ==
    /\ tpc[g] = "woken" /\ TGoto(g, "again")
    /\ anyway_notify_' = 0
    /\ UNCHANGED <<object, refVars, missed, routine, detached, joined, userVars, histVars>>

\* The test of iscanceldelaystart after the wait.
Again(g) ==
    /\ tpc[g] = "again"
    /\ TGoto(g, IF iscanceldelaystart THEN "cleanup" ELSE "run")
    /\ UNCHANGED <<object, refVars, condVars, routine, detached, joined, userVars, histVars>>

\* target->run() returns.
RunEnds(g) ==
    /\ tpc[g] = "run"
    /\ TGoto(g, IF routine = "periodic" THEN "check" ELSE "cleanup")
    /\ late' = IF asked /\ late < LateCap THEN late + 1 ELSE late
    /\ UNCHANGED <<object, refVars, condVars, routine, detached, joined, userVars, asked,
                   outside>>

\* cleanup: detached if nobody has announced a join.
Cleanup(g) ==
    /\ tpc[g] = "cleanup" /\ TGoto(g, "exit")
    /\ isinthread' = FALSE /\ killsig' = FALSE /\ isended' = TRUE
    /\ detached' = IF isjoined THEN detached ELSE detached \cup {g}
    /\ joined' = IF outside THEN joined \cup {g} ELSE joined
    /\ isjoined' = FALSE /\ outside' = FALSE
    /\ RemoveRef
    /\ UNCHANGED <<object, iscanceldelaystart, tid, condVars, routine, userVars, asked, late>>

\* The pthread ends.
Exit(g) ==
    /\ tpc[g] = "exit" /\ TGoto(g, "dead")
    /\ UNCHANGED <<object, refVars, condVars, routine, detached, joined, userVars, histVars>>

PThread(g) ==
    \/ ThreadInit(g) \/ Check(g) \/ WaitTest(g) \/ WaitSleep(g) \/ WaitTimeout(g)
    \/ WaitReturn(g) \/ Again(g) \/ RunEnds(g) \/ Cleanup(g) \/ Exit(g)

UserStep(u) == JoinTid(u) \/ JoinReturn(u) \/ KillTid(u)

Call(u) ==
    \/ \E r \in Routines : Start(u, r) \/ StartFails(u, r)
    \/ Cancel(u) \/ Join(u) \/ OutsideJoin(u) \/ KillLater(u) \/ Kill(u)

Next ==
    \/ \E u \in Users : Call(u) \/ UserStep(u)
    \/ Destroy
    \/ \E g \in Gens : PThread(g)

Spec == Init /\ [][Next]_vars

\* Threads run, a timed wait ends, run() returns, and a user goes on with its call.
FairSpec ==
    /\ Spec
    /\ \A g \in Gens : WF_vars(PThread(g))
    /\ \A u \in Users : WF_vars(UserStep(u))
-----------------------------------------------------------------------------
(* Properties                                                              *)

Active == {g \in Gens : tpc[g] \in {"start", "check", "wait", "tested", "sleep", "woken",
                                    "again", "run", "cleanup"}}

FlagType ==
    /\ object \in BOOLEAN /\ isjoined \in BOOLEAN /\ isended \in BOOLEAN
    /\ iscanceldelaystart \in BOOLEAN /\ isinthread \in BOOLEAN /\ killsig \in BOOLEAN
    /\ freed \in BOOLEAN /\ asked \in BOOLEAN /\ missed \in BOOLEAN
    /\ outside \in BOOLEAN

ThreadPCs == {"none", "start", "check", "wait", "tested", "sleep", "woken", "again", "run",
              "cleanup", "exit", "dead"}

DataType ==
    /\ count \in 0 .. 2 /\ tid \in 0 .. MaxStarts
    /\ anyway_notify_ \in {0, 1} /\ late \in 0 .. LateCap
    /\ routine \in Routines /\ tpc \in [Gens -> ThreadPCs]
    /\ detached \subseteq Gens /\ joined \subseteq Gens
    /\ upc \in [Users -> {"idle", "join", "joining", "kill"}]
    /\ target \in [Users -> 0 .. MaxStarts]

\* Every variable keeps to its type; the reference count is at most that of the object and
\* of one pthread.
TypeOK == FlagType /\ DataType

\* The shared RunnableReference is deleted exactly when the Thread object is gone and no
\* pthread can touch it any more, whichever of the two goes last.
FreedIffUnused == freed <=> ~object /\ Active = {}

\* Two pthreads of one object never run at the same time, however start, the end of the
\* thread and a restart interleave; isruning() is about the last one created.
OneThread == Active = IF isended THEN {} ELSE {tid}

\* At most one run() comes to its end after the cancel.
CancelHolds == late <= 1

\* The cancel is slept over only if it comes between the test of anyway_notify_ and the
\* sleep itself.
PromptCancel == \A g \in Gens : tpc[g] = "sleep" /\ asked => missed

\* After cancel_after or cancel_periodic at most the run() that was about to start is
\* executed, and no thread sleeps on as if it had not been cancelled, but for a cancel
\* that falls into the gap of Condition::wait.
CancelWorks == CancelHolds /\ PromptCancel

\* A join returns, unless the thread is a periodic one that nobody has cancelled or the
\* pthread was detached while it was being joined.
JoinReturns ==
    \A u \in Users :
        upc[u] \in {"join", "joining"} ~>
            \/ upc[u] = "idle"
            \/ routine = "periodic" /\ ~asked
            \/ target[u] \in detached
-----------------------------------------------------------------------------
(* The inductive invariant behind TypeOK, FreedIffUnused, OneThread,       *)
(* CancelWorks.                                                            *)

\* A pthread that is not created yet has done nothing.
Unborn == \A g \in Gens : g > tid => tpc[g] = "none"

\* One reference for the object, one for the running pthread.
Counted ==
    /\ count = (IF object THEN 1 ELSE 0) + (IF isended THEN 0 ELSE 1)
    /\ freed <=> count = 0

\* A cancelled pthread does not get from the end of a run() to the next one.
Stopping ==
    /\ asked => iscanceldelaystart
    /\ late > 0 => asked /\ \A g \in Active : tpc[g] \in {"check", "cleanup"}
    /\ late <= 1

\* A cancel finds the pthread before its test, with the flag to be seen, or in the gap.
Noticed ==
    \A g \in Gens : asked =>
        /\ tpc[g] = "wait" => anyway_notify_ = 1
        /\ tpc[g] \in {"tested", "sleep"} => missed

\* What is joined was created.
JoinsReal ==
    \A u \in Users :
        /\ upc[u] = "join" => tid # 0
        /\ upc[u] = "joining" => target[u] # 0

Inductive ==
    TypeOK /\ OneThread /\ Unborn /\ Counted /\ Stopping /\ Noticed /\ JoinsReal
===============================================================================
