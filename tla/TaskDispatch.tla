---------------------------- MODULE TaskDispatch ----------------------------
(***************************************************************************)
(* The task engine of vendors/sknet: TaskDispatch hands tasks to the       *)
(* threads of a WorkQueue (HttpWorkManager), each runs one HTTP transfer   *)
(* per work unit, and the thread that committed a task waits for its final *)
(* state with TaskInfo::wait.  Another thread cancels tasks and deletes    *)
(* the dispatch.                                                           *)
(*                                                                         *)
(* Granularity.  A critical section of the queue's mLock is one action;    *)
(* mLock is held across two only where cancel has found the thread that    *)
(* runs the unit, because that thread clears mRunningWork without the      *)
(* lock.  TaskDispatch::mMutex stays taken while schedule waits for room.  *)
(* onStatesChange takes no lock at all, so writing the state, reading      *)
(* mWaiting and signalling are steps apart from those of wait.             *)
(*                                                                         *)
(* Data.  A transfer is the one step that ends it, with a final state.     *)
(* TaskInfo::cancel sets flags that no transfer looks at and writes to a   *)
(* pipe whose write end select watches for reading, so that the unit runs  *)
(* on: of cancelling a running unit only mRunningWork = NULL is seen.      *)
(* HttpWorkUnit::run always returns true.                                  *)
(***************************************************************************)
EXTENDS Integers, Sequences, FiniteSets, SequencesExt, Functions

CONSTANTS
    Tasks,        \* the tasks, each committed by a thread of its own
    Awaited,      \* those whose thread waits for them; the others have a listener
    MaxThreads,   \* maxThreads of the queue
    Backlog,      \* backlog of schedule
    MaxCommits,   \* bound: the calls of commitTask
    MaxCancels,   \* bound: the calls of cancelTask
    Repeats       \* whether servers redirect, or close instead of ending an answer

Workers == 1 .. MaxThreads

\* The work unit of the n-th commit of a task; NoUnit is NULL.
Units == [task : Tasks, n : 1 .. MaxCommits]
NoUnit == [task |-> "none", n |-> 0]

ASSUME ConstantsAssumption ==
    /\ Awaited \subseteq Tasks
    /\ MaxThreads \in Nat \ {0} /\ Backlog \in Nat
    /\ MaxCommits \in Nat \ {0} /\ MaxCancels \in Nat
    /\ Repeats \in BOOLEAN

VARIABLES
    mMutex,       \* TaskDispatch::mMutex: "free", "commit" or "cancel"
    mWorkUnits,
    mIdleThreads,
    mCanceled,
    mFinished,
    mRunningWork, \* of every work thread
    wpc,          \* where every work thread is; "none": not created
    work,         \* its local workUnit
    mTaskState,   \* of every task: "open" until it is "final" (done or failed)
    mWaiting,     \* of every task
    gTaskMutex,   \* "free", or "held" between wait's test and its sleep
    upc,          \* where the thread of every task is
    n,            \* the commits of every task so far
    kpc,          \* where the thread that cancels and deletes is
    victim,       \* what it cancels: the unit and the work thread found
    cancels,      \* the calls of cancelTask so far
    dropped,      \* history: the units that nobody runs: removed from the queue, or never added
    missed,       \* history: the tasks whose final notification did not reach wait
    final,        \* history: the commit of every task that its state speaks of
    again         \* history: the tasks with a transfer that reported its end more than once

queueVars == <<mMutex, mWorkUnits, mIdleThreads, mCanceled, mFinished, dropped>>
workerVars == <<mRunningWork, wpc, work>>
taskVars == <<mTaskState, mWaiting, final, again>>
userVars == <<gTaskMutex, upc, n, missed>>
killVars == <<kpc, victim, cancels>>
vars == <<queueVars, workerVars, taskVars, userVars, killVars>>

Init ==
    /\ mMutex = "free" /\ mWorkUnits = <<>> /\ mIdleThreads = 0
    /\ mCanceled = FALSE /\ mFinished = FALSE
    /\ mRunningWork = [w \in Workers |-> NoUnit]
    /\ wpc = [w \in Workers |-> "none"] /\ work = [w \in Workers |-> NoUnit]
    /\ mTaskState = [t \in Tasks |-> "open"] /\ mWaiting = [t \in Tasks |-> FALSE]
    /\ gTaskMutex = "free" /\ upc = [t \in Tasks |-> "idle"] /\ n = [t \in Tasks |-> 0]
    /\ kpc = "idle" /\ victim = [unit |-> NoUnit, worker |-> 1] /\ cancels = 0
    /\ dropped = {} /\ missed = {} /\ final = [t \in Tasks |-> 0] /\ again = {}

Threads == {w \in Workers : wpc[w] # "none"}

\* No null pointer was followed.
Alive == kpc # "crashed"

\* The thread that cancels holds the queue's mLock.
Locked == kpc = "found"

\* mWorkChangedCondition.broadcast
WakeWorkers(pc) == [w \in Workers |-> IF pc[w] = "sleep" THEN "loop" ELSE pc[w]]

\* mWorkDequeuedCondition.broadcast
WakeCommits == [t \in Tasks |-> IF upc[t] = "full" THEN "retry" ELSE upc[t]]

-----------------------------------------------------------------------------
(* commitTask and, under its mMutex, schedule.                             *)

UnitOf(t) == [task |-> t, n |-> n[t]]

Full == Backlog > 0 /\ Len(mWorkUnits) >= MaxThreads * Backlog

\* The unit is added and the work threads are told.
Add(u, pc) ==
    /\ mWorkUnits' = Append(mWorkUnits, u)
    /\ wpc' = WakeWorkers(pc)

\* Mutant: a thread is created only when no thread is idle.
NeedThreadNone == Threads # Workers /\ mIdleThreads = 0

\* schedule creates a thread.
NeedThread == Threads # Workers /\ mIdleThreads < Len(mWorkUnits) + 1

\* Bound on the commits.
MayCommit == SumFunction(n) < MaxCommits

\* Where commitTask returns to.
Committed(t) == IF t \in Awaited THEN "test" ELSE "left"

\* The first pass of schedule; the unit is new.  When a thread is needed and cannot be
\* created, schedule returns the error without adding the unit, and commitWork does not
\* look at it.
Commit(t) ==
    /\ upc[t] = "idle" /\ MayCommit /\ kpc = "idle" /\ mMutex = "free"
    /\ n' = [n EXCEPT ![t] = @ + 1]
    /\ LET u == [task |-> t, n |-> n[t] + 1]
       IN  \/ /\ NeedThread
              /\ \E w \in Workers \ Threads :
                    /\ \A v \in Workers \ Threads : w <= v
                    /\ Add(u, [wpc EXCEPT ![w] = "loop"])
              /\ mIdleThreads' = mIdleThreads + 1
              /\ upc' = [upc EXCEPT ![t] = Committed(t)]
              /\ UNCHANGED <<mMutex, dropped>>
           \/ /\ NeedThread
              /\ dropped' = dropped \cup {u}
              /\ upc' = [upc EXCEPT ![t] = Committed(t)]
              /\ UNCHANGED <<mIdleThreads, mMutex, mWorkUnits, wpc>>
           \/ /\ ~NeedThread /\ ~Full
              /\ Add(u, wpc)
              /\ upc' = [upc EXCEPT ![t] = Committed(t)]
              /\ UNCHANGED <<mIdleThreads, mMutex, dropped>>
           \/ /\ ~NeedThread /\ Full
              /\ upc' = [upc EXCEPT ![t] = "full"]
              /\ mMutex' = "commit"
              /\ UNCHANGED <<mIdleThreads, mWorkUnits, wpc, dropped>>
    /\ UNCHANGED <<mCanceled, mFinished, mRunningWork, work, taskVars, gTaskMutex,
                   missed, killVars>>

\* schedule was woken from its wait for room.
CommitRetry(t) ==
    /\ upc[t] = "retry" /\ ~Locked
    /\ \/ /\ Full
          /\ upc' = [upc EXCEPT ![t] = "full"]
          /\ UNCHANGED <<mMutex, mWorkUnits, wpc>>
       \/ /\ ~Full
          /\ Add(UnitOf(t), wpc)
          /\ upc' = [upc EXCEPT ![t] = Committed(t)]
          /\ mMutex' = "free"
    /\ UNCHANGED <<mIdleThreads, mCanceled, mFinished, dropped, mRunningWork, work,
                   taskVars, gTaskMutex, n, missed, killVars>>

-----------------------------------------------------------------------------
(* WorkQueue::threadLoop and, outside the lock, HttpWorkUnit::run.          *)

\* Mutant: taking a unit does not tell a schedule that waits for room.
TakeQuiet(w) ==
    /\ wpc[w] = "loop" /\ ~Locked /\ ~mCanceled /\ mWorkUnits # <<>>
    /\ work' = [work EXCEPT ![w] = Head(mWorkUnits)]
    /\ mRunningWork' = [mRunningWork EXCEPT ![w] = Head(mWorkUnits)]
    /\ mWorkUnits' = Tail(mWorkUnits)
    /\ mIdleThreads' = mIdleThreads - 1
    /\ wpc' = [wpc EXCEPT ![w] = "run"]
    /\ UNCHANGED <<mMutex, mCanceled, mFinished, dropped, taskVars, userVars, killVars>>

Take(w) ==
    /\ wpc[w] = "loop" /\ ~Locked /\ ~mCanceled /\ mWorkUnits # <<>>
    /\ work' = [work EXCEPT ![w] = Head(mWorkUnits)]
    /\ mRunningWork' = [mRunningWork EXCEPT ![w] = Head(mWorkUnits)]
    /\ mWorkUnits' = Tail(mWorkUnits)
    /\ mIdleThreads' = mIdleThreads - 1
    /\ wpc' = [wpc EXCEPT ![w] = "run"]
    /\ upc' = WakeCommits
    /\ UNCHANGED <<mMutex, mCanceled, mFinished, dropped, taskVars, gTaskMutex, n, missed,
                   killVars>>

\* The loop ends, or the thread sleeps on mWorkChangedCondition.
Idle(w) ==
    /\ wpc[w] = "loop" /\ ~Locked /\ (mCanceled \/ mWorkUnits = <<>>)
    /\ wpc' = [wpc EXCEPT ![w] = IF mCanceled \/ mFinished THEN "exited" ELSE "sleep"]
    /\ UNCHANGED <<queueVars, mRunningWork, work, taskVars, userVars, killVars>>

\* onStatesChange with TASK_STATE_DONE or TASK_STATE_FAIL: mTaskState = state.
Report(w) ==
    /\ mTaskState' = [mTaskState EXCEPT ![work[w].task] = "final"]
    /\ final' = [final EXCEPT ![work[w].task] = work[w].n]

\* Mutant: a transfer may fail without a report.
TransferSilent(w) ==
    /\ wpc[w] = "run"
    /\ \/ Report(w) /\ wpc' = [wpc EXCEPT ![w] = "notify"]
       \/ wpc' = [wpc EXCEPT ![w] = "ended"] /\ UNCHANGED <<mTaskState, final>>
    /\ UNCHANGED <<queueVars, mRunningWork, work, mWaiting, again, userVars, killVars>>

Transfer(w) ==
    /\ wpc[w] = "run"
    /\ Report(w)
    /\ wpc' = [wpc EXCEPT ![w] = "notify"]
    /\ UNCHANGED <<queueVars, mRunningWork, work, mWaiting, again, userVars, killVars>>

Blocked == {t \in Tasks : upc[t] = "blocked"}

\* onStatesChange tests mWaiting and signals gTaskConditon, on which the waits for all
\* tasks sleep: any one of them is woken.
Notify(w) ==
    /\ wpc[w] = "notify"
    /\ LET t == work[w].task
           early == IF upc[t] \in {"flag", "sleep"} THEN {t} ELSE {}
       IN  \/ /\ mWaiting[t]
              /\ \E b \in Blocked : /\ upc' = [upc EXCEPT ![b] = "test"]
                                    /\ missed' = missed \cup early \cup ({t} \ {b})
           \/ /\ ~mWaiting[t] \/ Blocked = {}
              /\ missed' = missed \cup early
              /\ UNCHANGED upc
    /\ wpc' = [wpc EXCEPT ![w] = "ended"]
    /\ UNCHANGED <<queueVars, mRunningWork, work, taskVars, gTaskMutex, n, killVars>>

\* One transfer reports its end again.  When the server closes, socketReader reports it and
\* so does httpDoTransfer when socketReader has returned; and around a redirected request
\* every outer httpDoTransfer takes what the inner one returned, the size of the answer,
\* for an error, and reports a failure.
ReportAgain(w) ==
    /\ Alive /\ Repeats /\ wpc[w] = "ended"
    /\ Report(w)
    /\ again' = again \cup {work[w].task}
    /\ wpc' = [wpc EXCEPT ![w] = "notify"]
    /\ UNCHANGED <<queueVars, mRunningWork, work, mWaiting, userVars, killVars>>

\* run has returned: mRunningWork = NULL, without the lock.
Ended(w) ==
    /\ wpc[w] = "ended"
    /\ mRunningWork' = [mRunningWork EXCEPT ![w] = NoUnit]
    /\ work' = [work EXCEPT ![w] = NoUnit]
    /\ wpc' = [wpc EXCEPT ![w] = "back"]
    /\ UNCHANGED <<queueVars, taskVars, userVars, killVars>>

Back(w) ==
    /\ wpc[w] = "back" /\ ~Locked
    /\ mIdleThreads' = mIdleThreads + 1
    /\ wpc' = [wpc EXCEPT ![w] = "loop"]
    /\ UNCHANGED <<mMutex, mWorkUnits, mCanceled, mFinished, dropped, mRunningWork, work,
                   taskVars, userVars, killVars>>

-----------------------------------------------------------------------------
(* TaskInfo::wait, under gTaskMutex, and the reuse of a task.  The thread   *)
(* that has committed a task goes on to wait for it.                       *)

\* Mutant: an if instead of the while: a wait that was woken does not test again.
WaitTestOnce(t) ==
    /\ upc[t] = "test" /\ gTaskMutex = "free"
    /\ \/ /\ mTaskState[t] = "final" \/ mWaiting[t]
          /\ mWaiting' = [mWaiting EXCEPT ![t] = FALSE]
          /\ upc' = [upc EXCEPT ![t] = "returned"]
          /\ UNCHANGED gTaskMutex
       \/ /\ mTaskState[t] # "final" /\ ~mWaiting[t]
          /\ upc' = [upc EXCEPT ![t] = "flag"]
          /\ gTaskMutex' = "held"
          /\ UNCHANGED mWaiting
    /\ UNCHANGED <<queueVars, workerVars, mTaskState, final, again, n, missed, killVars>>

\* The test of the while.
WaitTest(t) ==
    /\ upc[t] = "test" /\ gTaskMutex = "free"
    /\ \/ /\ mTaskState[t] = "final"
          /\ mWaiting' = [mWaiting EXCEPT ![t] = FALSE]
          /\ upc' = [upc EXCEPT ![t] = "returned"]
          /\ UNCHANGED gTaskMutex
       \/ /\ mTaskState[t] # "final"
          /\ upc' = [upc EXCEPT ![t] = "flag"]
          /\ gTaskMutex' = "held"
          /\ UNCHANGED mWaiting
    /\ UNCHANGED <<queueVars, workerVars, mTaskState, final, again, n, missed, killVars>>

\* mWaiting = true, and then pthread_cond_wait.
WaitFlag(t) ==
    /\ upc[t] = "flag"
    /\ mWaiting' = [mWaiting EXCEPT ![t] = TRUE]
    /\ upc' = [upc EXCEPT ![t] = "sleep"]
    /\ UNCHANGED <<queueVars, workerVars, mTaskState, final, again, gTaskMutex, n, missed, killVars>>

WaitSleep(t) ==
    /\ upc[t] = "sleep"
    /\ upc' = [upc EXCEPT ![t] = "blocked"]
    /\ gTaskMutex' = "free"
    /\ UNCHANGED <<queueVars, workerVars, taskVars, n, missed, killVars>>

\* The owner resets the task to commit it again (putTask and getTask do the same).
Reset(t) ==
    /\ Alive /\ upc[t] = "returned" /\ MayCommit
    /\ mTaskState' = [mTaskState EXCEPT ![t] = "open"]
    /\ mWaiting' = [mWaiting EXCEPT ![t] = FALSE]
    /\ upc' = [upc EXCEPT ![t] = "idle"]
    /\ UNCHANGED <<queueVars, workerVars, final, again, gTaskMutex, n, missed, killVars>>

-----------------------------------------------------------------------------
(* cancelTask and the destructors.                                         *)

\* cancel(workUnit): removed from the queue, found at a work thread, or not found; only
\* then are the work threads woken.
Cancel ==
    /\ kpc = "idle" /\ cancels < MaxCancels /\ mMutex = "free"
    /\ cancels' = cancels + 1
    /\ \E t \in Tasks :
        /\ upc[t] # "idle"
        /\ LET u == UnitOf(t)
               at == {w \in Workers : mRunningWork[w] = u}
           IN  \/ /\ \E i \in DOMAIN mWorkUnits :
                        /\ mWorkUnits[i] = u /\ \A j \in 1 .. i - 1 : mWorkUnits[j] # u
                        /\ mWorkUnits' = RemoveAt(mWorkUnits, i)
                  /\ dropped' = dropped \cup {u}
                  /\ UNCHANGED <<mMutex, kpc, victim, wpc>>
               \/ /\ ~Contains(mWorkUnits, u)
                  /\ \E w \in at : victim' = [unit |-> u, worker |-> w]
                  /\ kpc' = "found" /\ mMutex' = "cancel"
                  /\ UNCHANGED <<mWorkUnits, dropped, wpc>>
               \/ /\ ~Contains(mWorkUnits, u) /\ at = {}
                  /\ wpc' = WakeWorkers(wpc)
                  /\ UNCHANGED <<mMutex, mWorkUnits, dropped, kpc, victim>>
    /\ UNCHANGED <<mIdleThreads, mCanceled, mFinished, mRunningWork, work, taskVars,
                   userVars>>

\* WorkThread::cancel goes on behind its test of mRunningWork; when the thread has
\* cleared it meanwhile the call goes through a null pointer.
CancelFound ==
    /\ kpc = "found"
    /\ \/ /\ mRunningWork[victim.worker] = victim.unit
          /\ mRunningWork' = [mRunningWork EXCEPT ![victim.worker] = NoUnit]
          /\ kpc' = "idle" /\ mMutex' = "free"
       \/ /\ mRunningWork[victim.worker] # victim.unit
          /\ kpc' = "crashed"
          /\ UNCHANGED <<mRunningWork, mMutex>>
    /\ UNCHANGED <<mWorkUnits, mIdleThreads, mCanceled, mFinished, dropped, wpc, work,
                   taskVars, userVars, victim, cancels>>

\* ~TaskDispatch deletes the queue when nobody is in a call: cancel(), then finish().
Destroy ==
    /\ kpc = "idle" /\ mMutex = "free"
    /\ kpc' = "finish"
    /\ mCanceled' = TRUE
    /\ mWorkUnits' = <<>>
    /\ dropped' = dropped \cup {mWorkUnits[i] : i \in DOMAIN mWorkUnits}
    /\ wpc' = WakeWorkers(wpc)
    /\ UNCHANGED <<mMutex, mIdleThreads, mFinished, mRunningWork, work, taskVars, userVars,
                   victim, cancels>>

Finish ==
    /\ kpc = "finish"
    /\ mFinished' = TRUE
    /\ kpc' = "join"
    /\ wpc' = WakeWorkers(wpc)
    /\ UNCHANGED <<mMutex, mWorkUnits, mIdleThreads, mCanceled, dropped, mRunningWork, work,
                   taskVars, userVars, victim, cancels>>

Join ==
    /\ kpc = "join"
    /\ \A w \in Threads : wpc[w] = "exited"
    /\ kpc' = "deleted"
    /\ UNCHANGED <<queueVars, workerVars, taskVars, userVars, victim, cancels>>

-----------------------------------------------------------------------------
Worker(w) ==
    Alive /\ (Take(w) \/ Idle(w) \/ Transfer(w) \/ Notify(w) \/ Ended(w) \/ Back(w))

User(t) == Alive /\ (CommitRetry(t) \/ WaitTest(t) \/ WaitFlag(t) \/ WaitSleep(t))

Killer == CancelFound \/ Finish \/ Join

Next == \/ \E w \in Workers : Worker(w) \/ ReportAgain(w)
        \/ \E t \in Tasks : Commit(t) \/ User(t) \/ Reset(t)
        \/ Cancel \/ Destroy \/ Killer

Spec == Init /\ [][Next]_vars

-----------------------------------------------------------------------------
(* Properties.                                                             *)

\* No unit waits for nobody: while units are queued no thread sleeps, and as long as
\* threads may be created there are as many idle threads as there are queued units.
UnitsServed ==
    mWorkUnits # <<>> =>
        /\ \A w \in Workers : wpc[w] # "sleep"
        /\ Threads = Workers \/ Len(mWorkUnits) <= mIdleThreads

\* The state with which wait returns is the one this commit's unit has reported, not
\* that of an earlier commit of the same task and not one of another task whose end woke
\* this wait; but for a task with a transfer that reported its end more than once, because
\* the server closed (HttpTransfer.cpp 252 and 884 or 904) or redirected (785): the later
\* report may fall into the next commit.
OwnResult ==
    \A t \in Tasks \ again : upc[t] = "returned" => final[t] = n[t]

\* A commit sleeps only while the queue is full and its unit is not in it, so that the
\* next unit a thread takes wakes it; and until then it keeps every other commitTask and
\* cancelTask out.  No cancel can make room behind its back.
RoomIsAwaited ==
    \A t \in Tasks : upc[t] = "full" => Full /\ mMutex = "commit" /\ ~mCanceled

\* The unit of t is still to be run, or is run and has yet to notify.
Coming(t) ==
    \/ Contains(mWorkUnits, UnitOf(t))
    \/ \E w \in Workers : work[w] = UnitOf(t) /\ wpc[w] \in {"run", "notify"}

\* A wait that sleeps has a notification to come, but for a task whose unit nobody runs,
\* because it was removed from the queue or because its commit could not create a work
\* thread (WorkQueue.cpp 54-57), and for one whose notification was sent between the test
\* of its state and its sleep or woke the wait for another task.
WaitHasCause ==
    \A t \in Tasks :
        upc[t] = "blocked" => Coming(t) \/ t \in missed \/ UnitOf(t) \in dropped

=============================================================================
