------------------------- MODULE TaskDispatchProofs -------------------------
(***************************************************************************)
(* What the task engine guarantees for any tasks, work threads, backlog,   *)
(* commits, cancels and servers.                                           *)
(***************************************************************************)
EXTENDS TaskDispatch, SequenceTheorems, TLAPS

-----------------------------------------------------------------------------
(* The inductive invariant.                                                *)

\* The work units of any commit.
AnyUnit == [task : Tasks, n : Nat \ {0}]

WorkerPC == {"none", "loop", "sleep", "exited", "run", "notify", "ended", "back"}
UserPC == {"idle", "full", "retry", "left", "test", "flag", "sleep", "blocked", "returned"}

TypeOK ==
    /\ mMutex \in {"free", "commit", "cancel"} /\ mWorkUnits \in Seq(AnyUnit)
    /\ mIdleThreads \in Int /\ mCanceled \in BOOLEAN
    /\ wpc \in [Workers -> WorkerPC] /\ work \in [Workers -> AnyUnit \cup {NoUnit}]
    /\ mTaskState \in [Tasks -> {"open", "final"}] /\ mWaiting \in [Tasks -> BOOLEAN]
    /\ upc \in [Tasks -> UserPC] /\ n \in [Tasks -> Nat] /\ final \in [Tasks -> Nat]
    /\ kpc \in {"idle", "found", "crashed", "finish", "join", "deleted"}

\* A queued unit finds a thread: none sleeps, and more can be created or enough are idle.
Serving ==
    /\ mWorkUnits # <<>> => \A w \in Workers : wpc[w] # "sleep"
    /\ Threads = Workers \/ Len(mWorkUnits) <= mIdleThreads

\* The commit that waits for room.
AtRoom(t) == upc[t] \in {"full", "retry"}

\* It is the only one and keeps mMutex; no thread is left to create, or its unit would still
\* have an idle one.
RoomHeld ==
    /\ \A t \in Tasks : AtRoom(t) =>
        /\ mMutex = "commit" /\ n[t] > 0 /\ \A s \in Tasks \ {t} : ~AtRoom(s)
        /\ Threads = Workers \/ Len(mWorkUnits) + 1 <= mIdleThreads
    /\ \A t \in Tasks : upc[t] = "full" => Full
    /\ kpc = "found" => mMutex = "cancel"

\* The queue is cancelled only by its destructor, which nobody is in a call with.
CanceledLate ==
    /\ mCanceled => kpc \in {"finish", "join", "deleted"}
    /\ mCanceled => \A t \in Tasks : ~AtRoom(t)

\* A unit is at one place only, in the queue or at one work thread,
UnitsOnce ==
    /\ \A i, j \in 1 .. Len(mWorkUnits) : mWorkUnits[i] = mWorkUnits[j] => i = j
    /\ \A w \in Workers : \A i \in 1 .. Len(mWorkUnits) : work[w] # mWorkUnits[i]
    /\ \A w, v \in Workers : work[w] = work[v] /\ work[w] # NoUnit => w = v

\* and belongs to a commit that was made and does not wait for room.
UnitsCommitted ==
    /\ \A i \in 1 .. Len(mWorkUnits) : LET u == mWorkUnits[i]
                                       IN  u.n <= n[u.task] /\ (AtRoom(u.task) => u.n < n[u.task])
    /\ \A w \in Workers : LET u == work[w]
                          IN  u # NoUnit => u.n <= n[u.task] /\ (AtRoom(u.task) => u.n < n[u.task])

\* A work thread has a unit while it runs one.
WorkHeld ==
    \A w \in Workers : wpc[w] \in {"run", "notify", "ended"} => work[w] # NoUnit

\* The unit u is still to report.
Pending(u) ==
    \/ \E i \in 1 .. Len(mWorkUnits) : mWorkUnits[i] = u
    \/ \E w \in Workers : work[w] = u /\ wpc[w] = "run"

\* Without a transfer that reported more than once: only the last commit of a task is
\* pending, nobody has its result yet, and a final state is the result of the last commit.
ResultsOwn ==
    \A t \in Tasks \ again :
        /\ \A u \in AnyUnit : Pending(u) /\ u.task = t =>
            u.n = n[t] /\ upc[t] \notin {"idle", "returned"} /\ mTaskState[t] = "open"
        /\ upc[t] = "idle" \/ AtRoom(t) => mTaskState[t] = "open"
        /\ mTaskState[t] = "final" => final[t] = n[t]
        /\ upc[t] = "returned" => mTaskState[t] = "final"

\* The reasons for which a wait for t may sleep.
Caused(t) == Coming(t) \/ t \in missed \/ UnitOf(t) \in dropped

\* A wait has one from the test of the state on, and a unit that was run has set the state.
Causes ==
    /\ \A t \in Tasks : upc[t] \in {"flag", "sleep", "blocked"} => Caused(t)
    /\ \A t \in Tasks : upc[t] = "test" => mTaskState[t] = "final" \/ Caused(t)
    /\ \A t \in Tasks : upc[t] \in {"sleep", "blocked"} => mWaiting[t]
    /\ \A w \in Workers : \A t \in Tasks :
        work[w] = UnitOf(t) /\ wpc[w] \in {"notify", "ended"} /\ upc[t] # "idle"
          => mTaskState[t] = "final"

Inductive == /\ TypeOK /\ Serving /\ RoomHeld /\ CanceledLate /\ UnitsOnce /\ UnitsCommitted
             /\ WorkHeld /\ ResultsOwn /\ Causes

-----------------------------------------------------------------------------
(* Sequences and units.                                                    *)

\* What Append does to the positions of a queue.
LEMMA AppendFacts ==
  ASSUME NEW S, NEW s \in Seq(S), NEW e \in S
  PROVE  /\ Append(s, e) \in Seq(S) /\ Append(s, e) # <<>>
         /\ Len(Append(s, e)) = Len(s) + 1 /\ Len(s) \in Nat
         /\ \A i \in 1 .. Len(s) : Append(s, e)[i] = s[i]
         /\ Append(s, e)[Len(s) + 1] = e
OBVIOUS

\* What taking the head of a queue does to the positions of the others.
LEMMA TailFacts ==
  ASSUME NEW S, NEW s \in Seq(S), s # <<>>
  PROVE  /\ Tail(s) \in Seq(S) /\ Len(Tail(s)) = Len(s) - 1 /\ Len(s) \in Nat \ {0}
         /\ Head(s) = s[1] /\ Head(s) \in S
         /\ \A i \in 1 .. Len(s) - 1 : Tail(s)[i] = s[i + 1]
OBVIOUS

\* What taking one unit out of the middle does to the positions of the others.
LEMMA RemoveAtFacts ==
  ASSUME NEW S, NEW s \in Seq(S), NEW k \in 1 .. Len(s)
  PROVE  /\ RemoveAt(s, k) \in Seq(S) /\ Len(RemoveAt(s, k)) = Len(s) - 1 /\ s # <<>>
         /\ Len(s) \in Nat
         /\ \A i \in 1 .. k - 1 : RemoveAt(s, k)[i] = s[i]
         /\ \A i \in k .. Len(s) - 1 : RemoveAt(s, k)[i] = s[i + 1]
<1>. DEFINE a == SubSeq(s, 1, k - 1)  b == SubSeq(s, k + 1, Len(s))
<1>1. /\ a \in Seq(S) /\ Len(a) = k - 1 /\ \A i \in 1 .. k - 1 : a[i] = s[i]
  OBVIOUS
<1>2. /\ b \in Seq(S) /\ Len(b) = Len(s) - k /\ \A i \in 1 .. Len(s) - k : b[i] = s[k + i]
  OBVIOUS
<1>. HIDE DEF a, b
<1>3. /\ a \o b \in Seq(S) /\ Len(a \o b) = Len(s) - 1
      /\ \A i \in 1 .. k - 1 : (a \o b)[i] = a[i]
      /\ \A i \in k .. Len(s) - 1 : (a \o b)[i] = b[i - (k - 1)]
  <2>1. Len(a \o b) = Len(a) + Len(b) /\ a \o b \in Seq(S)
    BY <1>1, <1>2, ConcatProperties
  <2>2. \A i \in 1 .. Len(a) + Len(b) : (a \o b)[i] = IF i <= Len(a) THEN a[i] ELSE b[i - Len(a)]
    BY <1>1, <1>2, ConcatProperties
  <2>3. Len(s) \in Nat
    OBVIOUS
  <2>. QED
    BY <1>1, <1>2, <2>1, <2>2, <2>3, SMTT(30)
<1>4. RemoveAt(s, k) = a \o b
  BY DEF RemoveAt, a, b
<1>5. ASSUME NEW i \in k .. Len(s) - 1
      PROVE  (a \o b)[i] = s[i + 1]
  <2>1. i - (k - 1) \in 1 .. Len(s) - k /\ k + (i - (k - 1)) = i + 1
    OBVIOUS
  <2>. QED
    BY <1>2, <1>3, <2>1
<1>. QED
  BY <1>1, <1>3, <1>4, <1>5

\* A unit is given by its task and the number of its commit; NoUnit is none of them.
LEMMA UnitFacts ==
  /\ NoUnit \notin AnyUnit
  /\ \A u \in AnyUnit : u.task \in Tasks /\ u.n \in Nat /\ u = [task |-> u.task, n |-> u.n]
  /\ \A t \in Tasks, k \in Nat \ {0} : [task |-> t, n |-> k] \in AnyUnit
  /\ NoUnit.n = 0
BY DEF AnyUnit, NoUnit

\* What RemoveAt keeps.
LEMMA RemoveAtKeeps ==
  ASSUME NEW S, NEW s \in Seq(S), NEW k \in 1 .. Len(s)
  PROVE  /\ \A i \in 1 .. Len(RemoveAt(s, k)) :
              \E j \in 1 .. Len(s) : j # k /\ RemoveAt(s, k)[i] = s[j]
         /\ \A j \in 1 .. Len(s) : j # k =>
              \E i \in 1 .. Len(RemoveAt(s, k)) : RemoveAt(s, k)[i] = s[j]
         /\ (\A i, j \in 1 .. Len(s) : s[i] = s[j] => i = j) =>
              \A i, j \in 1 .. Len(RemoveAt(s, k)) : RemoveAt(s, k)[i] = RemoveAt(s, k)[j] => i = j
<1>. DEFINE r == RemoveAt(s, k)
<1>1. /\ Len(r) = Len(s) - 1 /\ Len(s) \in Nat
      /\ \A i \in 1 .. k - 1 : r[i] = s[i]
      /\ \A i \in k .. Len(s) - 1 : r[i] = s[i + 1]
  BY RemoveAtFacts
<1>. HIDE DEF r
<1>2. ASSUME NEW i \in 1 .. Len(r)
      PROVE  \E j \in 1 .. Len(s) : /\ j # k /\ r[i] = s[j]
                                    /\ j = i \/ j = i + 1 
                                    /\ i < k => j = i
                                    /\ i >= k => j = i + 1
  <2>1. CASE i < k
    BY <1>1, <2>1
  <2>2. CASE i >= k
    <3>1. i + 1 \in 1 .. Len(s) /\ i + 1 # k /\ r[i] = s[i + 1]
      BY <1>1, <2>2
    <3>. QED
      BY <2>2, <3>1
  <2>. QED
    BY <1>1, <2>1, <2>2
<1>3. ASSUME NEW j \in 1 .. Len(s), j # k
      PROVE  \E i \in 1 .. Len(r) : r[i] = s[j]
  <2>1. CASE j < k
    BY <1>1, <2>1
  <2>2. CASE j > k
    <3>1. j - 1 \in k .. Len(s) - 1 /\ j - 1 \in 1 .. Len(r) /\ (j - 1) + 1 = j
      BY <1>1, <2>2
    <3>. QED
      BY <1>1, <3>1
  <2>. QED
    BY <1>1, <1>3, <2>1, <2>2
<1>4. ASSUME \A i, j \in 1 .. Len(s) : s[i] = s[j] => i = j,
             NEW i \in 1 .. Len(r), NEW j \in 1 .. Len(r), r[i] = r[j]
      PROVE  i = j
  <2>1. PICK a \in 1 .. Len(s) : r[i] = s[a] /\ (i < k => a = i) /\ (i >= k => a = i + 1)
    BY <1>2
  <2>2. PICK b \in 1 .. Len(s) : r[j] = s[b] /\ (j < k => b = j) /\ (j >= k => b = j + 1)
    BY <1>2
  <2>3. a = b
    BY <1>4, <2>1, <2>2
  <2>. QED
    BY <1>1, <2>1, <2>2, <2>3
<1>. QED
  BY <1>2, <1>3, <1>4 DEF r

-----------------------------------------------------------------------------
(* Types.                                                                  *)

\* The first state has the right types.
LEMMA TypeInit ==
  ASSUME Init
  PROVE  TypeOK
<1>1. mCanceled \in BOOLEAN /\ mWaiting \in [Tasks -> BOOLEAN]
  BY Zenon DEF Init
<1>2. wpc \in [Workers -> WorkerPC] /\ work \in [Workers -> AnyUnit \cup {NoUnit}]
  BY DEF Init, WorkerPC
<1>3. mTaskState \in [Tasks -> {"open", "final"}] /\ upc \in [Tasks -> UserPC]
  BY DEF Init, UserPC
<1>4. mWorkUnits \in Seq(AnyUnit) /\ n \in [Tasks -> Nat] /\ final \in [Tasks -> Nat]
  BY DEF Init
<1>. QED
  BY <1>1, <1>2, <1>3, <1>4 DEF Init, TypeOK

\* A broadcast on the queue wakes every sleeping thread and touches no other.
LEMMA Woken ==
  ASSUME NEW pc \in [Workers -> WorkerPC]
  PROVE  /\ WakeWorkers(pc) \in [Workers -> WorkerPC]
         /\ \A w \in Workers : /\ WakeWorkers(pc)[w] # "sleep"
                               /\ WakeWorkers(pc)[w] = pc[w]
                                  \/ (pc[w] = "sleep" /\ WakeWorkers(pc)[w] = "loop")
BY DEF WakeWorkers, WorkerPC

\* A broadcast for room wakes every commit that sleeps and touches no other.
LEMMA WokenCommits ==
  ASSUME upc \in [Tasks -> UserPC]
  PROVE  /\ WakeCommits \in [Tasks -> UserPC]
         /\ \A t \in Tasks : WakeCommits[t] = upc[t] \/ (upc[t] = "full" /\ WakeCommits[t] = "retry")
         /\ \A t \in Tasks : WakeCommits[t] # "full"
BY DEF WakeCommits, UserPC

\* The unit u enters the queue: it has a thread, and the threads that sleep are woken.
Enqueued(u) ==
    /\ mWorkUnits' = Append(mWorkUnits, u)
    /\ wpc' \in [Workers -> WorkerPC]
    /\ \A w \in Workers : /\ wpc'[w] # "sleep"
                          /\ \/ wpc'[w] = wpc[w]
                             \/ wpc[w] \in {"none", "sleep"} /\ wpc'[w] = "loop"

NewUnit(t) == [task |-> t, n |-> n[t] + 1]

\* No thread could be created for the commit of t, and its unit is not queued.
Refused(t) ==
    /\ UNCHANGED <<mWorkUnits, wpc, mIdleThreads, mMutex>>
    /\ dropped' = dropped \cup {NewUnit(t)}
    /\ upc' = [upc EXCEPT ![t] = Committed(t)]

\* A commit queues its unit and leaves a thread for it, or is refused, or sleeps for room
\* holding mMutex.
LEMMA CommitFacts ==
  ASSUME TypeOK, Serving, NEW t \in Tasks, Commit(t)
  PROVE  /\ upc[t] = "idle" /\ kpc = "idle" /\ mMutex = "free"
         /\ n' = [n EXCEPT ![t] = n[t] + 1] /\ mIdleThreads' \in Int
         /\ \/ Refused(t)
            \/ /\ Enqueued(NewUnit(t)) /\ UNCHANGED <<mMutex, dropped>>
               /\ upc' = [upc EXCEPT ![t] = Committed(t)]
               /\ Threads' = Workers \/ Len(mWorkUnits) + 1 <= mIdleThreads'
            \/ /\ UNCHANGED <<mWorkUnits, wpc, mIdleThreads, dropped>> /\ Full /\ mMutex' = "commit"
               /\ upc' = [upc EXCEPT ![t] = "full"]
               /\ Threads = Workers \/ Len(mWorkUnits) + 1 <= mIdleThreads
<1>. USE DEF TypeOK
<1>1. upc[t] = "idle" /\ kpc = "idle" /\ mMutex = "free" /\ n' = [n EXCEPT ![t] = n[t] + 1]
  BY DEF Commit
<1>2. CASE /\ NeedThread
           /\ \E w \in Workers \ Threads :
                 /\ \A v \in Workers \ Threads : w <= v
                 /\ Add(NewUnit(t), [wpc EXCEPT ![w] = "loop"])
           /\ mIdleThreads' = mIdleThreads + 1
           /\ upc' = [upc EXCEPT ![t] = Committed(t)]
           /\ UNCHANGED <<mMutex, dropped>>
  <2>1. PICK w \in Workers \ Threads : Add(NewUnit(t), [wpc EXCEPT ![w] = "loop"])
    BY <1>2
  <2>. DEFINE pc == [wpc EXCEPT ![w] = "loop"]
  <2>2. pc \in [Workers -> WorkerPC] /\ wpc[w] = "none" /\ pc[w] = "loop"
        /\ \A v \in Workers \ {w} : pc[v] = wpc[v]
    BY DEF WorkerPC, Threads
  <2>3. wpc' = WakeWorkers(pc) /\ mWorkUnits' = Append(mWorkUnits, NewUnit(t))
    BY <2>1 DEF Add
  <2>. HIDE DEF pc
  <2>4. Enqueued(NewUnit(t))
    <3>1. \A v \in Workers : pc[v] = wpc[v] \/ (wpc[v] = "none" /\ pc[v] = "loop")
      BY <2>2
    <3>2. /\ wpc' \in [Workers -> WorkerPC]
          /\ \A v \in Workers : /\ wpc'[v] # "sleep"
                                /\ wpc'[v] = pc[v] \/ (pc[v] = "sleep" /\ wpc'[v] = "loop")
      BY <2>2, <2>3, Woken
    <3>3. \A v \in Workers : \/ wpc'[v] = wpc[v]
                             \/ wpc[v] \in {"none", "sleep"} /\ wpc'[v] = "loop"
      BY <3>1, <3>2
    <3>. QED
      BY <2>3, <3>2, <3>3 DEF Enqueued
  <2>5. Threads # Workers
    BY <1>2 DEF NeedThread
  <2>6. Len(mWorkUnits) <= mIdleThreads /\ Len(mWorkUnits) \in Nat
    BY <2>5 DEF Serving
  <2>7. Len(mWorkUnits) + 1 <= mIdleThreads' /\ mIdleThreads' \in Int
    BY <1>2, <2>6
  <2>. QED
    BY <1>1, <1>2, <2>4, <2>7
<1>3. CASE /\ ~NeedThread /\ ~Full
           /\ Add(NewUnit(t), wpc)
           /\ upc' = [upc EXCEPT ![t] = Committed(t)]
           /\ UNCHANGED <<mIdleThreads, mMutex, dropped>>
  <2>1. Enqueued(NewUnit(t))
    BY <1>3, Woken DEF Enqueued, Add
  <2>2. \A w \in Workers : wpc'[w] = "none" <=> wpc[w] = "none"
    BY <1>3, Woken DEF Add
  <2>3. Threads' = Threads
    BY <2>2 DEF Threads
  <2>4. Threads' = Workers \/ Len(mWorkUnits) + 1 <= mIdleThreads'
    BY <1>3, <2>3 DEF NeedThread
  <2>. QED
    BY <1>1, <1>3, <2>1, <2>4
<1>4. CASE /\ ~NeedThread /\ Full
           /\ upc' = [upc EXCEPT ![t] = "full"]
           /\ mMutex' = "commit"
           /\ UNCHANGED <<mIdleThreads, mWorkUnits, wpc, dropped>>
  BY <1>1, <1>4 DEF NeedThread
<1>5. CASE Refused(t)
  BY <1>1, <1>5 DEF Refused
<1>. QED
  BY <1>2, <1>3, <1>4, <1>5 DEF Commit, Refused, NewUnit

\* Every step keeps the types.
LEMMA TypeStep ==
  ASSUME TypeOK, Serving, RoomHeld, [Next]_vars
  PROVE  TypeOK'
<1>0. ASSUME NEW t \in Tasks PROVE Committed(t) \in UserPC
  BY DEF Committed, UserPC
<1>t. /\ mWorkUnits \in Seq(AnyUnit) /\ upc \in [Tasks -> UserPC] /\ n \in [Tasks -> Nat]
      /\ wpc \in [Workers -> WorkerPC] /\ mIdleThreads \in Int
      /\ work \in [Workers -> AnyUnit \cup {NoUnit}]
  BY DEF TypeOK
<1>1. ASSUME NEW t \in Tasks, Commit(t)
      PROVE  TypeOK'
  <2>1. NewUnit(t) \in AnyUnit
    <3>1. n[t] + 1 \in Nat \ {0}
      BY <1>t
    <3>. QED
      BY <3>1, UnitFacts DEF NewUnit
  <2>2. Append(mWorkUnits, NewUnit(t)) \in Seq(AnyUnit)
    BY <1>t, <2>1, AppendFacts
  <2>3. upc' \in [Tasks -> UserPC]
    <3>1. upc' = [upc EXCEPT ![t] = Committed(t)] \/ upc' = [upc EXCEPT ![t] = "full"]
      BY <1>1, CommitFacts DEF Refused
    <3>. QED
      BY <1>0, <1>t, <3>1 DEF UserPC
  <2>4. wpc' \in [Workers -> WorkerPC] /\ mWorkUnits' \in Seq(AnyUnit)
    BY <1>1, <1>t, <2>2, CommitFacts DEF Enqueued, Refused
  <2>5. n' \in [Tasks -> Nat] /\ mIdleThreads' \in Int
    <3>1. n' = [n EXCEPT ![t] = n[t] + 1] /\ mIdleThreads' \in Int
      BY <1>1, CommitFacts
    <3>. QED
      BY <1>t, <3>1
  <2>6. mMutex' \in {"free", "commit", "cancel"}
    BY <1>1, CommitFacts DEF Refused
  <2>7. UNCHANGED <<mCanceled, work, mTaskState, mWaiting, final, kpc>>
    BY <1>1 DEF Commit, taskVars, killVars
  <2>. QED
    BY <2>3, <2>4, <2>5, <2>6, <2>7 DEF TypeOK
<1>2. ASSUME NEW t \in Tasks, CommitRetry(t)
      PROVE  TypeOK'
  <2>1. UnitOf(t) \in AnyUnit
    <3>1. n[t] \in Nat \ {0}
      BY <1>2, <1>t DEF CommitRetry, RoomHeld, AtRoom
    <3>. QED
      BY <3>1, UnitFacts DEF UnitOf
  <2>2. Append(mWorkUnits, UnitOf(t)) \in Seq(AnyUnit)
    BY <1>t, <2>1, AppendFacts
  <2>3. upc' \in [Tasks -> UserPC]
    <3>1. upc' = [upc EXCEPT ![t] = Committed(t)] \/ upc' = [upc EXCEPT ![t] = "full"]
      BY <1>2 DEF CommitRetry
    <3>. QED
      BY <1>0, <1>t, <3>1 DEF UserPC
  <2>4. wpc' \in [Workers -> WorkerPC] /\ mWorkUnits' \in Seq(AnyUnit)
    <3>1. WakeWorkers(wpc) \in [Workers -> WorkerPC]
      BY <1>t, Woken
    <3>2. \/ wpc' = wpc /\ mWorkUnits' = mWorkUnits
          \/ wpc' = WakeWorkers(wpc) /\ mWorkUnits' = Append(mWorkUnits, UnitOf(t))
      BY <1>2 DEF CommitRetry, Add
    <3>. QED
      BY <1>t, <2>2, <3>1, <3>2
  <2>5. mMutex' \in {"free", "commit", "cancel"}
    BY <1>2 DEF CommitRetry, TypeOK
  <2>6. UNCHANGED <<mCanceled, mIdleThreads, work, mTaskState, mWaiting, final, n, kpc>>
    BY <1>2 DEF CommitRetry, taskVars, killVars
  <2>. QED
    BY <2>3, <2>4, <2>5, <2>6 DEF TypeOK
<1>3. ASSUME NEW w \in Workers, Take(w)
      PROVE  TypeOK'
  <2>1. Tail(mWorkUnits) \in Seq(AnyUnit) /\ Head(mWorkUnits) \in AnyUnit
    BY <1>3, <1>t, TailFacts DEF Take
  <2>2. wpc' \in [Workers -> WorkerPC] /\ work' \in [Workers -> AnyUnit \cup {NoUnit}]
    BY <1>3, <1>t, <2>1 DEF Take, WorkerPC
  <2>3. upc' \in [Tasks -> UserPC] /\ mWorkUnits' \in Seq(AnyUnit) /\ mIdleThreads' \in Int
    BY <1>3, <1>t, <2>1, WokenCommits DEF Take
  <2>4. UNCHANGED <<mMutex, mCanceled, mTaskState, mWaiting, final, n, kpc>>
    BY <1>3 DEF Take, taskVars, killVars
  <2>. QED
    BY <2>2, <2>3, <2>4 DEF TypeOK
<1>4. ASSUME NEW w \in Workers, wpc' = [wpc EXCEPT ![w] = wpc'[w]], wpc'[w] \in WorkerPC,
             work' = work \/ work' = [work EXCEPT ![w] = NoUnit],
             mIdleThreads' \in Int,
             UNCHANGED <<mMutex, mWorkUnits, mCanceled, mWaiting, n, kpc>>,
             upc' \in [Tasks -> UserPC], mTaskState' \in [Tasks -> {"open", "final"}],
             final' \in [Tasks -> Nat]
      PROVE  TypeOK'
  <2>1. wpc' \in [Workers -> WorkerPC] /\ work' \in [Workers -> AnyUnit \cup {NoUnit}]
    BY <1>4, <1>t
  <2>. QED
    BY <1>4, <2>1 DEF TypeOK
<1>5. ASSUME NEW w \in Workers, Worker(w) \/ ReportAgain(w), ~Take(w)
      PROVE  TypeOK'
  <2>1. /\ mTaskState \in [Tasks -> {"open", "final"}] /\ final \in [Tasks -> Nat]
    BY DEF TypeOK
  <2>2. work[w] \in AnyUnit \cup {NoUnit} /\ NoUnit.n \in Nat /\ (work[w] \in AnyUnit => work[w].n \in Nat)
    BY <1>t, UnitFacts
  <2>3. Report(w) => mTaskState' \in [Tasks -> {"open", "final"}] /\ final' \in [Tasks -> Nat]
    BY <2>1, <2>2 DEF Report
  <2>4. CASE Idle(w)
    BY <1>4, <1>t, <2>1, <2>4 DEF Idle, queueVars, taskVars, userVars, killVars, WorkerPC
  <2>5. CASE Transfer(w)
    BY <1>4, <1>t, <2>3, <2>5 DEF Transfer, queueVars, userVars, killVars, WorkerPC
  <2>6. CASE ReportAgain(w)
    BY <1>4, <1>t, <2>3, <2>6 DEF ReportAgain, queueVars, userVars, killVars, WorkerPC
  <2>7. CASE Notify(w)
    <3>1. upc' \in [Tasks -> UserPC]
      BY <1>t, <2>7 DEF Notify, Blocked, UserPC
    <3>2. wpc' = [wpc EXCEPT ![w] = wpc'[w]] /\ wpc'[w] \in WorkerPC
      BY <1>t, <2>7 DEF Notify, WorkerPC
    <3>. QED
      BY <1>4, <1>t, <2>1, <2>7, <3>1, <3>2 DEF Notify, queueVars, taskVars, killVars
  <2>8. CASE Ended(w)
    BY <1>4, <1>t, <2>1, <2>8 DEF Ended, queueVars, taskVars, userVars, killVars, WorkerPC
  <2>9. CASE Back(w)
    <3>1. mIdleThreads' \in Int /\ wpc' = [wpc EXCEPT ![w] = "loop"]
      BY <1>t, <2>9 DEF Back
    <3>. QED
     BY <3>1, <1>4, <1>t, <2>1, <2>9 DEF Back, taskVars, userVars, killVars, WorkerPC
  <2>. QED
    BY <1>5, <2>4, <2>5, <2>6, <2>7, <2>8, <2>9 DEF Worker
<1>6. ASSUME NEW t \in Tasks, WaitTest(t) \/ WaitFlag(t) \/ WaitSleep(t) \/ Reset(t)
      PROVE  TypeOK'
  <2>1. upc' \in [Tasks -> UserPC]
    BY <1>6, <1>t DEF WaitTest, WaitFlag, WaitSleep, Reset, UserPC
  <2>2. mWaiting' \in [Tasks -> BOOLEAN]
    <3>1. mWaiting \in [Tasks -> BOOLEAN]
      BY DEF TypeOK
    <3>2. \/ mWaiting' = mWaiting \/ mWaiting' = [mWaiting EXCEPT ![t] = TRUE]
          \/ mWaiting' = [mWaiting EXCEPT ![t] = FALSE]
      BY <1>6, Zenon DEF WaitTest, WaitFlag, WaitSleep, Reset, taskVars
    <3>. QED
      BY <3>1, <3>2, Zenon
  <2>3. mTaskState' \in [Tasks -> {"open", "final"}]
    BY <1>6 DEF WaitTest, WaitFlag, WaitSleep, Reset, taskVars, TypeOK
  <2>4. UNCHANGED <<mMutex, mWorkUnits, mIdleThreads, mCanceled, wpc, work, n, final, kpc>>
    BY <1>6 DEF WaitTest, WaitFlag, WaitSleep, Reset, taskVars, queueVars, workerVars, killVars
  <2>. QED
    BY <2>1, <2>2, <2>3, <2>4 DEF TypeOK
<1>7. CASE Cancel \/ Destroy \/ Killer
  <2>1. mWorkUnits' \in Seq(AnyUnit)
    <3>1. <<>> \in Seq(AnyUnit)
      OBVIOUS
    <3>2. DOMAIN mWorkUnits = 1 .. Len(mWorkUnits)
      BY <1>t
    <3>3. \A i \in DOMAIN mWorkUnits : RemoveAt(mWorkUnits, i) \in Seq(AnyUnit)
      BY <1>t, <3>2, RemoveAtFacts
    <3>4. \/ mWorkUnits' = mWorkUnits \/ mWorkUnits' = <<>>
          \/ \E i \in DOMAIN mWorkUnits : mWorkUnits' = RemoveAt(mWorkUnits, i)
      BY <1>7 DEF Cancel, Destroy, Killer, CancelFound, Finish, Join, queueVars
    <3>. QED
      BY <1>t, <3>1, <3>3, <3>4
  <2>2. wpc' \in [Workers -> WorkerPC]
    BY <1>7, <1>t, Woken DEF Cancel, Destroy, Killer, CancelFound, Finish, Join, workerVars
  <2>3. mCanceled' \in BOOLEAN
    <3>1. mCanceled' = mCanceled \/ mCanceled' = TRUE
      BY <1>7, Zenon DEF Cancel, Destroy, Killer, CancelFound, Finish, Join, queueVars
    <3>. QED
      BY <3>1, Zenon DEF TypeOK
  <2>4. /\ mMutex' \in {"free", "commit", "cancel"}
        /\ kpc' \in {"idle", "found", "crashed", "finish", "join", "deleted"}
    BY <1>7 DEF Cancel, Destroy, Killer, CancelFound, Finish, Join, queueVars, TypeOK
  <2>5. UNCHANGED <<mIdleThreads, work, mTaskState, mWaiting, final, upc, n>>
    BY <1>7 DEF Cancel, Destroy, Killer, CancelFound, Finish, Join, queueVars, workerVars, taskVars,
         userVars
  <2>. QED
    BY <2>1, <2>2, <2>3, <2>4, <2>5 DEF TypeOK
<1>8. CASE UNCHANGED vars
  BY <1>8 DEF vars, queueVars, workerVars, taskVars, userVars, killVars, TypeOK
<1>. QED
  BY <1>1, <1>2, <1>3, <1>5, <1>6, <1>7, <1>8 DEF Next, User, Worker

-----------------------------------------------------------------------------
(* The queue, its threads and the commit that waits for room.              *)

Queue == TypeOK /\ Serving /\ RoomHeld /\ CanceledLate

\* A step that brings no commit to the queue and takes no more threads than units.
LEMMA QueueFrame ==
  ASSUME Queue, UNCHANGED n, mIdleThreads' \in Int, Len(mWorkUnits') \in Nat,
         mWorkUnits' # <<>> => \A w \in Workers : wpc'[w] # "sleep",
         Len(mWorkUnits') - mIdleThreads' <= Len(mWorkUnits) - mIdleThreads,
         \A w \in Workers : wpc[w] # "none" => wpc'[w] # "none",
         \A t \in Tasks : AtRoom(t)' => AtRoom(t) /\ mMutex' = "commit",
         \A t \in Tasks : upc'[t] = "full" => Full',
         kpc' = "found" => mMutex' = "cancel",
         mCanceled' => kpc' \in {"finish", "join", "deleted"},
         mCanceled' => \A t \in Tasks : ~AtRoom(t)'
  PROVE  Serving' /\ RoomHeld' /\ CanceledLate'
<1>1. mIdleThreads \in Int /\ Len(mWorkUnits) \in Nat
  BY DEF Queue, TypeOK
<1>2. Threads = Workers => Threads' = Workers
  BY DEF Threads
<1>3. Serving'
  BY <1>1, <1>2 DEF Queue, Serving
<1>4. ASSUME NEW t \in Tasks, AtRoom(t)'
      PROVE  /\ mMutex' = "commit" /\ n'[t] > 0 /\ \A s \in Tasks \ {t} : ~AtRoom(s)'
             /\ Threads' = Workers \/ Len(mWorkUnits') + 1 <= mIdleThreads'
  BY <1>1, <1>2, <1>4 DEF Queue, RoomHeld
<1>5. RoomHeld'
  BY <1>4 DEF RoomHeld
<1>6. CanceledLate'
  BY DEF CanceledLate
<1>. QED
  BY <1>3, <1>5, <1>6

\* Every step keeps the queued units served, and mMutex with the commit that sleeps for room.
LEMMA QueueStep ==
  ASSUME Queue, [Next]_vars
  PROVE  Queue'
<1>t. /\ mWorkUnits \in Seq(AnyUnit) /\ upc \in [Tasks -> UserPC] /\ n \in [Tasks -> Nat]
      /\ wpc \in [Workers -> WorkerPC] /\ mIdleThreads \in Int /\ Len(mWorkUnits) \in Nat
  BY DEF Queue, TypeOK
<1>u. TypeOK'
  BY TypeStep DEF Queue
<1>v. mIdleThreads' \in Int /\ Len(mWorkUnits') \in Nat /\ upc' \in [Tasks -> UserPC]
  BY <1>u DEF TypeOK
<1>0. ASSUME NEW t \in Tasks PROVE Committed(t) \notin {"full", "retry", "idle"}
  BY DEF Committed
<1>1. ASSUME NEW t \in Tasks, Commit(t)
      PROVE  Serving' /\ RoomHeld' /\ CanceledLate'
  <2>1. /\ upc[t] = "idle" /\ kpc = "idle" /\ mMutex = "free" /\ n'[t] > 0
        /\ n' = [n EXCEPT ![t] = n[t] + 1]
    BY <1>1, <1>t, CommitFacts DEF Queue
  <2>2. kpc' = kpc /\ mCanceled' = mCanceled
    BY <1>1 DEF Commit, killVars
  <2>3. \A s \in Tasks : ~AtRoom(s)
    BY <2>1 DEF Queue, RoomHeld
  <2>4. CanceledLate' /\ ~mCanceled'
    BY <2>1, <2>2 DEF Queue, CanceledLate
  <2>5. CASE /\ Enqueued(NewUnit(t))
             /\ upc' = [upc EXCEPT ![t] = Committed(t)]
             /\ Threads' = Workers \/ Len(mWorkUnits) + 1 <= mIdleThreads'
    <3>1. Len(mWorkUnits') = Len(mWorkUnits) + 1
      <4>1. NewUnit(t) \in AnyUnit
        BY <1>t, UnitFacts DEF NewUnit, AnyUnit
      <4>. QED
        BY <1>t, <2>5, <4>1, AppendFacts DEF Enqueued
    <3>2. Serving'
      BY <2>5, <3>1 DEF Serving, Enqueued
    <3>3. \A s \in Tasks : ~AtRoom(s)' /\ upc'[s] # "full"
      BY <1>0, <1>t, <2>3, <2>5 DEF AtRoom
    <3>4. RoomHeld'
      BY <2>1, <2>2, <3>3 DEF RoomHeld
    <3>. QED
      BY <2>4, <3>2, <3>4
  <2>6. CASE /\ UNCHANGED <<mWorkUnits, wpc, mIdleThreads>> /\ Full /\ mMutex' = "commit"
             /\ upc' = [upc EXCEPT ![t] = "full"]
             /\ Threads = Workers \/ Len(mWorkUnits) + 1 <= mIdleThreads
    <3>1. Threads' = Threads /\ Full'
      BY <2>6 DEF Threads, Full
    <3>2. Serving'
      BY <2>6, <3>1 DEF Queue, Serving
    <3>3. \A s \in Tasks \ {t} : ~AtRoom(s)' /\ upc'[s] # "full"
      BY <1>t, <2>3, <2>6 DEF AtRoom
    <3>4. RoomHeld'
      BY <2>1, <2>2, <2>6, <3>1, <3>3 DEF RoomHeld
    <3>. QED
      BY <2>4, <3>2, <3>4
  <2>7. CASE Refused(t)
    <3>1. Threads' = Threads /\ UNCHANGED <<mWorkUnits, wpc, mIdleThreads, mMutex>>
      BY <2>7 DEF Refused, Threads
    <3>2. Serving'
      BY <3>1 DEF Queue, Serving
    <3>3. \A s \in Tasks : ~AtRoom(s)' /\ upc'[s] # "full"
      BY <1>0, <1>t, <2>3, <2>7 DEF AtRoom, Refused
    <3>4. RoomHeld'
      BY <2>1, <2>2, <3>3 DEF RoomHeld
    <3>. QED
      BY <2>4, <3>2, <3>4
  <2>. QED
    BY <1>1, <2>5, <2>6, <2>7, CommitFacts DEF Queue
<1>2. ASSUME NEW t \in Tasks, CommitRetry(t)
      PROVE  Serving' /\ RoomHeld' /\ CanceledLate'
  <2>1. /\ upc[t] = "retry" /\ AtRoom(t) /\ UNCHANGED <<n, kpc, mCanceled, mIdleThreads>>
    BY <1>2 DEF CommitRetry, AtRoom, killVars
  <2>2. /\ mMutex = "commit" /\ n[t] > 0 /\ ~mCanceled /\ \A s \in Tasks \ {t} : ~AtRoom(s)
        /\ Threads = Workers \/ Len(mWorkUnits) + 1 <= mIdleThreads
    BY <2>1 DEF Queue, RoomHeld, CanceledLate
  <2>3. CASE Full /\ upc' = [upc EXCEPT ![t] = "full"] /\ UNCHANGED <<mMutex, mWorkUnits, wpc>>
    <3>1. \A s \in Tasks : (AtRoom(s)' => AtRoom(s)) /\ Full'
      BY <1>t, <2>1, <2>3 DEF AtRoom, Full
    <3>2. /\ mWorkUnits' # <<>> => \A w \in Workers : wpc'[w] # "sleep"
          /\ kpc' = "found" => mMutex' = "cancel"
      BY <2>1, <2>3 DEF Queue, Serving, RoomHeld
    <3>. QED
      BY <1>t, <2>1, <2>2, <2>3, <3>1, <3>2, QueueFrame
  <2>4. CASE /\ Add(UnitOf(t), wpc) /\ upc' = [upc EXCEPT ![t] = Committed(t)] /\ mMutex' = "free"
    <3>1. Len(mWorkUnits') = Len(mWorkUnits) + 1
      <4>1. UnitOf(t) \in AnyUnit
        BY <1>t, <2>2, UnitFacts DEF UnitOf, AnyUnit
      <4>. QED
        BY <1>t, <2>4, <4>1, AppendFacts DEF Add
    <3>2. \A w \in Workers : wpc'[w] # "sleep" /\ (wpc'[w] = "none" <=> wpc[w] = "none")
      BY <1>t, <2>4, Woken DEF Add
    <3>3. Threads' = Threads
      BY <3>2 DEF Threads
    <3>4. Serving'
      BY <2>1, <2>2, <3>1, <3>2, <3>3 DEF Serving
    <3>5. \A s \in Tasks : ~AtRoom(s)' /\ upc'[s] # "full"
      BY <1>0, <1>t, <2>2, <2>4 DEF AtRoom
    <3>6. kpc' # "found"
      BY <2>1, <2>2 DEF Queue, RoomHeld
    <3>. QED
      BY <2>1, <2>2, <3>4, <3>5, <3>6 DEF RoomHeld, CanceledLate
  <2>. QED
    BY <1>2, <2>3, <2>4 DEF CommitRetry
<1>3. ASSUME NEW w \in Workers, Take(w)
      PROVE  Serving' /\ RoomHeld' /\ CanceledLate'
  <2>1. /\ mWorkUnits # <<>> /\ wpc' = [wpc EXCEPT ![w] = "run"] /\ upc' = WakeCommits
        /\ mIdleThreads' = mIdleThreads - 1 /\ mWorkUnits' = Tail(mWorkUnits)
        /\ UNCHANGED <<mMutex, mCanceled, n, kpc>>
    BY <1>3 DEF Take, killVars
  <2>2. Len(mWorkUnits') = Len(mWorkUnits) - 1
    BY <1>t, <2>1, TailFacts
  <2>3. \A t \in Tasks : (AtRoom(t)' => AtRoom(t) /\ mMutex = "commit") /\ upc'[t] # "full"
    BY <1>t, <2>1, WokenCommits DEF AtRoom, Queue, RoomHeld
  <2>4. \A v \in Workers : wpc'[v] # "sleep" /\ (wpc[v] # "none" => wpc'[v] # "none")
    BY <1>t, <2>1 DEF Queue, Serving
  <2>5. /\ kpc' = "found" => mMutex' = "cancel"
        /\ mCanceled' => kpc' \in {"finish", "join", "deleted"} /\ \A t \in Tasks : ~AtRoom(t)
    BY <2>1 DEF Queue, RoomHeld, CanceledLate
  <2>. QED
    BY <1>t, <1>v, <2>1, <2>2, <2>3, <2>4, <2>5, QueueFrame
<1>4. ASSUME UNCHANGED <<mMutex, mCanceled, n, kpc, mWorkUnits>>, mIdleThreads' >= mIdleThreads,
             \A w \in Workers : wpc[w] # "none" => wpc'[w] # "none",
             \A w \in Workers : wpc'[w] = "sleep" => wpc[w] = "sleep" \/ mWorkUnits = <<>>,
             \A t \in Tasks : upc'[t] \in {"full", "retry"} => upc'[t] = upc[t]
      PROVE  Serving' /\ RoomHeld' /\ CanceledLate'
  <2>1. \A t \in Tasks : (AtRoom(t)' => AtRoom(t) /\ mMutex = "commit") /\ (upc'[t] = "full" => Full')
    BY <1>4 DEF AtRoom, Queue, RoomHeld, Full
  <2>2. mWorkUnits' # <<>> => \A w \in Workers : wpc'[w] # "sleep"
    BY <1>4 DEF Queue, Serving
  <2>3. /\ kpc' = "found" => mMutex' = "cancel"
        /\ mCanceled' => kpc' \in {"finish", "join", "deleted"} /\ \A t \in Tasks : ~AtRoom(t)
    BY <1>4 DEF Queue, RoomHeld, CanceledLate
  <2>. QED
    BY <1>4, <1>t, <1>v, <2>1, <2>2, <2>3, QueueFrame
<1>5. ASSUME NEW w \in Workers, Worker(w) \/ ReportAgain(w), ~Take(w)
      PROVE  Serving' /\ RoomHeld' /\ CanceledLate'
  <2>1. UNCHANGED <<mMutex, mCanceled, n, kpc, mWorkUnits>>
    BY <1>5 DEF Worker, ReportAgain, Idle, Transfer, Notify, Ended, Back, queueVars, userVars, killVars
  <2>2. mIdleThreads' = mIdleThreads \/ mIdleThreads' = mIdleThreads + 1
    BY <1>5 DEF Worker, ReportAgain, Idle, Transfer, Notify, Ended, Back, queueVars
  <2>3. /\ \A v \in Workers \ {w} : wpc'[v] = wpc[v]
        /\ wpc[w] # "none" /\ wpc'[w] # "none"
        /\ wpc'[w] = "sleep" => mWorkUnits = <<>>
    BY <1>5, <1>t DEF Worker, ReportAgain, Idle, Transfer, Notify, Ended, Back
  <2>4. \A t \in Tasks : upc'[t] = upc[t] \/ upc'[t] = "test"
    BY <1>5, <1>t DEF Worker, ReportAgain, Idle, Transfer, Notify, Ended, Back, userVars
  <2>. QED
    BY <1>4, <1>t, <2>1, <2>2, <2>3, <2>4
<1>6. ASSUME NEW t \in Tasks, WaitTest(t) \/ WaitFlag(t) \/ WaitSleep(t) \/ Reset(t)
      PROVE  Serving' /\ RoomHeld' /\ CanceledLate'
  <2>1. UNCHANGED <<mMutex, mCanceled, n, kpc, mWorkUnits, mIdleThreads, wpc>>
    BY <1>6 DEF WaitTest, WaitFlag, WaitSleep, Reset, queueVars, workerVars, killVars
  <2>2. \A s \in Tasks : upc'[s] \in {"full", "retry"} => upc'[s] = upc[s]
    BY <1>6, <1>t DEF WaitTest, WaitFlag, WaitSleep, Reset
  <2>. QED
    BY <1>4, <1>t, <2>1, <2>2
<1>7. CASE Cancel \/ Destroy
  <2>1. /\ kpc = "idle" /\ mMutex = "free" /\ UNCHANGED <<mIdleThreads, upc, n>>
    BY <1>7 DEF Cancel, Destroy, userVars
  <2>2. \A t \in Tasks : ~AtRoom(t) /\ ~AtRoom(t)' /\ upc'[t] # "full"
    BY <2>1 DEF Queue, RoomHeld, AtRoom
  <2>3. \/ mWorkUnits' = mWorkUnits \/ mWorkUnits' = <<>>
        \/ \E i \in DOMAIN mWorkUnits : mWorkUnits' = RemoveAt(mWorkUnits, i)
    BY <1>7 DEF Cancel, Destroy
  <2>4. Len(mWorkUnits') <= Len(mWorkUnits) /\ (mWorkUnits' # <<>> => mWorkUnits # <<>>)
    <3>1. DOMAIN mWorkUnits = 1 .. Len(mWorkUnits) /\ Len(<<>>) = 0
      BY <1>t
    <3>2. \A i \in DOMAIN mWorkUnits : Len(RemoveAt(mWorkUnits, i)) = Len(mWorkUnits) - 1 /\ mWorkUnits # <<>>
      BY <1>t, <3>1, RemoveAtFacts
    <3>3. ASSUME NEW i \in DOMAIN mWorkUnits, mWorkUnits' = RemoveAt(mWorkUnits, i)
          PROVE  Len(mWorkUnits') <= Len(mWorkUnits) /\ mWorkUnits # <<>>
      BY <1>t, <3>2, <3>3
    <3>4. CASE mWorkUnits' = mWorkUnits \/ mWorkUnits' = <<>>
      BY <1>t, <3>1, <3>4
    <3>. QED
      BY <2>3, <3>3, <3>4
  <2>5. \A w \in Workers : /\ wpc[w] # "none" => wpc'[w] # "none"
                           /\ wpc'[w] = "sleep" => wpc[w] = "sleep"
    BY <1>7, <1>t, Woken DEF Cancel, Destroy
  <2>6. /\ kpc' = "found" => mMutex' = "cancel"
        /\ mCanceled' => kpc' \in {"finish", "join", "deleted"}
    BY <1>7, <2>1 DEF Cancel, Destroy, Queue, CanceledLate
  <2>7. mWorkUnits' # <<>> => \A w \in Workers : wpc'[w] # "sleep"
    BY <2>4, <2>5 DEF Queue, Serving
  <2>. QED
    <3>1. Serving' /\ RoomHeld' /\ CanceledLate'
      BY <1>t, <1>v, <2>1, <2>2, <2>4, <2>5, <2>6, <2>7, QueueFrame
    <3>. QED
      BY <1>u, <3>1 DEF Queue
<1>8. CASE Killer
  <2>1. /\ UNCHANGED <<mWorkUnits, mIdleThreads, mCanceled, upc, n>>
        /\ kpc \in {"found", "finish", "join"}
    BY <1>8 DEF Killer, CancelFound, Finish, Join, queueVars, userVars
  <2>2. \A w \in Workers : /\ wpc[w] # "none" => wpc'[w] # "none"
                           /\ wpc'[w] = "sleep" => wpc[w] = "sleep"
    BY <1>8, <1>t, Woken DEF Killer, CancelFound, Finish, Join, workerVars
  <2>3. mWorkUnits' # <<>> => \A w \in Workers : wpc'[w] # "sleep"
    BY <2>1, <2>2 DEF Queue, Serving
  <2>4. \A t \in Tasks : (AtRoom(t)' => AtRoom(t) /\ mMutex' = "commit") /\ (upc'[t] = "full" => Full')
    BY <1>8, <2>1 DEF Killer, CancelFound, Finish, Join, queueVars, Queue, RoomHeld, AtRoom, Full
  <2>5. kpc' # "found" /\ (mCanceled' => kpc' \in {"finish", "join", "deleted"})
    BY <1>8, <2>1 DEF Killer, CancelFound, Finish, Join, Queue, CanceledLate
  <2>6. mCanceled' => \A t \in Tasks : ~AtRoom(t)'
    BY <2>1, <2>4 DEF Queue, CanceledLate
  <2>. QED
    <3>1. Serving' /\ RoomHeld' /\ CanceledLate'
      BY <1>t, <1>v, <2>1, <2>2, <2>3, <2>4, <2>5, <2>6, QueueFrame
    <3>. QED
      BY <1>u, <3>1 DEF Queue
<1>9. CASE UNCHANGED vars
  <2>1. UNCHANGED <<mMutex, mCanceled, n, kpc, mWorkUnits, mIdleThreads, wpc, upc>>
    BY <1>9 DEF vars, queueVars, workerVars, userVars, killVars
  <2>2. Serving' /\ RoomHeld' /\ CanceledLate'
    BY <1>4, <1>t, <2>1
  <2>. QED
    BY <1>u, <2>2 DEF Queue
<1>. QED
  BY <1>1, <1>2, <1>3, <1>5, <1>6, <1>7, <1>8, <1>9, <1>u DEF Next, User, Worker, Queue

-----------------------------------------------------------------------------
(* Where the units are.                                                    *)

Placed == UnitsOnce /\ UnitsCommitted /\ WorkHeld

HasUnit == {"run", "notify", "ended"}

\* The unit u is in the queue or at a work thread.
Present(u) == \/ \E i \in 1 .. Len(mWorkUnits) : mWorkUnits[i] = u
              \/ \E w \in Workers : work[w] = u

\* A unit that is queued or running was committed, and before the commit that sleeps for room.
LEMMA PresentFacts ==
  ASSUME TypeOK, Placed, NEW u \in AnyUnit, Present(u)
  PROVE  u.n <= n[u.task] /\ (AtRoom(u.task) => u.n < n[u.task])
BY UnitFacts DEF Present, Placed, UnitsCommitted

\* A step that moves no unit.
LEMMA PlacedFrame ==
  ASSUME Placed, UNCHANGED <<mWorkUnits, work, n>>,
         \A t \in Tasks : AtRoom(t)' => AtRoom(t),
         \A w \in Workers : wpc'[w] \in HasUnit => wpc[w] \in HasUnit,
         TypeOK
  PROVE  Placed'
<1>1. UnitsOnce'
  BY DEF Placed, UnitsOnce
<1>2. UnitsCommitted'
  <2>1. \A i \in 1 .. Len(mWorkUnits) : mWorkUnits[i].task \in Tasks
    BY UnitFacts DEF TypeOK
  <2>2. \A w \in Workers : work[w] # NoUnit => work[w].task \in Tasks
    BY UnitFacts DEF TypeOK
  <2>. QED
    BY <2>1, <2>2 DEF Placed, UnitsCommitted
<1>3. WorkHeld'
  BY DEF Placed, WorkHeld, HasUnit
<1>. QED
  BY <1>1, <1>2, <1>3 DEF Placed

\* The unit of the commit k of t enters the queue.
LEMMA PlacedAdd ==
  ASSUME TypeOK, Placed, NEW t \in Tasks, NEW k \in Nat \ {0},
         mWorkUnits' = Append(mWorkUnits, [task |-> t, n |-> k]), work' = work,
         n' = [n EXCEPT ![t] = k], k >= n[t],
         \A u \in AnyUnit : Present(u) /\ u.task = t => u.n < k,
         \A s \in Tasks : AtRoom(s)' => s # t /\ AtRoom(s),
         \A w \in Workers : wpc'[w] \in HasUnit => wpc[w] \in HasUnit
  PROVE  Placed'
<1>. DEFINE u == [task |-> t, n |-> k]  L == Len(mWorkUnits)
<1>1. u \in AnyUnit /\ u.task = t /\ u.n = k
  BY UnitFacts DEF AnyUnit
<1>2. /\ L \in Nat /\ Len(mWorkUnits') = L + 1 /\ mWorkUnits'[L + 1] = u
      /\ \A i \in 1 .. L : mWorkUnits'[i] = mWorkUnits[i]
  BY <1>1, AppendFacts DEF TypeOK
<1>3. /\ \A i \in 1 .. L : mWorkUnits[i] \in AnyUnit /\ Present(mWorkUnits[i])
      /\ \A w \in Workers : work[w] # NoUnit => work[w] \in AnyUnit /\ Present(work[w])
  BY DEF TypeOK, Present
<1>. HIDE DEF u, L
<1>4. /\ \A i \in 1 .. L : mWorkUnits[i] # u
      /\ \A w \in Workers : work[w] # u
  BY <1>1, <1>3, UnitFacts DEF Present
<1>5. ASSUME NEW i \in 1 .. L + 1
      PROVE  (i \in 1 .. L /\ mWorkUnits'[i] = mWorkUnits[i]) \/ (i = L + 1 /\ mWorkUnits'[i] = u)
  BY <1>2
<1>6. UnitsOnce'
  <2>1. \A i, j \in 1 .. L + 1 : mWorkUnits'[i] = mWorkUnits'[j] => i = j
    BY <1>4, <1>5 DEF Placed, UnitsOnce, L
  <2>2. \A w \in Workers : \A i \in 1 .. L + 1 : work[w] # mWorkUnits'[i]
    BY <1>4, <1>5 DEF Placed, UnitsOnce, L
  <2>. QED
    BY <1>2, <2>1, <2>2 DEF Placed, UnitsOnce
<1>7. UnitsCommitted'
  <2>1. ASSUME NEW v \in AnyUnit, Present(v) \/ v = u
        PROVE  v.n <= n'[v.task] /\ (AtRoom(v.task)' => v.n < n'[v.task])
    <3>1. v.task \in Tasks /\ v.n \in Nat /\ n \in [Tasks -> Nat]
      BY UnitFacts DEF TypeOK
    <3>2. CASE v.task = t
      BY <1>1, <2>1, <3>1, <3>2
    <3>3. CASE v.task # t
      BY <1>1, <2>1, <3>1, <3>3, PresentFacts
    <3>. QED
      BY <3>2, <3>3
  <2>2. \A i \in 1 .. L + 1 : mWorkUnits'[i] \in AnyUnit /\ (Present(mWorkUnits'[i]) \/ mWorkUnits'[i] = u)
    BY <1>1, <1>3, <1>5
  <2>3. \A w \in Workers : work'[w] # NoUnit => work'[w] \in AnyUnit /\ Present(work'[w])
    BY <1>3
  <2>. QED
    BY <1>2, <2>1, <2>2, <2>3 DEF UnitsCommitted
<1>8. WorkHeld'
  BY DEF Placed, WorkHeld, HasUnit
<1>. QED
  BY <1>6, <1>7, <1>8 DEF Placed

\* A work thread takes the first unit.
LEMMA PlacedTake ==
  ASSUME TypeOK, Placed, NEW w \in Workers, Take(w)
  PROVE  Placed'
<1>. DEFINE L == Len(mWorkUnits)
<1>1. /\ wpc[w] = "loop" /\ mWorkUnits # <<>> /\ UNCHANGED n
      /\ work' = [work EXCEPT ![w] = Head(mWorkUnits)] /\ mWorkUnits' = Tail(mWorkUnits)
      /\ wpc' = [wpc EXCEPT ![w] = "run"] /\ upc' = WakeCommits
  BY DEF Take
<1>2. /\ L \in Nat \ {0} /\ Len(mWorkUnits') = L - 1 /\ work'[w] = mWorkUnits[1]
      /\ \A i \in 1 .. L - 1 : mWorkUnits'[i] = mWorkUnits[i + 1]
      /\ \A v \in Workers \ {w} : work'[v] = work[v]
      /\ mWorkUnits[1] \in AnyUnit
  BY <1>1, TailFacts DEF TypeOK
<1>. HIDE DEF L
<1>3. \A t \in Tasks : AtRoom(t)' => AtRoom(t)
  BY <1>1, WokenCommits DEF AtRoom, TypeOK
<1>4. \A i \in 1 .. L - 1 : i + 1 \in 1 .. L /\ i + 1 # 1 /\ mWorkUnits'[i] = mWorkUnits[i + 1]
  BY <1>2
<1>5. 1 \in 1 .. L
  BY <1>2
<1>6. UnitsOnce'
  <2>1. ASSUME NEW i \in 1 .. L - 1, NEW j \in 1 .. L - 1, mWorkUnits'[i] = mWorkUnits'[j]
        PROVE  i = j
    <3>1. i + 1 = j + 1
      BY <1>4, <2>1 DEF Placed, UnitsOnce, L
    <3>. QED
      BY <1>2, <3>1
  <2>2. \A v \in Workers : \A i \in 1 .. L - 1 : work'[v] # mWorkUnits'[i]
    BY <1>2, <1>4, <1>5 DEF Placed, UnitsOnce, L
  <2>3. \A v, x \in Workers : work'[v] = work'[x] /\ work'[v] # NoUnit => v = x
    BY <1>2, <1>5 DEF Placed, UnitsOnce, L
  <2>. QED
    BY <1>2, <2>1, <2>2, <2>3 DEF UnitsOnce
<1>7. UnitsCommitted'
  <2>1. \A i \in 1 .. L : mWorkUnits[i] \in AnyUnit /\ Present(mWorkUnits[i])
    BY DEF TypeOK, Present, L
  <2>2. \A v \in Workers : work'[v] # NoUnit => work'[v] \in AnyUnit /\ Present(work'[v])
    <3>1. work'[w] \in AnyUnit /\ Present(work'[w])
      BY <1>2, <1>5, <2>1
    <3>2. ASSUME NEW v \in Workers, work[v] # NoUnit
          PROVE  work[v] \in AnyUnit /\ Present(work[v])
      BY <3>2 DEF TypeOK, Present
    <3>. QED
      BY <1>2, <3>1, <3>2
  <2>3. \A u \in AnyUnit : Present(u) => u.n <= n'[u.task] /\ (AtRoom(u.task)' => u.n < n'[u.task])
    BY <1>1, <1>3, PresentFacts, UnitFacts
  <2>. QED
    BY <1>2, <1>4, <2>1, <2>2, <2>3 DEF UnitsCommitted
<1>8. WorkHeld'
  <2>1. work'[w] # NoUnit
    BY <1>2, UnitFacts
  <2>2. \A v \in Workers \ {w} : wpc'[v] = wpc[v]
    BY <1>1 DEF TypeOK
  <2>. QED
    BY <1>2, <2>1, <2>2 DEF Placed, WorkHeld
<1>. QED
  BY <1>6, <1>7, <1>8 DEF Placed

\* Every step keeps each unit in one place.
LEMMA PlacedStep ==
  ASSUME Queue, Placed, [Next]_vars
  PROVE  Placed'
<1>t. /\ TypeOK /\ mWorkUnits \in Seq(AnyUnit) /\ upc \in [Tasks -> UserPC] /\ n \in [Tasks -> Nat]
      /\ wpc \in [Workers -> WorkerPC] /\ Len(mWorkUnits) \in Nat
      /\ work \in [Workers -> AnyUnit \cup {NoUnit}]
      /\ DOMAIN mWorkUnits = 1 .. Len(mWorkUnits)
  BY DEF Queue, TypeOK
<1>0. ASSUME NEW t \in Tasks PROVE Committed(t) \notin {"full", "retry", "idle"}
  BY DEF Committed
<1>1. ASSUME NEW t \in Tasks, Commit(t)
      PROVE  Placed'
  <2>1. /\ upc[t] = "idle" /\ mMutex = "free" /\ n' = [n EXCEPT ![t] = n[t] + 1] /\ work' = work
    BY <1>1, CommitFacts DEF Commit, Queue
  <2>2. \A s \in Tasks : ~AtRoom(s)
    BY <2>1 DEF Queue, RoomHeld
  <2>3. \A u \in AnyUnit : Present(u) /\ u.task = t => u.n < n[t] + 1
    BY <1>t, PresentFacts, UnitFacts
  <2>4. CASE Enqueued(NewUnit(t)) /\ upc' = [upc EXCEPT ![t] = Committed(t)]
    <3>1. \A s \in Tasks : ~AtRoom(s)'
      BY <1>0, <1>t, <2>2, <2>4 DEF AtRoom
    <3>2. \A w \in Workers : wpc'[w] \in HasUnit => wpc[w] \in HasUnit
      BY <2>4 DEF Enqueued, HasUnit
    <3>3. n[t] + 1 \in Nat \ {0} /\ n[t] + 1 >= n[t]
      BY <1>t
    <3>4. mWorkUnits' = Append(mWorkUnits, [task |-> t, n |-> n[t] + 1])
      BY <2>4 DEF Enqueued, NewUnit
    <3>. QED
      BY <1>t, <2>1, <2>3, <3>1, <3>2, <3>3, <3>4, PlacedAdd
  <2>5. CASE UNCHANGED <<mWorkUnits, wpc>> /\ \E to \in UserPC : upc' = [upc EXCEPT ![t] = to]
    <3>1. \A s \in Tasks : AtRoom(s)' => s = t
      BY <1>t, <2>2, <2>5 DEF AtRoom
    <3>2. UnitsOnce' /\ WorkHeld'
      BY <2>1, <2>5 DEF Placed, UnitsOnce, WorkHeld
    <3>3. \A u \in AnyUnit : Present(u) => u.n <= n'[u.task] /\ (AtRoom(u.task)' => u.n < n'[u.task])
      BY <1>t, <2>1, <2>3, <3>1, PresentFacts, UnitFacts
    <3>4. /\ \A i \in 1 .. Len(mWorkUnits) : mWorkUnits[i] \in AnyUnit /\ Present(mWorkUnits[i])
          /\ \A w \in Workers : work[w] # NoUnit => work[w] \in AnyUnit /\ Present(work[w])
      BY <1>t DEF Present
    <3>5. UnitsCommitted'
      BY <2>1, <2>5, <3>3, <3>4 DEF UnitsCommitted
    <3>. QED
      BY <3>2, <3>5 DEF Placed
  <2>6. Committed(t) \in UserPC /\ "full" \in UserPC
    BY DEF Committed, UserPC
  <2>. QED
    BY <1>1, <2>4, <2>5, <2>6, CommitFacts DEF Queue, Refused
<1>2. ASSUME NEW t \in Tasks, CommitRetry(t)
      PROVE  Placed'
  <2>1. upc[t] = "retry" /\ AtRoom(t) /\ UNCHANGED <<n, work>>
    BY <1>2 DEF CommitRetry, AtRoom
  <2>2. n[t] \in Nat \ {0} /\ \A s \in Tasks \ {t} : ~AtRoom(s)
    BY <1>t, <2>1 DEF Queue, RoomHeld
  <2>3. CASE Full /\ upc' = [upc EXCEPT ![t] = "full"] /\ UNCHANGED <<mMutex, mWorkUnits, wpc>>
    <3>1. \A s \in Tasks : AtRoom(s)' => AtRoom(s)
      BY <1>t, <2>1, <2>3 DEF AtRoom
    <3>. QED
      BY <1>t, <2>1, <2>3, <3>1, PlacedFrame
  <2>4. CASE /\ Add(UnitOf(t), wpc) /\ upc' = [upc EXCEPT ![t] = Committed(t)]
    <3>1. \A s \in Tasks : ~AtRoom(s)'
      BY <1>0, <1>t, <2>2, <2>4 DEF AtRoom
    <3>2. \A w \in Workers : wpc'[w] \in HasUnit => wpc[w] \in HasUnit
      BY <1>t, <2>4, Woken DEF Add, HasUnit
    <3>3. \A u \in AnyUnit : Present(u) /\ u.task = t => u.n < n[t]
      BY <1>t, <2>1, PresentFacts
    <3>4. mWorkUnits' = Append(mWorkUnits, [task |-> t, n |-> n[t]]) /\ n' = [n EXCEPT ![t] = n[t]]
      BY <1>t, <2>1, <2>4 DEF Add, UnitOf
    <3>5. n[t] >= n[t]
      BY <1>t
    <3>. QED
      BY <1>t, <2>1, <2>2, <3>1, <3>2, <3>3, <3>4, <3>5, PlacedAdd
  <2>. QED
    BY <1>2, <2>3, <2>4 DEF CommitRetry
<1>3. ASSUME NEW w \in Workers, Worker(w) \/ ReportAgain(w), ~Take(w), ~Ended(w)
      PROVE  Placed'
  <2>1. UNCHANGED <<n, mWorkUnits, work>>
    BY <1>3 DEF Worker, ReportAgain, Idle, Transfer, Notify, Back, queueVars, userVars
  <2>2. \A v \in Workers : wpc'[v] \in HasUnit => wpc[v] \in HasUnit
    <3>1. \A v \in Workers \ {w} : wpc'[v] = wpc[v]
      BY <1>3, <1>t DEF Worker, ReportAgain, Idle, Transfer, Notify, Back
    <3>2. wpc'[w] \in HasUnit => wpc[w] \in HasUnit
      BY <1>3, <1>t DEF Worker, ReportAgain, Idle, Transfer, Notify, Back, HasUnit
    <3>. QED
      BY <3>1, <3>2
  <2>3. \A t \in Tasks : upc'[t] = upc[t] \/ upc'[t] = "test"
    BY <1>3, <1>t DEF Worker, ReportAgain, Idle, Transfer, Notify, Back, userVars
  <2>4. \A t \in Tasks : AtRoom(t)' => AtRoom(t)
    BY <2>3 DEF AtRoom
  <2>. QED
    BY <1>t, <2>1, <2>2, <2>4, PlacedFrame
<1>4. ASSUME NEW w \in Workers, Ended(w)
      PROVE  Placed'
  <2>1. /\ work' = [work EXCEPT ![w] = NoUnit] /\ wpc' = [wpc EXCEPT ![w] = "back"]
        /\ UNCHANGED <<mWorkUnits, n, upc>>
    BY <1>4 DEF Ended, queueVars, userVars
  <2>2. /\ \A v \in Workers \ {w} : work'[v] = work[v] /\ wpc'[v] = wpc[v]
        /\ work'[w] = NoUnit /\ wpc'[w] = "back"
    BY <1>t, <2>1
  <2>3. \A i \in 1 .. Len(mWorkUnits) : mWorkUnits[i] # NoUnit
    BY <1>t, UnitFacts
  <2>4. UnitsOnce'
    BY <2>1, <2>2, <2>3 DEF Placed, UnitsOnce
  <2>5. UnitsCommitted'
    BY <2>1, <2>2 DEF Placed, UnitsCommitted, AtRoom
  <2>6. WorkHeld'
    BY <2>2 DEF Placed, WorkHeld
  <2>. QED
    BY <2>4, <2>5, <2>6 DEF Placed
<1>5. ASSUME NEW t \in Tasks, WaitTest(t) \/ WaitFlag(t) \/ WaitSleep(t) \/ Reset(t)
      PROVE  Placed'
  <2>1. UNCHANGED <<n, mWorkUnits, work, wpc>>
    BY <1>5 DEF WaitTest, WaitFlag, WaitSleep, Reset, queueVars, workerVars
  <2>2. \A s \in Tasks : AtRoom(s)' => AtRoom(s)
    BY <1>5, <1>t DEF WaitTest, WaitFlag, WaitSleep, Reset, AtRoom
  <2>. QED
    BY <1>t, <2>1, <2>2, PlacedFrame
<1>6. CASE Cancel \/ Destroy \/ Killer
  <2>1. UNCHANGED <<n, work, upc>>
    BY <1>6 DEF Cancel, Destroy, Killer, CancelFound, Finish, Join, workerVars, userVars
  <2>2. \A w \in Workers : wpc'[w] \in HasUnit => wpc[w] \in HasUnit
    BY <1>6, <1>t, Woken DEF Cancel, Destroy, Killer, CancelFound, Finish, Join, workerVars, HasUnit
  <2>3. \A s \in Tasks : AtRoom(s)' <=> AtRoom(s)
    BY <2>1 DEF AtRoom
  <2>4. CASE mWorkUnits' = mWorkUnits
    BY <1>t, <2>1, <2>2, <2>3, <2>4, PlacedFrame
  <2>5. CASE mWorkUnits' = <<>>
    <3>1. Len(mWorkUnits') = 0
      BY <2>5
    <3>. QED
      BY <1>t, <2>1, <2>2, <2>3, <3>1, UnitFacts DEF Placed, UnitsOnce, UnitsCommitted, WorkHeld, HasUnit
  <2>6. ASSUME NEW i \in DOMAIN mWorkUnits, mWorkUnits' = RemoveAt(mWorkUnits, i)
        PROVE  Placed'
    <3>1. /\ \A j \in 1 .. Len(mWorkUnits') : \E k \in 1 .. Len(mWorkUnits) : mWorkUnits'[j] = mWorkUnits[k]
          /\ (\A j, k \in 1 .. Len(mWorkUnits) : mWorkUnits[j] = mWorkUnits[k] => j = k) =>
               \A j, k \in 1 .. Len(mWorkUnits') : mWorkUnits'[j] = mWorkUnits'[k] => j = k
      <4>. DEFINE q == mWorkUnits  r == RemoveAt(q, i)
      <4>1. q \in Seq(AnyUnit) /\ i \in 1 .. Len(q) /\ mWorkUnits' = r
        BY <1>t, <2>6
      <4>2. \A j \in 1 .. Len(r) : \E k \in 1 .. Len(q) : r[j] = q[k]
        BY <4>1, RemoveAtKeeps, SMTT(30)
      <4>3. (\A j, k \in 1 .. Len(q) : q[j] = q[k] => j = k) =>
               \A j, k \in 1 .. Len(r) : r[j] = r[k] => j = k
        BY <4>1, RemoveAtKeeps
      <4>. QED
        BY <4>1, <4>2, <4>3
    <3>2. UnitsOnce'
      BY <2>1, <3>1 DEF Placed, UnitsOnce
    <3>3. UnitsCommitted'
      BY <1>t, <2>1, <2>3, <3>1, UnitFacts DEF Placed, UnitsCommitted
    <3>4. WorkHeld'
      BY <2>1, <2>2 DEF Placed, WorkHeld, HasUnit
    <3>. QED
      BY <3>2, <3>3, <3>4 DEF Placed
  <2>7. \/ mWorkUnits' = mWorkUnits \/ mWorkUnits' = <<>>
        \/ \E i \in DOMAIN mWorkUnits : mWorkUnits' = RemoveAt(mWorkUnits, i)
    BY <1>6 DEF Cancel, Destroy, Killer, CancelFound, Finish, Join, queueVars
  <2>. QED
    BY <2>4, <2>5, <2>6, <2>7
<1>7. CASE UNCHANGED vars
  <2>1. UNCHANGED <<n, mWorkUnits, work, wpc, upc>>
    BY <1>7 DEF vars, queueVars, workerVars, userVars
  <2>2. \A s \in Tasks : AtRoom(s)' => AtRoom(s)
    BY <2>1 DEF AtRoom
  <2>. QED
    BY <1>t, <2>1, <2>2, PlacedFrame
<1>. QED
  BY <1>1, <1>2, <1>3, <1>4, <1>5, <1>6, <1>7, <1>t, PlacedTake DEF Next, User, Worker

-----------------------------------------------------------------------------
(* Whose result a final state is.                                          *)

\* A step that reports nothing and adds no unit.
LEMMA ResultsFrame ==
  ASSUME ResultsOwn, UNCHANGED <<n, mTaskState, final, again>>,
         \A u \in AnyUnit : Pending(u)' => Pending(u),
         \A t \in Tasks : /\ upc'[t] \in {"idle", "returned"} => upc'[t] = upc[t]
                          /\ AtRoom(t)' => AtRoom(t)
  PROVE  ResultsOwn'
BY DEF ResultsOwn

\* The unit of the last commit of t enters the queue.
LEMMA ResultsAdd ==
  ASSUME TypeOK, ResultsOwn, UNCHANGED <<mTaskState, final, again, work>>,
         NEW t \in Tasks, NEW k \in Nat \ {0},
         mWorkUnits' = Append(mWorkUnits, [task |-> t, n |-> k]), n' = [n EXCEPT ![t] = k],
         \A w \in Workers : wpc'[w] = "run" => wpc[w] = "run",
         upc[t] = "idle" \/ AtRoom(t),
         t \notin again => \A u \in AnyUnit : Pending(u) => u.task # t,
         upc'[t] \notin {"idle", "full", "retry", "returned"},
         \A s \in Tasks \ {t} : upc'[s] = upc[s]
  PROVE  ResultsOwn'
<1>. DEFINE u == [task |-> t, n |-> k]
<1>1. u \in AnyUnit /\ u.task = t /\ u.n = k
  BY UnitFacts DEF AnyUnit
<1>2. n'[t] = k /\ \A s \in Tasks \ {t} : n'[s] = n[s]
  BY DEF TypeOK
<1>3. ASSUME NEW v \in AnyUnit, Pending(v)'
      PROVE  Pending(v) \/ v = u
  <2>1. CASE \E w \in Workers : work'[w] = v /\ wpc'[w] = "run"
    BY <2>1 DEF Pending
  <2>2. ASSUME NEW i \in 1 .. Len(mWorkUnits'), mWorkUnits'[i] = v
        PROVE  Pending(v) \/ v = u
    <3>1. /\ Len(mWorkUnits) \in Nat /\ Len(mWorkUnits') = Len(mWorkUnits) + 1
          /\ mWorkUnits'[Len(mWorkUnits) + 1] = u
          /\ \A j \in 1 .. Len(mWorkUnits) : mWorkUnits'[j] = mWorkUnits[j]
      BY <1>1, AppendFacts DEF TypeOK
    <3>2. i \in 1 .. Len(mWorkUnits) \/ i = Len(mWorkUnits) + 1
      BY <3>1
    <3>. QED
      BY <2>2, <3>1, <3>2 DEF Pending
  <2>. QED
    BY <1>3, <2>1, <2>2 DEF Pending
<1>. HIDE DEF u
<1>4. ASSUME NEW s \in Tasks \ again, s # t
      PROVE  /\ \A v \in AnyUnit : Pending(v)' /\ v.task = s =>
                  v.n = n'[s] /\ upc'[s] \notin {"idle", "returned"} /\ mTaskState'[s] = "open"
             /\ upc'[s] = "idle" \/ AtRoom(s)' => mTaskState'[s] = "open"
             /\ mTaskState'[s] = "final" => final'[s] = n'[s]
             /\ upc'[s] = "returned" => mTaskState'[s] = "final"
  <2>1. AtRoom(s)' <=> AtRoom(s)
    BY <1>4 DEF AtRoom
  <2>. QED
    BY <1>1, <1>2, <1>3, <1>4, <2>1 DEF ResultsOwn
<1>5. ASSUME t \notin again
      PROVE  /\ \A v \in AnyUnit : Pending(v)' /\ v.task = t =>
                  v.n = n'[t] /\ upc'[t] \notin {"idle", "returned"} /\ mTaskState'[t] = "open"
             /\ mTaskState'[t] = "open"
  BY <1>1, <1>2, <1>3, <1>5 DEF ResultsOwn
<1>. QED
  BY <1>4, <1>5 DEF ResultsOwn, AtRoom

\* Every step keeps the state of a task one of its current commit.
LEMMA ResultsStep ==
  ASSUME Queue, Placed, ResultsOwn, [Next]_vars
  PROVE  ResultsOwn'
<1>t. /\ TypeOK /\ mWorkUnits \in Seq(AnyUnit) /\ upc \in [Tasks -> UserPC] /\ n \in [Tasks -> Nat]
      /\ wpc \in [Workers -> WorkerPC] /\ Len(mWorkUnits) \in Nat
      /\ work \in [Workers -> AnyUnit \cup {NoUnit}]
      /\ mTaskState \in [Tasks -> {"open", "final"}] /\ final \in [Tasks -> Nat]
      /\ DOMAIN mWorkUnits = 1 .. Len(mWorkUnits)
  BY DEF Queue, TypeOK
<1>p. \A u \in AnyUnit : Pending(u) => Present(u)
  BY DEF Pending, Present
<1>0. ASSUME NEW t \in Tasks PROVE Committed(t) \notin {"full", "retry", "idle", "returned"}
  BY DEF Committed
<1>1. ASSUME NEW t \in Tasks, Commit(t)
      PROVE  ResultsOwn'
  <2>1. /\ upc[t] = "idle" /\ mMutex = "free" /\ n' = [n EXCEPT ![t] = n[t] + 1]
        /\ UNCHANGED <<work, mTaskState, final, again>>
    BY <1>1, CommitFacts DEF Commit, Queue, taskVars
  <2>2. t \notin again => \A u \in AnyUnit : Pending(u) => u.task # t
    BY <2>1 DEF ResultsOwn
  <2>4. CASE Enqueued(NewUnit(t)) /\ upc' = [upc EXCEPT ![t] = Committed(t)]
    <3>1. \A w \in Workers : wpc'[w] = "run" => wpc[w] = "run"
      BY <2>4 DEF Enqueued
    <3>2. n[t] + 1 \in Nat \ {0}
      BY <1>t
    <3>3. mWorkUnits' = Append(mWorkUnits, [task |-> t, n |-> n[t] + 1])
      BY <2>4 DEF Enqueued, NewUnit
    <3>4. upc'[t] \notin {"idle", "full", "retry", "returned"} /\ \A s \in Tasks \ {t} : upc'[s] = upc[s]
      BY <1>0, <1>t, <2>4
    <3>. QED
      BY <1>t, <2>1, <2>2, <3>1, <3>2, <3>3, <3>4, ResultsAdd
  <2>5. ASSUME UNCHANGED <<mWorkUnits, wpc>>, NEW to \in {"full", Committed(t)},
               upc' = [upc EXCEPT ![t] = to]
        PROVE  ResultsOwn'
    <3>1. \A u \in AnyUnit : Pending(u)' <=> Pending(u)
      BY <2>1, <2>5 DEF Pending
    <3>2. /\ upc'[t] \notin {"idle", "returned"} /\ \A s \in Tasks \ {t} : upc'[s] = upc[s] /\ n'[s] = n[s]
      BY <1>0, <1>t, <2>1, <2>5
    <3>3. \A s \in Tasks \ {t} : AtRoom(s)' <=> AtRoom(s)
      BY <3>2 DEF AtRoom
    <3>4. t \notin again => mTaskState[t] = "open"
      BY <2>1 DEF ResultsOwn
    <3>. QED
      BY <2>1, <2>2, <3>1, <3>2, <3>3, <3>4 DEF ResultsOwn
  <2>. QED
    BY <1>1, <2>4, <2>5, CommitFacts DEF Queue, Refused
<1>2. ASSUME NEW t \in Tasks, CommitRetry(t)
      PROVE  ResultsOwn'
  <2>1. upc[t] = "retry" /\ AtRoom(t) /\ UNCHANGED <<n, work, mTaskState, final, again>>
    BY <1>2 DEF CommitRetry, AtRoom, taskVars
  <2>2. n[t] \in Nat \ {0}
    BY <1>t, <2>1 DEF Queue, RoomHeld
  <2>3. CASE Full /\ upc' = [upc EXCEPT ![t] = "full"] /\ UNCHANGED <<mMutex, mWorkUnits, wpc>>
    <3>1. \A s \in Tasks : /\ AtRoom(s)' => AtRoom(s)
                           /\ upc'[s] \in {"idle", "returned"} => upc'[s] = upc[s]
      BY <1>t, <2>1, <2>3 DEF AtRoom
    <3>2. \A u \in AnyUnit : Pending(u)' => Pending(u)
      BY <2>1, <2>3 DEF Pending
    <3>. QED
      BY <2>1, <3>1, <3>2, ResultsFrame
  <2>4. CASE /\ Add(UnitOf(t), wpc) /\ upc' = [upc EXCEPT ![t] = Committed(t)]
    <3>1. \A w \in Workers : wpc'[w] = "run" => wpc[w] = "run"
      BY <1>t, <2>4, Woken DEF Add
    <3>2. t \notin again => \A u \in AnyUnit : Pending(u) => u.task # t
      <4>1. ASSUME t \notin again, NEW u \in AnyUnit, Pending(u), u.task = t
            PROVE  FALSE
        <5>1. u.n = n[t]
          BY <4>1 DEF ResultsOwn
        <5>2. u.n < n[t]
          BY <1>p, <1>t, <2>1, <4>1, PresentFacts
        <5>. QED
          BY <1>t, <5>1, <5>2
      <4>. QED
        BY <4>1
    <3>3. mWorkUnits' = Append(mWorkUnits, [task |-> t, n |-> n[t]]) /\ n' = [n EXCEPT ![t] = n[t]]
      BY <1>t, <2>1, <2>4 DEF Add, UnitOf
    <3>4. upc'[t] \notin {"idle", "full", "retry", "returned"} /\ \A s \in Tasks \ {t} : upc'[s] = upc[s]
      BY <1>0, <1>t, <2>4
    <3>. QED
      BY <1>t, <2>1, <2>2, <3>1, <3>2, <3>3, <3>4, ResultsAdd
  <2>. QED
    BY <1>2, <2>3, <2>4 DEF CommitRetry
<1>3. ASSUME NEW w \in Workers, Take(w)
      PROVE  ResultsOwn'
  <2>1. /\ mWorkUnits # <<>> /\ work' = [work EXCEPT ![w] = Head(mWorkUnits)]
        /\ mWorkUnits' = Tail(mWorkUnits) /\ wpc' = [wpc EXCEPT ![w] = "run"] /\ upc' = WakeCommits
        /\ UNCHANGED <<n, mTaskState, final, again>>
    BY <1>3 DEF Take, taskVars
  <2>2. /\ Len(mWorkUnits') = Len(mWorkUnits) - 1 /\ work'[w] = mWorkUnits[1] /\ 1 \in 1 .. Len(mWorkUnits)
        /\ \A i \in 1 .. Len(mWorkUnits) - 1 : mWorkUnits'[i] = mWorkUnits[i + 1] /\ i + 1 \in 1 .. Len(mWorkUnits)
        /\ \A v \in Workers \ {w} : work'[v] = work[v] /\ wpc'[v] = wpc[v]
    BY <1>t, <2>1, TailFacts
  <2>3. \A u \in AnyUnit : Pending(u)' => Pending(u)
    BY <2>2 DEF Pending
  <2>4. \A t \in Tasks : /\ AtRoom(t)' => AtRoom(t)
                         /\ upc'[t] \in {"idle", "returned"} => upc'[t] = upc[t]
    BY <1>t, <2>1, WokenCommits DEF AtRoom
  <2>. QED
    BY <2>1, <2>3, <2>4, ResultsFrame
<1>4. ASSUME NEW w \in Workers, Transfer(w)
      PROVE  ResultsOwn'
  <2>. DEFINE u == work[w]  t == work[w].task
  <2>1. /\ wpc[w] = "run" /\ wpc' = [wpc EXCEPT ![w] = "notify"]
        /\ mTaskState' = [mTaskState EXCEPT ![t] = "final"] /\ final' = [final EXCEPT ![t] = u.n]
        /\ UNCHANGED <<mWorkUnits, work, n, again, upc>>
    BY <1>4 DEF Transfer, Report, queueVars, userVars
  <2>2. u \in AnyUnit /\ t \in Tasks /\ Pending(u)
    BY <1>t, <2>1, UnitFacts DEF Placed, WorkHeld, Pending
  <2>. HIDE DEF u, t
  <2>3. /\ mTaskState'[t] = "final" /\ final'[t] = u.n
        /\ \A s \in Tasks \ {t} : mTaskState'[s] = mTaskState[s] /\ final'[s] = final[s]
    BY <1>t, <2>1, <2>2
  <2>4. \A v \in AnyUnit : Pending(v)' => Pending(v) /\ v # u
    <3>1. \A v \in Workers : wpc'[v] = "run" => v # w /\ wpc[v] = "run"
      BY <1>t, <2>1
    <3>2. u # NoUnit
      BY <2>2, UnitFacts
    <3>. QED
      BY <2>1, <3>1, <3>2 DEF Pending, Placed, UnitsOnce, u
  <2>5. ASSUME t \notin again
        PROVE  /\ u.n = n[t] /\ upc[t] \notin {"idle", "returned"} /\ ~AtRoom(t)
               /\ \A v \in AnyUnit : Pending(v)' => v.task # t
    <3>1. u.task = t
      BY DEF u, t
    <3>2. u.n = n[t] /\ upc[t] \notin {"idle", "returned"}
      BY <2>2, <2>5, <3>1 DEF ResultsOwn
    <3>3. ~AtRoom(t)
      <4>1. AtRoom(u.task) => u.n < n[u.task]
        BY <1>p, <1>t, <2>2, PresentFacts
      <4>2. n[t] \in Nat
        BY <1>t, <2>2
      <4>. QED
        BY <3>1, <3>2, <4>1, <4>2
    <3>4. \A v \in AnyUnit : Pending(v) /\ v.task = t => v = u
      BY <2>2, <2>5, <3>1, <3>2, UnitFacts DEF ResultsOwn
    <3>. QED
      BY <2>4, <3>2, <3>3, <3>4
  <2>6. \A s \in Tasks : AtRoom(s)' <=> AtRoom(s)
    BY <2>1 DEF AtRoom
  <2>. QED
    BY <2>1, <2>3, <2>4, <2>5, <2>6 DEF ResultsOwn
<1>5. ASSUME NEW w \in Workers, ReportAgain(w)
      PROVE  ResultsOwn'
  <2>. DEFINE t == work[w].task
  <2>1. /\ wpc[w] = "ended" /\ wpc' = [wpc EXCEPT ![w] = "notify"] /\ again' = again \cup {t}
        /\ mTaskState' = [mTaskState EXCEPT ![t] = "final"]
        /\ final' = [final EXCEPT ![t] = work[w].n]
        /\ UNCHANGED <<mWorkUnits, work, n, upc>>
    BY <1>5 DEF ReportAgain, Report, queueVars, userVars
  <2>. HIDE DEF t
  <2>2. \A s \in Tasks \ again' : mTaskState'[s] = mTaskState[s] /\ final'[s] = final[s] /\ s \notin again
    BY <1>t, <2>1
  <2>3. \A v \in AnyUnit : Pending(v)' => Pending(v)
    BY <1>t, <2>1 DEF Pending
  <2>4. \A s \in Tasks : AtRoom(s)' <=> AtRoom(s)
    BY <2>1 DEF AtRoom
  <2>. QED
    BY <2>1, <2>2, <2>3, <2>4 DEF ResultsOwn
<1>6. ASSUME NEW w \in Workers, Worker(w), ~Take(w), ~Transfer(w)
      PROVE  ResultsOwn'
  <2>1. UNCHANGED <<mWorkUnits, n, mTaskState, final, again>>
    BY <1>6 DEF Worker, Idle, Notify, Ended, Back, queueVars, userVars, taskVars
  <2>2. \A v \in Workers : wpc'[v] = "run" => v # w /\ wpc[v] = "run" /\ work'[v] = work[v]
    BY <1>6, <1>t DEF Worker, Idle, Notify, Ended, Back
  <2>3. \A u \in AnyUnit : Pending(u)' => Pending(u)
    BY <2>1, <2>2 DEF Pending
  <2>4. \A t \in Tasks : upc'[t] = upc[t] \/ upc'[t] = "test"
    BY <1>6, <1>t DEF Worker, Idle, Notify, Ended, Back, userVars
  <2>5. \A t \in Tasks : /\ AtRoom(t)' => AtRoom(t)
                         /\ upc'[t] \in {"idle", "returned"} => upc'[t] = upc[t]
    BY <2>4 DEF AtRoom
  <2>. QED
    BY <2>1, <2>3, <2>5, ResultsFrame
<1>7. ASSUME NEW t \in Tasks, WaitFlag(t) \/ WaitSleep(t)
      PROVE  ResultsOwn'
  <2>1. UNCHANGED <<mWorkUnits, work, wpc, n, mTaskState, final, again>>
    BY <1>7 DEF WaitFlag, WaitSleep, queueVars, workerVars, taskVars
  <2>2. \A u \in AnyUnit : Pending(u)' => Pending(u)
    BY <2>1 DEF Pending
  <2>3. \A s \in Tasks : /\ AtRoom(s)' => AtRoom(s)
                         /\ upc'[s] \in {"idle", "returned"} => upc'[s] = upc[s]
    BY <1>7, <1>t DEF WaitFlag, WaitSleep, AtRoom
  <2>. QED
    BY <2>1, <2>2, <2>3, ResultsFrame
<1>8. ASSUME NEW t \in Tasks, WaitTest(t)
      PROVE  ResultsOwn'
  <2>1. upc[t] = "test" /\ UNCHANGED <<mWorkUnits, work, wpc, n, mTaskState, final, again>>
    BY <1>8 DEF WaitTest, queueVars, workerVars
  <2>2. \A u \in AnyUnit : Pending(u)' => Pending(u)
    BY <2>1 DEF Pending
  <2>3. /\ \A s \in Tasks \ {t} : upc'[s] = upc[s]
        /\ upc'[t] = "flag" \/ (upc'[t] = "returned" /\ mTaskState[t] = "final")
    BY <1>8, <1>t DEF WaitTest
  <2>4. \A s \in Tasks : /\ AtRoom(s)' => AtRoom(s)
    BY <2>3 DEF AtRoom
  <2>. QED
    BY <2>1, <2>2, <2>3, <2>4 DEF ResultsOwn
<1>9. ASSUME NEW t \in Tasks, Reset(t)
      PROVE  ResultsOwn'
  <2>1. /\ upc[t] = "returned" /\ UNCHANGED <<mWorkUnits, work, wpc, n, final, again>>
        /\ mTaskState' = [mTaskState EXCEPT ![t] = "open"] /\ upc' = [upc EXCEPT ![t] = "idle"]
    BY <1>9 DEF Reset, queueVars, workerVars
  <2>2. \A u \in AnyUnit : Pending(u)' => Pending(u)
    BY <2>1 DEF Pending
  <2>3. /\ \A s \in Tasks \ {t} : upc'[s] = upc[s] /\ mTaskState'[s] = mTaskState[s]
        /\ upc'[t] = "idle" /\ mTaskState'[t] = "open"
    BY <1>t, <2>1
  <2>4. \A s \in Tasks : /\ AtRoom(s)' => AtRoom(s)
    BY <2>3 DEF AtRoom
  <2>. QED
    BY <2>1, <2>2, <2>3, <2>4 DEF ResultsOwn
<1>10. CASE Cancel \/ Destroy \/ Killer
  <2>1. UNCHANGED <<n, work, upc, mTaskState, final, again>>
    BY <1>10 DEF Cancel, Destroy, Killer, CancelFound, Finish, Join, workerVars, userVars, taskVars
  <2>2. \A w \in Workers : wpc'[w] = "run" => wpc[w] = "run"
    <3>1. wpc' = wpc \/ wpc' = WakeWorkers(wpc)
      BY <1>10 DEF Cancel, Destroy, Killer, CancelFound, Finish, Join, workerVars
    <3>2. \A w \in Workers : WakeWorkers(wpc)[w] = wpc[w] \/ WakeWorkers(wpc)[w] = "loop"
      BY <1>t, Woken
    <3>. QED
      BY <3>1, <3>2
  <2>3. \/ mWorkUnits' = mWorkUnits \/ mWorkUnits' = <<>>
        \/ \E i \in DOMAIN mWorkUnits : mWorkUnits' = RemoveAt(mWorkUnits, i)
    BY <1>10 DEF Cancel, Destroy, Killer, CancelFound, Finish, Join, queueVars
  <2>4. \A i \in 1 .. Len(mWorkUnits') : \E k \in 1 .. Len(mWorkUnits) : mWorkUnits'[i] = mWorkUnits[k]
    <3>1. CASE mWorkUnits' = mWorkUnits
      BY <3>1
    <3>2. CASE mWorkUnits' = <<>>
      BY <3>2
    <3>3. ASSUME NEW j \in DOMAIN mWorkUnits, mWorkUnits' = RemoveAt(mWorkUnits, j)
          PROVE  \A i \in 1 .. Len(mWorkUnits') : \E k \in 1 .. Len(mWorkUnits) : mWorkUnits'[i] = mWorkUnits[k]
      <4>. DEFINE q == mWorkUnits  r == RemoveAt(q, j)
      <4>1. q \in Seq(AnyUnit) /\ j \in 1 .. Len(q) /\ mWorkUnits' = r
        BY <1>t, <3>3
      <4>2. \A i \in 1 .. Len(r) : \E k \in 1 .. Len(q) : r[i] = q[k]
        BY <4>1, RemoveAtKeeps, SMTT(30)
      <4>. QED
        BY <4>1, <4>2
    <3>. QED
      BY <2>3, <3>1, <3>2, <3>3
  <2>5. \A u \in AnyUnit : Pending(u)' => Pending(u)
    BY <2>1, <2>2, <2>4 DEF Pending
  <2>6. \A t \in Tasks : AtRoom(t)' => AtRoom(t)
    BY <2>1 DEF AtRoom
  <2>. QED
    BY <2>1, <2>5, <2>6, ResultsFrame
<1>11. CASE UNCHANGED vars
  <2>1. UNCHANGED <<n, mWorkUnits, work, wpc, upc, mTaskState, final, again>>
    BY <1>11 DEF vars, queueVars, workerVars, userVars, taskVars
  <2>2. \A u \in AnyUnit : Pending(u)' => Pending(u)
    BY <2>1 DEF Pending
  <2>3. \A s \in Tasks : AtRoom(s)' => AtRoom(s)
    BY <2>1 DEF AtRoom
  <2>. QED
    BY <2>1, <2>2, <2>3, ResultsFrame
<1>. QED
  BY <1>1, <1>2, <1>3, <1>4, <1>5, <1>6, <1>7, <1>8, <1>9, <1>10, <1>11 DEF Next, User, Worker

-----------------------------------------------------------------------------
(* Why a wait may sleep.                                                   *)

\* A work thread has reported its unit and not yet left it.
Reported == {"notify", "ended"}

\* A step that neither reports nor notifies, and that drops what it takes away.
LEMMA CausesFrame ==
  ASSUME Causes, UNCHANGED <<n, mTaskState, mWaiting>>,
         \A t \in Tasks : Caused(t) => Caused(t)',
         \A t \in Tasks : \/ upc'[t] = upc[t]
                          \/ upc'[t] \notin {"test", "flag", "sleep", "blocked"} /\ upc[t] # "idle",
         \A w \in Workers : wpc'[w] \in Reported => wpc[w] \in Reported /\ work'[w] = work[w]
  PROVE  Causes'
<1>1. \A t \in Tasks : UnitOf(t)' = UnitOf(t)
  BY DEF UnitOf
<1>. QED
  BY <1>1 DEF Causes, Reported

\* What keeps a unit coming.
LEMMA ComingKept ==
  ASSUME NEW t \in Tasks, Caused(t), n'[t] = n[t], missed \subseteq missed', dropped \subseteq dropped',
         \A i \in 1 .. Len(mWorkUnits) : \/ \E k \in 1 .. Len(mWorkUnits') : mWorkUnits'[k] = mWorkUnits[i]
                                         \/ \E w \in Workers : work'[w] = mWorkUnits[i] /\ wpc'[w] = "run"
                                         \/ mWorkUnits[i] \in dropped',
         \A w \in Workers : work[w] = UnitOf(t) /\ wpc[w] \in {"run", "notify"} =>
                              work'[w] = work[w] /\ wpc'[w] \in {"run", "notify"}
  PROVE  Caused(t)'
<1>1. UnitOf(t)' = UnitOf(t)
  BY DEF UnitOf
<1>2. CASE t \in missed \/ UnitOf(t) \in dropped
  BY <1>1, <1>2 DEF Caused
<1>3. CASE Contains(mWorkUnits, UnitOf(t))
  BY <1>1, <1>3 DEF Caused, Coming, Contains
<1>4. CASE \E w \in Workers : work[w] = UnitOf(t) /\ wpc[w] \in {"run", "notify"}
  BY <1>1, <1>4 DEF Caused, Coming
<1>. QED
  BY <1>2, <1>3, <1>4 DEF Caused, Coming

\* onStatesChange wakes the wait for the task, or the notification is missed.
LEMMA CausesNotify ==
  ASSUME TypeOK, Causes, NEW w \in Workers, Notify(w)
  PROVE  Causes'
<1>. DEFINE t == work[w].task  early == IF upc[t] \in {"flag", "sleep"} THEN {t} ELSE {}
<1>1. /\ wpc[w] \in {"notify"} /\ UNCHANGED <<mWorkUnits, dropped, work, n, mTaskState, mWaiting>>
      /\ wpc' = [wpc EXCEPT ![w] = "ended"]
  BY DEF Notify, queueVars, taskVars
<1>2. \/ /\ mWaiting[t]
         /\ \E b \in Blocked : /\ upc' = [upc EXCEPT ![b] = "test"]
                               /\ missed' = missed \cup early \cup ({t} \ {b})
      \/ /\ ~mWaiting[t] \/ Blocked = {}
         /\ missed' = missed \cup early
         /\ UNCHANGED upc
  BY DEF Notify
<1>3. wpc'[w] \in {"ended"} /\ \A v \in Workers \ {w} : wpc'[v] = wpc[v]
  BY <1>1 DEF TypeOK
<1>. HIDE DEF t, early
<1>4. missed \subseteq missed' /\ early \subseteq missed'
  BY <1>2
<1>5. \A s \in Tasks : upc'[s] = upc[s] \/ (upc[s] = "blocked" /\ upc'[s] = "test")
  BY <1>2 DEF Blocked, TypeOK
<1>6. \A s \in Tasks : UnitOf(s)' = UnitOf(s)
  BY <1>1 DEF UnitOf
<1>7. ASSUME NEW s \in Tasks, work[w] # UnitOf(s), Caused(s)
      PROVE  Caused(s)'
  BY <1>1, <1>3, <1>4, <1>7, ComingKept
<1>8. ASSUME NEW s \in Tasks, work[w] = UnitOf(s), upc[s] # "idle"
      PROVE  /\ mTaskState'[s] = "final"
             /\ upc'[s] \in {"flag", "sleep", "blocked"} => Caused(s)'
  <2>1. s = t
    BY <1>8 DEF t, UnitOf
  <2>2. mTaskState'[s] = "final"
    BY <1>1, <1>8 DEF Causes
  <2>3. CASE upc[s] \in {"flag", "sleep"}
    BY <1>4, <2>1, <2>2, <2>3 DEF early, Caused
  <2>4. CASE upc[s] = "blocked" /\ upc'[s] = "blocked"
    <3>1. mWaiting[t] /\ t \in Blocked
      BY <2>1, <2>4 DEF Causes, Blocked
    <3>2. PICK b \in Blocked : upc' = [upc EXCEPT ![b] = "test"] /\ missed' = missed \cup early \cup ({t} \ {b})
      BY <1>2, <3>1
    <3>3. b # t
      BY <2>1, <2>4, <3>2 DEF TypeOK, Blocked
    <3>. QED
      BY <2>1, <2>2, <3>2, <3>3 DEF Caused
  <2>. QED
    BY <1>5, <2>2, <2>3, <2>4
<1>9. ASSUME NEW s \in Tasks
      PROVE  /\ upc'[s] \in {"flag", "sleep", "blocked"} => Caused(s)'
             /\ upc'[s] = "test" => mTaskState'[s] = "final" \/ Caused(s)'
             /\ upc'[s] \in {"sleep", "blocked"} => mWaiting'[s]
  BY <1>1, <1>5, <1>7, <1>8 DEF Causes
<1>10. ASSUME NEW v \in Workers, NEW s \in Tasks, work'[v] = UnitOf(s)', wpc'[v] \in Reported,
              upc'[s] # "idle"
       PROVE  mTaskState'[s] = "final"
  BY <1>1, <1>3, <1>5, <1>6, <1>10 DEF Causes, Reported
<1>. QED
  BY <1>9, <1>10 DEF Causes, Reported

\* A transfer ends: its state is set, and the notification is to come.
LEMMA CausesReport ==
  ASSUME TypeOK, Causes, NEW w \in Workers, Report(w), work[w].task \in Tasks,
         wpc[w] \in {"run", "ended"}, NEW to \in {"notify"}, wpc' = [wpc EXCEPT ![w] = to],
         UNCHANGED <<mWorkUnits, dropped, work, n, upc, missed, mWaiting>>
  PROVE  Causes'
<1>. DEFINE t == work[w].task
<1>1. /\ mTaskState'[t] = "final"
      /\ \A s \in Tasks \ {t} : mTaskState'[s] = mTaskState[s]
  BY DEF Report, TypeOK
<1>2. wpc'[w] = to /\ \A v \in Workers \ {w} : wpc'[v] = wpc[v]
  BY DEF TypeOK
<1>3. \A s \in Tasks : UnitOf(s)' = UnitOf(s) /\ UnitOf(s).task = s
  BY DEF UnitOf
<1>4. ASSUME NEW s \in Tasks, Caused(s)
      PROVE  Caused(s)'
  BY <1>2, <1>4, ComingKept
<1>. HIDE DEF t
<1>5. ASSUME NEW v \in Workers, NEW s \in Tasks, work'[v] = UnitOf(s)', wpc'[v] \in Reported,
              upc'[s] # "idle"
      PROVE  mTaskState'[s] = "final"
  <2>1. CASE s = t
    BY <1>1, <2>1
  <2>2. CASE s # t
    <3>1. v # w
      BY <1>3, <1>5, <2>2 DEF t
    <3>. QED
      BY <1>1, <1>2, <1>3, <1>5, <2>2, <3>1 DEF Causes, Reported
  <2>. QED
    BY <2>1, <2>2
<1>6. \A s \in Tasks : mTaskState[s] = "final" => mTaskState'[s] = "final"
  BY <1>1
<1>. QED
  BY <1>4, <1>5, <1>6 DEF Causes, Reported

\* The unit of the last commit of t enters the queue.
LEMMA CausesAdd ==
  ASSUME TypeOK, Causes, NEW t \in Tasks, NEW k \in Nat \ {0},
         mWorkUnits' = Append(mWorkUnits, [task |-> t, n |-> k]), n' = [n EXCEPT ![t] = k],
         UNCHANGED <<dropped, work, missed, mWaiting, mTaskState>>,
         \A w \in Workers : wpc'[w] = wpc[w] \/ (wpc[w] \in {"none", "sleep"} /\ wpc'[w] = "loop"),
         \A w \in Workers : work[w] # [task |-> t, n |-> k],
         upc' = [upc EXCEPT ![t] = Committed(t)]
  PROVE  Causes'
<1>. DEFINE u == [task |-> t, n |-> k]  L == Len(mWorkUnits)
<1>1. u \in AnyUnit
  BY UnitFacts DEF AnyUnit
<1>2. /\ L \in Nat /\ Len(mWorkUnits') = L + 1 /\ mWorkUnits'[L + 1] = u
      /\ \A i \in 1 .. L : mWorkUnits'[i] = mWorkUnits[i]
  BY <1>1, AppendFacts DEF TypeOK
<1>3. UnitOf(t)' = u /\ \A s \in Tasks \ {t} : UnitOf(s)' = UnitOf(s) /\ n'[s] = n[s]
  BY DEF UnitOf, TypeOK
<1>4. L + 1 \in 1 .. Len(mWorkUnits') /\ \A i \in 1 .. L : i \in 1 .. Len(mWorkUnits')
  BY <1>2
<1>5. Caused(t)'
  BY <1>2, <1>3, <1>4 DEF Caused, Coming, Contains
<1>. HIDE DEF u, L
<1>6. ASSUME NEW s \in Tasks \ {t}, Caused(s)
      PROVE  Caused(s)'
  BY <1>2, <1>3, <1>4, <1>6, ComingKept DEF L
<1>7. /\ \A s \in Tasks \ {t} : upc'[s] = upc[s]
      /\ upc'[t] \in {"test", "left"}
  BY DEF TypeOK, Committed
<1>8. ASSUME NEW v \in Workers, NEW s \in Tasks, work'[v] = UnitOf(s)', wpc'[v] \in Reported,
              upc'[s] # "idle"
      PROVE  mTaskState'[s] = "final"
  <2>1. s # t
    BY <1>3, <1>8 DEF u
  <2>. QED
    BY <1>3, <1>7, <1>8, <2>1 DEF Causes, Reported
<1>. QED
  BY <1>5, <1>6, <1>7, <1>8 DEF Causes, Reported

\* Every step keeps the causes of the sleeping waits.
LEMMA CausesStep ==
  ASSUME Queue, Placed, Causes, [Next]_vars
  PROVE  Causes'
<1>t. /\ TypeOK /\ mWorkUnits \in Seq(AnyUnit) /\ upc \in [Tasks -> UserPC] /\ n \in [Tasks -> Nat]
      /\ wpc \in [Workers -> WorkerPC] /\ Len(mWorkUnits) \in Nat
      /\ work \in [Workers -> AnyUnit \cup {NoUnit}]
      /\ mTaskState \in [Tasks -> {"open", "final"}] /\ mWaiting \in [Tasks -> BOOLEAN]
      /\ DOMAIN mWorkUnits = 1 .. Len(mWorkUnits)
  BY DEF Queue, TypeOK
<1>1. ASSUME NEW t \in Tasks, Commit(t)
      PROVE  Causes'
  <2>1. /\ upc[t] = "idle" /\ n' = [n EXCEPT ![t] = n[t] + 1] /\ n[t] + 1 \in Nat \ {0}
        /\ UNCHANGED <<work, mTaskState, mWaiting, missed>>
    BY <1>1, <1>t, CommitFacts DEF Commit, Queue, taskVars
  <2>2. \A w \in Workers : work[w] # [task |-> t, n |-> n[t] + 1]
    <3>1. ASSUME NEW w \in Workers, work[w] = [task |-> t, n |-> n[t] + 1]
          PROVE  FALSE
      <4>1. work[w] \in AnyUnit /\ work[w].n = n[t] + 1 /\ work[w].task = t /\ Present(work[w])
        BY <1>t, <2>1, <3>1, UnitFacts DEF AnyUnit, Present
      <4>2. n[t] + 1 <= n[t]
        BY <1>t, <4>1, PresentFacts
      <4>. QED
        BY <1>t, <4>2
    <3>. QED
      BY <3>1
  <2>3. CASE Enqueued(NewUnit(t)) /\ upc' = [upc EXCEPT ![t] = Committed(t)] /\ UNCHANGED dropped
    BY <1>t, <2>1, <2>2, <2>3, CausesAdd, ZenonT(60) DEF Enqueued, NewUnit
  <2>4. ASSUME UNCHANGED <<mWorkUnits, wpc>>, dropped \subseteq dropped',
               \/ upc' = [upc EXCEPT ![t] = "full"]
               \/ upc' = [upc EXCEPT ![t] = Committed(t)] /\ NewUnit(t) \in dropped'
        PROVE  Causes'
    <3>1. /\ upc'[t] \in {"full", "left"} \/ (upc'[t] = "test" /\ NewUnit(t) \in dropped')
          /\ UnitOf(t)' = [task |-> t, n |-> n[t] + 1]
          /\ \A s \in Tasks \ {t} : upc'[s] = upc[s] /\ n'[s] = n[s] /\ UnitOf(s)' = UnitOf(s)
      BY <1>t, <2>1, <2>4 DEF UnitOf, Committed
    <3>2. ASSUME NEW s \in Tasks \ {t}, Caused(s)
          PROVE  Caused(s)'
      BY <2>1, <2>4, <3>1, <3>2, ComingKept
    <3>3. ASSUME NEW w \in Workers, NEW s \in Tasks, work'[w] = UnitOf(s)', wpc'[w] \in Reported,
                 upc'[s] # "idle"
          PROVE  mTaskState'[s] = "final"
      BY <2>1, <2>2, <2>4, <3>1, <3>3 DEF Causes, Reported
    <3>4. upc'[t] = "test" => Caused(t)'
      BY <3>1 DEF Caused, NewUnit
    <3>. QED
      BY <2>1, <3>1, <3>2, <3>3, <3>4 DEF Causes, Reported
  <2>. QED
    BY <1>1, <2>3, <2>4, CommitFacts DEF Queue, Refused
<1>2. ASSUME NEW t \in Tasks, CommitRetry(t)
      PROVE  Causes'
  <2>1. upc[t] = "retry" /\ AtRoom(t) /\ UNCHANGED <<n, work, mTaskState, mWaiting, missed, dropped>>
    BY <1>2 DEF CommitRetry, AtRoom, taskVars
  <2>2. n[t] \in Nat \ {0}
    BY <1>t, <2>1 DEF Queue, RoomHeld
  <2>3. CASE Full /\ upc' = [upc EXCEPT ![t] = "full"] /\ UNCHANGED <<mMutex, mWorkUnits, wpc>>
    <3>1. \A s \in Tasks : Caused(s) => Caused(s)'
      BY <2>1, <2>3, ComingKept
    <3>2. \A s \in Tasks : \/ upc'[s] = upc[s]
                           \/ upc'[s] \notin {"test", "flag", "sleep", "blocked"} /\ upc[s] # "idle"
      BY <1>t, <2>1, <2>3
    <3>. QED
      BY <2>1, <2>3, <3>1, <3>2, CausesFrame
  <2>4. CASE /\ Add(UnitOf(t), wpc) /\ upc' = [upc EXCEPT ![t] = Committed(t)]
    <3>1. \A w \in Workers : wpc'[w] = wpc[w] \/ (wpc[w] \in {"none", "sleep"} /\ wpc'[w] = "loop")
      BY <1>t, <2>4, Woken DEF Add
    <3>2. \A w \in Workers : work[w] # [task |-> t, n |-> n[t]]
      <4>1. ASSUME NEW w \in Workers, work[w] = [task |-> t, n |-> n[t]]
            PROVE  FALSE
        <5>1. work[w] \in AnyUnit /\ work[w].n = n[t] /\ work[w].task = t /\ Present(work[w])
          BY <1>t, <2>2, <4>1, UnitFacts DEF AnyUnit, Present
        <5>2. n[t] < n[t]
          BY <1>t, <2>1, <5>1, PresentFacts
        <5>. QED
          BY <2>2, <5>2
      <4>. QED
        BY <4>1
    <3>3. mWorkUnits' = Append(mWorkUnits, [task |-> t, n |-> n[t]]) /\ n' = [n EXCEPT ![t] = n[t]]
      BY <1>t, <2>1, <2>4 DEF Add, UnitOf
    <3>. QED
      BY <1>t, <2>1, <2>2, <2>4, <3>1, <3>2, <3>3, CausesAdd
  <2>. QED
    BY <1>2, <2>3, <2>4 DEF CommitRetry
<1>3. ASSUME NEW w \in Workers, Take(w)
      PROVE  Causes'
  <2>1. /\ wpc[w] = "loop" /\ mWorkUnits # <<>> /\ work' = [work EXCEPT ![w] = Head(mWorkUnits)]
        /\ mWorkUnits' = Tail(mWorkUnits) /\ wpc' = [wpc EXCEPT ![w] = "run"] /\ upc' = WakeCommits
        /\ UNCHANGED <<n, mTaskState, mWaiting, missed, dropped>>
    BY <1>3 DEF Take, taskVars
  <2>2. /\ Len(mWorkUnits') = Len(mWorkUnits) - 1 /\ work'[w] = mWorkUnits[1] /\ wpc'[w] = "run"
        /\ \A i \in 1 .. Len(mWorkUnits) - 1 : mWorkUnits'[i] = mWorkUnits[i + 1]
        /\ \A v \in Workers \ {w} : work'[v] = work[v] /\ wpc'[v] = wpc[v]
    BY <1>t, <2>1, TailFacts
  <2>3. \A i \in 1 .. Len(mWorkUnits) : \/ \E k \in 1 .. Len(mWorkUnits') : mWorkUnits'[k] = mWorkUnits[i]
                                        \/ \E v \in Workers : work'[v] = mWorkUnits[i] /\ wpc'[v] = "run"
    <3>1. ASSUME NEW i \in 1 .. Len(mWorkUnits), i # 1
          PROVE  \E k \in 1 .. Len(mWorkUnits') : mWorkUnits'[k] = mWorkUnits[i]
      <4>1. i - 1 \in 1 .. Len(mWorkUnits) - 1 /\ (i - 1) + 1 = i
        BY <1>t, <3>1
      <4>2. i - 1 \in 1 .. Len(mWorkUnits') /\ mWorkUnits'[i - 1] = mWorkUnits[(i - 1) + 1]
        BY <2>2, <4>1
      <4>. QED
        BY <4>1, <4>2
    <3>. QED
      BY <2>2, <3>1
  <2>4. \A t \in Tasks : Caused(t) => Caused(t)'
    BY <2>1, <2>2, <2>3, ComingKept
  <2>5. \A t \in Tasks : \/ upc'[t] = upc[t]
                         \/ upc'[t] \notin {"test", "flag", "sleep", "blocked"} /\ upc[t] # "idle"
    BY <1>t, <2>1, WokenCommits
  <2>6. \A v \in Workers : wpc'[v] \in Reported => wpc[v] \in Reported /\ work'[v] = work[v]
    BY <2>2 DEF Reported
  <2>. QED
    BY <2>1, <2>4, <2>5, <2>6, CausesFrame
<1>4. ASSUME NEW w \in Workers, Transfer(w) \/ ReportAgain(w)
      PROVE  Causes'
  <2>1. /\ Report(w) /\ wpc[w] \in {"run", "ended"}
        /\ \E to \in {"notify"} : wpc' = [wpc EXCEPT ![w] = to]
        /\ UNCHANGED <<mWorkUnits, dropped, work, n, upc, missed, mWaiting>>
    BY <1>4 DEF Transfer, ReportAgain, queueVars, userVars
  <2>2. work[w].task \in Tasks
    BY <1>t, <2>1, UnitFacts DEF Placed, WorkHeld
  <2>. QED
    BY <1>t, <2>1, <2>2, CausesReport
<1>5. ASSUME NEW w \in Workers, Idle(w) \/ Ended(w) \/ Back(w)
      PROVE  Causes'
  <2>1. UNCHANGED <<mWorkUnits, dropped, n, upc, missed, mWaiting, mTaskState>>
    BY <1>5 DEF Idle, Ended, Back, queueVars, taskVars, userVars
  <2>2. /\ \A v \in Workers \ {w} : work'[v] = work[v] /\ wpc'[v] = wpc[v]
        /\ wpc[w] \notin {"run", "notify"} /\ wpc'[w] \notin Reported
    BY <1>5, <1>t DEF Idle, Ended, Back, Reported
  <2>3. \A t \in Tasks : Caused(t) => Caused(t)'
    BY <2>1, <2>2, ComingKept
  <2>4. \A v \in Workers : wpc'[v] \in Reported => wpc[v] \in Reported /\ work'[v] = work[v]
    BY <2>2
  <2>. QED
    BY <2>1, <2>3, <2>4, CausesFrame
<1>6. ASSUME NEW t \in Tasks, WaitTest(t) \/ WaitFlag(t) \/ WaitSleep(t) \/ Reset(t)
      PROVE  Causes'
  <2>1. UNCHANGED <<mWorkUnits, dropped, work, wpc, n, missed>>
    BY <1>6 DEF WaitTest, WaitFlag, WaitSleep, Reset, queueVars, workerVars
  <2>2. \A s \in Tasks : (Caused(s)' <=> Caused(s)) /\ UnitOf(s)' = UnitOf(s)
    BY <2>1 DEF Caused, Coming, UnitOf
  <2>3. \A s \in Tasks \ {t} : upc'[s] = upc[s] /\ mWaiting'[s] = mWaiting[s] /\ mTaskState'[s] = mTaskState[s]
    BY <1>6, <1>t DEF WaitTest, WaitFlag, WaitSleep, Reset, taskVars
  <2>4. /\ upc'[t] \in {"flag", "sleep", "blocked"} => Caused(t)
        /\ upc'[t] # "test"
    BY <1>6, <1>t DEF WaitTest, WaitFlag, WaitSleep, Reset, Causes
  <2>5. upc'[t] \in {"sleep", "blocked"} => mWaiting'[t]
    <3>1. CASE WaitFlag(t)
      BY <1>t, <3>1 DEF WaitFlag
    <3>2. CASE WaitSleep(t)
      BY <1>t, <3>2 DEF WaitSleep, taskVars, Causes
    <3>3. CASE WaitTest(t) \/ Reset(t)
      BY <1>t, <3>3 DEF WaitTest, Reset
    <3>. QED
      BY <1>6, <3>1, <3>2, <3>3
  <2>6. upc'[t] # "idle" => mTaskState'[t] = mTaskState[t] /\ upc[t] # "idle"
    BY <1>6, <1>t DEF WaitTest, WaitFlag, WaitSleep, Reset, taskVars
  <2>7. ASSUME NEW w \in Workers, NEW s \in Tasks, work'[w] = UnitOf(s)', wpc'[w] \in Reported,
               upc'[s] # "idle"
        PROVE  mTaskState'[s] = "final"
    BY <2>1, <2>2, <2>3, <2>6, <2>7 DEF Causes, Reported
  <2>. QED
    BY <2>2, <2>3, <2>4, <2>5, <2>7 DEF Causes, Reported
<1>7. ASSUME UNCHANGED <<n, work, upc, mTaskState, mWaiting, missed>>, dropped \subseteq dropped',
             \A w \in Workers : wpc'[w] = wpc[w] \/ (wpc[w] = "sleep" /\ wpc'[w] = "loop"),
             \A i \in 1 .. Len(mWorkUnits) : \/ \E k \in 1 .. Len(mWorkUnits') : mWorkUnits'[k] = mWorkUnits[i]
                                             \/ mWorkUnits[i] \in dropped'
      PROVE  Causes'
  <2>1. \A t \in Tasks : Caused(t) => Caused(t)'
    BY <1>7, ComingKept
  <2>2. \A v \in Workers : wpc'[v] \in Reported => wpc[v] \in Reported /\ work'[v] = work[v]
    BY <1>7 DEF Reported
  <2>. QED
    BY <1>7, <2>1, <2>2, CausesFrame
<1>8. CASE Cancel \/ Destroy \/ Killer
  <2>1. UNCHANGED <<n, work, upc, mTaskState, mWaiting, missed>>
    BY <1>8 DEF Cancel, Destroy, Killer, CancelFound, Finish, Join, workerVars, userVars, taskVars
  <2>2. \A w \in Workers : wpc'[w] = wpc[w] \/ (wpc[w] = "sleep" /\ wpc'[w] = "loop")
    <3>1. wpc' = wpc \/ wpc' = WakeWorkers(wpc)
      BY <1>8 DEF Cancel, Destroy, Killer, CancelFound, Finish, Join, workerVars
    <3>2. \A w \in Workers : \/ WakeWorkers(wpc)[w] = wpc[w]
                             \/ wpc[w] = "sleep" /\ WakeWorkers(wpc)[w] = "loop"
      BY <1>t, Woken
    <3>. QED
      BY <3>1, <3>2
  <2>3. \/ mWorkUnits' = mWorkUnits /\ dropped \subseteq dropped'
        \/ dropped' = dropped \cup {mWorkUnits[i] : i \in DOMAIN mWorkUnits}
        \/ \E j \in DOMAIN mWorkUnits : /\ mWorkUnits' = RemoveAt(mWorkUnits, j)
                                        /\ dropped' = dropped \cup {mWorkUnits[j]}
    BY <1>8 DEF Cancel, Destroy, Killer, CancelFound, Finish, Join, queueVars
  <2>4. ASSUME NEW j \in DOMAIN mWorkUnits, mWorkUnits' = RemoveAt(mWorkUnits, j),
               dropped' = dropped \cup {mWorkUnits[j]}
        PROVE  \A i \in 1 .. Len(mWorkUnits) : \/ \E k \in 1 .. Len(mWorkUnits') : mWorkUnits'[k] = mWorkUnits[i]
                                               \/ mWorkUnits[i] \in dropped'
    <3>. DEFINE q == mWorkUnits  r == RemoveAt(q, j)
    <3>1. q \in Seq(AnyUnit) /\ j \in 1 .. Len(q) /\ mWorkUnits' = r
      BY <1>t, <2>4
    <3>2. \A i \in 1 .. Len(q) : i # j => \E k \in 1 .. Len(r) : r[k] = q[i]
      BY <3>1, RemoveAtKeeps
    <3>. QED
      BY <2>4, <3>1, <3>2
  <2>5. /\ dropped \subseteq dropped'
        /\ \A i \in 1 .. Len(mWorkUnits) : \/ \E k \in 1 .. Len(mWorkUnits') : mWorkUnits'[k] = mWorkUnits[i]
                                           \/ mWorkUnits[i] \in dropped'
    BY <1>t, <2>3, <2>4
  <2>. QED
    BY <1>7, <2>1, <2>2, <2>5
<1>9. CASE UNCHANGED vars
  BY <1>7, <1>9 DEF vars, queueVars, workerVars, userVars, taskVars
<1>. QED
  BY <1>1, <1>2, <1>3, <1>4, <1>5, <1>6, <1>8, <1>9, <1>t, CausesNotify DEF Next, User, Worker

-----------------------------------------------------------------------------
(* The theorems.                                                           *)

\* The invariant holds before the first commit.
LEMMA InductiveInit ==
  ASSUME Init
  PROVE  Inductive
<1>1. TypeOK
  BY TypeInit
<1>2. Len(mWorkUnits) = 0 /\ mIdleThreads = 0
  BY DEF Init
<1>3. Serving /\ RoomHeld /\ CanceledLate
  <2>1. Serving
    BY <1>2 DEF Serving, Init
  <2>2. \A t \in Tasks : ~AtRoom(t) /\ upc[t] # "full"
    BY DEF AtRoom, Init
  <2>. QED
    BY <2>1, <2>2 DEF Init, RoomHeld, CanceledLate
<1>4. UnitsOnce /\ UnitsCommitted /\ WorkHeld
  BY <1>2 DEF Init, UnitsOnce, UnitsCommitted, WorkHeld
<1>5. ResultsOwn
  BY <1>2, UnitFacts DEF Init, ResultsOwn, Pending, AtRoom
<1>6. Causes
  BY DEF Init, Causes
<1>. QED
  BY <1>1, <1>3, <1>4, <1>5, <1>6 DEF Inductive

\* The invariant holds in every behaviour of commits, cancels, waits, threads and the destructor
\* (WorkQueue.cpp 30-206, TaskManager.cpp, TaskInfo.cpp).
THEOREM InductiveHolds == Spec => []Inductive
<1>1. Init => Inductive
  BY InductiveInit
<1>2. Inductive /\ [Next]_vars => Inductive'
  <2>. SUFFICES ASSUME Inductive, [Next]_vars PROVE Inductive'
    OBVIOUS
  <2>1. Queue /\ Placed /\ ResultsOwn /\ Causes
    BY DEF Inductive, Queue, Placed
  <2>2. Queue' /\ Placed' /\ ResultsOwn' /\ Causes'
    BY <2>1, QueueStep, PlacedStep, ResultsStep, CausesStep
  <2>. QED
    BY <2>2 DEF Inductive, Queue, Placed
<1>. QED
  BY <1>1, <1>2, PTL DEF Spec

\* schedule and threadLoop: with any number of threads and any backlog, a queued unit is
\* never left to threads that sleep, and there are as many idle threads as queued units
\* until no more may be created.
THEOREM EveryUnitServed == Spec => []UnitsServed
<1>1. Inductive => UnitsServed
  BY DEF Inductive, Serving, UnitsServed
<1>. QED
  BY <1>1, InductiveHolds, PTL

\* TaskInfo::wait returns the result of this commit of this task, whatever other tasks end
\* and wake it meanwhile, unless a transfer of the task reported its end
\* more than once, for a server that closed or redirected.
THEOREM WaitGetsOwnResult == Spec => []OwnResult
<1>1. Inductive => OwnResult
  BY DEF Inductive, ResultsOwn, OwnResult
<1>. QED
  BY <1>1, InductiveHolds, PTL

\* A commit that sleeps does so in a full queue, and holds mMutex: no other commit, no
\* cancel and no destructor comes between, so the next unit taken wakes it.
THEOREM RoomAwaited == Spec => []RoomIsAwaited
<1>1. Inductive => RoomIsAwaited
  <2>. SUFFICES ASSUME Inductive, NEW t \in Tasks, upc[t] = "full"
                PROVE  Full /\ mMutex = "commit" /\ ~mCanceled
    BY DEF RoomIsAwaited
  <2>1. AtRoom(t)
    BY DEF AtRoom
  <2>. QED
    BY <2>1 DEF Inductive, RoomHeld, CanceledLate
<1>. QED
  BY <1>1, InductiveHolds, PTL

\* A wait sleeps only for a notification that is to come, but for the named ways in which
\* it was lost: the unit dropped or never queued, or the signal sent too early or to
\* another wait.
THEOREM WaitCaused == Spec => []WaitHasCause
<1>1. Inductive => WaitHasCause
  BY DEF Inductive, Causes, Caused, WaitHasCause
<1>. QED
  BY <1>1, InductiveHolds, PTL

=============================================================================
