------------------------- MODULE RangeManagerProofs -------------------------
(***************************************************************************)
(* What divdeContentLength computes, for every length of the content, and  *)
(* what the download guarantees for any content, faults and bounds.        *)
(***************************************************************************)
EXTENDS RangeManager, FiniteSetTheorems, SequenceTheorems, TLAPS

\* There are at most six ranges, so the lemmas below name each of them.
LEMMA CountValues ==
  ASSUME NEW c \in Nat
  PROVE  Count(c) \in {2, 3, 4, 6}
BY ConstantsAssumption DEF Count

\* The division leaves a remainder smaller than the number of ranges.
LEMMA Division ==
  ASSUME NEW c \in Nat, NEW n \in {2, 3, 4, 6}
  PROVE  /\ c \div n \in Nat /\ c % n \in 0 .. n - 1
         /\ c = n * (c \div n) + (c % n)
<1>1. CASE n = 2  BY <1>1
<1>2. CASE n = 3  BY <1>2
<1>3. CASE n = 4  BY <1>3
<1>4. CASE n = 6  BY <1>4
<1>. QED  BY <1>1, <1>2, <1>3, <1>4

\* divdeContentLength: the ranges it makes cover the content of any length from the first
\* byte to the last, without gap and without overlap.
THEOREM RangesCoverContent == \A c \in Nat : RangesTile(c)
<1>. SUFFICES ASSUME NEW c \in Nat PROVE RangesTile(c)
  OBVIOUS
<1>. DEFINE n == Count(c)  avg == c \div n  model == c % n
<1>1. n \in {2, 3, 4, 6}
  BY CountValues
<1>2. avg \in Nat /\ model \in 0 .. n - 1 /\ c = n * avg + model
  BY <1>1, Division
<1>3. \A i \in 1 .. n : /\ RangeOf(c, i).begin = (i - 1) * avg
                        /\ RangeOf(c, i).end = i * avg - 1 + (IF i = n THEN model ELSE 0)
  BY DEF RangeOf
<1>. HIDE DEF n, avg, model
<1>4. /\ RangeOf(c, 1).begin = 0
      /\ RangeOf(c, n).end = c - 1
  <2>1. RangeOf(c, 1).begin = (1 - 1) * avg
    BY <1>1, <1>3
  <2>2. RangeOf(c, n).end = n * avg - 1 + model
    BY <1>1, <1>3
  <2>. QED
    BY <1>1, <1>2, <2>1, <2>2
<1>5. ASSUME NEW i \in 1 .. n - 1
      PROVE  RangeOf(c, i + 1).begin = RangeOf(c, i).end + 1
  <2>1. RangeOf(c, i + 1).begin = (i + 1 - 1) * avg
    BY <1>1, <1>3
  <2>2. RangeOf(c, i).end = i * avg - 1 + 0
    BY <1>1, <1>3
  <2>3. i * avg \in Int
    BY <1>1, <1>2
  <2>. QED
    BY <1>1, <1>2, <2>1, <2>2, <2>3
<1>6. ASSUME NEW i \in 1 .. n
      PROVE  RangeOf(c, i).end >= RangeOf(c, i).begin - 1
  <2>1. i * avg = (i - 1) * avg + avg
    BY <1>1, <1>2
  <2>. QED
    BY <1>1, <1>2, <1>3, <2>1
<1>. QED
  BY <1>4, <1>5, <1>6 DEF RangesTile, n

-----------------------------------------------------------------------------
(* Who has reported, and the counts that wait4Complete goes by.            *)

\* The values of the variables that say where the threads are.
ControlType ==
    /\ state \in [Parts -> {"init", "done", "failed"}]
    /\ pc \in [Parts -> PartPC]
    /\ mMutex \in {"free", "held"} /\ mCompleteCount \in Nat /\ mFailedCount \in Nat
    /\ scan \in Nat \ {0} /\ mpc \in ManagerPC /\ idx \in Nat \ {0}

\* The threads in recoverFailedTask, with mMutex.
Recovering(i) == pc[i] \in {"recover", "join"}

\* The downloaders whose completion, or whose failure, has been counted.
DoneParts == {i \in Parts : state[i] = "done" /\ pc[i] \in {"leaving", "off", "recover", "join"}}
FailedParts == {i \in Parts : state[i] = "failed" /\ pc[i] \in {"leaving", "off"}}

\* The state of a range agrees with where its thread is.
StatesAgree ==
    \A i \in Parts :
        /\ pc[i] \in {"open", "request", "recv", "lost"} => state[i] = "init"
        /\ pc[i] \in {"onComplete", "recover", "join"} => state[i] = "done"
        /\ pc[i] = "onFailed" => state[i] # "done"

\* start has not come to the downloaders from idx on.
NotStarted == mpc = "start" => \A i \in Parts : i >= idx => pc[i] = "off" /\ state[i] = "init"

\* One thread recovers at a time, under mMutex.
OneRecovers ==
    /\ \A i \in Parts : Recovering(i) => mMutex = "held" /\ \A k \in Parts \ {i} : ~Recovering(k)
    /\ mpc = "merge" => mMutex = "held"

\* What is joined was started and has failed, and it stays where it is.
JoinsFailed ==
    /\ \A i \in Parts : pc[i] = "join" =>
        /\ scan \in Parts /\ state[scan] = "init" /\ pc[scan] \in {"onFailed", "leaving", "off"}
        /\ mpc = "start" => scan < idx
    /\ \A i \in Parts : state[i] = "init" /\ pc[i] = "onFailed" =>
        scan = i /\ \E k \in Parts : pc[k] = "join"

\* Behind the scan no failure is left that was counted.
Scanned == (\E k \in Parts : Recovering(k)) => \A i \in Parts : i < scan => i \notin FailedParts

\* The counters say how many have reported; mFailedCount is wrong only while it is about
\* to be reset.
Counted ==
    /\ mCompleteCount = Cardinality(DoneParts)
    /\ (\A k \in Parts : ~Recovering(k)) => mFailedCount = Cardinality(FailedParts)

\* Composition begins only when every part is complete.
MergesDone == mpc \in {"merge", "complete"} => \A i \in Parts : state[i] = "done"

Control == /\ ControlType /\ StatesAgree /\ NotStarted /\ OneRecovers /\ JoinsFailed
           /\ Scanned /\ Counted /\ MergesDone /\ WaitedForAll

-----------------------------------------------------------------------------
(* What the part files hold.                                               *)

\* The values of the variables that say what was fetched.
DataType ==
    /\ file \in [Parts -> Seq(Int)] /\ begin \in [Parts -> Int] /\ got \in [Parts -> Nat]

\* The part file may lack bytes in between, or hold some of a header.
Loose(i) == \E why \in {"skipped", "unwritten", "foreign"} : Suffered(i, why)
Foreign(i) == Suffered(i, "foreign")
Spoiled(i) == \E s \in spoiled : s[1] = i

\* A transfer appends the byte that follows those in the file, and no more than the range
\* has room for.
TransfersFollow ==
    \A i \in Parts :
        /\ begin[i] >= First(i)
        /\ pc[i] \in {"request", "recv"} =>
            /\ got[i] <= Wanted(i)
            /\ begin[i] + got[i] >= First(i) + Len(file[i]) \/ Foreign(i)
            /\ begin[i] + got[i] = First(i) + Len(file[i]) \/ Loose(i)

\* The parts that wait4Complete has composed, or has reported as composed.
Composed(i) == mpc \in {"complete", "deleted"} \/ (mpc = "merge" /\ i < idx)

\* A part that is done is whole until it is composed,
DoneIsWhole ==
    \A i \in Parts : state[i] = "done" /\ ~Composed(i) => Len(file[i]) = Size(i) \/ Spoiled(i)

\* and then its bytes are at their place.
ComposedIsWhole ==
    mpc \in {"merge", "complete"} =>
        \A i \in Parts : Composed(i) =>
            Spoiled(i) \/ \A p \in First(i) .. Last(i) : p \in DOMAIN composed /\ composed[p] = p

Data == DataType /\ PartsInOrder /\ TransfersFollow /\ DoneIsWhole /\ ComposedIsWhole

-----------------------------------------------------------------------------
(* Counting.                                                               *)

\* There are as many parts as ranges.
LEMMA PartsFinite == /\ IsFiniteSet(Parts) /\ Cardinality(Parts) = Count(Content)
                     /\ Count(Content) \in Nat \ {0}
<1>1. Count(Content) \in {2, 3, 4, 6}
  BY CountValues, ConstantsAssumption
<1>2. IsFiniteSet(1 .. Count(Content)) /\ Cardinality(1 .. Count(Content)) = Count(Content) - 1 + 1
  <2>1. 1 \in Int /\ Count(Content) \in Int /\ ~(1 > Count(Content))
    BY <1>1
  <2>. QED
    BY <2>1, FS_Interval
<1>. QED
  BY <1>1, <1>2 DEF Parts

\* One more downloader has reported.
LEMMA OneMore ==
  ASSUME NEW S \in SUBSET Parts, NEW i \in Parts \ S
  PROVE  Cardinality(S \cup {i}) = Cardinality(S) + 1
BY PartsFinite, FS_Subset, FS_AddElement

\* The counts of two groups of parts that have none in common make up all parts only if
\* every part is in one of them.
LEMMA AllIn ==
  ASSUME NEW D \in SUBSET Parts, NEW F \in SUBSET Parts, D \cap F = {},
         Cardinality(D) + Cardinality(F) >= Count(Content)
  PROVE  D \cup F = Parts
<1>1. IsFiniteSet(D) /\ IsFiniteSet(F)
  BY PartsFinite, FS_Subset
<1>2. Cardinality(D \cup F) = Cardinality(D) + Cardinality(F)
  <2>1. Cardinality(D \cap F) = 0
    <3>1. IsFiniteSet(D \cap F)
      BY <1>1, FS_Intersection
    <3>. QED
      BY <3>1, FS_EmptySet, Zenon
  <2>2. Cardinality(D) \in Nat /\ Cardinality(F) \in Nat
    BY <1>1, FS_CardinalityType
  <2>3. Cardinality(D \cup F) = Cardinality(D) + Cardinality(F) - Cardinality(D \cap F)
    BY <1>1, FS_Union
  <2>. QED
    BY <2>1, <2>2, <2>3
<1>3. Cardinality(D \cup F) <= Cardinality(Parts) /\ D \cup F \subseteq Parts
  BY PartsFinite, FS_Subset
<1>4. Cardinality(D \cup F) = Cardinality(Parts)
  <2>1. Cardinality(Parts) \in Nat /\ Cardinality(D \cup F) \in Nat
    BY <1>1, PartsFinite, FS_Union, FS_CardinalityType
  <2>. QED
    BY <1>2, <1>3, <2>1, PartsFinite
<1>. QED
  BY <1>3, <1>4, PartsFinite, FS_Subset

-----------------------------------------------------------------------------
(* The steps, as far as the threads and the counts are concerned.          *)

\* A RangeManager that was just made.
New == /\ pc = [i \in Parts |-> "off"] /\ state = [i \in Parts |-> "init"]
       /\ mMutex = "free" /\ mCompleteCount = 0 /\ mFailedCount = 0
       /\ scan = 1 /\ idx = 1 /\ mpc = "start"

\* A new manager, before or after a crash, is in a controlled state.
LEMMA NewControl == New => Control
<1>. SUFFICES ASSUME New PROVE Control
  OBVIOUS
<1>. USE DEF New
<1>1. DoneParts = {} /\ FailedParts = {}
  BY DEF DoneParts, FailedParts
<1>2. Counted
  BY <1>1, FS_EmptySet DEF Counted
<1>. QED
  BY <1>1, <1>2 DEF Control, ControlType, StatesAgree, NotStarted, OneRecovers, JoinsFailed,
       Scanned, MergesDone, WaitedForAll, Recovering, PartPC, ManagerPC

\* A downloader at work goes on, is done or fails; nothing is reported yet.
LEMMA WorkStep ==
  ASSUME Control, NEW i \in Parts, pc[i] \in {"open", "request", "recv"},
         UNCHANGED <<countVars, scan, mpc, idx>>,
         \/ UNCHANGED <<pc, state>>
         \/ UNCHANGED state /\ \E to \in {"request", "recv", "lost"} : Go(i, to)
         \/ Done(i)
         \/ Failed(i)
  PROVE  Control'
<1>. USE DEF Control, ControlType, PartPC
<1>1. PICK to \in {"open", "request", "recv", "lost", "onComplete", "onFailed"} :
        /\ pc' = [pc EXCEPT ![i] = to]
        /\ \/ state' = state /\ to \notin {"onComplete", "onFailed"}
           \/ state' = [state EXCEPT ![i] = "done"] /\ to = "onComplete"
           \/ state' = [state EXCEPT ![i] = "failed"] /\ to = "onFailed"
  BY DEF Go, Done, Failed
<1>2. ControlType'
  BY <1>1 DEF countVars
<1>3. StatesAgree'
  BY <1>1 DEF StatesAgree
<1>4. DoneParts' = DoneParts /\ FailedParts' = FailedParts
  BY <1>1 DEF DoneParts, FailedParts
<1>5. \A k \in Parts : Recovering(k)' <=> Recovering(k)
  BY <1>1 DEF Recovering
<1>6. OneRecovers' /\ Scanned' /\ Counted'
  BY <1>4, <1>5 DEF OneRecovers, Scanned, Counted, countVars
<1>7. NotStarted'
  BY <1>1 DEF NotStarted
<1>8. JoinsFailed'
  BY <1>1 DEF JoinsFailed, StatesAgree
<1>9. MergesDone' /\ WaitedForAll'
  BY <1>1 DEF MergesDone, WaitedForAll
<1>. QED
  BY <1>2, <1>3, <1>6, <1>7, <1>8, <1>9

\* A downloader thread that ends preserves the control state.
LEMMA LeaveStep ==
  ASSUME Control, NEW i \in Parts, Leave(i)
  PROVE  Control'
<1>. USE DEF Control, ControlType, PartPC
<1>1. /\ pc[i] = "leaving" /\ pc' = [pc EXCEPT ![i] = "off"]
      /\ UNCHANGED <<state, mMutex, mCompleteCount, mFailedCount, scan, mpc, idx>>
  BY DEF Leave, Go, partVars, countVars, mngVars
<1>2. ControlType' /\ StatesAgree'
  BY <1>1 DEF StatesAgree
<1>4. DoneParts' = DoneParts /\ FailedParts' = FailedParts
  BY <1>1 DEF DoneParts, FailedParts
<1>5. \A k \in Parts : Recovering(k)' <=> Recovering(k)
  BY <1>1 DEF Recovering
<1>6. OneRecovers' /\ Scanned' /\ Counted'
  BY <1>1, <1>4, <1>5 DEF OneRecovers, Scanned, Counted
<1>7. NotStarted'
  BY <1>1 DEF NotStarted
<1>8. JoinsFailed'
  BY <1>1 DEF JoinsFailed
<1>9. MergesDone' /\ WaitedForAll'
  BY <1>1 DEF MergesDone, WaitedForAll
<1>. QED
  BY <1>2, <1>6, <1>7, <1>8, <1>9

\* mCond.signal wakes the manager if it sleeps.
LEMMA Signals ==
  ASSUME mpc \in ManagerPC, NEW ACTION c, NEW ACTION f, SignalIfAll(c, f)
  PROVE  mpc' \in ManagerPC /\ (mpc' = mpc \/ (mpc = "sleep" /\ mpc' = "woken"))
<1>1. mpc' = mpc \/ mpc' = IF mpc = "sleep" THEN "woken" ELSE mpc
  BY Zenon DEF SignalIfAll, Signal
<1>. QED
  BY <1>1 DEF ManagerPC

\* A failure is counted: nobody recovers, so the range is still marked as failed.
LEMMA OnFailedStep ==
  ASSUME Control, NEW i \in Parts, OnFailed(i)
  PROVE  Control'
<1>. USE DEF Control, ControlType, PartPC
<1>1. /\ pc[i] = "onFailed" /\ mMutex = "free" /\ pc' = [pc EXCEPT ![i] = "leaving"]
      /\ mFailedCount' = mFailedCount + 1
      /\ UNCHANGED <<state, mMutex, mCompleteCount, scan, idx>>
  BY DEF OnFailed, Go, partVars
<1>0. mpc' \in ManagerPC /\ (mpc' = mpc \/ (mpc = "sleep" /\ mpc' = "woken"))
  BY Signals DEF OnFailed
<1>2. \A k \in Parts : ~Recovering(k) /\ ~Recovering(k)'
  BY <1>0, <1>1 DEF Recovering, OneRecovers
<1>3. state[i] = "failed"
  BY <1>0, <1>1, <1>2 DEF JoinsFailed, StatesAgree, Recovering
<1>4. ControlType' /\ StatesAgree'
  BY <1>0, <1>1 DEF StatesAgree
<1>5. DoneParts' = DoneParts /\ FailedParts' = FailedParts \cup {i} /\ i \notin FailedParts
  BY <1>0, <1>1, <1>3 DEF DoneParts, FailedParts
<1>6. Counted'
  <2>1. Cardinality(FailedParts \cup {i}) = Cardinality(FailedParts) + 1
    BY <1>5, OneMore DEF FailedParts
  <2>. QED
    BY <1>1, <1>2, <1>5, <2>1 DEF Counted
<1>7. OneRecovers' /\ Scanned'
  BY <1>0, <1>1, <1>2 DEF OneRecovers, Scanned
<1>8. NotStarted'
  BY <1>0, <1>1 DEF NotStarted
<1>9. JoinsFailed'
  BY <1>0, <1>1, <1>2 DEF JoinsFailed, Recovering
<1>10. MergesDone' /\ WaitedForAll'
  BY <1>0, <1>1 DEF MergesDone, WaitedForAll
<1>. QED
  BY <1>4, <1>6, <1>7, <1>8, <1>9, <1>10

\* A completion is counted; with failures to recover, mMutex is kept.
LEMMA OnCompleteStep ==
  ASSUME Control, NEW i \in Parts, OnComplete(i)
  PROVE  Control'
<1>. USE DEF Control, ControlType, PartPC
<1>1. /\ pc[i] = "onComplete" /\ mMutex = "free"
      /\ mCompleteCount' = mCompleteCount + 1
      /\ UNCHANGED <<state, mFailedCount, idx>>
  BY DEF OnComplete, partVars
<1>2. \/ pc' = [pc EXCEPT ![i] = "leaving"] /\ mMutex' = "free" /\ scan' = scan
      \/ pc' = [pc EXCEPT ![i] = "recover"] /\ mMutex' = "held" /\ scan' = 1
  BY <1>1 DEF OnComplete, Go
<1>0. mpc' \in ManagerPC /\ (mpc' = mpc \/ (mpc = "sleep" /\ mpc' = "woken"))
  BY Signals DEF OnComplete
<1>3. \A k \in Parts : ~Recovering(k) /\ (Recovering(k)' => k = i /\ mMutex' = "held" /\ scan' = 1)
  BY <1>1, <1>2 DEF Recovering, OneRecovers
<1>4. state[i] = "done"
  BY <1>1 DEF StatesAgree
<1>5. ControlType'
  BY <1>0, <1>1, <1>2
<1>6. StatesAgree'
  BY <1>1, <1>2, <1>4 DEF StatesAgree
<1>7. DoneParts' = DoneParts \cup {i} /\ i \notin DoneParts /\ FailedParts' = FailedParts
  BY <1>1, <1>2, <1>4 DEF DoneParts, FailedParts
<1>8. Counted'
  <2>1. Cardinality(DoneParts \cup {i}) = Cardinality(DoneParts) + 1
    BY <1>7, OneMore DEF DoneParts
  <2>2. mCompleteCount' = Cardinality(DoneParts')
    BY <1>1, <1>7, <2>1 DEF Counted
  <2>3. mFailedCount' = Cardinality(FailedParts')
    BY <1>1, <1>3, <1>7 DEF Counted
  <2>. QED
    BY <2>2, <2>3 DEF Counted
<1>9. OneRecovers'
  BY <1>0, <1>1, <1>3 DEF OneRecovers
<1>10. Scanned'
  BY <1>3, PartsFinite DEF Scanned, Parts
<1>11. NotStarted'
  BY <1>0, <1>1, <1>2 DEF NotStarted
<1>12. JoinsFailed'
  BY <1>0, <1>1, <1>2, <1>3 DEF JoinsFailed, Recovering
<1>13. MergesDone' /\ WaitedForAll'
  BY <1>0, <1>1, <1>2 DEF MergesDone, WaitedForAll
<1>. QED
  BY <1>5, <1>6, <1>8, <1>9, <1>10, <1>11, <1>12, <1>13

\* recoverFailedTask has passed every part: no failure is left, as mFailedCount says again.
LEMMA RecoverEndStep ==
  ASSUME Control, NEW i \in Parts, RecoverEnd(i)
  PROVE  Control'
<1>. USE DEF Control, ControlType, PartPC
<1>1. /\ pc[i] = "recover" /\ scan > Count(Content) /\ pc' = [pc EXCEPT ![i] = "leaving"]
      /\ mFailedCount' = 0 /\ mMutex' = "free"
      /\ UNCHANGED <<state, mCompleteCount, scan, idx>>
  BY DEF RecoverEnd, Go, partVars
<1>0. mpc' \in ManagerPC /\ (mpc' = mpc \/ (mpc = "sleep" /\ mpc' = "woken"))
  BY Signals DEF RecoverEnd
<1>2. mpc \notin {"merge", "complete", "failed"}
  BY <1>1 DEF WaitedForAll
<1>3. \A k \in Parts : ~Recovering(k)' /\ (k # i => ~Recovering(k)) /\ Recovering(i)
  BY <1>1 DEF Recovering, OneRecovers
<1>4. ControlType' /\ StatesAgree'
  BY <1>0, <1>1 DEF StatesAgree
<1>5. DoneParts' = DoneParts
  BY <1>1 DEF DoneParts
<1>6. FailedParts' = {}
  <2>1. \A k \in Parts : k < scan
    BY <1>1, PartsFinite DEF Parts
  <2>2. FailedParts = {}
    BY <1>3, <2>1 DEF Scanned, FailedParts
  <2>3. state[i] = "done"
    BY <1>1 DEF StatesAgree
  <2>. QED
    BY <1>1, <2>2, <2>3 DEF FailedParts
<1>7. Counted'
  BY <1>1, <1>5, <1>6, FS_EmptySet DEF Counted
<1>8. OneRecovers' /\ Scanned'
  BY <1>0, <1>1, <1>2, <1>3 DEF OneRecovers, Scanned
<1>9. NotStarted'
  BY <1>0, <1>1 DEF NotStarted
<1>10. JoinsFailed'
  BY <1>0, <1>1, <1>3 DEF JoinsFailed, Recovering
<1>11. MergesDone' /\ WaitedForAll'
  BY <1>0, <1>1, <1>2 DEF MergesDone, WaitedForAll
<1>. QED
  BY <1>4, <1>7, <1>8, <1>9, <1>10, <1>11

\* A failed range behind the scan is reset and its thread joined.
LEMMA RecoverStep ==
  ASSUME Control, NEW i \in Parts, Recover(i)
  PROVE  Control'
<1>. USE DEF Control, ControlType, PartPC
<1>1. /\ pc[i] = "recover" /\ scan \in Parts /\ Recovering(i) /\ state[i] = "done"
      /\ UNCHANGED <<mMutex, mCompleteCount, mFailedCount, mpc, idx>>
  BY DEF Recover, countVars, mngVars, Recovering, StatesAgree
<1>2. mpc \notin {"merge", "complete", "failed"}
  BY <1>1 DEF WaitedForAll
<1>3. \A k \in Parts : pc[k] # "join" /\ (k # i => ~Recovering(k))
  BY <1>1 DEF Recovering, OneRecovers
<1>4. CASE state[scan] # "failed"
  <2>1. scan' = scan + 1 /\ pc' = pc /\ state' = state
    BY <1>4 DEF Recover
  <2>2. ControlType' /\ StatesAgree' /\ NotStarted' /\ OneRecovers' /\ MergesDone' /\ WaitedForAll'
    BY <1>1, <2>1 DEF StatesAgree, NotStarted, OneRecovers, Recovering, MergesDone, WaitedForAll
  <2>3. DoneParts' = DoneParts /\ FailedParts' = FailedParts /\ scan \notin FailedParts
    BY <1>4, <2>1 DEF DoneParts, FailedParts
  <2>4. Counted'
    BY <1>1, <2>1, <2>3 DEF Counted, Recovering
  <2>5. Scanned'
    BY <1>1, <2>1, <2>3, PartsFinite DEF Scanned, Parts
  <2>6. JoinsFailed'
    BY <1>1, <1>3, <2>1 DEF JoinsFailed
  <2>. QED
    BY <2>2, <2>4, <2>5, <2>6
<1>5. CASE state[scan] = "failed"
  <2>1. /\ state' = [state EXCEPT ![scan] = "init"] /\ pc' = [pc EXCEPT ![i] = "join"]
        /\ scan' = scan /\ scan # i
    BY <1>1, <1>5 DEF Recover, Go
  <2>2. pc[scan] \in {"onFailed", "leaving", "off"} /\ (mpc = "start" => scan < idx)
    BY <1>1, <1>5, PartsFinite DEF StatesAgree, NotStarted, Parts
  <2>3. ControlType' /\ StatesAgree'
    BY <1>1, <2>1, <2>2 DEF StatesAgree
  <2>4. \A k \in Parts : Recovering(k)' <=> Recovering(k)
    BY <1>1, <2>1 DEF Recovering
  <2>5. DoneParts' = DoneParts /\ FailedParts' \subseteq FailedParts
    BY <1>1, <1>5, <2>1 DEF DoneParts, FailedParts
  <2>6. OneRecovers' /\ Scanned' /\ Counted'
    BY <1>1, <2>1, <2>4, <2>5 DEF OneRecovers, Scanned, Counted
  <2>7. NotStarted'
    BY <1>1, <2>1 DEF NotStarted
  <2>8. JoinsFailed'
    <3>1. ASSUME NEW k \in Parts, state'[k] = "init", pc'[k] = "onFailed"
          PROVE  k = scan
      BY <1>3, <2>1, <3>1 DEF JoinsFailed
    <3>. QED
      BY <1>1, <1>3, <2>1, <2>2, <3>1 DEF JoinsFailed
  <2>9. MergesDone' /\ WaitedForAll'
    BY <1>1, <1>2 DEF MergesDone, WaitedForAll
  <2>. QED
    BY <2>3, <2>6, <2>7, <2>8, <2>9
<1>. QED
  BY <1>4, <1>5

\* The thread that was joined is started again.
LEMMA RerunStep ==
  ASSUME Control, NEW i \in Parts, Rerun(i)
  PROVE  Control'
<1>. USE DEF Control, ControlType, PartPC
<1>1. /\ pc[i] = "join" /\ pc[scan] = "off" /\ scan \in Parts /\ state[scan] = "init"
      /\ scan # i /\ state[i] = "done" /\ (mpc = "start" => scan < idx)
  BY DEF Rerun, JoinsFailed, StatesAgree
<1>2. PICK to \in {"open", "lost"} :
      /\ pc' = [pc EXCEPT ![scan] = to, ![i] = "recover"] /\ scan' = scan + 1
      /\ UNCHANGED <<state, mMutex, mCompleteCount, mFailedCount, mpc, idx>>
  BY DEF Rerun, partVars, countVars, mngVars
<1>3. mpc \notin {"merge", "complete", "failed"}
  BY <1>1 DEF WaitedForAll
<1>4. ControlType' /\ StatesAgree'
  BY <1>1, <1>2 DEF StatesAgree
<1>5. \A k \in Parts : Recovering(k)' <=> Recovering(k)
  BY <1>1, <1>2 DEF Recovering
<1>6. DoneParts' = DoneParts /\ FailedParts' = FailedParts /\ scan \notin FailedParts
  BY <1>1, <1>2 DEF DoneParts, FailedParts
<1>7. OneRecovers' /\ Counted'
  BY <1>2, <1>5, <1>6 DEF OneRecovers, Counted
<1>8. Scanned'
  BY <1>1, <1>2, <1>5, <1>6, PartsFinite DEF Scanned, Parts
<1>9. NotStarted'
  BY <1>1, <1>2, PartsFinite DEF NotStarted, Parts
<1>10. JoinsFailed'
  <2>1. \A k \in Parts : pc'[k] # "join"
    BY <1>1, <1>2 DEF OneRecovers, Recovering
  <2>2. ASSUME NEW k \in Parts, state'[k] = "init", pc'[k] = "onFailed"
        PROVE  FALSE
    BY <1>1, <1>2, <2>2 DEF JoinsFailed
  <2>. QED
    BY <2>1, <2>2 DEF JoinsFailed
<1>11. MergesDone' /\ WaitedForAll'
  BY <1>2, <1>3 DEF MergesDone, WaitedForAll
<1>. QED
  BY <1>4, <1>7, <1>8, <1>9, <1>10, <1>11

\* So does the start of the downloaders.
LEMMA StartStep ==
  ASSUME Control, Start
  PROVE  Control'
<1>. USE DEF Control, ControlType, PartPC
<1>1. /\ mpc = "start"
      /\ UNCHANGED <<state, mMutex, mCompleteCount, mFailedCount, scan>>
  BY DEF Start, partVars, countVars
<1>2. CASE idx \in Parts
  <2>1. PICK to \in {"open", "lost"} :
          pc' = [pc EXCEPT ![idx] = to] /\ idx' = idx + 1 /\ mpc' = mpc
    BY <1>2 DEF Start, Go
  <2>2. pc[idx] = "off" /\ state[idx] = "init"
    BY <1>1, <1>2, PartsFinite DEF NotStarted, Parts
  <2>3. ControlType' /\ StatesAgree'
    BY <1>1, <1>2, <2>1, <2>2 DEF StatesAgree
  <2>4. \A k \in Parts : Recovering(k)' <=> Recovering(k)
    BY <1>2, <2>1, <2>2 DEF Recovering
  <2>5. DoneParts' = DoneParts /\ FailedParts' = FailedParts
    BY <1>1, <1>2, <2>1, <2>2 DEF DoneParts, FailedParts
  <2>6. OneRecovers' /\ Scanned' /\ Counted'
    BY <1>1, <2>1, <2>4, <2>5 DEF OneRecovers, Scanned, Counted
  <2>7. NotStarted'
    BY <1>1, <2>1, PartsFinite DEF NotStarted, Parts
  <2>8. JoinsFailed'
    BY <1>1, <1>2, <2>1, <2>2, PartsFinite DEF JoinsFailed, Parts
  <2>9. MergesDone' /\ WaitedForAll'
    BY <1>1, <2>1 DEF MergesDone, WaitedForAll
  <2>. QED
    BY <2>3, <2>6, <2>7, <2>8, <2>9
<1>3. CASE idx \notin Parts
  <2>1. pc' = pc /\ idx' = idx /\ mpc' = "lock"
    BY <1>3 DEF Start
  <2>2. DoneParts' = DoneParts /\ FailedParts' = FailedParts
    BY <1>1, <2>1 DEF DoneParts, FailedParts
  <2>3. Scanned' /\ Counted'
    BY <1>1, <2>1, <2>2 DEF Scanned, Counted, Recovering
  <2>. QED
    BY <1>1, <2>1, <2>3 DEF StatesAgree, NotStarted, OneRecovers, Recovering, JoinsFailed,
         MergesDone, WaitedForAll, ManagerPC
<1>. QED
  BY <1>2, <1>3

\* The thread of doDownload moves on, and no other variable of Control changes but idx
\* and mMutex; where it stops waiting, every downloader has reported.
LEMMA ManagerStep ==
  ASSUME Control, UNCHANGED <<state, pc, mCompleteCount, mFailedCount, scan>>,
         mpc # "start", mpc' \in ManagerPC \ {"start"}, idx' \in Nat \ {0},
         mMutex' \in {"free", "held"},
         mMutex' = mMutex \/ \A i \in Parts : ~Recovering(i),
         mpc' = "merge" => mMutex' = "held",
         MergesDone', WaitedForAll'
  PROVE  Control'
<1>. USE DEF Control, ControlType
<1>1. DoneParts' = DoneParts /\ FailedParts' = FailedParts
  BY DEF DoneParts, FailedParts
<1>2. \A k \in Parts : Recovering(k)' <=> Recovering(k)
  BY DEF Recovering
<1>3. Scanned' /\ Counted'
  BY <1>1, <1>2 DEF Scanned, Counted
<1>4. OneRecovers'
  BY <1>2 DEF OneRecovers
<1>5. StatesAgree' /\ NotStarted' /\ JoinsFailed'
  BY DEF StatesAgree, NotStarted, JoinsFailed
<1>. QED
  BY <1>3, <1>4, <1>5

\* So does the wait for them.
LEMMA WaitStep ==
  ASSUME Control, Wait
  PROVE  Control'
<1>. USE DEF Control, ControlType
<1>1. /\ mpc \in {"lock", "woken"} /\ mMutex = "free"
      /\ UNCHANGED <<state, pc, mCompleteCount, mFailedCount, scan>>
  BY DEF Wait, partVars
<1>2. \A i \in Parts : ~Recovering(i)
  BY <1>1 DEF OneRecovers
<1>3. \/ mpc' = "sleep" /\ mMutex' = mMutex /\ idx' = idx
      \/ /\ mpc' = "merge" /\ mMutex' = "held" /\ idx' = 1
         /\ mCompleteCount >= Count(Content)
      \/ /\ mpc' = "failed" /\ mMutex' = mMutex /\ idx' = idx
         /\ mFailedCount + mCompleteCount >= Count(Content)
  BY DEF Wait
<1>. DEFINE D == DoneParts  F == FailedParts
<1>4. /\ D \in SUBSET Parts /\ F \in SUBSET Parts /\ D \cap F = {}
      /\ Cardinality(D) = mCompleteCount /\ Cardinality(F) = mFailedCount
  BY <1>2 DEF Counted, DoneParts, FailedParts
<1>. HIDE DEF D, F
<1>5. ASSUME mpc' \in {"merge", "complete", "failed"}
      PROVE  \A i \in Parts : pc'[i] \in {"leaving", "off"}
  <2>1. Cardinality(D) + Cardinality(F) >= Count(Content)
    BY <1>3, <1>4, <1>5, PartsFinite
  <2>2. D \cup F = Parts
    BY <1>4, <2>1, AllIn
  <2>. QED
    BY <1>1, <1>2, <2>2 DEF D, F, DoneParts, FailedParts, Recovering
<1>6. ASSUME mpc' \in {"merge", "complete"}
      PROVE  \A i \in Parts : state'[i] = "done"
  <2>1. mCompleteCount >= Count(Content)
    BY <1>3, <1>6
  <2>2. {} \in SUBSET Parts /\ D \cap {} = {} /\ Cardinality({}) = 0
    BY FS_EmptySet
  <2>3. Cardinality(D) + Cardinality({}) >= Count(Content)
    BY <1>4, <2>1, <2>2
  <2>4. D \cup {} = Parts
    BY <1>4, <2>2, <2>3, AllIn
  <2>. QED
    BY <1>1, <2>4 DEF D, DoneParts
<1>7. MergesDone' /\ WaitedForAll'
  BY <1>5, <1>6 DEF MergesDone, WaitedForAll
<1>. QED
  BY <1>1, <1>2, <1>3, <1>7, ManagerStep DEF ManagerPC

\* So does the composition of the parts.
LEMMA MergeStep ==
  ASSUME Control, Merge
  PROVE  Control'
<1>. USE DEF Control, ControlType
<1>1. /\ mpc = "merge" /\ UNCHANGED <<state, pc, mCompleteCount, mFailedCount, scan>>
  BY DEF Merge
<1>2. \/ mpc' = mpc /\ mMutex' = mMutex /\ idx' = idx + 1
      \/ mpc' = "complete" /\ mMutex' = "free" /\ idx' = idx
  BY DEF Merge
<1>3. \A i \in Parts : ~Recovering(i)
  BY <1>1 DEF WaitedForAll, Recovering
<1>4. MergesDone' /\ WaitedForAll' /\ mMutex = "held"
  BY <1>1, <1>2 DEF MergesDone, WaitedForAll, OneRecovers
<1>. QED
  BY <1>1, <1>2, <1>3, <1>4, ManagerStep DEF ManagerPC

\* So does the destructor.
LEMMA DeleteStep ==
  ASSUME Control, Delete
  PROVE  Control'
<1>1. /\ mpc \in {"complete", "failed"} /\ mpc' = "deleted"
      /\ UNCHANGED <<state, pc, mMutex, mCompleteCount, mFailedCount, scan, idx>>
  BY DEF Delete, partVars, countVars
<1>2. MergesDone' /\ WaitedForAll'
  BY <1>1 DEF MergesDone, WaitedForAll
<1>. QED
  BY <1>1, <1>2, ManagerStep DEF ManagerPC, Control, ControlType

\* Every step keeps the counts right.
LEMMA ControlStep ==
  ASSUME Control, [Next]_vars
  PROVE  Control'
<1>1. ASSUME NEW i \in Parts, Downloader(i)
      PROVE  Control'
  <2>1. CASE Open(i)
    <3>1. /\ pc[i] = "open" /\ UNCHANGED <<countVars, scan, mpc, idx>>
          /\ \/ UNCHANGED state /\ Go(i, "lost")
             \/ UNCHANGED state /\ Go(i, "request")
             \/ Done(i)
      BY <2>1 DEF Open, partVars, mngVars, Done
    <3>. QED
      BY <3>1, WorkStep
  <2>2. CASE Request(i)
    <3>1. /\ pc[i] = "request" /\ UNCHANGED <<countVars, scan, mpc, idx>>
          /\ \/ UNCHANGED state /\ Go(i, "recv")
             \/ Failed(i)
             \/ Done(i)
      BY <2>2 DEF Request, HeaderCut, mngVars
    <3>. QED
      BY <3>1, WorkStep
  <2>3. CASE Recv(i)
    <3>1. pc[i] = "recv" /\ UNCHANGED <<countVars, scan, mpc, idx, pc, state>>
      BY <2>3 DEF Recv, mngVars
    <3>. QED
      BY <3>1, WorkStep
  <2>4. CASE RecvEnd(i)
    <3>1. pc[i] = "recv" /\ UNCHANGED <<countVars, scan, mpc, idx>> /\ (Done(i) \/ Failed(i))
      BY <2>4 DEF RecvEnd, mngVars
    <3>. QED
      BY <3>1, WorkStep
  <2>5. CASE Leave(i)       BY <2>5, LeaveStep
  <2>6. CASE OnFailed(i)    BY <2>6, OnFailedStep
  <2>7. CASE OnComplete(i)  BY <2>7, OnCompleteStep
  <2>8. CASE RecoverEnd(i)  BY <2>8, RecoverEndStep
  <2>9. CASE Recover(i)     BY <2>9, RecoverStep
  <2>10. CASE Rerun(i)      BY <2>10, RerunStep
  <2>. QED
    BY <1>1, <2>1, <2>2, <2>3, <2>4, <2>5, <2>6, <2>7, <2>8, <2>9, <2>10 DEF Downloader
<1>2. CASE Manager
  BY <1>2, StartStep, WaitStep, MergeStep, DeleteStep DEF Manager
<1>3. CASE Again
  <2>1. New'
    BY <1>3 DEF Again, Fresh, New
  <2>2. New' => Control'
    BY NewControl, PTL
  <2>. QED
    BY <2>1, <2>2
<1>4. CASE UNCHANGED vars
  <2>1. UNCHANGED <<state, pc, mMutex, mCompleteCount, mFailedCount, scan, mpc, idx>>
    BY <1>4 DEF vars, partVars, countVars, mngVars
  <2>2. DoneParts' = DoneParts /\ FailedParts' = FailedParts
    BY <2>1 DEF DoneParts, FailedParts
  <2>3. Scanned' /\ Counted'
    BY <2>1, <2>2 DEF Scanned, Counted, Recovering, Control
  <2>. QED
    BY <2>1, <2>3 DEF Control, ControlType, StatesAgree, NotStarted, OneRecovers, Recovering,
         JoinsFailed, MergesDone, WaitedForAll
<1>. QED
  BY <1>1, <1>2, <1>3, <1>4 DEF Next

\* The counts of the manager agree with where its downloaders are, in every behaviour
\* (RangeManager.cpp 83-169).
THEOREM ControlHolds == Spec => []Control
<1>1. Init => Control
  BY NewControl DEF Init, New
<1>2. Control /\ [Next]_vars => Control'
  BY ControlStep
<1>. QED
  BY <1>1, <1>2, PTL DEF Spec

\* wait4Complete goes on only when every downloader has made its last callback, however
\* many ranges, faults and retries there are: no thread writes its part file while the
\* parts are composed, and recoverFailedTask starts none again afterwards.
THEOREM WaitsForAll == Spec => []WaitedForAll
<1>1. Control => WaitedForAll
  BY DEF Control
<1>. QED
  BY <1>1, ControlHolds, PTL

-----------------------------------------------------------------------------
(* The steps, as far as the bytes are concerned.                           *)

\* Ranges are numbers, none has a negative size, and a later one begins behind an earlier.
LEMMA RangeFacts ==
  /\ \A i \in Parts : First(i) \in Int /\ Last(i) \in Int /\ Size(i) \in Nat
  /\ \A i, j \in Parts : i < j => Last(i) < First(j)
<1>. DEFINE n == Count(Content)  avg == Content \div n  model == Content % n
<1>1. n \in {2, 3, 4, 6} /\ Content \in Nat
  BY CountValues, ConstantsAssumption
<1>2. avg \in Nat /\ model \in 0 .. n - 1
  BY <1>1, Division
<1>3. Parts = 1 .. n
  BY DEF Parts
<1>4. \A i \in 1 .. n : /\ First(i) = (i - 1) * avg
                        /\ Last(i) = i * avg - 1 + (IF i = n THEN model ELSE 0)
  BY DEF First, Last, RangeOf
<1>. HIDE DEF n, avg, model
<1>5. ASSUME NEW i \in 1 .. n
      PROVE  First(i) \in Int /\ Last(i) \in Int /\ Size(i) \in Nat
  <2>1. i * avg \in Int /\ (i - 1) * avg \in Int /\ i * avg = (i - 1) * avg + avg
    BY <1>1, <1>2
  <2>. QED
    BY <1>1, <1>2, <1>4, <2>1 DEF Size
<1>6. ASSUME NEW i \in 1 .. n, NEW j \in 1 .. n, i < j
      PROVE  Last(i) < First(j)
  <2>1. Last(i) = i * avg - 1 /\ First(j) = (j - 1) * avg
    BY <1>1, <1>2, <1>4, <1>6
  <2>2. i * avg <= (j - 1) * avg /\ i * avg \in Int /\ (j - 1) * avg \in Int
    <3>1. i \in 1 .. 6 /\ j \in 1 .. 6
      BY <1>1
    <3>. QED
      BY <1>2, <1>6, <3>1
  <2>. QED
    BY <2>1, <2>2
<1>. QED
  BY <1>3, <1>5, <1>6

\* A recorded fault spoils its part, and no fault is forgotten.
LEMMA SpoiledBy ==
  ASSUME NEW i, NEW why, spoiled' = spoiled \cup {<<i, why>>}
  PROVE  Spoiled(i)' /\ Suffered(i, why)' /\ spoiled \subseteq spoiled'
<1>1. <<i, why>> \in spoiled' /\ <<i, why>>[1] = i
  OBVIOUS
<1>. QED
  BY <1>1 DEF Spoiled, Suffered

\* A step that leaves the files and the transfers alone.
LEMMA DataFrame ==
  ASSUME Data, UNCHANGED <<file, begin, got, spoiled, composed>>,
         \A i \in Parts : /\ pc'[i] \in {"request", "recv"} => pc[i] \in {"request", "recv"}
                          /\ state'[i] = "done" => state[i] = "done"
                          /\ Composed(i) => Composed(i)'
                          /\ mpc' \in {"merge", "complete"} /\ Composed(i)' =>
                               Composed(i) /\ mpc \in {"merge", "complete"}
  PROVE  Data'
<1>1. DataType' /\ PartsInOrder'
  BY DEF Data, DataType, PartsInOrder, Suffered
<1>2. TransfersFollow'
  BY DEF Data, TransfersFollow, Wanted, Loose, Foreign, Suffered
<1>3. DoneIsWhole' /\ ComposedIsWhole'
  BY DEF Data, DoneIsWhole, ComposedIsWhole, Spoiled
<1>. QED
  BY <1>1, <1>2, <1>3 DEF Data

\* The part file is opened: the range begins where the file ends, unless it was moved before.
LEMMA OpenData ==
  ASSUME Control, Data, NEW i \in Parts, Open(i)
  PROVE  Data'
<1>. USE DEF Data, DataType
<1>1. /\ pc[i] = "open" /\ state[i] = "init" /\ UNCHANGED <<file, mpc, idx, composed>>
      /\ pc \in [Parts -> PartPC] /\ state \in [Parts -> {"init", "done", "failed"}]
  BY DEF Open, partVars, mngVars, Control, ControlType, StatesAgree
<1>2. /\ First(i) \in Int /\ Last(i) \in Int /\ Size(i) = Last(i) - First(i) + 1
      /\ Len(file[i]) \in Nat /\ (Len(file[i]) <= Size(i) \/ Foreign(i)) /\ begin[i] >= First(i)
      /\ begin[i] \in Int /\ Wanted(i) = Last(i) - begin[i] + 1
  <2>1. Len(file[i]) \in Nat
    OBVIOUS
  <2>. QED
    BY <2>1, RangeFacts DEF PartsInOrder, TransfersFollow, Size, Wanted, Foreign
<1>3. CASE Fault("open") /\ Go(i, "lost") /\ UNCHANGED partVars
  BY <1>1, <1>3, DataFrame DEF partVars, Go, Composed
<1>4. CASE /\ Len(file[i]) >= Wanted(i)
           /\ state' = [state EXCEPT ![i] = "done"]
           /\ Go(i, "onComplete")
           /\ spoiled' = spoiled \cup Skipping(i)
           /\ UNCHANGED <<file, begin, got, mError, faults>>
  <2>1. Len(file[i]) = Size(i) \/ <<i, "skipped">> \in Skipping(i) \/ Foreign(i)
    BY <1>2, <1>4 DEF Skipping
  <2>2. spoiled \subseteq spoiled'
    BY <1>4
  <2>3. PartsInOrder'
    BY <1>1, <2>2 DEF PartsInOrder, Suffered
  <2>4. TransfersFollow'
    BY <1>1, <1>4, <2>2 DEF TransfersFollow, Wanted, Loose, Foreign, Suffered, Go
  <2>5. DoneIsWhole'
    <3>1. Len(file[i]) = Size(i) \/ Spoiled(i)'
      BY <1>4, <2>1 DEF Spoiled, Foreign, Suffered
    <3>. QED
      BY <1>1, <1>4, <2>2, <3>1 DEF DoneIsWhole, Spoiled, Composed
  <2>6. ComposedIsWhole'
    BY <1>1, <2>2 DEF ComposedIsWhole, Spoiled, Composed
  <2>. QED
    BY <1>1, <1>4, <2>3, <2>4, <2>5, <2>6
<1>5. CASE /\ Len(file[i]) < Wanted(i)
           /\ begin' = [begin EXCEPT ![i] = Moved(i)]
           /\ got' = [got EXCEPT ![i] = 0]
           /\ Go(i, "request")
           /\ spoiled' = spoiled \cup Skipping(i)
           /\ UNCHANGED <<file, state, mError, faults>>
  <2>1. begin[i] = First(i) \/ <<i, "skipped">> \in Skipping(i)
    BY <1>2, <1>5 DEF Skipping
  <2>2. spoiled \subseteq spoiled'
    BY <1>5
  <2>3. PartsInOrder'
    BY <1>1, <2>2 DEF PartsInOrder, Suffered
  <2>4. begin'[i] = begin[i] + Len(file[i]) /\ got'[i] = 0 /\ pc' = [pc EXCEPT ![i] = "request"]
    BY <1>5 DEF Moved, Go
  <2>5. TransfersFollow'
    <3>1. \A k \in Parts \ {i} : begin'[k] = begin[k] /\ got'[k] = got[k] /\ pc'[k] = pc[k]
      BY <1>1, <1>5, <2>4
    <3>2. Loose(i)' \/ begin[i] = First(i)
      BY <1>5, <2>1 DEF Loose, Suffered
    <3>3. /\ begin'[i] >= First(i) /\ got'[i] <= Wanted(i)'
          /\ begin'[i] + got'[i] >= First(i) + Len(file'[i])
          /\ begin'[i] + got'[i] = First(i) + Len(file'[i]) \/ Loose(i)'
      BY <1>1, <1>2, <1>5, <2>4, <3>2 DEF Wanted
    <3>. QED
      BY <1>1, <2>2, <3>1, <3>3 DEF TransfersFollow, Wanted, Loose, Foreign, Suffered
  <2>6. DoneIsWhole' /\ ComposedIsWhole'
    BY <1>1, <1>5, <2>2 DEF DoneIsWhole, ComposedIsWhole, Spoiled, Composed
  <2>7. DataType'
    BY <1>1, <1>2, <1>5, <2>4
  <2>. QED
    BY <2>3, <2>5, <2>6, <2>7
<1>. QED
  BY <1>3, <1>4, <1>5 DEF Open

\* commonReader appends the byte that follows, or loses it.
LEMMA RecvData ==
  ASSUME Control, Data, NEW i \in Parts, Recv(i)
  PROVE  Data'
<1>. USE DEF Data, DataType
<1>. DEFINE b == begin[i] + got[i]
<1>1. /\ pc[i] = "recv" /\ got[i] < Wanted(i) /\ state[i] = "init"
      /\ got' = [got EXCEPT ![i] = got[i] + 1]
      /\ UNCHANGED <<begin, state, pc, mpc, idx, composed>>
  BY DEF Recv, mngVars, Control, StatesAgree
<1>2. /\ First(i) \in Int /\ Last(i) \in Int /\ Size(i) = Last(i) - First(i) + 1
      /\ begin[i] \in Int /\ got[i] \in Nat /\ Wanted(i) = Last(i) - begin[i] + 1
      /\ b >= First(i) + Len(file[i]) \/ Foreign(i)
      /\ begin[i] >= First(i)
      /\ b = First(i) + Len(file[i]) \/ Loose(i)
  BY <1>1, RangeFacts DEF TransfersFollow, Size, Wanted
<1>3. /\ file[i] \in Seq(Int) /\ Len(file[i]) \in Nat /\ DOMAIN file[i] = 1 .. Len(file[i])
  OBVIOUS
<1>4. \A k \in Parts \ {i} : got'[k] = got[k]
  BY <1>1
<1>5. begin'[i] = begin[i] /\ got'[i] = got[i] + 1 /\ Wanted(i)' = Last(i) - begin[i] + 1
  BY <1>1 DEF Wanted
<1>. HIDE DEF b
<1>6. CASE UNCHANGED file /\ spoiled' = spoiled \cup {<<i, "unwritten">>}
  <2>1. spoiled \subseteq spoiled' /\ Loose(i)'
    BY <1>6, SpoiledBy DEF Loose
  <2>2. PartsInOrder'
    BY <1>6, <2>1 DEF PartsInOrder, Suffered
  <2>3. /\ got'[i] <= Wanted(i)'
        /\ begin'[i] + got'[i] >= First(i) + Len(file'[i]) \/ Foreign(i)'
    <3>1. Foreign(i) => Foreign(i)'
      BY <2>1 DEF Foreign, Suffered
    <3>. QED
      BY <1>1, <1>2, <1>3, <1>5, <1>6, <3>1, SMTT(30) DEF b
  <2>4. TransfersFollow'
    BY <1>1, <1>4, <1>6, <2>1, <2>3 DEF TransfersFollow, Wanted, Loose, Foreign, Suffered
  <2>5. DoneIsWhole' /\ ComposedIsWhole'
    BY <1>1, <1>6, <2>1 DEF DoneIsWhole, ComposedIsWhole, Spoiled, Composed
  <2>6. DataType'
    BY <1>1, <1>2, <1>6
  <2>. QED
    BY <2>2, <2>4, <2>5, <2>6
<1>7. CASE file' = [file EXCEPT ![i] = Append(file[i], b)] /\ UNCHANGED spoiled
  <2>1. /\ file'[i] \in Seq(Int) /\ Len(file'[i]) = Len(file[i]) + 1
        /\ DOMAIN file'[i] = 1 .. Len(file[i]) + 1
        /\ \A k \in 1 .. Len(file[i]) : file'[i][k] = file[i][k]
        /\ file'[i][Len(file[i]) + 1] = b
    BY <1>2, <1>3, <1>7 DEF b
  <2>2. b \in First(i) .. Last(i) /\ (Len(file[i]) + 1 <= Size(i) \/ Foreign(i))
    BY <1>1, <1>2, <1>3 DEF b
  <2>3. \A k \in Parts \ {i} : file'[k] = file[k]
    BY <1>7
  <2>4. \A k \in Parts : /\ Foreign(k)' <=> Foreign(k)
                         /\ Loose(k)' <=> Loose(k)
    BY <1>7 DEF Foreign, Loose, Suffered
  <2>5. PartsInOrder'
    <3>1. ASSUME NEW k \in DOMAIN file'[i]
          PROVE  /\ \/ file'[i][k] \in First(i) .. Last(i)
                    \/ file'[i][k] = HeaderByte /\ Foreign(i)
                 /\ file'[i][k] = First(i) + k - 1 \/ Loose(i)
      <4>1. CASE k \in 1 .. Len(file[i])
        BY <1>3, <2>1, <4>1 DEF PartsInOrder, Foreign, Loose
      <4>2. CASE k = Len(file[i]) + 1
        BY <1>2, <1>3, <2>1, <2>2, <4>2
      <4>. QED
        BY <1>3, <2>1, <4>1, <4>2
    <3>2. Len(file'[i]) <= Size(i) \/ Foreign(i)
      BY <2>1, <2>2
    <3>3. ASSUME NEW j \in Parts \ {i}
          PROVE  /\ Len(file'[j]) <= Size(j) \/ Foreign(j)
                 /\ \A k \in DOMAIN file'[j] :
                     /\ \/ file'[j][k] \in First(j) .. Last(j)
                        \/ file'[j][k] = HeaderByte /\ Foreign(j)
                     /\ file'[j][k] = First(j) + k - 1 \/ Loose(j)
      BY <2>3 DEF PartsInOrder, Foreign, Loose
    <3>. QED
      BY <1>7, <3>1, <3>2, <3>3 DEF PartsInOrder, Foreign, Loose, Suffered
  <2>6. TransfersFollow'
    <3>1. /\ got'[i] <= Wanted(i)'
          /\ begin'[i] + got'[i] >= First(i) + Len(file'[i]) \/ Foreign(i)
          /\ begin'[i] + got'[i] = First(i) + Len(file'[i]) \/ Loose(i)
      <4>1. Len(file'[i]) = Len(file[i]) + 1 /\ Len(file[i]) \in Nat
        BY <1>3, <2>1
      <4>2. got[i] < Last(i) - begin[i] + 1
        BY <1>1, <1>2
      <4>3. begin'[i] + got'[i] = b + 1
        BY <1>2, <1>5 DEF b
      <4>4. b \in Int
        BY <1>2 DEF b
      <4>5. got'[i] <= Wanted(i)'
        BY <1>2, <1>5, <4>2
      <4>. QED
        BY <1>2, <4>1, <4>3, <4>4, <4>5
    <3>. QED
      BY <1>1, <1>4, <2>3, <2>4, <3>1 DEF TransfersFollow, Wanted
  <2>7. DoneIsWhole' /\ ComposedIsWhole'
    BY <1>1, <1>7, <2>3 DEF DoneIsWhole, ComposedIsWhole, Spoiled, Composed
  <2>8. DataType'
    BY <1>1, <1>2, <1>7, <2>1, <2>3, SMTT(30)
  <2>. QED
    BY <2>5, <2>6, <2>7, <2>8
<1>. QED
  BY <1>6, <1>7 DEF Recv, b

\* A file with k bytes of a header behind its own.
LEMMA HeaderAppended ==
  ASSUME NEW f \in Seq(Int), NEW k \in Nat
  PROVE  LET g == f \o HeaderOf(k)
         IN  /\ Len(f) \in Nat /\ DOMAIN f = 1 .. Len(f)
             /\ g \in Seq(Int) /\ Len(g) = Len(f) + k /\ DOMAIN g = 1 .. Len(f) + k
             /\ \A n \in 1 .. Len(f) : g[n] = f[n]
             /\ \A n \in Len(f) + 1 .. Len(f) + k : g[n] = HeaderByte
<1>. DEFINE h == HeaderOf(k)  g == f \o h
<1>1. h \in Seq(Int) /\ Len(h) = k /\ \A n \in 1 .. k : h[n] = HeaderByte
  BY DEF HeaderByte, HeaderOf
<1>. HIDE DEF h
<1>2. g \in Seq(Int) /\ Len(g) = Len(f) + Len(h)
  BY <1>1, ConcatProperties, Zenon
<1>3. \A n \in 1 .. Len(f) + Len(h) : g[n] = IF n <= Len(f) THEN f[n] ELSE h[n - Len(f)]
  BY <1>1, ConcatProperties, Zenon
<1>. HIDE DEF g
<1>4. \A n \in 1 .. Len(f) : g[n] = f[n]
  BY <1>1, <1>2, <1>3
<1>5. ASSUME NEW n \in Len(f) + 1 .. Len(f) + k
      PROVE  g[n] = HeaderByte
  <2>1. g[n] = h[n - Len(f)] /\ n - Len(f) \in 1 .. k
    BY <1>1, <1>2, <1>3
  <2>. QED
    BY <1>1, <2>1
<1>6. /\ Len(f) \in Nat /\ DOMAIN f = 1 .. Len(f)
      /\ Len(g) = Len(f) + k /\ DOMAIN g = 1 .. Len(f) + k
  BY <1>1, <1>2
<1>. QED
  BY <1>1, <1>2, <1>4, <1>5, <1>6, Zenon DEF g, h

\* An unfinished header leaves its bytes in the part file, and the part is marked.
LEMMA RequestData ==
  ASSUME Control, Data, NEW i \in Parts, Request(i)
  PROVE  Data'
<1>. USE DEF Data, DataType
<1>1. /\ pc[i] = "request" /\ UNCHANGED <<begin, got, mpc, idx, composed>>
      /\ pc \in [Parts -> PartPC] /\ state \in [Parts -> {"init", "done", "failed"}]
      /\ state[i] = "init"
  BY DEF Request, mngVars, Control, ControlType, StatesAgree
<1>2. CASE UNCHANGED <<file, spoiled>> /\ (Failed(i) \/ (Go(i, "recv") /\ UNCHANGED state))
  BY <1>1, <1>2, DataFrame DEF Failed, Go, Composed
<1>3. CASE HeaderCut(i)
  <2>1. PICK k \in 0 .. MaxHeader :
          LET foreign == IF k > 0 THEN {<<i, "foreign">>} ELSE {}
          IN  /\ file' = [file EXCEPT ![i] = @ \o HeaderOf(k)]
              /\ \/ Failed(i) /\ spoiled' = spoiled \cup foreign
                 \/ Done(i) /\ spoiled' = spoiled \cup foreign \cup {<<i, "closed">>}
    BY <1>3 DEF HeaderCut
  <2>2. spoiled \subseteq spoiled' /\ (Done(i) \/ Failed(i)) /\ (k > 0 => Foreign(i)')
    BY <2>1 DEF Foreign, Suffered
  <2>3. Done(i) => Spoiled(i)'
    <3>1. Done(i) => <<i, "closed">> \in spoiled'
      BY <1>1, <2>1 DEF Done, Failed
    <3>. QED
      BY <3>1 DEF Spoiled
  <2>4. k \in Nat
    BY ConstantsAssumption
  <2>5. file[i] \in Seq(Int)
    OBVIOUS
  <2>6. /\ file'[i] = file[i] \o HeaderOf(k)
        /\ \A j \in Parts \ {i} : file'[j] = file[j]
    BY <2>1
  <2>7. /\ Len(file[i]) \in Nat /\ DOMAIN file[i] = 1 .. Len(file[i])
        /\ file'[i] \in Seq(Int) /\ Len(file'[i]) = Len(file[i]) + k
        /\ DOMAIN file'[i] = 1 .. Len(file[i]) + k
        /\ \A n \in 1 .. Len(file[i]) : file'[i][n] = file[i][n]
        /\ \A n \in Len(file[i]) + 1 .. Len(file[i]) + k : file'[i][n] = HeaderByte
    <3>. DEFINE f == file[i]  g == file'[i]
    <3>1. f \in Seq(Int) /\ g = f \o HeaderOf(k)
      BY <2>5, <2>6
    <3>. HIDE DEF f, g
    <3>2. /\ Len(f) \in Nat /\ DOMAIN f = 1 .. Len(f)
          /\ g \in Seq(Int) /\ Len(g) = Len(f) + k /\ DOMAIN g = 1 .. Len(f) + k
          /\ \A n \in 1 .. Len(f) : g[n] = f[n]
          /\ \A n \in Len(f) + 1 .. Len(f) + k : g[n] = HeaderByte
      BY <2>4, <3>1, HeaderAppended
    <3>. QED
      BY <3>2, Zenon DEF f, g
  <2>8. DataType'
    BY <1>1, <2>1, <2>7
  <2>9. PartsInOrder'
    <3>1. ASSUME NEW n \in DOMAIN file'[i]
          PROVE  /\ \/ file'[i][n] \in First(i) .. Last(i)
                    \/ file'[i][n] = HeaderByte /\ Foreign(i)'
                 /\ file'[i][n] = First(i) + n - 1 \/ Loose(i)'
      <4>1. CASE n \in 1 .. Len(file[i])
        BY <2>2, <2>7, <4>1 DEF PartsInOrder, Foreign, Loose, Suffered
      <4>2. CASE n \in Len(file[i]) + 1 .. Len(file[i]) + k
        <5>1. k > 0
          BY <2>4, <2>7, <4>2
        <5>. QED
          BY <2>2, <2>7, <4>2, <5>1 DEF Foreign, Loose
      <4>. QED
        BY <2>4, <2>7, <4>1, <4>2
    <3>2. Len(file'[i]) <= Size(i) \/ Foreign(i)'
      <4>1. CASE k > 0
        BY <2>2, <4>1
      <4>2. CASE k = 0
        <5>1. Len(file'[i]) = Len(file[i])
          BY <2>7, <4>2
        <5>2. Len(file[i]) <= Size(i) \/ Foreign(i)
          BY DEF PartsInOrder, Foreign
        <5>3. Foreign(i) => Foreign(i)'
          BY <2>2 DEF Foreign, Suffered
        <5>. QED
          BY <5>1, <5>2, <5>3
      <4>. QED
        BY <2>4, <4>1, <4>2
    <3>3. ASSUME NEW j \in Parts \ {i}
          PROVE  /\ Len(file'[j]) <= Size(j) \/ Foreign(j)'
                 /\ \A n \in DOMAIN file'[j] :
                     /\ \/ file'[j][n] \in First(j) .. Last(j)
                        \/ file'[j][n] = HeaderByte /\ Foreign(j)'
                     /\ file'[j][n] = First(j) + n - 1 \/ Loose(j)'
      BY <2>2, <2>6 DEF PartsInOrder, Foreign, Loose, Suffered
    <3>. QED
      BY <3>1, <3>2, <3>3 DEF PartsInOrder, Foreign, Loose, Suffered
  <2>10. TransfersFollow'
    BY <1>1, <2>2, <2>6 DEF TransfersFollow, Wanted, Loose, Foreign, Suffered, Done, Failed, Go
  <2>11. DoneIsWhole'
    <3>1. \A j \in Parts \ {i} : state'[j] = state[j]
      BY <1>1, <2>2 DEF Done, Failed
    <3>2. state'[i] = "done" => Spoiled(i)'
      BY <1>1, <2>2, <2>3 DEF Failed
    <3>. QED
      BY <1>1, <2>2, <2>6, <3>1, <3>2 DEF DoneIsWhole, Spoiled, Composed
  <2>12. ComposedIsWhole'
    BY <1>1, <2>2 DEF ComposedIsWhole, Spoiled, Composed
  <2>. QED
    BY <2>8, <2>9, <2>10, <2>11, <2>12
<1>. QED
  BY <1>2, <1>3 DEF Request

\* A transfer that was not cut short has filled the part file.
LEMMA RecvEndData ==
  ASSUME Control, Data, NEW i \in Parts, RecvEnd(i)
  PROVE  Data'
<1>. USE DEF Data, DataType
<1>1. /\ pc[i] = "recv" /\ UNCHANGED <<file, begin, got, mpc, idx, composed>>
      /\ pc \in [Parts -> PartPC] /\ state \in [Parts -> {"init", "done", "failed"}]
  BY DEF RecvEnd, mngVars, Control, ControlType
<1>2. CASE Failed(i) /\ UNCHANGED spoiled
  BY <1>1, <1>2, DataFrame DEF Failed, Go, Composed
<1>3. CASE Done(i) /\ spoiled \subseteq spoiled' /\ (got[i] = Wanted(i) \/ Spoiled(i)')
  <2>1. Len(file[i]) = Size(i) \/ Spoiled(i)'
    <3>1. CASE Spoiled(i)'
      BY <3>1
    <3>2. CASE Loose(i)
      BY <1>3, <3>2 DEF Loose, Suffered, Spoiled
    <3>3. CASE got[i] = Wanted(i) /\ begin[i] + got[i] = First(i) + Len(file[i])
      <4>1. /\ begin[i] \in Int /\ Len(file[i]) \in Nat /\ First(i) \in Int /\ Last(i) \in Int
            /\ Wanted(i) = Last(i) - begin[i] + 1 /\ Size(i) = Last(i) - First(i) + 1
        BY RangeFacts DEF Wanted, Size
      <4>. QED
        BY <3>3, <4>1
    <3>. QED
      BY <1>1, <1>3, <3>1, <3>2, <3>3 DEF TransfersFollow
  <2>2. PartsInOrder'
    BY <1>1, <1>3 DEF PartsInOrder, Suffered
  <2>3. TransfersFollow'
    BY <1>1, <1>3 DEF TransfersFollow, Wanted, Loose, Foreign, Suffered, Done, Go
  <2>4. DoneIsWhole'
    BY <1>1, <1>3, <2>1 DEF DoneIsWhole, Spoiled, Composed, Done
  <2>5. ComposedIsWhole'
    BY <1>1, <1>3 DEF ComposedIsWhole, Spoiled, Composed
  <2>. QED
    BY <1>1, <2>2, <2>3, <2>4, <2>5
<1>4. \/ Failed(i) /\ UNCHANGED spoiled
      \/ Done(i) /\ UNCHANGED spoiled /\ got[i] = Wanted(i)
      \/ Done(i) /\ spoiled' = spoiled \cup {<<i, "closed">>}
  BY DEF RecvEnd
<1>5. spoiled' = spoiled \cup {<<i, "closed">>} => Spoiled(i)' /\ spoiled \subseteq spoiled'
  BY SpoiledBy
<1>. QED
  BY <1>2, <1>3, <1>4, <1>5

\* The parts are composed one after the other, and none is written over another.
LEMMA MergeData ==
  ASSUME Control, Data, Merge
  PROVE  Data'
<1>. USE DEF Data, DataType
<1>1. /\ mpc = "merge" /\ UNCHANGED <<begin, state, got, pc>>
      /\ \A i \in Parts : pc[i] \in {"leaving", "off"} /\ state[i] = "done"
      /\ idx \in Nat
  BY DEF Merge, Control, ControlType, WaitedForAll, MergesDone
<1>2. CASE /\ idx > Count(Content) /\ mpc' = "complete" /\ mMutex' = "free"
           /\ UNCHANGED <<composed, file, idx, spoiled, faults>>
  <2>1. \A i \in Parts : i < idx
    BY <1>1, <1>2, PartsFinite DEF Parts
  <2>. QED
    BY <1>1, <1>2, <2>1, DataFrame DEF Composed
<1>3. ASSUME idx \in Parts, file' = [file EXCEPT ![idx] = <<>>], idx' = idx + 1, mpc' = mpc,
             \/ composed' = Written(file[idx], idx) /\ UNCHANGED spoiled
             \/ /\ spoiled' = spoiled \cup {<<idx, "omitted">>}
                /\ \/ UNCHANGED composed
                   \/ \E k \in DOMAIN file[idx] :
                        composed' = Written(SeqsExt!RemoveAt(file[idx], k), idx)
      PROVE  Data'
  <2>1. spoiled \subseteq spoiled'
    BY <1>3
  <2>2. \A i \in Parts : Composed(i)' <=> Composed(i) \/ i = idx
    BY <1>1, <1>3, PartsFinite DEF Composed, Parts
  <2>3. ~Composed(idx)
    BY <1>1, <1>3 DEF Composed
  <2>4. Len(<<>>) = 0 /\ DOMAIN <<>> = {} /\ <<>> \in Seq(Int)
    OBVIOUS
  <2>5. DataType'
    BY <1>1, <1>3, <2>4
  <2>6. PartsInOrder'
    <3>1. file'[idx] = <<>> /\ \A i \in Parts \ {idx} : file'[i] = file[i]
      BY <1>3
    <3>2. Len(file'[idx]) <= Size(idx) /\ DOMAIN file'[idx] = {}
      BY <1>3, <2>4, <3>1, RangeFacts
    <3>3. \A i \in Parts, why \in {"skipped", "unwritten", "foreign"} :
            Suffered(i, why) => Suffered(i, why)'
      BY <2>1 DEF Suffered
    <3>. QED
      BY <3>1, <3>2, <3>3 DEF PartsInOrder
  <2>7. TransfersFollow'
    BY <1>1 DEF TransfersFollow, Loose
  <2>8. DoneIsWhole'
    BY <1>1, <1>3, <2>1, <2>2 DEF DoneIsWhole, Spoiled
  <2>9. ComposedIsWhole'
    <3>1. SUFFICES ASSUME NEW i \in Parts, Composed(i)', ~Spoiled(i)',
                          NEW p \in First(i) .. Last(i)
                   PROVE  p \in DOMAIN composed' /\ composed'[p] = p
      BY DEF ComposedIsWhole
    <3>2. ~Spoiled(i) /\ ~Loose(i)
      BY <2>1, <3>1 DEF Spoiled, Loose, Suffered
    <3>. DEFINE f == file[idx]
    <3>3. f \in Seq(Int) /\ Len(f) \in Nat /\ DOMAIN f = 1 .. Len(f)
      BY <1>3
    <3>4. CASE i = idx
      <4>1. composed' = Written(f, idx)
        BY <1>3, <3>1, <3>4, SpoiledBy
      <4>2. Len(f) = Size(i)
        BY <1>1, <2>3, <3>2, <3>4 DEF DoneIsWhole
      <4>3. \A k \in 1 .. Len(f) : f[k] = First(i) + k - 1
        BY <3>2, <3>3, <3>4 DEF PartsInOrder, Loose
      <4>. DEFINE k == p - First(i) + 1
      <4>4. k \in 1 .. Len(f) /\ p = First(i) + k - 1
        <5>1. First(i) \in Int /\ Last(i) \in Int
          BY RangeFacts
        <5>2. Len(f) = Last(i) - First(i) + 1
          BY <4>2 DEF Size
        <5>. HIDE DEF f
        <5>. QED
          BY <5>1, <5>2
      <4>5. p \in {First(idx) + q - 1 : q \in DOMAIN f} /\ k \in DOMAIN f
        BY <3>3, <3>4, <4>4
      <4>6. p \in DOMAIN composed' /\ composed'[p] = f[k]
        BY <3>4, <4>1, <4>5 DEF Written
      <4>. QED
        BY <4>3, <4>4, <4>6
    <3>5. CASE i # idx
      <4>1. i < idx /\ Composed(i)
        BY <1>1, <2>2, <3>1, <3>5 DEF Composed
      <4>2. p \in DOMAIN composed /\ composed[p] = p
        BY <1>1, <3>2, <4>1 DEF ComposedIsWhole
      <4>3. ASSUME NEW g \in Seq(Int), composed' = Written(g, idx)
            PROVE  p \in DOMAIN composed' /\ composed'[p] = p
        <5>1. DOMAIN g = 1 .. Len(g) /\ Len(g) \in Nat
          OBVIOUS
        <5>2. p - First(idx) + 1 \notin DOMAIN g
          BY <1>3, <4>1, <5>1, RangeFacts, SMTT(30)
        <5>. QED
          BY <4>2, <4>3, <5>2 DEF Written
      <4>4. ASSUME NEW k \in DOMAIN f PROVE SeqsExt!RemoveAt(f, k) \in Seq(Int)
        <5>1. f \in Seq(Int) /\ k \in 1 .. Len(f)
          BY <3>3
        <5>. HIDE DEF f
        <5>2. SubSeq(f, 1, k - 1) \in Seq(Int)
          BY <5>1
        <5>3. SubSeq(f, k + 1, Len(f)) \in Seq(Int)
          BY <5>1
        <5>. QED
          BY <5>2, <5>3 DEF SeqsExt!RemoveAt
      <4>. QED
        BY <1>3, <3>3, <4>2, <4>3, <4>4
    <3>. QED
      BY <3>4, <3>5
  <2>. QED
    BY <2>5, <2>6, <2>7, <2>8, <2>9
<1>. QED
  BY <1>2, <1>3 DEF Merge

\* The next RangeManager finds the part files as they were left.
LEMMA AgainData ==
  ASSUME Data, Again
  PROVE  Data'
<1>. USE DEF Data, DataType
<1>1. /\ file' = file /\ begin' = [i \in Parts |-> First(i)] /\ got' = [i \in Parts |-> 0]
      /\ pc' = [i \in Parts |-> "off"] /\ state' = [i \in Parts |-> "init"] /\ mpc' = "start"
      /\ spoiled' = {s \in spoiled : /\ s[2] \in {"skipped", "unwritten", "foreign"}
                                    /\ file[s[1]] # <<>>}
  BY DEF Again, Fresh
<1>2. DataType'
  BY <1>1, RangeFacts
<1>3. PartsInOrder'
  <2>1. ASSUME NEW i \in Parts, file[i] # <<>>, NEW why \in {"skipped", "unwritten", "foreign"},
               Suffered(i, why)
        PROVE  Suffered(i, why)'
    <3>1. <<i, why>>[1] = i /\ <<i, why>>[2] = why
      OBVIOUS
    <3>. QED
      BY <1>1, <2>1, <3>1 DEF Suffered
  <2>3. Len(<<>>) = 0 /\ DOMAIN <<>> = {} /\ \A i \in Parts : Size(i) \in Nat
    BY RangeFacts
  <2>4. ASSUME NEW i \in Parts, file[i] = <<>>
        PROVE  Len(file'[i]) <= Size(i) /\ DOMAIN file'[i] = {}
    BY <1>1, <2>3, <2>4
  <2>. QED
    BY <1>1, <2>1, <2>4 DEF PartsInOrder
<1>4. TransfersFollow' /\ DoneIsWhole' /\ ComposedIsWhole'
  BY <1>1, RangeFacts DEF TransfersFollow, DoneIsWhole, ComposedIsWhole
<1>. QED
  BY <1>2, <1>3, <1>4

\* No step breaks what is known of the part files.
LEMMA DataStep ==
  ASSUME Control, Data, [Next]_vars
  PROVE  Data'
<1>0. pc \in [Parts -> PartPC] /\ state \in [Parts -> {"init", "done", "failed"}]
  BY DEF Control, ControlType
<1>1. ASSUME NEW i \in Parts, Downloader(i)
      PROVE  Data'
  <2>1. CASE Open(i)     BY <2>1, OpenData
  <2>2. CASE Recv(i)     BY <2>2, RecvData
  <2>3. CASE RecvEnd(i)  BY <2>3, RecvEndData
  <2>4. CASE Request(i)  BY <2>4, RequestData
  <2>5. CASE Leave(i)
    BY <1>0, <2>5, DataFrame DEF Leave, Go, partVars, mngVars, Composed
  <2>7. CASE OnFailed(i)
    <3>1. mpc' = mpc \/ (mpc = "sleep" /\ mpc' = "woken")
      BY <2>7, Signals DEF OnFailed, Control, ControlType
    <3>. QED
      BY <1>0, <2>7, <3>1, DataFrame DEF OnFailed, Go, partVars, Composed
  <2>8. CASE OnComplete(i)
    <3>1. mpc' = mpc \/ (mpc = "sleep" /\ mpc' = "woken")
      BY <2>8, Signals DEF OnComplete, Control, ControlType
    <3>. QED
      BY <1>0, <2>8, <3>1, DataFrame DEF OnComplete, Go, partVars, Composed
  <2>9. CASE RecoverEnd(i)
    <3>1. mpc' = mpc \/ (mpc = "sleep" /\ mpc' = "woken")
      BY <2>9, Signals DEF RecoverEnd, Control, ControlType
    <3>. QED
      BY <1>0, <2>9, <3>1, DataFrame DEF RecoverEnd, Go, partVars, Composed
  <2>10. CASE Recover(i)
    BY <1>0, <2>10, DataFrame DEF Recover, Go, mngVars, Composed
  <2>11. CASE Rerun(i)
    BY <1>0, <2>11, DataFrame DEF Rerun, partVars, mngVars, Composed
  <2>. QED
    BY <1>1, <2>1, <2>2, <2>3, <2>4, <2>5, <2>7, <2>8, <2>9, <2>10, <2>11 DEF Downloader
<1>2. CASE Start
  BY <1>0, <1>2, DataFrame DEF Start, Go, partVars, Composed
<1>3. CASE Wait
  <2>1. /\ mpc \in {"lock", "woken"} /\ mpc' \in {"sleep", "merge", "failed"}
        /\ mpc' = "merge" => idx' = 1
        /\ UNCHANGED <<file, begin, state, got, spoiled, pc, composed>>
    BY <1>3 DEF Wait, partVars
  <2>2. \A i \in Parts : ~(i < 1)
    BY PartsFinite DEF Parts
  <2>. QED
    BY <2>1, <2>2, DataFrame DEF Composed
<1>4. CASE Merge   BY <1>4, MergeData
<1>5. CASE Delete
  BY <1>5, DataFrame DEF Delete, partVars, Composed
<1>6. CASE Again   BY <1>6, AgainData
<1>7. CASE UNCHANGED vars
  BY <1>7, DataFrame DEF vars, partVars, mngVars, Composed
<1>. QED
  BY <1>1, <1>2, <1>3, <1>4, <1>5, <1>6, <1>7 DEF Next, Manager

\* What is known of the part files holds in every behaviour, over failures, recoveries and
\* restarts (RangeDownloader.cpp 26-58).
THEOREM DataHolds == Spec => []Data
<1>1. Init => Data
  <2>1. Len(<<>>) = 0 /\ DOMAIN <<>> = {} /\ <<>> \in Seq(Int)
    OBVIOUS
  <2>. QED
    BY <2>1, RangeFacts DEF Init, Data, DataType, PartsInOrder, TransfersFollow, DoneIsWhole,
         ComposedIsWhole
<1>2. Control /\ Data /\ [Next]_vars => Data'
  BY DataStep
<1>. QED
  BY <1>1, <1>2, ControlHolds, PTL DEF Spec

\* However often the download is taken up again and whatever fails, a part file holds the
\* first bytes of its range in order, each once, unless one manager resumed the part twice,
\* a byte could not be written or a server closed within its header; only that last case
\* leaves a byte that is not of the range, or more bytes than the range has.
THEOREM PartsStayInOrder == Spec => []PartsInOrder
<1>1. Data => PartsInOrder
  BY DEF Data
<1>. QED
  BY <1>1, DataHolds, PTL

\* A download that is reported complete is complete, but for the parts that the history
\* variable names: the server closed within the header or the range, one manager resumed
\* the part twice, a write failed, or its file could not be opened again to compose it.
THEOREM CompleteMeansWhole == Spec => []CompleteIsWhole
<1>1. Data => CompleteIsWhole
  BY DEF Data, ComposedIsWhole, CompleteIsWhole, Composed, Spoiled
<1>. QED
  BY <1>1, DataHolds, PTL

=============================================================================
