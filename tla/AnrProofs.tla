------------------------------ MODULE AnrProofs ------------------------------
(***************************************************************************)
(* What the ANR checker guarantees for any scopes, deadlines, rounds,      *)
(* deviations and cores.                                                   *)
(***************************************************************************)
EXTENDS Anr, WellFoundedInduction, TLAPS

\* The order of the naturals as a relation.
Less == {p \in Nat \X Nat : p[1] < p[2]}

\* The least of a set of naturals: the deadline the checker sleeps for.
LEMMA MinOfNats ==
  ASSUME NEW S, S \subseteq Nat, S # {}
  PROVE  Min(S) \in S /\ \A y \in S : Min(S) <= y
<1>1. IsWellFoundedOn(Less, Nat)
  BY NatLessThanWellFounded DEF OpToRel, Less
<1>2. PICK x \in S : \A y \in S : ~(<<y, x>> \in Less)
  BY <1>1, WFMin
<1>3. ASSUME NEW y \in S PROVE x <= y
  <2>1. <<y, x>> \in Nat \X Nat /\ <<y, x>>[1] = y /\ <<y, x>>[2] = x
    OBVIOUS
  <2>2. ~(y < x)
    BY <1>2, <2>1 DEF Less
  <2>. QED
    BY <2>2
<1>. QED
  BY <1>3 DEF Min

\* The bounds of WaitTimeout.
LEMMA OfTwo ==
  ASSUME NEW a \in Int, NEW b \in Int
  PROVE  /\ Max({a, b}) = IF a >= b THEN a ELSE b
         /\ Min({a, b}) = IF a <= b THEN a ELSE b
<1>1. \E x \in {a, b} : \A y \in {a, b} : x >= y
  OBVIOUS
<1>2. \E x \in {a, b} : \A y \in {a, b} : x <= y
  OBVIOUS
<1>3. Max({a, b}) \in {a, b} /\ \A y \in {a, b} : Max({a, b}) >= y
  BY <1>1 DEF Max
<1>4. Min({a, b}) \in {a, b} /\ \A y \in {a, b} : Min({a, b}) <= y
  BY <1>2 DEF Min
<1>. QED
  BY <1>3, <1>4

------------------------------------------------------------------------------
Contents == [timeout : Nat, end_time : Nat, used_cpu_time : Nat, charged_from : Nat]

\* The values the variables take.
TypeOK ==
    /\ Registered \subseteq Ptrs
    /\ sg_check_heap \in [Registered -> Contents]
    /\ tpc \in {"round", "wait", "done"}
    /\ wait_timeout \in Nat \cup {Forever}
    /\ round \in [now : Nat, cpu : Nat]
    /\ now \in Nat /\ cpu \in Nat

\* The clocks do not run backwards.
RoundIsPast == round.cpu <= cpu

\* An object has been charged no more cpu time, what the round in progress will be charged
\* included, than the process has used since charged_from.
ChargedFairly ==
    \A p \in Registered :
        sg_check_heap[p].used_cpu_time + (IF tpc = "wait" THEN cpu - round.cpu ELSE 0)
            <= cpu - sg_check_heap[p].charged_from

Inductive == TypeOK /\ RoundIsPast /\ SleepCoversAll /\ ChargedFairly

\* No scope is registered and the checker has not begun its first round.
LEMMA InductiveInit == Init => Inductive
BY DEF Init, Inductive, TypeOK, RoundIsPast, SleepCoversAll, ChargedFairly, Registered, Contents,
       Forever

------------------------------------------------------------------------------
(* The steps.                                                              *)

\* A scope that begins or ends.
LEMMA ScopeStep ==
  ASSUME Inductive,
         \/ \E p \in Ptrs, t \in Timeouts : Register(p, t)
         \/ \E p \in Registered : Unregister(p)
  PROVE  Inductive'
<1>. USE DEF Inductive, TypeOK, RoundIsPast, SleepCoversAll, ChargedFairly, checkerVars
<1>1. ASSUME NEW p \in Ptrs, NEW t \in Timeouts, t > 0, Replace(p, Content(t)), NotifyAll,
             UNCHANGED <<sg_exit, checkerVars, now, cpu>>
      PROVE  Inductive'
  <2>1. Content(t) \in Contents
    BY <1>1, ConstantsAssumption DEF Content, Contents
  <2>2. /\ Registered' = Registered \cup {p}
        /\ \A q \in Registered' :
              sg_check_heap'[q] = IF q = p THEN Content(t) ELSE sg_check_heap[q]
    BY <1>1 DEF Replace, Registered
  <2>3. sg_check_heap' \in [Registered' -> Contents]
    BY <1>1, <2>1, <2>2 DEF Replace, Registered
  <2>4. (TypeOK /\ RoundIsPast /\ SleepCoversAll)'
    BY <1>1, <2>2, <2>3 DEF NotifyAll
  <2>5. Content(t).used_cpu_time + (IF tpc = "wait" THEN cpu - round.cpu ELSE 0)
          <= cpu - Content(t).charged_from
    BY DEF Content
  <2>6. ChargedFairly'
    BY <1>1, <2>2, <2>5
  <2>. QED
    BY <2>4, <2>6
<1>2. ASSUME NEW p, sg_check_heap' = Without(sg_check_heap, p),
             notified' = notified \/ NotifyAll,
             UNCHANGED <<sg_exit, checkerVars, now, cpu>>
      PROVE  Inductive'
  <2>1. /\ Registered' = Registered \ {p}
        /\ \A q \in Registered' : sg_check_heap'[q] = sg_check_heap[q]
        /\ sg_check_heap' \in [Registered' -> Contents]
    BY <1>2 DEF Without, Registered
  <2>. QED
    BY <1>2, <2>1 DEF NotifyAll
<1>3. ASSUME NEW p \in Ptrs, NEW t \in Timeouts, Register(p, t)
      PROVE  Inductive'
  BY <1>1, <1>2, <1>3 DEF Register
<1>4. ASSUME NEW p \in Registered, Unregister(p)
      PROVE  Inductive'
  BY <1>2, <1>4 DEF Unregister
<1>. QED
  BY <1>3, <1>4

\* The wait that a round begins ends no later than every deadline in the heap.
LEMMA WaitCovers ==
  ASSUME TypeOK
  PROVE  /\ WaitTimeout \in Nat \cup {Forever}
         /\ \A p \in Registered : /\ WaitTimeout # Forever
                                  /\ \/ now + WaitTimeout <= sg_check_heap[p].end_time
                                     \/ WaitTimeout = 0
<1>. DEFINE ends == {sg_check_heap[p].end_time : p \in Registered}
            left == Min(ends) - now
            bounded == Max({left, 0})
<1>1. CASE Registered = {}
  BY <1>1 DEF WaitTimeout
<1>2. CASE Registered # {}
  <2>. DEFINE shortest == Min({bounded, RoundSleep})
  <2>1. ends \subseteq Nat /\ ends # {}
    BY <1>2 DEF TypeOK, Contents
  <2>2. Min(ends) \in Nat /\ \A p \in Registered : Min(ends) <= sg_check_heap[p].end_time
    BY <2>1, MinOfNats
  <2>. HIDE DEF ends
  <2>3. left \in Int
    BY <2>2 DEF TypeOK
  <2>. HIDE DEF left
  <2>4. bounded = IF left >= 0 THEN left ELSE 0
    BY <2>3, OfTwo
  <2>. HIDE DEF bounded
  <2>5. bounded \in Nat
    BY <2>3, <2>4
  <2>6. shortest = IF bounded <= RoundSleep THEN bounded ELSE RoundSleep
    BY <2>5, OfTwo, ConstantsAssumption
  <2>. HIDE DEF shortest
  <2>7. WaitTimeout = shortest
    BY <1>2 DEF WaitTimeout, ends, left, bounded, shortest
  <2>8. WaitTimeout \in Nat /\ WaitTimeout <= bounded
    BY <2>5, <2>6, <2>7, ConstantsAssumption
  <2>9. ASSUME NEW p \in Registered
        PROVE  now + WaitTimeout <= sg_check_heap[p].end_time \/ WaitTimeout = 0
    <3>1. sg_check_heap[p].end_time \in Nat /\ now \in Nat
      BY DEF TypeOK, Contents
    <3>. QED
      BY <2>2, <2>4, <2>5, <2>8, <3>1 DEF left
  <2>. QED
    BY <2>9, <2>8 DEF Forever
<1>. QED
  BY <1>1, <1>2

\* The rounds of the checker.  What a check charges is what ChargedFairly has reserved.
LEMMA CheckerStep ==
  ASSUME Inductive, Checker
  PROVE  Inductive'
<1>. USE DEF Inductive, TypeOK, RoundIsPast, SleepCoversAll, ChargedFairly
<1>1. CASE Round
  <2>1. sg_check_heap' = sg_check_heap /\ Registered' = Registered
    BY <1>1 DEF Round, Registered
  <2>2. CASE tpc' = "done"
    BY <1>1, <2>1, <2>2 DEF Round
  <2>3. CASE tpc' # "done"
    BY <1>1, <2>1, <2>3, WaitCovers DEF Round
  <2>. QED
    BY <2>2, <2>3
<1>2. ASSUME NEW timeout \in BOOLEAN, Check(timeout)
      PROVE  Inductive'
  <2>. DEFINE used == [q \in Registered |-> sg_check_heap[q].used_cpu_time + cpu - round.cpu]
              charged == [q \in Registered |->
                            [sg_check_heap[q] EXCEPT !.used_cpu_time = used[q]]]
  <2>1. /\ tpc = "wait" /\ tpc' = "round"
        /\ UNCHANGED <<wait_timeout, round, now, cpu>>
    BY <1>2 DEF Check
  <2>2. \A q \in Registered :
           /\ charged[q] \in Contents
           /\ charged[q].used_cpu_time = sg_check_heap[q].used_cpu_time + cpu - round.cpu
           /\ charged[q].end_time = sg_check_heap[q].end_time
           /\ charged[q].charged_from = sg_check_heap[q].charged_from
    BY DEF Contents
  <2>. HIDE DEF used
  <2>3. \/ Registered = {} /\ sg_check_heap' = sg_check_heap
        \/ sg_check_heap' = charged
        \/ \E p \in Registered : sg_check_heap' = Without(charged, p)
    BY <1>2 DEF Check, Front, used
  <2>4. DOMAIN charged = Registered
    OBVIOUS
  <2>. HIDE DEF charged
  <2>5. /\ Registered' \subseteq Registered
        /\ sg_check_heap' \in [Registered' -> Contents]
        /\ \A q \in Registered' : sg_check_heap'[q] = charged[q]
    <3>1. CASE Registered = {} /\ sg_check_heap' = sg_check_heap
      BY <3>1 DEF Registered
    <3>2. CASE sg_check_heap' = charged
      <4>1. Registered' = Registered
        BY <2>4, <3>2 DEF Registered
      <4>2. charged \in [Registered -> Contents]
        BY <2>2 DEF charged
      <4>. QED
        BY <3>2, <4>1, <4>2
    <3>3. ASSUME NEW p \in Registered, sg_check_heap' = Without(charged, p)
          PROVE  /\ Registered' \subseteq Registered
                 /\ sg_check_heap' \in [Registered' -> Contents]
                 /\ \A q \in Registered' : sg_check_heap'[q] = charged[q]
      <4>1. Registered' = Registered \ {p}
        BY <2>4, <3>3 DEF Registered, Without
      <4>. QED
        BY <2>2, <2>4, <3>3, <4>1 DEF Without
    <3>. QED
      BY <2>3, <3>1, <3>2, <3>3
  <2>6. (TypeOK /\ RoundIsPast /\ SleepCoversAll)'
    BY <2>1, <2>5
  <2>7. ASSUME NEW q \in Registered'
        PROVE  sg_check_heap'[q].used_cpu_time + 0 <= cpu' - sg_check_heap'[q].charged_from
    <3>1. q \in Registered /\ sg_check_heap[q] \in Contents
      BY <2>5
    <3>. QED
      BY <2>1, <2>2, <2>5, <3>1 DEF Contents
  <2>. QED
    BY <2>1, <2>6, <2>7
<1>. QED
  BY <1>1, <1>2 DEF Checker

\* No step of a scope, of the checker or of a clock breaks the invariant.
LEMMA InductiveStep == Inductive /\ [Next]_vars => Inductive'
<1>. SUFFICES ASSUME Inductive, [Next]_vars PROVE Inductive'
  OBVIOUS
<1>1. CASE Exit
  BY <1>1 DEF Exit, NotifyAll, Inductive, TypeOK, RoundIsPast, SleepCoversAll, ChargedFairly,
              Registered, checkerVars
<1>2. CASE Tick
  <2>1. now' \in Nat /\ cpu' \in Nat /\ cpu <= cpu'
    BY <1>2, ConstantsAssumption DEF Tick, Inductive, TypeOK
  <2>2. UNCHANGED <<sg_check_heap, checkerVars, notified, Registered>>
    BY <1>2 DEF Tick, Registered
  <2>3. (TypeOK /\ RoundIsPast /\ SleepCoversAll)'
    BY <2>1, <2>2 DEF Inductive, TypeOK, RoundIsPast, SleepCoversAll, checkerVars
  <2>4. \A p \in Registered : sg_check_heap[p] \in Contents
    BY DEF Inductive, TypeOK
  <2>5. ChargedFairly'
    BY <2>1, <2>2, <2>4 DEF Inductive, TypeOK, ChargedFairly, Contents, checkerVars
  <2>. QED
    BY <2>3, <2>5 DEF Inductive
<1>3. CASE UNCHANGED vars
  BY <1>3 DEF vars, Inductive, TypeOK, RoundIsPast, SleepCoversAll, ChargedFairly, Registered,
              checkerVars
<1>. QED
  BY <1>1, <1>3, <1>2, CheckerStep, ScopeStep DEF Next

\* The invariant holds in every behaviour, whoever registers and unregisters during a round of
\* the checker (anr.cc 53-197).
THEOREM InductiveHolds == Spec => []Inductive
BY InductiveInit, InductiveStep, PTL DEF Spec

\* Whatever scopes begin and end while the checker sleeps, it is awake or notified before
\* every deadline that is registered (anr.cc 83, 102-120).
THEOREM NeverOversleeps == Spec => []SleepCoversAll
BY InductiveHolds, PTL DEF Inductive

------------------------------------------------------------------------------
(* The alarms.                                                             *)

\* An alarm is for a scope that is overdue by the clock or by the cpu time it was charged.
LEMMA AlarmStep ==
  ASSUME Inductive, NEW p \in Ptrs, Alarm(p)
  PROVE  \/ sg_check_heap[p].end_time <= now
         \/ iOS_style' /\ sg_check_heap[p].timeout <= cpu - sg_check_heap[p].charged_from
<1>1. p \in Registered /\ p \notin Registered' /\ sg_check_heap[p] \in Contents
  BY DEF Alarm, Registered, Inductive, TypeOK
<1>2. ~Round
  BY <1>1 DEF Round, Registered
<1>3. PICK timeout \in BOOLEAN : Check(timeout)
  BY <1>2 DEF Alarm, Checker
<1>. DEFINE used == [q \in Registered |-> sg_check_heap[q].used_cpu_time + cpu - round.cpu]
            charged == [q \in Registered |->
                          [sg_check_heap[q] EXCEPT !.used_cpu_time = used[q]]]
<1>4. PICK f \in Front :
         sg_check_heap' = IF Hit(f, used, iOS_style') THEN Without(charged, f) ELSE charged
  BY <1>1, <1>3 DEF Check
<1>5. DOMAIN charged = Registered
  OBVIOUS
<1>6. used[p] = sg_check_heap[p].used_cpu_time + cpu - round.cpu
  BY <1>1
<1>. HIDE DEF used, charged
<1>7. f = p /\ Hit(p, used, iOS_style')
  BY <1>1, <1>4, <1>5 DEF Without, Registered
<1>8. CASE ~iOS_style'
  BY <1>7, <1>8 DEF Hit
<1>9. CASE iOS_style'
  <2>1. sg_check_heap[p].timeout <= used[p]
    BY <1>7, <1>9 DEF Hit
  <2>2. tpc = "wait"
    BY <1>3 DEF Check
  <2>3. sg_check_heap[p].used_cpu_time + (cpu - round.cpu)
          <= cpu - sg_check_heap[p].charged_from
    BY <1>1, <2>2 DEF Inductive, ChargedFairly
  <2>. QED
    BY <1>1, <1>6, <1>9, <2>1, <2>3 DEF Contents, Inductive, TypeOK
<1>. QED
  BY <1>8, <1>9

\* On any number of cores and for every pattern of registrations during the waits of the
\* thread, an alarm that comes before the deadline has been paid for with the timeout in cpu
\* time since the registration, or since the beginning of the wait it fell into (anr.cc 77,
\* 96, 123, 131-142).
THEOREM EarlyAlarmsAreCharged == Spec => EarlyAlarmIsCharged
<1>1. Inductive /\ [Next]_vars =>
        [\A p \in Ptrs : Alarm(p) =>
            \/ sg_check_heap[p].end_time <= now
            \/ iOS_style' /\ sg_check_heap[p].timeout
                               <= cpu - sg_check_heap[p].charged_from]_vars
  BY AlarmStep
<1>. QED
  BY <1>1, InductiveHolds, PTL DEF Spec, EarlyAlarmIsCharged
==============================================================================
