--------------------------------- MODULE Anr ---------------------------------
(***************************************************************************)
(* The ANR checker (utils/anr.cc): a scope_anr object registers a deadline *)
(* for the code it surrounds (every call of a message handler,             *)
(* msgqueue.h 774) and takes it back in its destructor; one thread sleeps  *)
(* until the first deadline and raises an alarm when it passes.            *)
(*                                                                         *)
(* Everything happens under sg_mutex, which the thread gives up only in    *)
(* sg_cond.wait and between two rounds.  sg_check_heap is a function from  *)
(* the registered objects to their contents: its front is any of those     *)
(* with the least end_time.                                                *)
(*                                                                         *)
(* Time.  now is clock_app_monotonic and cpu is clock(), the time all      *)
(* threads of the process have computed: up to Cores per tick, and nothing *)
(* while the process is suspended.  A wait that has timed out may go on    *)
(* late: when it is later than kTimeDeviation the thread concludes that    *)
(* the process was suspended and measures in cpu time from then on.        *)
(***************************************************************************)
EXTENDS Integers, FiniteSetsExt

CONSTANTS Ptrs,        \* the scope_anr objects
          Timeouts,    \* the arguments of anr()
          Cores,       \* cpu time per tick at most
          RoundSleep,  \* kEachRoundSleepTime
          Deviation,   \* kTimeDeviation
          MaxNow       \* bound: the clock

ASSUME ConstantsAssumption ==
    /\ Timeouts \subseteq Int /\ Cores \in Nat
    /\ RoundSleep \in Nat \ {0} /\ Deviation \in Nat /\ MaxNow \in Nat

VARIABLES
    sg_check_heap, \* registered object -> [timeout, end_time, used_cpu_time, charged_from]
    sg_exit,
    iOS_style,
    tpc,           \* the thread: "round", "wait" in sg_cond.wait, or "done"
    wait_timeout,  \* its argument; Forever without
    round,         \* the clocks when the round began
    notified,      \* sg_cond was notified since the wait began
    now, cpu

checkerVars == <<iOS_style, tpc, wait_timeout, round>>
vars == <<sg_check_heap, sg_exit, checkerVars, notified, now, cpu>>

Forever == -1
Registered == DOMAIN sg_check_heap

Init ==
    /\ sg_check_heap = [p \in {} |-> 0] /\ sg_exit = FALSE /\ iOS_style = FALSE
    /\ tpc = "round" /\ wait_timeout = 0 /\ round = [now |-> 0, cpu |-> 0]
    /\ notified = FALSE /\ now = 0 /\ cpu = 0

Without(heap, p) == [q \in DOMAIN heap \ {p} |-> heap[q]]

\* front(): nothing is due earlier.
Front == {p \in Registered :
            \A q \in Registered : sg_check_heap[p].end_time <= sg_check_heap[q].end_time}

\* sg_cond.notifyAll
NotifyAll == notified' = (tpc = "wait")

------------------------------------------------------------------------------
(* The scopes, under sg_mutex.                                             *)

\* charged_from is history: what clock() showed when the round began that will be charged
\* to the object first, before the registration when the thread is in its wait.
Content(t) ==
    [timeout |-> t, end_time |-> now + t, used_cpu_time |-> 0,
     charged_from |-> IF tpc = "wait" THEN round.cpu ELSE cpu]

\* Replaces what the object p has registered.
Replace(p, content) ==
    sg_check_heap' = [q \in Registered \cup {p} |->
                        IF q = p THEN content ELSE sg_check_heap[q]]

\* Mutant: only the first registration wakes the thread.
RegisterQuiet(p, t) ==
    /\ \/ /\ t > 0 /\ Replace(p, Content(t))
          /\ IF Registered = {} THEN NotifyAll ELSE UNCHANGED notified
       \/ /\ t <= 0 /\ sg_check_heap' = Without(sg_check_heap, p)
          /\ UNCHANGED notified
    /\ UNCHANGED <<sg_exit, checkerVars, now, cpu>>

\* Mutant: an object that registers again keeps the cpu time of its first deadline.
RegisterKeepsCpu(p, t) ==
    /\ \/ /\ t > 0
          /\ Replace(p, IF p \in Registered
                        THEN [Content(t) EXCEPT !.used_cpu_time = sg_check_heap[p].used_cpu_time]
                        ELSE Content(t))
          /\ NotifyAll
       \/ /\ t <= 0 /\ sg_check_heap' = Without(sg_check_heap, p)
          /\ UNCHANGED notified
    /\ UNCHANGED <<sg_exit, checkerVars, now, cpu>>

\* __register_anr: a timeout that is not positive only removes, and notifies nobody.
Register(p, t) ==
    /\ \/ t > 0 /\ Replace(p, Content(t)) /\ NotifyAll
       \/ /\ t <= 0 /\ sg_check_heap' = Without(sg_check_heap, p)
          /\ UNCHANGED notified
    /\ UNCHANGED <<sg_exit, checkerVars, now, cpu>>

\* __unregister_anr, by the destructor of the scope.
Unregister(p) ==
    /\ sg_check_heap' = Without(sg_check_heap, p)
    /\ NotifyAll
    /\ UNCHANGED <<sg_exit, checkerVars, now, cpu>>

\* ~startup, up to its join.
Exit ==
    /\ ~sg_exit /\ sg_exit' = TRUE
    /\ NotifyAll
    /\ UNCHANGED <<sg_check_heap, checkerVars, now, cpu>>

------------------------------------------------------------------------------
(* __anr_checker_thread.                                                   *)

\* Until the first deadline, but no longer than a round.
WaitTimeout ==
    IF Registered = {} THEN Forever
    ELSE LET left == Min({sg_check_heap[p].end_time : p \in Registered}) - now
         IN  Min({Max({left, 0}), RoundSleep})

\* A round up to sg_cond.wait.
Round ==
    /\ tpc = "round"
    /\ IF sg_exit THEN tpc' = "done" /\ UNCHANGED <<wait_timeout, round>>
       ELSE /\ tpc' = "wait"
            /\ round' = [now |-> now, cpu |-> cpu]
            /\ wait_timeout' = WaitTimeout
    /\ notified' = FALSE
    /\ UNCHANGED <<sg_check_heap, sg_exit, iOS_style, now, cpu>>

TimedOut == wait_timeout # Forever /\ now >= round.now + wait_timeout

\* The process seems to have been suspended.  (The warning reads front(), also when the
\* heap has become empty meanwhile.)
Overslept == wait_timeout > 0 /\ now - round.now > wait_timeout + Deviation

\* What front() has to show for an alarm, with the cpu time of this round added.
Hit(p, used, ios) ==
    IF ios THEN sg_check_heap[p].timeout <= used[p]
    ELSE sg_check_heap[p].end_time <= now

\* Mutant: only a wait that has timed out looks for an alarm.
CheckOnTimeout(timeout) ==
    /\ tpc = "wait" /\ IF timeout THEN TimedOut ELSE notified
    /\ tpc' = "round"
    /\ iOS_style' = (iOS_style \/ (timeout /\ Overslept))
    /\ LET used == [q \in Registered |-> sg_check_heap[q].used_cpu_time + cpu - round.cpu]
           charged == [q \in Registered |-> [sg_check_heap[q] EXCEPT !.used_cpu_time = used[q]]]
       IN  \/ /\ Registered = {}
              /\ UNCHANGED sg_check_heap
           \/ \E p \in Front :
                sg_check_heap' = IF timeout /\ wait_timeout > 0 /\ Hit(p, used, iOS_style')
                                 THEN Without(charged, p) ELSE charged
    /\ UNCHANGED <<sg_exit, wait_timeout, round, notified, now, cpu>>

\* From the return of sg_cond.wait to the end of the round.
Check(timeout) ==
    /\ tpc = "wait" /\ IF timeout THEN TimedOut ELSE notified
    /\ tpc' = "round"
    /\ iOS_style' = (iOS_style \/ (timeout /\ Overslept))
    /\ LET used == [q \in Registered |-> sg_check_heap[q].used_cpu_time + cpu - round.cpu]
           charged == [q \in Registered |-> [sg_check_heap[q] EXCEPT !.used_cpu_time = used[q]]]
       IN  \/ /\ Registered = {}
              /\ UNCHANGED sg_check_heap
           \/ \E p \in Front :
                sg_check_heap' = IF Hit(p, used, iOS_style') THEN Without(charged, p) ELSE charged
    /\ UNCHANGED <<sg_exit, wait_timeout, round, notified, now, cpu>>

------------------------------------------------------------------------------
Tick ==
    /\ now < MaxNow
    /\ now' = now + 1
    /\ \E c \in 0 .. Cores : cpu' = cpu + c
    /\ UNCHANGED <<sg_check_heap, sg_exit, checkerVars, notified>>

Checker == Round \/ Check(TRUE) \/ Check(FALSE)

Next ==
    \/ Checker
    \/ \E p \in Ptrs, t \in Timeouts : Register(p, t)
    \/ \E p \in Registered : Unregister(p)
    \/ Exit
    \/ Tick

\* The thread is scheduled and time passes.
Spec == Init /\ [][Next]_vars /\ WF_vars(Checker) /\ WF_vars(Tick)

------------------------------------------------------------------------------
(* Properties.                                                             *)

\* The thread never sleeps past a deadline: the wait it is in ends no later than every
\* deadline registered since, unless it has been notified (anr.cc 83, 102-120; a
\* registration that only removes notifies nobody and needs not to).
SleepCoversAll ==
    tpc = "wait" /\ ~notified =>
        \A p \in Registered :
            /\ wait_timeout # Forever
            /\ \/ round.now + wait_timeout <= sg_check_heap[p].end_time
               \/ wait_timeout = 0

Overdue(p) == p \in Registered /\ sg_check_heap[p].end_time <= now

\* A scope whose deadline has passed is reported or ends, whatever other scopes begin and
\* end meanwhile, until the program exits; but not once the process seems to have been
\* suspended, because from then on an alarm needs cpu time, which a deadlock does not use
\* (anr.cc 136-148).
OverdueIsReported == \A p \in Ptrs : Overdue(p) ~> (~Overdue(p) \/ iOS_style \/ sg_exit)

\* The thread raises an alarm for p in this step.
Alarm(p) == Checker /\ p \in Registered /\ p \notin DOMAIN sg_check_heap'

\* An alarm before the deadline is paid for: the process has computed for the scope's timeout
\* since the scope was registered or, when it was registered while the thread was waiting,
\* since that wait began; no cpu time is charged twice or carried over from an earlier
\* deadline of the object (anr.cc 77, 96, 123, 131-137).  The assertion of the thread ("old
\* logic is strict than new logic", anr.cc 139-142) says that no alarm is early at all, and
\* fails in both cases: on two cores cpu time runs faster than the clock, and cpu time used
\* before the registration counts too.
EarlyAlarmIsCharged ==
    [][\A p \in Ptrs : Alarm(p) =>
          \/ sg_check_heap[p].end_time <= now
          \/ iOS_style' /\ sg_check_heap[p].timeout <= cpu - sg_check_heap[p].charged_from]_vars

==============================================================================
