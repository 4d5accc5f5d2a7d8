----------------------------- MODULE MultiConnect -----------------------------
(***************************************************************************)
(* MultiConnect::TryConnect (network/complexconnect.cc): connect to a list *)
(* of addresses, starting a further attempt every interval_ (or every      *)
(* error_interval_ after a failure), at most max_connect_ at a time, and   *)
(* return the first socket that is connected and verified.                 *)
(*                                                                         *)
(* One thread runs the loop.  Its turns are the actions Turn (the timeout  *)
(* computation, the start of an attempt and PreSelect), Select, Attempt    *)
(* (AfterSelect of one machine and what follows for it) and EndOfTurn.     *)
(* Time passes only inside Select, in whole units.                         *)
(***************************************************************************)
EXTENDS TcpClientFSM, SocketSelectBreaker

CONSTANTS N,            \* _vecaddr.size()
          Verify,       \* the indices that ShouldVerify wants verified
          Interval, ErrorInterval, MaxConnect,
          MaxInstant,   \* bound: polls in a row that return within one unit
          MaxAgain      \* bound: send or recv that find nothing to do after all

ASSUME RaceAssumption ==
    /\ N \in Nat /\ Verify \subseteq 0 .. N - 1
    /\ Interval \in Nat /\ ErrorInterval \in Nat /\ MaxConnect \in Nat \ {0}
    /\ MaxInstant \in Nat \ {0} /\ MaxAgain \in Nat

Indices == 0 .. N - 1

VARIABLES
    pc,                 \* "turn", "select", "after", "close", "done"
    fsm, alive,         \* vecsocketfsm: the machines, and those not deleted
    index, lasterror, laststart, retsocket,
    now, timeout,
    events,             \* what poll reported for each machine
    cur,                \* the machine AfterSelect is at
    fate,               \* history: "none", "open", "closed", "closed twice" or "returned"
    until,              \* history: when the next attempt was due as poll was called, or -1
    instants, agains

loopVars == <<index, lasterror, laststart, retsocket>>
vars == <<breakerVars, pc, fsm, alive, loopVars, now, timeout, events, cur, fate, until,
          instants, agains>>

\* An attempt runs while its machine has a socket (__isconnecting).
Running(machines) == Cardinality({i \in alive : machines[i].sock_})

\* curtime starts at the larger interval, so that laststart_connecttime is 0.
Init == /\ BreakerInit
        /\ pc = IF N = 0 THEN "done" ELSE "turn"
        /\ fsm = [i \in Indices |-> NewFSM(i \in Verify)] /\ alive = Indices
        /\ index = 0 /\ lasterror = FALSE /\ laststart = 0 /\ retsocket = -1
        /\ now = LargerOf(Interval, ErrorInterval) /\ timeout = 0
        /\ events = [i \in Indices |-> {}] /\ cur = 0
        /\ fate = [i \in Indices |-> "none"] /\ until = -1
        /\ instants = 0 /\ agains = 0

\* next_connect_timeout.
NextConnect == (IF lasterror THEN ErrorInterval ELSE Interval) - (now - laststart)

\* An attempt is started in this turn.
MayStart == index < N /\ NextConnect <= 0 /\ Running(fsm) < MaxConnect

\* Mutant: the wait for the next attempt is not limited by its interval.
WaitIgnoresNext == Timeout

\* The longest that poll may take as far as the next attempt is concerned.
WaitForNext ==
    IF MayStart THEN IF Running(fsm) + 1 < MaxConnect THEN SmallerOf(Timeout, Interval) ELSE Timeout
    ELSE IF index < N /\ Running(fsm) < MaxConnect THEN SmallerOf(Timeout, NextConnect)
    ELSE Timeout

\* The smallest of t and the time left to every machine that has been started.
WithDeadlines(machines, t) ==
    LET left == {t} \cup {TimeLeft(machines[i], now, t) : i \in alive \cap 0 .. index - 1}
                    \cup (IF MayStart THEN {TimeLeft(machines[index], now, t)} ELSE {})
    IN  LargerOf(0, CHOOSE m \in left : \A x \in left : m <= x)

Opened(machines) == [i \in Indices |-> IF machines[i].sock_ /\ fate[i] = "none" THEN "open" ELSE fate[i]]

\* The head of the loop, up to the call of poll.  Only the machine that is
\* started in this turn has a PreSelect that changes it.
Turn ==
    /\ pc = "turn"
    /\ IF MayStart THEN index' = index + 1 /\ laststart' = now /\ lasterror' = FALSE
                   ELSE UNCHANGED <<index, laststart, lasterror>>
    /\ \E f \in IF MayStart THEN PreSelect(fsm[index], now) ELSE {fsm[0]} :
         LET machines == IF MayStart THEN [fsm EXCEPT ![index] = f] ELSE fsm
         IN  /\ fsm' = machines
             /\ fate' = Opened(machines)
             /\ timeout' = WithDeadlines(machines, WaitForNext)
             /\ until' = IF index' < N /\ Running(machines) < MaxConnect
                         THEN laststart' + (IF lasterror' THEN ErrorInterval ELSE Interval)
                         ELSE -1
    /\ pc' = "select"
    /\ UNCHANGED <<breakerVars, alive, retsocket, now, events, cur, instants, agains>>

\* What poll may report for a machine: nothing, an error, or what it asked for.
Reports(f) == (IF f.sock_ THEN {{"err"}} ELSE {}) \cup SUBSET Interest(f)

\* poll() with its timeout.  A break ends the loop and stays in the pipe; so
\* does a failure of poll.
Select ==
    /\ pc = "select"
    /\ \E d \in 0 .. timeout :
         /\ now' = now + d
         /\ instants' = IF d = 0 /\ timeout > 0 THEN instants + 1 ELSE 0
         /\ instants' <= MaxInstant
         /\ \/ /\ ~BreakReadable
               /\ \E ev \in [Indices -> SUBSET {"err", "in", "out"}] :
                    /\ \A i \in Indices :
                         ev[i] \in IF i \in alive /\ i < index THEN Reports(fsm[i]) ELSE {{}}
                    /\ d < timeout => \E i \in Indices : ev[i] # {}
                    /\ events' = ev
               /\ pc' = "after" /\ cur' = 0
            \/ /\ BreakReadable \/ d = 0
               /\ pc' = "close" /\ UNCHANGED <<events, cur>>
    /\ UNCHANGED <<breakerVars, fsm, alive, loopVars, timeout, fate, until, agains>>

Closed(i) == [fate EXCEPT ![i] = CASE @ = "open" -> "closed"
                                   [] @ \in {"closed", "returned"} -> "closed twice"
                                   [] OTHER -> @]

\* Close() and delete: the destructor closes what is still open.
Delete(i, f) ==
    /\ fsm' = [fsm EXCEPT ![i] = Close(Close(f, TRUE), FALSE)]
    /\ alive' = alive \ {i}
    /\ fate' = IF f.sock_ THEN Closed(i) ELSE fate

\* The winner: its socket is taken from the machine before it is deleted.
Return(i, f) ==
    /\ retsocket' = i
    /\ fsm' = [fsm EXCEPT ![i] = [f EXCEPT !.sock_ = FALSE]]
    /\ alive' = alive \ {i}
    /\ fate' = [fate EXCEPT ![i] = "returned"]

\* Mutant: a connection counts although it is not verified.
UnverifiedWins(f) == f.status_ = "ReadWrite" /\ f.check # "Fail"

Wins(f) == f.status_ = "ReadWrite" /\ f.check = "OK"
Fails(f) == f.status_ = "End" \/ (f.status_ = "ReadWrite" /\ f.check = "Fail")

\* AfterSelect of machine cur, and its removal if it has failed or has won; the
\* first winner ends the loop over the machines.
Attempt ==
    /\ pc = "after" /\ cur < index
    /\ IF cur \notin alive
       THEN cur' = cur + 1 /\ UNCHANGED <<fsm, alive, fate, retsocket, lasterror, agains>>
       ELSE \E again \in BOOLEAN :
              /\ agains' = IF again THEN agains + 1 ELSE agains
              /\ agains' <= MaxAgain
              /\ again => events[cur] \cap {"in", "out"} # {}
              /\ \E f \in AfterSelect(fsm[cur], events[cur], now, again) :
                   \/ /\ Fails(f)
                      /\ Delete(cur, f)
                      /\ lasterror' = TRUE /\ cur' = cur + 1 /\ UNCHANGED retsocket
                   \/ /\ Wins(f)
                      /\ Return(cur, f)
                      /\ cur' = index /\ UNCHANGED lasterror
                   \/ /\ ~Fails(f) /\ ~Wins(f)
                      /\ fsm' = [fsm EXCEPT ![cur] = f]
                      /\ cur' = cur + 1 /\ UNCHANGED <<alive, fate, retsocket, lasterror>>
    /\ UNCHANGED <<breakerVars, pc, index, laststart, now, timeout, events, until, instants>>

\* All machines gone, or a socket to return: leave the loop.
EndOfTurn ==
    /\ pc = "after" /\ cur = index
    /\ pc' = IF alive = {} \/ retsocket # -1 THEN "close" ELSE "turn"
    /\ events' = [i \in Indices |-> {}] /\ cur' = 0 /\ timeout' = 0 /\ until' = -1
    /\ UNCHANGED <<breakerVars, fsm, alive, loopVars, now, fate, instants, agains>>

\* Mutant: the attempts that did not win are forgotten.
CloseNone ==
    /\ pc = "close"
    /\ alive' = {} /\ pc' = "done"
    /\ UNCHANGED <<breakerVars, fsm, fate, loopVars, now, timeout, events, cur, until, instants, agains>>

\* Every machine that is left is closed and deleted.
CloseAll ==
    /\ pc = "close"
    /\ fsm' = [i \in Indices |-> IF i \in alive THEN Close(Close(fsm[i], TRUE), FALSE) ELSE fsm[i]]
    /\ fate' = [i \in Indices |-> IF i \in alive /\ fsm[i].sock_ THEN Closed(i)[i] ELSE fate[i]]
    /\ alive' = {} /\ pc' = "done"
    /\ UNCHANGED <<breakerVars, loopVars, now, timeout, events, cur, until, instants, agains>>

\* Another thread breaks the loop.
UserBreak == /\ pc # "done" /\ Break
             /\ UNCHANGED <<pc, fsm, alive, loopVars, now, timeout, events, cur, fate, until,
                            instants, agains>>

TryConnect == Turn \/ Select \/ Attempt \/ EndOfTurn \/ CloseAll
Next == TryConnect \/ UserBreak

Spec == Init /\ [][Next]_vars
\* The calling thread runs.
FairSpec == Spec /\ WF_vars(TryConnect)
-------------------------------------------------------------------------------
(* Properties.                                                              *)

\* The values every variable takes.
TypeOK ==
    /\ BreakerTypeOK
    /\ pc \in {"turn", "select", "after", "close", "done"}
    /\ fsm \in [Indices -> FSM] /\ alive \subseteq Indices
    /\ index \in 0 .. N /\ cur \in 0 .. N /\ lasterror \in BOOLEAN
    /\ laststart \in 0 .. now /\ retsocket \in {-1} \cup Indices
    /\ timeout \in 0 .. Timeout
    /\ events \in [Indices -> SUBSET {"err", "in", "out"}]
    /\ fate \in [Indices -> {"none", "open", "closed", "returned"}]
    /\ instants \in 0 .. MaxInstant /\ agains \in 0 .. MaxAgain

\* No socket is lost or closed twice: a socket is open exactly while a machine
\* holds it, and the one returned is neither closed nor held by anyone
\* (complexconnect.cc 210-275, tcpclient_fsm.cc 22-25, 72-93).
NoSocketLost ==
    \A i \in Indices : /\ fate[i] = "open" <=> i \in alive /\ fsm[i].sock_
                       /\ fate[i] = "returned" <=> retsocket = i

\* The socket that is returned is connected and verified, and the observer was
\* told that it is connected and not that it failed.
WinnerIsGood ==
    retsocket # -1 => LET f == fsm[retsocket]
                      IN  f.check = "OK" /\ f.told = "connected" /\ f.error_ = "none"

\* poll sleeps past no attempt's deadline, whichever machine it belongs to and
\* however many were started in the meantime (complexconnect.cc 175-190).
DeadlinesKept == pc = "after" =>
    \A i \in alive : fsm[i].status_ = "Connecting" => TimeLeft(fsm[i], now, 0) >= 0

\* poll does not sleep past the time at which the next attempt is due, if there
\* is an address and a slot left for it (complexconnect.cc 151-167).
NextOnTime == pc = "after" /\ until # -1 => now <= LargerOf(until, now - timeout)

\* poll sleeps past nothing that is to be done at a certain time.
NoOversleep == DeadlinesKept /\ NextOnTime

\* TryConnect returns.
Returns == <>(pc = "done")
===============================================================================
