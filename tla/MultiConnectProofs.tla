-------------------------- MODULE MultiConnectProofs --------------------------
(***************************************************************************)
(* The invariants of MultiConnect, for any number of addresses, intervals, *)
(* timeouts and bounds.                                                    *)
(***************************************************************************)
EXTENDS MultiConnect, FiniteSetTheorems, WellFoundedInduction, TLAPS

\* The machines the operations of TcpClientFSM lead to.
Machines == [ status_ : {"Start", "Connecting", "ReadWrite", "End"},
              last_status_ : {"Start", "Connecting", "ReadWrite", "End"},
              error_ : {"none", "error", "timeout"},
              remote_close_ : BOOLEAN,
              sock_ : BOOLEAN,
              send_buf_ : 0 .. SendLen,
              check : {"Init", "OK", "Fail"},
              start : Nat, end : Nat,
              told : {"nothing", "connected", "failed", "both"} ]

\* Before the connect has ended the observer was told nothing, and in ReadWrite only that
\* the connection is there.
Sound(f) == /\ f.status_ \in {"Start", "Connecting"} => f.told = "nothing" /\ f.error_ = "none"
            /\ f.status_ = "ReadWrite" => f.told = "connected" /\ f.error_ = "none"

LoopType ==
    /\ pc \in {"turn", "select", "after", "close", "done"}
    /\ index \in 0 .. N /\ cur \in Nat /\ alive \subseteq Indices
    /\ retsocket \in {-1} \cup Indices
    /\ now \in Nat /\ laststart \in Nat /\ timeout \in Nat /\ until \in Int
    /\ fate \in [Indices -> {"none", "open", "closed", "closed twice", "returned"}]

\* An address whose turn has not come has a machine as it was made.
NotStarted == \A i \in Indices : i >= index =>
    /\ pc # "done" => i \in alive
    /\ fsm[i].status_ = "Start" /\ ~fsm[i].sock_ /\ fate[i] = "none"

AliveSound == \A i \in alive : Sound(fsm[i])

DeletedClosed == \A i \in Indices \ alive : ~fsm[i].sock_

\* The first winner is the only one: it ends the loop over the machines and then the race.
WinnerEnds == retsocket # -1 =>
    /\ (pc = "after" /\ cur = index) \/ pc \in {"close", "done"}
    /\ retsocket \notin alive /\ retsocket < index

\* No connect is past its deadline when a turn begins, and poll is not to sleep past one.
DeadlinesAhead == \A i \in alive : fsm[i].status_ = "Connecting" =>
    /\ pc \in {"turn", "after"} => fsm[i].start + Timeout >= now
    /\ pc = "select" => fsm[i].start + Timeout >= now + timeout

\* poll is not to sleep past the next attempt, unless it does not sleep at all.
NextAhead == until # -1 /\ timeout > 0 =>
    /\ pc = "select" => now + timeout <= until
    /\ pc = "after" => now <= until

Inductive == /\ LoopType /\ fsm \in [Indices -> Machines]
             /\ NotStarted /\ AliveSound /\ DeletedClosed /\ WinnerEnds
             /\ NoSocketLost /\ WinnerIsGood /\ DeadlinesAhead /\ NextAhead
-------------------------------------------------------------------------------
(* The machine.                                                              *)

\* A new machine has no socket.
LEMMA MadeSound ==
  ASSUME NEW v \in BOOLEAN
  PROVE  LET f == NewFSM(v)
         IN  f \in Machines /\ Sound(f) /\ f.status_ = "Start" /\ ~f.sock_
BY TimeAssumption DEF NewFSM, Machines, Sound

\* A machine ends with its socket still open; only Close closes it.
LEMMA EndWithKeeps ==
  ASSUME NEW f \in Machines, NEW e \in {"none", "error", "timeout"}
  PROVE  LET g == EndWith(f, e) IN g \in Machines /\ g.status_ = "End" /\ g.sock_ = f.sock_
BY DEF EndWith, Machines

\* The callback of a close changes neither the status nor the socket.
LEMMA OnCloseKeeps ==
  ASSUME NEW f \in Machines, NEW st, NEW user
  PROVE  LET g == OnClose(f, st, user)
         IN  g \in Machines /\ g.status_ = f.status_ /\ g.sock_ = f.sock_
BY DEF OnClose, Tell, Machines

\* socket() and connect(): a machine that waits for its connect has a socket, and its time
\* runs from now on.
LEMMA PreSelectGives ==
  ASSUME NEW f \in Machines, f.status_ = "Start", Sound(f), NEW t \in Nat,
         NEW g \in PreSelect(f, t)
  PROVE  /\ g \in Machines /\ Sound(g) /\ g.status_ \in {"End", "Connecting"}
         /\ g.status_ = "Connecting" => g.sock_ /\ g.start = t
<1>. DEFINE opened == [f EXCEPT !.sock_ = TRUE]
            tried == [opened EXCEPT !.start = t]
            ended == [tried EXCEPT !.end = t]
            begun == [tried EXCEPT !.status_ = "Connecting", !.last_status_ = "Start"]
<1>1. opened \in Machines /\ tried \in Machines /\ ended \in Machines
  BY DEF Machines
<1>2. /\ begun \in Machines /\ begun.status_ = "Connecting" /\ begun.sock_ /\ begun.start = t
      /\ begun.told = f.told /\ begun.error_ = f.error_
  BY DEF Machines
<1>3. g \in {OnClose(EndWith(f, "error"), "Start", FALSE),
             OnClose(EndWith(opened, "error"), "Start", FALSE),
             EndWith(ended, "error"), begun}
  BY DEF PreSelect, PreConnectSelect
<1>. HIDE DEF opened, tried, ended, begun
<1>0. ASSUME NEW h \in Machines, g = OnClose(EndWith(h, "error"), "Start", FALSE)
      PROVE  g \in Machines /\ g.status_ = "End"
  <2>1. EndWith(h, "error") \in Machines /\ EndWith(h, "error").status_ = "End"
    BY EndWithKeeps
  <2>. QED
    BY <1>0, <2>1, OnCloseKeeps
<1>4. CASE g = OnClose(EndWith(f, "error"), "Start", FALSE)
  BY <1>0, <1>4 DEF Sound
<1>5. CASE g = OnClose(EndWith(opened, "error"), "Start", FALSE)
  BY <1>0, <1>1, <1>5 DEF Sound
<1>6. CASE g = EndWith(ended, "error")
  BY <1>1, <1>6, EndWithKeeps DEF Sound
<1>7. CASE g = begun
  BY <1>2, <1>7 DEF Sound
<1>. QED
  BY <1>3, <1>4, <1>5, <1>6, <1>7

\* What one turn makes of a machine: nothing opens or closes the socket, a machine that
\* still waits for its connect is as it was, and one in ReadWrite was reported as connected.
Follows(f, g) == /\ g \in Machines /\ Sound(g) /\ g.sock_ = f.sock_
                 /\ g.status_ \in {"Start", "Connecting"} => g = f

\* A machine may end at any time, as long as it keeps its socket.
LEMMA EndFollows ==
  ASSUME NEW f \in Machines, NEW g \in Machines, g.sock_ = f.sock_, g.status_ = "End"
  PROVE  Follows(f, g)
BY DEF Follows, Sound

\* After the connect phase a machine that goes on connecting has time left.
LEMMA AfterConnectGives ==
  ASSUME NEW f \in Machines, f.status_ = "Connecting", Sound(f), NEW t \in Nat, NEW ev,
         NEW g \in AfterConnectSelect(f, ev, t)
  PROVE  /\ Follows(f, g)
         /\ g.status_ = "Connecting" => f.start + Timeout - t > 0
<1>. DEFINE stamped == [f EXCEPT !.end = t]
            open == [f EXCEPT !.end = t, !.last_status_ = "Connecting", !.status_ = "ReadWrite"]
            shown == [open EXCEPT !.told = "connected"]
<1>1. /\ stamped \in Machines /\ open \in Machines /\ shown \in Machines
      /\ stamped.sock_ = f.sock_ /\ stamped.status_ = f.status_
      /\ shown.sock_ = f.sock_ /\ shown.status_ = "ReadWrite" /\ shown.told = "connected"
      /\ shown.error_ = "none" /\ open.told = "nothing"
  BY DEF Machines, Sound
<1>2. Tell(open, "connected") = shown
  BY <1>1 DEF Tell
<1>3. ASSUME NEW e \in {"error", "timeout"}, g = EndWith(stamped, e)
      PROVE  Follows(f, g) /\ g.status_ = "End"
  <2>. HIDE DEF stamped
  <2>1. g \in Machines /\ g.sock_ = f.sock_ /\ g.status_ = "End"
    BY <1>1, <1>3, EndWithKeeps
  <2>. QED
    BY <2>1, EndFollows
<1>4. ASSUME g \in OnConnected(open)
      PROVE  Follows(f, g) /\ g.status_ = "ReadWrite"
  <2>1. g \in {shown, [shown EXCEPT !.check = "Fail"], [shown EXCEPT !.send_buf_ = SendLen]}
    BY <1>2, <1>4 DEF OnConnected
  <2>. HIDE DEF shown
  <2>2. /\ g \in Machines /\ g.sock_ = shown.sock_ /\ g.status_ = shown.status_
        /\ g.told = shown.told /\ g.error_ = shown.error_
    BY <1>1, <2>1, TimeAssumption DEF Machines
  <2>. QED
    BY <1>1, <2>2 DEF Follows, Sound
<1>5. \/ g = EndWith(stamped, "error")
      \/ g \in OnConnected(open)
      \/ g = EndWith(stamped, "timeout")
      \/ g = f /\ ~(f.start + Timeout - t <= 0)
  BY DEF AfterConnectSelect
<1>6. CASE g = f /\ ~(f.start + Timeout - t <= 0)
  <2>1. f.start \in Nat
    BY DEF Machines
  <2>. QED
    BY <1>6, <2>1, TimeAssumption DEF Follows
<1>. QED
  BY <1>3, <1>4, <1>5, <1>6

\* A connected machine stays connected or ends.
LEMMA AfterReadWriteGives ==
  ASSUME NEW f \in Machines, f.status_ = "ReadWrite", Sound(f), NEW t, NEW ev, NEW again,
         NEW g \in AfterReadWriteSelect(f, ev, t, again)
  PROVE  Follows(f, g) /\ g.status_ \in {"ReadWrite", "End"}
<1>1. ASSUME NEW h \in Machines, Sound(h), h.status_ = "ReadWrite", h.sock_ = f.sock_,
             NEW e \in {"none", "error", "timeout"}, g = EndWith(h, e)
      PROVE  Follows(f, g) /\ g.status_ = "End"
  BY <1>1, EndWithKeeps, EndFollows
<1>2. ASSUME NEW h \in SendHalf(f, ev, again)
      PROVE  /\ h \in Machines /\ h.sock_ = f.sock_ /\ Sound(h)
             /\ h.status_ \in {"ReadWrite", "End"}
  <2>1. \/ \E n \in 0 .. f.send_buf_ - 1 : h = [f EXCEPT !.send_buf_ = n]
        \/ h = EndWith(f, "error") \/ h = f
    BY <1>2 DEF SendHalf
  <2>2. ASSUME NEW n \in 0 .. f.send_buf_ - 1, h = [f EXCEPT !.send_buf_ = n]
        PROVE  /\ h \in Machines /\ h.sock_ = f.sock_ /\ h.status_ = f.status_
               /\ h.told = f.told /\ h.error_ = f.error_
    <3>1. n \in 0 .. SendLen
      BY TimeAssumption DEF Machines
    <3>. QED
      BY <2>2, <3>1 DEF Machines
  <2>3. CASE h = EndWith(f, "error")
    BY <2>3, EndWithKeeps DEF Sound
  <2>. QED
    BY <2>1, <2>2, <2>3 DEF Sound
<1>3. ASSUME NEW h \in SendHalf(f, ev, again), g \in RecvHalf(h, ev, again)
      PROVE  Follows(f, g) /\ g.status_ \in {"ReadWrite", "End"}
  <2>1. /\ h \in Machines /\ h.sock_ = f.sock_ /\ Sound(h)
        /\ h.status_ \in {"ReadWrite", "End"}
    BY <1>2
  <2>2. \/ g = h
        \/ h.status_ = "ReadWrite" /\ \E c \in {"OK", "Fail"} : g = [h EXCEPT !.check = c]
        \/ g = [EndWith(h, "none") EXCEPT !.remote_close_ = TRUE]
        \/ g = EndWith(h, "error")
    BY <1>3, <2>1 DEF RecvHalf
  <2>3. CASE g = h
    BY <2>1, <2>3 DEF Follows
  <2>4. ASSUME NEW c \in {"OK", "Fail"}, g = [h EXCEPT !.check = c]
        PROVE  Follows(f, g) /\ g.status_ \in {"ReadWrite", "End"}
    <3>1. /\ g \in Machines /\ g.sock_ = h.sock_ /\ g.status_ = h.status_
          /\ g.told = h.told /\ g.error_ = h.error_
      BY <2>1, <2>4 DEF Machines
    <3>. QED
      BY <2>1, <3>1 DEF Follows, Sound
  <2>5. CASE g = [EndWith(h, "none") EXCEPT !.remote_close_ = TRUE]
    <3>. DEFINE d == EndWith(h, "none")
    <3>1. d \in Machines /\ d.status_ = "End" /\ d.sock_ = f.sock_
      BY <2>1, EndWithKeeps
    <3>. HIDE DEF d
    <3>2. g = [d EXCEPT !.remote_close_ = TRUE]
      BY <2>5 DEF d
    <3>3. g \in Machines /\ g.status_ = "End" /\ g.sock_ = f.sock_
      BY <3>1, <3>2 DEF Machines
    <3>. QED
      BY <3>3, EndFollows
  <2>6. CASE g = EndWith(h, "error")
    BY <2>1, <2>6, EndWithKeeps, EndFollows
  <2>. QED
    BY <2>2, <2>3, <2>4, <2>5, <2>6
<1>4. \/ g = EndWith(f, "error")
      \/ \E h \in SendHalf(f, ev, again) : g \in RecvHalf(h, ev, again)
      \/ g = EndWith(f, "timeout")
      \/ g = f
  BY DEF AfterReadWriteSelect
<1>5. CASE g = f
  BY <1>5 DEF Follows
<1>. QED
  BY <1>1, <1>3, <1>4, <1>5

\* AfterSelect moves a machine along the order of its states, and one that goes on connecting
\* has time left.
LEMMA AfterSelectGives ==
  ASSUME NEW f \in Machines, Sound(f), NEW t \in Nat, NEW ev, NEW again,
         NEW g \in AfterSelect(f, ev, t, again)
  PROVE  /\ Follows(f, g)
         /\ g.status_ = "Connecting" => f.start + Timeout - t > 0
<1>1. PICK h \in CASE f.status_ = "Connecting" -> AfterConnectSelect(f, ev, t)
                   [] f.status_ = "ReadWrite"  -> AfterReadWriteSelect(f, ev, t, again)
                   [] OTHER                    -> {f} :
        g = IF h.status_ = "End" /\ h.sock_ THEN OnClose(h, h.last_status_, FALSE) ELSE h
  BY DEF AfterSelect
<1>2. Follows(f, h) /\ (h.status_ = "Connecting" => f.start + Timeout - t > 0)
  <2>1. CASE f.status_ = "Connecting"
    BY <1>1, <2>1, AfterConnectGives
  <2>2. CASE f.status_ = "ReadWrite"
    <3>1. h \in AfterReadWriteSelect(f, ev, t, again)
      BY <1>1, <2>2
    <3>. QED
      BY <2>2, <3>1, AfterReadWriteGives
  <2>3. CASE f.status_ \notin {"Connecting", "ReadWrite"}
    <3>1. h = f
      BY <1>1, <2>3
    <3>. QED
      BY <2>3, <3>1 DEF Follows
  <2>. QED
    BY <2>1, <2>2, <2>3
<1>3. CASE h.status_ = "End" /\ h.sock_
  <2>1. g \in Machines /\ g.status_ = "End" /\ g.sock_ = f.sock_
    BY <1>1, <1>2, <1>3, OnCloseKeeps DEF Follows
  <2>. QED
    BY <2>1, EndFollows
<1>4. CASE ~(h.status_ = "End" /\ h.sock_)
  BY <1>1, <1>2, <1>4
<1>. QED
  BY <1>3, <1>4

\* Close closes the socket, and does nothing to a machine without one.
LEMMA CloseCloses ==
  ASSUME NEW f \in Machines, NEW notify \in BOOLEAN
  PROVE  /\ Close(f, notify) \in Machines /\ ~Close(f, notify).sock_
         /\ ~f.sock_ => Close(f, notify) = f
<1>1. CASE ~f.sock_
  BY <1>1 DEF Close
<1>2. CASE f.sock_ /\ (f.remote_close_ \/ f.error_ # "none")
  BY <1>2 DEF Close, Machines
<1>3. CASE f.sock_ /\ ~(f.remote_close_ \/ f.error_ # "none")
  <2>. DEFINE g == [f EXCEPT !.sock_ = FALSE, !.last_status_ = f.status_, !.status_ = "End"]
  <2>1. g \in Machines /\ ~g.sock_
    BY DEF Machines
  <2>2. Close(f, notify) = IF notify THEN OnClose(g, g.last_status_, f.remote_close_) ELSE g
    BY <1>3 DEF Close
  <2>. HIDE DEF g
  <2>. QED
    BY <1>3, <2>1, <2>2, OnCloseKeeps
<1>. QED
  BY <1>1, <1>2, <1>3
-------------------------------------------------------------------------------
(* The timeout of poll.                                                      *)

\* The order of the naturals as a relation.
Less == {p \in Nat \X Nat : p[1] < p[2]}

\* A set of integers with a lower bound has a least element.
LEMMA LeastOfBounded ==
  ASSUME NEW S, S \subseteq Int, S # {}, NEW b \in Nat, \A x \in S : x + b >= 0
  PROVE  \E m \in S : \A x \in S : m <= x
<1>. DEFINE T == {x + b : x \in S}
<1>1. T \subseteq Nat /\ T # {}
  <2>1. ASSUME NEW x \in S PROVE x + b \in Nat
    <3>1. x \in Int /\ x + b >= 0
      OBVIOUS
    <3>. QED
      BY <3>1
  <2>. QED
    BY <2>1
<1>2. IsWellFoundedOn(Less, Nat)
  BY NatLessThanWellFounded DEF OpToRel, Less
<1>3. PICK n \in T : \A y \in T : ~(<<y, n>> \in Less)
  <2>. HIDE DEF T
  <2>. QED
    BY <1>1, <1>2, WFMin
<1>4. ASSUME NEW y \in T PROVE n <= y
  <2>1. y \in Nat /\ n \in Nat
    BY <1>1
  <2>2. <<y, n>> \in Nat \X Nat /\ <<y, n>>[1] = y /\ <<y, n>>[2] = n
    BY <2>1
  <2>3. ~(y < n)
    BY <1>3, <2>2 DEF Less
  <2>. QED
    BY <2>1, <2>3
<1>5. PICK m \in S : n = m + b
  OBVIOUS
<1>6. ASSUME NEW x \in S PROVE m <= x
  <2>1. x + b \in T
    OBVIOUS
  <2>2. m + b <= x + b
    BY <1>4, <1>5, <2>1
  <2>3. m \in Int /\ x \in Int
    OBVIOUS
  <2>. QED
    BY <2>2, <2>3
<1>. QED
  BY <1>6

\* The timeout of a machine is an integer: what is left of its deadline while it connects, and
\* nothing when it has ended.
LEMMA TimeLeftBounded ==
  ASSUME NEW f \in Machines, NEW clock \in Nat, NEW t \in Nat
  PROVE  /\ TimeLeft(f, clock, t) \in Int /\ TimeLeft(f, clock, t) + clock >= 0
         /\ f.status_ = "Connecting" => TimeLeft(f, clock, t) = f.start + Timeout - clock
         /\ f.status_ = "End" => TimeLeft(f, clock, t) = 0
<1>1. /\ f.start \in Nat /\ f.end \in Nat
      /\ f.status_ \in {"Start", "Connecting", "ReadWrite", "End"}
  BY DEF Machines
<1>2. ReadWriteAbsTimeout(f) \in Nat
  <2>. DEFINE a == 6 * Rtt(f)
              b == Timeout - Rtt(f)
  <2>1. a \in Int /\ b \in Int
    BY <1>1, TimeAssumption DEF Rtt
  <2>. HIDE DEF a, b
  <2>2. ReadWriteAbsTimeout(f) = LargerOf(RwFloor, SmallerOf(a, b))
    BY DEF ReadWriteAbsTimeout, a, b
  <2>. QED
    BY <2>1, <2>2, TimeAssumption DEF LargerOf, SmallerOf
<1>. QED
  BY <1>1, <1>2, TimeAssumption DEF TimeLeft

\* poll wakes up for every attempt that runs, for one that has ended at once, and by t.
LEMMA DeadlinesCovered ==
  ASSUME LoopType, NEW machines \in [Indices -> Machines], NEW t \in Nat
  PROVE  LET w == WithDeadlines(machines, t)
         IN  /\ w \in Nat /\ w <= t
             /\ \A i \in Indices :
                  (i \in alive /\ i < index) \/ (MayStart /\ i = index) =>
                    /\ machines[i].status_ = "End" => w = 0
                    /\ machines[i].status_ = "Connecting" /\ machines[i].start + Timeout >= now
                         => now + w <= machines[i].start + Timeout
<1>. DEFINE A == {TimeLeft(machines[i], now, t) : i \in alive \cap 0 .. index - 1}
            B == IF MayStart THEN {TimeLeft(machines[index], now, t)} ELSE {}
            left == {t} \cup A \cup B
            least == CHOOSE m \in left : \A x \in left : m <= x
            w == WithDeadlines(machines, t)
<1>1. /\ now \in Nat /\ alive \subseteq Indices /\ index \in Nat
      /\ MayStart => index \in Indices
  <2>1. now \in Nat /\ alive \subseteq Indices /\ index \in 0 .. N
    BY DEF LoopType
  <2>2. MayStart => index < N
    BY DEF MayStart
  <2>. QED
    BY <2>1, <2>2, RaceAssumption DEF Indices
<1>2. \A i \in Indices : /\ TimeLeft(machines[i], now, t) \in Int
                         /\ TimeLeft(machines[i], now, t) + now >= 0
  BY <1>1, TimeLeftBounded
<1>3. left \subseteq Int /\ \A x \in left : x + now >= 0
  <2>1. A \subseteq Int /\ \A x \in A : x + now >= 0
    BY <1>1, <1>2
  <2>2. B \subseteq Int /\ \A x \in B : x + now >= 0
    BY <1>1, <1>2
  <2>. HIDE DEF A, B
  <2>. QED
    BY <1>1, <2>1, <2>2
<1>4. w = LargerOf(0, least)
  BY DEF WithDeadlines
<1>5. t \in left
  OBVIOUS
<1>6. least \in left /\ \A x \in left : least <= x
  <2>. HIDE DEF left
  <2>1. \E m \in left : \A x \in left : m <= x
    BY <1>1, <1>3, <1>5, LeastOfBounded
  <2>. QED
    BY <2>1
<1>7. ASSUME NEW i \in Indices, (i \in alive /\ i < index) \/ (MayStart /\ i = index)
      PROVE  TimeLeft(machines[i], now, t) \in left
  <2>1. CASE i \in alive /\ i < index
    <3>1. i \in alive \cap 0 .. index - 1
      BY <1>1, <2>1, RaceAssumption DEF Indices
    <3>. QED
      BY <3>1
  <2>2. CASE MayStart /\ i = index
    BY <2>2
  <2>. QED
    BY <1>7, <2>1, <2>2
<1>. HIDE DEF A, B, left, least, w
<1>8. least \in Int /\ least <= t /\ w \in Nat /\ w <= t /\ (w = 0 \/ w = least)
  BY <1>3, <1>4, <1>5, <1>6 DEF LargerOf
<1>9. ASSUME NEW i \in Indices, (i \in alive /\ i < index) \/ (MayStart /\ i = index)
      PROVE  /\ machines[i].status_ = "End" => w = 0
             /\ machines[i].status_ = "Connecting" /\ machines[i].start + Timeout >= now
                  => now + w <= machines[i].start + Timeout
  <2>1. least <= TimeLeft(machines[i], now, t)
    BY <1>6, <1>7, <1>9
  <2>2. machines[i] \in Machines /\ machines[i].start \in Nat
    BY DEF Machines
  <2>3. /\ machines[i].status_ = "Connecting" =>
             TimeLeft(machines[i], now, t) = machines[i].start + Timeout - now
        /\ machines[i].status_ = "End" => TimeLeft(machines[i], now, t) = 0
    BY <1>1, <2>2, TimeLeftBounded
  <2>4. machines[i].status_ = "End" => w = 0
    BY <1>4, <1>8, <2>1, <2>3 DEF LargerOf
  <2>5. machines[i].status_ = "Connecting" /\ machines[i].start + Timeout >= now
          => now + w <= machines[i].start + Timeout
    BY <1>1, <1>8, <2>1, <2>2, <2>3, TimeAssumption
  <2>. QED
    BY <2>4, <2>5
<1>. QED
  BY <1>8, <1>9 DEF w

\* The wait for the next attempt: never negative, and no longer than until it is due when
\* there is a slot for it.
LEMMA NextCovered ==
  ASSUME LoopType
  PROVE  /\ WaitForNext \in Nat
         /\ MayStart /\ Running(fsm) + 1 < MaxConnect => WaitForNext <= Interval
         /\ ~MayStart /\ index < N /\ Running(fsm) < MaxConnect => WaitForNext <= NextConnect
<1>. DEFINE r == Running(fsm)
<1>1. NextConnect \in Int /\ Timeout \in Nat /\ Interval \in Nat
  <2>1. now \in Nat /\ laststart \in Nat
    BY DEF LoopType
  <2>2. (IF lasterror THEN ErrorInterval ELSE Interval) \in Nat
    BY RaceAssumption
  <2>. QED
    BY <2>1, <2>2, RaceAssumption, TimeAssumption DEF NextConnect
<1>2. ~MayStart /\ index < N /\ r < MaxConnect => NextConnect > 0
  <2>. HIDE DEF r
  <2>1. MayStart <=> index < N /\ NextConnect <= 0 /\ r < MaxConnect
    BY DEF MayStart, r
  <2>. QED
    BY <1>1, <2>1
<1>. QED
  BY <1>1, <1>2 DEF WaitForNext, SmallerOf
-------------------------------------------------------------------------------
(* The loop.                                                                 *)

\* Machines are numbered from 0 to N - 1.
LEMMA IndexFacts == /\ N \in Nat /\ -1 \notin Indices
                    /\ \A i \in Indices : i \in Nat /\ i < N
                    /\ \A i \in Nat : i < N => i \in Indices
BY RaceAssumption DEF Indices

\* No attempt is made and no socket is open before TryConnect begins.
LEMMA InductiveInit == Init => Inductive
<1>. SUFFICES ASSUME Init PROVE Inductive
  OBVIOUS
<1>1. LoopType
  <2>1. LargerOf(Interval, ErrorInterval) \in Nat
    BY RaceAssumption DEF LargerOf
  <2>. QED
    BY <2>1, RaceAssumption DEF Init, LoopType
<1>2. ASSUME NEW i \in Indices
      PROVE  /\ fsm[i] \in Machines /\ Sound(fsm[i]) /\ fsm[i].status_ = "Start"
             /\ ~fsm[i].sock_ /\ fate[i] = "none"
  <2>1. fsm[i] = NewFSM(i \in Verify) /\ (i \in Verify) \in BOOLEAN /\ fate[i] = "none"
    BY DEF Init
  <2>. QED
    BY <2>1, MadeSound
<1>3. fsm \in [Indices -> Machines]
  BY <1>2 DEF Init
<1>4. /\ alive = Indices /\ retsocket = -1 /\ until = -1
  BY DEF Init
<1>5. -1 \notin Indices
  BY RaceAssumption DEF Indices
<1>. QED
  BY <1>1, <1>2, <1>3, <1>4, <1>5
     DEF Inductive, NotStarted, AliveSound, DeletedClosed, WinnerEnds, NoSocketLost, WinnerIsGood,
         DeadlinesAhead, NextAhead

\* An attempt is started: its machine leaves PreSelect, the others stay.
LEMMA TurnStarts ==
  ASSUME Inductive, pc = "turn", MayStart, NEW f \in PreSelect(fsm[index], now)
  PROVE  LET machines == [fsm EXCEPT ![index] = f]
         IN  /\ index \in Indices /\ index \in alive
             /\ machines \in [Indices -> Machines] /\ machines[index] = f
             /\ \A i \in Indices \ {index} : machines[i] = fsm[i]
             /\ Sound(f) /\ f.status_ \in {"End", "Connecting"}
             /\ f.status_ = "Connecting" => /\ f.sock_ /\ f.start = now
                                            /\ Running(machines) = Running(fsm) + 1
<1>. DEFINE machines == [fsm EXCEPT ![index] = f]
<1>1. index \in Indices
  <2>1. index \in 0 .. N /\ index < N
    BY DEF Inductive, LoopType, MayStart
  <2>. QED
    BY <2>1, RaceAssumption DEF Indices
<1>2. index >= index
  BY <1>1 DEF Indices
<1>3. index \in alive /\ fsm[index].status_ = "Start" /\ ~fsm[index].sock_
  BY <1>1, <1>2 DEF Inductive, NotStarted
<1>4. fsm[index] \in Machines /\ Sound(fsm[index]) /\ now \in Nat /\ fsm \in [Indices -> Machines]
  BY <1>1, <1>3 DEF Inductive, AliveSound, LoopType
<1>5. /\ f \in Machines /\ Sound(f) /\ f.status_ \in {"End", "Connecting"}
      /\ f.status_ = "Connecting" => f.sock_ /\ f.start = now
  BY <1>3, <1>4, PreSelectGives
<1>6. /\ machines \in [Indices -> Machines] /\ machines[index] = f
      /\ \A i \in Indices \ {index} : machines[i] = fsm[i]
  BY <1>1, <1>4, <1>5
<1>7. f.sock_ => Running(machines) = Running(fsm) + 1
  <2>. DEFINE S == {i \in alive : fsm[i].sock_}
              T == {i \in alive : machines[i].sock_}
  <2>1. alive \subseteq Indices /\ IsFiniteSet(Indices)
    <3>1. 0 \in Int /\ N - 1 \in Int
      BY RaceAssumption
    <3>. QED
      BY <3>1, FS_Interval DEF Inductive, LoopType, Indices
  <2>2. IsFiniteSet(S)
    <3>1. S \in SUBSET Indices
      BY <2>1
    <3>. HIDE DEF S
    <3>. QED
      BY <2>1, <3>1, FS_Subset
  <2>3. index \notin S /\ (f.sock_ => T = S \cup {index})
    BY <1>3, <1>6, <2>1
  <2>4. Running(machines) = Cardinality(T) /\ Running(fsm) = Cardinality(S)
    BY DEF Running
  <2>. HIDE DEF S, T, machines
  <2>5. Cardinality(S \cup {index}) = Cardinality(S) + 1
    BY <2>2, <2>3, FS_AddElement
  <2>. QED
    BY <2>3, <2>4, <2>5
<1>. HIDE DEF machines
<1>8. /\ index \in Indices /\ index \in alive
      /\ machines \in [Indices -> Machines] /\ machines[index] = f
      /\ \A i \in Indices \ {index} : machines[i] = fsm[i]
      /\ Sound(f) /\ f.status_ \in {"End", "Connecting"}
      /\ f.status_ = "Connecting" => /\ f.sock_ /\ f.start = now
                                     /\ Running(machines) = Running(fsm) + 1
  BY <1>1, <1>3, <1>5, <1>6, <1>7
<1>. QED
  BY <1>8 DEF machines

\* A wait shorter than the interval ends before the interval does.
LEMMA DueAfterStart ==
  ASSUME NEW clock \in Nat, NEW wait \in Nat, NEW gap \in Nat, wait <= gap
  PROVE  clock + wait <= clock + gap
OBVIOUS

\* The same when part of the interval has passed.
LEMMA DueAfterLast ==
  ASSUME NEW clock \in Nat, NEW last \in Nat, NEW gap \in Nat, NEW next \in Nat, NEW wait \in Nat,
         next <= gap - (clock - last), wait <= next
  PROVE  clock + wait <= last + gap
OBVIOUS

\* The head of a turn (new attempts, PreSelect, the timeout for poll) preserves the invariant.
LEMMA TurnStep == Inductive /\ Turn => Inductive'
<1>. SUFFICES ASSUME Inductive, Turn PROVE Inductive'
  OBVIOUS
<1>t. /\ LoopType /\ fsm \in [Indices -> Machines]
      /\ NotStarted /\ AliveSound /\ DeletedClosed /\ WinnerEnds
      /\ NoSocketLost /\ WinnerIsGood /\ DeadlinesAhead /\ NextAhead
  BY DEF Inductive
<1>a. alive \subseteq Indices
  BY <1>t DEF LoopType
<1>f. fate \in [Indices -> {"none", "open", "closed", "closed twice", "returned"}]
  BY <1>t DEF LoopType
<1>c. index \in Nat /\ index <= N /\ now \in Nat /\ laststart \in Nat
  <2>1. index \in 0 .. N /\ now \in Nat /\ laststart \in Nat
    BY <1>t DEF LoopType
  <2>. QED
    BY <2>1, RaceAssumption
<1>0. /\ pc = "turn" /\ pc' = "select" /\ UNCHANGED <<alive, retsocket, now, cur>>
  BY DEF Turn
<1>r. retsocket = -1
  BY <1>0, <1>t DEF WinnerEnds
<1>1. PICK f \in IF MayStart THEN PreSelect(fsm[index], now) ELSE {fsm[0]} :
        LET machines == IF MayStart THEN [fsm EXCEPT ![index] = f] ELSE fsm
        IN  /\ fsm' = machines
            /\ fate' = Opened(machines)
            /\ timeout' = WithDeadlines(machines, WaitForNext)
            /\ until' = IF index' < N /\ Running(machines) < MaxConnect
                        THEN laststart' + (IF lasterror' THEN ErrorInterval ELSE Interval)
                        ELSE -1
  BY DEF Turn
<1>. DEFINE machines == IF MayStart THEN [fsm EXCEPT ![index] = f] ELSE fsm
<1>2. /\ fsm' = machines /\ fate' = Opened(machines)
      /\ timeout' = WithDeadlines(machines, WaitForNext)
      /\ until' = IF index' < N /\ Running(machines) < MaxConnect
                  THEN laststart' + (IF lasterror' THEN ErrorInterval ELSE Interval)
                  ELSE -1
  BY <1>1
<1>3. MayStart => /\ index \in Indices /\ index \in alive
                  /\ machines \in [Indices -> Machines] /\ machines[index] = f
                  /\ \A i \in Indices \ {index} : machines[i] = fsm[i]
                  /\ Sound(f) /\ f.status_ \in {"End", "Connecting"}
                  /\ f.status_ = "Connecting" => /\ f.sock_ /\ f.start = now
                                                 /\ Running(machines) = Running(fsm) + 1
  BY <1>0, <1>1, TurnStarts
<1>4. ~MayStart => machines = fsm
  OBVIOUS
<1>5. machines \in [Indices -> Machines]
  BY <1>3, <1>4, <1>t
<1>6. \A i \in Indices : machines[i] # fsm[i] => MayStart /\ i = index /\ machines[i] = f
  BY <1>3, <1>4
<1>n. /\ MayStart => index' = index + 1 /\ laststart' = now /\ ~lasterror'
      /\ ~MayStart => index' = index /\ laststart' = laststart /\ lasterror' = lasterror
  BY DEF Turn
<1>. HIDE DEF machines
<1>w. /\ WaitForNext \in Nat
      /\ MayStart /\ Running(fsm) + 1 < MaxConnect => WaitForNext <= Interval
      /\ ~MayStart /\ index < N /\ Running(fsm) < MaxConnect => WaitForNext <= NextConnect
  BY <1>t, NextCovered
<1>7. /\ timeout' \in Nat /\ timeout' <= WaitForNext
      /\ \A i \in Indices :
           (i \in alive /\ i < index) \/ (MayStart /\ i = index) =>
             /\ machines[i].status_ = "End" => timeout' = 0
             /\ machines[i].status_ = "Connecting" /\ machines[i].start + Timeout >= now
                  => now + timeout' <= machines[i].start + Timeout
  BY <1>2, <1>5, <1>t, <1>w, DeadlinesCovered
<1>8. /\ index' \in 0 .. N
      /\ \A i \in Indices : i >= index' => i >= index /\ ~(MayStart /\ i = index)
  <2>1. MayStart => index < N
    BY <1>3, IndexFacts
  <2>. QED
    BY <1>c, <1>n, <2>1, IndexFacts
<1>9. ASSUME NEW i \in Indices
      PROVE  /\ fate'[i] = IF machines[i].sock_ /\ fate[i] = "none" THEN "open" ELSE fate[i]
             /\ fsm'[i] # fsm[i] => MayStart /\ i = index /\ fsm'[i] = f
  BY <1>2, <1>6 DEF Opened
<1>u. until' \in Int
  <2>1. laststart' \in Nat
    BY <1>c, <1>n
  <2>2. (IF lasterror' THEN ErrorInterval ELSE Interval) \in Nat
    BY RaceAssumption
  <2>. QED
    BY <1>2, <2>1, <2>2
<1>10. LoopType'
  <2>1. fate' \in [Indices -> {"none", "open", "closed", "closed twice", "returned"}]
    BY <1>2, <1>f DEF Opened
  <2>2. laststart' \in Nat
    BY <1>c, <1>n
  <2>. QED
    BY <1>0, <1>7, <1>8, <1>t, <1>u, <2>1, <2>2 DEF LoopType
<1>11. NotStarted'
  <2>1. ASSUME NEW i \in Indices, i >= index'
        PROVE  i \in alive /\ fsm'[i].status_ = "Start" /\ ~fsm'[i].sock_ /\ fate'[i] = "none"
    <3>1. i >= index /\ fsm'[i] = fsm[i]
      BY <1>8, <1>9, <2>1
    <3>. QED
      BY <1>0, <1>2, <1>9, <1>t, <3>1 DEF NotStarted
  <2>. QED
    BY <1>0, <2>1 DEF NotStarted
<1>12. AliveSound' /\ DeletedClosed'
  BY <1>0, <1>3, <1>9, <1>a, <1>t DEF AliveSound, DeletedClosed
<1>13. NoSocketLost'
  <2>1. ASSUME NEW i \in Indices
        PROVE  /\ fate'[i] = "open" <=> i \in alive /\ fsm'[i].sock_
               /\ fate'[i] # "returned"
    <3>1. CASE MayStart /\ i = index
      <4>1. fate[i] = "none" /\ i \in alive
        <5>1. i >= index /\ pc # "done"
          BY <1>0, <1>c, <3>1
        <5>. QED
          BY <1>t, <5>1 DEF NotStarted
      <4>. QED
        BY <1>2, <1>9, <4>1
    <3>2. CASE ~(MayStart /\ i = index)
      <4>1. fsm'[i] = fsm[i] /\ machines[i] = fsm[i]
        BY <1>2, <1>9, <3>2
      <4>2. /\ fate[i] = "open" <=> i \in alive /\ fsm[i].sock_
            /\ fate[i] # "returned"
        BY <1>r, <1>t, IndexFacts DEF NoSocketLost
      <4>3. i \notin alive => ~fsm[i].sock_
        BY <1>t DEF DeletedClosed
      <4>. QED
        BY <1>9, <4>1, <4>2, <4>3
    <3>. QED
      BY <3>1, <3>2
  <2>. QED
    BY <1>0, <1>r, <2>1, IndexFacts DEF NoSocketLost
<1>14. WinnerEnds' /\ WinnerIsGood'
  BY <1>0, <1>r DEF WinnerEnds, WinnerIsGood
<1>15. DeadlinesAhead'
  <2>1. ASSUME NEW i \in alive, fsm'[i].status_ = "Connecting"
        PROVE  fsm'[i].start + Timeout >= now + timeout'
    <3>0. i \in Indices /\ fsm'[i] = machines[i] /\ machines[i] \in Machines
      BY <1>2, <1>5, <1>a
    <3>1. /\ (i \in alive /\ i < index) \/ (MayStart /\ i = index)
          /\ machines[i].start + Timeout >= now
      <4>1. CASE MayStart /\ i = index
        <5>1. machines[i].start = now
          BY <1>3, <2>1, <3>0, <4>1
        <5>. QED
          BY <1>c, <4>1, <5>1, TimeAssumption
      <4>2. CASE ~(MayStart /\ i = index)
        <5>1. fsm[i] = machines[i]
          BY <1>9, <3>0, <4>2
        <5>2. ~(i >= index)
          BY <1>t, <2>1, <3>0, <5>1 DEF NotStarted
        <5>3. i < index
          BY <1>c, <3>0, <5>2, IndexFacts
        <5>. QED
          BY <1>0, <1>t, <2>1, <3>0, <5>1, <5>3 DEF DeadlinesAhead
      <4>. QED
        BY <4>1, <4>2
    <3>2. now + timeout' <= machines[i].start + Timeout
      BY <1>7, <2>1, <3>0, <3>1
    <3>3. machines[i].start \in Nat
      BY <3>0 DEF Machines
    <3>. QED
      BY <1>7, <1>c, <3>0, <3>2, <3>3, TimeAssumption
  <2>. QED
    BY <1>0, <2>1 DEF DeadlinesAhead
<1>16. NextAhead'
  <2>1. ASSUME until' # -1, timeout' > 0 PROVE now + timeout' <= until'
    <3>0. /\ index' < N /\ Running(machines) < MaxConnect
          /\ until' = laststart' + (IF lasterror' THEN ErrorInterval ELSE Interval)
      BY <1>2, <2>1
    <3>1. CASE MayStart
      <4>1. machines[index] = f /\ index \in Indices
        BY <1>3, <3>1
      <4>2. f.status_ # "End"
        BY <1>7, <2>1, <3>1, <4>1
      <4>3. Running(fsm) + 1 < MaxConnect
        BY <1>3, <3>0, <3>1, <4>2
      <4>4. timeout' <= Interval
        BY <1>7, <1>w, <3>1, <4>3, RaceAssumption
      <4>5. until' = now + Interval
        BY <1>n, <3>0, <3>1
      <4>. QED
        <5>1. timeout' \in Nat
          BY <1>7
        <5>2. Interval \in Nat /\ now \in Nat
          BY <1>c, RaceAssumption
        <5>3. now + timeout' <= now + Interval
          BY <4>4, <5>1, <5>2, DueAfterStart
        <5>. QED
          BY <4>5, <5>3
    <3>2. CASE ~MayStart
      <4>1. index < N /\ Running(fsm) < MaxConnect
        BY <1>4, <1>n, <3>0, <3>2 DEF machines
      <4>. DEFINE p == IF lasterror THEN ErrorInterval ELSE Interval
      <4>2. p \in Nat
        BY RaceAssumption
      <4>3. until' = laststart + p
        BY <1>n, <3>0, <3>2
      <4>4. NextConnect = p - (now - laststart)
        BY DEF NextConnect
      <4>. HIDE DEF p
      <4>. QED
        <5>1. WaitForNext <= p - (now - laststart) /\ WaitForNext \in Nat
          BY <1>w, <3>2, <4>1, <4>4
        <5>2. timeout' \in Nat /\ timeout' <= WaitForNext
          BY <1>7
        <5>3. now + timeout' <= laststart + p
          BY <1>c, <4>2, <5>1, <5>2, DueAfterLast
        <5>. QED
          BY <4>3, <5>3
    <3>. QED
      BY <3>1, <3>2
  <2>. QED
    BY <1>0, <2>1 DEF NextAhead
<1>. QED
  BY <1>2, <1>5, <1>10, <1>11, <1>12, <1>13, <1>14, <1>15, <1>16 DEF Inductive

\* So does the poll, in which time passes.
LEMMA SelectStep == Inductive /\ Select => Inductive'
<1>. SUFFICES ASSUME Inductive, Select PROVE Inductive'
  OBVIOUS
<1>t. /\ LoopType /\ fsm \in [Indices -> Machines]
      /\ NotStarted /\ AliveSound /\ DeletedClosed /\ WinnerEnds
      /\ NoSocketLost /\ WinnerIsGood /\ DeadlinesAhead /\ NextAhead
  BY DEF Inductive
<1>1. PICK d \in 0 .. timeout :
        /\ now' = now + d
        /\ (pc' = "after" /\ cur' = 0) \/ (pc' = "close" /\ cur' = cur)
  BY DEF Select
<1>2. /\ pc = "select"
      /\ UNCHANGED <<fsm, alive, index, retsocket, laststart, timeout, fate, until>>
  BY DEF Select, loopVars
<1>3. now \in Nat /\ timeout \in Nat /\ until \in Int /\ cur \in Nat /\ alive \subseteq Indices
  BY <1>t DEF LoopType
<1>4. d \in Nat /\ d <= timeout /\ now' \in Nat /\ cur' \in Nat
  BY <1>1, <1>3
<1>5. LoopType'
  BY <1>1, <1>2, <1>4, <1>t DEF LoopType
<1>6. NotStarted' /\ AliveSound' /\ DeletedClosed' /\ NoSocketLost' /\ WinnerIsGood'
  <2>1. pc # "done" /\ pc' # "done"
    BY <1>1, <1>2
  <2>. QED
    BY <1>2, <1>t, <2>1 DEF NotStarted, AliveSound, DeletedClosed, NoSocketLost, WinnerIsGood
<1>7. WinnerEnds'
  BY <1>2, <1>t DEF WinnerEnds
<1>8. DeadlinesAhead'
  <2>1. ASSUME NEW i \in alive, fsm[i].status_ = "Connecting"
        PROVE  fsm[i].start + Timeout >= now'
    <3>1. fsm[i].start + Timeout >= now + timeout
      BY <1>2, <1>t, <2>1 DEF DeadlinesAhead
    <3>2. fsm[i] \in Machines
      BY <1>3, <1>t
    <3>3. fsm[i].start \in Nat
      BY <3>2 DEF Machines
    <3>. QED
      BY <1>1, <1>3, <1>4, <3>1, <3>3, TimeAssumption
  <2>. QED
    BY <1>1, <1>2, <2>1 DEF DeadlinesAhead
<1>9. NextAhead'
  <2>1. ASSUME until # -1, timeout > 0 PROVE now' <= until
    <3>1. now + timeout <= until
      BY <1>2, <1>t, <2>1 DEF NextAhead
    <3>. QED
      BY <1>1, <1>3, <1>4, <3>1
  <2>. QED
    BY <1>1, <1>2, <2>1 DEF NextAhead
<1>. QED
  BY <1>2, <1>t, <1>5, <1>6, <1>7, <1>8, <1>9 DEF Inductive

\* What the round over the machines may change: the machine it is at, whose removal ends or
\* hands over its socket.
LEMMA AttemptStep == Inductive /\ Attempt => Inductive'
<1>. SUFFICES ASSUME Inductive, Attempt PROVE Inductive'
  OBVIOUS
<1>t. /\ LoopType /\ fsm \in [Indices -> Machines]
      /\ NotStarted /\ AliveSound /\ DeletedClosed /\ WinnerEnds
      /\ NoSocketLost /\ WinnerIsGood /\ DeadlinesAhead /\ NextAhead
  BY DEF Inductive
<1>0. /\ pc = "after" /\ cur < index
      /\ UNCHANGED <<pc, index, laststart, now, timeout, until>>
  BY DEF Attempt
<1>1. /\ cur \in Nat /\ index \in Nat /\ index <= N /\ alive \subseteq Indices
  <2>1. cur \in Nat /\ index \in 0 .. N /\ alive \subseteq Indices
    BY <1>t DEF LoopType
  <2>. QED
    BY <2>1, RaceAssumption
<1>2. cur \in Indices /\ cur + 1 \in Nat /\ cur # index
  BY <1>0, <1>1, IndexFacts
<1>f. fate \in [Indices -> {"none", "open", "closed", "closed twice", "returned"}]
  BY <1>t DEF LoopType
<1>3. retsocket = -1
  BY <1>0, <1>2, <1>t DEF WinnerEnds
<1>n. \A i \in Indices : i >= index => i # cur
  BY <1>0, <1>1
<1>o. \A i \in Indices : /\ fate[i] = "open" <=> i \in alive /\ fsm[i].sock_
                         /\ fate[i] # "returned"
  BY <1>3, <1>t, IndexFacts DEF NoSocketLost
<1>4. CASE cur \notin alive
  <2>1. cur' = cur + 1 /\ UNCHANGED <<fsm, alive, fate, retsocket>>
    BY <1>4 DEF Attempt
  <2>2. LoopType'
    BY <1>0, <1>2, <1>t, <2>1 DEF LoopType
  <2>. QED
    BY <1>0, <1>3, <1>t, <2>1, <2>2
       DEF Inductive, NotStarted, AliveSound, DeletedClosed, WinnerEnds, NoSocketLost, WinnerIsGood,
           DeadlinesAhead, NextAhead
<1>5. CASE cur \in alive
  <2>1. PICK again \in BOOLEAN : \E f \in AfterSelect(fsm[cur], events[cur], now, again) :
          \/ Fails(f) /\ Delete(cur, f) /\ cur' = cur + 1 /\ UNCHANGED retsocket
          \/ Wins(f) /\ Return(cur, f) /\ cur' = index
          \/ /\ fsm' = [fsm EXCEPT ![cur] = f] /\ cur' = cur + 1
             /\ ~Fails(f) /\ UNCHANGED <<alive, fate, retsocket>>
    BY <1>5 DEF Attempt
  <2>2. PICK f \in AfterSelect(fsm[cur], events[cur], now, again) :
          \/ Fails(f) /\ Delete(cur, f) /\ cur' = cur + 1 /\ UNCHANGED retsocket
          \/ Wins(f) /\ Return(cur, f) /\ cur' = index
          \/ /\ fsm' = [fsm EXCEPT ![cur] = f] /\ cur' = cur + 1
             /\ ~Fails(f) /\ UNCHANGED <<alive, fate, retsocket>>
    BY <2>1
  <2>3. Follows(fsm[cur], f)
    <3>1. fsm[cur] \in Machines /\ Sound(fsm[cur]) /\ now \in Nat
      BY <1>2, <1>5, <1>t DEF AliveSound, LoopType
    <3>. QED
      BY <3>1, AfterSelectGives
  <2>4. f \in Machines /\ Sound(f) /\ f.sock_ = fsm[cur].sock_
    BY <2>3 DEF Follows
  <2>5. CASE Fails(f) /\ Delete(cur, f) /\ cur' = cur + 1 /\ UNCHANGED retsocket
    <3>1. PICK g : g = Close(Close(f, TRUE), FALSE)
      OBVIOUS
    <3>2. g \in Machines /\ ~g.sock_
      <4>1. Close(f, TRUE) \in Machines
        BY <2>4, CloseCloses
      <4>. QED
        BY <3>1, <4>1, CloseCloses
    <3>3. /\ fsm' = [fsm EXCEPT ![cur] = g] /\ alive' = alive \ {cur}
          /\ fate' = IF f.sock_ THEN Closed(cur) ELSE fate
      BY <2>5, <3>1 DEF Delete
    <3>4. /\ fsm' \in [Indices -> Machines] /\ fsm'[cur] = g
          /\ \A i \in Indices \ {cur} : fsm'[i] = fsm[i]
      BY <1>2, <1>t, <3>2, <3>3
    <3>5. /\ fate' \in [Indices -> {"none", "open", "closed", "closed twice", "returned"}]
          /\ \A i \in Indices \ {cur} : fate'[i] = fate[i]
          /\ fate'[cur] \notin {"open", "returned"}
      <4>1. CASE f.sock_
        <5>1. fate[cur] = "open"
          BY <1>2, <1>5, <1>o, <2>4, <4>1
        <5>2. fate' = [fate EXCEPT ![cur] = "closed"]
          BY <3>3, <4>1, <5>1 DEF Closed
        <5>. QED
          BY <1>2, <1>f, <5>2
      <4>2. CASE ~f.sock_
        BY <1>2, <1>f, <1>o, <2>4, <3>3, <4>2
      <4>. QED
        BY <4>1, <4>2
    <3>6. LoopType'
      BY <1>0, <1>2, <1>t, <2>5, <3>3, <3>5 DEF LoopType
    <3>7. NotStarted' /\ AliveSound' /\ DeletedClosed'
      BY <1>0, <1>1, <1>2, <1>n, <1>t, <3>2, <3>3, <3>4, <3>5
         DEF NotStarted, AliveSound, DeletedClosed
    <3>8. NoSocketLost' /\ WinnerEnds' /\ WinnerIsGood'
      BY <1>2, <1>3, <1>o, <2>5, <3>2, <3>3, <3>4, <3>5, IndexFacts
         DEF NoSocketLost, WinnerEnds, WinnerIsGood
    <3>9. DeadlinesAhead' /\ NextAhead'
      BY <1>0, <1>1, <1>t, <3>3, <3>4 DEF DeadlinesAhead, NextAhead
    <3>. QED
      BY <3>4, <3>6, <3>7, <3>8, <3>9 DEF Inductive
  <2>6. CASE Wins(f) /\ Return(cur, f) /\ cur' = index
    <3>1. PICK g : g = [f EXCEPT !.sock_ = FALSE]
      OBVIOUS
    <3>2. /\ g \in Machines /\ ~g.sock_ /\ g.check = "OK" /\ g.told = "connected"
          /\ g.error_ = "none"
      BY <2>4, <2>6, <3>1 DEF Machines, Wins, Sound
    <3>3. /\ fsm' = [fsm EXCEPT ![cur] = g] /\ alive' = alive \ {cur} /\ retsocket' = cur
          /\ fate' = [fate EXCEPT ![cur] = "returned"]
      BY <2>6, <3>1 DEF Return
    <3>4. /\ fsm' \in [Indices -> Machines] /\ fsm'[cur] = g
          /\ \A i \in Indices \ {cur} : fsm'[i] = fsm[i]
      BY <1>2, <1>t, <3>2, <3>3
    <3>5. /\ fate' \in [Indices -> {"none", "open", "closed", "closed twice", "returned"}]
          /\ fate'[cur] = "returned" /\ \A i \in Indices \ {cur} : fate'[i] = fate[i]
      BY <1>2, <1>f, <3>3
    <3>6. LoopType'
      BY <1>0, <1>1, <1>2, <1>t, <2>6, <3>3, <3>5 DEF LoopType
    <3>7. NotStarted' /\ AliveSound' /\ DeletedClosed'
      BY <1>0, <1>1, <1>2, <1>n, <1>t, <3>2, <3>3, <3>4, <3>5, ZenonT(60)
         DEF NotStarted, AliveSound, DeletedClosed
    <3>8. NoSocketLost' /\ WinnerIsGood'
      BY <1>2, <1>o, <3>2, <3>3, <3>4, <3>5 DEF NoSocketLost, WinnerIsGood
    <3>9. WinnerEnds'
      BY <1>0, <2>6, <3>3 DEF WinnerEnds
    <3>10. DeadlinesAhead' /\ NextAhead'
      BY <1>0, <1>1, <1>t, <3>3, <3>4 DEF DeadlinesAhead, NextAhead
    <3>. QED
      BY <3>4, <3>6, <3>7, <3>8, <3>9, <3>10 DEF Inductive
  <2>7. CASE /\ fsm' = [fsm EXCEPT ![cur] = f] /\ cur' = cur + 1
             /\ ~Fails(f) /\ UNCHANGED <<alive, fate, retsocket>>
    <3>1. /\ fsm' \in [Indices -> Machines] /\ fsm'[cur] = f
          /\ \A i \in Indices \ {cur} : fsm'[i] = fsm[i]
      BY <1>2, <1>t, <2>4, <2>7
    <3>2. LoopType'
      BY <1>0, <1>2, <1>t, <2>7 DEF LoopType
    <3>3. NotStarted' /\ AliveSound' /\ DeletedClosed'
      BY <1>0, <1>1, <1>2, <1>5, <1>n, <1>t, <2>4, <2>7, <3>1
         DEF NotStarted, AliveSound, DeletedClosed
    <3>4. NoSocketLost' /\ WinnerEnds' /\ WinnerIsGood'
      BY <1>2, <1>3, <1>o, <2>4, <2>7, <3>1, IndexFacts DEF NoSocketLost, WinnerEnds, WinnerIsGood
    <3>5. f.status_ = "Connecting" => f = fsm[cur]
      BY <2>3 DEF Follows
    <3>6. DeadlinesAhead' /\ NextAhead'
      BY <1>0, <1>1, <1>5, <1>t, <2>7, <3>1, <3>5 DEF DeadlinesAhead, NextAhead
    <3>. QED
      BY <3>1, <3>2, <3>3, <3>4, <3>6 DEF Inductive
  <2>. QED
    BY <2>2, <2>5, <2>6, <2>7
<1>. QED
  BY <1>4, <1>5

\* So does the end of a turn.
LEMMA EndOfTurnStep == Inductive /\ EndOfTurn => Inductive'
<1>. SUFFICES ASSUME Inductive, EndOfTurn PROVE Inductive'
  OBVIOUS
<1>t. /\ LoopType /\ fsm \in [Indices -> Machines]
      /\ NotStarted /\ AliveSound /\ DeletedClosed /\ WinnerEnds
      /\ NoSocketLost /\ WinnerIsGood /\ DeadlinesAhead /\ NextAhead
  BY DEF Inductive
<1>1. /\ pc = "after" /\ pc' \in {"close", "turn"} /\ (retsocket # -1 => pc' = "close")
      /\ cur' = 0 /\ timeout' = 0 /\ until' = -1
      /\ UNCHANGED <<fsm, alive, index, laststart, retsocket, now, fate>>
  BY DEF EndOfTurn, loopVars
<1>2. LoopType'
  <2>1. cur' \in Nat /\ timeout' \in Nat /\ until' \in Int
    BY <1>1
  <2>2. pc' \in {"turn", "select", "after", "close", "done"}
    BY <1>1
  <2>. QED
    BY <1>1, <1>t, <2>1, <2>2 DEF LoopType
<1>3. NotStarted' /\ AliveSound' /\ DeletedClosed' /\ NoSocketLost' /\ WinnerIsGood'
  BY <1>1, <1>t DEF NotStarted, AliveSound, DeletedClosed, NoSocketLost, WinnerIsGood
<1>4. WinnerEnds' /\ DeadlinesAhead' /\ NextAhead'
  BY <1>1, <1>t DEF WinnerEnds, DeadlinesAhead, NextAhead
<1>. QED
  BY <1>1, <1>t, <1>2, <1>3, <1>4 DEF Inductive

\* So does the end of TryConnect, which closes all machines but the winner.
LEMMA CloseAllStep == Inductive /\ CloseAll => Inductive'
<1>. SUFFICES ASSUME Inductive, CloseAll PROVE Inductive'
  OBVIOUS
<1>t. /\ LoopType /\ fsm \in [Indices -> Machines]
      /\ NotStarted /\ AliveSound /\ DeletedClosed /\ WinnerEnds
      /\ NoSocketLost /\ WinnerIsGood /\ DeadlinesAhead /\ NextAhead
  BY DEF Inductive
<1>1. /\ fsm' = [i \in Indices |-> IF i \in alive THEN Close(Close(fsm[i], TRUE), FALSE) ELSE fsm[i]]
      /\ fate' = [i \in Indices |-> IF i \in alive /\ fsm[i].sock_ THEN Closed(i)[i] ELSE fate[i]]
      /\ pc = "close" /\ pc' = "done" /\ alive' = {}
      /\ UNCHANGED <<index, laststart, retsocket, now, timeout, cur, until>>
  BY DEF CloseAll, loopVars
<1>f. fate \in [Indices -> {"none", "open", "closed", "closed twice", "returned"}]
  BY <1>t DEF LoopType
<1>2. ASSUME NEW i \in Indices
      PROVE  /\ fsm'[i] \in Machines /\ ~fsm'[i].sock_
             /\ ~(i \in alive /\ fsm[i].sock_) => fsm'[i] = fsm[i] /\ fate'[i] = fate[i]
             /\ i \in alive /\ fsm[i].sock_ => fate[i] = "open" /\ fate'[i] = "closed"
  <2>1. fsm[i] \in Machines
    BY <1>t
  <2>2. CASE i \in alive
    <3>1. PICK g : g = Close(fsm[i], TRUE)
      OBVIOUS
    <3>2. g \in Machines /\ (~fsm[i].sock_ => g = fsm[i])
      BY <2>1, <3>1, CloseCloses
    <3>3. fsm'[i] = Close(g, FALSE)
      BY <1>1, <2>2, <3>1
    <3>4. fsm'[i] \in Machines /\ ~fsm'[i].sock_ /\ (~fsm[i].sock_ => fsm'[i] = fsm[i])
      BY <3>2, <3>3, CloseCloses, ZenonT(60)
    <3>5. fsm[i].sock_ => fate[i] = "open"
      BY <1>t, <2>2 DEF NoSocketLost
    <3>6. fsm[i].sock_ => fate'[i] = "closed"
      BY <1>1, <1>f, <2>2, <3>5 DEF Closed
    <3>7. ~fsm[i].sock_ => fate'[i] = fate[i]
      BY <1>1
    <3>. QED
      BY <2>2, <3>4, <3>5, <3>6, <3>7
  <2>3. CASE i \notin alive
    <3>1. fsm'[i] = fsm[i] /\ fate'[i] = fate[i] /\ ~fsm[i].sock_
      BY <1>1, <1>t, <2>3 DEF DeletedClosed
    <3>. QED
      BY <2>1, <2>3, <3>1
  <2>. QED
    BY <2>2, <2>3
<1>3. fsm' \in [Indices -> Machines]
  BY <1>1, <1>2
<1>4. LoopType'
  <2>1. fate' \in [Indices -> {"none", "open", "closed", "closed twice", "returned"}]
    <3>1. \A i \in Indices : fate'[i] \in {"none", "open", "closed", "closed twice", "returned"}
      BY <1>2, <1>f
    <3>. QED
      BY <1>1, <3>1
  <2>. QED
    BY <1>1, <1>t, <2>1 DEF LoopType
<1>5. NotStarted' /\ AliveSound' /\ DeletedClosed'
  BY <1>1, <1>2, <1>t DEF NotStarted, AliveSound, DeletedClosed
<1>6. NoSocketLost'
  <2>1. ASSUME NEW i \in Indices
        PROVE  fate'[i] # "open" /\ (fate'[i] = "returned" <=> retsocket = i)
    BY <1>2, <1>t DEF NoSocketLost
  <2>. QED
    BY <1>1, <2>1 DEF NoSocketLost
<1>7. WinnerEnds' /\ WinnerIsGood'
  <2>1. retsocket # -1 => retsocket \in Indices /\ retsocket \notin alive
    BY <1>t DEF LoopType, WinnerEnds
  <2>2. retsocket # -1 => fsm'[retsocket] = fsm[retsocket]
    BY <1>2, <2>1
  <2>. QED
    BY <1>1, <1>t, <2>2 DEF WinnerEnds, WinnerIsGood
<1>8. DeadlinesAhead' /\ NextAhead'
  BY <1>1 DEF DeadlinesAhead, NextAhead
<1>. QED
  BY <1>3, <1>4, <1>5, <1>6, <1>7, <1>8 DEF Inductive

\* No step of TryConnect breaks the invariant.
LEMMA InductiveStep == Inductive /\ [Next]_vars => Inductive'
<1>. SUFFICES ASSUME Inductive, [Next]_vars PROVE Inductive'
  OBVIOUS
<1>1. CASE TryConnect
  BY <1>1, TurnStep, SelectStep, AttemptStep, EndOfTurnStep, CloseAllStep DEF TryConnect
<1>2. CASE UserBreak \/ UNCHANGED vars
  <2>1. UNCHANGED <<pc, fsm, alive, index, laststart, retsocket, now, timeout, cur, fate, until>>
    BY <1>2 DEF UserBreak, vars, loopVars
  <2>. QED
    BY <2>1 DEF Inductive, LoopType, NotStarted, AliveSound, DeletedClosed, WinnerEnds,
                NoSocketLost, WinnerIsGood, DeadlinesAhead, NextAhead
<1>. QED
  BY <1>1, <1>2 DEF Next

\* The race's invariants hold in every behaviour, whatever the number of addresses, the
\* intervals, the timeouts and the answers of the peers (complexconnect.cc 97-275).
THEOREM InductiveHolds == Spec => []Inductive
BY InductiveInit, InductiveStep, PTL DEF Spec

\* No socket of the race is lost or closed twice, and the one handed to the caller is neither
\* closed nor kept (complexconnect.cc 210-275, tcpclient_fsm.cc 22-25, 72-93).
THEOREM SocketsKept == Spec => []NoSocketLost
<1>1. Inductive => NoSocketLost
  BY DEF Inductive
<1>. QED
  BY <1>1, InductiveHolds, PTL

\* The socket that TryConnect returns belongs to a machine that is connected and verified
\* and of which the observer was told just that (complexconnect.cc 239).
THEOREM WinnerVerified == Spec => []WinnerIsGood
<1>1. Inductive => WinnerIsGood
  BY DEF Inductive
<1>. QED
  BY <1>1, InductiveHolds, PTL

\* poll never sleeps past the deadline of a connect or past the time at which the next
\* attempt is due (complexconnect.cc 151-190).
THEOREM NeverOversleeps == Spec => []NoOversleep
<1>1. Inductive => NoOversleep
  <2>. SUFFICES ASSUME Inductive PROVE NoOversleep
    OBVIOUS
  <2>1. now \in Nat /\ timeout \in Nat /\ until \in Int /\ alive \subseteq Indices
    BY DEF Inductive, LoopType
  <2>2. DeadlinesKept
    <3>1. ASSUME pc = "after", NEW i \in alive, fsm[i].status_ = "Connecting"
          PROVE  TimeLeft(fsm[i], now, 0) >= 0
      <4>1. fsm[i] \in Machines /\ fsm[i].start + Timeout >= now
        BY <2>1, <3>1 DEF Inductive, DeadlinesAhead
      <4>2. fsm[i].start \in Nat
        BY <4>1 DEF Machines
      <4>3. TimeLeft(fsm[i], now, 0) = fsm[i].start + Timeout - now
        BY <2>1, <3>1, <4>1, TimeLeftBounded
      <4>. QED
        BY <2>1, <4>1, <4>2, <4>3, TimeAssumption
    <3>. QED
      BY <3>1 DEF DeadlinesKept
  <2>3. NextOnTime
    <3>1. ASSUME pc = "after", until # -1 PROVE now <= LargerOf(until, now - timeout)
      <4>1. CASE timeout > 0
        <5>1. now <= until
          BY <3>1, <4>1 DEF Inductive, NextAhead
        <5>. QED
          BY <2>1, <5>1 DEF LargerOf
      <4>2. CASE timeout = 0
        BY <2>1, <4>2 DEF LargerOf
      <4>. QED
        BY <2>1, <4>1, <4>2
    <3>. QED
      BY <3>1 DEF NextOnTime
  <2>. QED
    BY <2>2, <2>3 DEF NoOversleep
<1>. QED
  BY <1>1, InductiveHolds, PTL
===============================================================================
