----------------------------- MODULE TcpClientFSM -----------------------------
(***************************************************************************)
(* TcpClientFSM (network/tcpclient_fsm.cc) with the overrides of           *)
(* ConnectCheckFSM (network/complexconnect.cc): one non-blocking           *)
(* connection driven by PreSelect, poll and AfterSelect.                   *)
(*                                                                         *)
(* A machine is a record; an operation is the set of machines it may leave *)
(* behind, because the system calls it makes have several outcomes.  The   *)
(* bytes of send_buf_ are counted, those of recv_buf_ only matter for what *)
(* the observer makes of them.  RequestSend is called by nobody in the     *)
(* repository, so request_send_ stays false and is left out.               *)
(***************************************************************************)
EXTENDS Integers, FiniteSets

CONSTANTS Timeout,      \* timeout_: how long a connect may take
          RwFloor,      \* the 1000 ms that a verification gets at least
          SendLen       \* bytes OnVerifySend puts into send_buf_

ASSUME TimeAssumption == Timeout \in Nat /\ RwFloor \in Nat /\ SendLen \in Nat \ {0}

\* Status(), Error(), CheckStatus(), the socket, the clock readings, and what
\* the observer has been told: OnConnected (with or without an error).
FSM == [ status_ : {"Start", "Connecting", "ReadWrite", "End"},
         last_status_ : {"Start", "Connecting", "ReadWrite"},
         error_ : {"none", "error", "timeout"},
         remote_close_ : BOOLEAN,
         sock_ : BOOLEAN,
         send_buf_ : 0 .. SendLen,
         check : {"Init", "OK", "Fail"},
         start : Nat, end : Nat,
         told : {"nothing", "connected", "failed", "both"} ]

\* The constructor: an observer that wants no verification makes it OK at once.
NewFSM(verify) ==
    [ status_ |-> "Start", last_status_ |-> "Start", error_ |-> "none", remote_close_ |-> FALSE,
      sock_ |-> FALSE, send_buf_ |-> 0, check |-> IF verify THEN "Init" ELSE "OK",
      start |-> 0, end |-> 0, told |-> "nothing" ]

Tell(f, what) == [f EXCEPT !.told = IF @ = "nothing" THEN what ELSE "both"]

\* _OnClose: a failed connect is reported, unless the user closed.
OnClose(f, status, userclose) ==
    IF ~userclose /\ status = "Connecting" THEN Tell(f, "failed") ELSE f

\* Status becomes EEnd with an error; the old status is kept in last_status_.
EndWith(f, e) == [f EXCEPT !.last_status_ = f.status_, !.status_ = "End", !.error_ = e]

-------------------------------------------------------------------------------
(* PreSelect.                                                               *)

\* PreConnectSelect: socket(), socket_set_nobio() and connect() may fail, the
\* first two of them with a call of _OnClose.
PreConnectSelect(f, now) ==
    LET opened == [f EXCEPT !.sock_ = TRUE]
        tried  == [opened EXCEPT !.start = now]
    IN  { OnClose(EndWith(f, "error"), "Start", FALSE),
          OnClose(EndWith(opened, "error"), "Start", FALSE),
          EndWith([tried EXCEPT !.end = now], "error"),
          [tried EXCEPT !.status_ = "Connecting", !.last_status_ = "Start"] }

PreSelect(f, now) == IF f.status_ = "Start" THEN PreConnectSelect(f, now) ELSE {f}

\* What poll is asked for.  POLLERR is always reported.
Interest(f) ==
    CASE f.status_ = "Connecting" -> {"out"}
      [] f.status_ = "ReadWrite"  -> {"in"} \cup (IF f.send_buf_ > 0 THEN {"out"} ELSE {})
      [] OTHER                    -> {}

\* Rtt() and the time a verification may take.
Rtt(f) == f.end - f.start
SmallerOf(a, b) == IF a < b THEN a ELSE b
LargerOf(a, b) == IF a > b THEN a ELSE b
ReadWriteAbsTimeout(f) == LargerOf(RwFloor, SmallerOf(6 * Rtt(f), Timeout - Rtt(f)))

\* Timeout(): what is left, with Forever for INT_MAX.
TimeLeft(f, now, Forever) ==
    CASE f.status_ = "Connecting" -> f.start + Timeout - now
      [] f.status_ = "ReadWrite"  -> f.end + ReadWriteAbsTimeout(f) - now
      [] f.status_ = "End"        -> 0
      [] OTHER                    -> Forever
-------------------------------------------------------------------------------
(* AfterSelect, with the events poll reported for the socket.               *)

\* _OnConnected: the observer is told, and asked what to send for verification.
OnConnected(f) ==
    LET g == Tell(f, "connected")
    IN  IF f.check = "OK" THEN {g}
        ELSE {[g EXCEPT !.check = "Fail"], [g EXCEPT !.send_buf_ = SendLen]}

\* Mutant: no look at the clock.
AfterConnectPatient(f, ev, now) ==
    IF "err" \in ev THEN {EndWith([f EXCEPT !.end = now], "error")}
    ELSE IF "out" \in ev THEN OnConnected([f EXCEPT !.end = now, !.last_status_ = "Connecting",
                                                     !.status_ = "ReadWrite"])
    ELSE {f}

\* An error found by poll or by socket_error(), which looks again; then success;
\* then the timeout.
AfterConnectSelect(f, ev, now) ==
    {EndWith([f EXCEPT !.end = now], "error")} \cup
    ( IF "err" \in ev THEN {}
      ELSE IF "out" \in ev THEN OnConnected([f EXCEPT !.end = now, !.last_status_ = "Connecting",
                                                      !.status_ = "ReadWrite"])
      ELSE IF f.start + Timeout - now <= 0 THEN {EndWith([f EXCEPT !.end = now], "timeout")}
      ELSE {f} )

\* send() takes some bytes, or fails, or, if again, takes none for now.
SendHalf(f, ev, again) ==
    IF "out" \in ev
    THEN {[f EXCEPT !.send_buf_ = n] : n \in 0 .. f.send_buf_ - 1}
         \cup {EndWith(f, "error")} \cup (IF again THEN {f} ELSE {})
    ELSE {f}

\* recv() gives data, which the observer accepts or not, or the end of the
\* stream, or fails, or, if again, has nothing to give after all.
RecvHalf(f, ev, again) ==
    IF f.status_ = "End" \/ "in" \notin ev THEN {f}
    ELSE { [f EXCEPT !.check = c] : c \in IF f.check = "OK" THEN {"OK"} ELSE {"OK", "Fail"} }
         \cup {[EndWith(f, "none") EXCEPT !.remote_close_ = TRUE], EndWith(f, "error")}
         \cup (IF again THEN {f} ELSE {})

AfterReadWriteSelect(f, ev, now, again) ==
    IF "err" \in ev THEN {EndWith(f, "error")}
    ELSE IF ev \cap {"in", "out"} # {}
         THEN UNION {RecvHalf(g, ev, again) : g \in SendHalf(f, ev, again)}
    ELSE IF f.end + ReadWriteAbsTimeout(f) - now <= 0 THEN {EndWith(f, "timeout")}
    ELSE {f}

\* A machine that has ended and still has its socket is reported by _OnClose.
AfterSelect(f, ev, now, again) ==
    { IF g.status_ = "End" /\ g.sock_ THEN OnClose(g, g.last_status_, FALSE) ELSE g :
        g \in CASE f.status_ = "Connecting" -> AfterConnectSelect(f, ev, now)
                [] f.status_ = "ReadWrite"  -> AfterReadWriteSelect(f, ev, now, again)
                [] OTHER                    -> {f} }

\* Close(_notify): the third argument of _OnClose, _userclose, is remote_close_.
Close(f, notify) ==
    IF ~f.sock_ THEN f
    ELSE IF f.remote_close_ \/ f.error_ # "none" THEN [f EXCEPT !.sock_ = FALSE]
    ELSE LET g == [f EXCEPT !.sock_ = FALSE, !.last_status_ = f.status_, !.status_ = "End"]
         IN  IF notify THEN OnClose(g, g.last_status_, f.remote_close_) ELSE g
===============================================================================
