------------------------------ MODULE TcpClient ------------------------------
(***************************************************************************)
(* TcpClient (network/tcpclient.cc): a TCP connection served by a thread   *)
(* of its own.  Users call Connect, Disconnect, DisconnectAndWait, Read    *)
(* and Write from any thread; the worker (__Run) polls the socket together *)
(* with the breaker, reports events to MTcpEvent and sends the queued      *)
(* buffers.  Users tell the worker of a change of have_read_date_,         *)
(* will_disconnect_ or lst_buffer_ by a Break; the worker reads the first  *)
(* two without a lock.                                                     *)
(*                                                                         *)
(* Data.  A buffer is its number, its length and its position; the bytes   *)
(* the kernel took are the sequence stream of buffer numbers.  The socket  *)
(* is conn (what connect() made of it), rx (unread bytes), fin (the peer   *)
(* closed), err (a pending error) and writable.  The user "Callback", if   *)
(* it is one of Users, is an observer that calls back into the client from *)
(* inside an MTcpEvent method.                                             *)
(***************************************************************************)
EXTENDS SocketSelectBreaker, Integers, Sequences, FiniteSets, SequencesExt

CONSTANTS Users,        \* threads that call the client, and "Callback"
          MaxWrites,    \* bound: calls of Write that are accepted
          MaxLen,       \* bound: length of a buffer
          MaxRx,        \* bound: bytes the peer sends in all
          MaxFills,     \* bound: times the send buffer is full
          Faults        \* what may go wrong: "close", "error", "interrupt"

ASSUME BoundsAssumption ==
    /\ MaxWrites \in Nat /\ MaxLen \in Nat /\ MaxRx \in Nat /\ MaxFills \in Nat
    /\ Faults \subseteq {"close", "error", "interrupt"}

None == "none"
Worker == "worker"
Callback == "Callback"

Statuses == {"Init", "InitErr", "ThreadStart", "ThreadStartErr", "Connecting", "ConnectIpErr",
             "ConnectingErr", "ConnectTimeoutErr", "Connected", "IOErr", "DisConnected"}
Ended == {"InitErr", "ThreadStartErr", "ConnectIpErr", "ConnectingErr", "ConnectTimeoutErr",
          "IOErr", "DisConnected"}

VARIABLES
    status_, have_read_date_, will_disconnect_,
    socket_,            \* "none" (INVALID_SOCKET), "open", or "closed" with its number kept
    lst_buffer_, writedbufid_, write_id,
    readMutex,          \* owner of read_disconnect_mutex_
    writeMutex,         \* owner of write_mutex_
    wpc,                \* the worker: where it is
    after,              \* where it goes when the callback returns
    want, got,          \* events poll was asked for, and events it reported
    upc,                \* the users: where each is
    sure,               \* users that called DisconnectAndWait after the thread was started
    waited,             \* one of those calls has returned
    conn, rx, fin, err, writable, sentRx, fills,
    lens, stream, wrote \* history: buffer lengths, bytes sent, the last OnWrote

clientVars == <<status_, have_read_date_, will_disconnect_, lst_buffer_, writedbufid_>>
lockVars   == <<readMutex, writeMutex>>
workVars   == <<wpc, after, want, got, write_id, socket_>>
netVars    == <<conn, rx, fin, err, writable, sentRx, fills>>
histVars   == <<lens, stream, wrote>>
userVars   == <<upc, sure, waited>>
vars == <<breakerVars, clientVars, lockVars, workVars, netVars, histVars, userVars>>

Init ==
    /\ BreakerInit
    /\ status_ = IF pipeOpen THEN "Init" ELSE "InitErr"
    /\ have_read_date_ = FALSE /\ will_disconnect_ = FALSE
    /\ socket_ = None
    /\ lst_buffer_ = <<>> /\ writedbufid_ = 0 /\ write_id = 0
    /\ readMutex = None /\ writeMutex = None
    /\ wpc = "none" /\ after = "none" /\ want = {} /\ got = {}
    /\ upc = [u \in Users |-> "idle"] /\ sure = {} /\ waited = FALSE
    /\ conn = "none" /\ rx = 0 /\ fin = FALSE /\ err = FALSE /\ writable = TRUE
    /\ sentRx = 0 /\ fills = 0
    /\ lens = <<>> /\ stream = <<>> /\ wrote = [id |-> 0, buf |-> 0]
------------------------------------------------------------------------------
(* The users.                                                              *)

isruning == wpc \notin {"none", "done"}

\* A thread may call at any time, the observer only while it is called back.
MayCall(u) == upc[u] = "idle" /\ (u = Callback => wpc = "callback")

Goto(u, l) == upc' = [upc EXCEPT ![u] = l]

\* Connect(): once, and not when the breaker could not be created.  The status
\* is set before the thread is started; pthread_create may fail.
Connect(u) ==
    /\ MayCall(u) /\ status_ = "Init"
    /\ \/ status_' = "ThreadStart" /\ wpc' = "run"
       \/ status_' = "ThreadStartErr" /\ wpc' = wpc
    /\ UNCHANGED <<breakerVars, have_read_date_, will_disconnect_, lst_buffer_, writedbufid_,
                   lockVars, after, want, got, write_id, socket_, netVars, histVars, userVars>>

\* Disconnect() and DisconnectAndWait(): a pending disconnect is not repeated.
CallDisconnect(u, wait) ==
    /\ MayCall(u) /\ (u = Callback => ~wait)
    /\ sure' = IF wait /\ wpc # "none" THEN sure \cup {u} ELSE sure \ {u}
    /\ Goto(u, CASE ~will_disconnect_       -> IF wait THEN "discWait" ELSE "disc"
                 [] will_disconnect_ /\ wait -> "isruning"
                 [] OTHER                    -> "idle")
    /\ UNCHANGED <<breakerVars, clientVars, lockVars, workVars, netVars, histVars, waited>>

DisconnectSet(u) ==
    /\ upc[u] \in {"disc", "discWait"} /\ readMutex = None
    /\ readMutex' = u
    /\ will_disconnect_' = TRUE
    /\ Goto(u, IF upc[u] = "disc" THEN "discSet" ELSE "discSetWait")
    /\ UNCHANGED <<breakerVars, status_, have_read_date_, lst_buffer_, writedbufid_, writeMutex,
                   workVars, netVars, histVars, sure, waited>>

DisconnectBreak(u) ==
    /\ upc[u] \in {"discSet", "discSetWait"}
    /\ Break
    /\ readMutex' = None
    /\ Goto(u, IF upc[u] = "discSet" THEN "idle" ELSE "isruning")
    /\ UNCHANGED <<clientVars, writeMutex, workVars, netVars, histVars, sure, waited>>

\* Mutant: the join is left out.
WaitNoJoin(u) ==
    /\ upc[u] = "isruning"
    /\ Goto(u, "idle")
    /\ waited' = (waited \/ u \in sure)
    /\ UNCHANGED <<breakerVars, clientVars, lockVars, workVars, netVars, histVars, sure>>

\* if (thread_.isruning()) thread_.join(): returns when the thread has ended.
WaitJoin(u) ==
    /\ upc[u] = "isruning" /\ ~isruning
    /\ Goto(u, "idle")
    /\ waited' = (waited \/ u \in sure)
    /\ UNCHANGED <<breakerVars, clientVars, lockVars, workVars, netVars, histVars, sure>>

\* Read(): the status is tested before the lock is taken.
CallRead(u) ==
    /\ MayCall(u) /\ status_ = "Connected"
    /\ Goto(u, "read")
    /\ UNCHANGED <<breakerVars, clientVars, lockVars, workVars, netVars, histVars, sure, waited>>

\* recv takes some of the unread bytes, under the lock.
ReadRecv(u) ==
    /\ upc[u] = "read" /\ readMutex = None
    /\ readMutex' = u
    /\ rx' \in (IF socket_ = "open" /\ rx > 0 THEN 0 .. rx - 1 ELSE {rx})
    /\ Goto(u, "recvd")
    /\ UNCHANGED <<breakerVars, clientVars, writeMutex, workVars, conn, fin, err, writable, sentRx,
                   fills, histVars, sure, waited>>

ReadDone(u) ==
    /\ upc[u] = "recvd"
    /\ have_read_date_' = FALSE
    /\ Goto(u, "readBreak")
    /\ UNCHANGED <<breakerVars, status_, will_disconnect_, lst_buffer_, writedbufid_, lockVars,
                   workVars, netVars, histVars, sure, waited>>

\* Mutant: the worker is not told that the user has read.
ReadSilent(u) ==
    /\ upc[u] = "readBreak"
    /\ readMutex' = None
    /\ Goto(u, "idle")
    /\ UNCHANGED <<breakerVars, clientVars, writeMutex, workVars, netVars, histVars, sure, waited>>

ReadBreak(u) ==
    /\ upc[u] = "readBreak"
    /\ Break
    /\ readMutex' = None
    /\ Goto(u, "idle")
    /\ UNCHANGED <<clientVars, writeMutex, workVars, netVars, histVars, sure, waited>>

\* Write() and WritePostData(): the status is tested before the lock is taken.
CallWrite(u) ==
    /\ MayCall(u) /\ status_ = "Connected"
    /\ writedbufid_ + Cardinality({v \in Users : upc[v] = "write"}) < MaxWrites
    /\ Goto(u, "write")
    /\ UNCHANGED <<breakerVars, clientVars, lockVars, workVars, netVars, histVars, sure, waited>>

\* Mutant: a new buffer goes to the front.
WritePushFront(u) ==
    /\ upc[u] = "write" /\ writeMutex = None
    /\ writeMutex' = u
    /\ \E len \in 0 .. MaxLen :
         /\ lst_buffer_' = <<[id |-> writedbufid_ + 1, len |-> len, pos |-> 0]>> \o lst_buffer_
         /\ lens' = Append(lens, len)
    /\ writedbufid_' = writedbufid_ + 1
    /\ Goto(u, "writeBreak")
    /\ UNCHANGED <<breakerVars, status_, have_read_date_, will_disconnect_, readMutex, workVars,
                   netVars, stream, wrote, sure, waited>>

WritePush(u) ==
    /\ upc[u] = "write" /\ writeMutex = None
    /\ writeMutex' = u
    /\ \E len \in 0 .. MaxLen :
         /\ lst_buffer_' = Append(lst_buffer_, [id |-> writedbufid_ + 1, len |-> len, pos |-> 0])
         /\ lens' = Append(lens, len)
    /\ writedbufid_' = writedbufid_ + 1
    /\ Goto(u, "writeBreak")
    /\ UNCHANGED <<breakerVars, status_, have_read_date_, will_disconnect_, readMutex, workVars,
                   netVars, stream, wrote, sure, waited>>

\* Mutant: the worker is not told of the new buffer.
WriteSilent(u) ==
    /\ upc[u] = "writeBreak"
    /\ writeMutex' = None
    /\ Goto(u, "idle")
    /\ UNCHANGED <<breakerVars, clientVars, readMutex, workVars, netVars, histVars, sure, waited>>

WriteBreak(u) ==
    /\ upc[u] = "writeBreak"
    /\ Break
    /\ writeMutex' = None
    /\ Goto(u, "idle")
    /\ UNCHANGED <<clientVars, readMutex, workVars, netVars, histVars, sure, waited>>

UserStep(u) == \/ DisconnectSet(u) \/ DisconnectBreak(u) \/ WaitJoin(u)
               \/ ReadRecv(u) \/ ReadDone(u) \/ ReadBreak(u)
               \/ WritePush(u) \/ WriteBreak(u)
UserCall(u) == \/ Connect(u) \/ CallRead(u) \/ CallWrite(u)
               \/ \E wait \in BOOLEAN : CallDisconnect(u, wait)
------------------------------------------------------------------------------
(* The worker.                                                             *)

\* status_ is set, the observer is told (OnError, OnDisConnect), __Run returns.
Finish(st) == /\ status_' = st
              /\ wpc' = "callback" /\ after' = "close"

\* __Run up to the first poll: resolving, socket() and connect() may each fail.
RunConnect ==
    /\ wpc = "run"
    /\ \/ Finish("ConnectIpErr") /\ UNCHANGED <<socket_, conn, want>>
       \/ Finish("ConnectingErr") /\ UNCHANGED <<socket_, conn, want>>
       \/ Finish("ConnectingErr") /\ socket_' = "open" /\ conn' = "failed" /\ UNCHANGED want
       \/ /\ status_' = "Connecting"
          /\ socket_' = "open" /\ conn' \in {"pending", "ok"}
          /\ wpc' = "pollConnect" /\ want' = {"out"} /\ UNCHANGED after
    /\ UNCHANGED <<breakerVars, have_read_date_, will_disconnect_, lst_buffer_, writedbufid_,
                   lockVars, got, write_id, rx, fin, err, writable, sentRx, fills, histVars,
                   userVars>>

\* What poll() would report now.
Ready == { e \in {"break", "err", "in", "out"} :
             \/ e = "break" /\ BreakReadable
             \/ e = "err" /\ (conn = "failed" \/ err)
             \/ e = "in" /\ "in" \in want /\ (rx > 0 \/ fin)
             \/ e = "out" /\ "out" \in want /\ conn # "pending" /\ writable }

\* poll() returns with events, with an error (EINTR), or, while connecting only,
\* on the timeout.
Poll ==
    /\ wpc \in {"pollConnect", "poll"}
    /\ \/ Ready # {} /\ got' = Ready
       \/ "interrupt" \in Faults /\ got' = {"fail"}
       \/ wpc = "pollConnect" /\ Ready = {} /\ got' = {"timeout"}
    /\ wpc' = IF wpc = "poll" THEN "clear" ELSE "clearConnect"
    /\ UNCHANGED <<breakerVars, clientVars, lockVars, after, want, write_id, socket_, netVars,
                   histVars, userVars>>

\* Select() ends with an unconditional Clear (autoclear_).
AutoClear ==
    /\ wpc \in {"clearConnect", "clear"}
    /\ Clear
    /\ wpc' = IF wpc = "clear" THEN "check" ELSE "checkConnect"
    /\ UNCHANGED <<clientVars, lockVars, after, want, got, write_id, socket_, netVars, histVars,
                   userVars>>

\* Errors first, then a disconnect, and only then OnConnect.
CheckConnect ==
    /\ wpc = "checkConnect"
    /\ \/ "timeout" \in got /\ Finish("ConnectTimeoutErr")
       \/ /\ \/ got \cap {"fail", "err"} # {}
             \/ "out" \in got /\ err
          /\ Finish("ConnectingErr")
       \/ /\ got \cap {"timeout", "fail", "err"} = {} /\ ~("out" \in got /\ err)
          /\ IF will_disconnect_ THEN Finish("DisConnected")
             ELSE /\ status_' = "Connected"
                  /\ wpc' = "callback" /\ after' = "loop"
    /\ UNCHANGED <<breakerVars, have_read_date_, will_disconnect_, lst_buffer_, writedbufid_,
                   lockVars, want, got, write_id, socket_, netVars, histVars, userVars>>

\* The head of the loop: what to poll for.  have_read_date_ is read without a
\* lock, lst_buffer_ under write_mutex_.
WantRead ==
    /\ wpc = "loop"
    /\ want' = IF have_read_date_ THEN {} ELSE {"in"}
    /\ wpc' = "want" /\ got' = {}
    /\ UNCHANGED <<breakerVars, clientVars, lockVars, after, write_id, socket_, netVars,
                   histVars, userVars>>

WantWrite ==
    /\ wpc = "want" /\ writeMutex = None
    /\ want' = IF lst_buffer_ # <<>> THEN want \cup {"out"} ELSE want
    /\ wpc' = "poll"
    /\ UNCHANGED <<breakerVars, clientVars, lockVars, after, got, write_id, socket_, netVars,
                   histVars, userVars>>

\* Where the loop goes when the read half is over.
WriteHalf == IF "out" \in got THEN "send" ELSE "loop"

Check ==
    /\ wpc = "check"
    /\ IF "fail" \in got THEN Finish("IOErr")
       ELSE IF will_disconnect_ THEN Finish("DisConnected")
       ELSE IF "err" \in got THEN Finish("IOErr")
       ELSE /\ wpc' = IF "in" \in got THEN "peek" ELSE WriteHalf
            /\ UNCHANGED <<status_, after>>
    /\ UNCHANGED <<breakerVars, have_read_date_, will_disconnect_, lst_buffer_, writedbufid_,
                   lockVars, want, got, write_id, socket_, netVars, histVars, userVars>>

\* The read half: peek one byte under read_disconnect_mutex_, report outside it.
Peek ==
    /\ wpc = "peek" /\ readMutex = None
    /\ \/ /\ rx > 0
          /\ have_read_date_' = TRUE
          /\ wpc' = "callback" /\ after' = WriteHalf /\ UNCHANGED status_
       \/ /\ rx = 0 /\ fin /\ ~err
          /\ have_read_date_' = FALSE
          /\ Finish("DisConnected")
       \/ /\ rx = 0 /\ ~fin /\ ~err
          /\ wpc' = WriteHalf /\ UNCHANGED <<status_, have_read_date_, after>>
       \/ /\ err
          /\ Finish("IOErr") /\ UNCHANGED have_read_date_
    /\ UNCHANGED <<breakerVars, will_disconnect_, lst_buffer_, writedbufid_, lockVars, want, got,
                   write_id, socket_, netVars, histVars, userVars>>

\* The write half: send a part of the first buffer; once nothing of it is left,
\* a later turn removes it and reports OnWrote outside the lock.
SendSome ==
    /\ wpc = "send" /\ writeMutex = None /\ lst_buffer_ # <<>>
    /\ Head(lst_buffer_).pos < Head(lst_buffer_).len
    /\ \/ /\ writable /\ ~err
          /\ \E k \in 1 .. Head(lst_buffer_).len - Head(lst_buffer_).pos :
               /\ lst_buffer_' = [lst_buffer_ EXCEPT ![1].pos = @ + k]
               /\ stream' = stream \o [i \in 1 .. k |-> Head(lst_buffer_).id]
          /\ wpc' = "loop" /\ UNCHANGED <<status_, after>>
       \/ /\ ~writable /\ ~err
          /\ wpc' = "loop" /\ UNCHANGED <<status_, after, lst_buffer_, stream>>
       \/ /\ err
          /\ Finish("IOErr") /\ UNCHANGED <<lst_buffer_, stream>>
    /\ UNCHANGED <<breakerVars, have_read_date_, will_disconnect_, writedbufid_, lockVars, want,
                   got, write_id, socket_, netVars, lens, wrote, userVars>>

\* Nothing of the buffer is left to send.
BufferSent(b) == b.pos >= b.len

SendDone ==
    /\ wpc = "send" /\ writeMutex = None /\ lst_buffer_ # <<>>
    /\ BufferSent(Head(lst_buffer_))
    /\ lst_buffer_' = Tail(lst_buffer_)
    /\ write_id' = write_id + 1
    /\ wrote' = [id |-> write_id + 1, buf |-> Head(lst_buffer_).id]
    /\ wpc' = "callback" /\ after' = "wrote"
    /\ UNCHANGED <<breakerVars, status_, have_read_date_, will_disconnect_, writedbufid_, lockVars,
                   want, got, socket_, netVars, lens, stream, userVars>>

\* lock again; OnAllWrote when the queue is empty.
AllWrote ==
    /\ wpc = "wrote" /\ writeMutex = None
    /\ IF lst_buffer_ = <<>> THEN wpc' = "callback" /\ after' = "loop"
                             ELSE wpc' = "loop" /\ UNCHANGED after
    /\ UNCHANGED <<breakerVars, clientVars, lockVars, want, got, write_id, socket_, netVars,
                   histVars, userVars>>

\* The observer's method returns.
CallbackReturn ==
    /\ wpc = "callback" /\ (Callback \in Users => upc[Callback] = "idle")
    /\ wpc' = after /\ after' = "none"
    /\ UNCHANGED <<breakerVars, clientVars, lockVars, want, got, write_id, socket_, netVars,
                   histVars, userVars>>

\* __RunThread: the socket is closed, then the member is reset, under no lock.
CloseSocket ==
    /\ wpc = "close"
    /\ IF socket_ = "open" THEN socket_' = "closed" /\ wpc' = "reset"
                           ELSE wpc' = "done" /\ UNCHANGED socket_
    /\ UNCHANGED <<breakerVars, clientVars, lockVars, after, want, got, write_id, netVars, histVars,
                   userVars>>

ResetSocket ==
    /\ wpc = "reset"
    /\ socket_' = None /\ wpc' = "done"
    /\ UNCHANGED <<breakerVars, clientVars, lockVars, after, want, got, write_id, netVars, histVars,
                   userVars>>

WorkerStep == \/ RunConnect \/ Poll \/ AutoClear \/ CheckConnect \/ WantRead \/ WantWrite
              \/ Check \/ Peek \/ SendSome \/ SendDone \/ AllWrote \/ CallbackReturn
              \/ CloseSocket \/ ResetSocket
------------------------------------------------------------------------------
(* The network.                                                            *)

Net(connN, rxN, finN, errN, writableN, sentN, fillsN) ==
    /\ conn' = connN /\ rx' = rxN /\ fin' = finN /\ err' = errN /\ writable' = writableN
    /\ sentRx' = sentN /\ fills' = fillsN
    /\ UNCHANGED <<breakerVars, clientVars, lockVars, workVars, histVars, userVars>>

ConnectResolves == /\ conn = "pending"
                   /\ \E c \in {"ok", "failed"} : Net(c, rx, fin, err, writable, sentRx, fills)
PeerSends == /\ conn = "ok" /\ ~fin /\ ~err /\ sentRx < MaxRx
             /\ Net(conn, rx + 1, fin, err, writable, sentRx + 1, fills)
PeerCloses == /\ "close" \in Faults /\ conn = "ok" /\ ~fin
              /\ Net(conn, rx, TRUE, err, writable, sentRx, fills)
NetFails == /\ "error" \in Faults /\ conn = "ok" /\ ~err
            /\ Net(conn, rx, fin, TRUE, writable, sentRx, fills)
SendBufferFills == /\ conn = "ok" /\ writable /\ fills < MaxFills
                   /\ Net(conn, rx, fin, err, FALSE, sentRx, fills + 1)
SendBufferDrains == ~writable /\ Net(conn, rx, fin, err, TRUE, sentRx, fills)

NetStep == \/ ConnectResolves \/ PeerSends \/ PeerCloses \/ NetFails
           \/ SendBufferFills \/ SendBufferDrains

Next == \/ \E u \in Users : UserCall(u) \/ UserStep(u)
        \/ WorkerStep
        \/ NetStep

Spec == Init /\ [][Next]_vars

\* Threads run, mutexes are handed over in the end, an observer's method returns
\* and the peer reads what it is sent.
Fairness == /\ SF_vars(WorkerStep)
            /\ \A u \in Users : SF_vars(UserStep(u))
            /\ WF_vars(SendBufferDrains)

FairSpec == Spec /\ Fairness
------------------------------------------------------------------------------
(* Properties.                                                             *)

WorkerPcs == {"none", "run", "pollConnect", "clearConnect", "checkConnect", "callback", "loop",
              "want", "poll", "clear", "check", "peek", "send", "wrote", "close", "reset", "done"}
UserPcs == {"idle", "disc", "discWait", "discSet", "discSetWait", "isruning", "read", "recvd",
            "readBreak", "write", "writeBreak"}

\* The values every variable takes; the send queue holds buffers in the order of
\* the numbers Write returned.
TypeOK ==
    /\ BreakerTypeOK
    /\ status_ \in Statuses
    /\ have_read_date_ \in BOOLEAN /\ will_disconnect_ \in BOOLEAN
    /\ socket_ \in {None, "open", "closed"}
    /\ writedbufid_ \in 0 .. MaxWrites /\ write_id \in 0 .. MaxWrites
    /\ \A i \in DOMAIN lst_buffer_ : lst_buffer_[i].pos \in 0 .. lst_buffer_[i].len
    /\ readMutex \in Users \cup {None} /\ writeMutex \in Users \cup {None}
    /\ wpc \in WorkerPcs /\ after \in WorkerPcs
    /\ want \subseteq {"in", "out"}
    /\ got \subseteq {"break", "err", "in", "out", "fail", "timeout"}
    /\ upc \in [Users -> UserPcs] /\ sure \subseteq Users /\ waited \in BOOLEAN
    /\ conn \in {"none", "pending", "ok", "failed"} /\ rx \in 0 .. MaxRx /\ sentRx \in 0 .. MaxRx
    /\ {fin, err, writable} \subseteq BOOLEAN /\ fills \in 0 .. MaxFills

\* Someone is about to send a break.
Breaking(pcs) == \E u \in Users : upc[u] \in pcs

\* The worker does not sleep in poll on stale interest (tcpclient.cc 215-227):
\* when a user has read, has queued a buffer or wants to disconnect after the
\* worker looked, a break is in the pipe or that user is about to send it.
NoStaleSleep ==
    wpc \in {"poll", "pollConnect"} =>
      /\ wpc = "poll" /\ ~have_read_date_ /\ "in" \notin want => BreakReadable \/ Breaking({"readBreak"})
      /\ lst_buffer_ # <<>> /\ "out" \notin want => BreakReadable \/ Breaking({"writeBreak"})
      /\ will_disconnect_ => BreakReadable \/ Breaking({"discSet", "discSetWait"})

\* OnWrote(id) is about the buffer whose Write returned id, every byte of it and
\* of all earlier buffers has been sent, and bytes leave in the order of Write
\* (tcpclient.cc 95-107, 286-306).
OnWroteTruthful ==
    /\ \A i, j \in DOMAIN stream : i < j => stream[i] <= stream[j]
    /\ wrote.id = wrote.buf
    /\ \A id \in 1 .. wrote.id : Cardinality({i \in DOMAIN stream : stream[i] = id}) = lens[id]

\* Once a DisconnectAndWait called on a started client has returned, the worker
\* runs no more, so the client and its observer may be destroyed
\* (tcpclient.cc 21-31, 62-67).
WaitMeansQuiet == waited => wpc = "done"

\* A disconnect, before or after the thread is started, ends the worker.
DisconnectEnds == will_disconnect_ /\ isruning ~> wpc = "done"

\* A buffer accepted by Write is sent and reported, or the client ends.
WriteServed == \A id \in 1 .. MaxWrites :
    writedbufid_ >= id /\ isruning ~> write_id >= id \/ status_ \in Ended
==============================================================================
