--------------------------- MODULE TcpClientProofs ---------------------------
(***************************************************************************)
(* The invariants of TcpClient, for any users, faults and bounds.  Control *)
(* says who wakes the worker and when it is over; Data says what is queued *)
(* and what has been sent.                                                 *)
(***************************************************************************)
EXTENDS TcpClient, FiniteSetTheorems, SequenceTheorems, TLAPS

\* The breaker's flag is up exactly while its byte is in the pipe.
PipeAgrees == /\ pipeBytes \in 0 .. 1
              /\ broken_ => pipeBytes = 1 /\ pipeOpen
              /\ ~broken_ => pipeBytes = 0

\* A break is in the pipe, or a user at one of pcs is about to send it.
Told(pcs) == BreakReadable \/ Breaking(pcs)

\* The worker is only started with a pipe, and only once.
StartedOnce == /\ status_ = "Init" => wpc = "none" /\ pipeOpen
               /\ wpc # "none" => pipeOpen

\* Where the worker goes on after a callback.
Resumes == wpc = "callback" => after \in {"loop", "send", "wrote", "close"}

\* Where the worker will look at will_disconnect_ only after its next poll.
Unchecked == {"none", "run", "pollConnect", "clearConnect", "loop", "want", "poll", "clear",
              "peek", "send", "wrote"}

ReadTold == wpc \in {"want", "poll"} /\ ~have_read_date_ /\ "in" \notin want => Told({"readBreak"})

WriteTold == /\ wpc = "pollConnect" => "out" \in want
             /\ wpc = "poll" /\ lst_buffer_ # <<>> /\ "out" \notin want => Told({"writeBreak"})

\* A disconnect the worker has not looked at since its last poll, before it is started too,
\* is announced in the pipe: the byte outlives every step until that look.
DisconnectTold ==
    will_disconnect_ /\ pipeOpen /\ (wpc \in Unchecked \/ (wpc = "callback" /\ after \in Unchecked))
      => Told({"discSet", "discSetWait"})

SureStarted == sure # {} => wpc # "none"

Control == /\ upc \in [Users -> UserPcs]
           /\ PipeAgrees /\ StartedOnce /\ Resumes
           /\ ReadTold /\ WriteTold /\ DisconnectTold
           /\ SureStarted /\ WaitMeansQuiet

\* How many bytes of buffer id are in a stream.
Count(s, id) == Cardinality({i \in DOMAIN s : s[i] = id})

Buffers == [id : Nat, len : Nat, pos : Nat]

DataType == /\ writedbufid_ \in Nat /\ write_id \in Nat
            /\ lst_buffer_ \in Seq(Buffers) /\ lens \in Seq(Nat) /\ stream \in Seq(Nat)
            /\ Len(lens) = writedbufid_
            /\ Len(lst_buffer_) = writedbufid_ - write_id

\* The queue is what Write returned and OnWrote has not reported, in order, and only its
\* first buffer has been started.
QueueFollows ==
    \A i \in 1 .. Len(lst_buffer_) :
      /\ lst_buffer_[i].id = write_id + i
      /\ lst_buffer_[i].len = lens[write_id + i]
      /\ lst_buffer_[i].pos <= lst_buffer_[i].len
      /\ i > 1 => lst_buffer_[i].pos = 0

StreamSorted == \A i, j \in 1 .. Len(stream) : i < j => stream[i] <= stream[j]

\* Nothing of a buffer behind the first one has been sent, of the first one pos bytes, and
\* all of the buffers that left the queue.
StreamBounded == \A i \in 1 .. Len(stream) : stream[i] <= write_id + 1 /\ stream[i] <= writedbufid_

StreamCounts ==
    /\ \A id \in 1 .. write_id : Count(stream, id) = lens[id]
    /\ lst_buffer_ # <<>> => Count(stream, write_id + 1) = lst_buffer_[1].pos

ReportFollows == wrote.id = write_id /\ wrote.buf = write_id

Data == /\ DataType /\ QueueFollows /\ StreamSorted /\ StreamBounded /\ StreamCounts
        /\ ReportFollows
------------------------------------------------------------------------------
(* Control.                                                                *)

\* A break of an open pipe makes it readable.
LEMMA BreakTells == PipeAgrees /\ Break => /\ PipeAgrees' /\ pipeOpen' = pipeOpen
                                           /\ pipeOpen => BreakReadable'
<1>. SUFFICES ASSUME PipeAgrees, Break
              PROVE  PipeAgrees' /\ pipeOpen' = pipeOpen /\ (pipeOpen => BreakReadable')
  OBVIOUS
<1>1. CASE broken_
  <2>1. broken_' /\ pipeOpen' = pipeOpen /\ pipeBytes' = pipeBytes
    BY <1>1 DEF Break, BreakResult
  <2>. QED
    BY <1>1, <2>1 DEF PipeAgrees, BreakReadable
<1>2. CASE ~broken_ /\ pipeOpen
  <2>1. broken_' /\ pipeOpen' = pipeOpen /\ pipeBytes' = pipeBytes + 1
    BY <1>2 DEF Break, BreakResult
  <2>. QED
    BY <1>2, <2>1 DEF PipeAgrees, BreakReadable
<1>3. CASE ~broken_ /\ ~pipeOpen
  <2>1. ~broken_' /\ pipeOpen' = pipeOpen /\ pipeBytes' = pipeBytes
    BY <1>3 DEF Break, BreakResult
  <2>. QED
    BY <1>3, <2>1 DEF PipeAgrees
<1>. QED
  BY <1>1, <1>2, <1>3

\* Clear resets flag and pipe together.
LEMMA ClearKeeps == PipeAgrees /\ Clear => PipeAgrees' /\ pipeOpen' = pipeOpen
BY DEF PipeAgrees, Clear, breakerVars

\* A step of a user that is not about to send a break takes no announcement back.
LEMMA ToldKept ==
  ASSUME NEW CONSTANT pcs, NEW u \in Users, upc[u] \notin pcs,
         \A v \in Users \ {u} : upc'[v] = upc[v], UNCHANGED breakerVars, Told(pcs)
  PROVE  Told(pcs)'
BY DEF Told, Breaking, BreakReadable, breakerVars

\* The client is created without a thread.
LEMMA ControlInit == Init => Control
BY DEF Init, BreakerInit, Control, PipeAgrees, StartedOnce, Resumes, ReadTold, WriteTold,
       DisconnectTold, SureStarted, WaitMeansQuiet, UserPcs

\* No step of the worker, of a user, of a callback or of the network breaks Control.
LEMMA ControlStep == Control /\ [Next]_vars => Control'
<1>. SUFFICES ASSUME Control, [Next]_vars PROVE Control'
  OBVIOUS
<1>. USE DEF StartedOnce, Resumes, SureStarted, WaitMeansQuiet, isruning
<1>t. /\ upc \in [Users -> UserPcs] /\ PipeAgrees /\ StartedOnce /\ Resumes
      /\ ReadTold /\ WriteTold /\ DisconnectTold /\ SureStarted /\ WaitMeansQuiet
  BY DEF Control
\* Users that leave the client's fields and the pipe alone.
<1>1. ASSUME NEW u \in Users,
             \/ CallRead(u) \/ CallWrite(u) \/ ReadRecv(u) \/ WaitJoin(u)
             \/ \E wait \in BOOLEAN : CallDisconnect(u, wait)
      PROVE  Control'
  <2>1. /\ UNCHANGED <<breakerVars, clientVars, workVars>>
        /\ upc' \in [Users -> UserPcs]
        /\ upc[u] \in {"idle", "read", "isruning"}
        /\ \A v \in Users \ {u} : upc'[v] = upc[v]
    BY <1>1, <1>t DEF CallRead, CallWrite, ReadRecv, WaitJoin, CallDisconnect, MayCall, Goto,
                      UserPcs
  <2>2. Told({"readBreak"}) => Told({"readBreak"})'
    BY <2>1, ToldKept
  <2>3. Told({"writeBreak"}) => Told({"writeBreak"})'
    BY <2>1, ToldKept
  <2>4. Told({"discSet", "discSetWait"}) => Told({"discSet", "discSetWait"})'
    BY <2>1, ToldKept
  <2>5. PipeAgrees' /\ StartedOnce' /\ Resumes'
    BY <1>t, <2>1 DEF PipeAgrees, breakerVars, clientVars, workVars
  <2>6. ReadTold' /\ WriteTold' /\ DisconnectTold'
    BY <1>t, <2>1, <2>2, <2>3, <2>4 DEF ReadTold, WriteTold, DisconnectTold, breakerVars,
                                        clientVars, workVars
  <2>7. SureStarted' /\ WaitMeansQuiet'
    <3>1. CASE CallRead(u) \/ CallWrite(u) \/ ReadRecv(u)
      BY <3>1, <1>t, <2>1 DEF CallRead, CallWrite, ReadRecv, workVars
    <3>2. CASE WaitJoin(u)
      <4>1. wpc \in {"none", "done"} /\ wpc' = wpc /\ sure' = sure
        BY <3>2 DEF WaitJoin, workVars
      <4>2. waited' => waited \/ u \in sure
        BY <3>2 DEF WaitJoin
      <4>. QED
        BY <1>t, <4>1, <4>2
    <3>3. ASSUME NEW wait \in BOOLEAN, CallDisconnect(u, wait)
          PROVE  SureStarted' /\ WaitMeansQuiet'
      <4>1. (sure' # {} => sure # {} \/ wpc # "none") /\ wpc' = wpc /\ waited' = waited
        BY <3>3 DEF CallDisconnect, workVars
      <4>. QED
        BY <1>t, <4>1
    <3>. QED
      BY <1>1, <3>1, <3>2, <3>3
  <2>. QED
    BY <2>1, <2>5, <2>6, <2>7 DEF Control
\* Users that send the break: where there is a pipe, the worker is told whatever it was.
<1>2. ASSUME NEW u \in Users, DisconnectBreak(u) \/ ReadBreak(u) \/ WriteBreak(u)
      PROVE  Control'
  <2>1. /\ UNCHANGED <<clientVars, workVars, sure, waited>>
        /\ upc' \in [Users -> UserPcs]
    BY <1>2, <1>t DEF DisconnectBreak, ReadBreak, WriteBreak, Goto, UserPcs
  <2>2. PipeAgrees' /\ pipeOpen' = pipeOpen /\ (pipeOpen => BreakReadable')
    BY <1>2, <1>t, BreakTells DEF DisconnectBreak, ReadBreak, WriteBreak
  <2>3. ReadTold' /\ WriteTold' /\ DisconnectTold'
    BY <1>t, <2>1, <2>2 DEF ReadTold, WriteTold, DisconnectTold, Told, clientVars, workVars
  <2>. QED
    BY <1>t, <2>1, <2>2, <2>3 DEF Control, clientVars, workVars
<1>3. ASSUME NEW u \in Users, Connect(u) PROVE Control'
  <2>1. /\ upc' = upc /\ UNCHANGED <<breakerVars, will_disconnect_, sure, waited>>
        /\ wpc = "none" /\ wpc' \in {"none", "run"} /\ status_' # "Init" /\ pipeOpen
    BY <1>3, <1>t DEF Connect, userVars
  <2>2. \A pcs : Told(pcs) => Told(pcs)'
    BY <2>1 DEF Told, Breaking, BreakReadable, breakerVars
  <2>3. DisconnectTold'
    BY <1>t, <2>1, <2>2 DEF DisconnectTold, Unchecked, breakerVars
  <2>4. ReadTold' /\ WriteTold'
    BY <2>1 DEF ReadTold, WriteTold
  <2>5. PipeAgrees' /\ StartedOnce' /\ Resumes' /\ SureStarted' /\ WaitMeansQuiet'
    BY <1>t, <2>1 DEF PipeAgrees, breakerVars
  <2>. QED
    BY <1>t, <2>1, <2>3, <2>4, <2>5 DEF Control
\* Users that change a field the worker looks at: from now on they owe it a break.
<1>4. ASSUME NEW u \in Users, DisconnectSet(u) PROVE Control'
  <2>1. /\ UNCHANGED <<breakerVars, status_, have_read_date_, lst_buffer_, workVars, sure, waited>>
        /\ upc' \in [Users -> UserPcs]
        /\ upc[u] \in {"disc", "discWait"} /\ upc'[u] \in {"discSet", "discSetWait"}
        /\ \A v \in Users \ {u} : upc'[v] = upc[v]
    BY <1>4, <1>t DEF DisconnectSet, Goto, UserPcs
  <2>2. Told({"readBreak"}) => Told({"readBreak"})'
    BY <2>1, ToldKept
  <2>3. Told({"writeBreak"}) => Told({"writeBreak"})'
    BY <2>1, ToldKept
  <2>4. DisconnectTold'
    BY <2>1 DEF DisconnectTold, Told, Breaking
  <2>5. ReadTold' /\ WriteTold'
    BY <1>t, <2>1, <2>2, <2>3 DEF ReadTold, WriteTold, workVars
  <2>6. PipeAgrees' /\ StartedOnce' /\ Resumes' /\ SureStarted' /\ WaitMeansQuiet'
    BY <1>t, <2>1 DEF PipeAgrees, breakerVars, workVars
  <2>. QED
    BY <2>1, <2>4, <2>5, <2>6 DEF Control
<1>5. ASSUME NEW u \in Users, ReadDone(u) PROVE Control'
  <2>1. /\ UNCHANGED <<breakerVars, status_, will_disconnect_, lst_buffer_, workVars, sure, waited>>
        /\ upc' \in [Users -> UserPcs]
        /\ upc[u] = "recvd" /\ upc'[u] = "readBreak"
        /\ \A v \in Users \ {u} : upc'[v] = upc[v]
    BY <1>5, <1>t DEF ReadDone, Goto, UserPcs
  <2>2. Told({"discSet", "discSetWait"}) => Told({"discSet", "discSetWait"})'
    BY <2>1, ToldKept
  <2>3. Told({"writeBreak"}) => Told({"writeBreak"})'
    BY <2>1, ToldKept
  <2>4. ReadTold'
    BY <2>1 DEF ReadTold, Told, Breaking
  <2>5. DisconnectTold' /\ WriteTold'
    BY <1>t, <2>1, <2>2, <2>3 DEF DisconnectTold, WriteTold, workVars, breakerVars
  <2>6. PipeAgrees' /\ StartedOnce' /\ Resumes' /\ SureStarted' /\ WaitMeansQuiet'
    BY <1>t, <2>1 DEF PipeAgrees, breakerVars, workVars
  <2>. QED
    BY <2>1, <2>4, <2>5, <2>6 DEF Control
<1>6. ASSUME NEW u \in Users, WritePush(u) PROVE Control'
  <2>1. /\ UNCHANGED <<breakerVars, status_, have_read_date_, will_disconnect_, workVars, sure,
                       waited>>
        /\ upc' \in [Users -> UserPcs]
        /\ upc[u] = "write" /\ upc'[u] = "writeBreak"
        /\ \A v \in Users \ {u} : upc'[v] = upc[v]
    BY <1>6, <1>t DEF WritePush, Goto, UserPcs
  <2>2. Told({"discSet", "discSetWait"}) => Told({"discSet", "discSetWait"})'
    BY <2>1, ToldKept
  <2>3. Told({"readBreak"}) => Told({"readBreak"})'
    BY <2>1, ToldKept
  <2>4. WriteTold'
    BY <1>t, <2>1 DEF WriteTold, Told, Breaking, workVars
  <2>5. DisconnectTold' /\ ReadTold'
    BY <1>t, <2>1, <2>2, <2>3 DEF DisconnectTold, ReadTold, workVars, breakerVars
  <2>6. PipeAgrees' /\ StartedOnce' /\ Resumes' /\ SureStarted' /\ WaitMeansQuiet'
    BY <1>t, <2>1 DEF PipeAgrees, breakerVars, workVars
  <2>. QED
    BY <2>1, <2>4, <2>5, <2>6 DEF Control
\* The worker.  Only the Clear behind a poll takes a byte out of the pipe, and the look at
\* will_disconnect_ and the head of the loop come after it.
<1>7. CASE AutoClear
  <2>1. PipeAgrees' /\ pipeOpen' = pipeOpen
    BY <1>7, <1>t, ClearKeeps DEF AutoClear
  <2>2. /\ wpc' \in {"check", "checkConnect"} /\ wpc \in {"clear", "clearConnect"}
        /\ UNCHANGED <<status_, userVars>>
    BY <1>7 DEF AutoClear, clientVars
  <2>3. ReadTold' /\ WriteTold' /\ DisconnectTold'
    BY <2>2 DEF ReadTold, WriteTold, DisconnectTold, Unchecked
  <2>. QED
    BY <1>t, <2>1, <2>2, <2>3 DEF Control, userVars
<1>8. CASE \/ RunConnect \/ Poll \/ CheckConnect \/ WantRead \/ WantWrite \/ Check \/ Peek
           \/ SendSome \/ SendDone \/ AllWrote \/ CallbackReturn \/ CloseSocket \/ ResetSocket
  <2>1. UNCHANGED <<breakerVars, will_disconnect_, userVars>>
    BY <1>8 DEF RunConnect, Poll, CheckConnect, WantRead, WantWrite, Check, Peek, SendSome,
                SendDone, AllWrote, CallbackReturn, CloseSocket, ResetSocket, clientVars
  <2>2. \A pcs : Told(pcs) => Told(pcs)'
    BY <2>1 DEF Told, Breaking, BreakReadable, breakerVars, userVars
  <2>3. Resumes' /\ wpc \notin {"none", "done"} /\ wpc' # "none"
    BY <1>8, <1>t DEF RunConnect, Poll, CheckConnect, WantRead, WantWrite, Check, Peek, SendSome,
                SendDone, AllWrote, CallbackReturn, CloseSocket, ResetSocket, Finish, WriteHalf
  <2>4. status_' # "Init"
    BY <1>8, <1>t DEF RunConnect, Poll, CheckConnect, WantRead, WantWrite, Check, Peek, SendSome,
                SendDone, AllWrote, CallbackReturn, CloseSocket, ResetSocket, Finish, clientVars
  <2>5. PipeAgrees' /\ StartedOnce' /\ SureStarted' /\ WaitMeansQuiet'
    BY <1>t, <2>1, <2>3, <2>4 DEF PipeAgrees, breakerVars, userVars
  <2>6. ReadTold'
    <3>1. CASE WantRead \/ WantWrite
      BY <3>1, <1>t, <2>2 DEF WantRead, WantWrite, ReadTold, clientVars
    <3>2. CASE ~(WantRead \/ WantWrite)
      <4>1. wpc' \notin {"want", "poll"}
        BY <1>8, <3>2, <1>t DEF RunConnect, Poll, CheckConnect, Check, Peek, SendSome, SendDone,
                AllWrote, CallbackReturn, CloseSocket, ResetSocket, Finish, WriteHalf
      <4>. QED
        BY <4>1 DEF ReadTold
    <3>. QED
      BY <3>1, <3>2
  <2>7. WriteTold'
    <3>1. CASE RunConnect \/ WantWrite
      BY <3>1, <1>t, <2>2 DEF RunConnect, WantWrite, WriteTold, Finish, clientVars
    <3>2. CASE ~(RunConnect \/ WantWrite)
      <4>1. wpc' \notin {"pollConnect", "poll"}
        BY <1>8, <3>2, <1>t DEF Poll, CheckConnect, WantRead, Check, Peek, SendSome, SendDone,
                AllWrote, CallbackReturn, CloseSocket, ResetSocket, Finish, WriteHalf
      <4>. QED
        BY <4>1 DEF WriteTold
    <3>. QED
      BY <3>1, <3>2
  <2>8. DisconnectTold'
    <3>1. CASE CheckConnect \/ Check
      <4>1. \/ ~will_disconnect_
            \/ wpc' = "callback" /\ after' = "close"
        BY <3>1 DEF CheckConnect, Check, Finish
      <4>. QED
        BY <4>1, <2>1 DEF DisconnectTold, Unchecked
    <3>2. CASE ~(CheckConnect \/ Check)
      <4>1. wpc' \in Unchecked \/ (wpc' = "callback" /\ after' \in Unchecked)
            => wpc \in Unchecked \/ (wpc = "callback" /\ after \in Unchecked)
        BY <1>8, <3>2, <1>t DEF RunConnect, Poll, WantRead, WantWrite, Peek, SendSome, SendDone,
                AllWrote, CallbackReturn, CloseSocket, ResetSocket, Finish, WriteHalf, Unchecked
      <4>. QED
        BY <1>t, <4>1, <2>1, <2>2 DEF DisconnectTold, breakerVars
    <3>. QED
      BY <3>1, <3>2
  <2>. QED
    BY <1>t, <2>1, <2>3, <2>5, <2>6, <2>7, <2>8 DEF Control, userVars
<1>9. CASE NetStep \/ UNCHANGED vars
  <2>1. UNCHANGED <<breakerVars, clientVars, workVars, userVars>>
    BY <1>9 DEF NetStep, ConnectResolves, PeerSends, PeerCloses, NetFails, SendBufferFills,
                SendBufferDrains, Net, vars
  <2>2. \A pcs : Told(pcs) => Told(pcs)'
    BY <2>1 DEF Told, Breaking, BreakReadable, breakerVars, userVars
  <2>3. ReadTold' /\ WriteTold' /\ DisconnectTold'
    BY <1>t, <2>1, <2>2 DEF ReadTold, WriteTold, DisconnectTold, clientVars, workVars, breakerVars
  <2>. QED
    BY <1>t, <2>1, <2>3 DEF Control, PipeAgrees, breakerVars, clientVars, workVars, userVars
<1>. QED
  BY <1>1, <1>2, <1>3, <1>4, <1>5, <1>6, <1>7, <1>8, <1>9
     DEF Next, UserCall, UserStep, WorkerStep

\* Who is where, and who holds which mutex, agrees with the state of the client in every
\* behaviour (tcpclient.cc 33-334).
THEOREM ControlHolds == Spec => []Control
BY ControlInit, ControlStep, PTL DEF Spec

\* While the worker sleeps in poll, whoever has read, queued a buffer or asked for the end
\* since it looked has put a break in the pipe or is about to, for any number of users and
\* an observer that calls back: no wake-up is lost between the look, the poll and the
\* unconditional Clear (tcpclient.cc 215-227).
THEOREM SleepIsFresh == Spec => []NoStaleSleep
<1>1. Control => NoStaleSleep
  BY DEF Control, NoStaleSleep, ReadTold, WriteTold, DisconnectTold, StartedOnce, Told, Unchecked
<1>. QED
  BY <1>1, ControlHolds, PTL

\* After a DisconnectAndWait on a started client has returned, the worker is over for good
\* (tcpclient.cc 21-31, 62-67).
THEOREM WaitIsQuiet == Spec => []WaitMeansQuiet
BY ControlHolds, PTL DEF Control
------------------------------------------------------------------------------
(* Data.                                                                   *)

\* An interval of k numbers has k elements.
LEMMA IntervalAfter ==
  ASSUME NEW n \in Nat, NEW k \in Nat
  PROVE  IsFiniteSet(n + 1 .. n + k) /\ Cardinality(n + 1 .. n + k) = k
<1>. DEFINE a == n + 1
            b == n + k
<1>1. a \in Int /\ b \in Int /\ (IF a > b THEN 0 ELSE b - a + 1) = k
  OBVIOUS
<1>. HIDE DEF a, b
<1>2. IsFiniteSet(a .. b) /\ Cardinality(a .. b) = IF a > b THEN 0 ELSE b - a + 1
  BY <1>1, FS_Interval
<1>. QED
  BY <1>1, <1>2 DEF a, b

Bytes(k, h) == [i \in 1 .. k |-> h]

\* Stream t is s with k bytes of buffer h at its end.
Adds(s, t, k, h) ==
    /\ t \in Seq(Nat) /\ Len(t) = Len(s) + k
    /\ \A i \in 1 .. Len(s) : t[i] = s[i]
    /\ \A i \in Len(s) + 1 .. Len(s) + k : t[i] = h
    /\ Count(s, h) \in Nat /\ Count(t, h) = Count(s, h) + k
    /\ \A id : id # h => Count(t, id) = Count(s, id)

\* A send of k bytes of a buffer adds k bytes of that buffer to what was sent, and none of others.
LEMMA CountAfterSend ==
  ASSUME NEW s \in Seq(Nat), NEW k \in Nat, NEW h \in Nat
  PROVE  Adds(s, s \o Bytes(k, h), k, h)
<1>. DEFINE t == s \o Bytes(k, h)
<1>. DEFINE c == Bytes(k, h)
<1>1. c \in Seq(Nat) /\ Len(c) = k /\ \A i \in 1 .. k : c[i] = h
  BY DEF Bytes
<1>2. t \in Seq(Nat) /\ Len(t) = Len(s) + k
  BY <1>1, ConcatProperties
<1>3. \A i \in 1 .. Len(s) : t[i] = s[i]
  BY <1>1, ConcatProperties
<1>4. \A i \in Len(s) + 1 .. Len(s) + k : t[i] = h
  BY <1>1, ConcatProperties
<1>5. ASSUME NEW id
      PROVE  /\ id = h => Count(t, id) = Count(s, id) + k
             /\ id # h => Count(t, id) = Count(s, id)
             /\ Count(s, id) \in Nat
  <2>. DEFINE S == {i \in DOMAIN s : s[i] = id}
              T == {i \in DOMAIN t : t[i] = id}
              C == Len(s) + 1 .. Len(s) + k
  <2>0. Count(t, id) = Cardinality(T) /\ Count(s, id) = Cardinality(S)
    BY DEF Count
  <2>1. DOMAIN s = 1 .. Len(s) /\ DOMAIN t = 1 .. Len(s) + k /\ Len(s) \in Nat
    BY <1>2
  <2>2. IsFiniteSet(S) /\ Cardinality(S) \in Nat
    <3>1. IsFiniteSet(1 .. Len(s)) /\ S \in SUBSET (1 .. Len(s))
      BY <2>1, FS_Interval
    <3>2. IsFiniteSet(S)
      BY <3>1, FS_Subset
    <3>. QED
      BY <3>2, FS_CardinalityType
  <2>3. IsFiniteSet(C) /\ Cardinality(C) = k
    BY <2>1, IntervalAfter
  <2>4. CASE id = h
    <3>1. T = S \cup C
      BY <1>3, <1>4, <2>1, <2>4
    <3>2. S \cap C = {}
      BY <2>1
    <3>3. Cardinality(S \cup C) = Cardinality(S) + Cardinality(C) - Cardinality(S \cap C)
      BY <2>2, <2>3, FS_Union
    <3>4. Cardinality(S \cap C) = 0
      BY <3>2, FS_EmptySet
    <3>. HIDE DEF S, T, C
    <3>. QED
      BY <2>0, <2>2, <2>3, <2>4, <3>1, <3>3, <3>4
  <2>5. CASE id # h
    <3>1. T = S
      BY <1>3, <1>4, <2>1, <2>5
    <3>. HIDE DEF S, T
    <3>. QED
      BY <2>0, <2>2, <2>5, <3>1
  <2>. QED
    BY <2>4, <2>5
<1>. HIDE DEF t
<1>6. Adds(s, t, k, h)
  BY <1>2, <1>3, <1>4, <1>5 DEF Adds
<1>. QED
  BY <1>6 DEF t

\* A buffer none of whose bytes were sent counts 0.
LEMMA CountNone ==
  ASSUME NEW s, NEW id, \A i \in DOMAIN s : s[i] # id
  PROVE  Count(s, id) = 0
<1>1. {i \in DOMAIN s : s[i] = id} = {}
  OBVIOUS
<1>. QED
  BY <1>1, FS_EmptySet DEF Count

\* Nothing is written and nothing sent at first.
LEMMA DataInit == Init => Data
<1>. SUFFICES ASSUME Init PROVE Data
  OBVIOUS
<1>1. DataType /\ QueueFollows /\ StreamSorted /\ ReportFollows
  BY DEF Init, DataType, QueueFollows, StreamSorted, ReportFollows
<1>2. StreamBounded /\ StreamCounts
  BY DEF Init, StreamBounded, StreamCounts
<1>. QED
  BY <1>1, <1>2 DEF Data

\* No step breaks what is known of the buffers.
LEMMA DataStep == Data /\ [Next]_vars => Data'
<1>. SUFFICES ASSUME Data, [Next]_vars PROVE Data'
  OBVIOUS
<1>t. /\ DataType /\ QueueFollows /\ StreamSorted /\ StreamBounded /\ StreamCounts
      /\ ReportFollows
  BY DEF Data
<1>c. /\ writedbufid_ \in Nat /\ write_id \in Nat /\ lst_buffer_ \in Seq(Buffers)
      /\ lens \in Seq(Nat) /\ stream \in Seq(Nat) /\ Len(lens) = writedbufid_
      /\ Len(lst_buffer_) = writedbufid_ - write_id
      /\ write_id <= writedbufid_
      /\ DOMAIN stream = 1 .. Len(stream) /\ Len(stream) \in Nat
  BY <1>t DEF DataType
<1>s. \A i \in 1 .. Len(stream) : stream[i] \in Nat
  BY <1>c
\* A new buffer goes to the end of the queue; nothing of it has been sent.
<1>1. ASSUME NEW u \in Users, WritePush(u) PROVE Data'
  <2>1. PICK len \in Nat :
          /\ lst_buffer_' = Append(lst_buffer_, [id |-> writedbufid_ + 1, len |-> len, pos |-> 0])
          /\ lens' = Append(lens, len)
    BY <1>1, BoundsAssumption DEF WritePush
  <2>2. UNCHANGED <<write_id, stream, wrote>> /\ writedbufid_' = writedbufid_ + 1
    BY <1>1 DEF WritePush, workVars
  <2>. DEFINE b == [id |-> writedbufid_ + 1, len |-> len, pos |-> 0]
  <2>3. b \in Buffers
    BY <1>c DEF Buffers
  <2>4. /\ lst_buffer_' \in Seq(Buffers) /\ Len(lst_buffer_') = Len(lst_buffer_) + 1
        /\ \A i \in 1 .. Len(lst_buffer_) : lst_buffer_'[i] = lst_buffer_[i]
        /\ lst_buffer_'[Len(lst_buffer_) + 1] = b
    BY <1>c, <2>1, <2>3, AppendProperties
  <2>5. /\ lens' \in Seq(Nat) /\ Len(lens') = writedbufid_ + 1
        /\ \A i \in 1 .. writedbufid_ : lens'[i] = lens[i]
        /\ lens'[writedbufid_ + 1] = len
    BY <1>c, <2>1, AppendProperties
  <2>6. DataType'
    BY <1>c, <2>2, <2>4, <2>5 DEF DataType
  <2>7. QueueFollows'
    <3>1. ASSUME NEW i \in 1 .. Len(lst_buffer_)
          PROVE  /\ lst_buffer_'[i].id = write_id + i
                 /\ lst_buffer_'[i].len = lens'[write_id + i]
                 /\ lst_buffer_'[i].pos <= lst_buffer_'[i].len
                 /\ i > 1 => lst_buffer_'[i].pos = 0
      <4>1. write_id + i \in 1 .. writedbufid_
        BY <1>c
      <4>. QED
        BY <1>t, <2>4, <2>5, <4>1 DEF QueueFollows
    <3>2. /\ b.id = write_id + (Len(lst_buffer_) + 1)
          /\ b.len = lens'[write_id + (Len(lst_buffer_) + 1)]
          /\ b.pos <= b.len /\ b.pos = 0
      <4>1. write_id + (Len(lst_buffer_) + 1) = writedbufid_ + 1
        BY <1>c
      <4>. QED
        BY <2>5, <4>1
    <3>. HIDE DEF b
    <3>3. ASSUME NEW i \in 1 .. Len(lst_buffer_')
          PROVE  i \in 1 .. Len(lst_buffer_) \/ (i = Len(lst_buffer_) + 1 /\ lst_buffer_'[i] = b)
      BY <1>c, <2>4
    <3>. QED
      BY <2>2, <3>1, <3>2, <3>3 DEF QueueFollows
  <2>8. StreamCounts'
    <3>1. lst_buffer_ = <<>> => Count(stream, write_id + 1) = 0
      <4>1. lst_buffer_ = <<>> => \A i \in DOMAIN stream : stream[i] # write_id + 1
        BY <1>t, <1>c, <1>s DEF StreamBounded
      <4>. QED
        BY <4>1, CountNone
    <3>2. Count(stream, write_id + 1) = lst_buffer_'[1].pos
      <4>1. CASE lst_buffer_ = <<>>
        <5>1. lst_buffer_'[1] = b /\ b.pos = 0
          BY <4>1, <2>4
        <5>. QED
          BY <3>1, <4>1, <5>1
      <4>2. CASE lst_buffer_ # <<>>
        BY <4>2, <1>t, <1>c, <2>4 DEF StreamCounts
      <4>. QED
        BY <4>1, <4>2
    <3>3. \A id \in 1 .. write_id : lens'[id] = lens[id]
      BY <1>c, <2>5
    <3>. QED
      BY <1>t, <2>2, <3>2, <3>3 DEF StreamCounts
  <2>9. StreamBounded'
    BY <1>t, <1>c, <1>s, <2>2 DEF StreamBounded
  <2>. QED
    BY <1>t, <2>2, <2>6, <2>7, <2>8, <2>9 DEF Data, StreamSorted, ReportFollows
\* Bytes of the first buffer, which is the one behind every reported buffer.
<1>2. CASE SendSome /\ stream' # stream
  <2>. DEFINE h == lst_buffer_[1]
  <2>0. Len(lst_buffer_) >= 1 /\ h \in Buffers /\ Head(lst_buffer_) = h /\ h.id = write_id + 1
    BY <1>2, <1>t, <1>c DEF SendSome, QueueFollows
  <2>n. h.pos \in Nat /\ h.len \in Nat /\ h.pos <= h.len
    BY <2>0, <1>t, <1>c DEF Buffers, QueueFollows
  <2>1. PICK k \in 1 .. h.len - h.pos :
          /\ lst_buffer_' = [lst_buffer_ EXCEPT ![1].pos = @ + k]
          /\ stream' = stream \o [i \in 1 .. k |-> h.id]
    BY <1>2, <2>0 DEF SendSome
  <2>k. k \in Nat /\ h.pos + k <= h.len /\ h.pos + k \in Nat
    BY <2>n
  <2>2. UNCHANGED <<writedbufid_, write_id, lens, wrote>>
    BY <1>2 DEF SendSome
  <2>3. /\ lst_buffer_' \in Seq(Buffers) /\ Len(lst_buffer_') = Len(lst_buffer_)
        /\ lst_buffer_'[1] = [h EXCEPT !.pos = h.pos + k]
        /\ \A i \in 2 .. Len(lst_buffer_) : lst_buffer_'[i] = lst_buffer_[i]
    <3>1. [h EXCEPT !.pos = h.pos + k] \in Buffers
      BY <2>0, <2>k DEF Buffers
    <3>2. lst_buffer_' = [lst_buffer_ EXCEPT ![1] = [h EXCEPT !.pos = h.pos + k]]
      BY <2>1
    <3>. QED
      BY <1>c, <2>0, <3>1, <3>2
  <2>b. LET c == lst_buffer_'[1] IN c.id = h.id /\ c.len = h.len /\ c.pos = h.pos + k
    BY <2>0, <2>3 DEF Buffers
  <2>u. PICK w \in Nat : w = write_id + 1
    BY <1>c
  <2>w. w <= writedbufid_ /\ stream' = stream \o Bytes(k, w)
    BY <1>c, <2>0, <2>1, <2>u DEF Bytes
  <2>. HIDE DEF h
  <2>a. Adds(stream, stream', k, w)
    <3>1. Adds(stream, stream \o Bytes(k, w), k, w)
      BY <1>c, <2>k, CountAfterSend
    <3>. QED
      BY <2>w, <3>1
  <2>4. /\ stream' \in Seq(Nat) /\ Len(stream') = Len(stream) + k
        /\ \A i \in 1 .. Len(stream) : stream'[i] = stream[i]
        /\ \A i \in Len(stream) + 1 .. Len(stream) + k : stream'[i] = w
        /\ Count(stream', w) = Count(stream, w) + k
        /\ \A id : id # w => Count(stream', id) = Count(stream, id)
    BY <2>a DEF Adds
  <2>5. DataType'
    BY <1>c, <2>2, <2>3, <2>4 DEF DataType
  <2>6. QueueFollows'
    <3>1. ASSUME NEW i \in 1 .. Len(lst_buffer_')
          PROVE  /\ lst_buffer_'[i].id = write_id + i
                 /\ lst_buffer_'[i].len = lens[write_id + i]
                 /\ lst_buffer_'[i].pos <= lst_buffer_'[i].len
                 /\ i > 1 => lst_buffer_'[i].pos = 0
      <4>1. CASE i = 1
        BY <4>1, <1>t, <2>0, <2>b, <2>k DEF QueueFollows, h
      <4>2. CASE i # 1
        <5>1. i \in 2 .. Len(lst_buffer_) /\ i \in 1 .. Len(lst_buffer_)
          BY <4>2, <1>c, <2>3
        <5>. QED
          BY <5>1, <1>t, <2>3 DEF QueueFollows
      <4>. QED
        BY <4>1, <4>2
    <3>. QED
      BY <2>2, <3>1 DEF QueueFollows
  <2>d. ASSUME NEW i \in 1 .. Len(stream')
        PROVE  \/ i \in 1 .. Len(stream) /\ stream'[i] = stream[i]
               \/ i > Len(stream) /\ stream'[i] = w
    <3>1. i \in 1 .. Len(stream) \/ i \in Len(stream) + 1 .. Len(stream) + k
      BY <1>c, <2>k, <2>4
    <3>. QED
      BY <1>c, <2>4, <3>1
  <2>7. StreamSorted'
    <3>1. ASSUME NEW i \in 1 .. Len(stream'), NEW j \in 1 .. Len(stream'), i < j
          PROVE  stream'[i] <= stream'[j]
      <4>1. CASE j \in 1 .. Len(stream) /\ stream'[j] = stream[j]
        <5>1. i \in 1 .. Len(stream)
          BY <1>c, <3>1, <4>1
        <5>2. stream[i] <= stream[j]
          BY <1>t, <3>1, <4>1, <5>1 DEF StreamSorted
        <5>. QED
          BY <2>4, <4>1, <5>1, <5>2
      <4>2. CASE j > Len(stream) /\ stream'[j] = w
        <5>1. stream'[i] <= w
          <6>1. i \in 1 .. Len(stream) => stream[i] <= w
            BY <1>t, <2>u DEF StreamBounded
          <6>. QED
            BY <2>d, <2>u, <6>1
        <5>. QED
          BY <4>2, <5>1
      <4>. QED
        BY <2>d, <4>1, <4>2
    <3>. QED
      BY <3>1 DEF StreamSorted
  <2>8. StreamBounded'
    <3>1. ASSUME NEW i \in 1 .. Len(stream')
          PROVE  stream'[i] <= w /\ stream'[i] <= writedbufid_
      BY <1>t, <1>s, <2>d, <2>u, <2>w, SMTT(30) DEF StreamBounded
    <3>. QED
      BY <2>2, <2>u, <3>1 DEF StreamBounded
  <2>9. StreamCounts'
    <3>1. Count(stream', w) = lst_buffer_'[1].pos
      <4>1. Count(stream, w) = h.pos
        BY <1>t, <2>0, <2>u DEF StreamCounts, h
      <4>. QED
        BY <2>b, <2>4, <4>1
    <3>2. ASSUME NEW id \in 1 .. write_id PROVE Count(stream', id) = lens[id]
      <4>1. Count(stream, id) = lens[id] /\ id # w
        BY <1>t, <1>c, <2>u DEF StreamCounts
      <4>. QED
        BY <2>4, <4>1
    <3>. QED
      BY <2>2, <2>u, <3>1, <3>2 DEF StreamCounts
  <2>. QED
    BY <1>t, <2>2, <2>5, <2>6, <2>7, <2>8, <2>9 DEF Data, ReportFollows
\* The first buffer leaves when nothing of it is left; nothing of the next was sent yet.
<1>3. CASE SendDone
  <2>. DEFINE h == lst_buffer_[1]
  <2>0. /\ Len(lst_buffer_) >= 1 /\ h \in Buffers /\ Head(lst_buffer_) = h /\ h.id = write_id + 1
        /\ h.pos >= h.len /\ h.pos <= h.len /\ h.len = lens[write_id + 1]
    BY <1>3, <1>t, <1>c DEF SendDone, QueueFollows, BufferSent
  <2>1. h.pos = lens[write_id + 1]
    BY <2>0 DEF Buffers
  <2>2. /\ UNCHANGED <<writedbufid_, lens, stream>> /\ lst_buffer_' = Tail(lst_buffer_)
        /\ write_id' = write_id + 1
        /\ wrote' = [id |-> write_id + 1, buf |-> write_id + 1]
    BY <1>3, <2>0 DEF SendDone
  <2>3. /\ lst_buffer_' \in Seq(Buffers) /\ Len(lst_buffer_') = Len(lst_buffer_) - 1
        /\ \A i \in 1 .. Len(lst_buffer_) - 1 : lst_buffer_'[i] = lst_buffer_[i + 1]
    BY <1>c, <2>0, <2>2, HeadTailProperties
  <2>4. DataType' /\ ReportFollows'
    BY <1>c, <2>2, <2>3 DEF DataType, ReportFollows
  <2>5. QueueFollows'
    <3>1. ASSUME NEW i \in 1 .. Len(lst_buffer_')
          PROVE  /\ lst_buffer_'[i].id = write_id' + i
                 /\ lst_buffer_'[i].len = lens'[write_id' + i]
                 /\ lst_buffer_'[i].pos <= lst_buffer_'[i].len
                 /\ i > 1 => lst_buffer_'[i].pos = 0
      <4>1. /\ i + 1 \in 1 .. Len(lst_buffer_) /\ lst_buffer_'[i] = lst_buffer_[i + 1]
            /\ write_id' + i = write_id + (i + 1)
        BY <1>c, <2>2, <2>3
      <4>. QED
        BY <1>t, <2>2, <4>1 DEF QueueFollows
    <3>. QED
      BY <3>1 DEF QueueFollows
  <2>6. StreamBounded'
    BY <1>t, <1>c, <1>s, <2>2 DEF StreamBounded
  <2>7. StreamCounts'
    <3>1. ASSUME NEW id \in 1 .. write_id + 1 PROVE Count(stream, id) = lens[id]
      <4>1. CASE id = write_id + 1
        BY <4>1, <1>t, <2>0, <2>1 DEF StreamCounts
      <4>2. CASE id # write_id + 1
        BY <4>2, <1>t, <1>c DEF StreamCounts
      <4>. QED
        BY <4>1, <4>2
    <3>2. Count(stream, write_id + 2) = 0
      <4>1. \A i \in DOMAIN stream : stream[i] # write_id + 2
        BY <1>t, <1>c, <1>s DEF StreamBounded
      <4>. QED
        BY <4>1, CountNone
    <3>3. lst_buffer_' # <<>> => lst_buffer_'[1].pos = 0
      <4>1. lst_buffer_' # <<>> => 2 \in 1 .. Len(lst_buffer_) /\ lst_buffer_'[1] = lst_buffer_[2]
        BY <1>c, <2>3
      <4>. QED
        BY <1>t, <4>1 DEF QueueFollows
    <3>4. write_id' + 1 = write_id + 2
      BY <1>c, <2>2
    <3>. QED
      BY <2>2, <3>1, <3>2, <3>3, <3>4 DEF StreamCounts
  <2>. QED
    BY <1>t, <2>2, <2>4, <2>5, <2>6, <2>7 DEF Data, StreamSorted
<1>4. CASE UNCHANGED <<lst_buffer_, writedbufid_, write_id, histVars>>
  BY <1>t, <1>4 DEF Data, DataType, QueueFollows, StreamSorted, StreamBounded, StreamCounts,
                    ReportFollows, histVars
<1>5. ASSUME NEW u \in Users,
             \/ DisconnectSet(u) \/ DisconnectBreak(u) \/ WaitJoin(u) \/ ReadRecv(u)
             \/ ReadDone(u) \/ ReadBreak(u) \/ WriteBreak(u) \/ UserCall(u)
      PROVE  Data'
  BY <1>4, <1>5 DEF DisconnectSet, DisconnectBreak, WaitJoin, ReadRecv, ReadDone, ReadBreak,
                    WriteBreak, UserCall, Connect, CallRead, CallWrite, CallDisconnect, clientVars,
                    workVars
<1>6. CASE \/ RunConnect \/ Poll \/ AutoClear \/ CheckConnect \/ WantRead \/ WantWrite \/ Check
           \/ Peek \/ AllWrote \/ CallbackReturn \/ CloseSocket \/ ResetSocket
  BY <1>4, <1>6 DEF RunConnect, Poll, AutoClear, CheckConnect, WantRead, WantWrite, Check, Peek,
                    AllWrote, CallbackReturn, CloseSocket, ResetSocket, clientVars
<1>7. CASE SendSome /\ stream' = stream
  <2>1. lst_buffer_' = lst_buffer_
    <3>. SUFFICES ASSUME lst_buffer_' # lst_buffer_ PROVE FALSE
      OBVIOUS
    <3>. DEFINE h == Head(lst_buffer_)
    <3>0. h \in Buffers /\ h.id \in Nat /\ h.len - h.pos \in Int
      <4>1. h \in Buffers
        BY <1>7, <1>c DEF SendSome
      <4>. HIDE DEF h
      <4>. QED
        BY <4>1 DEF Buffers
    <3>1. PICK k \in 1 .. h.len - h.pos : stream' = stream \o [i \in 1 .. k |-> h.id]
      BY <1>7 DEF SendSome
    <3>2. k \in Nat /\ k > 0
      BY <3>0
    <3>3. Len(stream \o [i \in 1 .. k |-> h.id]) = Len(stream) + k
      <4>1. [i \in 1 .. k |-> h.id] \in Seq(Nat) /\ Len([i \in 1 .. k |-> h.id]) = k
        BY <3>0, <3>2
      <4>. QED
        BY <1>c, <4>1, ConcatProperties
    <3>. QED
      BY <1>7, <1>c, <3>1, <3>2, <3>3
  <2>. QED
    BY <1>4, <1>7, <2>1 DEF SendSome, histVars
<1>8. CASE NetStep \/ UNCHANGED vars
  BY <1>4, <1>8 DEF NetStep, ConnectResolves, PeerSends, PeerCloses, NetFails, SendBufferFills,
                    SendBufferDrains, Net, vars, clientVars, workVars
<1>. QED
  BY <1>1, <1>2, <1>3, <1>5, <1>6, <1>7, <1>8 DEF Next, UserStep, WorkerStep

\* What was sent is what the buffers say was sent, in every behaviour (tcpclient.cc 95-120, 270-315).
THEOREM DataHolds == Spec => []Data
BY DataInit, DataStep, PTL DEF Spec

\* OnWrote(id) is about the buffer whose Write returned id, when every byte of it and of all
\* earlier buffers has left, in the order of Write, for any number of writers, partial sends
\* and empty buffers (tcpclient.cc 95-107, 286-306).
THEOREM OnWroteIsTruthful == Spec => []OnWroteTruthful
<1>1. Data => OnWroteTruthful
  <2>. SUFFICES ASSUME Data PROVE OnWroteTruthful
    OBVIOUS
  <2>1. DOMAIN stream = 1 .. Len(stream)
    BY DEF Data, DataType
  <2>2. wrote.id = write_id /\ wrote.id = wrote.buf
    BY DEF Data, ReportFollows
  <2>3. \A id \in 1 .. wrote.id : Cardinality({i \in DOMAIN stream : stream[i] = id}) = lens[id]
    BY <2>2 DEF Data, StreamCounts, Count
  <2>. QED
    BY <2>1, <2>2, <2>3 DEF Data, StreamSorted, OnWroteTruthful
<1>. QED
  BY <1>1, DataHolds, PTL
==============================================================================
