--------------------------- MODULE MsgQueueProofs ---------------------------
(***************************************************************************)
(* Proofs about MsgQueue, for any clients, messages, handlers and bounds.  *)
(***************************************************************************)
EXTENDS MsgQueue, TLAPS

-----------------------------------------------------------------------------
(* Types.                                                                  *)

\* The constants have the types the steps rely on.
LEMMA ConstantTypes ==
    /\ MaxNow \in Nat /\ IdleWait \in Nat /\ IdleWait > MaxNow
    /\ \A m \in Sends : m \in MsgArg
BY ConstantsAssumption DEF IdleWait

\* The two wakeups keep the types of the program counters.
LEMMA WakeTypes ==
    ASSUME TypeOK
    PROVE  /\ WakeAll \in [Clients -> ClientPC]
           /\ WakeWorker \in WorkerPC
           /\ \A c \in Clients : WakeAll[c] \in WaitPC <=> cpc[c] \in WaitPC
           /\ \A c \in Clients : WakeAll[c] \in QuitPC <=> cpc[c] \in QuitPC
           /\ \A c \in Clients : WakeAll[c] \in SendPC <=> cpc[c] \in SendPC
           /\ \A c \in Clients : WakeAll[c] \in SendPC \cup {"returned"} => WakeAll[c] = cpc[c]
           /\ \A c \in Clients : WakeAll[c] # "blocked"
BY DEF TypeOK, ClientType, WorkerType, WakeAll, WakeWorker, ClientPC, SendPC, WaitPC, QuitPC, WorkerPC

\* A dispatch of a message of the list keeps the types.
LEMMA DispatchTypes ==
    ASSUME TypeOK, NEW s \in lst_msg, NEW h \in Nat, Dispatch(s, h),
           UNCHANGED <<handlerVars, now>>
    PROVE  /\ lst_msg' \subseteq 0 .. msg_seq' - 1
           /\ msg' \in [0 .. msg_seq' - 1 -> Msg]
           /\ is_handling' \subseteq lst_msg'
           /\ msg_seq' \in Nat
           /\ cancelled' \subseteq 0 .. msg_seq' - 1
           /\ ub' \in {ub, "node"}
           /\ wpc' \in {"handle", "loop"} /\ cur' \in Nat /\ hcur' \in Nat
           /\ cpc' \in [Clients -> ClientPC]
           /\ handled' \in Seq(Call)
<1>1. s \in Nat
  BY DEF TypeOK, ListType
<1>2. CASE wpc' = "handle"
  <2>1. PICK r \in Receivers(s, h) :
          hcur' = r /\ handled' = Append(handled, [seq |-> s, handler |-> r, at |-> now])
    BY <1>2 DEF Dispatch
  <2>2. r \in Nat /\ now \in Nat
    BY <2>1 DEF Receivers, TypeOK, HandlerType, HistType
  <2>3. [seq |-> s, handler |-> r, at |-> now] \in Call
    BY <1>1, <2>2 DEF Call
  <2>4. handled' \in Seq(Call)
    BY <2>1, <2>3 DEF TypeOK, HistType
  <2>. QED
    BY <1>1, <1>2, <2>1, <2>2, <2>4 DEF Dispatch, TypeOK, ListType, ClientType
<1>3. CASE wpc' # "handle"
  BY <1>1, <1>3, WakeTypes
  DEF Dispatch, Erase, FreedNodes, TypeOK, ListType, WorkerType, HistType
<1>. QED
  BY <1>2, <1>3

\* A scan that finds nothing due sleeps for the rest of some message's delay.
LEMMA ScanSleep ==
    ASSUME TypeOK, Due = {}, NEW f \in lst_msg, NEW l \in lst_msg
    PROVE  /\ SleepTime(f, l) \in Nat
           /\ SleepTime(f, l) <= Remaining(f)
           /\ Remaining(f) \in Int
<1>1. \A s \in lst_msg : msg[s] \in Msg /\ now \in Nat
  BY DEF TypeOK, ListType, HistType
<1>2. \A s \in lst_msg : Remaining(s) \in Int
  BY <1>1 DEF Remaining, Msg
<1>3. \A s \in lst_msg : Remaining(s) > 0
  BY <1>2 DEF Due
<1>. QED
  BY <1>2, <1>3 DEF SleepTime

\* The scan, with whatever it finds, keeps the types.
LEMMA ScanTypes ==
    ASSUME TypeOK, Scan, UNCHANGED <<handlerVars, now>>
    PROVE  /\ ListType' /\ wait_time' \in Nat
           /\ wpc' \in {"handle", "loop"} /\ cur' \in Nat /\ hcur' \in Nat
           /\ cpc' \in [Clients -> ClientPC]
           /\ handled' \in Seq(Call) /\ ub' \in {ub, "node"}
<1>1. CASE Due = {} /\ wpc' = "loop" /\ UNCHANGED <<listVars, cur, hcur, cpc, ub, handled>>
  <2>1. ASSUME NEW f \in lst_msg, NEW l \in lst_msg, wait_time' = SleepTime(f, l)
        PROVE  wait_time' \in Nat
    BY <1>1, <2>1, ScanSleep
  <2>2. \A s \in lst_msg : ~ FirstDue(s)
    BY <1>1 DEF FirstDue
  <2>3. wait_time' \in Nat
    BY <2>1, <2>2 DEF Scan
  <2>. QED
    BY <1>1, <2>3 DEF TypeOK, ListType, WorkerType, ClientType, HistType, listVars
<1>2. ASSUME NEW s \in lst_msg, FirstDue(s), wait_time' = 0, Dispatch(s, 0)
      PROVE  /\ ListType' /\ wait_time' \in Nat
             /\ wpc' \in {"handle", "loop"} /\ cur' \in Nat /\ hcur' \in Nat
             /\ cpc' \in [Clients -> ClientPC]
             /\ handled' \in Seq(Call) /\ ub' \in {ub, "node"}
  BY <1>2, DispatchTypes DEF ListType
<1>. QED
  BY <1>1, <1>2 DEF Scan

\* The types hold initially.
LEMMA TypeInit == Init => TypeOK /\ ArgOK
<1>. SUFFICES ASSUME Init PROVE TypeOK /\ ArgOK
  OBVIOUS
<1>. USE DEF Init
<1>1. ListType
  BY DEF ListType
<1>2. HandlerType /\ WorkerType
  BY DEF HandlerType, WorkerType, WorkerPC, DEFAULT_HANDLER_ID
<1>5. ExitType
  BY Zenon DEF ExitType
<1>3. ClientType /\ ArgOK
  BY DEF ClientType, ClientPC, ArgOK, SendPC, WaitPC
<1>4. HistType
  BY DEF HistType
<1>. QED
  BY <1>1, <1>2, <1>3, <1>4, <1>5 DEF TypeOK

\* What a step leaves alone keeps its type.
LEMMA TypeUnchanged ==
    ASSUME TypeOK
    PROVE  /\ UNCHANGED listVars => ListType'
           /\ UNCHANGED handlerVars => HandlerType'
           /\ UNCHANGED exitVars => ExitType'
           /\ UNCHANGED workerVars => WorkerType'
           /\ UNCHANGED clientVars => ClientType'
           /\ UNCHANGED <<now, ub, handled>> => HistType'
<1>1. UNCHANGED exitVars => ExitType'
  BY Zenon DEF TypeOK, ExitType, exitVars
<1>. QED
  BY <1>1 DEF TypeOK, ListType, HandlerType, WorkerType, ClientType, HistType, listVars,
     handlerVars, workerVars, clientVars

\* Whatever a cancel function erases is not being handled.
LEMMA CancelErases ==
    ASSUME TypeOK, Cancel
    PROVE  /\ lst_msg' \subseteq lst_msg
           /\ is_handling \subseteq lst_msg'
           /\ UNCHANGED <<msg, msg_seq, is_handling>>
           /\ ub' \in {ub, "node"}
<1>. USE DEF Erase, FreedNodes, MayErase, TypeOK, ListType
<1>1. ASSUME NEW q, cancel_msg_seq(q)
      PROVE  lst_msg' \subseteq lst_msg /\ is_handling \subseteq lst_msg'
  BY <1>1 DEF cancel_msg_seq
<1>2. ASSUME NEW h, cancel_msg_handler(h)
      PROVE  lst_msg' \subseteq lst_msg /\ is_handling \subseteq lst_msg'
  BY <1>2 DEF cancel_msg_handler
<1>3. ASSUME NEW i, NEW h, cancel_msg_all(i, h)
      PROVE  lst_msg' \subseteq lst_msg /\ is_handling \subseteq lst_msg'
  <2>1. \A s \in lst_msg : s <= s
    OBVIOUS
  <2>. QED
    BY <1>3, <2>1 DEF cancel_msg_all, OfMsg, OfHandler
<1>4. ASSUME NEW i, NEW h, cancel_msg_first(i, h)
      PROVE  lst_msg' \subseteq lst_msg /\ is_handling \subseteq lst_msg'
  BY <1>4 DEF cancel_msg_first
<1>. QED
  BY <1>1, <1>2, <1>3, <1>4
  DEF Cancel, cancel_msg_seq, cancel_msg_all, cancel_msg_handler, cancel_msg_first

\* Every action preserves the types.
LEMMA TypeStep == TypeOK /\ ArgOK /\ Next => TypeOK'
<1>. SUFFICES ASSUME TypeOK, ArgOK, Next PROVE TypeOK'
  OBVIOUS
<1>. USE TypeUnchanged
<1>1. CASE WorkerLoop
  <2>1. WorkerType'
    BY <1>1 DEF WorkerLoop, WorkerType, WorkerPC, TypeOK
  <2>. QED
    BY <1>1, <2>1 DEF WorkerLoop, TypeOK
<1>2. CASE WorkerLock
  <2>1. ExitType'
    BY <1>2, Zenon DEF WorkerLock, ExitType, TypeOK
  <2>2. CASE Scan
    BY <1>2, <2>1, <2>2, ScanTypes
    DEF WorkerLock, Scan, TypeOK, WorkerType, WorkerPC, ClientType, HistType
  <2>3. ASSUME NEW t \in {IdleWait, wait_time}, Sleep(t) PROVE TypeOK'
    BY <1>2, <2>1, <2>3, ConstantTypes
    DEF WorkerLock, Sleep, TypeOK, WorkerType, WorkerPC, ClientType, HistType
  <2>. QED
    BY <1>2, <2>2, <2>3 DEF WorkerLock
<1>3. CASE WorkerTimeout
  BY <1>3 DEF WorkerTimeout, WorkerType, WorkerPC, TypeOK
<1>4. CASE WorkerWoken
  <2>1. CASE Scan
    BY <1>4, <2>1, ScanTypes
    DEF WorkerWoken, Scan, TypeOK, WorkerType, WorkerPC, ClientType, HistType
  <2>2. CASE Sleep(IdleWait)
    BY <1>4, <2>2, ConstantTypes
    DEF WorkerWoken, Sleep, TypeOK, WorkerType, WorkerPC, ClientType, HistType
  <2>. QED
    BY <1>4, <2>1, <2>2 DEF WorkerWoken
<1>5. CASE HandleDone
  <2>1. CASE cur \in lst_msg /\ hcur \in lst_handler
    <3>1. Dispatch(cur, hcur + 1) /\ hcur + 1 \in Nat
      BY <1>5, <2>1 DEF HandleDone, TypeOK, WorkerType
    <3>. QED
      BY <1>5, <2>1, <3>1, DispatchTypes
      DEF HandleDone, TypeOK, ListType, WorkerType, WorkerPC, ClientType, HistType
  <2>2. CASE ~ (cur \in lst_msg /\ hcur \in lst_handler)
    BY <1>5, <2>2 DEF HandleDone, TypeOK, WorkerType, ClientType, HistType
  <2>. QED
    BY <2>1, <2>2
<1>6. CASE WorkerExit
  <2>1. ExitType'
    BY <1>6, Zenon DEF WorkerExit, ExitType, TypeOK
  <2>2. WorkerType'
    BY <1>6 DEF WorkerExit, WorkerType, WorkerPC, TypeOK
  <2>. QED
    BY <1>6, <2>1, <2>2 DEF WorkerExit, TypeOK
<1>7. CASE WorkerNotify
  BY <1>7, WakeTypes DEF WorkerNotify, WorkerType, WorkerPC, ClientType, TypeOK
<1>8. CASE Tick
  BY <1>8 DEF Tick, HistType, TypeOK
<1>9. CASE SpuriousWorker
  BY <1>9 DEF SpuriousWorker, WorkerType, WorkerPC, TypeOK
<1>10. CASE Cancel
  <2>1. ListType' /\ HistType'
    BY <1>10, CancelErases DEF Cancel, TypeOK, ListType, HistType
  <2>. QED
    BY <1>10, <2>1 DEF Cancel, TypeOK
<1>11. CASE AddHandler
  BY <1>11 DEF AddHandler, HandlerType, TypeOK
<1>12. CASE RemoveHandler
  <2>1. ListType' /\ HandlerType' /\ HistType'
    BY <1>12 DEF RemoveHandler, FreedNodes, ListType, HandlerType, HistType, TypeOK
  <2>2. ClientType'
    BY <1>12 DEF RemoveHandler, ClientType, ClientPC, SendPC, TypeOK
  <2>. QED
    BY <1>12, <2>1, <2>2 DEF RemoveHandler, TypeOK
<1>13. ASSUME NEW c \in Clients, SendBegin(c) PROVE TypeOK'
  <2>1. PICK m \in Sends : StartSend(c, [id |-> m.id, handler |-> m.handler,
          after |-> m.after, bcast |-> m.bcast, rec |-> now], FALSE)
    BY <1>13 DEF SendBegin
  <2>2. arg'[c] \in SendArg /\ ClientType'
    BY <2>1, ConstantTypes
    DEF StartSend, TypeOK, ClientType, ClientPC, SendPC, HistType, MsgArg, Msg, SendArg
  <2>. QED
    BY <1>13, <2>2 DEF SendBegin, TypeOK
<1>14. ASSUME NEW c \in Clients, WaitBegin(c) PROVE TypeOK'
  <2>1. PICK a \in WaitCalls : arg' = [arg EXCEPT ![c] = a]
    BY <1>14 DEF WaitBegin
  <2>2. a \in WaitArg
    BY ConstantTypes
    DEF WaitCalls, WaitArg, Ids, Handlers, TypeOK, ListType, MsgArg, INVALID_MSG_ID
  <2>3. ClientType'
    BY <1>14, <2>1, <2>2 DEF WaitBegin, TypeOK, ClientType, ClientPC, WaitPC
  <2>. QED
    BY <1>14, <2>3 DEF WaitBegin, TypeOK
<1>15. ASSUME NEW c \in Clients, Quit(c) PROVE TypeOK'
  <2>1. ExitType'
    BY <1>15, Zenon DEF Quit, ExitType, TypeOK
  <2>2. QuitMsg \in Msg
    BY DEF QuitMsg, Msg, TypeOK, HistType, INVALID_MSG_ID, DEFAULT_HANDLER_ID
  <2>3. ClientType'
    BY <1>15, <2>2 DEF Quit, StartSend, TypeOK, ClientType, ClientPC, SendPC, SendArg
  <2>. QED
    BY <1>15, <2>1, <2>3 DEF Quit, TypeOK
<1>16. ASSUME NEW c \in Clients, SendEnd(c) PROVE TypeOK'
  BY <1>16 DEF SendEnd, AfterSend, TypeOK, ClientType, ClientPC, SendPC, QuitPC, HistType,
     clientVars
<1>17. ASSUME NEW c \in Clients, SendPush(c) PROVE TypeOK'
  <2>1. arg[c] \in SendArg /\ arg[c].m \in Msg
    BY <1>17 DEF SendPush, ArgOK, SendPC, SendArg
  <2>2. ListType'
    BY <1>17, <2>1 DEF SendPush, TypeOK, ListType
  <2>3. ClientType'
    BY <1>17 DEF SendPush, AfterSend, TypeOK, ClientType, ClientPC, QuitPC
  <2>4. WorkerType'
    BY <1>17, WakeTypes DEF SendPush, TypeOK, WorkerType
  <2>. QED
    BY <1>17, <2>2, <2>3, <2>4 DEF SendPush, TypeOK
<1>18. ASSUME NEW c \in Clients, WaitAgain(c) PROVE TypeOK'
  BY <1>18 DEF WaitAgain, TypeOK, ClientType, ClientPC, WaitPC
<1>19. ASSUME NEW c \in Clients, QuitCheck(c) PROVE TypeOK'
  <2>1. ExitType'
    BY <1>19, Zenon DEF QuitCheck, ExitType, TypeOK
  <2>. QED
    BY <1>19, <2>1 DEF QuitCheck, TypeOK, ClientType, ClientPC, QuitPC
<1>20. ASSUME NEW c \in Clients, QuitSleep(c) PROVE TypeOK'
  <2>1. ExitType'
    BY <1>20, Zenon DEF QuitSleep, ExitType, TypeOK
  <2>. QED
    BY <1>20, <2>1 DEF QuitSleep, TypeOK, ClientType, ClientPC, QuitPC
<1>21. ASSUME NEW c \in Clients, SpuriousClient(c) PROVE TypeOK'
  BY <1>21, WakeTypes DEF SpuriousClient, TypeOK, ClientType
<1>. QED
  BY <1>1, <1>2, <1>3, <1>4, <1>5, <1>6, <1>7, <1>8, <1>9, <1>10, <1>11, <1>12, <1>13,
     <1>14, <1>15, <1>16, <1>17, <1>18, <1>19, <1>20, <1>21
  DEF Next, Worker, ClientCall, ClientStep

-----------------------------------------------------------------------------
(* The steps of the worker, sorted by what they do to the lists.           *)

\* The scan picks message s and the handler loop starts.
Picks(s) ==
    /\ wpc \in {"lock", "woken"} /\ s \in lst_msg /\ FirstDue(s)
    /\ wait_time' = 0 /\ Dispatch(s, 0)
    /\ exit_done' \in {exit_done, FALSE} /\ (wpc = "lock" => exit_done' = FALSE)
    /\ ub = "none"
    /\ UNCHANGED <<handlerVars, exit, arg, now>>

\* A Handle call has returned and the handler loop goes on.
Continues ==
    /\ wpc = "handle" /\ cur \in lst_msg /\ hcur \in lst_handler
    /\ Dispatch(cur, hcur + 1)
    /\ ub = "none"
    /\ UNCHANGED <<handlerVars, exitVars, wait_time, arg, now>>

\* A Handle call has returned and the message or the handler is gone.
FollowsFreed ==
    /\ wpc = "handle" /\ ~ (cur \in lst_msg /\ hcur \in lst_handler)
    /\ ub = "none" /\ ub' = "dispatch"
    /\ UNCHANGED <<listVars, handlerVars, exitVars, workerVars, clientVars, now, handled>>

\* The worker only moves on: it looks at exit, falls asleep, wakes up or leaves.
Moves ==
    /\ wpc # "handle" /\ wpc' # "handle"
    /\ wpc' = "wait" => lst_msg = {} \/ (wpc = "lock" /\ UNCHANGED wait_time)
    /\ wpc' = "lock" => wpc = "loop" /\ UNCHANGED wait_time
    /\ wpc' = "loop" => \E f \in lst_msg : wait_time' <= Remaining(f)
    /\ wpc' \in {"wait", "woken"} =>
            exit_done' = FALSE \/ (wpc \in {"wait", "woken"} /\ UNCHANGED exit_done)
    /\ UNCHANGED <<listVars, handlerVars, exit, cur, hcur, clientVars, now, ub, handled>>

\* Every step of the worker but its last notification is one of the four.
LEMMA WorkerCases ==
    ASSUME TypeOK, Worker \/ SpuriousWorker
    PROVE  Continues \/ FollowsFreed \/ Moves \/ WorkerNotify \/ \E s \in lst_msg : Picks(s)
<1>1. CASE WorkerLoop
  BY <1>1 DEF WorkerLoop, Moves, exitVars
<1>2. CASE Scan /\ UNCHANGED <<handlerVars, exit, arg, now>> /\ ub = "none"
           /\ wpc \in {"lock", "woken"}
           /\ exit_done' \in {exit_done, FALSE} /\ (wpc = "lock" => exit_done' = FALSE)
  <2>1. CASE Due = {}
    <3>1. \A s \in lst_msg : ~ FirstDue(s)
      BY <2>1 DEF FirstDue
    <3>2. PICK f \in lst_msg, l \in lst_msg :
            wait_time' = SleepTime(f, l) /\ wpc' = "loop"
            /\ UNCHANGED <<listVars, cur, hcur, cpc, ub, handled>>
      BY <1>2, <3>1 DEF Scan
    <3>3. wait_time' <= Remaining(f)
      BY <2>1, <3>2, ScanSleep
    <3>. QED
      BY <1>2, <3>2, <3>3 DEF Moves, clientVars
  <2>2. CASE Due # {}
    BY <1>2, <2>2 DEF Scan, Picks
  <2>. QED
    BY <2>1, <2>2
<1>3. CASE WorkerLock
  <2>4. wpc = "lock" /\ exit_done' = FALSE /\ UNCHANGED <<handlerVars, exit, arg, now>>
    BY <1>3 DEF WorkerLock
  <2>1. CASE lst_msg = {} /\ Sleep(IdleWait)
    BY <2>1, <2>4 DEF Sleep, Moves, clientVars
  <2>2. CASE lst_msg # {} /\ wait_time > 0 /\ Sleep(wait_time)
    BY <2>2, <2>4 DEF Sleep, Moves, clientVars
  <2>3. CASE Scan
    BY <1>2, <1>3, <2>3 DEF WorkerLock, CanLock
  <2>. QED
    BY <1>3, <2>1, <2>2, <2>3 DEF WorkerLock
<1>4. CASE WorkerTimeout \/ SpuriousWorker
  BY <1>4 DEF WorkerTimeout, SpuriousWorker, Moves, exitVars
<1>5. CASE WorkerWoken
  <2>1. CASE lst_msg = {} /\ Sleep(IdleWait)
    <3>1. wpc = "woken" /\ UNCHANGED <<handlerVars, exit, exit_done, arg, now>>
      BY <1>5 DEF WorkerWoken, exitVars
    <3>. QED
      BY <2>1, <3>1 DEF Sleep, Moves, clientVars
  <2>2. CASE Scan
    BY <1>2, <1>5, <2>2 DEF WorkerWoken, CanLock, exitVars
  <2>. QED
    BY <1>5, <2>1, <2>2 DEF WorkerWoken
<1>6. CASE HandleDone
  BY <1>6 DEF HandleDone, CanLock, Continues, FollowsFreed, workerVars, clientVars
<1>7. CASE WorkerExit
  BY <1>7 DEF WorkerExit, Moves
<1>. QED
  BY <1>1, <1>3, <1>4, <1>5, <1>6, <1>7 DEF Worker

\* What a dispatch does: a Handle call, or the end of the message.
LEMMA DispatchCases ==
    ASSUME NEW s, NEW h, Dispatch(s, h)
    PROVE  \/ /\ ~exit /\ wpc' = "handle" /\ cur' = s /\ hcur' \in Receivers(s, h)
              /\ handled' = Append(handled, [seq |-> s, handler |-> hcur', at |-> now])
              /\ is_handling' = is_handling \cup {s}
              /\ UNCHANGED <<lst_msg, msg, msg_seq, cpc, cancelled, ub>>
           \/ /\ wpc' = "loop" /\ cpc' = WakeAll
              /\ lst_msg' = lst_msg \ {s} /\ is_handling' = is_handling \ {s}
              /\ ub' \in {ub, "node"}
              /\ UNCHANGED <<msg, msg_seq, handled, cancelled>>
BY DEF Dispatch, Erase, FreedNodes

-----------------------------------------------------------------------------
(* The parts of the inductive invariant, one lemma each.                   *)

\* Every step is a step of the worker, the clock, a list operation or a client.
LEMMA StepCases ==
    ASSUME TypeOK, Next
    PROVE  \/ Continues \/ FollowsFreed \/ Moves \/ WorkerNotify
           \/ \E s \in lst_msg : Picks(s)
           \/ Tick \/ Cancel \/ AddHandler \/ RemoveHandler
           \/ \E c \in Clients :
                \/ SendBegin(c) \/ WaitBegin(c) \/ Quit(c) \/ SendEnd(c) \/ SendPush(c)
                \/ WaitAgain(c) \/ QuitCheck(c) \/ QuitSleep(c) \/ SpuriousClient(c)
BY WorkerCases DEF Next, ClientCall, ClientStep

\* A dispatch leaves the clients' counters alone or wakes them.
LEMMA DispatchClients ==
    ASSUME NEW s, NEW h, Dispatch(s, h)
    PROVE  cpc' = cpc \/ cpc' = WakeAll
BY DispatchCases

\* A client in a call keeps the argument of that call.
LEMMA ArgStep == TypeOK /\ ArgOK /\ Next => ArgOK'
<1>. SUFFICES ASSUME TypeOK, ArgOK, Next PROVE ArgOK'
  OBVIOUS
<1>1. CASE (cpc' = cpc \/ cpc' = WakeAll) /\ UNCHANGED arg
  BY <1>1, WakeTypes DEF ArgOK
<1>2. CASE Continues \/ FollowsFreed \/ Moves \/ WorkerNotify \/ \E s \in lst_msg : Picks(s)
  BY <1>1, <1>2, DispatchClients
  DEF Continues, FollowsFreed, Moves, WorkerNotify, Picks, clientVars
<1>3. CASE Tick \/ Cancel \/ AddHandler
  BY <1>1, <1>3 DEF Tick, Cancel, AddHandler, clientVars
<1>4. CASE RemoveHandler
  BY <1>4 DEF RemoveHandler, ArgOK, SendPC, WaitPC
<1>5. ASSUME NEW c \in Clients, SendBegin(c) PROVE ArgOK'
  <2>1. PICK m \in Sends : StartSend(c, [id |-> m.id, handler |-> m.handler,
          after |-> m.after, bcast |-> m.bcast, rec |-> now], FALSE)
    BY <1>5 DEF SendBegin
  <2>2. arg'[c] \in SendArg
    BY <2>1, ConstantTypes DEF StartSend, TypeOK, ClientType, HistType, MsgArg, Msg, SendArg
  <2>. QED
    BY <2>1, <2>2 DEF StartSend, ArgOK, TypeOK, ClientType, SendPC, WaitPC
<1>6. ASSUME NEW c \in Clients, WaitBegin(c) PROVE ArgOK'
  <2>1. PICK a \in WaitCalls : arg' = [arg EXCEPT ![c] = a]
    BY <1>6 DEF WaitBegin
  <2>2. a \in WaitArg
    BY ConstantTypes
    DEF WaitCalls, WaitArg, Ids, Handlers, TypeOK, ListType, MsgArg, INVALID_MSG_ID
  <2>. QED
    BY <1>6, <2>1, <2>2 DEF WaitBegin, ArgOK, TypeOK, ClientType, SendPC, WaitPC
<1>7. ASSUME NEW c \in Clients, Quit(c) PROVE ArgOK'
  <2>1. QuitMsg \in Msg
    BY DEF QuitMsg, Msg, TypeOK, HistType, INVALID_MSG_ID, DEFAULT_HANDLER_ID
  <2>2. arg'[c] \in SendArg
    BY <1>7, <2>1 DEF Quit, StartSend, TypeOK, ClientType, SendArg
  <2>. QED
    BY <1>7, <2>2 DEF Quit, StartSend, ArgOK, TypeOK, ClientType, SendPC, WaitPC
<1>8. ASSUME NEW c \in Clients, SendEnd(c) PROVE ArgOK'
  BY <1>8 DEF SendEnd, AfterSend, ArgOK, TypeOK, ClientType, clientVars, SendPC, WaitPC
<1>9. ASSUME NEW c \in Clients, SendPush(c) PROVE ArgOK'
  BY <1>9 DEF SendPush, AfterSend, ArgOK, TypeOK, ClientType, SendPC, WaitPC
<1>10. ASSUME NEW c \in Clients, WaitAgain(c) PROVE ArgOK'
  BY <1>10 DEF WaitAgain, ArgOK, TypeOK, ClientType, SendPC, WaitPC
<1>11. ASSUME NEW c \in Clients, QuitCheck(c) \/ QuitSleep(c) PROVE ArgOK'
  BY <1>11 DEF QuitCheck, QuitSleep, ArgOK, TypeOK, ClientType, SendPC, WaitPC
<1>12. ASSUME NEW c \in Clients, SpuriousClient(c) PROVE ArgOK'
  BY <1>12, WakeTypes DEF SpuriousClient, ArgOK, TypeOK, ClientType
<1>. QED
  BY <1>2, <1>3, <1>4, <1>5, <1>6, <1>7, <1>8, <1>9, <1>10, <1>11, <1>12, StepCases

\* A client that does not start a send neither changes another client nor the lists.
LEMMA OtherCalls ==
    ASSUME TypeOK, NEW c \in Clients,
           \/ WaitBegin(c) \/ WaitAgain(c) \/ QuitCheck(c) \/ QuitSleep(c)
           \/ SpuriousClient(c)
    PROVE  /\ cpc'[c] \notin SendPC
           /\ \A d \in Clients \ {c} : cpc'[d] = cpc[d] /\ arg'[d] = arg[d]
           /\ UNCHANGED <<listVars, handlerVars, workerVars, now, handled, ub>>
<1>1. CASE SpuriousClient(c)
  BY <1>1, WakeTypes DEF SpuriousClient, TypeOK, ClientType, SendPC
<1>2. CASE WaitBegin(c) \/ WaitAgain(c) \/ QuitCheck(c) \/ QuitSleep(c)
  BY <1>2 DEF WaitBegin, WaitAgain, QuitCheck, QuitSleep, TypeOK, ClientType, SendPC
<1>. QED
  BY <1>1, <1>2

\* The handlers in the list have ids that were handed out.
LEMMA HandlersBelow == TypeOK => \A h \in lst_handler : h < next_handler
BY DEF TypeOK, HandlerType

\* The history and the lists grow together: numbers and handler ids are never reused.
LEMMA HandlersStep == TypeOK /\ ArgOK /\ HandlersKnown /\ Next => HandlersKnown'
<1>. SUFFICES ASSUME TypeOK, ArgOK, HandlersKnown, Next PROVE HandlersKnown'
  OBVIOUS
<1>. USE DEF HandlersKnown
<1>1. CASE /\ (cpc' = cpc \/ cpc' = WakeAll)
           /\ UNCHANGED <<arg, msg, msg_seq, lst_handler, next_handler>>
           /\ wpc' = "handle" => cur' < msg_seq /\ hcur' < next_handler
  BY <1>1, WakeTypes DEF SomeRemoved, SendPC
<1>2. ASSUME NEW s \in lst_msg, NEW h, Dispatch(s, h), UNCHANGED <<arg, handlerVars>>
      PROVE  HandlersKnown'
  <2>1. s < msg_seq
    BY DEF TypeOK, ListType
  <2>2. \A r \in Receivers(s, h) : r < next_handler
    BY DEF Receivers, TypeOK, HandlerType
  <2>. QED
    BY <1>1, <1>2, <2>1, <2>2, DispatchCases DEF handlerVars
<1>3. CASE Continues \/ \E s \in lst_msg : Picks(s)
  BY <1>2, <1>3 DEF Continues, Picks
<1>4. CASE FollowsFreed \/ Moves \/ WorkerNotify
  BY <1>1, <1>4 DEF FollowsFreed, Moves, WorkerNotify, listVars, handlerVars, clientVars,
     workerVars
<1>5. CASE Tick \/ Cancel
  BY <1>1, <1>5, CancelErases
  DEF Tick, Cancel, listVars, handlerVars, clientVars, workerVars
<1>6. CASE AddHandler
  <2>1. SomeRemoved => SomeRemoved'
    BY <1>6 DEF AddHandler, SomeRemoved, TypeOK, HandlerType
  <2>2. next_handler < next_handler'
    BY <1>6 DEF AddHandler, TypeOK, HandlerType
  <2>3. \A s \in 0 .. msg_seq - 1 : msg[s].handler \in Nat
    BY DEF TypeOK, ListType, Msg
  <2>4. \A c \in Clients : cpc[c] \in SendPC => arg[c].m.handler \in Nat
    BY DEF ArgOK, SendArg, Msg
  <2>. QED
    BY <1>6, <2>1, <2>2, <2>3, <2>4
    DEF AddHandler, TypeOK, HandlerType, WorkerType, listVars, clientVars, workerVars
<1>7. CASE RemoveHandler
  <2>1. SomeRemoved'
    BY <1>7 DEF RemoveHandler, SomeRemoved, TypeOK, HandlerType
  <2>. QED
    BY <1>7, <2>1 DEF RemoveHandler, Erase, workerVars, SendPC
<1>8. ASSUME NEW c \in Clients, SendBegin(c) \/ Quit(c) PROVE HandlersKnown'
  <2>1. PICK m, q : StartSend(c, m, q)
    BY <1>8 DEF SendBegin, Quit
  <2>2. m.handler \in lst_handler => m.handler < next_handler
    BY HandlersBelow
  <2>3. /\ cpc' = [cpc EXCEPT ![c] = "traversing"]
        /\ arg'[c].seen => arg'[c].m.handler < next_handler
        /\ \A d \in Clients \ {c} : cpc'[d] = cpc[d] /\ arg'[d] = arg[d]
        /\ cpc'[c] = "traversing"
    BY <2>1, <2>2 DEF StartSend, TypeOK, ClientType
  <2>4. UNCHANGED <<listVars, handlerVars, workerVars>>
    BY <1>8 DEF SendBegin, Quit
  <2>. QED
    BY <2>3, <2>4 DEF SomeRemoved, listVars, handlerVars, workerVars
<1>9. ASSUME NEW c \in Clients, SendEnd(c) PROVE HandlersKnown'
  <2>1. UNCHANGED <<listVars, handlerVars, workerVars>>
    BY <1>9 DEF SendEnd
  <2>2. \A d \in Clients \ {c} : cpc'[d] = cpc[d] /\ arg'[d] = arg[d]
    BY <1>9 DEF SendEnd, TypeOK, ClientType, clientVars
  <2>3. CASE UNCHANGED clientVars
    BY <2>1, <2>3 DEF SomeRemoved, listVars, handlerVars, workerVars, clientVars
  <2>4. ASSUME NEW found \in {arg[c].seen, arg[c].m.handler \in lst_handler},
               cpc' = [cpc EXCEPT ![c] = IF found THEN "push" ELSE AfterSend(c)],
               arg' = IF found THEN arg ELSE [arg EXCEPT ![c] = NoArg]
        PROVE  HandlersKnown'
    <3>1. cpc[c] \in SendPC
      BY <1>9 DEF SendEnd, SendPC
    <3>2. found => cpc'[c] = "push" /\ arg'[c] = arg[c]
      BY <2>4 DEF TypeOK, ClientType
    <3>5. found => arg[c].seen \/ arg[c].m.handler \in lst_handler
      BY <2>4, Zenon
    <3>3. found => arg[c].m.handler < next_handler
      BY <3>1, <3>5, HandlersBelow
    <3>4. ~found => cpc'[c] \notin SendPC
      BY <2>4 DEF TypeOK, ClientType, AfterSend, SendPC
    <3>. QED
      BY <2>1, <2>2, <3>2, <3>3, <3>4 DEF SomeRemoved, listVars, handlerVars, workerVars
  <2>. QED
    BY <1>9, <2>3, <2>4 DEF SendEnd
<1>10. ASSUME NEW c \in Clients, SendPush(c) PROVE HandlersKnown'
  <2>1. arg[c].m.handler < next_handler
    BY <1>10 DEF SendPush, SendPC
  <2>2. cpc'[c] \notin SendPC /\ \A d \in Clients \ {c} : cpc'[d] = cpc[d] /\ arg'[d] = arg[d]
    BY <1>10 DEF SendPush, AfterSend, TypeOK, ClientType, SendPC
  <2>3. \A s \in 0 .. msg_seq' - 1 : msg'[s].handler < next_handler
    BY <1>10, <2>1 DEF SendPush, TypeOK, ListType
  <2>4. wpc' = "handle" => wpc = "handle" /\ cur' < msg_seq' /\ hcur' < next_handler
    BY <1>10 DEF SendPush, WakeWorker, TypeOK, ListType, WorkerType
  <2>. QED
    BY <1>10, <2>2, <2>3, <2>4 DEF SendPush, SomeRemoved, handlerVars
<1>11. ASSUME NEW c \in Clients,
              \/ WaitBegin(c) \/ WaitAgain(c) \/ QuitCheck(c) \/ QuitSleep(c)
              \/ SpuriousClient(c)
       PROVE  HandlersKnown'
  BY <1>11, OtherCalls DEF SomeRemoved, listVars, handlerVars, workerVars
<1>. QED
  BY <1>3, <1>4, <1>5, <1>6, <1>7, <1>8, <1>9, <1>10, <1>11, StepCases

\* The delays stay within the model's clock, so the worker's timed sleeps are short.
LEMMA DelaysStep == TypeOK /\ ArgOK /\ DelaysBounded /\ Next => DelaysBounded'
<1>. SUFFICES ASSUME TypeOK, ArgOK, DelaysBounded, Next PROVE DelaysBounded'
  OBVIOUS
<1>. USE DEF DelaysBounded
<1>1. \A s \in 0 .. msg_seq - 1 : msg[s].after \in Nat /\ msg[s].rec \in Nat
  BY DEF TypeOK, ListType, Msg
<1>2. \A c \in Clients : cpc[c] \in SendPC => arg[c].m.after \in Nat /\ arg[c].m.rec \in Nat
  BY DEF ArgOK, SendArg, Msg
<1>3. CASE /\ (cpc' = cpc \/ cpc' = WakeAll) /\ UNCHANGED <<arg, msg, msg_seq, now>>
           /\ wpc' \in {"loop", "lock", "handle"} => wait_time' < IdleWait
  BY <1>3, WakeTypes DEF SendPC
<1>4. CASE Continues
  <2>1. wait_time < IdleWait /\ UNCHANGED <<arg, now, wait_time>>
    BY <1>4 DEF Continues
  <2>2. (cpc' = cpc \/ cpc' = WakeAll) /\ UNCHANGED <<msg, msg_seq>>
    BY <1>4, DispatchCases DEF Continues
  <2>. QED
    BY <1>3, <2>1, <2>2
<1>5. ASSUME NEW s \in lst_msg, Picks(s) PROVE DelaysBounded'
  <2>1. wait_time' < IdleWait /\ UNCHANGED <<arg, now>>
    BY <1>5, ConstantTypes DEF Picks
  <2>2. (cpc' = cpc \/ cpc' = WakeAll) /\ UNCHANGED <<msg, msg_seq>>
    BY <1>5, DispatchCases DEF Picks
  <2>. QED
    BY <1>3, <2>1, <2>2
<1>6. CASE FollowsFreed \/ WorkerNotify
  BY <1>3, <1>6 DEF FollowsFreed, WorkerNotify, listVars, clientVars, workerVars
<1>7. CASE Moves
  <2>1. wpc' = "loop" => wait_time' < IdleWait
    <3>. SUFFICES ASSUME wpc' = "loop" PROVE wait_time' < IdleWait
      OBVIOUS
    <3>1. PICK f \in lst_msg : wait_time' <= Remaining(f)
      BY <1>7 DEF Moves
    <3>2. Remaining(f) <= MaxNow /\ Remaining(f) \in Int
      BY <1>1, ConstantTypes DEF Remaining, TypeOK, ListType, HistType
    <3>3. wait_time' \in Nat
      BY TypeStep DEF TypeOK, WorkerType
    <3>. QED
      BY <3>1, <3>2, <3>3, ConstantTypes
  <2>2. wpc' = "lock" => wait_time' < IdleWait
    BY <1>7 DEF Moves
  <2>3. wpc' # "handle" /\ UNCHANGED <<cpc, arg, msg, msg_seq, now>>
    BY <1>7 DEF Moves, listVars, clientVars
  <2>. QED
    BY <1>3, <2>1, <2>2, <2>3
<1>8. CASE Tick
  <2>1. now < now'
    BY <1>8 DEF Tick, TypeOK, HistType
  <2>. QED
    BY <1>1, <1>2, <1>8, <2>1
    DEF Tick, TypeOK, HistType, listVars, clientVars, workerVars
<1>9. CASE Cancel \/ AddHandler
  BY <1>3, <1>9, CancelErases DEF Cancel, AddHandler, listVars, clientVars, workerVars
<1>10. CASE RemoveHandler
  BY <1>10 DEF RemoveHandler, Erase, workerVars, SendPC
<1>11. ASSUME NEW c \in Clients, SendBegin(c) \/ Quit(c) PROVE DelaysBounded'
  <2>1. CASE Quit(c)
    BY <2>1, ConstantTypes DEF Quit, StartSend, QuitMsg, TypeOK, ClientType, HistType,
       listVars, workerVars
  <2>2. CASE SendBegin(c)
    <3>1. PICK n \in Sends :
            /\ now + n.after <= MaxNow
            /\ StartSend(c, [id |-> n.id, handler |-> n.handler, after |-> n.after,
                             bcast |-> n.bcast, rec |-> now], FALSE)
      BY <2>2 DEF SendBegin
    <3>2. n.after <= MaxNow /\ now <= now
      BY <3>1, ConstantTypes DEF TypeOK, HistType, MsgArg
    <3>3. UNCHANGED <<listVars, workerVars, now>>
      BY <2>2 DEF SendBegin
    <3>. QED
      BY <3>1, <3>2, <3>3 DEF StartSend, TypeOK, ClientType, listVars, workerVars
  <2>. QED
    BY <1>11, <2>1, <2>2
<1>12. ASSUME NEW c \in Clients, SendEnd(c) PROVE DelaysBounded'
  <2>1. cpc[c] \in SendPC
    BY <1>12 DEF SendEnd, SendPC
  <2>2. cpc'[c] \in SendPC => arg'[c] = arg[c]
    BY <1>12 DEF SendEnd, AfterSend, TypeOK, ClientType, clientVars, SendPC
  <2>3. \A d \in Clients \ {c} : cpc'[d] = cpc[d] /\ arg'[d] = arg[d]
    BY <1>12 DEF SendEnd, TypeOK, ClientType, clientVars
  <2>4. UNCHANGED <<listVars, workerVars, now>>
    BY <1>12 DEF SendEnd
  <2>. QED
    BY <2>1, <2>2, <2>3, <2>4 DEF listVars, workerVars
<1>13. ASSUME NEW c \in Clients, SendPush(c) PROVE DelaysBounded'
  <2>1. arg[c].m.after <= MaxNow /\ arg[c].m.rec <= now
    BY <1>13 DEF SendPush, SendPC
  <2>2. cpc'[c] \notin SendPC /\ \A d \in Clients \ {c} : cpc'[d] = cpc[d] /\ arg'[d] = arg[d]
    BY <1>13 DEF SendPush, AfterSend, TypeOK, ClientType, SendPC
  <2>3. \A s \in 0 .. msg_seq' - 1 : msg'[s].after <= MaxNow /\ msg'[s].rec <= now
    BY <1>13, <2>1 DEF SendPush, TypeOK, ListType
  <2>4. wpc' \in {"loop", "lock", "handle"} => wait_time' < IdleWait
    BY <1>13 DEF SendPush, WakeWorker
  <2>. QED
    BY <1>13, <2>2, <2>3, <2>4 DEF SendPush
<1>14. ASSUME NEW c \in Clients,
              \/ WaitBegin(c) \/ WaitAgain(c) \/ QuitCheck(c) \/ QuitSleep(c)
              \/ SpuriousClient(c)
       PROVE  DelaysBounded'
  BY <1>14, OtherCalls DEF listVars, workerVars
<1>. QED
  BY <1>4, <1>5, <1>6, <1>7, <1>8, <1>9, <1>10, <1>11, <1>12, <1>13, <1>14, StepCases

\* exit is set before quit does anything else, and exit_done is false while the worker
\* is between its lock and the end of its loop.
LEMMA ExitStep == TypeOK /\ ArgOK /\ ExitOK /\ Next => ExitOK'
<1>. SUFFICES ASSUME TypeOK, ArgOK, ExitOK, Next PROVE ExitOK'
  OBVIOUS
<1>. USE DEF ExitOK
<1>1. CASE /\ (cpc' = cpc \/ cpc' = WakeAll) /\ UNCHANGED <<arg, exit>>
           /\ wpc' \in {"wait", "woken", "handle"} => ~exit_done'
  BY <1>1, WakeTypes DEF SendPC
<1>2. CASE Continues
  BY <1>1, <1>2, DispatchClients DEF Continues, exitVars
<1>3. ASSUME NEW s \in lst_msg, Picks(s) PROVE ExitOK'
  <2>1. ~exit_done'
    BY <1>3, Zenon DEF Picks
  <2>. QED
    BY <1>1, <1>3, <2>1, DispatchClients DEF Picks
<1>4. CASE FollowsFreed \/ Moves \/ WorkerNotify
  BY <1>1, <1>4 DEF FollowsFreed, Moves, WorkerNotify, exitVars, clientVars, workerVars
<1>5. CASE Tick \/ Cancel \/ AddHandler
  BY <1>1, <1>5 DEF Tick, Cancel, AddHandler, exitVars, clientVars, workerVars
<1>6. CASE RemoveHandler
  BY <1>6 DEF RemoveHandler, exitVars, workerVars, SendPC, QuitPC
<1>7. ASSUME NEW c \in Clients, SendBegin(c) PROVE ExitOK'
  BY <1>7 DEF SendBegin, StartSend, TypeOK, ClientType, exitVars, workerVars, QuitPC
<1>8. ASSUME NEW c \in Clients, Quit(c) PROVE ExitOK'
  BY <1>8 DEF Quit, workerVars
<1>9. ASSUME NEW c \in Clients, SendEnd(c) PROVE ExitOK'
  BY <1>9 DEF SendEnd, AfterSend, TypeOK, ClientType, exitVars, workerVars, clientVars,
     SendPC, QuitPC
<1>10. ASSUME NEW c \in Clients, SendPush(c) PROVE ExitOK'
  <2>1. wpc' \in {"wait", "woken", "handle"} => ~exit_done'
    BY <1>10 DEF SendPush, WakeWorker, exitVars
  <2>. QED
    BY <1>10, <2>1 DEF SendPush, AfterSend, TypeOK, ClientType, exitVars, SendPC, QuitPC
<1>11. ASSUME NEW c \in Clients, WaitBegin(c) \/ WaitAgain(c) PROVE ExitOK'
  BY <1>11 DEF WaitBegin, WaitAgain, TypeOK, ClientType, exitVars, workerVars, SendPC, QuitPC
<1>12. ASSUME NEW c \in Clients, QuitCheck(c) \/ QuitSleep(c) PROVE ExitOK'
  BY <1>12 DEF QuitCheck, QuitSleep, TypeOK, ClientType, workerVars, SendPC, QuitPC
<1>13. ASSUME NEW c \in Clients, SpuriousClient(c) PROVE ExitOK'
  BY <1>13, WakeTypes DEF SpuriousClient, TypeOK, ClientType, exitVars, workerVars, SendPC
<1>. QED
  BY <1>2, <1>3, <1>4, <1>5, <1>6, <1>7, <1>8, <1>9, <1>10, <1>11, <1>12, <1>13, StepCases

\* A handler that runs keeps quit waiting, and after exit none is started.
LEMMA QuitStep ==
    TypeOK /\ ExitOK /\ QuitStopsHandlers /\ Next => QuitStopsHandlers'
<1>. SUFFICES ASSUME TypeOK, ExitOK, QuitStopsHandlers, Next,
                     NEW c \in Clients, cpc'[c] = "returned"
              PROVE  wpc' # "handle"
  BY DEF QuitStopsHandlers
<1>1. CASE cpc[c] = "returned"
  <2>1. exit /\ wpc # "handle"
    BY <1>1 DEF ExitOK, QuitPC, QuitStopsHandlers
  <2>2. ASSUME NEW s, NEW h, Dispatch(s, h) PROVE wpc' # "handle"
    BY <2>1, <2>2, DispatchCases
  <2>3. CASE Continues \/ FollowsFreed \/ Moves \/ WorkerNotify \/ \E s \in lst_msg : Picks(s)
    BY <2>1, <2>2, <2>3 DEF Continues, FollowsFreed, Moves, WorkerNotify, Picks
  <2>4. CASE Tick \/ Cancel \/ AddHandler \/ RemoveHandler
    BY <2>1, <2>4 DEF Tick, Cancel, AddHandler, RemoveHandler, workerVars
  <2>5. ASSUME NEW d \in Clients, SendPush(d) PROVE wpc' # "handle"
    BY <2>1, <2>5 DEF SendPush, WakeWorker
  <2>6. ASSUME NEW d \in Clients,
               \/ SendBegin(d) \/ WaitBegin(d) \/ Quit(d) \/ SendEnd(d)
               \/ WaitAgain(d) \/ QuitCheck(d) \/ QuitSleep(d) \/ SpuriousClient(d)
        PROVE  wpc' # "handle"
    BY <2>1, <2>6 DEF SendBegin, WaitBegin, Quit, SendEnd, WaitAgain, QuitCheck, QuitSleep,
       SpuriousClient, workerVars
  <2>. QED
    BY <2>3, <2>4, <2>5, <2>6, StepCases
<1>2. CASE cpc[c] # "returned"
  <2>1. ASSUME cpc' = cpc \/ cpc' = WakeAll PROVE FALSE
    BY <1>2, <2>1, WakeTypes
  <2>2. CASE Continues \/ FollowsFreed \/ Moves \/ WorkerNotify \/ \E s \in lst_msg : Picks(s)
    BY <2>1, <2>2, DispatchClients
    DEF Continues, FollowsFreed, Moves, WorkerNotify, Picks, clientVars
  <2>3. CASE Tick \/ Cancel \/ AddHandler
    BY <2>1, <2>3 DEF Tick, Cancel, AddHandler, clientVars
  <2>4. CASE RemoveHandler
    BY <1>2, <2>4 DEF RemoveHandler
  <2>5. ASSUME NEW d \in Clients, QuitCheck(d) PROVE wpc' # "handle"
    <3>1. d = c /\ exit_done
      BY <1>2, <2>5 DEF QuitCheck, TypeOK, ClientType
    <3>. QED
      BY <2>5, <3>1 DEF QuitCheck, ExitOK, workerVars
  <2>6. ASSUME NEW d \in Clients,
               \/ SendBegin(d) \/ WaitBegin(d) \/ Quit(d) \/ SendEnd(d) \/ SendPush(d)
               \/ WaitAgain(d) \/ QuitSleep(d)
        PROVE  FALSE
    BY <1>2, <2>6 DEF SendBegin, WaitBegin, Quit, SendEnd, SendPush, WaitAgain, QuitSleep,
       StartSend, AfterSend, TypeOK, ClientType, clientVars
  <2>7. ASSUME NEW d \in Clients, SpuriousClient(d) PROVE FALSE
    BY <1>2, <2>7, WakeTypes DEF SpuriousClient, TypeOK, ClientType
  <2>. QED
    BY <2>2, <2>3, <2>4, <2>5, <2>6, <2>7, StepCases
<1>. QED
  BY <1>1, <1>2

\* All a client does but the push of a message leaves the lists and the worker alone.
LEMMA ClientFrame ==
    ASSUME NEW c \in Clients,
           \/ SendBegin(c) \/ WaitBegin(c) \/ Quit(c) \/ SendEnd(c)
           \/ WaitAgain(c) \/ QuitCheck(c) \/ QuitSleep(c) \/ SpuriousClient(c)
    PROVE  UNCHANGED <<listVars, handlerVars, workerVars, now, handled>>
BY DEF SendBegin, WaitBegin, Quit, SendEnd, WaitAgain, QuitCheck, QuitSleep, SpuriousClient

\* The running message stays marked, whatever is cancelled or sent.
LEMMA RunningStep ==
    TypeOK /\ ArgOK /\ HandlersKnown /\ RunningMarked /\ Next => RunningMarked'
<1>. SUFFICES ASSUME TypeOK, ArgOK, HandlersKnown, RunningMarked, Next PROVE RunningMarked'
  OBVIOUS
<1>. USE DEF RunningMarked
<1>1. CASE UNCHANGED <<wpc, cur, msg, lst_handler, is_handling>>
  BY <1>1
<1>2. CASE Continues
  BY <1>2, DispatchCases DEF Continues
<1>3. ASSUME NEW s \in lst_msg, Picks(s) PROVE RunningMarked'
  BY <1>3, DispatchCases DEF Picks
<1>4. CASE FollowsFreed
  BY <1>1, <1>4 DEF FollowsFreed, listVars, handlerVars, workerVars
<1>5. CASE Moves \/ WorkerNotify
  BY <1>5 DEF Moves, WorkerNotify, listVars
<1>6. CASE Tick \/ Cancel
  BY <1>1, <1>6, CancelErases DEF Tick, Cancel, listVars, handlerVars, workerVars
<1>7. CASE AddHandler
  <2>1. wpc = "handle" => msg[cur].handler < next_handler /\ msg[cur].handler \in Nat
    BY DEF HandlersKnown, TypeOK, ListType, WorkerType, Msg
  <2>2. wpc = "handle" => msg[cur].handler # next_handler
    BY <2>1 DEF TypeOK, HandlerType
  <2>. QED
    BY <1>7, <2>2 DEF AddHandler, listVars, workerVars
<1>8. CASE RemoveHandler
  <2>1. PICK h \in lst_handler :
          lst_handler' = lst_handler \ {h} /\ lst_msg' = lst_msg \ OfHandler(h)
    BY <1>8 DEF RemoveHandler
  <2>2. UNCHANGED <<wpc, cur, msg>> /\ is_handling' = is_handling \cap lst_msg'
    BY <1>8, <2>1 DEF RemoveHandler, workerVars
  <2>. QED
    BY <2>1, <2>2 DEF OfHandler, TypeOK, ListType
<1>9. ASSUME NEW c \in Clients, SendPush(c) PROVE RunningMarked'
  <2>1. wpc' = "handle" <=> wpc = "handle"
    BY <1>9 DEF SendPush, WakeWorker
  <2>2. wpc = "handle" => msg'[cur] = msg[cur]
    BY <1>9 DEF SendPush, HandlersKnown, TypeOK, ListType, WorkerType
  <2>. QED
    BY <1>9, <2>1, <2>2 DEF SendPush, handlerVars
<1>10. ASSUME NEW c \in Clients,
              \/ SendBegin(c) \/ WaitBegin(c) \/ Quit(c) \/ SendEnd(c)
              \/ WaitAgain(c) \/ QuitCheck(c) \/ QuitSleep(c) \/ SpuriousClient(c)
       PROVE  RunningMarked'
  BY <1>1, <1>10, ClientFrame DEF listVars, handlerVars, workerVars
<1>. QED
  BY <1>2, <1>3, <1>4, <1>5, <1>6, <1>7, <1>8, <1>9, <1>10, StepCases

\* Only a removed handler makes somebody follow a pointer to freed memory.
LEMMA FreedStep ==
    TypeOK /\ HandlersKnown /\ RunningMarked /\ KeptPointersNeedRemoval /\ Next
        => KeptPointersNeedRemoval'
<1>. SUFFICES ASSUME TypeOK, HandlersKnown, RunningMarked, KeptPointersNeedRemoval, Next
              PROVE  KeptPointersNeedRemoval'
  OBVIOUS
<1>. USE DEF KeptPointersNeedRemoval
<1>1. CASE ub' \in {ub, "node"} /\ UNCHANGED handlerVars
  BY <1>1 DEF SomeRemoved, handlerVars
<1>2. CASE FollowsFreed
  <2>1. cur < msg_seq /\ hcur < next_handler /\ cur \in Nat /\ hcur \in Nat
    BY <1>2 DEF FollowsFreed, HandlersKnown, TypeOK, WorkerType
  <2>2. msg[cur].handler \in 0 .. next_handler - 1
    <3>1. cur \in 0 .. msg_seq - 1 /\ msg_seq \in Nat /\ next_handler \in Nat
      BY <2>1 DEF TypeOK, ListType, HandlerType
    <3>2. msg[cur].handler \in Nat
      BY <3>1 DEF TypeOK, ListType, Msg
    <3>. QED
      BY <3>1, <3>2 DEF HandlersKnown
  <2>3. SomeRemoved
    BY <1>2, <2>1, <2>2
    DEF FollowsFreed, RunningMarked, SomeRemoved, TypeOK, ListType, HandlerType
  <2>. QED
    BY <1>2, <2>3 DEF FollowsFreed, SomeRemoved, handlerVars
<1>3. CASE Continues \/ Moves \/ WorkerNotify \/ \E s \in lst_msg : Picks(s)
  <2>1. ASSUME NEW s, NEW h, Dispatch(s, h) PROVE ub' \in {ub, "node"}
    BY <2>1, DispatchCases
  <2>. QED
    BY <1>1, <1>3, <2>1 DEF Continues, Moves, WorkerNotify, Picks
<1>4. CASE Tick \/ Cancel
  BY <1>1, <1>4, CancelErases DEF Tick, Cancel
<1>5. CASE AddHandler \/ RemoveHandler
  BY <1>5 DEF AddHandler, RemoveHandler, CanLock, FreedNodes
<1>6. ASSUME NEW c \in Clients, SendEnd(c) PROVE KeptPointersNeedRemoval'
  BY <1>6 DEF SendEnd, HandlersKnown, SendPC, SomeRemoved, handlerVars
<1>7. ASSUME NEW c \in Clients,
             \/ SendBegin(c) \/ WaitBegin(c) \/ Quit(c) \/ SendPush(c)
             \/ WaitAgain(c) \/ QuitCheck(c) \/ QuitSleep(c) \/ SpuriousClient(c)
      PROVE  KeptPointersNeedRemoval'
  BY <1>1, <1>7 DEF SendBegin, WaitBegin, Quit, SendPush, WaitAgain, QuitCheck, QuitSleep,
     SpuriousClient
<1>. QED
  BY <1>2, <1>3, <1>4, <1>5, <1>6, <1>7, StepCases

\* The worker is not asleep for the idle time when there is work.
LEMMA IdleStep ==
    TypeOK /\ DelaysBounded /\ NoIdleSleepOnWork /\ Next => NoIdleSleepOnWork'
<1>. SUFFICES ASSUME TypeOK, DelaysBounded, NoIdleSleepOnWork, Next PROVE NoIdleSleepOnWork'
  OBVIOUS
<1>. USE DEF NoIdleSleepOnWork
<1>1. CASE wpc' = wpc /\ wait_time' = wait_time /\ lst_msg' \subseteq lst_msg
  BY <1>1
<1>2. CASE Continues \/ \E s \in lst_msg : Picks(s)
  BY <1>2, DispatchCases DEF Continues, Picks
<1>3. CASE FollowsFreed \/ WorkerNotify
  BY <1>3 DEF FollowsFreed, WorkerNotify, workerVars
<1>4. CASE Moves
  BY <1>4 DEF Moves, DelaysBounded, listVars
<1>5. CASE Tick \/ Cancel \/ AddHandler
  BY <1>1, <1>5, CancelErases DEF Tick, Cancel, AddHandler, listVars, workerVars
<1>6. CASE RemoveHandler
  BY <1>1, <1>6 DEF RemoveHandler, Erase, workerVars
<1>7. ASSUME NEW c \in Clients, SendPush(c) PROVE NoIdleSleepOnWork'
  BY <1>7 DEF SendPush, WakeWorker
<1>8. ASSUME NEW c \in Clients,
             \/ SendBegin(c) \/ WaitBegin(c) \/ Quit(c) \/ SendEnd(c)
             \/ WaitAgain(c) \/ QuitCheck(c) \/ QuitSleep(c) \/ SpuriousClient(c)
      PROVE  NoIdleSleepOnWork'
  BY <1>1, <1>8, ClientFrame DEF listVars, workerVars
<1>. QED
  BY <1>2, <1>3, <1>4, <1>5, <1>6, <1>7, <1>8, StepCases

-----------------------------------------------------------------------------
(* The history of Handle calls.                                            *)

\* The types of the recorded calls.
LEMMA CallTypes ==
    ASSUME TypeOK
    PROVE  /\ Len(handled) \in Nat /\ DOMAIN handled = 1 .. Len(handled)
           /\ \A i \in DOMAIN handled :
                /\ handled[i].seq \in Nat /\ handled[i].handler \in Nat
                /\ handled[i].at \in Nat
<1>1. handled \in Seq(Call)
  BY DEF TypeOK, HistType
<1>2. /\ Len(handled) \in Nat /\ DOMAIN handled = 1 .. Len(handled)
      /\ \A i \in 1 .. Len(handled) : handled[i] \in Call
  BY <1>1
<1>. QED
  BY <1>2 DEF Call

\* A new call is the last one and leaves the earlier ones as they were.
LEMMA NewCall ==
    ASSUME TypeOK, NEW e \in Call, handled' = Append(handled, e)
    PROVE  /\ Len(handled) \in Nat /\ Len(handled') = Len(handled) + 1
           /\ DOMAIN handled = 1 .. Len(handled)
           /\ DOMAIN handled' = 1 .. Len(handled) + 1
           /\ handled'[Len(handled) + 1] = e
           /\ \A i \in DOMAIN handled : handled'[i] = handled[i] /\ i < Len(handled) + 1
           /\ \A i \in DOMAIN handled' : i \in DOMAIN handled \/ i = Len(handled) + 1
BY DEF TypeOK, HistType

\* The element a dispatch appends.
LEMMA DispatchCall ==
    ASSUME TypeOK, NEW s \in lst_msg, NEW h, Dispatch(s, h), wpc' = "handle"
    PROVE  /\ [seq |-> s, handler |-> hcur', at |-> now] \in Call
           /\ handled' = Append(handled, [seq |-> s, handler |-> hcur', at |-> now])
           /\ ~exit /\ cur' = s /\ hcur' \in Receivers(s, h)
           /\ UNCHANGED <<lst_msg, msg, msg_seq>>
<1>1. s \in Nat /\ now \in Nat /\ \A r \in Receivers(s, h) : r \in Nat
  BY DEF TypeOK, ListType, HistType, HandlerType, Receivers
<1>. QED
  BY <1>1, DispatchCases DEF Call

\* A handled message that is still in the list is the one being handled.
LEMMA GoneStep == TypeOK /\ HandledGone /\ Next => HandledGone'
<1>. SUFFICES ASSUME TypeOK, HandledGone, Next PROVE HandledGone'
  OBVIOUS
<1>. USE DEF HandledGone
<1>1. \A i \in DOMAIN handled : handled[i].at \in Nat /\ handled[i].seq \in Nat
  BY CallTypes
<1>2. CASE /\ UNCHANGED <<msg_seq, now, handled, cur, hcur>> /\ lst_msg' \subseteq lst_msg
           /\ wpc' = "handle" <=> wpc = "handle"
  BY <1>2
<1>3. ASSUME NEW s \in lst_msg, NEW h, Dispatch(s, h), UNCHANGED now,
             wpc = "handle" => s = cur
      PROVE  HandledGone'
  <2>1. CASE wpc' = "handle"
    <3>. DEFINE e == [seq |-> s, handler |-> hcur', at |-> now]
    <3>1. e \in Call /\ handled' = Append(handled, e) /\ cur' = s
          /\ UNCHANGED <<lst_msg, msg_seq>>
      BY <1>3, <2>1, DispatchCall
    <3>2. e.seq = s /\ e.handler = hcur' /\ e.at = now /\ s < msg_seq /\ now <= now
      BY DEF TypeOK, ListType, HistType
    <3>. HIDE DEF e
    <3>. QED
      BY <1>3, <2>1, <3>1, <3>2, NewCall
  <2>2. CASE wpc' # "handle"
    <3>1. lst_msg' = lst_msg \ {s} /\ UNCHANGED <<handled, msg_seq>>
      BY <1>3, <2>2, DispatchCases
    <3>. QED
      BY <1>3, <2>2, <3>1
  <2>. QED
    BY <2>1, <2>2
<1>4. CASE Continues
  BY <1>3, <1>4 DEF Continues
<1>5. ASSUME NEW s \in lst_msg, Picks(s) PROVE HandledGone'
  BY <1>3, <1>5 DEF Picks
<1>6. CASE FollowsFreed \/ Moves \/ WorkerNotify
  BY <1>2, <1>6 DEF FollowsFreed, Moves, WorkerNotify, listVars, workerVars
<1>7. CASE Tick
  <2>1. now < now'
    BY <1>7 DEF Tick, TypeOK, HistType
  <2>. QED
    BY <1>1, <1>7, <2>1 DEF Tick, TypeOK, HistType, listVars, workerVars
<1>8. CASE Cancel \/ AddHandler
  BY <1>2, <1>8, CancelErases DEF Cancel, AddHandler, listVars, workerVars
<1>9. CASE RemoveHandler
  BY <1>2, <1>9 DEF RemoveHandler, Erase, workerVars
<1>10. ASSUME NEW c \in Clients, SendPush(c) PROVE HandledGone'
  <2>1. wpc' = "handle" <=> wpc = "handle"
    BY <1>10 DEF SendPush, WakeWorker
  <2>2. msg_seq < msg_seq' /\ lst_msg' = lst_msg \cup {msg_seq}
    BY <1>10 DEF SendPush, TypeOK, ListType
  <2>. QED
    BY <1>1, <1>10, <2>1, <2>2 DEF SendPush, TypeOK, ListType
<1>11. ASSUME NEW c \in Clients,
              \/ SendBegin(c) \/ WaitBegin(c) \/ Quit(c) \/ SendEnd(c)
              \/ WaitAgain(c) \/ QuitCheck(c) \/ QuitSleep(c) \/ SpuriousClient(c)
       PROVE  HandledGone'
  BY <1>2, <1>11, ClientFrame DEF listVars, workerVars
<1>. QED
  BY <1>4, <1>5, <1>6, <1>7, <1>8, <1>9, <1>10, <1>11, StepCases

\* A step that makes no Handle call leaves the history and the messages in it alone.
LEMMA HistoryCases ==
    ASSUME TypeOK, HandledGone, Next
    PROVE  \/ /\ UNCHANGED handled
              /\ \A i \in DOMAIN handled : msg'[handled[i].seq] = msg[handled[i].seq]
              /\ \A s \in lst_msg' : (s \in lst_msg /\ msg'[s] = msg[s]) \/ s = msg_seq
           \/ /\ wpc' = "handle"
              /\ Continues \/ \E s \in lst_msg : Picks(s)
<1>1. \A i \in DOMAIN handled : handled[i].seq \in 0 .. msg_seq - 1
  BY CallTypes DEF HandledGone, TypeOK, ListType
<1>2. CASE UNCHANGED <<handled, msg>> /\ lst_msg' \subseteq lst_msg
  BY <1>2
<1>3. CASE (Continues \/ \E s \in lst_msg : Picks(s)) /\ wpc' # "handle"
  BY <1>2, <1>3, DispatchCases DEF Continues, Picks
<1>4. CASE FollowsFreed \/ Moves \/ WorkerNotify \/ Tick \/ Cancel \/ AddHandler
  BY <1>2, <1>4, CancelErases
  DEF FollowsFreed, Moves, WorkerNotify, Tick, Cancel, AddHandler, listVars
<1>5. CASE RemoveHandler
  BY <1>2, <1>5 DEF RemoveHandler, Erase
<1>6. ASSUME NEW c \in Clients, SendPush(c)
      PROVE  /\ UNCHANGED handled
             /\ \A i \in DOMAIN handled : msg'[handled[i].seq] = msg[handled[i].seq]
             /\ \A s \in lst_msg' : (s \in lst_msg /\ msg'[s] = msg[s]) \/ s = msg_seq
  <2>1. \A s \in 0 .. msg_seq - 1 : msg'[s] = msg[s]
    BY <1>6 DEF SendPush, TypeOK, ListType
  <2>. QED
    BY <1>1, <1>6, <2>1 DEF SendPush, TypeOK, ListType
<1>7. ASSUME NEW c \in Clients,
             \/ SendBegin(c) \/ WaitBegin(c) \/ Quit(c) \/ SendEnd(c)
             \/ WaitAgain(c) \/ QuitCheck(c) \/ QuitSleep(c) \/ SpuriousClient(c)
      PROVE  UNCHANGED <<handled, msg>> /\ lst_msg' \subseteq lst_msg
  BY <1>7, ClientFrame DEF listVars
<1>. QED
  BY <1>2, <1>3, <1>4, <1>5, <1>6, <1>7, StepCases

\* No call is repeated: a picked message was never handled, a continued one goes on
\* with a later handler.
LEMMA OnceStep ==
    TypeOK /\ HandledGone /\ HandledOnce /\ Next => HandledOnce'
<1>. SUFFICES ASSUME TypeOK, HandledGone, HandledOnce, Next PROVE HandledOnce'
  OBVIOUS
<1>1. CASE UNCHANGED handled
  BY <1>1 DEF HandledOnce
<1>2. CASE wpc' = "handle" /\ Continues
  <2>. DEFINE e == [seq |-> cur, handler |-> hcur', at |-> now]
  <2>1. e \in Call /\ handled' = Append(handled, e) /\ hcur' \in Receivers(cur, hcur + 1)
    BY <1>2, DispatchCall DEF Continues
  <2>7. hcur' \in lst_handler /\ hcur' >= hcur + 1
    BY <2>1 DEF Receivers
  <2>2. e.seq = cur /\ e.handler = hcur' /\ hcur' \in Nat /\ hcur' > hcur
    BY <2>7 DEF TypeOK, HandlerType, WorkerType
  <2>3. /\ Len(handled) \in DOMAIN handled /\ handled[Len(handled)].seq = cur
        /\ handled[Len(handled)].handler = hcur
        /\ Len(handled) \in Nat /\ DOMAIN handled = 1 .. Len(handled)
    BY <1>2, CallTypes DEF Continues, HandledGone
  <2>. HIDE DEF e
  <2>4. SUFFICES ASSUME NEW i \in DOMAIN handled', NEW j \in DOMAIN handled',
                        i < j, handled'[i].seq = handled'[j].seq
                 PROVE  /\ handled'[i].handler < handled'[j].handler
                        /\ \A k \in i .. j : handled'[k].seq = handled'[i].seq
    BY DEF HandledOnce
  <2>5. CASE j \in DOMAIN handled
    <3>1. i \in DOMAIN handled /\ \A k \in i .. j : k \in DOMAIN handled
      BY <2>1, <2>4, <2>5, NewCall
    <3>. QED
      BY <2>1, <2>4, <2>5, <3>1, NewCall DEF HandledOnce
  <2>6. CASE j = Len(handled) + 1
    <3>1. i \in DOMAIN handled /\ handled[i].seq = cur /\ handled'[i] = handled[i]
          /\ handled'[j] = e
      BY <2>1, <2>2, <2>3, <2>4, <2>6, NewCall
    <3>2. handled[i].handler <= hcur
          /\ \A k \in i .. Len(handled) : handled[k].seq = cur
      <4>1. CASE i = Len(handled)
        <5>1. \A n \in Nat : \A k \in n .. n : k = n
          OBVIOUS
        <5>2. \A k \in i .. Len(handled) : k = Len(handled)
          BY <2>3, <4>1, <5>1, Zenon
        <5>. QED
          BY <2>3, <4>1, <5>2 DEF TypeOK, WorkerType
      <4>2. CASE i < Len(handled)
        <5>1. /\ handled[i].handler < handled[Len(handled)].handler
              /\ \A k \in i .. Len(handled) : handled[k].seq = handled[i].seq
          BY <2>3, <3>1, <4>2, Zenon DEF HandledOnce
        <5>2. handled[i].handler \in Nat
          BY <3>1, CallTypes
        <5>. QED
          BY <2>3, <3>1, <5>1, <5>2 DEF TypeOK, WorkerType
      <4>. QED
        BY <2>3, <3>1, <4>1, <4>2
    <3>3. handled'[i].handler < handled'[j].handler
      BY <2>2, <3>1, <3>2, CallTypes DEF TypeOK, WorkerType
    <3>4. ASSUME NEW k \in i .. j PROVE handled'[k].seq = cur
      <4>1. CASE k = j
        BY <2>2, <3>1, <4>1
      <4>2. CASE k # j
        <5>1. k \in i .. Len(handled) /\ k \in DOMAIN handled
          BY <2>3, <2>6, <3>1, <4>2
        <5>. QED
          BY <2>1, <3>2, <5>1, NewCall
      <4>. QED
        BY <4>1, <4>2
    <3>. QED
      BY <3>1, <3>3, <3>4
  <2>. QED
    BY <2>1, <2>5, <2>6, NewCall
<1>3. ASSUME NEW s \in lst_msg, Picks(s), wpc' = "handle" PROVE HandledOnce'
  <2>. DEFINE e == [seq |-> s, handler |-> hcur', at |-> now]
  <2>1. e \in Call /\ handled' = Append(handled, e)
    BY <1>3, DispatchCall DEF Picks
  <2>2. e.seq = s /\ \A i \in DOMAIN handled : handled[i].seq # s
    BY <1>3 DEF Picks, HandledGone
  <2>. HIDE DEF e
  <2>3. SUFFICES ASSUME NEW i \in DOMAIN handled', NEW j \in DOMAIN handled',
                        i < j, handled'[i].seq = handled'[j].seq
                 PROVE  /\ handled'[i].handler < handled'[j].handler
                        /\ \A k \in i .. j : handled'[k].seq = handled'[i].seq
    BY DEF HandledOnce
  <2>4. i \in DOMAIN handled /\ j \in DOMAIN handled
        /\ \A k \in i .. j : k \in DOMAIN handled
    BY <2>1, <2>2, <2>3, NewCall
  <2>. QED
    BY <2>1, <2>3, <2>4, NewCall DEF HandledOnce
<1>. QED
  BY <1>1, <1>2, <1>3, HistoryCases

\* No message is handled early: a picked one is due, a continued one was due before.
LEMMA DelayStep ==
    TypeOK /\ HandledGone /\ DelayKept /\ Next => DelayKept'
<1>. SUFFICES ASSUME TypeOK, HandledGone, DelayKept, Next PROVE DelayKept'
  OBVIOUS
<1>. USE DEF DelayKept
<1>1. \A s \in lst_msg : msg[s].rec \in Nat /\ msg[s].after \in Nat /\ now \in Nat
  BY DEF TypeOK, ListType, HistType, Msg
<1>2. CASE /\ UNCHANGED handled
           /\ \A i \in DOMAIN handled : msg'[handled[i].seq] = msg[handled[i].seq]
  BY <1>2
<1>3. ASSUME NEW s \in lst_msg, NEW h, Dispatch(s, h), wpc' = "handle",
             now >= msg[s].rec + msg[s].after
      PROVE  DelayKept'
  <2>. DEFINE e == [seq |-> s, handler |-> hcur', at |-> now]
  <2>1. e \in Call /\ handled' = Append(handled, e) /\ UNCHANGED msg
    BY <1>3, DispatchCall
  <2>2. e.seq = s /\ e.at = now
    OBVIOUS
  <2>. HIDE DEF e
  <2>. QED
    BY <1>3, <2>1, <2>2, NewCall
<1>4. CASE wpc' = "handle" /\ Continues
  <2>1. Len(handled) \in DOMAIN handled /\ handled[Len(handled)].seq = cur
        /\ cur \in lst_msg
    BY <1>4, CallTypes DEF Continues, HandledGone
  <2>2. handled[Len(handled)].at >= msg[cur].rec + msg[cur].after
        /\ handled[Len(handled)].at <= now /\ handled[Len(handled)].at \in Nat
    BY <2>1, CallTypes DEF HandledGone
  <2>. QED
    BY <1>1, <1>3, <1>4, <2>1, <2>2 DEF Continues
<1>5. ASSUME NEW s \in lst_msg, Picks(s), wpc' = "handle" PROVE DelayKept'
  <2>1. now >= msg[s].rec + msg[s].after
    BY <1>1, <1>5 DEF Picks, FirstDue, Due, Remaining
  <2>. QED
    BY <1>3, <1>5, <2>1 DEF Picks
<1>. QED
  BY <1>2, <1>4, <1>5, HistoryCases

\* An older message that was passed over was not due; so it is when it is handled later.
LEMMA OvertakeStep ==
    TypeOK /\ HandledGone /\ OlderNotDue /\ NoOvertaking /\ Next
        => OlderNotDue' /\ NoOvertaking'
<1>. SUFFICES ASSUME TypeOK, HandledGone, OlderNotDue, NoOvertaking, Next
              PROVE  OlderNotDue' /\ NoOvertaking'
  OBVIOUS
<1>1. CASE /\ UNCHANGED handled
           /\ \A i \in DOMAIN handled : msg'[handled[i].seq] = msg[handled[i].seq]
           /\ \A s \in lst_msg' : (s \in lst_msg /\ msg'[s] = msg[s]) \/ s = msg_seq
  <2>1. OlderNotDue'
    <3>1. \A i \in DOMAIN handled : ~ (msg_seq < handled[i].seq)
      BY CallTypes DEF HandledGone, TypeOK, ListType
    <3>. QED
      BY <1>1, <3>1 DEF OlderNotDue, Picked
  <2>2. NoOvertaking'
    BY <1>1 DEF NoOvertaking, Picked
  <2>. QED
    BY <2>1, <2>2
<1>2. ASSUME NEW s \in lst_msg, NEW h, Dispatch(s, h), wpc' = "handle",
             \/ \E i \in DOMAIN handled : handled[i].seq = s
             \/ FirstDue(s)
      PROVE  OlderNotDue' /\ NoOvertaking'
  <2>. DEFINE e == [seq |-> s, handler |-> hcur', at |-> now]
  <2>1. e \in Call /\ handled' = Append(handled, e) /\ UNCHANGED <<lst_msg, msg>>
    BY <1>2, DispatchCall
  <2>2. e.seq = s /\ e.at = now
    OBVIOUS
  <2>. HIDE DEF e
  <2>3. \A i \in DOMAIN handled : Picked(i)' <=> Picked(i)
    <3>1. \A i \in DOMAIN handled : \A k \in 1 .. i - 1 : k \in DOMAIN handled
      BY CallTypes
    <3>. QED
      BY <2>1, <3>1, NewCall DEF Picked
  <2>4. ASSUME NEW n \in Nat, n = Len(handled) + 1, Picked(n)' PROVE FirstDue(s)
    <3>1. ASSUME NEW i \in DOMAIN handled, handled[i].seq = s PROVE FALSE
      <4>1. i \in 1 .. n - 1 /\ handled'[i].seq = handled'[n].seq
        BY <2>1, <2>2, <2>4, <3>1, NewCall
      <4>. QED
        BY <2>4, <4>1 DEF Picked
    <3>. QED
      BY <1>2, <3>1
  <2>5. FirstDue(s) => \A t \in lst_msg : t < s => now < msg[t].rec + msg[t].after
    <3>1. \A t \in lst_msg : msg[t].rec \in Nat /\ msg[t].after \in Nat /\ now \in Nat
                             /\ t \in Nat
      BY SMTT(30) DEF TypeOK, ListType, HistType, Msg
    <3>. QED
      BY <3>1 DEF FirstDue, Due, Remaining
  <2>6. OlderNotDue'
    <3>1. SUFFICES ASSUME NEW i \in DOMAIN handled', Picked(i)', NEW t \in lst_msg,
                          t < handled'[i].seq
                   PROVE  handled'[i].at < msg[t].rec + msg[t].after
      BY <2>1 DEF OlderNotDue
    <3>2. CASE i \in DOMAIN handled
      BY <2>1, <2>3, <3>1, <3>2, NewCall DEF OlderNotDue
    <3>3. CASE i = Len(handled) + 1
      <4>1. FirstDue(s) /\ handled'[i] = e
        BY <2>1, <2>4, <3>1, <3>3, NewCall, CallTypes
      <4>. QED
        BY <2>2, <2>5, <3>1, <4>1
    <3>. QED
      BY <2>1, <3>2, <3>3, NewCall
  <2>7. NoOvertaking'
    <3>1. SUFFICES ASSUME NEW i \in DOMAIN handled', NEW j \in DOMAIN handled',
                          i < j, Picked(i)', handled'[j].seq < handled'[i].seq
                   PROVE  handled'[i].at < msg[handled'[j].seq].rec + msg[handled'[j].seq].after
      BY <2>1 DEF NoOvertaking
    <3>2. i \in DOMAIN handled /\ Picked(i) /\ handled'[i] = handled[i]
      BY <2>1, <2>3, <3>1, NewCall
    <3>3. CASE j \in DOMAIN handled
      BY <2>1, <3>1, <3>2, <3>3, NewCall DEF NoOvertaking
    <3>4. CASE j = Len(handled) + 1
      <4>1. handled'[j].seq = s
        BY <2>1, <2>2, <3>4, NewCall
      <4>. QED
        BY <3>1, <3>2, <4>1 DEF OlderNotDue
    <3>. QED
      BY <2>1, <3>3, <3>4, NewCall
  <2>. QED
    BY <2>6, <2>7
<1>3. CASE wpc' = "handle" /\ Continues
  <2>1. Len(handled) \in DOMAIN handled /\ handled[Len(handled)].seq = cur
    BY <1>3, CallTypes DEF Continues, HandledGone
  <2>. QED
    BY <1>2, <1>3, <2>1 DEF Continues
<1>4. ASSUME NEW s \in lst_msg, Picks(s), wpc' = "handle"
      PROVE  OlderNotDue' /\ NoOvertaking'
  BY <1>2, <1>4 DEF Picks
<1>. QED
  BY <1>1, <1>3, <1>4, HistoryCases

-----------------------------------------------------------------------------
(* Waiting.                                                                *)

\* A message that is awaited is not overlooked: what is erased is announced.
LEMMA LostDoneStep == TypeOK /\ ArgOK /\ NoLostDone /\ Next => NoLostDone'
<1>. SUFFICES ASSUME TypeOK, ArgOK, NoLostDone, Next,
                     Ops \cap {"cancel", "remove_handler"} = {},
                     NEW c \in Clients, cpc'[c] = "blocked"
              PROVE  Awaited(arg[c])' # {}
  BY DEF NoLostDone
<1>1. cpc[c] = "blocked" => Awaited(arg[c]) # {}
  BY DEF NoLostDone
<1>2. CASE cpc[c] = "blocked" /\ UNCHANGED <<arg, msg, lst_msg>>
  BY <1>1, <1>2 DEF Awaited, WaitsFor
<1>3. CASE cpc' = WakeAll
  BY <1>3, WakeTypes
<1>4. ASSUME NEW s, NEW h, Dispatch(s, h), UNCHANGED arg PROVE Awaited(arg[c])' # {}
  BY <1>2, <1>3, <1>4, DispatchCases
<1>5. CASE Continues \/ FollowsFreed \/ Moves \/ WorkerNotify \/ \E s \in lst_msg : Picks(s)
  BY <1>2, <1>3, <1>4, <1>5
  DEF Continues, FollowsFreed, Moves, WorkerNotify, Picks, listVars, clientVars
<1>6. CASE Tick \/ AddHandler
  BY <1>2, <1>6 DEF Tick, AddHandler, listVars, clientVars
<1>7. CASE Cancel \/ RemoveHandler
  BY <1>7 DEF Cancel, RemoveHandler, CanCall
<1>8. ASSUME NEW d \in Clients, SendPush(d) PROVE Awaited(arg[c])' # {}
  <2>1. c # d /\ cpc[c] = "blocked" /\ arg'[c] = arg[c]
    BY <1>8 DEF SendPush, AfterSend, TypeOK, ClientType
  <2>2. \A s \in lst_msg : msg'[s] = msg[s] /\ s \in lst_msg'
    BY <1>8 DEF SendPush, TypeOK, ListType
  <2>. QED
    BY <1>1, <2>1, <2>2 DEF Awaited, WaitsFor
<1>9. ASSUME NEW d \in Clients, WaitBegin(d) \/ WaitAgain(d) PROVE Awaited(arg[c])' # {}
  <2>1. UNCHANGED <<msg, lst_msg>>
    BY <1>9 DEF WaitBegin, WaitAgain, listVars
  <2>2. CASE d # c
    <3>1. cpc[c] = "blocked" /\ arg'[c] = arg[c]
      BY <1>9, <2>2 DEF WaitBegin, WaitAgain, TypeOK, ClientType
    <3>. QED
      BY <1>1, <2>1, <3>1 DEF Awaited, WaitsFor
  <2>3. CASE d = c /\ WaitAgain(c)
    <3>1. Awaited(arg[c]) # {} /\ UNCHANGED arg
      BY <2>3 DEF WaitAgain, TypeOK, ClientType
    <3>. QED
      BY <2>1, <3>1 DEF Awaited, WaitsFor
  <2>4. CASE d = c /\ WaitBegin(c)
    <3>1. PICK a \in WaitCalls : Awaited(a) # {} /\ arg' = [arg EXCEPT ![c] = a]
      BY <2>4 DEF WaitBegin
    <3>2. arg'[c] = a
      BY <3>1 DEF TypeOK, ClientType
    <3>. QED
      BY <2>1, <3>1, <3>2 DEF Awaited, WaitsFor
  <2>. QED
    BY <1>9, <2>2, <2>3, <2>4
<1>10. ASSUME NEW d \in Clients,
              \/ SendBegin(d) \/ Quit(d) \/ SendEnd(d) \/ QuitCheck(d) \/ QuitSleep(d)
       PROVE  Awaited(arg[c])' # {}
  <2>1. cpc[c] = "blocked" /\ arg'[c] = arg[c]
    BY <1>10 DEF SendBegin, StartSend, Quit, SendEnd, AfterSend, QuitCheck, QuitSleep,
       TypeOK, ClientType, clientVars
  <2>2. UNCHANGED <<msg, lst_msg>>
    BY <1>10, ClientFrame DEF listVars
  <2>. QED
    BY <1>1, <2>1, <2>2 DEF Awaited, WaitsFor
<1>11. ASSUME NEW d \in Clients, SpuriousClient(d) PROVE Awaited(arg[c])' # {}
  <2>1. cpc[c] = "blocked"
    BY <1>11, WakeTypes DEF SpuriousClient, TypeOK, ClientType
  <2>. QED
    BY <1>2, <1>11, <2>1 DEF SpuriousClient, listVars
<1>. QED
  BY <1>5, <1>6, <1>7, <1>8, <1>9, <1>10, <1>11, StepCases

-----------------------------------------------------------------------------
(* The theorems.                                                           *)

\* The inductive invariant holds initially.
LEMMA InductiveInit == Init => Inductive
<1>. SUFFICES ASSUME Init PROVE Inductive
  OBVIOUS
<1>1. TypeOK /\ ArgOK
  BY TypeInit
<1>2. DOMAIN handled = {} /\ msg_seq = 0 /\ lst_msg = {} /\ is_handling = {}
  BY DEF Init
<1>3. \A c \in Clients : cpc[c] = "idle"
  BY DEF Init
<1>4. wpc = "loop" /\ ub = "none" /\ wait_time = 0
  BY DEF Init
<1>5. HandlersKnown /\ DelaysBounded
  BY <1>2, <1>3, <1>4, ConstantTypes DEF HandlersKnown, DelaysBounded, SendPC
<1>6. HandledGone /\ OlderNotDue /\ HandledOnce /\ NoOvertaking /\ DelayKept
  BY <1>2, <1>4 DEF HandledGone, OlderNotDue, HandledOnce, NoOvertaking, DelayKept
<1>7. ExitOK /\ QuitStopsHandlers /\ NoLostDone
  BY <1>3, <1>4 DEF ExitOK, QuitStopsHandlers, NoLostDone, SendPC, QuitPC
<1>8. RunningMarked /\ KeptPointersNeedRemoval /\ NoIdleSleepOnWork
  BY <1>2, <1>4 DEF RunningMarked, KeptPointersNeedRemoval, NoIdleSleepOnWork
<1>. QED
  BY <1>1, <1>5, <1>6, <1>7, <1>8 DEF Inductive

\* Every step preserves the inductive invariant.
LEMMA InductiveStep == Inductive /\ [Next]_vars => Inductive'
<1>. SUFFICES ASSUME Inductive, [Next]_vars PROVE Inductive'
  OBVIOUS
<1>1. CASE Next
  BY <1>1, TypeStep, ArgStep, HandlersStep, DelaysStep, GoneStep, OvertakeStep, ExitStep,
     RunningStep, FreedStep, OnceStep, DelayStep, IdleStep, LostDoneStep, QuitStep
  DEF Inductive
<1>2. CASE UNCHANGED vars
  BY <1>2
  DEF vars, listVars, handlerVars, exitVars, workerVars, clientVars, Inductive, TypeOK,
      ListType, HandlerType, ExitType, WorkerType, ClientType, HistType, ArgOK,
      HandlersKnown, DelaysBounded, HandledGone, OlderNotDue, Picked, ExitOK,
      RunningMarked, KeptPointersNeedRemoval, SomeRemoved, HandledOnce, NoOvertaking,
      DelayKept, NoIdleSleepOnWork, NoLostDone, Awaited, WaitsFor, QuitStopsHandlers
<1>. QED
  BY <1>1, <1>2

\* The inductive invariant holds in every state of the queue.
THEOREM InductiveCorrect == Spec => []Inductive
BY InductiveInit, InductiveStep, PTL DEF Spec

\* Types, for any clients, messages, handlers, operations and bounds.
THEOREM TypeCorrect == Spec => []TypeOK
<1>1. Inductive => TypeOK
  BY DEF Inductive
<1>. QED
  BY <1>1, InductiveCorrect, PTL

\* No cancel function frees the message that a handler is working on.
THEOREM RunningKept == Spec => []RunningMsgKept
<1>1. Inductive => RunningMsgKept
  BY DEF Inductive, RunningMarked, RunningMsgKept, TypeOK, ListType
<1>. QED
  BY <1>1, InductiveCorrect, PTL

\* A pointer the worker or has_handler keeps without the mutex dangles only when a handler
\* has been removed.
THEOREM DanglingNeedsRemoval == Spec => []KeptPointersNeedRemoval
<1>1. Inductive => KeptPointersNeedRemoval
  BY DEF Inductive
<1>. QED
  BY <1>1, InductiveCorrect, PTL

\* Each message reaches each of its handlers at most once, in list order, unbroken.
THEOREM AtMostOnce == Spec => []HandledOnce
<1>1. Inductive => HandledOnce
  BY DEF Inductive
<1>. QED
  BY <1>1, InductiveCorrect, PTL

\* A message overtakes an older one only while the older one is not due, and no message
\* is handled before it is due.
THEOREM DueOrder == Spec => []DueInOrder
<1>1. Inductive => DueInOrder
  BY DEF Inductive, DueInOrder
<1>. QED
  BY <1>1, InductiveCorrect, PTL

\* The worker never sleeps for the idle time while a message is in the list.
THEOREM NoIdleSleep == Spec => []NoIdleSleepOnWork
<1>1. Inductive => NoIdleSleepOnWork
  BY DEF Inductive
<1>. QED
  BY <1>1, InductiveCorrect, PTL

\* Without cancels and removals a blocked waiter always has a message to wait for.
THEOREM NoDoneIsLost == Spec => []NoLostDone
<1>1. Inductive => NoLostDone
  BY DEF Inductive
<1>. QED
  BY <1>1, InductiveCorrect, PTL

\* After quit has returned no handler runs.
THEOREM QuitIsFinal == Spec => []QuitStopsHandlers
<1>1. Inductive => QuitStopsHandlers
  BY DEF Inductive
<1>. QED
  BY <1>1, InductiveCorrect, PTL

\* A wait function that returns leaves no message it waited for in a handler's hands.
THEOREM WaitMeansDone == Spec => WaitReturnMeansDone
<1>. DEFINE Done == \A c \in Clients :
        cpc[c] = "woken" /\ cpc'[c] = "idle" =>
            ~ (wpc = "handle" /\ WaitsFor(arg[c], cur) /\ msg[cur].handler \in lst_handler)
<1>1. Inductive /\ [Next]_vars => [Done]_vars
  <2>. SUFFICES ASSUME Inductive, Next, NEW c \in Clients, cpc[c] = "woken",
                       cpc'[c] = "idle", wpc = "handle", WaitsFor(arg[c], cur),
                       msg[cur].handler \in lst_handler
                PROVE  FALSE
    OBVIOUS
  <2>1. TypeOK /\ cur \in lst_msg
    BY DEF Inductive, RunningMarked, TypeOK, ListType
  <2>2. Awaited(arg[c]) # {}
    BY <2>1 DEF Awaited
  <2>3. ASSUME cpc' = cpc \/ cpc' = WakeAll PROVE FALSE
    BY <2>1, <2>3, WakeTypes DEF WakeAll
  <2>4. CASE Continues \/ FollowsFreed \/ Moves \/ WorkerNotify \/ \E s \in lst_msg : Picks(s)
    BY <2>3, <2>4, DispatchClients
    DEF Continues, FollowsFreed, Moves, WorkerNotify, Picks, clientVars
  <2>5. CASE Tick \/ Cancel \/ AddHandler
    BY <2>3, <2>5 DEF Tick, Cancel, AddHandler, clientVars
  <2>6. CASE RemoveHandler
    BY <2>6 DEF RemoveHandler
  <2>7. ASSUME NEW d \in Clients,
               \/ SendBegin(d) \/ WaitBegin(d) \/ Quit(d) \/ SendEnd(d) \/ SendPush(d)
               \/ WaitAgain(d) \/ QuitCheck(d) \/ QuitSleep(d)
        PROVE  FALSE
    <3>1. CASE WaitAgain(d)
      BY <2>1, <2>2, <3>1 DEF WaitAgain, TypeOK, ClientType
    <3>2. CASE \/ SendBegin(d) \/ WaitBegin(d) \/ Quit(d) \/ SendEnd(d) \/ SendPush(d)
               \/ QuitCheck(d) \/ QuitSleep(d)
      BY <2>1, <3>2 DEF SendBegin, WaitBegin, Quit, SendEnd, SendPush, QuitCheck, QuitSleep,
         StartSend, AfterSend, TypeOK, ClientType, clientVars
    <3>. QED
      BY <2>7, <3>1, <3>2
  <2>8. ASSUME NEW d \in Clients, SpuriousClient(d) PROVE FALSE
    BY <2>1, <2>8 DEF SpuriousClient, WakeAll, TypeOK, ClientType
  <2>. QED
    BY <2>1, <2>4, <2>5, <2>6, <2>7, <2>8, StepCases
<1>. QED
  BY <1>1, InductiveCorrect, PTL DEF Spec, WaitReturnMeansDone

-----------------------------------------------------------------------------
(* MsgQueue implements TimerQueue: the initial states map to initial       *)
(* states and every step to a step of the abstract queue or to none.       *)

\* A message that is running and still in the list is marked, also a broadcast whose own
\* handler is gone.  RunningMarked says so only of messages whose handler is there, which
\* is not enough for the cancels.
StillMarked == wpc = "handle" /\ cur \in lst_msg => cur \in is_handling

\* Every step keeps the running message marked for as long as it is in the list.
LEMMA StillMarkedStep == Inductive /\ StillMarked /\ [Next]_vars => StillMarked'
<1>. SUFFICES ASSUME Inductive, StillMarked, [Next]_vars PROVE StillMarked'
  OBVIOUS
<1>. USE DEF StillMarked
<1>1. TypeOK /\ HandlersKnown
  BY DEF Inductive
<1>2. CASE UNCHANGED <<wpc, cur, lst_msg, is_handling>>
  BY <1>2
<1>3. CASE Continues \/ \E s \in lst_msg : Picks(s)
  BY <1>3, DispatchCases DEF Continues, Picks
<1>4. CASE FollowsFreed \/ Moves \/ WorkerNotify \/ Tick \/ AddHandler
  BY <1>2, <1>4 DEF FollowsFreed, Moves, WorkerNotify, Tick, AddHandler, listVars, workerVars
<1>5. CASE Cancel
  BY <1>1, <1>5, CancelErases DEF Cancel, workerVars
<1>6. CASE RemoveHandler
  BY <1>6 DEF RemoveHandler, Erase, workerVars
<1>7. ASSUME NEW c \in Clients, SendPush(c) PROVE StillMarked'
  <2>1. wpc' = "handle" => wpc = "handle"
    BY <1>7 DEF SendPush, WakeWorker
  <2>2. wpc = "handle" => cur # msg_seq
    BY <1>1 DEF HandlersKnown, TypeOK, ListType, WorkerType
  <2>. QED
    BY <1>7, <2>1, <2>2 DEF SendPush
<1>8. ASSUME NEW c \in Clients,
             \/ SendBegin(c) \/ WaitBegin(c) \/ Quit(c) \/ SendEnd(c)
             \/ WaitAgain(c) \/ QuitCheck(c) \/ QuitSleep(c) \/ SpuriousClient(c)
      PROVE  StillMarked'
  BY <1>2, <1>8, ClientFrame DEF listVars, workerVars
<1>9. CASE UNCHANGED vars
  BY <1>2, <1>9 DEF vars, listVars, workerVars
<1>. QED
  BY <1>1, <1>3, <1>4, <1>5, <1>6, <1>7, <1>8, <1>9, StepCases

-----------------------------------------------------------------------------
(* The mapping.                                                            *)

\* The empty list maps to the empty abstract queue.
LEMMA InitMaps == Init => Abstract!Init
BY DEF Init, Abstract!Init, Abstract!None, PendingMsgs, RunningMsg, Calls, DEFAULT_HANDLER_ID

\* What TimerQueue does not see.
LEMMA Stutters ==
    ASSUME UNCHANGED <<lst_msg, msg, msg_seq, cancelled, lst_handler, exit, now, handled>>,
           RunningMsg' = RunningMsg
    PROVE  UNCHANGED Abstract!vars
BY DEF Abstract!vars, PendingMsgs, Calls

\* Messages leave the list one by one or several at once, and the others stay as they are.
LEMMA ErasedIsRemoved ==
    ASSUME NEW S, lst_msg' = lst_msg \ S, UNCHANGED msg
    PROVE  Abstract!Remove(S)
BY DEF Abstract!Remove, PendingMsgs

\* A function on 1 .. n is a sequence of length n.
LEMMA FunctionIsSeq ==
    ASSUME NEW C, NEW n \in Nat, NEW f \in [1 .. n -> C]
    PROVE  f \in Seq(C) /\ Len(f) = n
OBVIOUS

\* One more Handle call is one more delivery.
LEMMA CallsGrow ==
    ASSUME TypeOK, NEW s \in Nat, NEW h \in Nat,
           handled' = Append(handled, [seq |-> s, handler |-> h, at |-> now])
    PROVE  Calls' = Append(Calls, [seq |-> s, handler |-> h])
<1>. DEFINE e == [seq |-> s, handler |-> h, at |-> now]
            C == [seq : Nat, handler : Nat]
<1>1. e \in Call
  BY DEF TypeOK, HistType, Call
<1>2. /\ Len(handled) \in Nat
      /\ DOMAIN handled = 1 .. Len(handled) /\ DOMAIN handled' = 1 .. Len(handled) + 1
      /\ handled'[Len(handled) + 1] = e
      /\ \A i \in DOMAIN handled : handled'[i] = handled[i]
  BY <1>1, NewCall
<1>3. Calls \in Seq(C) /\ Len(Calls) = Len(handled)
  <2>1. Calls \in [1 .. Len(handled) -> C]
    BY <1>2, CallTypes DEF Calls
  <2>. QED
    BY <1>2, <2>1, FunctionIsSeq
<1>4. Append(Calls, [seq |-> s, handler |-> h]) =
        [i \in 1 .. Len(handled) + 1 |->
            IF i = Len(handled) + 1 THEN [seq |-> s, handler |-> h] ELSE Calls[i]]
  BY <1>2, <1>3
<1>5. \A i \in 1 .. Len(handled) + 1 :
        Calls'[i] = IF i = Len(handled) + 1 THEN [seq |-> s, handler |-> h] ELSE Calls[i]
  BY <1>2 DEF Calls
<1>6. Calls' = [i \in 1 .. Len(handled) + 1 |-> Calls'[i]]
  BY <1>2 DEF Calls
<1>. QED
  BY <1>4, <1>5, <1>6

-----------------------------------------------------------------------------
(* The steps.                                                              *)

\* Both tests of a message's time agree.
LEMMA DueAgrees ==
    ASSUME TypeOK, NEW s \in lst_msg
    PROVE  /\ Remaining(s) <= 0 <=> msg[s].rec + msg[s].after <= now
           /\ s \in Nat
<1>1. msg[s] \in Msg /\ now \in Nat /\ s \in Nat
  BY DEF TypeOK, ListType, HistType
<1>. QED
  BY <1>1 DEF Remaining, Msg

\* The scan picks what is due and has nothing older before it: it is delivered, or, when
\* nobody is there to take it or quit was called, discarded.
LEMMA PickMaps ==
    ASSUME TypeOK, NEW s \in lst_msg, Picks(s)
    PROVE  Abstract!Deliver \/ Abstract!Discard
<1>1. RunningMsg = Abstract!None
  BY DEF Picks, RunningMsg, Abstract!None
<1>2. Abstract!NextDue(s)
  <2>1. s \in Due /\ \A t \in Due : s <= t
    BY DEF Picks, FirstDue
  <2>2. ASSUME NEW t \in lst_msg
        PROVE  /\ Remaining(t) <= 0 <=> PendingMsgs[t].due <= now
               /\ t \in Nat /\ PendingMsgs[t].due \in Nat /\ now \in Nat
    <3>1. PendingMsgs[t].due = msg[t].rec + msg[t].after
      BY DEF PendingMsgs
    <3>2. msg[t] \in Msg /\ now \in Nat
      BY DEF TypeOK, ListType, HistType
    <3>. QED
      BY <3>1, <3>2, DueAgrees DEF Msg
  <2>. QED
    BY <2>1, <2>2 DEF Abstract!NextDue, Due, PendingMsgs
<1>3. UNCHANGED <<msg, msg_seq, cancelled, lst_handler, exit, now>> /\ Dispatch(s, 0)
  BY DispatchCases DEF Picks, handlerVars
<1>4. CASE /\ ~exit /\ wpc' = "handle" /\ cur' = s /\ hcur' \in Receivers(s, 0)
           /\ handled' = Append(handled, [seq |-> s, handler |-> hcur', at |-> now])
           /\ UNCHANGED lst_msg
  <2>1. hcur' \in lst_handler /\ hcur' \in Nat /\ s \in Nat
    BY <1>4 DEF Receivers, TypeOK, HandlerType, ListType
  <2>2. Calls' = Append(Calls, [seq |-> s, handler |-> hcur'])
    BY <1>4, <2>1, CallsGrow
  <2>3. RunningMsg' = s /\ UNCHANGED PendingMsgs /\ s \in DOMAIN PendingMsgs
    BY <1>3, <1>4 DEF RunningMsg, PendingMsgs
  <2>. QED
    BY <1>1, <1>2, <1>3, <1>4, <2>1, <2>2, <2>3 DEF Abstract!Deliver
<1>5. CASE wpc' = "loop" /\ lst_msg' = lst_msg \ {s} /\ UNCHANGED handled
  <2>1. exit \/ Receivers(s, 0) = {}
    BY <1>3, <1>5 DEF Dispatch
  <2>2. exit \/ PendingMsgs[s].handler \notin lst_handler
    <3>1. PendingMsgs[s].handler = msg[s].handler
      BY DEF PendingMsgs
    <3>2. \A r \in lst_handler : r >= 0
      BY DEF TypeOK, HandlerType
    <3>. QED
      BY <2>1, <3>1, <3>2 DEF Receivers
  <2>3. RunningMsg' = RunningMsg /\ UNCHANGED Calls /\ s \in DOMAIN PendingMsgs
    BY <1>1, <1>5 DEF RunningMsg, Calls, PendingMsgs, Abstract!None
  <2>4. Abstract!Remove({s})
    BY <1>3, <1>5, ErasedIsRemoved
  <2>. QED
    BY <1>1, <1>2, <1>3, <2>2, <2>3, <2>4 DEF Abstract!Discard
<1>. QED
  BY <1>3, <1>4, <1>5, DispatchCases

\* A broadcast goes on to a handler behind the last one, or is finished.
LEMMA ContinueMaps ==
    ASSUME TypeOK, HandledGone, Continues
    PROVE  Abstract!DeliverOn \/ Abstract!Finish
<1>1. RunningMsg = cur /\ cur \in DOMAIN PendingMsgs
  BY DEF Continues, RunningMsg, PendingMsgs
<1>2. UNCHANGED <<msg, msg_seq, cancelled, lst_handler, exit, now>> /\ Dispatch(cur, hcur + 1)
  BY DispatchCases DEF Continues, handlerVars, exitVars
<1>3. cur \in Nat /\ hcur \in Nat
  BY DEF TypeOK, WorkerType
<1>4. CASE /\ ~exit /\ wpc' = "handle" /\ cur' = cur /\ hcur' \in Receivers(cur, hcur + 1)
           /\ handled' = Append(handled, [seq |-> cur, handler |-> hcur', at |-> now])
           /\ UNCHANGED lst_msg
  <2>1. hcur' \in lst_handler /\ hcur' \in Nat /\ hcur' > hcur
    BY <1>3, <1>4 DEF Receivers, TypeOK, HandlerType
  <2>2. Calls' = Append(Calls, [seq |-> cur, handler |-> hcur'])
    BY <1>3, <1>4, <2>1, CallsGrow
  <2>3. Calls[Len(Calls)].handler = hcur
    <3>1. /\ Len(handled) \in DOMAIN handled /\ handled[Len(handled)].handler = hcur
          /\ DOMAIN handled = 1 .. Len(handled) /\ Len(handled) \in Nat
      BY CallTypes DEF Continues, HandledGone
    <3>2. Len(Calls) = Len(handled)
      BY <3>1, CallTypes, FunctionIsSeq, Calls \in [1 .. Len(handled) -> [seq : Nat, handler : Nat]]
      DEF Calls
    <3>. QED
      BY <3>1, <3>2 DEF Calls
  <2>4. UNCHANGED <<RunningMsg, PendingMsgs>>
    BY <1>1, <1>2, <1>4 DEF RunningMsg, PendingMsgs
  <2>. QED
    BY <1>1, <1>2, <1>4, <2>1, <2>2, <2>3, <2>4 DEF Abstract!DeliverOn
<1>5. CASE wpc' = "loop" /\ lst_msg' = lst_msg \ {cur} /\ UNCHANGED handled
  <2>1. RunningMsg' = Abstract!None /\ UNCHANGED Calls
    BY <1>5 DEF RunningMsg, Calls, Abstract!None
  <2>2. Abstract!Remove({RunningMsg})
    BY <1>1, <1>2, <1>5, ErasedIsRemoved
  <2>. QED
    BY <1>1, <1>2, <2>1, <2>2 DEF Abstract!Finish
<1>. QED
  BY <1>2, <1>4, <1>5, DispatchCases

\* Any step of the queue is a step of TimerQueue or changes nothing it speaks of.
LEMMA StepMaps ==
    Inductive /\ StillMarked /\ [Next]_vars => [Abstract!Next]_(Abstract!vars)
<1>. SUFFICES ASSUME Inductive, StillMarked, [Next]_vars
              PROVE  Abstract!Next \/ UNCHANGED Abstract!vars
  OBVIOUS
<1>1. TypeOK /\ HandledGone
  BY DEF Inductive
<1>2. CASE Continues
  BY <1>1, <1>2, ContinueMaps DEF Abstract!Next
<1>3. ASSUME NEW s \in lst_msg, Picks(s) PROVE Abstract!Next
  BY <1>1, <1>3, PickMaps DEF Abstract!Next
<1>4. CASE FollowsFreed \/ Moves \/ WorkerNotify
  BY <1>4, Stutters
  DEF FollowsFreed, Moves, WorkerNotify, RunningMsg, listVars, handlerVars, exitVars, workerVars
<1>5. CASE Tick
  <2>1. UNCHANGED <<PendingMsgs, RunningMsg, Calls>>
    BY <1>5 DEF Tick, PendingMsgs, RunningMsg, Calls, listVars, workerVars
  <2>2. Abstract!Tick
    BY <1>5, <2>1 DEF Tick, Abstract!Tick, listVars, handlerVars, exitVars
  <2>. QED
    BY <2>2 DEF Abstract!Next
<1>6. CASE Cancel
  <2>1. lst_msg' \subseteq lst_msg /\ is_handling \subseteq lst_msg' /\ UNCHANGED <<msg, msg_seq>>
    BY <1>1, <1>6, CancelErases
  <2>. DEFINE S == lst_msg \ lst_msg'
  <2>2. S \in SUBSET DOMAIN PendingMsgs /\ lst_msg' = lst_msg \ S
    BY <2>1 DEF PendingMsgs
  <2>3. RunningMsg \notin S
    <3>1. CASE wpc = "handle"
      BY <2>1, <3>1 DEF RunningMsg, StillMarked
    <3>2. CASE wpc # "handle"
      BY <1>1, <3>2 DEF RunningMsg, TypeOK, ListType
    <3>. QED
      BY <3>1, <3>2
  <2>4. Abstract!Remove(S)
    BY <2>1, <2>2, ErasedIsRemoved
  <2>5. UNCHANGED <<RunningMsg, Calls, lst_handler, exit, now>> /\ cancelled' = cancelled \cup S
    BY <1>6 DEF Cancel, RunningMsg, Calls, handlerVars, exitVars, workerVars
  <2>6. Abstract!Cancel
    BY <2>1, <2>2, <2>3, <2>4, <2>5 DEF Abstract!Cancel
  <2>. QED
    BY <2>6 DEF Abstract!Next
<1>7. CASE AddHandler
  <2>1. UNCHANGED <<PendingMsgs, RunningMsg, Calls>>
    BY <1>7 DEF AddHandler, PendingMsgs, RunningMsg, Calls, listVars, workerVars
  <2>2. Abstract!AddHandler
    BY <1>7, <2>1 DEF AddHandler, Abstract!AddHandler, listVars, exitVars
  <2>. QED
    BY <2>2 DEF Abstract!Next
<1>8. CASE RemoveHandler
  <2>1. PICK h \in lst_handler :
          lst_handler' = lst_handler \ {h} /\ lst_msg' = lst_msg \ OfHandler(h)
    BY <1>8 DEF RemoveHandler
  <2>2. OfHandler(h) = {s \in DOMAIN PendingMsgs : PendingMsgs[s].handler = h}
    BY DEF OfHandler, PendingMsgs
  <2>3. Abstract!Remove(OfHandler(h))
    BY <1>8, <2>1, ErasedIsRemoved DEF RemoveHandler
  <2>4. UNCHANGED <<msg_seq, cancelled, RunningMsg, Calls, exit, now>>
    BY <1>8, <2>1 DEF RemoveHandler, RunningMsg, Calls, exitVars, workerVars
  <2>5. Abstract!Withdraw
    BY <2>1, <2>2, <2>3, <2>4 DEF Abstract!Withdraw
  <2>. QED
    BY <2>5 DEF Abstract!Next
<1>9. ASSUME NEW c \in Clients, SendPush(c) PROVE Abstract!Next
  <2>1. \A s \in 0 .. msg_seq - 1 : msg'[s] = msg[s]
    BY <1>1, <1>9 DEF SendPush, TypeOK, ListType
  <2>2. lst_msg \subseteq 0 .. msg_seq - 1 /\ lst_msg' = lst_msg \cup {msg_seq}
    BY <1>1, <1>9 DEF SendPush, TypeOK, ListType
  <2>3. /\ DOMAIN PendingMsgs' = DOMAIN PendingMsgs \cup {msg_seq}
        /\ \A s \in DOMAIN PendingMsgs : PendingMsgs'[s] = PendingMsgs[s]
    BY <2>1, <2>2 DEF PendingMsgs
  <2>4. UNCHANGED <<RunningMsg, Calls>>
    BY <1>9 DEF SendPush, WakeWorker, RunningMsg, Calls
  <2>5. Abstract!Post
    BY <1>9, <2>3, <2>4 DEF SendPush, Abstract!Post, handlerVars, exitVars
  <2>. QED
    BY <2>5 DEF Abstract!Next
<1>10. ASSUME NEW c \in Clients, Quit(c) PROVE Abstract!Next
  <2>1. UNCHANGED <<PendingMsgs, RunningMsg, Calls, msg_seq, cancelled, lst_handler, now>>
    BY <1>10, ClientFrame DEF PendingMsgs, RunningMsg, Calls, listVars, handlerVars, workerVars
  <2>2. Abstract!Close
    BY <1>10, <2>1 DEF Quit, Abstract!Close
  <2>. QED
    BY <2>2 DEF Abstract!Next
<1>11. ASSUME NEW c \in Clients,
              \/ SendBegin(c) \/ WaitBegin(c) \/ SendEnd(c)
              \/ WaitAgain(c) \/ QuitCheck(c) \/ QuitSleep(c) \/ SpuriousClient(c)
       PROVE  UNCHANGED Abstract!vars
  <2>1. UNCHANGED exit
    BY <1>11 DEF SendBegin, WaitBegin, SendEnd, WaitAgain, QuitCheck, QuitSleep, SpuriousClient,
       exitVars
  <2>. QED
    BY <1>11, <2>1, ClientFrame, Stutters DEF RunningMsg, listVars, handlerVars, workerVars
<1>12. CASE UNCHANGED vars
  BY <1>12, Stutters DEF vars, RunningMsg, listVars, handlerVars, exitVars, workerVars
<1>. QED
  BY <1>1, <1>2, <1>3, <1>4, <1>5, <1>6, <1>7, <1>8, <1>9, <1>10, <1>11, <1>12, StepCases

\* The message queue implements the abstract timer queue: through any interleaving of
\* send_msg, the cancels, remove_handler, quit and the worker's loop, messages are
\* delivered in the order in which they are due, once to each handler, and leave the queue
\* only by a client's cancel while not running, with their handler, or at their turn; a
\* message whose turn comes is delivered unless its handler is gone or quit was called.
THEOREM Refinement == Spec => ImplementsTimerQueue
<1>1. Init => Abstract!Init
  BY InitMaps
<1>2. Init => StillMarked
  BY DEF Init, StillMarked
<1>3. Inductive /\ StillMarked /\ [Next]_vars => StillMarked'
  BY StillMarkedStep
<1>4. Inductive /\ StillMarked /\ [Next]_vars => [Abstract!Next]_(Abstract!vars)
  BY StepMaps
<1>. QED
  BY <1>1, <1>2, <1>3, <1>4, InductiveCorrect, PTL DEF Spec, ImplementsTimerQueue, Abstract!Spec
=============================================================================
