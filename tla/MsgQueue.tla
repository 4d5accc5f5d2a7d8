------------------------------ MODULE MsgQueue ------------------------------
(***************************************************************************)
(* The message queue of utils/msgqueue.h (class MsgQueue): one worker      *)
(* thread in enter_timer_loop, any number of client threads that send,     *)
(* cancel and wait for messages, add and remove handlers, and one client   *)
(* that quits the queue.                                                   *)
(*                                                                         *)
(* Granularity.  Everything the code does between mutex.lock and the next  *)
(* mutex.unlock or pthread_cond_wait is one action; what it does without   *)
(* the mutex (has_handler, exit, exit_done, the last notification of the   *)
(* worker) is split into actions of its own.  The variable mutex is held   *)
(* across actions only by _wait_exit, between its test of exit_done and    *)
(* pthread_cond_wait, because the worker writes exit_done and notifies     *)
(* without the mutex.                                                      *)
(*                                                                         *)
(* Data.  A list node is named by its msg_seq: send_msg takes the number   *)
(* and appends the node in one critical section, so the order of lst_msg   *)
(* is the order of the numbers and the list is the set of the numbers in   *)
(* it.  Handlers are numbered in the order add_handler appends them        *)
(* (new_handlerid hands out ever larger ids; 0 is DEFAULT_HANDLER_ID).     *)
(* A message sent with timer type kImmediately has after = 0.              *)
(***************************************************************************)
EXTENDS Integers, Sequences, FiniteSets

CONSTANTS
    Clients,      \* the threads that call the queue
    Sends,        \* the messages a client may send: a set of MsgArg
    MaxMsgs,      \* bound: the number of messages ever sent
    MaxHandlers,  \* bound: the number of handlers ever added, default included
    Broadcast,    \* the handlers with Handler::broadcast set
    MaxNow,       \* bound: the last value of the clock
    Ops           \* the operations the clients use, a subset of AllOps

INVALID_MSG_ID == -1
DEFAULT_HANDLER_ID == 0

Handlers == 0 .. MaxHandlers - 1
IdleWait == MaxNow + 1  \* 10 * 60 * 1000: longer than any delay of the model

AllOps == {"send", "cancel", "wait", "add_handler", "remove_handler", "quit"}

\* What the constructors of struct Msg take.
MsgArg == [id : Int, handler : Nat, after : Nat, bcast : BOOLEAN]

ASSUME ConstantsAssumption ==
    /\ MaxMsgs \in Nat
    /\ MaxHandlers \in Nat \ {0}
    /\ MaxNow \in Nat
    /\ Broadcast \subseteq Nat
    /\ Sends \subseteq MsgArg
    /\ Ops \subseteq AllOps

VARIABLES
    lst_msg,       \* the sequence numbers of the nodes in the list
    msg,           \* the message of every number handed out so far
    is_handling,   \* the numbers whose message has is_handling set
    msg_seq,       \* the next number
    lst_handler,   \* the handlers in the list
    next_handler,  \* the next handler to be added
    exit,
    exit_done,
    mutex,         \* "free", or "quit": held by the client in _wait_exit
    wpc,           \* where the worker is
    cur,           \* the worker's list iterator msg
    hcur,          \* the worker's list iterator handler_begin
    wait_time,     \* the worker's local of that name
    deadline,      \* when its pthread_cond_timedwait times out
    cpc,           \* where each client is
    arg,           \* what each client was called with
    now,           \* gettickcount
    ub,            \* "none", or where freed memory was used
    handled,       \* history: the Handle calls, in the order they were made
    cancelled      \* history: the messages the cancel functions took out of the list

listVars    == <<lst_msg, msg, is_handling, msg_seq, cancelled>>
handlerVars == <<lst_handler, next_handler>>
exitVars    == <<exit, exit_done, mutex>>
workerVars  == <<wpc, cur, hcur, wait_time, deadline>>
clientVars  == <<cpc, arg>>
vars == <<listVars, handlerVars, exitVars, workerVars, clientVars, now, ub, handled>>

\* struct Msg: what the constructor was given, and record_time.
Msg == [id : Int, handler : Nat, after : Nat, bcast : BOOLEAN, rec : Nat]

\* A send in progress: the message and whether has_handler's handler was there
\* when its traversal began; quit marks the send_msg that quit() makes.
SendArg == [m : Msg, seen : BOOLEAN, quit : BOOLEAN]

\* A wait in progress: which of the three wait functions, and its argument.
WaitArg == [by : {"seq"}, seq : Nat]
           \cup [by : {"handler"}, handler : Nat]
           \cup [by : {"msg"}, id : Int, handler : Nat]

NoArg == [by |-> "none"]

Call == [seq : Nat, handler : Nat, at : Nat]

WorkerPC == {"loop", "lock", "wait", "woken", "handle", "exiting", "notify", "stopped"}
SendPC == {"traversing", "torn", "push"}
WaitPC == {"blocked", "woken"}
QuitPC == {"qlock", "qsleep", "qblocked", "qwoken", "returned"}
ClientPC == {"idle"} \cup SendPC \cup WaitPC \cup QuitPC

Init ==
    /\ lst_msg = {} /\ msg = [s \in {} |-> 0] /\ is_handling = {} /\ msg_seq = 0
    /\ cancelled = {}
    /\ lst_handler = {DEFAULT_HANDLER_ID} /\ next_handler = 1
    /\ exit = FALSE /\ exit_done = TRUE /\ mutex = "free"
    /\ wpc = "loop" /\ cur = 0 /\ hcur = 0 /\ wait_time = 0 /\ deadline = 0
    /\ cpc = [c \in Clients |-> "idle"] /\ arg = [c \in Clients |-> NoArg]
    /\ now = 0 /\ ub = "none" /\ handled = <<>>

-----------------------------------------------------------------------------
(* The mutex and the two conditions.                                       *)

\* The mutex can be taken for a critical section that is one action.
CanLock == mutex = "free" /\ ub = "none"

\* A client may call: after quit has returned the owner deletes the queue.
CanCall(op) == op \in Ops /\ \A c \in Clients : cpc[c] # "returned"

\* The clients after done_cond.notifyAll (notify_msg_done).
WakeAll == [c \in Clients |-> IF cpc[c] = "blocked" THEN "woken"
                              ELSE IF cpc[c] = "qblocked" THEN "qwoken"
                              ELSE cpc[c]]

\* Mutant: the notification of send_msg is forgotten.
WakeNobody == wpc

\* The worker after msg_cond.notifyOne: it is the only thread that waits there.
WakeWorker == IF wpc = "wait" THEN "woken" ELSE wpc

-----------------------------------------------------------------------------
(* send_msg: has_handler walks lst_handler without the mutex.              *)

Sending(c) == cpc[c] \in SendPC

\* Bound: a number is left for every send in progress and for that of quit.
MayCreate == msg_seq + Cardinality({c \in Clients : Sending(c)}) + 1 < MaxMsgs

StartSend(c, m, quit) ==
    /\ cpc' = [cpc EXCEPT ![c] = "traversing"]
    /\ arg' = [arg EXCEPT ![c] = [m    |-> m,
                                  seen |-> m.handler \in lst_handler,
                                  quit |-> quit]]

\* The constructor of Msg takes record_time before send_msg is entered.
SendBegin(c) ==
    /\ ub = "none" /\ CanCall("send") /\ cpc[c] = "idle" /\ MayCreate
    /\ \E m \in Sends :
        /\ now + m.after <= MaxNow
        /\ StartSend(c, [id |-> m.id, handler |-> m.handler, after |-> m.after,
                         bcast |-> m.bcast, rec |-> now], FALSE)
    /\ UNCHANGED <<listVars, handlerVars, exitVars, workerVars, now, ub, handled>>

\* Where a call of send_msg returns to: its caller, or quit.
AfterSend(c) == IF arg[c].quit THEN "qlock" ELSE "idle"

\* The traversal ends.  It may see the list as it was when it began or as it is
\* now; if a handler was deleted meanwhile it may have walked over freed memory.
SendEnd(c) ==
    /\ ub = "none" /\ cpc[c] \in {"traversing", "torn"}
    /\ \/ \E found \in {arg[c].seen, arg[c].m.handler \in lst_handler} :
            /\ cpc' = [cpc EXCEPT ![c] = IF found THEN "push" ELSE AfterSend(c)]
            /\ arg' = IF found THEN arg ELSE [arg EXCEPT ![c] = NoArg]
            /\ UNCHANGED ub
       \/ /\ cpc[c] = "torn" /\ ub' = "traversal"
          /\ UNCHANGED clientVars
    /\ UNCHANGED <<listVars, handlerVars, exitVars, workerVars, now, handled>>

SendPush(c) ==
    /\ CanLock /\ cpc[c] = "push"
    /\ lst_msg' = lst_msg \cup {msg_seq}
    /\ msg' = [s \in 0 .. msg_seq |-> IF s = msg_seq THEN arg[c].m ELSE msg[s]]
    /\ msg_seq' = msg_seq + 1
    /\ wpc' = WakeWorker
    /\ cpc' = [cpc EXCEPT ![c] = AfterSend(c)]
    /\ arg' = [arg EXCEPT ![c] = NoArg]
    /\ UNCHANGED <<is_handling, cancelled, handlerVars, exitVars, cur, hcur, wait_time,
                   deadline, now, ub, handled>>

-----------------------------------------------------------------------------
(* The four cancel functions, add_handler and remove_handler.  Each is one  *)
(* critical section.  None of them notifies done_cond.                     *)

Ids == {m.id : m \in Sends} \cup {INVALID_MSG_ID}

OfHandler(h) == {s \in lst_msg : msg[s].handler = h}
OfMsg(i, h) == {s \in OfHandler(h) : msg[s].id = i}

\* Mutant: the running message may be cancelled too.
MayEraseAny(s) == TRUE

\* The test every cancel function makes before it erases a node.
MayErase(s) == s \notin is_handling

\* lst.erase(it) is followed by delete(*it): the node is read after it was freed.  The
\* read finds what was there, or, if the memory has been used again, anything.
FreedNodes(S) == ub' \in IF S = {} THEN {ub} ELSE {ub, "node"}

Erase(S) ==
    /\ lst_msg' = lst_msg \ S
    /\ FreedNodes(S)
    /\ UNCHANGED <<msg, msg_seq>>

cancel_msg_seq(q) == Erase({s \in lst_msg : s = q /\ MayErase(s)})

\* cancel_msg(Msg &): every match up to the first one that is running.
cancel_msg_all(i, h) ==
    Erase({s \in OfMsg(i, h) : \A t \in OfMsg(i, h) : t <= s => MayErase(t)})

\* cancel_msg(int handler_id): every match that is not running.
cancel_msg_handler(h) == Erase({s \in OfHandler(h) : MayErase(s)})

\* cancel_msg(msg_id, handler_id): the first match only, unless it is running.
cancel_msg_first(i, h) ==
    Erase({s \in OfMsg(i, h) : MayErase(s) /\ \A t \in OfMsg(i, h) : s <= t})

Cancel ==
    /\ CanLock /\ CanCall("cancel")
    /\ \/ \E q \in lst_msg : cancel_msg_seq(q)
       \/ \E h \in Handlers : cancel_msg_handler(h)
       \/ \E i \in Ids, h \in Handlers : cancel_msg_all(i, h) \/ cancel_msg_first(i, h)
    /\ cancelled' = cancelled \cup (lst_msg \ lst_msg')
    /\ UNCHANGED <<is_handling, handlerVars, exitVars, workerVars, clientVars, now,
                   handled>>

\* The wrapper's new_handlerid gives every handler an id of its own.
AddHandler ==
    /\ CanLock /\ CanCall("add_handler") /\ next_handler < MaxHandlers
    /\ lst_handler' = lst_handler \cup {next_handler}
    /\ next_handler' = next_handler + 1
    /\ UNCHANGED <<listVars, exitVars, workerVars, clientVars, now, ub, handled>>

\* _remove_handler deletes the handler and all its messages, running or not; the
\* handler's node is read after the erase even when it has no message.
RemoveHandler ==
    /\ CanLock /\ CanCall("remove_handler")
    /\ \E h \in lst_handler :
        /\ lst_handler' = lst_handler \ {h}
        /\ lst_msg' = lst_msg \ OfHandler(h)
        /\ FreedNodes({h})
    /\ is_handling' = is_handling \cap lst_msg'
    /\ cpc' = [c \in Clients |-> IF cpc[c] = "traversing" THEN "torn" ELSE cpc[c]]
    /\ UNCHANGED <<msg, msg_seq, cancelled, next_handler, exitVars, workerVars, arg, now,
                   handled>>

-----------------------------------------------------------------------------
(* wait_done_seq_done, wait_all_msg_done, wait_msg_done.                    *)

\* The message s is one that a waits for, whether or not it is still in the list.
WaitsFor(a, s) ==
    \/ a.by = "seq" /\ s = a.seq
    \/ a.by = "handler" /\ msg[s].handler = a.handler
    \/ a.by = "msg" /\ msg[s].handler = a.handler /\ msg[s].id = a.id

\* Mutant: a message taken by the worker counts as done.
AwaitedQueued(a) == {s \in lst_msg \ is_handling : WaitsFor(a, s)}

\* The nodes the three functions look for.
Awaited(a) == {s \in lst_msg : WaitsFor(a, s)}

WaitCalls == [by : {"seq"}, seq : 0 .. msg_seq]
             \cup [by : {"handler"}, handler : Handlers]
             \cup [by : {"msg"}, id : Ids, handler : Handlers]

\* A call that finds nothing returns at once and changes nothing.
WaitBegin(c) ==
    /\ CanLock /\ CanCall("wait") /\ cpc[c] = "idle"
    /\ \E a \in WaitCalls :
        /\ Awaited(a) # {}
        /\ arg' = [arg EXCEPT ![c] = a]
    /\ cpc' = [cpc EXCEPT ![c] = "blocked"]
    /\ UNCHANGED <<listVars, handlerVars, exitVars, workerVars, now, ub, handled>>

WaitAgain(c) ==
    /\ CanLock /\ cpc[c] = "woken"
    /\ IF Awaited(arg[c]) # {}
       THEN /\ cpc' = [cpc EXCEPT ![c] = "blocked"]
            /\ UNCHANGED arg
       ELSE /\ cpc' = [cpc EXCEPT ![c] = "idle"]
            /\ arg' = [arg EXCEPT ![c] = NoArg]
    /\ UNCHANGED <<listVars, handlerVars, exitVars, workerVars, now, ub, handled>>

-----------------------------------------------------------------------------
(* quit and _wait_exit.                                                    *)

QuitMsg == [id |-> INVALID_MSG_ID, handler |-> DEFAULT_HANDLER_ID, after |-> 0,
            bcast |-> FALSE, rec |-> now]

\* Mutant: quit only sets the flag and sends no message to wake the worker.
QuitSilent(c) ==
    /\ ub = "none" /\ CanCall("quit") /\ cpc[c] = "idle" /\ ~exit
    /\ exit' = TRUE
    /\ cpc' = [cpc EXCEPT ![c] = "qlock"]
    /\ UNCHANGED <<listVars, handlerVars, exit_done, mutex, workerVars, arg, now, ub,
                   handled>>

\* The owner quits a queue once.
Quit(c) ==
    /\ ub = "none" /\ CanCall("quit") /\ cpc[c] = "idle" /\ ~exit
    /\ exit' = TRUE
    /\ StartSend(c, QuitMsg, TRUE)
    /\ UNCHANGED <<listVars, handlerVars, exit_done, mutex, workerVars, now, ub, handled>>

\* Mutant: an if instead of the while, so that any wakeup ends the wait.
QuitCheckOnce(c) ==
    /\ CanLock /\ cpc[c] \in {"qlock", "qwoken"}
    /\ LET done == exit_done \/ cpc[c] = "qwoken"
       IN  /\ cpc' = [cpc EXCEPT ![c] = IF done THEN "returned" ELSE "qsleep"]
           /\ mutex' = IF done THEN "free" ELSE "quit"
    /\ UNCHANGED <<listVars, handlerVars, exit, exit_done, workerVars, arg, now, ub,
                   handled>>

\* The test of the while loop, on entry and after each wait.
QuitCheck(c) ==
    /\ CanLock /\ cpc[c] \in {"qlock", "qwoken"}
    /\ cpc' = [cpc EXCEPT ![c] = IF exit_done THEN "returned" ELSE "qsleep"]
    /\ mutex' = IF exit_done THEN "free" ELSE "quit"
    /\ UNCHANGED <<listVars, handlerVars, exit, exit_done, workerVars, arg, now, ub,
                   handled>>

\* pthread_cond_wait puts the thread to sleep and releases the mutex.
QuitSleep(c) ==
    /\ ub = "none" /\ cpc[c] = "qsleep"
    /\ cpc' = [cpc EXCEPT ![c] = "qblocked"]
    /\ mutex' = "free"
    /\ UNCHANGED <<listVars, handlerVars, exit, exit_done, workerVars, arg, now, ub,
                   handled>>

-----------------------------------------------------------------------------
(* The worker: enter_timer_loop.                                           *)

\* What is left of a message's delay (0 or less: it is due).
Remaining(s) == msg[s].after - (now - msg[s].rec)

Due == {s \in lst_msg : Remaining(s) <= 0}

\* Mutant: the scan goes on and ends with the last message that is due.
LastDue(s) == s \in Due /\ \A t \in Due : t <= s

\* The scan breaks at the first message of the list that is due.
FirstDue(s) == s \in Due /\ \A t \in Due : s <= t

\* Mutant: the first handler of the list is passed over, its messages fall out of the list.
ReceiversBehind(s, h) ==
    {r \in lst_handler : /\ r > h
                         /\ msg[s].handler = r \/ (msg[s].bcast /\ r \in Broadcast)}

\* The handlers from h on that the message goes to.
Receivers(s, h) ==
    {r \in lst_handler : /\ r >= h
                         /\ msg[s].handler = r \/ (msg[s].bcast /\ r \in Broadcast)}

\* while (!exit)
WorkerLoop ==
    /\ ub = "none" /\ wpc = "loop"
    /\ wpc' = IF exit THEN "exiting" ELSE "lock"
    /\ UNCHANGED <<listVars, handlerVars, exitVars, cur, hcur, wait_time, deadline,
                   clientVars, now, ub, handled>>

\* pthread_cond_timedwait on msg_cond.
Sleep(t) ==
    /\ wpc' = "wait" /\ wait_time' = t /\ deadline' = now + t
    /\ UNCHANGED <<listVars, cur, hcur, cpc, ub, handled>>

\* The handler loop for message s from handler h on: the next Handle call, made
\* without the mutex, or the end of the message.
Dispatch(s, h) ==
    /\ cur' = s
    /\ UNCHANGED cancelled
    /\ \/ /\ ~exit
          /\ \E r \in Receivers(s, h) :
              /\ \A q \in Receivers(s, h) : r <= q
              /\ hcur' = r
              /\ handled' = Append(handled, [seq |-> s, handler |-> r, at |-> now])
          /\ is_handling' = is_handling \cup {s}
          /\ wpc' = "handle"
          /\ UNCHANGED <<lst_msg, msg, msg_seq, cpc, ub>>
       \/ /\ exit \/ Receivers(s, h) = {}
          /\ Erase({s})
          /\ is_handling' = is_handling \ {s}
          /\ cpc' = WakeAll
          /\ wpc' = "loop"
          /\ UNCHANGED <<hcur, handled>>

\* What the scan leaves in wait_time when nothing is due: wait_time_min keeps the
\* first message's time, so it is the smaller of the first's and the last's.
SleepTime(f, l) == IF Remaining(f) < Remaining(l) THEN Remaining(f) ELSE Remaining(l)

\* The scan of lst_msg for the first message that is due.
Scan ==
    /\ UNCHANGED deadline
    /\ \/ /\ Due = {}
          /\ \E f, l \in lst_msg :
              /\ \A s \in lst_msg : f <= s /\ s <= l
              /\ wait_time' = SleepTime(f, l)
          /\ wpc' = "loop"
          /\ UNCHANGED <<listVars, cur, hcur, cpc, ub, handled>>
       \/ \E s \in lst_msg :
          /\ FirstDue(s)
          /\ wait_time' = 0
          /\ Dispatch(s, 0)

\* From mutex.lock to the first wait or, past the while, to the next unlock.
WorkerLock ==
    /\ CanLock /\ wpc = "lock"
    /\ exit_done' = FALSE
    /\ \/ lst_msg = {} /\ Sleep(IdleWait)
       \/ lst_msg # {} /\ wait_time > 0 /\ Sleep(wait_time)
       \/ lst_msg # {} /\ wait_time <= 0 /\ Scan
    /\ UNCHANGED <<handlerVars, exit, mutex, arg, now>>

\* Bound: when the clock has stopped every timed wait but the idle one is over.
TimedOut == now >= deadline \/ (now = MaxNow /\ wait_time # IdleWait)

WorkerTimeout ==
    /\ ub = "none" /\ wpc = "wait" /\ TimedOut
    /\ wpc' = "woken"
    /\ UNCHANGED <<listVars, handlerVars, exitVars, cur, hcur, wait_time, deadline,
                   clientVars, now, ub, handled>>

\* After a wait: sleep again, or leave the while with wait_time 0.
WorkerWoken ==
    /\ CanLock /\ wpc = "woken"
    /\ \/ lst_msg = {} /\ Sleep(IdleWait)
       \/ lst_msg # {} /\ Scan
    /\ UNCHANGED <<handlerVars, exitVars, arg, now>>

\* Mutant: the handler iterator is not advanced.
HandleAgain ==
    /\ CanLock /\ wpc = "handle" /\ cur \in lst_msg /\ hcur \in lst_handler
    /\ Dispatch(cur, hcur)
    /\ UNCHANGED <<handlerVars, exitVars, wait_time, deadline, arg, now>>

\* Handle returns.  The worker goes on with its two iterators: it uses freed
\* memory if the message or the handler was deleted meanwhile.
HandleDone ==
    /\ CanLock /\ wpc = "handle"
    /\ IF cur \in lst_msg /\ hcur \in lst_handler
       THEN Dispatch(cur, hcur + 1)
       ELSE /\ ub' = "dispatch"
            /\ UNCHANGED <<listVars, wpc, cur, hcur, cpc, handled>>
    /\ UNCHANGED <<handlerVars, exitVars, wait_time, deadline, arg, now>>

\* After the loop, without the mutex: exit_done = true, then notify_msg_done.
WorkerExit ==
    /\ ub = "none" /\ wpc = "exiting"
    /\ exit_done' = TRUE
    /\ wpc' = "notify"
    /\ UNCHANGED <<listVars, handlerVars, exit, mutex, cur, hcur, wait_time, deadline,
                   clientVars, now, ub, handled>>

WorkerNotify ==
    /\ ub = "none" /\ wpc = "notify"
    /\ cpc' = WakeAll
    /\ wpc' = "stopped"
    /\ UNCHANGED <<listVars, handlerVars, exitVars, cur, hcur, wait_time, deadline,
                   arg, now, ub, handled>>

-----------------------------------------------------------------------------
(* The environment: the clock, and wakeups POSIX allows without a notify.  *)

Tick ==
    /\ ub = "none" /\ now < MaxNow
    /\ now' = now + 1
    /\ UNCHANGED <<listVars, handlerVars, exitVars, workerVars, clientVars, ub, handled>>

SpuriousWorker ==
    /\ ub = "none" /\ wpc = "wait"
    /\ wpc' = "woken"
    /\ UNCHANGED <<listVars, handlerVars, exitVars, cur, hcur, wait_time, deadline,
                   clientVars, now, ub, handled>>

SpuriousClient(c) ==
    /\ ub = "none" /\ cpc[c] \in {"blocked", "qblocked"}
    /\ cpc' = [cpc EXCEPT ![c] = WakeAll[c]]
    /\ UNCHANGED <<listVars, handlerVars, exitVars, workerVars, arg, now, ub, handled>>

Worker == \/ WorkerLoop \/ WorkerLock \/ WorkerTimeout \/ WorkerWoken \/ HandleDone
          \/ WorkerExit \/ WorkerNotify

\* The steps a client takes by itself once it has made a call.
ClientStep(c) == \/ SendEnd(c) \/ SendPush(c) \/ WaitAgain(c)
                 \/ QuitCheck(c) \/ QuitSleep(c)

ClientCall(c) == SendBegin(c) \/ WaitBegin(c) \/ Quit(c)

Next == \/ Worker \/ Tick \/ SpuriousWorker
        \/ Cancel \/ AddHandler \/ RemoveHandler
        \/ \E c \in Clients : ClientCall(c) \/ ClientStep(c) \/ SpuriousClient(c)

Spec == Init /\ [][Next]_vars

\* The threads are scheduled, a Handle call returns, time passes, and a call once
\* made goes on.  Nobody is obliged to make a call.  A thread that can take the mutex
\* again and again takes it at last: the strong fairness of the steps that lock.
Fairness == /\ SF_vars(Worker) /\ WF_vars(Tick)
            /\ \A c \in Clients : SF_vars(ClientStep(c))

FairSpec == Spec /\ Fairness

-----------------------------------------------------------------------------
(* Properties.                                                             *)

ListType ==
    /\ msg_seq \in Nat
    /\ lst_msg \subseteq 0 .. msg_seq - 1
    /\ msg \in [0 .. msg_seq - 1 -> Msg]
    /\ is_handling \subseteq lst_msg
    /\ cancelled \subseteq 0 .. msg_seq - 1
HandlerType == next_handler \in Nat /\ lst_handler \subseteq 0 .. next_handler - 1
ExitType == exit \in BOOLEAN /\ exit_done \in BOOLEAN /\ mutex \in {"free", "quit"}
WorkerType == /\ wpc \in WorkerPC /\ cur \in Nat /\ hcur \in Nat
              /\ wait_time \in Nat /\ deadline \in Nat
ClientType == /\ cpc \in [Clients -> ClientPC]
              /\ arg \in [Clients -> SendArg \cup WaitArg \cup {NoArg}]
HistType == /\ now \in Nat /\ ub \in {"none", "node", "traversal", "dispatch"}
            /\ handled \in Seq(Call)

\* Types; only a message that is still in the list is marked is_handling, and the
\* time computed for the next wait is never negative.
TypeOK == /\ ListType /\ HandlerType /\ ExitType
          /\ WorkerType /\ ClientType /\ HistType

\* No cancel function frees the message whose Handle call is running: unless
\* remove_handler took its handler away, the node the worker's iterator points to is
\* still in lst_msg when Handle returns.
RunningMsgKept == wpc = "handle" /\ msg[cur].handler \in lst_handler => cur \in lst_msg

SomeRemoved == \E h \in 0 .. next_handler - 1 : h \notin lst_handler

\* No pointer kept while the mutex is not held dangles unless a handler was removed: sends,
\* cancels, waits and added handlers never free the message the worker is in Handle with
\* (msgqueue.h 776-787) or a handler has_handler walks over (442-453).  The freed list node
\* that every erase reads at once (ub = "node") is another matter: it needs no removal.
KeptPointersNeedRemoval == ub \in {"traversal", "dispatch"} => SomeRemoved

\* A message is given to each of its handlers at most once, in the order of the list,
\* and no other message is handled in between.
HandledOnce ==
    \A i, j \in DOMAIN handled :
        i < j /\ handled[i].seq = handled[j].seq =>
            /\ handled[i].handler < handled[j].handler
            /\ \A k \in i .. j : handled[k].seq = handled[i].seq

\* The i-th call is the first for its message: the scan picked the message then.
Picked(i) == \A k \in 1 .. i - 1 : handled[k].seq # handled[i].seq

\* A message picked before an older one overtook it only because the older one was
\* not yet due: among messages that are due the queue is first in, first out.
NoOvertaking ==
    \A i, j \in DOMAIN handled :
        i < j /\ Picked(i) /\ handled[j].seq < handled[i].seq =>
            LET old == msg[handled[j].seq]
            IN  handled[i].at < old.rec + old.after

\* No message is handled before its delay is over.
DelayKept ==
    \A i \in DOMAIN handled :
        LET m == msg[handled[i].seq] IN handled[i].at >= m.rec + m.after

\* Messages are handled in the order in which they become due, and never early.
DueInOrder == NoOvertaking /\ DelayKept

\* The worker never sleeps for the idle time (ten minutes) while a message is in the
\* list: the notify of send_msg is not lost and no stale wait_time is slept.
NoIdleSleepOnWork == wpc = "wait" /\ lst_msg # {} => wait_time < IdleWait

\* Without cancels and removals, a client blocked in a wait function always has a
\* message in the list to wait for: the worker's notification is not missed.
NoLostDone ==
    Ops \cap {"cancel", "remove_handler"} = {} =>
        \A c \in Clients : cpc[c] = "blocked" => Awaited(arg[c]) # {}

\* A wait function returns only when no message it waits for is being handled (unless
\* the message's handler was removed under it).
WaitReturnMeansDone ==
    [][\A c \in Clients :
        cpc[c] = "woken" /\ cpc'[c] = "idle" =>
            ~ (wpc = "handle" /\ WaitsFor(arg[c], cur) /\ msg[cur].handler \in lst_handler)]_vars

\* Once quit has returned no Handle call is running, and none starts.
QuitStopsHandlers == (\E c \in Clients : cpc[c] = "returned") => wpc # "handle"

\* Every wait returns, where nothing is cancelled, unless the loop has ended (the messages
\* that quit leaves in the list are never done) or a freed node had been used again.
WaitersReturn ==
    \A c \in Clients :
        cpc[c] = "blocked" ~> (cpc[c] = "idle" \/ wpc = "stopped" \/ ub = "node")

\* The worker set exit_done and notified between _wait_exit's test and its wait.
LostWakeup ==
    wpc = "stopped" /\ exit_done /\ \E c \in Clients : cpc[c] \in {"qsleep", "qblocked"}

\* quit returns, but for the one window in which _wait_exit misses the notification
\* because the worker notifies without the mutex, and for a freed node used again.
QuitReturns ==
    exit ~> ((\E c \in Clients : cpc[c] = "returned") \/ LostWakeup \/ ub = "node")

\* The blocking calls return, whatever the worker is doing when they are made: the wait
\* functions (msgqueue.h 560-640) and quit (msgqueue.h 548-557, 789-791).
CallsReturn == WaitersReturn /\ QuitReturns

-----------------------------------------------------------------------------
(* The abstract queue that this one implements.                            *)

\* The list as TimerQueue sees it.
PendingMsgs ==
    [s \in lst_msg |-> [due |-> msg[s].rec + msg[s].after, handler |-> msg[s].handler]]

\* The message whose Handle call is running.
RunningMsg == IF wpc = "handle" THEN cur ELSE -1

Calls == [i \in DOMAIN handled |-> [seq |-> handled[i].seq, handler |-> handled[i].handler]]

Abstract == INSTANCE TimerQueue WITH
    issued <- msg_seq, pending <- PendingMsgs, running <- RunningMsg, calls <- Calls,
    handlers <- lst_handler, closing <- exit, now <- now, cancelled <- cancelled

\* Whatever the worker, the clients and the clock do is a step of the abstract queue or
\* changes nothing of it: a message leaves the list only by a client's cancel, with its
\* handler, or at its turn in due order, delivered unless its handler is gone or the queue
\* is quitting; none is delivered early, twice to a handler or cancelled while it runs.
ImplementsTimerQueue == Abstract!Spec

-----------------------------------------------------------------------------
(* The inductive invariant: what the invariants above need to be preserved *)
(* by every step.                                                          *)

\* A client in a call has that call's argument.
ArgOK ==
    \A c \in Clients : /\ cpc[c] \in SendPC => arg[c] \in SendArg
                       /\ cpc[c] \in WaitPC => arg[c] \in WaitArg

\* A message's handler was in the list when has_handler looked, so its id is one that
\* was handed out; the worker's iterators point to what once was in the lists.
HandlersKnown ==
    /\ \A s \in 0 .. msg_seq - 1 : msg[s].handler < next_handler
    /\ \A c \in Clients : cpc[c] \in SendPC =>
            /\ arg[c].seen => arg[c].m.handler < next_handler
            /\ cpc[c] = "push" => arg[c].m.handler < next_handler
            /\ cpc[c] = "torn" => SomeRemoved
    /\ wpc = "handle" => cur < msg_seq /\ hcur < next_handler

\* The running message, and no other, is marked is_handling.
RunningMarked ==
    /\ wpc = "handle" /\ msg[cur].handler \in lst_handler => cur \in is_handling
    /\ is_handling \subseteq (IF wpc = "handle" THEN {cur} ELSE {})

\* record_time is never in the future, and no delay is longer than the idle wait.
DelaysBounded ==
    /\ \A s \in 0 .. msg_seq - 1 : msg[s].after <= MaxNow /\ msg[s].rec <= now
    /\ \A c \in Clients : cpc[c] \in SendPC =>
            arg[c].m.after <= MaxNow /\ arg[c].m.rec <= now
    /\ wpc \in {"loop", "lock", "handle"} => wait_time < IdleWait

\* A message that has been handled and is still in the list is the one being handled,
\* and the last call is the one that is running.
HandledGone ==
    /\ \A i \in DOMAIN handled :
        /\ handled[i].seq < msg_seq /\ handled[i].at <= now
        /\ handled[i].seq \in lst_msg => wpc = "handle" /\ cur = handled[i].seq
    /\ wpc = "handle" =>
        /\ Len(handled) > 0
        /\ handled[Len(handled)].seq = cur
        /\ handled[Len(handled)].handler = hcur

\* A message older than one that was picked, and still in the list, was not due then.
OlderNotDue ==
    \A i \in DOMAIN handled : Picked(i) =>
        \A s \in lst_msg : s < handled[i].seq => handled[i].at < msg[s].rec + msg[s].after

\* quit's steps come after exit was set, and a worker past its lock is not done.
ExitOK ==
    /\ \A c \in Clients : /\ cpc[c] \in QuitPC => exit
                          /\ cpc[c] \in SendPC => (arg[c].quit => exit)
    /\ wpc \in {"wait", "woken", "handle"} => ~exit_done

Inductive ==
    /\ TypeOK /\ ArgOK /\ HandlersKnown /\ DelaysBounded /\ HandledGone /\ OlderNotDue
    /\ ExitOK /\ RunningMarked /\ KeptPointersNeedRemoval /\ HandledOnce /\ NoOvertaking
    /\ DelayKept /\ NoIdleSleepOnWork /\ NoLostDone /\ QuitStopsHandlers

=============================================================================
