--------------------------- MODULE MsgQueueWrapper ---------------------------
(***************************************************************************)
(* class MsgQueueWrapper of utils/msgqueue.cc: the owner of a MsgQueue and *)
(* of the thread that runs its loop.  Clients create the queue             *)
(* (init_msg_queue, or the first call that finds none), send, add and      *)
(* remove handlers, and tear it down (reset_msg_queue).                    *)
(*                                                                         *)
(* The wrapper's mutex is held by init and reset only; all other functions *)
(* read the pointer msg_queue without it, so every read of the pointer and *)
(* every use of the object behind it is an action of its own.  Of the      *)
(* MsgQueue itself (module MsgQueue) only exit, exit_done, the handler     *)
(* list and the message of quit are kept; its mutex is held across actions *)
(* only by _wait_exit, between its test and pthread_cond_wait.  A queue is *)
(* named by the order of its creation; 0 is NULL.  The use of an object    *)
(* that is not there stops the model: bad says which kind of use it was.   *)
(***************************************************************************)
EXTENDS Integers, FiniteSets

CONSTANTS
    Clients,    \* the threads that call the wrapper
    MaxResets,  \* bound: the number of reset_msg_queue calls
    MaxIds      \* bound: the number of ids taken from handler_seq

Nobody == "nobody"

ASSUME BoundsAssumption == MaxResets \in Nat /\ MaxIds \in Nat /\ Nobody \notin Clients

NULL == 0
DEFAULT_HANDLER_ID == 0
Queues == 1 .. (MaxResets + 1)

VARIABLES
    mutex,        \* who holds the wrapper's mutex, or Nobody
    msg_queue,    \* the pointer: a queue or NULL
    handler_seq,  \* the wrapper's counter of handler ids
    msg_thread,   \* the thread object: the queue it was started for, or NULL
    made, alive,  \* how many queues were created; those not deleted yet
    exit, exit_done, lst_handler,   \* the fields of every queue
    quitmsg,      \* the queues with the message of quit in their list
    tpc, tq,      \* the worker started for each queue: where it is, the pointer it has read
    cpc, cret,    \* each client: where it is, and where init_msg_queue returns to
    cq, cid,      \* the pointer and the handler id it has read
    bad,          \* "none", or the use of a queue that is not there
    resets,       \* how often reset_msg_queue was called
    settled,      \* history: the queues that were told to quit with their worker in the loop
    stripped      \* history: the queues of whose default handler a client took the messages

queueVars == <<made, alive, exit, exit_done, lst_handler, quitmsg>>
ptrVars == <<msg_queue, handler_seq, msg_thread>>
threadVars == <<tpc, tq>>
histVars == <<resets, settled, stripped>>
vars == <<mutex, ptrVars, queueVars, threadVars, cpc, cret, cq, cid, bad, histVars>>

Init ==
    /\ mutex = Nobody /\ msg_queue = NULL /\ msg_thread = NULL
    /\ handler_seq \in 0 .. MaxIds     \* the constructor does not initialise it
    /\ made = 0 /\ alive = {}
    /\ exit = [q \in Queues |-> FALSE] /\ exit_done = [q \in Queues |-> TRUE]
    /\ lst_handler = [q \in Queues |-> {}] /\ quitmsg = {}
    /\ tpc = [q \in Queues |-> "none"] /\ tq = [q \in Queues |-> NULL]
    /\ cpc = [c \in Clients |-> "idle"] /\ cret = [c \in Clients |-> "idle"]
    /\ cq = [c \in Clients |-> NULL] /\ cid = [c \in Clients |-> DEFAULT_HANDLER_ID]
    /\ bad = "none" /\ resets = 0
    /\ settled = {} /\ stripped = {}

Goto(c, pc) == cpc' = [cpc EXCEPT ![c] = pc]
\* A call on the queue returns; the caller's locals are gone.
Return(c) ==
    /\ Goto(c, "idle")
    /\ cret' = [cret EXCEPT ![c] = "idle"]
    /\ cq' = [cq EXCEPT ![c] = NULL]
    /\ cid' = [cid EXCEPT ![c] = DEFAULT_HANDLER_ID]

At(c, pc) == bad = "none" /\ cpc[c] = pc

\* The mutex of queue q can be taken.
CanLock(q) == msg_queue = q => \A c \in Clients : cpc[c] # "rsleep"

-----------------------------------------------------------------------------
(* init_msg_queue                                                          *)

\* if(msg_queue != NULL) ... else init_msg_queue(): the unlocked check at the head of
\* send_msg, new_handlerid and add_handler, which then goes on at pc.
CheckPointer(c, pc) ==
    /\ cq' = [cq EXCEPT ![c] = msg_queue]
    /\ cret' = [cret EXCEPT ![c] = pc]
    /\ Goto(c, IF msg_queue = NULL THEN "lock" ELSE pc)

\* What msg_queue-> uses after the check: the pointer is not volatile, so the build may
\* reuse the copy it checked or load it again.  After init_msg_queue it is loaded again.
Used(c) == IF cq[c] = NULL THEN {msg_queue} ELSE {cq[c], msg_queue}

CallInit(c) ==
    /\ At(c, "idle")
    /\ Goto(c, "lock") /\ cret' = [cret EXCEPT ![c] = "idle"]
    /\ UNCHANGED <<mutex, ptrVars, queueVars, threadVars, cq, cid, bad, histVars>>

InitLock(c) ==
    /\ At(c, "lock") /\ mutex = Nobody
    /\ mutex' = c
    /\ Goto(c, IF msg_queue = NULL THEN "new" ELSE "thread")
    /\ UNCHANGED <<ptrVars, queueVars, threadVars, cret, cq, cid, bad, histVars>>

\* msg_queue = new MsgQueue: from here on every other thread sees the pointer.
InitNew(c) ==
    /\ At(c, "new") /\ Goto(c, "seq")
    /\ made' = made + 1
    /\ alive' = alive \cup {made + 1}
    /\ msg_queue' = made + 1
    /\ UNCHANGED <<mutex, handler_seq, msg_thread, exit, exit_done, lst_handler, quitmsg,
                   threadVars, cret, cq, cid, bad, histVars>>

InitSeq(c) ==
    /\ At(c, "seq") /\ Goto(c, "handler")
    /\ handler_seq' = 1
    /\ UNCHANGED <<mutex, msg_queue, msg_thread, queueVars, threadVars, cret, cq, cid, bad,
                   histVars>>

InitHandler(c) ==
    /\ At(c, "handler") /\ Goto(c, "thread")
    /\ lst_handler' = [lst_handler EXCEPT ![msg_queue] = @ \cup {DEFAULT_HANDLER_ID}]
    /\ UNCHANGED <<mutex, ptrVars, made, alive, exit, exit_done, quitmsg, threadVars, cret,
                   cq, cid, bad, histVars>>

\* new Thread and start, unless there is a thread; then the mutex is released.
InitThread(c) ==
    /\ At(c, "thread") /\ Goto(c, cret[c])
    /\ mutex' = Nobody
    /\ \/ /\ msg_thread = NULL
          /\ msg_thread' = made
          /\ tpc' = [tpc EXCEPT ![made] = "check"]
       \/ /\ msg_thread # NULL
          /\ UNCHANGED <<msg_thread, tpc>>
    /\ UNCHANGED <<msg_queue, handler_seq, queueVars, tq, cret, cq, cid, bad, histVars>>

-----------------------------------------------------------------------------
(* send_msg, add_handler, and the calls that only look                     *)

CallSend(c) ==
    /\ At(c, "idle") /\ CheckPointer(c, "use")
    /\ UNCHANGED <<mutex, ptrVars, queueVars, threadVars, cid, bad, histVars>>

\* cancel_msg, cancel_msg_seq, wait_done, wait_done_by_seq, remove_handler: no queue, no
\* effect.
CallOther(c) ==
    /\ At(c, "idle") /\ msg_queue # NULL
    /\ CheckPointer(c, "use")
    /\ UNCHANGED <<mutex, ptrVars, queueVars, threadVars, cid, bad, histVars>>

\* remove_handler(id): the handler's messages go with it, for the default handler that
\* of quit.
Remove(q, id) ==
    /\ lst_handler' = [lst_handler EXCEPT ![q] = @ \ {id}]
    /\ quitmsg' = IF id = DEFAULT_HANDLER_ID THEN quitmsg \ {q} ELSE quitmsg
    /\ stripped' = IF id = DEFAULT_HANDLER_ID THEN stripped \cup {q} ELSE stripped

\* A cancel of the default handler's messages takes that of quit too.
Cancel(q) ==
    /\ q \in quitmsg /\ quitmsg' = quitmsg \ {q}
    /\ stripped' = stripped \cup {q}
    /\ UNCHANGED lst_handler

\* The call on the queue itself, and what it changes of what is kept of it here.
Use(c) ==
    /\ At(c, "use") /\ Return(c)
    /\ \E q \in Used(c) :
        \/ /\ q \notin alive
           /\ bad' = "client"
           /\ UNCHANGED <<lst_handler, quitmsg, stripped>>
        \/ /\ q \in alive /\ CanLock(q)
           /\ \/ \E id \in lst_handler[q] : Remove(q, id)
              \/ Cancel(q)
              \/ UNCHANGED <<lst_handler, quitmsg, stripped>>
           /\ UNCHANGED bad
    /\ UNCHANGED <<mutex, ptrVars, made, alive, exit, exit_done, threadVars, resets, settled>>

CallAdd(c) ==
    /\ At(c, "idle") /\ CheckPointer(c, "id")
    /\ UNCHANGED <<mutex, ptrVars, queueVars, threadVars, cid, bad, histVars>>

\* atomic_inc32 of handler_seq returns the old value; then add_handler checks the pointer.
NewHandlerId(c) ==
    /\ At(c, "id") /\ handler_seq < MaxIds
    /\ cid' = [cid EXCEPT ![c] = handler_seq]
    /\ handler_seq' = handler_seq + 1
    /\ CheckPointer(c, "add")
    /\ UNCHANGED <<mutex, msg_queue, msg_thread, queueVars, threadVars, bad, histVars>>

\* MsgQueue::add_handler drops a handler whose id is in the list already.
AddHandler(c) ==
    /\ At(c, "add") /\ Return(c)
    /\ \E q \in Used(c) :
        \/ /\ q \notin alive
           /\ bad' = "client"
           /\ UNCHANGED lst_handler
        \/ /\ q \in alive /\ CanLock(q)
           /\ lst_handler' = [lst_handler EXCEPT ![q] = @ \cup {cid[c]}]
           /\ UNCHANGED bad
    /\ UNCHANGED <<mutex, ptrVars, made, alive, exit, exit_done, quitmsg, threadVars, histVars>>

-----------------------------------------------------------------------------
(* reset_msg_queue                                                         *)

CallReset(c) ==
    /\ At(c, "idle") /\ Goto(c, "rlock")
    /\ resets < MaxResets /\ resets' = resets + 1
    /\ UNCHANGED <<mutex, ptrVars, queueVars, threadVars, cret, cq, cid, bad, settled,
                   stripped>>

ResetLock(c) ==
    /\ At(c, "rlock") /\ mutex = Nobody
    /\ mutex' = c
    /\ Goto(c, IF msg_queue = NULL THEN "rjoin" ELSE "rquit")
    /\ UNCHANGED <<ptrVars, queueVars, threadVars, cret, cq, cid, bad, histVars>>

\* MsgQueue::quit: exit is set,
ResetQuit(c) ==
    /\ At(c, "rquit") /\ Goto(c, "rsend")
    /\ exit' = [exit EXCEPT ![msg_queue] = TRUE]
    /\ settled' = IF exit_done[msg_queue] THEN settled ELSE settled \cup {msg_queue}
    /\ UNCHANGED <<mutex, ptrVars, made, alive, exit_done, lst_handler, quitmsg, threadVars,
                   cret, cq, cid, bad, resets, stripped>>

\* and a message is sent to the default handler, which send_msg refuses if it is gone.
ResetSend(c) ==
    /\ At(c, "rsend") /\ Goto(c, "rwait")
    /\ \/ /\ DEFAULT_HANDLER_ID \in lst_handler[msg_queue]
          /\ quitmsg' = quitmsg \cup {msg_queue}
       \/ /\ DEFAULT_HANDLER_ID \notin lst_handler[msg_queue]
          /\ UNCHANGED quitmsg
    /\ UNCHANGED <<mutex, ptrVars, made, alive, exit, exit_done, lst_handler, threadVars,
                   cret, cq, cid, bad, histVars>>

\* Mutant: quit that does not wait for the loop to end.
ResetNoWait(c) ==
    /\ At(c, "rwait") /\ Goto(c, "rdelete")
    /\ UNCHANGED <<mutex, ptrVars, queueVars, threadVars, cret, cq, cid, bad, histVars>>

\* MsgQueue::_wait_exit: its test, under the queue's mutex, on entry and after each wait.
\* While the worker has not entered the loop exit_done is still true.
ResetWait(c) ==
    /\ At(c, "rwait")
    /\ Goto(c, IF exit_done[msg_queue] THEN "rdelete" ELSE "rsleep")
    /\ UNCHANGED <<mutex, ptrVars, queueVars, threadVars, cret, cq, cid, bad, histVars>>

\* pthread_cond_wait puts the client to sleep and releases the queue's mutex.
ResetSleep(c) ==
    /\ At(c, "rsleep") /\ Goto(c, "rblocked")
    /\ UNCHANGED <<mutex, ptrVars, queueVars, threadVars, cret, cq, cid, bad, histVars>>

\* A wakeup POSIX allows without a notification.
ResetSpurious(c) ==
    /\ At(c, "rblocked") /\ Goto(c, "rwait")
    /\ UNCHANGED <<mutex, ptrVars, queueVars, threadVars, cret, cq, cid, bad, histVars>>

ResetDelete(c) ==
    /\ At(c, "rdelete") /\ Goto(c, "rnull")
    /\ alive' = alive \ {msg_queue}
    /\ lst_handler' = [lst_handler EXCEPT ![msg_queue] = {}]
    /\ quitmsg' = quitmsg \ {msg_queue}
    /\ UNCHANGED <<mutex, ptrVars, made, exit, exit_done, threadVars, cret, cq, cid, bad,
                   histVars>>

ResetNull(c) ==
    /\ At(c, "rnull") /\ Goto(c, "rjoin")
    /\ msg_queue' = NULL
    /\ UNCHANGED <<mutex, handler_seq, msg_thread, queueVars, threadVars, cret, cq, cid, bad,
                   histVars>>

\* Mutant: reset_msg_queue that deletes the thread object without a join.
NeverJoined == TRUE

\* msg_thread->join() and delete, if there is a thread.
Joined == \A w \in {msg_thread} \ {NULL} : tpc[w] = "end"

ResetJoin(c) ==
    /\ At(c, "rjoin") /\ Goto(c, "idle")
    /\ Joined
    /\ msg_thread' = NULL
    /\ mutex' = Nobody
    /\ UNCHANGED <<msg_queue, handler_seq, queueVars, threadVars, cret, cq, cid, bad, histVars>>

-----------------------------------------------------------------------------
(* The worker: msg_thread_loop and, of enter_timer_loop, the accesses that *)
(* need the queue to be there.                                             *)

TAt(w, pc) == bad = "none" /\ tpc[w] = pc
TGoto(w, pc) == tpc' = [tpc EXCEPT ![w] = pc]

\* The worker goes on to pc if its queue is there; if not, the use is recorded.
Access(w, pc, kind) ==
    \/ tq[w] \in alive /\ TGoto(w, pc) /\ UNCHANGED bad
    \/ tq[w] \notin alive /\ bad' = kind /\ UNCHANGED tpc

ThreadCheck(w) ==
    /\ TAt(w, "check")
    /\ tq' = [tq EXCEPT ![w] = msg_queue]
    /\ TGoto(w, IF msg_queue = NULL THEN "end" ELSE "enter")
    /\ UNCHANGED <<mutex, ptrVars, queueVars, cpc, cret, cq, cid, bad, histVars>>

\* msg_queue->enter_timer_loop(): the checked copy, or the pointer loaded again.
ThreadEnter(w) ==
    /\ TAt(w, "enter")
    /\ \E q \in {tq[w], msg_queue} : tq' = [tq EXCEPT ![w] = q]
    /\ TGoto(w, "while")
    /\ UNCHANGED <<mutex, ptrVars, queueVars, cpc, cret, cq, cid, bad, histVars>>

\* while(!exit)
ThreadWhile(w) ==
    /\ TAt(w, "while")
    /\ Access(w, IF exit[tq[w]] THEN "done" ELSE "lock", "read")
    /\ UNCHANGED <<mutex, ptrVars, queueVars, tq, cpc, cret, cq, cid, histVars>>

\* mutex.lock(); exit_done = false
ThreadLock(w) ==
    /\ TAt(w, "lock") /\ CanLock(tq[w])
    /\ Access(w, "loop", "lock")
    /\ exit_done' = [exit_done EXCEPT ![tq[w]] = FALSE]
    /\ UNCHANGED <<mutex, ptrVars, made, alive, exit, lst_handler, quitmsg, tq, cpc, cret, cq, cid,
                   histVars>>

\* done_cond.notifyAll of queue q: who sleeps in its _wait_exit tests again.
Notified(q) ==
    [c \in Clients |-> IF cpc[c] = "rblocked" /\ msg_queue = q THEN "rwait" ELSE cpc[c]]

\* A message is waited for; it is handled and notified, or not due yet; mutex.unlock().
ThreadLoop(w) ==
    /\ TAt(w, "loop") /\ CanLock(tq[w])
    /\ Access(w, "while", "lock")
    /\ cpc' \in {cpc, Notified(tq[w])}
    /\ UNCHANGED <<mutex, ptrVars, queueVars, tq, cret, cq, cid, histVars>>

\* Mutant: a loop that ends without exit_done = true.
DoneForgotten(w) ==
    /\ TAt(w, "done")
    /\ Access(w, "notify", "read")
    /\ UNCHANGED <<mutex, ptrVars, queueVars, tq, cpc, cret, cq, cid, histVars>>

\* exit_done = true, without the queue's mutex
ThreadDone(w) ==
    /\ TAt(w, "done")
    /\ Access(w, "notify", "read")
    /\ exit_done' = [exit_done EXCEPT ![tq[w]] = TRUE]
    /\ UNCHANGED <<mutex, ptrVars, made, alive, exit, lst_handler, quitmsg, tq, cpc, cret,
                   cq, cid, histVars>>

\* notify_msg_done(), without it too: whoever is about to sleep is not woken.
ThreadNotify(w) ==
    /\ TAt(w, "notify")
    /\ Access(w, "end", "notify")
    /\ cpc' = Notified(tq[w])
    /\ UNCHANGED <<mutex, ptrVars, queueVars, tq, cret, cq, cid, histVars>>

-----------------------------------------------------------------------------
InitStep(c) ==
    InitLock(c) \/ InitNew(c) \/ InitSeq(c) \/ InitHandler(c) \/ InitThread(c)

ResetStep(c) ==
    \/ ResetLock(c) \/ ResetQuit(c) \/ ResetSend(c) \/ ResetWait(c) \/ ResetSleep(c)
    \/ ResetDelete(c) \/ ResetNull(c) \/ ResetJoin(c)

Call(c) ==
    CallInit(c) \/ CallSend(c) \/ CallOther(c) \/ CallAdd(c) \/ CallReset(c)

ClientStep(c) ==
    InitStep(c) \/ ResetStep(c) \/ Use(c) \/ NewHandlerId(c) \/ AddHandler(c)

Worker(w) ==
    \/ ThreadCheck(w) \/ ThreadEnter(w) \/ ThreadWhile(w) \/ ThreadLock(w) \/ ThreadLoop(w)
    \/ ThreadDone(w) \/ ThreadNotify(w)

Step(c) == Call(c) \/ ClientStep(c) \/ ResetSpurious(c)

Next ==
    \/ \E c \in Clients : Step(c)
    \/ \E w \in Queues : Worker(w)

Spec == Init /\ [][Next]_vars

\* A worker in its loop finds the message of quit in the list, or the list is gone and
\* anything is found there.
Woken(q) == q \in quitmsg \/ q \notin alive

\* A worker in the loop goes on once quit has sent it a message (module MsgQueue); the
\* other steps are those of running threads, and a mutex that is released again and again
\* is obtained in the end.  Nobody has to be woken without a notification.
FairSpec ==
    /\ Spec
    /\ \A w \in Queues : SF_vars(Worker(w) /\ (tpc[w] = "loop" => Woken(tq[w])))
    /\ \A c \in Clients : SF_vars(ClientStep(c))

-----------------------------------------------------------------------------
(* Properties                                                              *)

ClientPCs == {"idle", "lock", "new", "seq", "handler", "thread", "use", "id", "add",
              "rlock", "rquit", "rsend", "rwait", "rsleep", "rblocked", "rdelete", "rnull",
              "rjoin"}
ThreadPCs == {"none", "check", "enter", "while", "lock", "loop", "done", "notify", "end"}
Ids == 0 .. MaxIds

\* Every variable keeps to its type; in particular no more queues are created than
\* reset_msg_queue made room for.
TypeOK ==
    /\ mutex \in Clients \cup {Nobody}
    /\ msg_queue \in Queues \cup {NULL} /\ msg_thread \in Queues \cup {NULL}
    /\ handler_seq \in 0 .. (MaxIds + 1)
    /\ made \in 0 .. (MaxResets + 1) /\ alive \subseteq 1 .. made
    /\ exit \in [Queues -> BOOLEAN] /\ exit_done \in [Queues -> BOOLEAN]
    /\ lst_handler \in [Queues -> SUBSET Ids] /\ quitmsg \subseteq Queues
    /\ tpc \in [Queues -> ThreadPCs] /\ tq \in [Queues -> Queues \cup {NULL}]
    /\ cpc \in [Clients -> ClientPCs] /\ cret \in [Clients -> {"idle", "use", "id", "add"}]
    /\ cq \in [Clients -> Queues \cup {NULL}] /\ cid \in [Clients -> Ids]
    /\ bad \in {"none", "client", "read", "lock", "notify"}
    /\ resets \in 0 .. MaxResets
    /\ settled \subseteq Queues /\ stripped \subseteq Queues

Running == {w \in Queues : tpc[w] \notin {"none", "end"}}

\* There is never more than one worker, and none that the wrapper does not own: the join
\* in reset_msg_queue is under the same mutex as the start in init_msg_queue.
OneWorker == Running \subseteq {msg_thread}

\* A worker that had locked its queue before reset_msg_queue told it to quit never touches
\* the queue's fields or mutex after the delete (its last notify may).
SettledWorkerSafe ==
    bad \in {"read", "lock"} => \E w \in Running : tq[w] \notin settled

\* The worker set exit_done and notified between _wait_exit's test and its wait.
LostWakeup(c) ==
    /\ cpc[c] \in {"rsleep", "rblocked"}
    /\ exit_done[msg_queue] /\ tpc[msg_thread] = "end"

\* reset_msg_queue (msgqueue.cc 90-104) returns, unless a queue that is not there is used
\* first, the unlocked notification of the ending worker is missed (msgqueue.h 789-800), or
\* a client has removed the default handler or cancelled its messages, so that quit's message
\* is refused (302-305) or deleted and the worker sleeps on.
ResetReturns ==
    \A c \in Clients :
        cpc[c] = "rlock" ~> \/ cpc[c] = "idle" \/ bad # "none"
                            \/ (\E d \in Clients : LostWakeup(d)) \/ msg_queue \in stripped
=============================================================================
