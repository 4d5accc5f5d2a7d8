-------------------------- MODULE ThreadOwnerProofs --------------------------
(***************************************************************************)
(* The invariants of the two classes that own a thread, tell it to end and *)
(* join it: MsgQueueWrapper, whose module is extended, and TcpServer,      *)
(* whose module is instantiated with variables of its own.  They hold for  *)
(* any clients, users, faults and bounds.                                  *)
(***************************************************************************)
EXTENDS MsgQueueWrapper, TcpServerState, FiniteSetTheorems, TLAPS

-----------------------------------------------------------------------------
(* MsgQueueWrapper.                                                        *)

\* The values of the variables that say who is where and which queues there are.
OwnType ==
    /\ made \in Nat /\ resets \in 0 .. MaxResets /\ msg_queue \in Nat /\ alive \subseteq 1 .. made
    /\ exit_done \in [Queues -> BOOLEAN]
    /\ tpc \in [Queues -> ThreadPCs] /\ tq \in [Queues -> Nat]
    /\ cpc \in [Clients -> ClientPCs] /\ cret \in [Clients -> {"idle", "use", "id", "add"}]

\* Where reset_msg_queue is in quit, behind the assignment of exit.
Waiting == {"rsend", "rwait", "rsleep", "rblocked"}
Waits(c) == ResetSend(c) \/ ResetWait(c) \/ ResetSleep(c) \/ ResetSpurious(c)

\* Where a client holds the wrapper's mutex.
Holding == {"new", "seq", "handler", "thread", "rquit", "rdelete", "rnull", "rjoin"} \cup Waiting
MutexHeld == \A c \in Clients : cpc[c] \in Holding => mutex = c

\* The clients whose reset may still clear the pointer.
ResetPCs == {"rlock", "rquit", "rdelete", "rnull"} \cup Waiting
Resetting == {c \in Clients : cpc[c] \in ResetPCs}

\* A queue is made only where a reset has cleared the pointer, so there is a number for it.
Numbered == /\ IsFiniteSet(Resetting)
            /\ made + Cardinality(Resetting) <= resets + (IF msg_queue = NULL THEN 0 ELSE 1)

\* The pointer is NULL or the last queue, which is the only one that is there; it dangles only
\* between the delete and the assignment behind it.
Pointer ==
    /\ msg_queue # NULL => msg_queue = made
    /\ alive \subseteq {msg_queue}
    /\ msg_queue = NULL \/ msg_queue \in alive \/ \E c \in Clients : cpc[c] = "rnull"
    /\ \A c \in Clients :
        /\ cpc[c] \in {"new", "rjoin"} => msg_queue = NULL
        /\ cpc[c] \in {"seq", "handler", "thread", "rquit", "rdelete", "rnull"} \cup Waiting =>
               msg_queue # NULL
        /\ cpc[c] = "rnull" => alive = {}

InLoop == {"while", "lock", "loop", "done"}

\* exit_done is false only while a worker is in the loop.
LoopEntered == \A q \in Queues : ~exit_done[q] => \E w \in Queues : tq[w] = q /\ tpc[w] \in InLoop

\* A reset waits for the end of the queue's loop.
Awaited(q) == msg_queue = q /\ ~exit_done[q] /\ \E c \in Clients : cpc[c] \in Waiting

\* The loop has ended, and no worker can get hold of the queue any more: while the pointer still
\* names it, the only worker is at its last notify.
Left(q) ==
    /\ exit_done[q]
    /\ \A w \in Running : tq[w] = q => tpc[w] \in {"check", "notify"}
    /\ msg_queue = q => /\ \E c \in Clients : cpc[c] \in {"rdelete", "rnull"} \cup Waiting
                        /\ \A w \in Running : tpc[w] = "notify"

SettledLeft == settled \subseteq 1 .. made /\ \A q \in settled : Awaited(q) \/ Left(q)

Inductive == /\ OwnType /\ MutexHeld /\ Numbered /\ Pointer /\ OneWorker /\ LoopEntered
             /\ SettledLeft /\ SettledWorkerSafe

\* A notification moves a client from one place of its wait to another.
SamePlaces ==
    /\ cpc' \in [Clients -> ClientPCs]
    /\ \A c \in Clients : cpc'[c] = cpc[c] \/ (cpc[c] = "rblocked" /\ cpc'[c] = "rwait")

\* There is no queue and no worker at first.
LEMMA InductiveInit == Init => Inductive
<1>. SUFFICES ASSUME Init PROVE Inductive
  OBVIOUS
<1>1. OwnType
  <2>1. exit_done \in [Queues -> BOOLEAN]
    BY DEF Init
  <2>. QED
    BY <2>1, BoundsAssumption DEF Init, OwnType, ClientPCs, ThreadPCs, NULL
<1>2. Numbered
  <2>1. Resetting = {}
    BY DEF Init, Resetting, ResetPCs, Waiting
  <2>. QED
    BY <2>1, FS_EmptySet DEF Init, Numbered
<1>3. MutexHeld /\ Pointer /\ OneWorker /\ LoopEntered /\ SettledLeft /\ SettledWorkerSafe
  BY DEF Init, MutexHeld, Holding, Waiting, Pointer, OneWorker, Running, LoopEntered, SettledLeft,
         SettledWorkerSafe
<1>. QED
  BY <1>1, <1>2, <1>3 DEF Inductive

\* Nothing moves once a queue that is not there was used, and a client's step changes its own
\* place only.
LEMMA ClientMoves ==
  ASSUME NEW c \in Clients, Step(c)
  PROVE  bad = "none" /\ \E pc : cpc' = [cpc EXCEPT ![c] = pc]
BY DEF Step, Call, ClientStep, InitStep, ResetStep, At, Goto, Return, CheckPointer, CallInit,
       CallSend, CallOther, CallAdd, CallReset, InitLock, InitNew, InitSeq, InitHandler, InitThread,
       ResetLock, ResetQuit, Waits, ResetSend, ResetWait, ResetSleep, ResetSpurious, ResetDelete,
       ResetNull, ResetJoin, Use, NewHandlerId, AddHandler

\* A worker moves nobody but those it wakes.
LEMMA WorkerPlaces ==
  ASSUME cpc \in [Clients -> ClientPCs], NEW w \in Queues, Worker(w)
  PROVE  SamePlaces /\ UNCHANGED cret
<1>1. cpc' \in {cpc, Notified(tq[w])} /\ UNCHANGED cret
  BY DEF Worker, ThreadCheck, ThreadEnter, ThreadWhile, ThreadLock, ThreadLoop, ThreadDone,
         ThreadNotify
<1>2. ASSUME NEW q PROVE /\ Notified(q) \in [Clients -> ClientPCs]
                         /\ \A c \in Clients : \/ Notified(q)[c] = cpc[c]
                                               \/ cpc[c] = "rblocked" /\ Notified(q)[c] = "rwait"
  BY DEF Notified, ClientPCs
<1>. QED
  BY <1>1, <1>2 DEF SamePlaces

\* Every step keeps the types.
LEMMA TypeStep == Inductive /\ Next => OwnType'
<1>. SUFFICES ASSUME Inductive, Next PROVE OwnType'
  OBVIOUS
<1>t. OwnType
  BY DEF Inductive
<1>. USE DEF At, Goto, Return, CheckPointer, ptrVars, queueVars, threadVars, histVars
<1>1. cpc' \in [Clients -> ClientPCs] /\ cret' \in [Clients -> {"idle", "use", "id", "add"}]
  <2>0. cpc \in [Clients -> ClientPCs] /\ cret \in [Clients -> {"idle", "use", "id", "add"}]
    BY <1>t DEF OwnType
  <2>1. ASSUME NEW c \in Clients, Step(c)
        PROVE  cpc' \in [Clients -> ClientPCs] /\ cret' \in [Clients -> {"idle", "use", "id", "add"}]
    <3>. USE DEF ClientPCs
    <3>1. CASE Call(c)
      BY <2>0, <3>1 DEF Call, CallInit, CallSend, CallOther, CallAdd, CallReset
    <3>2. CASE InitStep(c)
      BY <2>0, <3>2 DEF InitStep, InitLock, InitNew, InitSeq, InitHandler, InitThread
    <3>3. CASE ResetStep(c)
      BY <2>0, <3>3 DEF ResetStep, ResetLock, ResetQuit, Waits, ResetSend, ResetWait, ResetSleep,
                        ResetSpurious, ResetDelete, ResetNull, ResetJoin
    <3>4. CASE Use(c) \/ NewHandlerId(c) \/ AddHandler(c)
      BY <2>0, <3>4 DEF Use, NewHandlerId, AddHandler
    <3>5. CASE ResetSpurious(c)
      BY <2>0, <3>5 DEF ResetSpurious
    <3>. QED
      BY <2>1, <3>1, <3>2, <3>3, <3>4, <3>5 DEF Step, ClientStep
  <2>2. ASSUME NEW w \in Queues, Worker(w) PROVE SamePlaces /\ UNCHANGED cret
    BY <2>0, <2>2, WorkerPlaces
  <2>. QED
    BY <2>0, <2>1, <2>2 DEF Next, SamePlaces
<1>2. tpc' \in [Queues -> ThreadPCs] /\ tq' \in [Queues -> Nat]
  <2>0. tpc \in [Queues -> ThreadPCs] /\ tq \in [Queues -> Nat] /\ msg_queue \in Nat
    BY <1>t DEF OwnType
  <2>1. ASSUME NEW c \in Clients, InitThread(c)
        PROVE  tpc' \in [Queues -> ThreadPCs] /\ tq' \in [Queues -> Nat]
    BY <2>0, <2>1 DEF InitThread, ThreadPCs
  <2>2. ASSUME NEW c \in Clients, Step(c), ~InitThread(c) PROVE UNCHANGED <<tpc, tq>>
    BY <2>2 DEF Step, Call, ClientStep, InitStep, ResetStep, CallInit, CallSend, CallOther, CallAdd,
                CallReset, InitLock, InitNew, InitSeq, InitHandler, ResetLock, ResetQuit, Waits,
                ResetSend, ResetWait, ResetSleep, ResetSpurious, ResetDelete, ResetNull, ResetJoin,
                Use, NewHandlerId, AddHandler
  <2>3. ASSUME NEW w \in Queues, Worker(w)
        PROVE  tpc' \in [Queues -> ThreadPCs] /\ tq' \in [Queues -> Nat]
    BY <2>0, <2>3 DEF Worker, ThreadCheck, ThreadEnter, ThreadWhile, ThreadLock, ThreadLoop,
                      ThreadDone, ThreadNotify, Access, TGoto, ThreadPCs
  <2>. QED
    BY <2>0, <2>1, <2>2, <2>3 DEF Next
<1>3. exit_done' \in [Queues -> BOOLEAN]
  <2>0. exit_done \in [Queues -> BOOLEAN]
    BY <1>t DEF OwnType
  <2>1. ASSUME NEW w \in Queues, ThreadLock(w) PROVE exit_done' \in [Queues -> BOOLEAN]
    BY <2>0, <2>1 DEF ThreadLock
  <2>2. ASSUME NEW w \in Queues, ThreadDone(w) PROVE exit_done' \in [Queues -> BOOLEAN]
    BY <2>0, <2>2 DEF ThreadDone
  <2>3. ASSUME NEW w \in Queues, Worker(w), ~ThreadLock(w), ~ThreadDone(w) PROVE exit_done' = exit_done
    BY <2>3 DEF Worker, ThreadCheck, ThreadEnter, ThreadWhile, ThreadLoop, ThreadNotify
  <2>4. ASSUME NEW c \in Clients, Step(c) PROVE exit_done' = exit_done
    BY <2>4 DEF Step, Call, ClientStep, InitStep, ResetStep, CallInit, CallSend, CallOther, CallAdd,
                CallReset, InitLock, InitNew, InitSeq, InitHandler, InitThread, ResetLock,
                ResetQuit, Waits, ResetSend, ResetWait, ResetSleep, ResetSpurious, ResetDelete,
                ResetNull, ResetJoin, Use, NewHandlerId, AddHandler
  <2>. QED
    BY <2>0, <2>1, <2>2, <2>3, <2>4 DEF Next
<1>4. /\ made' \in Nat /\ resets' \in 0 .. MaxResets /\ msg_queue' \in Nat /\ alive' \subseteq 1 .. made'
  <2>0. /\ made \in Nat /\ resets \in 0 .. MaxResets /\ msg_queue \in Nat /\ alive \subseteq 1 .. made
    BY <1>t DEF OwnType
  <2>1. ASSUME NEW c \in Clients, InitNew(c)
        PROVE  made' \in Nat /\ resets' = resets /\ msg_queue' \in Nat /\ alive' \subseteq 1 .. made'
    BY <2>0, <2>1 DEF InitNew
  <2>2. ASSUME NEW c \in Clients, CallReset(c)
        PROVE  resets' \in 0 .. MaxResets /\ UNCHANGED <<made, msg_queue, alive>>
    BY <2>0, <2>2, BoundsAssumption DEF CallReset
  <2>3. ASSUME NEW c \in Clients, ResetDelete(c) \/ ResetNull(c)
        PROVE  /\ UNCHANGED <<made, resets>> /\ alive' \subseteq alive /\ msg_queue' \in {NULL, msg_queue}
    BY <2>3 DEF ResetDelete, ResetNull
  <2>4. ASSUME NEW c \in Clients, Step(c), ~InitNew(c), ~CallReset(c), ~ResetDelete(c),
               ~ResetNull(c)
        PROVE  UNCHANGED <<made, resets, msg_queue, alive>>
    BY <2>4 DEF Step, Call, ClientStep, InitStep, ResetStep, CallInit, CallSend, CallOther, CallAdd,
                InitLock, InitSeq, InitHandler, InitThread, ResetLock, ResetQuit, Waits, ResetSend,
                ResetWait, ResetSleep, ResetSpurious, ResetJoin, Use, NewHandlerId, AddHandler
  <2>5. ASSUME NEW w \in Queues, Worker(w) PROVE UNCHANGED <<made, resets, msg_queue, alive>>
    BY <2>5 DEF Worker, ThreadCheck, ThreadEnter, ThreadWhile, ThreadLock, ThreadLoop, ThreadDone,
                ThreadNotify
  <2>6. CASE \E c \in Clients : InitNew(c)
    BY <2>0, <2>1, <2>6
  <2>7. CASE \E c \in Clients : CallReset(c)
    <3>1. resets' \in 0 .. MaxResets /\ UNCHANGED <<made, msg_queue, alive>>
      BY <2>2, <2>7
    <3>2. alive' \subseteq 1 .. made'
      BY <2>0, <3>1
    <3>. QED
      BY <2>0, <3>1, <3>2
  <2>8. CASE \E c \in Clients : ResetDelete(c) \/ ResetNull(c)
    <3>1. UNCHANGED <<made, resets>> /\ alive' \subseteq alive /\ msg_queue' \in {NULL, msg_queue}
      BY <2>3, <2>8
    <3>2. alive' \subseteq 1 .. made'
      BY <2>0, <3>1
    <3>. QED
      BY <2>0, <3>1, <3>2 DEF NULL
  <2>9. CASE \/ \E w \in Queues : Worker(w)
             \/ \E c \in Clients : /\ Step(c)
                                   /\ ~InitNew(c) /\ ~CallReset(c) /\ ~ResetDelete(c) /\ ~ResetNull(c)
    <3>1. UNCHANGED <<made, resets, msg_queue, alive>>
      BY <2>4, <2>5, <2>9
    <3>. QED
      BY <2>0, <3>1
  <2>. QED
    BY <2>6, <2>7, <2>8, <2>9 DEF Next
<1>. QED
  BY <1>1, <1>2, <1>3, <1>4 DEF OwnType

\* Only one client is in a section of the wrapper's mutex.
LEMMA OneHolder ==
  ASSUME MutexHeld, NEW c \in Clients, cpc[c] \in Holding
  PROVE  mutex = c /\ \A d \in Clients \ {c} : cpc[d] \notin Holding
BY DEF MutexHeld

\* A client takes the mutex only when it is free.
LEMMA MutexStep == Inductive /\ Next => MutexHeld'
<1>. SUFFICES ASSUME Inductive, Next PROVE MutexHeld'
  OBVIOUS
<1>t. MutexHeld /\ cpc \in [Clients -> ClientPCs] /\ cret \in [Clients -> {"idle", "use", "id", "add"}]
  BY DEF Inductive, OwnType
<1>. USE DEF At, Goto, Return, CheckPointer, Holding, Waiting
<1>1. ASSUME NEW c \in Clients,
             \/ Call(c) \/ Use(c) \/ NewHandlerId(c) \/ AddHandler(c)
             \/ InitNew(c) \/ InitSeq(c) \/ InitHandler(c)
             \/ ResetQuit(c) \/ Waits(c) \/ ResetDelete(c) \/ ResetNull(c)
      PROVE  /\ mutex' = mutex /\ (cpc'[c] \in Holding => cpc[c] \in Holding)
             /\ \A d \in Clients \ {c} : cpc'[d] = cpc[d]
  <2>1. mutex' = mutex
    BY <1>1 DEF Call, CallInit, CallSend, CallOther, CallAdd, CallReset, Use, NewHandlerId,
                AddHandler, InitNew, InitSeq, InitHandler, ResetQuit, Waits, ResetSend, ResetWait,
                ResetSleep, ResetSpurious, ResetDelete, ResetNull
  <2>2. CASE Call(c) \/ Use(c) \/ NewHandlerId(c) \/ AddHandler(c)
    BY <1>t, <2>1, <2>2 DEF Call, CallInit, CallSend, CallOther, CallAdd, CallReset, Use,
                            NewHandlerId, AddHandler
  <2>3. CASE \/ InitNew(c) \/ InitSeq(c) \/ InitHandler(c)
             \/ ResetQuit(c) \/ Waits(c) \/ ResetDelete(c) \/ ResetNull(c)
    BY <1>t, <2>1, <2>3 DEF InitNew, InitSeq, InitHandler, ResetQuit, Waits, ResetSend, ResetWait,
                            ResetSleep, ResetSpurious, ResetDelete, ResetNull
  <2>. QED
    BY <1>1, <2>2, <2>3
<1>2. ASSUME NEW c \in Clients, InitLock(c) \/ ResetLock(c) PROVE MutexHeld'
  <2>1. mutex = Nobody /\ mutex' = c /\ \A d \in Clients \ {c} : cpc'[d] = cpc[d]
    BY <1>2, <1>t DEF InitLock, ResetLock
  <2>. QED
    BY <1>t, <2>1, BoundsAssumption DEF MutexHeld
<1>3. ASSUME NEW c \in Clients, InitThread(c) \/ ResetJoin(c) PROVE MutexHeld'
  <2>1. /\ cpc[c] \in Holding /\ cpc'[c] \notin Holding /\ \A d \in Clients \ {c} : cpc'[d] = cpc[d]
    BY <1>3, <1>t DEF InitThread, ResetJoin
  <2>. QED
    BY <1>t, <2>1, OneHolder DEF MutexHeld
<1>4. ASSUME NEW w \in Queues, Worker(w) PROVE mutex' = mutex /\ SamePlaces
  BY <1>4, <1>t, WorkerPlaces DEF Worker, ThreadCheck, ThreadEnter, ThreadWhile, ThreadLock,
                                  ThreadLoop, ThreadDone, ThreadNotify
<1>5. CASE \E c \in Clients :
             \/ Call(c) \/ Use(c) \/ NewHandlerId(c) \/ AddHandler(c)
             \/ InitNew(c) \/ InitSeq(c) \/ InitHandler(c)
             \/ ResetQuit(c) \/ Waits(c) \/ ResetDelete(c) \/ ResetNull(c)
  <2>1. PICK c \in Clients : /\ mutex' = mutex /\ (cpc'[c] \in Holding => cpc[c] \in Holding)
                             /\ \A d \in Clients \ {c} : cpc'[d] = cpc[d]
    BY <1>1, <1>5
  <2>. QED
    BY <1>t, <2>1 DEF MutexHeld
<1>6. CASE \E w \in Queues : Worker(w)
  BY <1>4, <1>6, <1>t DEF MutexHeld, SamePlaces
<1>. QED
  BY <1>2, <1>3, <1>5, <1>6 DEF Next, Step, ClientStep, InitStep, ResetStep, Waits

\* The clients' places in a reset are all that counts for the numbers of the queues.
LEMMA NumberedStep == Inductive /\ Next => Numbered'
<1>. SUFFICES ASSUME Inductive, Next PROVE Numbered'
  OBVIOUS
<1>t. /\ MutexHeld /\ Numbered /\ Pointer
      /\ made \in Nat /\ resets \in Nat /\ msg_queue \in Nat /\ cpc \in [Clients -> ClientPCs]
      /\ cret \in [Clients -> {"idle", "use", "id", "add"}]
  BY BoundsAssumption DEF Inductive, OwnType
<1>n. /\ IsFiniteSet(Resetting) /\ Cardinality(Resetting) \in Nat
      /\ made + Cardinality(Resetting) <= resets + (IF msg_queue = NULL THEN 0 ELSE 1)
  BY <1>t, FS_CardinalityType DEF Numbered
<1>. USE DEF At, Goto, Return, CheckPointer
<1>1. ASSUME NEW c \in Clients, CallReset(c) PROVE Numbered'
  <2>1. /\ c \notin Resetting /\ Resetting' = Resetting \cup {c}
        /\ resets' = resets + 1 /\ UNCHANGED <<made, msg_queue>>
    BY <1>1, <1>t DEF CallReset, Resetting, ResetPCs, Waiting, queueVars, ptrVars
  <2>2. IsFiniteSet(Resetting') /\ Cardinality(Resetting') = Cardinality(Resetting) + 1
    BY <1>n, <2>1, FS_AddElement
  <2>. QED
    BY <1>n, <1>t, <2>1, <2>2 DEF Numbered
<1>2. ASSUME NEW c \in Clients, ResetNull(c) PROVE Numbered'
  <2>1. /\ c \in Resetting /\ Resetting' = Resetting \ {c} /\ msg_queue' = NULL /\ msg_queue # NULL
        /\ UNCHANGED <<made, resets>>
    BY <1>2, <1>t DEF ResetNull, Resetting, ResetPCs, Waiting, Pointer, queueVars, histVars
  <2>2. IsFiniteSet(Resetting') /\ Cardinality(Resetting') = Cardinality(Resetting) - 1
    BY <1>n, <2>1, FS_RemoveElement
  <2>. QED
    BY <1>n, <1>t, <2>1, <2>2 DEF Numbered
<1>3. ASSUME NEW c \in Clients, ResetLock(c) PROVE Numbered'
  <2>1. /\ c \in Resetting /\ Resetting' \in {Resetting, Resetting \ {c}}
        /\ UNCHANGED <<made, resets, msg_queue>>
    BY <1>3, <1>t DEF ResetLock, Resetting, ResetPCs, Waiting, queueVars, ptrVars, histVars
  <2>2. /\ IsFiniteSet(Resetting \ {c})
        /\ Cardinality(Resetting \ {c}) = Cardinality(Resetting) - 1
    BY <1>n, <2>1, FS_RemoveElement
  <2>3. CASE Resetting' = Resetting
    BY <1>n, <2>1, <2>3 DEF Numbered
  <2>4. CASE Resetting' = Resetting \ {c}
    BY <1>n, <1>t, <2>1, <2>2, <2>4 DEF Numbered
  <2>. QED
    BY <2>1, <2>3, <2>4
<1>4. ASSUME NEW c \in Clients, InitNew(c) PROVE Numbered'
  <2>1. /\ Resetting' = Resetting /\ made' = made + 1 /\ resets' = resets
        /\ msg_queue = NULL /\ msg_queue' = made + 1
    BY <1>4, <1>t DEF InitNew, Resetting, ResetPCs, Waiting, Pointer, histVars
  <2>. QED
    BY <1>n, <1>t, <2>1 DEF Numbered, NULL
<1>5. ASSUME NEW c \in Clients,
             \/ CallInit(c) \/ CallSend(c) \/ CallOther(c) \/ CallAdd(c) \/ Use(c) \/ NewHandlerId(c)
             \/ AddHandler(c) \/ InitLock(c) \/ InitSeq(c) \/ InitHandler(c) \/ InitThread(c)
             \/ ResetQuit(c) \/ Waits(c) \/ ResetDelete(c) \/ ResetJoin(c)
      PROVE  Resetting' = Resetting /\ UNCHANGED <<made, resets, msg_queue>>
  <2>1. UNCHANGED <<made, resets, msg_queue>>
    BY <1>5 DEF CallInit, CallSend, CallOther, CallAdd, Use, NewHandlerId, AddHandler, InitLock,
                InitSeq, InitHandler, InitThread, ResetQuit, Waits, ResetSend, ResetWait,
                ResetSleep, ResetSpurious, ResetDelete, ResetJoin, queueVars, ptrVars, histVars
  <2>2. /\ cpc'[c] \in ResetPCs <=> cpc[c] \in ResetPCs
        /\ \A d \in Clients \ {c} : cpc'[d] = cpc[d]
    <3>1. CASE \/ CallInit(c) \/ CallSend(c) \/ CallOther(c) \/ CallAdd(c) \/ Use(c)
               \/ NewHandlerId(c) \/ AddHandler(c)
      BY <1>t, <3>1 DEF CallInit, CallSend, CallOther, CallAdd, Use, NewHandlerId, AddHandler,
                        ResetPCs, Waiting
    <3>2. CASE \/ InitLock(c) \/ InitSeq(c) \/ InitHandler(c) \/ InitThread(c)
               \/ ResetQuit(c) \/ Waits(c) \/ ResetDelete(c) \/ ResetJoin(c)
      BY <1>t, <3>2 DEF InitLock, InitSeq, InitHandler, InitThread, ResetQuit, Waits, ResetSend,
                        ResetWait, ResetSleep, ResetSpurious, ResetDelete, ResetJoin, ResetPCs,
                        Waiting
    <3>. QED
      BY <1>5, <3>1, <3>2
  <2>. QED
    BY <2>1, <2>2 DEF Resetting
<1>6. ASSUME NEW w \in Queues, Worker(w) PROVE SamePlaces /\ UNCHANGED <<made, resets, msg_queue>>
  BY <1>6, <1>t, WorkerPlaces DEF Worker, ThreadCheck, ThreadEnter, ThreadWhile, ThreadLock,
                                  ThreadLoop, ThreadDone, ThreadNotify, queueVars, ptrVars, histVars
<1>7. CASE \E c \in Clients :
             \/ CallInit(c) \/ CallSend(c) \/ CallOther(c) \/ CallAdd(c) \/ Use(c) \/ NewHandlerId(c)
             \/ AddHandler(c) \/ InitLock(c) \/ InitSeq(c) \/ InitHandler(c) \/ InitThread(c)
             \/ ResetQuit(c) \/ Waits(c) \/ ResetDelete(c) \/ ResetJoin(c)
  BY <1>5, <1>7, <1>t DEF Numbered
<1>8. CASE \E w \in Queues : Worker(w)
  <2>1. Resetting' = Resetting
    BY <1>6, <1>8 DEF Resetting, ResetPCs, Waiting, SamePlaces
  <2>. QED
    BY <1>6, <1>8, <1>t, <2>1 DEF Numbered
<1>. QED
  BY <1>1, <1>2, <1>3, <1>4, <1>7, <1>8 DEF Next, Step, Call, ClientStep, InitStep, ResetStep, Waits

\* A queue that the pointer names has a number.
LEMMA PointsToQueue == Inductive /\ msg_queue # NULL => msg_queue \in Queues
<1>. SUFFICES ASSUME Inductive, msg_queue # NULL PROVE msg_queue \in Queues
  OBVIOUS
<1>1. /\ made \in Nat /\ resets \in 0 .. MaxResets /\ msg_queue \in Nat /\ Numbered /\ Pointer
  BY DEF Inductive, OwnType
<1>2. made + Cardinality(Resetting) <= resets + 1 /\ Cardinality(Resetting) \in Nat
  BY <1>1, FS_CardinalityType DEF Numbered
<1>3. msg_queue = made
  BY <1>1 DEF Pointer
<1>. QED
  BY <1>1, <1>2, <1>3, BoundsAssumption DEF Queues, NULL

\* What a step of a client leaves to the others.
LEMMA OthersStay ==
  ASSUME NEW c \in Clients, cpc \in [Clients -> ClientPCs], Step(c)
  PROVE  \A d \in Clients \ {c} : cpc'[d] = cpc[d]
<1>1. PICK pc : cpc' = [cpc EXCEPT ![c] = pc]
  BY ClientMoves
<1>. QED
  BY <1>1

\* The pointer is changed only under the mutex.
LEMMA PointerStep == Inductive /\ Next => Pointer'
<1>. SUFFICES ASSUME Inductive, Next PROVE Pointer'
  OBVIOUS
<1>t. /\ MutexHeld /\ Pointer /\ made \in Nat /\ alive \subseteq 1 .. made
      /\ cpc \in [Clients -> ClientPCs] /\ cret \in [Clients -> {"idle", "use", "id", "add"}]
  BY DEF Inductive, OwnType
<1>o. ASSUME NEW c \in Clients, Step(c), cpc[c] \in Holding
      PROVE  \A d \in Clients \ {c} : cpc'[d] = cpc[d] /\ cpc[d] \notin Holding
  BY <1>o, <1>t, OneHolder, OthersStay
<1>. USE DEF At, Goto, Return, CheckPointer, Waiting
<1>1. ASSUME NEW c \in Clients, InitNew(c) PROVE Pointer'
  <2>1. /\ cpc[c] = "new" /\ cpc'[c] = "seq" /\ msg_queue' = made + 1 /\ made' = made + 1
        /\ alive' = alive \cup {made + 1}
    BY <1>1, <1>t DEF InitNew
  <2>2. \A d \in Clients \ {c} : cpc'[d] \notin Holding
    BY <1>1, <1>o, <2>1 DEF Step, ClientStep, InitStep, Holding
  <2>3. alive = {} /\ made + 1 # NULL
    BY <1>t, <2>1 DEF Pointer, NULL
  <2>. QED
    BY <2>1, <2>2, <2>3 DEF Pointer, Holding
<1>2. ASSUME NEW c \in Clients, ResetDelete(c) PROVE Pointer'
  <2>1. /\ cpc[c] = "rdelete" /\ cpc'[c] = "rnull" /\ alive' = alive \ {msg_queue}
        /\ UNCHANGED <<msg_queue, made>>
    BY <1>2, <1>t DEF ResetDelete, ptrVars
  <2>2. \A d \in Clients \ {c} : cpc'[d] \notin Holding
    BY <1>2, <1>o, <2>1 DEF Step, ClientStep, ResetStep, Holding
  <2>3. alive' = {} /\ msg_queue # NULL
    BY <1>t, <2>1 DEF Pointer
  <2>. QED
    BY <1>t, <2>1, <2>2, <2>3 DEF Pointer, Holding
<1>3. ASSUME NEW c \in Clients, ResetNull(c) PROVE Pointer'
  <2>1. /\ cpc[c] = "rnull" /\ cpc'[c] = "rjoin" /\ msg_queue' = NULL /\ UNCHANGED <<alive, made>>
    BY <1>3, <1>t DEF ResetNull, queueVars
  <2>2. \A d \in Clients \ {c} : cpc'[d] \notin Holding
    BY <1>3, <1>o, <2>1 DEF Step, ClientStep, ResetStep, Holding
  <2>3. alive = {}
    BY <1>t, <2>1 DEF Pointer
  <2>. QED
    BY <2>1, <2>2, <2>3 DEF Pointer, Holding
<1>4. ASSUME NEW c \in Clients,
             \/ Call(c) \/ Use(c) \/ NewHandlerId(c) \/ AddHandler(c)
             \/ InitLock(c) \/ InitSeq(c) \/ InitHandler(c) \/ InitThread(c)
             \/ ResetLock(c) \/ ResetQuit(c) \/ Waits(c) \/ ResetJoin(c)
      PROVE  Pointer'
  <2>1. UNCHANGED <<msg_queue, made, alive>>
    BY <1>4 DEF Call, CallInit, CallSend, CallOther, CallAdd, CallReset, Use, NewHandlerId,
                AddHandler, InitLock, InitSeq, InitHandler, InitThread, ResetLock, ResetQuit, Waits,
                ResetSend, ResetWait, ResetSleep, ResetSpurious, ResetJoin, queueVars, ptrVars
  <2>2. \A d \in Clients \ {c} : cpc'[d] = cpc[d]
    BY <1>4, <1>t, OthersStay DEF Step, ClientStep, InitStep, ResetStep, Waits
  <2>3. /\ cpc[c] # "rnull" /\ cpc'[c] # "rnull"
        /\ cpc'[c] \in {"new", "rjoin"} => msg_queue = NULL
        /\ cpc'[c] \in {"seq", "handler", "thread", "rquit", "rdelete"} \cup Waiting => msg_queue # NULL
    <3>1. CASE Call(c) \/ Use(c) \/ NewHandlerId(c) \/ AddHandler(c)
      BY <1>t, <3>1 DEF Call, CallInit, CallSend, CallOther, CallAdd, CallReset, Use, NewHandlerId,
                        AddHandler
    <3>2. CASE InitLock(c) \/ InitThread(c) \/ ResetLock(c) \/ ResetJoin(c)
      BY <1>t, <3>2 DEF InitLock, InitThread, ResetLock, ResetJoin
    <3>3. CASE InitSeq(c) \/ InitHandler(c) \/ ResetQuit(c) \/ Waits(c)
      BY <1>t, <3>3 DEF InitSeq, InitHandler, ResetQuit, Waits, ResetSend, ResetWait, ResetSleep,
                        ResetSpurious, Pointer
    <3>. QED
      BY <1>4, <3>1, <3>2, <3>3
  <2>. QED
    BY <1>t, <2>1, <2>2, <2>3 DEF Pointer
<1>5. ASSUME NEW w \in Queues, Worker(w) PROVE SamePlaces /\ UNCHANGED <<made, alive, msg_queue>>
  BY <1>5, <1>t, WorkerPlaces DEF Worker, ThreadCheck, ThreadEnter, ThreadWhile, ThreadLock,
                                  ThreadLoop, ThreadDone, ThreadNotify, queueVars, ptrVars
<1>6. CASE \E w \in Queues : Worker(w)
  BY <1>5, <1>6, <1>t DEF Pointer, SamePlaces
<1>. QED
  BY <1>1, <1>2, <1>3, <1>4, <1>6 DEF Next, Step, ClientStep, InitStep, ResetStep, Waits

\* A step of a worker: it is where it was and the use of its queue is recorded, or it goes on.
LEMMA WorkerMoves ==
  ASSUME tpc \in [Queues -> ThreadPCs], tq \in [Queues -> Nat], NEW w \in Queues, Worker(w)
  PROVE  /\ UNCHANGED <<made, alive, msg_queue, msg_thread, settled>>
         /\ bad = "none" /\ w \in Running
         /\ \A v \in Queues \ {w} : tpc'[v] = tpc[v] /\ tq'[v] = tq[v]
<1>1. UNCHANGED <<made, alive, msg_queue, msg_thread, settled>>
  BY DEF Worker, ThreadCheck, ThreadEnter, ThreadWhile, ThreadLock, ThreadLoop, ThreadDone,
         ThreadNotify, queueVars, ptrVars, histVars
<1>2. bad = "none" /\ w \in Running
  BY DEF Worker, ThreadCheck, ThreadEnter, ThreadWhile, ThreadLock, ThreadLoop, ThreadDone,
         ThreadNotify, TAt, Running
<1>3. \A v \in Queues \ {w} : tpc'[v] = tpc[v] /\ tq'[v] = tq[v]
  BY DEF Worker, ThreadCheck, ThreadEnter, ThreadWhile, ThreadLock, ThreadLoop, ThreadDone,
         ThreadNotify, Access, TGoto
<1>. QED
  BY <1>1, <1>2, <1>3

\* What a step of a client leaves to the workers, unless it starts one.
LEMMA WorkersStay ==
  ASSUME NEW c \in Clients, Step(c)
  PROVE  /\ exit_done' = exit_done /\ tq' = tq
         /\ ~InitThread(c) => tpc' = tpc
         /\ ~InitThread(c) /\ ~ResetJoin(c) => msg_thread' = msg_thread
         /\ ~ResetQuit(c) => settled' = settled
         /\ bad' \in {bad, "client"}
<1>. USE DEF Step, Call, ClientStep, InitStep, ResetStep, queueVars, ptrVars, threadVars, histVars
<1>1. exit_done' = exit_done /\ tq' = tq
  BY DEF CallInit, CallSend, CallOther, CallAdd, CallReset, InitLock, InitNew, InitSeq, InitHandler,
         InitThread, ResetLock, ResetQuit, Waits, ResetSend, ResetWait, ResetSleep, ResetSpurious,
         ResetDelete, ResetNull, ResetJoin, Use, NewHandlerId, AddHandler
<1>2. ~InitThread(c) => tpc' = tpc
  BY DEF CallInit, CallSend, CallOther, CallAdd, CallReset, InitLock, InitNew, InitSeq, InitHandler,
         ResetLock, ResetQuit, Waits, ResetSend, ResetWait, ResetSleep, ResetSpurious, ResetDelete,
         ResetNull, ResetJoin, Use, NewHandlerId, AddHandler
<1>3. ~InitThread(c) /\ ~ResetJoin(c) => msg_thread' = msg_thread
  BY DEF CallInit, CallSend, CallOther, CallAdd, CallReset, InitLock, InitNew, InitSeq, InitHandler,
         ResetLock, ResetQuit, Waits, ResetSend, ResetWait, ResetSleep, ResetSpurious, ResetDelete,
         ResetNull, Use, NewHandlerId, AddHandler
<1>4. ~ResetQuit(c) => settled' = settled
  BY DEF CallInit, CallSend, CallOther, CallAdd, CallReset, InitLock, InitNew, InitSeq, InitHandler,
         InitThread, ResetLock, Waits, ResetSend, ResetWait, ResetSleep, ResetSpurious, ResetDelete,
         ResetNull, ResetJoin, Use, NewHandlerId, AddHandler
<1>5. bad' \in {bad, "client"}
  BY DEF CallInit, CallSend, CallOther, CallAdd, CallReset, InitLock, InitNew, InitSeq, InitHandler,
         InitThread, ResetLock, ResetQuit, Waits, ResetSend, ResetWait, ResetSleep, ResetSpurious,
         ResetDelete, ResetNull, ResetJoin, Use, NewHandlerId, AddHandler
<1>. QED
  BY <1>1, <1>2, <1>3, <1>4, <1>5

\* A worker is started only where the one before has been joined.
LEMMA OneWorkerStep == Inductive /\ Next => OneWorker'
<1>. SUFFICES ASSUME Inductive, Next PROVE OneWorker'
  OBVIOUS
<1>t. OneWorker /\ tpc \in [Queues -> ThreadPCs] /\ tq \in [Queues -> Nat] /\ NULL \notin Queues
  BY DEF Inductive, OwnType, Queues, NULL
<1>1. ASSUME NEW c \in Clients, InitThread(c) PROVE OneWorker'
  BY <1>1, <1>t DEF InitThread, OneWorker, Running
<1>2. ASSUME NEW c \in Clients, ResetJoin(c) PROVE OneWorker'
  <2>1. tpc' = tpc /\ \A v \in {msg_thread} \ {NULL} : tpc[v] = "end"
    BY <1>2 DEF ResetJoin, Joined, threadVars
  <2>. QED
    BY <1>t, <2>1 DEF OneWorker, Running
<1>3. ASSUME NEW c \in Clients, Step(c), ~InitThread(c), ~ResetJoin(c) PROVE OneWorker'
  BY <1>3, <1>t, WorkersStay DEF OneWorker, Running
<1>4. ASSUME NEW w \in Queues, Worker(w) PROVE OneWorker'
  BY <1>4, <1>t, WorkerMoves DEF OneWorker, Running
<1>. QED
  BY <1>1, <1>2, <1>3, <1>4 DEF Next

\* exit_done is cleared and set by the worker that is in the loop.
LEMMA LoopEnteredStep == Inductive /\ Next => LoopEntered'
<1>. SUFFICES ASSUME Inductive, Next PROVE LoopEntered'
  OBVIOUS
<1>t. /\ OneWorker /\ LoopEntered /\ tpc \in [Queues -> ThreadPCs] /\ tq \in [Queues -> Nat]
      /\ exit_done \in [Queues -> BOOLEAN] /\ NULL \notin Queues
  BY DEF Inductive, OwnType, Queues, NULL
<1>1. ASSUME NEW c \in Clients, InitThread(c) PROVE LoopEntered'
  <2>1. exit_done' = exit_done /\ tq' = tq
    BY <1>1, WorkersStay DEF Step, ClientStep, InitStep
  <2>2. CASE msg_thread = NULL
    <3>1. Running = {}
      BY <1>t, <2>2 DEF OneWorker, Running
    <3>. QED
      BY <1>t, <2>1, <3>1 DEF LoopEntered, Running, InLoop
  <2>3. CASE msg_thread # NULL
    BY <1>1, <1>t, <2>1, <2>3 DEF LoopEntered, InitThread
  <2>. QED
    BY <2>2, <2>3
<1>2. ASSUME NEW c \in Clients, Step(c), ~InitThread(c) PROVE LoopEntered'
  BY <1>2, <1>t, WorkersStay DEF LoopEntered
<1>3. ASSUME NEW w \in Queues, Worker(w) PROVE LoopEntered'
  <2>0. \A v \in Queues \ {w} : tpc'[v] = tpc[v] /\ tq'[v] = tq[v]
    BY <1>3, <1>t, WorkerMoves
  <2>1. CASE ThreadCheck(w) \/ ThreadEnter(w) \/ ThreadNotify(w)
    <3>1. tpc[w] \notin InLoop /\ exit_done' = exit_done
      BY <2>1 DEF ThreadCheck, ThreadEnter, ThreadNotify, TAt, InLoop, queueVars
    <3>. QED
      BY <1>t, <2>0, <3>1 DEF LoopEntered
  <2>2. CASE ThreadWhile(w) \/ ThreadLoop(w)
    <3>1. tpc'[w] \in InLoop /\ exit_done' = exit_done /\ tq' = tq
      BY <1>t, <2>2 DEF ThreadWhile, ThreadLoop, TAt, TGoto, Access, InLoop, queueVars
    <3>. QED
      BY <1>t, <2>0, <3>1 DEF LoopEntered
  <2>3. CASE ThreadLock(w)
    <3>1. tpc'[w] \in InLoop /\ tq' = tq /\ exit_done' = [exit_done EXCEPT ![tq[w]] = FALSE]
      BY <1>t, <2>3 DEF ThreadLock, TAt, TGoto, Access, InLoop
    <3>2. \A q \in Queues : q # tq[w] => exit_done'[q] = exit_done[q]
      BY <1>t, <3>1
    <3>. QED
      BY <1>t, <2>0, <3>1, <3>2 DEF LoopEntered
  <2>4. CASE ThreadDone(w)
    <3>1. tq' = tq /\ exit_done' = [exit_done EXCEPT ![tq[w]] = TRUE]
      BY <2>4 DEF ThreadDone
    <3>2. \A q \in Queues : IF q = tq[w] THEN exit_done'[q] ELSE exit_done'[q] = exit_done[q]
      BY <1>t, <3>1
    <3>. QED
      BY <1>t, <2>0, <3>1, <3>2 DEF LoopEntered
  <2>. QED
    BY <1>3, <2>1, <2>2, <2>3, <2>4 DEF Worker
<1>. QED
  BY <1>1, <1>2, <1>3 DEF Next

\* Of an awaited queue the worker is in the loop, and there is no other worker.
LEMMA AwaitedInLoop ==
  ASSUME Inductive, NEW q \in Queues, Awaited(q), NEW w \in Running
  PROVE  tq[w] = q /\ tpc[w] \in InLoop
<1>1. PICK v \in Queues : tq[v] = q /\ tpc[v] \in InLoop
  BY DEF Inductive, LoopEntered, Awaited
<1>2. v \in Running
  BY <1>1 DEF Running, InLoop
<1>. QED
  BY <1>1, <1>2 DEF Inductive, OneWorker

\* A settled queue was made, and its loop is awaited or has been left.
LEMMA SettledFacts ==
  ASSUME Inductive, NEW q \in settled
  PROVE  q \in Queues /\ q \in 1 .. made /\ q # NULL /\ (Awaited(q) \/ Left(q))
<1>1. /\ made \in Nat /\ resets \in 0 .. MaxResets /\ Numbered
      /\ q \in 1 .. made /\ (Awaited(q) \/ Left(q))
  BY DEF Inductive, OwnType, SettledLeft
<1>2. made <= resets + 1
  <2>1. /\ Cardinality(Resetting) \in Nat
        /\ made + Cardinality(Resetting) <= resets + (IF msg_queue = NULL THEN 0 ELSE 1)
    BY <1>1, FS_CardinalityType DEF Numbered
  <2>. QED
    BY <1>1, <2>1
<1>3. q \in Queues /\ q # NULL
  BY <1>1, <1>2, BoundsAssumption DEF Queues, NULL
<1>. QED
  BY <1>1, <1>3

\* A settled queue that a worker in the loop works on is there.
LEMMA SettledThere ==
  ASSUME Inductive, NEW w \in Queues, tpc[w] \in InLoop, tq[w] \in settled
  PROVE  tq[w] \in alive
<1>1. w \in Running /\ tpc[w] \notin {"check", "notify"}
  BY DEF Running, InLoop
<1>2. Awaited(tq[w])
  BY <1>1, SettledFacts DEF Left
<1>3. PICK c \in Clients : cpc[c] \in Waiting
  BY <1>2 DEF Awaited
<1>4. MutexHeld /\ Pointer /\ tq[w] = msg_queue
  BY <1>2 DEF Inductive, Awaited
<1>5. \A d \in Clients : cpc[d] # "rnull"
  BY <1>3, <1>4, OneHolder DEF Holding, Waiting
<1>6. msg_queue # NULL
  BY <1>3, <1>4 DEF Pointer
<1>. QED
  BY <1>4, <1>5, <1>6 DEF Pointer

\* A reset that met a worker in its loop waits for the end of the loop before it deletes the queue.
LEMMA SettledStep == Inductive /\ Next => SettledLeft'
<1>. SUFFICES ASSUME Inductive, Next PROVE SettledLeft'
  OBVIOUS
<1>t. /\ MutexHeld /\ Pointer /\ OneWorker /\ LoopEntered /\ made \in Nat /\ msg_queue \in Nat
      /\ tpc \in [Queues -> ThreadPCs] /\ tq \in [Queues -> Nat] /\ exit_done \in [Queues -> BOOLEAN]
      /\ cpc \in [Clients -> ClientPCs]
  BY DEF Inductive, OwnType
<1>s. settled \subseteq 1 .. made
  BY DEF Inductive, SettledLeft
<1>. USE DEF At, Goto, Waiting
\* Clients that hold no queue waiting.
<1>1. ASSUME NEW c \in Clients, Step(c), ~ResetQuit(c), ~Waits(c), ~ResetDelete(c),
             ~ResetNull(c), ~InitNew(c), ~InitThread(c)
      PROVE  SettledLeft'
  <2>1. /\ cpc[c] \notin {"rdelete", "rnull"} \cup Waiting /\ UNCHANGED <<msg_queue, made>>
    <3>1. cpc[c] \notin {"rdelete", "rnull"} \cup Waiting
      BY <1>1 DEF Step, Waits, Call, ClientStep, InitStep, ResetStep, CallInit, CallSend, CallOther,
                  CallAdd, CallReset, InitLock, InitSeq, InitHandler, ResetLock, ResetJoin, Use,
                  NewHandlerId, AddHandler
    <3>2. UNCHANGED <<msg_queue, made>>
      BY <1>1 DEF Step, Waits, Call, ClientStep, InitStep, ResetStep, CallInit, CallSend, CallOther,
                  CallAdd, CallReset, InitLock, InitSeq, InitHandler, ResetLock, ResetJoin, Use,
                  NewHandlerId, AddHandler, queueVars, ptrVars
    <3>. QED
      BY <3>1, <3>2
  <2>2. exit_done' = exit_done /\ tq' = tq /\ tpc' = tpc /\ settled' = settled
    BY <1>1, WorkersStay
  <2>3. \A d \in Clients \ {c} : cpc'[d] = cpc[d]
    BY <1>1, <1>t, OthersStay
  <2>4. ASSUME NEW q \in settled PROVE Awaited(q)' \/ Left(q)'
    <3>1. Awaited(q) \/ Left(q)
      BY SettledFacts
    <3>. QED
      BY <2>1, <2>2, <2>3, <3>1 DEF Awaited, Left, Running
  <2>. QED
    BY <1>s, <2>1, <2>2, <2>4 DEF SettledLeft
<1>2. ASSUME NEW c \in Clients, ResetQuit(c) PROVE SettledLeft'
  <2>1. /\ cpc[c] = "rquit" /\ cpc'[c] = "rsend" /\ UNCHANGED <<msg_queue, made, tpc, tq, exit_done>>
        /\ settled' = IF exit_done[msg_queue] THEN settled ELSE settled \cup {msg_queue}
    BY <1>2, <1>t DEF ResetQuit, ptrVars, threadVars
  <2>2. \A d \in Clients : cpc[d] \notin {"rdelete", "rnull"} \cup Waiting
    BY <1>t, <2>1, OneHolder DEF Holding
  <2>3. msg_queue = made /\ msg_queue # NULL
    BY <1>t, <2>1 DEF Pointer
  <2>4. msg_queue \in 1 .. made
    BY <1>t, <2>3 DEF NULL
  <2>5. ASSUME NEW q \in settled PROVE Left(q)'
    <3>1. Left(q) /\ msg_queue # q
      BY <2>2, SettledFacts DEF Awaited, Left
    <3>. QED
      BY <2>1, <3>1 DEF Left, Running
  <2>6. ASSUME ~exit_done[msg_queue] PROVE Awaited(msg_queue)'
    BY <2>1, <2>6 DEF Awaited
  <2>. QED
    BY <1>s, <2>1, <2>4, <2>5, <2>6 DEF SettledLeft
<1>3. ASSUME NEW c \in Clients, Waits(c) \/ ResetDelete(c) \/ ResetNull(c) PROVE SettledLeft'
  <2>1. /\ cpc[c] \in {"rdelete", "rnull"} \cup Waiting /\ cpc'[c] \in {"rdelete", "rnull", "rjoin"} \cup Waiting
        /\ cpc[c] \in Waiting => cpc'[c] \in Waiting \/ (cpc'[c] = "rdelete" /\ exit_done[msg_queue])
        /\ cpc[c] \notin Waiting => cpc'[c] \notin Waiting
        /\ cpc'[c] = "rjoin" => msg_queue' = NULL
        /\ cpc'[c] # "rjoin" => msg_queue' = msg_queue
        /\ UNCHANGED <<made, tpc, tq, exit_done, settled>>
    BY <1>3, <1>t DEF Waits, ResetSend, ResetWait, ResetSleep, ResetSpurious, ResetDelete,
                      ResetNull, ptrVars, queueVars, threadVars, histVars
  <2>2. \A d \in Clients \ {c} : cpc[d] \notin {"rdelete", "rnull"} \cup Waiting
    BY <1>t, <2>1, OneHolder DEF Holding
  <2>3. ASSUME NEW q \in settled PROVE Awaited(q)' \/ Left(q)'
    <3>1. (Awaited(q) \/ Left(q)) /\ q # NULL
      BY SettledFacts
    <3>2. CASE Awaited(q)
      <4>1. cpc[c] \in Waiting /\ msg_queue = q /\ ~exit_done[q]
        BY <2>2, <3>2 DEF Awaited
      <4>. QED
        BY <2>1, <4>1 DEF Awaited
    <3>3. CASE Left(q)
      BY <2>1, <3>1, <3>3 DEF Left, Running
    <3>. QED
      BY <3>1, <3>2, <3>3
  <2>. QED
    BY <1>s, <2>1, <2>3 DEF SettledLeft
<1>4. ASSUME NEW c \in Clients, InitNew(c) \/ InitThread(c) PROVE SettledLeft'
  <2>1. /\ cpc[c] \in {"new", "thread"} /\ UNCHANGED <<exit_done, tq, settled>>
        /\ \/ msg_queue' = msg_queue /\ made' = made
           \/ msg_queue' = made + 1 /\ made' = made + 1
        /\ \A v \in Running' : (v \in Running /\ tpc'[v] = tpc[v]) \/ tpc'[v] = "check"
    <3>1. CASE InitNew(c)
      BY <3>1 DEF InitNew, threadVars, histVars, Running
    <3>2. CASE InitThread(c)
      BY <1>t, <3>2 DEF InitThread, histVars, queueVars, Running
    <3>. QED
      BY <1>4, <3>1, <3>2
  <2>2. \A d \in Clients : cpc[d] \notin {"rdelete", "rnull"} \cup Waiting
    BY <1>t, <2>1, OneHolder DEF Holding
  <2>3. ASSUME NEW q \in settled PROVE Left(q)'
    <3>1. Left(q) /\ msg_queue # q
      BY <2>2, SettledFacts DEF Awaited, Left
    <3>2. msg_queue' # q
      BY <1>s, <1>t, <2>1, <3>1
    <3>3. exit_done'[q] /\ \A v \in Running' : tq'[v] = q => tpc'[v] \in {"check", "notify"}
      BY <2>1, <3>1 DEF Left
    <3>. QED
      BY <3>2, <3>3 DEF Left
  <2>4. settled' \subseteq 1 .. made'
    BY <1>s, <1>t, <2>1
  <2>. QED
    BY <2>1, <2>3, <2>4 DEF SettledLeft
<1>5. ASSUME NEW w \in Queues, Worker(w) PROVE SettledLeft'
  <2>0. /\ UNCHANGED <<made, alive, msg_queue, settled>> /\ w \in Running
        /\ \A v \in Queues \ {w} : tpc'[v] = tpc[v] /\ tq'[v] = tq[v]
        /\ \A c \in Clients : /\ cpc'[c] \in Waiting <=> cpc[c] \in Waiting
                              /\ cpc'[c] \in {"rdelete", "rnull"} <=> cpc[c] \in {"rdelete", "rnull"}
    BY <1>5, <1>t, WorkerMoves, WorkerPlaces DEF SamePlaces
  <2>o. \A v \in Running \cup Running' : v = w
    BY <1>t, <2>0 DEF OneWorker, Running
  <2>r. ASSUME NEW q \in settled PROVE q \in Queues /\ (Awaited(q) \/ Left(q))
    BY SettledFacts
  <2>1. CASE ThreadCheck(w) \/ ThreadEnter(w)
    <3>1. /\ tpc[w] \in {"check", "enter"} /\ exit_done' = exit_done
          /\ tq'[w] = msg_queue \/ (tpc[w] = "enter" /\ tq'[w] = tq[w])
      BY <1>t, <2>1 DEF ThreadCheck, ThreadEnter, TAt, queueVars
    <3>2. ASSUME NEW q \in settled PROVE Left(q)'
      <4>1. Left(q)
        <5>1. ~Awaited(q)
          BY <2>0, <2>r, <3>1, AwaitedInLoop DEF InLoop
        <5>. QED
          BY <2>r, <5>1
      <4>2. msg_queue # q /\ (tpc[w] = "enter" => tq[w] # q)
        BY <2>0, <3>1, <4>1 DEF Left
      <4>. QED
        BY <2>0, <2>o, <3>1, <4>1, <4>2 DEF Left
    <3>. QED
      BY <1>s, <2>0, <3>2 DEF SettledLeft
  <2>2. CASE ThreadWhile(w) \/ ThreadLock(w) \/ ThreadLoop(w)
    <3>1. /\ tpc[w] \in InLoop /\ tpc'[w] \in InLoop /\ tq' = tq
          /\ exit_done' = exit_done \/ exit_done' = [exit_done EXCEPT ![tq[w]] = FALSE]
      BY <1>t, <2>2 DEF ThreadWhile, ThreadLock, ThreadLoop, TAt, TGoto, Access, InLoop, queueVars
    <3>2. ASSUME NEW q \in settled PROVE Awaited(q)' \/ Left(q)'
      <4>1. CASE Awaited(q)
        <5>1. tq[w] = q /\ q \in Queues
          BY <2>0, <2>r, <4>1, AwaitedInLoop
        <5>2. ~exit_done'[q]
          BY <1>t, <3>1, <4>1, <5>1 DEF Awaited
        <5>. QED
          BY <2>0, <4>1, <5>2 DEF Awaited
      <4>2. CASE Left(q)
        <5>1. tq[w] # q /\ msg_queue # q
          BY <2>0, <3>1, <4>2 DEF Left, InLoop
        <5>2. exit_done'[q] = exit_done[q]
          BY <1>t, <2>r, <3>1, <5>1
        <5>. QED
          BY <2>0, <2>o, <3>1, <4>2, <5>1, <5>2 DEF Left
      <4>. QED
        BY <2>r, <4>1, <4>2
    <3>. QED
      BY <1>s, <2>0, <3>2 DEF SettledLeft
  <2>3. CASE ThreadDone(w)
    <3>1. /\ tpc[w] = "done" /\ tq' = tq /\ exit_done' = [exit_done EXCEPT ![tq[w]] = TRUE]
          /\ tq[w] \in alive => tpc'[w] = "notify"
      BY <1>t, <2>3 DEF ThreadDone, TAt, TGoto, Access
    <3>2. ASSUME NEW q \in settled PROVE Left(q)'
      <4>1. CASE Awaited(q)
        <5>1. tq[w] = q /\ q \in Queues
          BY <2>0, <2>r, <4>1, AwaitedInLoop
        <5>2. exit_done'[q]
          BY <1>t, <3>1, <5>1
        <5>3. tpc'[w] = "notify"
          BY <3>1, <5>1, SettledThere DEF InLoop
        <5>4. \E c \in Clients : cpc'[c] \in Waiting
          BY <2>0, <4>1 DEF Awaited
        <5>. QED
          BY <2>o, <5>2, <5>3, <5>4 DEF Left
      <4>2. CASE Left(q)
        <5>1. tq[w] # q /\ msg_queue # q
          BY <2>0, <3>1, <4>2 DEF Left
        <5>2. exit_done'[q] = exit_done[q]
          BY <1>t, <2>r, <3>1, <5>1
        <5>. QED
          BY <2>0, <2>o, <3>1, <4>2, <5>1, <5>2 DEF Left
      <4>. QED
        BY <2>r, <4>1, <4>2
    <3>. QED
      BY <1>s, <2>0, <3>2 DEF SettledLeft
  <2>4. CASE ThreadNotify(w)
    <3>1. /\ tpc[w] = "notify" /\ tpc'[w] \in {"notify", "end"} /\ UNCHANGED <<tq, exit_done>>
      BY <1>t, <2>4 DEF ThreadNotify, TAt, TGoto, Access, queueVars
    <3>2. ASSUME NEW q \in settled PROVE Left(q)'
      <4>1. Left(q)
        <5>1. ~Awaited(q)
          BY <2>0, <2>r, <3>1, AwaitedInLoop DEF InLoop
        <5>. QED
          BY <2>r, <5>1
      <4>2. \A v \in Running' : tpc'[v] = "notify"
        BY <2>o, <3>1 DEF Running
      <4>. QED
        BY <2>0, <3>1, <4>1, <4>2 DEF Left
    <3>. QED
      BY <1>s, <2>0, <3>2 DEF SettledLeft
  <2>. QED
    BY <1>5, <2>1, <2>2, <2>3, <2>4 DEF Worker
<1>. QED
  BY <1>1, <1>2, <1>3, <1>4, <1>5 DEF Next

\* A worker in the loop is the only one that reads or locks a queue.
LEMMA SafeStep == Inductive /\ Next => SettledWorkerSafe'
<1>. SUFFICES ASSUME Inductive, Next PROVE SettledWorkerSafe'
  OBVIOUS
<1>t. tpc \in [Queues -> ThreadPCs] /\ tq \in [Queues -> Nat]
  BY DEF Inductive, OwnType
<1>1. ASSUME NEW c \in Clients, Step(c) PROVE SettledWorkerSafe'
  <2>1. bad' \in {"none", "client"}
    BY <1>1, ClientMoves, WorkersStay
  <2>. QED
    BY <2>1 DEF SettledWorkerSafe
<1>2. ASSUME NEW w \in Queues, Worker(w) PROVE SettledWorkerSafe'
  <2>0. bad = "none" /\ settled' = settled
    BY <1>2, <1>t, WorkerMoves
  <2>1. CASE bad' \in {"read", "lock"}
    <3>1. tpc[w] \in InLoop /\ tq[w] \notin alive /\ tpc' = tpc /\ tq' = tq
      BY <1>2, <2>0, <2>1 DEF Worker, ThreadCheck, ThreadEnter, ThreadWhile, ThreadLock, ThreadLoop,
                              ThreadDone, ThreadNotify, TAt, Access, InLoop
    <3>2. tq[w] \notin settled
      BY <3>1, SettledThere
    <3>3. w \in Running'
      BY <3>1 DEF Running, InLoop
    <3>. QED
      BY <2>0, <3>1, <3>2, <3>3 DEF SettledWorkerSafe
  <2>. QED
    BY <2>1 DEF SettledWorkerSafe
<1>. QED
  BY <1>1, <1>2 DEF Next

\* No step of a client or of a worker breaks the invariant.
LEMMA InductiveStep == Inductive /\ [Next]_vars => Inductive'
<1>. SUFFICES ASSUME Inductive, [Next]_vars PROVE Inductive'
  OBVIOUS
<1>1. CASE Next
  BY <1>1, TypeStep, MutexStep, NumberedStep, PointerStep, OneWorkerStep, LoopEnteredStep,
         SettledStep, SafeStep DEF Inductive
<1>2. CASE UNCHANGED vars
  BY <1>2 DEF Inductive, OwnType, MutexHeld, Numbered, Resetting, Pointer, OneWorker, Running,
              LoopEntered, SettledLeft, Awaited, Left, SettledWorkerSafe,
              vars, queueVars, ptrVars, threadVars, histVars
<1>. QED
  BY <1>1, <1>2

\* The invariants of the wrapper hold in every behaviour, whatever the clients call and
\* whichever copy of the pointer the build uses (msgqueue.cc 45-63, 89-103).
THEOREM InductiveHolds == Spec => []Inductive
BY InductiveInit, InductiveStep, PTL DEF Spec

\* There is at most one worker and the wrapper owns it: the join of reset_msg_queue comes
\* before a thread can be started again (msgqueue.cc 45-63, 89-103).
THEOREM WorkerIsAlone == Spec => []OneWorker
<1>1. Inductive => OneWorker
  BY DEF Inductive
<1>. QED
  BY <1>1, InductiveHolds, PTL

\* A worker that was in its loop when reset_msg_queue told it to quit reads and locks no
\* deleted queue: _wait_exit does not return before the worker has set exit_done behind its
\* loop, and the pointer is cleared before another worker can read it (msgqueue.cc 89-103,
\* msgqueue.h 553-557, 699-791).
THEOREM SettledIsSafe == Spec => []SettledWorkerSafe
<1>1. Inductive => SettledWorkerSafe
  BY DEF Inductive
<1>. QED
  BY <1>1, InductiveHolds, PTL

-----------------------------------------------------------------------------
(* TcpServer.                                                              *)

VARIABLES broken_, pipeOpen, pipeBytes

Server == INSTANCE TcpServer

\* A byte in the pipe was written by the break of a stop since the last start, and the
\* flag that suppresses a second byte is up.
PipeHasCause == pipeBytes > 0 => pipeOpen /\ broken_ /\ stopped

\* A stop knows of no thread that was not started; so a thread started later is another.
TargetsStarted == \A u \in Users : target[u] <= started

\* Connections are accepted after they came.
ClientsArrived == clients <= arrived

\* A pthread that runs and is said to be joined is being joined by somebody.
JoinHasCaller ==
    pthread = "joined" /\ isruning => \E w \in Users : upc[w] = "join" /\ target[w] = started

\* A pthread is given back when it has ended, so that a join of one that is gone cannot hold
\* the running one.
GoneMeansOver ==
    /\ pthread = "gone" => ~isruning
    /\ \A u \in undefined : upc[u] = "join" /\ (isruning => target[u] # started)

ServerInductive == /\ Server!TypeOK /\ PipeHasCause /\ TargetsStarted /\ ClientsArrived
                   /\ JoinHasCaller /\ GoneMeansOver /\ NoStaleBreak /\ StopMeansOver

\* There is no listener and no byte in the pipe at first.
LEMMA ServerInit ==
  ASSUME Server!Init
  PROVE  ServerInductive
<1>1. Server!BreakerTypeOK /\ PipeHasCause
  <2>1. broken_ \in BOOLEAN /\ pipeOpen \in BOOLEAN
    BY DEF Server!Init, Server!BreakerInit
  <2>2. pipeBytes = 0
    BY DEF Server!Init, Server!BreakerInit
  <2>. QED
    BY <2>1, <2>2 DEF Server!BreakerTypeOK, PipeHasCause
<1>2. Server!TypeOK
  <2>1. {watched, stopped, recreated} \subseteq BOOLEAN /\ isjoined \in BOOLEAN
    BY DEF Server!Init
  <2>. QED
    BY <1>1, <2>1, ServerAssumption DEF Server!Init, Server!TypeOK
<1>3. /\ TargetsStarted /\ ClientsArrived /\ NoStaleBreak /\ StopMeansOver
      /\ JoinHasCaller /\ GoneMeansOver
  BY DEF Server!Init, TargetsStarted, ClientsArrived, NoStaleBreak,
         StopMeansOver, JoinHasCaller, GoneMeansOver, isruning
<1>. QED
  BY <1>1, <1>2, <1>3 DEF ServerInductive

\* Break, Clear and re-creation keep the breaker's variables in their types, and the
\* byte in the pipe explained.
LEMMA BreakerSteps ==
  ASSUME Server!BreakerTypeOK, PipeHasCause
  PROVE  /\ Server!Clear => Server!BreakerTypeOK' /\ pipeBytes' = 0
         /\ (IF Server!BreakResult THEN Server!Break ELSE Server!CloseAndReCreate) =>
                /\ Server!BreakerTypeOK'
                /\ pipeBytes' > 0 => pipeOpen' /\ broken_'
<1>. USE DEF Server!BreakerTypeOK, PipeHasCause
<1>1. ASSUME Server!Clear PROVE Server!BreakerTypeOK' /\ pipeBytes' = 0
  <2>1. broken_' \in BOOLEAN /\ pipeOpen' \in BOOLEAN
    BY <1>1 DEF Server!Clear, Server!breakerVars
  <2>2. pipeBytes' = 0
    BY <1>1 DEF Server!Clear, Server!breakerVars
  <2>. QED
    BY <2>1, <2>2
<1>2. Server!BreakResult /\ Server!Break => Server!BreakerTypeOK' /\ (pipeBytes' > 0 => pipeOpen' /\ broken_')
  BY DEF Server!Break, Server!BreakResult
<1>3. Server!CloseAndReCreate => Server!BreakerTypeOK' /\ (pipeBytes' > 0 => pipeOpen' /\ broken_')
  BY DEF Server!CloseAndReCreate
<1>. QED
  BY <1>1, <1>2, <1>3

\* No step of a user, of the listen thread or of a peer breaks the invariants of the server.
LEMMA ServerStep ==
  ASSUME ServerInductive, [Server!Next]_(Server!vars)
  PROVE  ServerInductive'
<1>. USE ServerAssumption DEF ServerInductive, Server!TypeOK, TargetsStarted, ClientsArrived,
                              NoStaleBreak, isruning, Server!isruning, Server!Goto
<1>1. ASSUME NEW u \in Users, Server!StartNew(u) PROVE ServerInductive'
  <2>1. Server!BreakerTypeOK' /\ pipeBytes' = 0
    BY <1>1, BreakerSteps DEF Server!StartNew
  <2>2. PipeHasCause'
    BY <2>1 DEF PipeHasCause
  <2>3. \/ lpc' = "start" /\ started' = started + 1 /\ pthread' = "joinable"
        \/ UNCHANGED <<lpc, started>> /\ pthread' = "gone"
    BY <1>1 DEF Server!StartNew
  <2>4. TargetsStarted' /\ StopMeansOver' /\ JoinHasCaller' /\ GoneMeansOver'
    BY <1>1, <2>3 DEF Server!StartNew, StopMeansOver, JoinHasCaller, GoneMeansOver
  <2>5. {watched', stopped', recreated'} \subseteq BOOLEAN
    BY <1>1 DEF Server!StartNew
  <2>6. started' \in 0 .. MaxStarts
    BY <1>1 DEF Server!StartNew
  <2>7. Server!TypeOK'
    BY <1>1, <2>1, <2>3, <2>5, <2>6 DEF Server!StartNew, Server!netVars
  <2>8. ClientsArrived' /\ NoStaleBreak'
    BY <1>1, <2>3 DEF Server!StartNew, Server!netVars
  <2>. QED
    BY <2>2, <2>4, <2>7, <2>8
<1>2. ASSUME NEW u \in Users, Server!Stop(u) PROVE ServerInductive'
  <2>1. Server!BreakerTypeOK' /\ PipeHasCause'
    BY <1>2, BreakerSteps DEF Server!Stop, PipeHasCause
  <2>2. StopMeansOver' /\ JoinHasCaller' /\ GoneMeansOver'
    BY <1>2 DEF Server!Stop, Server!serverVars, Server!joinVars, StopMeansOver, JoinHasCaller,
                GoneMeansOver
  <2>. QED
    BY <1>2, <2>1, <2>2 DEF Server!Stop, Server!serverVars, Server!joinVars, Server!netVars
<1>3. ASSUME NEW u \in Users,
             \/ Server!StopCheck(u) \/ Server!JoinLock(u) \/ Server!JoinTid(u)
             \/ Server!StopJoin(u) \/ Server!JoinUndefined(u) \/ Server!StopReturn(u)
      PROVE  ServerInductive'
  <2>. USE DEF Server!serverVars, Server!joinVars
  <2>1. GoneMeansOver'
    BY <1>3 DEF Server!StopCheck, Server!JoinLock, Server!JoinTid, Server!StopJoin,
                Server!JoinUndefined, Server!StopReturn, GoneMeansOver
  <2>2. JoinHasCaller'
    BY <1>3 DEF Server!StopCheck, Server!JoinLock, Server!JoinTid, Server!StopJoin,
                Server!JoinUndefined, Server!StopReturn, JoinHasCaller, GoneMeansOver
  \* The one who is refused leaves another behind in the join.
  <2>3. StopMeansOver'
    <3>1. CASE Server!JoinTid(u)
      BY <3>1 DEF Server!JoinTid, StopMeansOver, JoinHasCaller
    <3>2. CASE Server!StopCheck(u) \/ Server!JoinLock(u) \/ Server!StopReturn(u)
      BY <3>2 DEF Server!StopCheck, Server!JoinLock, Server!StopReturn, StopMeansOver
    <3>3. CASE Server!StopJoin(u) \/ Server!JoinUndefined(u)
      BY <3>3 DEF Server!StopJoin, Server!JoinUndefined, StopMeansOver, GoneMeansOver
    <3>. QED
      BY <1>3, <3>1, <3>2, <3>3
  <2>4. isjoined' \in BOOLEAN
    BY <1>3, Zenon DEF Server!StopCheck, Server!JoinLock, Server!JoinTid, Server!StopJoin,
                       Server!JoinUndefined, Server!StopReturn
  <2>5. Server!TypeOK' /\ PipeHasCause' /\ TargetsStarted' /\ ClientsArrived' /\ NoStaleBreak'
    BY <1>3, <2>4 DEF Server!StopCheck, Server!JoinLock, Server!JoinTid, Server!StopJoin,
                Server!JoinUndefined, Server!StopReturn, PipeHasCause,
                Server!BreakerTypeOK, Server!breakerVars, Server!netVars
  <2>. QED
    BY <2>1, <2>2, <2>3, <2>5
<1>4. ASSUME NEW u \in Users,
             Server!StartRunning(u) \/ Server!StartWoken(u) \/ Server!StartReturn(u) \/ Server!Spurious(u)
      PROVE  ServerInductive'
  BY <1>4 DEF Server!StartRunning, Server!StartWoken, Server!StartReturn, Server!Spurious,
              PipeHasCause, Server!BreakerTypeOK, Server!breakerVars, Server!serverVars,
              Server!joinVars, Server!netVars, StopMeansOver, JoinHasCaller, GoneMeansOver
<1>5. CASE Server!Listen \/ Server!PreSelect \/ Server!Interrupted
  BY <1>5 DEF Server!Listen, Server!PreSelect, Server!Interrupted, PipeHasCause,
              Server!BreakerTypeOK, Server!breakerVars, Server!joinVars, Server!userVars,
              Server!netVars, StopMeansOver, JoinHasCaller, GoneMeansOver
\* The listener takes a break for one of its own time: the byte explains it.
<1>6. CASE Server!Select
  BY <1>6 DEF Server!Select, Server!BreakReadable, PipeHasCause, Server!BreakerTypeOK,
              Server!breakerVars, Server!joinVars, Server!userVars, StopMeansOver,
              JoinHasCaller, GoneMeansOver
<1>7. CASE Server!CloseListen
  <2>. USE DEF Server!userVars, Server!joinVars
  <2>1. StopMeansOver' /\ JoinHasCaller' /\ GoneMeansOver'
    BY <1>7 DEF Server!CloseListen, StopMeansOver, JoinHasCaller, GoneMeansOver
  <2>. QED
    BY <1>7, <2>1 DEF Server!CloseListen, PipeHasCause, Server!BreakerTypeOK,
                      Server!breakerVars, Server!netVars
<1>8. CASE Server!ClientArrives
  BY <1>8 DEF Server!ClientArrives, PipeHasCause, Server!BreakerTypeOK, Server!breakerVars,
              Server!serverVars, Server!joinVars, Server!userVars, StopMeansOver,
              JoinHasCaller, GoneMeansOver
<1>9. CASE UNCHANGED Server!vars
  BY <1>9 DEF Server!vars, PipeHasCause, Server!BreakerTypeOK, Server!breakerVars,
              Server!serverVars, Server!joinVars, Server!userVars, Server!netVars,
              StopMeansOver, JoinHasCaller, GoneMeansOver
<1>. QED
  BY <1>1, <1>2, <1>3, <1>4, <1>5, <1>6, <1>7, <1>8, <1>9 DEF Server!Next, Server!UserCall,
                                                        Server!UserStep, Server!ListenThread

\* The invariants of the server hold in every behaviour of starts, stops, listeners and failing
\* calls (tcpserver.cc 43-183).
THEOREM ServerHolds == Server!Spec => []ServerInductive
<1>1. Server!Init => ServerInductive
  BY ServerInit
<1>2. ServerInductive /\ [Server!Next]_(Server!vars) => ServerInductive'
  BY ServerStep
<1>. QED
  BY <1>1, <1>2, PTL DEF Server!Spec

\* Every variable of the server keeps its type for any users, faults and bounds; the pipe
\* never holds more than one byte, so that one Clear is enough (socketselect.cc 66-96).
THEOREM ServerTypeCorrect == Server!Spec => []Server!TypeOK
<1>1. ServerInductive => Server!TypeOK
  BY DEF ServerInductive
<1>2. Server!Spec => []ServerInductive
  BY ServerHolds
<1>. QED
  BY <1>1, <1>2, PTL

\* StartAndWait clears what an earlier StopAndWait left in the pipe before its listener
\* can poll: no listener is ended by a break that is not of its own time (tcpserver.cc 50-53).
THEOREM BreaksAreFresh == Server!Spec => []NoStaleBreak
<1>1. ServerInductive => NoStaleBreak
  BY DEF ServerInductive
<1>2. Server!Spec => []ServerInductive
  BY ServerHolds
<1>. QED
  BY <1>1, <1>2, PTL

\* When StopAndWait returns, the listener that ran when it was called is over, whoever has
\* started the server again meanwhile; only a caller who comes second, and is refused by
\* pthread_join, leaves before, and then another caller is inside the join of that listener
\* (tcpserver.cc 58-71, thread.h 277-294).
THEOREM StopIsFinal == Server!Spec => []StopMeansOver
<1>1. ServerInductive => StopMeansOver
  BY DEF ServerInductive
<1>2. Server!Spec => []ServerInductive
  BY ServerHolds
<1>. QED
  BY <1>1, <1>2, PTL
==============================================================================
