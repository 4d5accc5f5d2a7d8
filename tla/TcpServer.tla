------------------------------ MODULE TcpServer ------------------------------
(***************************************************************************)
(* TcpServer (network/tcpserver.cc): a listening socket served by a thread *)
(* of its own.  StartAndWait starts the thread and waits on cond_ for the  *)
(* outcome of socket/bind/listen; StopAndWait breaks the thread's poll and *)
(* joins it.  The object can be started and stopped again and again.       *)
(*                                                                         *)
(* Every section under mutex_ or under thread_'s spin lock is one step.    *)
(* The numbered instances of the thread stand for the pthreads that        *)
(* thread_ starts one after the other; tid() names the last one.  A        *)
(* pthread_join is refused while another caller joins that pthread, and    *)
(* what the join of a pthread that is gone does is left open.  The callers *)
(* are not the listening thread, whose join is EDEADLK.                    *)
(***************************************************************************)
EXTENDS TcpServerState, SocketSelectBreaker, FiniteSets

serverVars == <<listen_sock_, started, lpc, watched>>
joinVars == <<isjoined, pthread, undefined>>
userVars == <<waiting, upc, target, noThread>>
netVars == <<arrived, clients>>
vars == <<breakerVars, serverVars, joinVars, userVars, netVars, stopped, recreated>>

Init == /\ BreakerInit
        /\ listen_sock_ = "none" /\ started = 0 /\ lpc = "ended" /\ watched = FALSE
        /\ waiting = {} /\ upc = [u \in Users |-> "idle"] /\ target = [u \in Users |-> 0]
        /\ noThread = {} /\ stopped = FALSE /\ recreated = FALSE
        /\ isjoined = FALSE /\ pthread = "gone" /\ undefined = {}
        /\ arrived = 0 /\ clients = 0

Goto(u, l) == upc' = [upc EXCEPT ![u] = l]
------------------------------------------------------------------------------
(* The users.                                                              *)

\* StartAndWait() while the thread runs, even one that is about to end: returns
\* whether there is a listening socket.
StartRunning(u) == /\ upc[u] = "idle" /\ isruning
                   /\ Goto(u, IF listen_sock_ # "none" THEN "yes" ELSE "no")
                   /\ UNCHANGED <<breakerVars, serverVars, joinVars, waiting, target, noThread,
                                  netVars, stopped, recreated>>

\* Mutant: a break left over from an earlier stop is not cleared.
StartNoClear(u) == /\ upc[u] = "idle" /\ ~isruning /\ started < MaxStarts
                   /\ lpc' = "start" /\ started' = started + 1 /\ noThread' = noThread
                   /\ pthread' = "joinable"
                   /\ Goto(u, "wait") /\ waiting' = waiting \cup {u}
                   /\ stopped' = FALSE
                   /\ UNCHANGED <<breakerVars, listen_sock_, watched, isjoined, undefined, target,
                                  netVars,
                                  recreated>>

\* StartAndWait() otherwise: start the thread, clear the breaker, wait.  start()
\* reports a new thread even when pthread_create has failed, which leaves nothing in tid.
StartNew(u) == /\ upc[u] = "idle" /\ ~isruning /\ started < MaxStarts
               /\ \/ /\ lpc' = "start" /\ started' = started + 1 /\ pthread' = "joinable"
                     /\ noThread' = noThread
                  \/ /\ "create" \in Faults
                     /\ noThread' = noThread \cup {u} /\ pthread' = "gone"
                     /\ UNCHANGED <<lpc, started>>
               /\ Clear
               /\ Goto(u, "wait") /\ waiting' = waiting \cup {u}
               /\ stopped' = FALSE
               /\ UNCHANGED <<listen_sock_, watched, isjoined, undefined, target, netVars,
                              recreated>>

\* cond_.wait returns once; the result is read under mutex_.
StartWoken(u) == /\ upc[u] = "wait" /\ u \notin waiting
                 /\ Goto(u, IF listen_sock_ # "none" THEN "yes" ELSE "no")
                 /\ UNCHANGED <<breakerVars, serverVars, joinVars, waiting, target, noThread,
                                netVars, stopped, recreated>>

\* The caller takes the result and goes on.
StartReturn(u) == /\ upc[u] \in {"yes", "no"}
                  /\ Goto(u, "idle")
                  /\ UNCHANGED <<breakerVars, serverVars, joinVars, waiting, target, noThread,
                                 netVars, stopped, recreated>>

\* A condition variable may wake its waiters for no reason.
Spurious(u) == /\ "spurious" \in Faults /\ u \in waiting
               /\ waiting' = waiting \ {u}
               /\ UNCHANGED <<breakerVars, serverVars, joinVars, upc, target, noThread, netVars,
                              stopped, recreated>>

\* StopAndWait(): break the poll, or make a new breaker when that fails.
Stop(u) == /\ upc[u] = "idle"
           /\ IF BreakResult THEN Break ELSE CloseAndReCreate
           /\ stopped' = TRUE /\ recreated' = (recreated \/ ~BreakResult)
           /\ Goto(u, "isruning")
           /\ target' = [target EXCEPT ![u] = IF isruning THEN started ELSE 0]
           /\ UNCHANGED <<joinVars, serverVars, waiting, noThread, netVars>>

\* Mutant: no join.
StopNoJoin(u) == /\ upc[u] = "isruning"
                 /\ Goto(u, "stopped")
                 /\ UNCHANGED <<breakerVars, serverVars, joinVars, waiting, target, noThread,
                                netVars, stopped, recreated>>

\* if (thread_.isruning()), after the lock has been released.
StopCheck(u) == /\ upc[u] = "isruning"
                /\ Goto(u, IF isruning THEN "joinlock" ELSE "stopped")
                /\ UNCHANGED <<breakerVars, serverVars, joinVars, waiting, target, noThread,
                               netVars,
                               stopped, recreated>>

\* thread_.join(), under the spin lock: a thread that still runs is told that it will be
\* joined.  The assertion that nobody else has done so before can fail, and is only logged.
JoinLock(u) == /\ upc[u] = "joinlock"
               /\ isjoined' = (isjoined \/ isruning)
               /\ Goto(u, IF isruning THEN "jointid" ELSE "stopped")
               /\ UNCHANGED <<breakerVars, serverVars, pthread, undefined, waiting, target,
                              noThread,
                              netVars, stopped, recreated>>

\* pthread_join(tid(), 0), after the unlock: tid names the instance started last, which
\* may be a later one than the one that was told.
JoinTid(u) == /\ upc[u] = "jointid"
              /\ target' = [target EXCEPT ![u] = started]
              /\ \/ /\ pthread = "joinable" /\ pthread' = "joined"
                    /\ Goto(u, "join") /\ UNCHANGED undefined
                 \/ pthread = "joined" /\ Goto(u, "stopped") /\ UNCHANGED <<pthread, undefined>>
                 \/ /\ pthread = "gone" /\ undefined' = undefined \cup {u}
                    /\ Goto(u, "join") /\ UNCHANGED pthread
              /\ UNCHANGED <<breakerVars, serverVars, isjoined, waiting, noThread, netVars, stopped,
                             recreated>>

StopJoin(u) == /\ upc[u] = "join" /\ u \notin undefined /\ (~isruning \/ started # target[u])
               /\ pthread' = IF target[u] = started THEN "gone" ELSE pthread
               /\ Goto(u, "stopped")
               /\ UNCHANGED <<breakerVars, serverVars, isjoined, undefined, waiting, target,
                              noThread,
                              netVars, stopped, recreated>>

\* The join of a pthread that is gone may return, with an error, and need not.
JoinUndefined(u) == /\ upc[u] = "join" /\ u \in undefined
                    /\ Goto(u, "stopped") /\ undefined' = undefined \ {u}
                    /\ UNCHANGED <<breakerVars, serverVars, isjoined, pthread, waiting, target,
                                   noThread,
                                   netVars, stopped, recreated>>

StopReturn(u) == /\ upc[u] = "stopped"
                 /\ Goto(u, "idle") /\ target' = [target EXCEPT ![u] = 0]
                 /\ UNCHANGED <<breakerVars, serverVars, joinVars, waiting, noThread, netVars,
                                stopped,
                                recreated>>

UserStep(u) == \/ StartWoken(u) \/ StartReturn(u)
               \/ StopCheck(u) \/ JoinLock(u) \/ JoinTid(u) \/ StopJoin(u) \/ StopReturn(u)
UserCall(u) == StartRunning(u) \/ StartNew(u) \/ Stop(u)
------------------------------------------------------------------------------
(* The listening thread.                                                   *)

\* Mutant: the thread that cannot listen forgets to tell the waiter.
ListenSilent ==
    /\ lpc = "start"
    /\ \/ /\ "listen" \in Faults
          /\ lpc' = "end" /\ waiting' = waiting /\ UNCHANGED listen_sock_
       \/ listen_sock_' = "open" /\ lpc' = "loop" /\ waiting' = {}
    /\ UNCHANGED <<breakerVars, joinVars, started, watched, upc, target, noThread, netVars, stopped,
                   recreated>>

\* socket, reuseaddr, bind and listen, each of which may fail; notifyAll in
\* every case; then OnCreate.
Listen ==
    /\ lpc = "start"
    /\ \/ /\ "listen" \in Faults
          /\ lpc' = "end" /\ UNCHANGED listen_sock_
       \/ listen_sock_' = "open" /\ lpc' = "loop"
    /\ waiting' = {}
    /\ UNCHANGED <<breakerVars, joinVars, started, watched, upc, target, noThread, netVars, stopped,
                   recreated>>

\* PreSelect: a breaker without a pipe has descriptor -1, which poll ignores.
PreSelect ==
    /\ lpc = "loop"
    /\ watched' = pipeOpen /\ lpc' = "poll"
    /\ UNCHANGED <<breakerVars, joinVars, listen_sock_, started, userVars, netVars, stopped,
                   recreated>>

\* Select fails, as when a signal interrupts it, or reports an error of the socket.
Interrupted ==
    /\ "interrupt" \in Faults /\ lpc = "poll"
    /\ lpc' = "end"
    /\ UNCHANGED <<breakerVars, joinVars, listen_sock_, started, watched, userVars, netVars,
                   stopped, recreated>>

\* Select and what follows: a break ends the thread, and stays in the pipe; a
\* connection is accepted and reported (OnAccept).
Select ==
    /\ lpc = "poll"
    /\ \/ watched /\ BreakReadable /\ lpc' = "broken" /\ UNCHANGED clients
       \/ /\ clients > 0 /\ ~(watched /\ BreakReadable)
          /\ \/ clients' = clients - 1 /\ lpc' = "loop"
             \/ "accept" \in Faults /\ lpc' = "end" /\ UNCHANGED clients
    /\ UNCHANGED <<breakerVars, joinVars, listen_sock_, started, watched, userVars, arrived,
                   stopped, recreated>>

\* The socket is closed and then reset, under no lock; OnError; then Thread's cleanup,
\* which detaches a pthread that nobody has announced to join, even under a join.
CloseListen ==
    /\ lpc \in {"end", "broken", "reset"}
    /\ IF listen_sock_ = "open"
       THEN listen_sock_' = "closed" /\ lpc' = "reset" /\ UNCHANGED joinVars
       ELSE /\ listen_sock_' = "none" /\ lpc' = "ended" /\ isjoined' = FALSE
            /\ pthread' = IF isjoined THEN pthread ELSE "gone"
            /\ undefined' = undefined \cup
                   {u \in Users : ~isjoined /\ upc[u] = "join" /\ target[u] = started}
    /\ UNCHANGED <<breakerVars, started, watched, userVars, netVars, stopped, recreated>>

ListenThread == Listen \/ PreSelect \/ Select \/ CloseListen

ClientArrives == /\ listen_sock_ = "open" /\ arrived < MaxClients
                 /\ arrived' = arrived + 1 /\ clients' = clients + 1
                 /\ UNCHANGED <<breakerVars, serverVars, joinVars, userVars, stopped, recreated>>

Next == \/ \E u \in Users : UserCall(u) \/ UserStep(u) \/ Spurious(u) \/ JoinUndefined(u)
        \/ ListenThread \/ Interrupted
        \/ ClientArrives

Spec == Init /\ [][Next]_vars

\* The listening thread and the callers run; nothing obliges a signal to come.
FairSpec == Spec /\ WF_vars(ListenThread) /\ \A u \in Users : WF_vars(UserStep(u))
------------------------------------------------------------------------------
(* Properties; the invariants NoStaleBreak and StopMeansOver are in        *)
(* TcpServerState.                                                         *)

\* The values every variable takes; the listener's position and its socket
\* agree.
TypeOK ==
    /\ BreakerTypeOK
    /\ listen_sock_ \in {"none", "open", "closed"} /\ started \in 0 .. MaxStarts
    /\ lpc \in {"start", "loop", "poll", "broken", "end", "reset", "ended"}
    /\ lpc \in {"loop", "poll", "broken"} => listen_sock_ = "open"
    /\ {watched, stopped, recreated} \subseteq BOOLEAN
    /\ waiting \subseteq Users /\ noThread \subseteq Users
    /\ upc \in [Users -> {"idle", "wait", "yes", "no", "isruning", "joinlock", "jointid", "join",
                          "stopped"}]
    /\ isjoined \in BOOLEAN /\ pthread \in {"joinable", "joined", "gone"}
    /\ undefined \subseteq Users
    /\ target \in [Users -> 0 .. MaxStarts]
    /\ arrived \in 0 .. MaxClients /\ clients \in 0 .. MaxClients

\* StopAndWait returns, unless the server is started again in the meantime, which
\* clears the break; or the breaker is not the one the constructor made: one that
\* StopAndWait has closed and created again keeps broken_ up over an empty pipe
\* and breaks nothing any more; or the join met a thread that is gone, having read tid
\* after a restart (tcpserver.cc 58-71, thread.h 286-290, socketselect.cc 21-64, 98-105).
StopReturns == \A u \in Users :
    upc[u] \in {"isruning", "joinlock", "jointid", "join"} ~>
        upc[u] = "idle" \/ ~stopped \/ recreated \/ u \in undefined

\* StartAndWait returns, except when there is no thread: pthread_create failed and
\* start() reported a new one all the same (tcpserver.cc 46-53, thread.h 147-172).
StartReturns == \A u \in Users : upc[u] = "wait" ~> upc[u] = "idle" \/ u \in noThread

\* Both calls return, whoever starts and stops the server meanwhile and whatever fails,
\* but for the cases above.
CallsReturn == StopReturns /\ StartReturns
==============================================================================
