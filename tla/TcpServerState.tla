--------------------------- MODULE TcpServerState ---------------------------
(***************************************************************************)
(* What a TcpServer (network/tcpserver.h) and its callers remember, and    *)
(* what is promised about it in every state.  TcpServer adds the steps.    *)
(***************************************************************************)
EXTENDS Naturals

CONSTANTS Users,        \* threads that call the server
          MaxStarts,    \* bound: threads started
          MaxClients,   \* bound: connections that arrive
          Faults        \* what may go wrong: "create", "listen", "interrupt", "accept", "spurious"

ASSUME ServerAssumption ==
    /\ MaxStarts \in Nat /\ MaxClients \in Nat
    /\ Faults \subseteq {"create", "listen", "interrupt", "accept", "spurious"}

VARIABLES
    listen_sock_,       \* "none" (INVALID_SOCKET), "open", or "closed" with its number kept
    started,            \* instances of the thread so far; the last one is the current one
    lpc,                \* the listening thread: where it is
    watched,            \* poll was given the breaker's descriptor
    waiting,            \* users inside cond_.wait
    upc,                \* the users: where each is
    target,             \* the instance a user saw when it called, then the one it joins
    isjoined,           \* Thread's flag: a join of the running instance has been announced
    pthread,            \* what tid() names: a pthread "joinable", "joined" (a pthread_join
                        \* of it is under way), or none any more ("gone")
    undefined,          \* users in a pthread_join of a thread that is gone
    stopped,            \* a StopAndWait has sent its break since the last start
    noThread,           \* users whose pthread_create failed
    recreated,          \* the breaker has been closed and created again
    arrived, clients    \* connections that came, and those not yet accepted

\* thread_.isruning(): the listen thread has not ended.
isruning == lpc # "ended"
-----------------------------------------------------------------------------
\* A thread is broken off only by a StopAndWait of its own time, not by a break
\* an earlier stop left in the pipe (tcpserver.cc 50-53).
NoStaleBreak == lpc = "broken" => stopped

\* When StopAndWait returns, the thread that ran when it was called, or the later one
\* it joined, is over; but for a StopAndWait that comes second: pthread_join refuses
\* it while another caller is still inside the join of that thread (tcpserver.cc 58-71,
\* thread.h 277-294).
StopMeansOver == \A u \in Users :
    upc[u] = "stopped" /\ isruning /\ target[u] = started
        => \E w \in Users \ {u} : upc[w] = "join" /\ target[w] = started
=============================================================================
