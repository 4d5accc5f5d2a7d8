------------------------------ MODULE UdpSocket ------------------------------
(***************************************************************************)
(* UdpClient in its asynchronous form and UdpServer (network/udpclient.cc, *)
(* network/udpserver.cc): a thread sends the datagrams that SendAsync      *)
(* queues and reports the ones that arrive, until an error ends it or the  *)
(* destructor does, by setting event_ to NULL and breaking its poll.  The  *)
(* two classes are the same but for two things: the server starts its      *)
(* thread in the constructor and has no OnDataSent.                        *)
(*                                                                         *)
(* Granularity.  SendAsync holds mutex_ throughout, and the worker looks   *)
(* at the queue only under it: one step.  poll and the Clear that follows  *)
(* it in SocketSelect::Select (autoclear_) are two, and so are the test of *)
(* event_ and its use, because the destructor takes no lock.  Callers of   *)
(* the other operations do not overlap with the destructor.                *)
(*                                                                         *)
(* Data.  A datagram is its number; addresses (SetIpPort writes addr_      *)
(* without the lock) are left out, and so are SendBlock and ReadBlock,     *)
(* which have no thread and no state.                                      *)
(***************************************************************************)
EXTENDS SocketSelectBreaker, Sequences, SequencesExt

CONSTANTS MaxSends,    \* bound: calls of SendAsync
          MaxArrivals, \* bound: datagrams that arrive
          MaxErrors,   \* bound: failures of poll, sendto and recvfrom
          Faults       \* what may fail: "create" (pthread_create), "poll", "io"

ASSUME BoundsAssumption ==
    /\ MaxSends \in Nat /\ MaxArrivals \in Nat /\ MaxErrors \in Nat
    /\ Faults \subseteq {"create", "poll", "io"}

VARIABLES
    kind,         \* "client" or "server"
    event_,       \* event_ is not NULL
    list_buffer_, \* the datagrams to send
    wpc,          \* where the thread is; "off": not started, or over (isended)
    bWriteSet,    \* the worker polls for writing, not for reading
    seen,         \* how poll returned: "break", "io" or "error"
    inbox,        \* datagrams the socket holds
    sent,         \* the datagrams sendto took
    dpc,          \* where the owner is: "using", or in the destructor
    queued,       \* calls of SendAsync so far
    arrived,      \* datagrams that arrived so far
    errors,       \* failures so far
    stranded,     \* history: the datagrams in the queue of a thread that is over
    swallowed     \* history: Clear drained the break of the destructor unseen

workerVars == <<wpc, bWriteSet, seen>>
netVars == <<inbox, sent, arrived, errors>>
ownerVars == <<event_, dpc, queued>>
vars == <<kind, breakerVars, list_buffer_, workerVars, netVars, ownerVars, stranded, swallowed>>

Init ==
    /\ BreakerInit
    /\ kind \in {"client", "server"}
    /\ event_ = TRUE /\ list_buffer_ = <<>>
    /\ wpc \in IF kind = "client" THEN {"off"}
              ELSE {"loop"} \cup (IF "create" \in Faults THEN {"off"} ELSE {})
    /\ bWriteSet = FALSE /\ seen = "io"
    /\ inbox = 0 /\ sent = {} /\ dpc = "using"
    /\ queued = 0 /\ arrived = 0 /\ errors = 0 /\ stranded = {} /\ swallowed = FALSE

isruning == wpc # "off"

\* A failure of kind f.
Fails(f) == f \in Faults /\ errors < MaxErrors /\ errors' = errors + 1

------------------------------------------------------------------------------
(* The owner.                                                              *)

\* start(): one thread at a time; pthread_create may fail.
StartThread ==
    \/ isruning /\ UNCHANGED <<wpc, errors>>
    \/ ~isruning /\ wpc' = "loop" /\ UNCHANGED errors
    \/ ~isruning /\ Fails("create") /\ UNCHANGED wpc

\* Mutant: a running thread is left to find the datagram by itself.
SendAsyncQuiet ==
    /\ dpc = "using" /\ queued < MaxSends
    /\ queued' = queued + 1
    /\ list_buffer_' = Append(list_buffer_, queued + 1)
    /\ StartThread
    /\ stranded' = IF wpc' \in {"off", "leave"} THEN ToSet(list_buffer_') ELSE {}
    /\ UNCHANGED <<kind, breakerVars, bWriteSet, seen, inbox, sent, arrived, event_, dpc, swallowed>>

\* SendAsync(): queue the datagram, start the thread unless it runs, break its poll.
SendAsync ==
    /\ dpc = "using" /\ queued < MaxSends
    /\ queued' = queued + 1
    /\ list_buffer_' = Append(list_buffer_, queued + 1)
    /\ StartThread
    /\ Break
    /\ stranded' = IF wpc' \in {"off", "leave"} THEN ToSet(list_buffer_') ELSE {}
    /\ UNCHANGED <<kind, bWriteSet, seen, inbox, sent, arrived, event_, dpc, swallowed>>

\* Mutant: the destructor breaks the poll first and sets event_ afterwards.
DestroySwapped ==
    /\ dpc \in {"using", "break"}
    /\ IF isruning /\ dpc = "using"
       THEN Break /\ dpc' = "break" /\ UNCHANGED event_
       ELSE dpc' = "join" /\ event_' = FALSE /\ UNCHANGED breakerVars
    /\ UNCHANGED <<kind, list_buffer_, workerVars, netVars, queued, stranded, swallowed>>

\* The destructor up to its join: event_ = NULL, then Break().
Destroy ==
    /\ dpc \in {"using", "break"}
    /\ IF isruning /\ dpc = "using"
       THEN event_' = FALSE /\ dpc' = "break" /\ UNCHANGED breakerVars
       ELSE dpc' = "join" /\ Break /\ UNCHANGED event_
    /\ UNCHANGED <<kind, list_buffer_, workerVars, netVars, queued, stranded, swallowed>>

\* The thread has been joined, or did not run: the queue is cleared.
Destroyed ==
    /\ dpc = "join" /\ ~isruning
    /\ dpc' = "destroyed" /\ list_buffer_' = <<>>
    /\ Break
    /\ UNCHANGED <<kind, workerVars, netVars, event_, queued, stranded, swallowed>>

------------------------------------------------------------------------------
(* __RunLoop and __DoSelect, in the thread.                                *)

\* Under mutex_: write when there is something to write, and only then.
Look ==
    /\ wpc = "loop"
    /\ bWriteSet' = (list_buffer_ # <<>>)
    /\ wpc' = "poll"
    /\ UNCHANGED <<kind, breakerVars, list_buffer_, seen, netVars, ownerVars, stranded, swallowed>>

\* poll returns: with the break, for the socket, or with an error.
Poll ==
    /\ wpc = "poll"
    /\ \/ BreakReadable /\ seen' = "break" /\ UNCHANGED errors
       \/ ~BreakReadable /\ (bWriteSet \/ inbox > 0) /\ seen' = "io" /\ UNCHANGED errors
       \/ Fails("poll") /\ seen' = "error"
    /\ wpc' = "clear"
    /\ UNCHANGED <<kind, breakerVars, list_buffer_, bWriteSet, inbox, sent, arrived, ownerVars,
                   stranded, swallowed>>

\* autoclear_: the pipe is drained whatever poll has seen.
AutoClear ==
    /\ wpc = "clear"
    /\ Clear
    /\ wpc' = seen
    /\ swallowed' = (swallowed \/ (dpc = "join" /\ seen = "io" /\ BreakReadable))
    /\ UNCHANGED <<kind, list_buffer_, bWriteSet, seen, netVars, ownerVars, stranded>>

\* __DoSelect has returned -2.
Broken ==
    /\ wpc = "break"
    /\ wpc' = IF event_ THEN "loop" ELSE "leave"
    /\ UNCHANGED <<kind, breakerVars, list_buffer_, bWriteSet, seen, netVars, ownerVars,
                   stranded, swallowed>>

\* sendto, and the test of event_ behind it (client only).
Send ==
    /\ wpc = "io" /\ bWriteSet
    /\ \/ /\ sent' = sent \cup {Head(list_buffer_)}
          /\ wpc' = IF kind = "client" /\ event_ THEN "call" ELSE "pop"
          /\ UNCHANGED errors
       \/ Fails("io") /\ wpc' = "error" /\ UNCHANGED sent
    /\ UNCHANGED <<kind, breakerVars, list_buffer_, bWriteSet, seen, inbox, arrived, ownerVars,
                   stranded, swallowed>>

\* recvfrom, and the test of event_ behind it.
Receive ==
    /\ wpc = "io" /\ ~bWriteSet
    /\ \/ /\ inbox' = inbox - 1
          /\ wpc' = IF event_ THEN "call" ELSE "loop"
          /\ UNCHANGED errors
       \/ Fails("io") /\ wpc' = "error" /\ UNCHANGED inbox
    /\ UNCHANGED <<kind, breakerVars, list_buffer_, bWriteSet, seen, sent, arrived, ownerVars,
                   stranded, swallowed>>

\* OnDataSent, OnDataGramRead: through event_, which may be NULL by now.
Call ==
    /\ wpc = "call"
    /\ wpc' = IF ~event_ THEN "crashed" ELSE IF bWriteSet THEN "pop" ELSE "loop"
    /\ UNCHANGED <<kind, breakerVars, list_buffer_, bWriteSet, seen, netVars, ownerVars,
                   stranded, swallowed>>

\* Under mutex_.
Pop ==
    /\ wpc = "pop"
    /\ list_buffer_' = Tail(list_buffer_)
    /\ wpc' = "loop"
    /\ UNCHANGED <<kind, breakerVars, bWriteSet, seen, netVars, ownerVars, stranded, swallowed>>

\* __DoSelect has returned -1: OnError, when event_ is set, and then the loop ends.
Error ==
    /\ wpc \in {"error", "callError"}
    /\ wpc' = IF wpc = "error" THEN (IF event_ THEN "callError" ELSE "leave")
              ELSE IF event_ THEN "leave" ELSE "crashed"
    /\ stranded' = IF wpc' = "leave" THEN ToSet(list_buffer_) ELSE stranded
    /\ UNCHANGED <<kind, breakerVars, list_buffer_, bWriteSet, seen, netVars, ownerVars, swallowed>>

\* Thread::cleanup: isended = true.
Leave ==
    /\ wpc = "leave"
    /\ wpc' = "off"
    /\ UNCHANGED <<kind, breakerVars, list_buffer_, bWriteSet, seen, netVars, ownerVars,
                   stranded, swallowed>>

Arrive ==
    /\ arrived < MaxArrivals /\ dpc # "destroyed"
    /\ arrived' = arrived + 1 /\ inbox' = inbox + 1
    /\ UNCHANGED <<kind, breakerVars, list_buffer_, workerVars, sent, errors, ownerVars,
                   stranded, swallowed>>

------------------------------------------------------------------------------
Worker == \/ Look \/ Poll \/ AutoClear \/ Broken \/ Send \/ Receive \/ Call \/ Pop
          \/ Error \/ Leave

Next == Worker \/ SendAsync \/ Destroy \/ Destroyed \/ Arrive

\* The thread is scheduled, and a destructor that has begun goes on; nobody has to
\* call it.
Spec == Init /\ [][Next]_vars
             /\ WF_vars(Worker)
             /\ WF_vars(dpc # "using" /\ (Destroy \/ Destroyed))

------------------------------------------------------------------------------
(* Properties.                                                             *)

\* A null pointer was followed: the destructor set event_ to NULL between a test of it
\* and the call.
Crashed == wpc = "crashed"

\* A datagram that SendAsync has queued is sent, also when the thread was just going to
\* sleep for reading, unless the thread ends first (by an error, or by the destructor) or
\* the breaker has no pipe.  One queued when an error has ended the loop but not yet the
\* thread is stranded: isruning() still holds, and nobody starts another thread
\* (udpclient.cc 69-83, 141-146).
QueuedIsSent ==
    \A k \in 1 .. MaxSends :
        (k \in ToSet(list_buffer_) /\ pipeOpen) ~> (k \in sent \/ k \in stranded \/ ~event_)

\* The destructor returns: event_ is NULL before its break is sent, so that the thread
\* that sees the break ends.  It does not return when a poll had just returned for a
\* datagram and the Clear behind it drained the break, which nobody sends again; without
\* a pipe; and when the thread has crashed (udpclient.cc 27-41, socketselect.cc 312-324).
DestructorReturns ==
    dpc = "break" ~> (dpc = "destroyed" \/ swallowed \/ ~pipeOpen \/ Crashed)

==============================================================================
