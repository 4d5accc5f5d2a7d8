----------------------------- MODULE TimerQueue -----------------------------
(***************************************************************************)
(* What MsgQueue promises its clients, without the worker's sleeps, locks  *)
(* and iterators: messages are delivered one at a time, of those that are  *)
(* due the oldest first, none before its time, to each handler at most     *)
(* once and in the order of the handlers.  A message leaves the queue only *)
(* when a client cancels it while it is not running (cancelled remembers   *)
(* which), when it is taken away with its handler, or at its turn; then it *)
(* is delivered unless its handler is gone or the queue is closing.        *)
(* MsgQueue implements this specification.                                 *)
(***************************************************************************)
EXTENDS Integers, Sequences

VARIABLES
    issued,    \* the number of the next message
    pending,   \* the messages in the queue: number -> [due, handler]
    running,   \* the message being delivered, or None
    calls,     \* the deliveries so far: a sequence of [seq, handler]
    handlers,  \* the handlers there are
    closing,   \* the queue has been told to stop
    now,       \* the clock
    cancelled  \* the messages the clients have cancelled

vars == <<issued, pending, running, calls, handlers, closing, now, cancelled>>

None == -1

Init ==
    /\ issued = 0 /\ pending = [s \in {} |-> 0] /\ running = None /\ calls = <<>>
    /\ handlers = {0} /\ closing = FALSE /\ now = 0 /\ cancelled = {}

\* What is left of the queue when the messages in S have gone.
Remove(S) == pending' = [s \in DOMAIN pending \ S |-> pending[s]]

\* s is due, and so is nothing older.
NextDue(s) ==
    /\ s \in DOMAIN pending /\ pending[s].due <= now
    /\ \A t \in DOMAIN pending : t < s => pending[t].due > now

-----------------------------------------------------------------------------
\* A new message.
Post ==
    /\ issued' = issued + 1
    /\ DOMAIN pending' = DOMAIN pending \cup {issued}
    /\ \A s \in DOMAIN pending : pending'[s] = pending[s]
    /\ UNCHANGED <<running, calls, handlers, closing, now, cancelled>>

\* A client takes back any messages but the one being delivered.
Cancel ==
    /\ \E S \in SUBSET DOMAIN pending :
        /\ running \notin S
        /\ Remove(S)
        /\ cancelled' = cancelled \cup S
    /\ UNCHANGED <<issued, running, calls, handlers, closing, now>>

AddHandler ==
    /\ handlers \subseteq handlers'
    /\ UNCHANGED <<issued, pending, running, calls, closing, now, cancelled>>

\* A handler goes and takes its messages with it.
Withdraw ==
    /\ \E h \in handlers :
        /\ handlers' = handlers \ {h}
        /\ Remove({s \in DOMAIN pending : pending[s].handler = h})
    /\ UNCHANGED <<issued, running, calls, closing, now, cancelled>>

\* The first delivery of a message.
Deliver ==
    /\ running = None /\ ~closing
    /\ \E s \in DOMAIN pending, h \in handlers :
        /\ NextDue(s)
        /\ running' = s
        /\ calls' = Append(calls, [seq |-> s, handler |-> h])
    /\ UNCHANGED <<issued, pending, handlers, closing, now, cancelled>>

\* A broadcast is delivered to one of the handlers behind.
DeliverOn ==
    /\ running \in DOMAIN pending /\ ~closing
    /\ \E h \in handlers :
        /\ h > calls[Len(calls)].handler
        /\ calls' = Append(calls, [seq |-> running, handler |-> h])
    /\ UNCHANGED <<issued, pending, running, handlers, closing, now, cancelled>>

Finish ==
    /\ running \in DOMAIN pending
    /\ Remove({running})
    /\ running' = None
    /\ UNCHANGED <<issued, calls, handlers, closing, now, cancelled>>

\* Nobody is there to receive a message, or nobody wants it any more.
Discard ==
    /\ running = None
    /\ \E s \in DOMAIN pending :
        /\ NextDue(s)
        /\ closing \/ pending[s].handler \notin handlers
        /\ Remove({s})
    /\ UNCHANGED <<issued, running, calls, handlers, closing, now, cancelled>>

Close ==
    /\ closing' = TRUE
    /\ UNCHANGED <<issued, pending, running, calls, handlers, now, cancelled>>

Tick ==
    /\ now' = now + 1
    /\ UNCHANGED <<issued, pending, running, calls, handlers, closing, cancelled>>

-----------------------------------------------------------------------------
Next == \/ Post \/ Cancel \/ AddHandler \/ Withdraw
        \/ Deliver \/ DeliverOn \/ Finish \/ Discard
        \/ Close \/ Tick

Spec == Init /\ [][Next]_vars

=============================================================================
