------------------------- MODULE SocketSelectBreaker -------------------------
(***************************************************************************)
(* SocketSelectBreaker (utils/socketselect.cc): the self-pipe that wakes a *)
(* thread out of poll().  Break writes one byte, the poller sees the read  *)
(* end readable, Clear drains it.  Break and Clear hold the breaker's own  *)
(* mutex, so each is one step.  Its users (TcpClient, TcpServer,           *)
(* MultiConnect, UdpSocket) extend this module and use its operations in   *)
(* their actions.                                                          *)
(*                                                                         *)
(* A write of one byte to an open, non-blocking pipe that holds at most    *)
(* one byte does not fail; a write to a pipe that was never created (both  *)
(* descriptors -1) always does.                                            *)
(***************************************************************************)
EXTENDS Naturals

VARIABLES broken_,      \* the breaker thinks a break is pending
          pipeOpen,     \* pipes_ are valid descriptors (create_success_)
          pipeBytes     \* bytes in the pipe

breakerVars == <<broken_, pipeOpen, pipeBytes>>

BreakerTypeOK == /\ broken_ \in BOOLEAN
                 /\ pipeOpen \in BOOLEAN
                 /\ pipeBytes \in 0 .. 1

\* The constructor: pipe() may fail.
BreakerInit == /\ broken_ = FALSE
               /\ pipeOpen \in BOOLEAN
               /\ pipeBytes = 0

\* What Break() returns when called in this state.
BreakResult == broken_ \/ pipeOpen

\* Break(): nothing to do when a break is pending; otherwise write one byte and
\* raise the flag, which a failed write takes back.
Break == /\ broken_' = BreakResult
         /\ pipeBytes' = IF ~broken_ /\ pipeOpen THEN pipeBytes + 1 ELSE pipeBytes
         /\ UNCHANGED pipeOpen

\* Mutant: the pipe is drained but the flag stays up.
ClearKeepsFlag == /\ pipeBytes' = 0
                  /\ UNCHANGED <<broken_, pipeOpen>>

\* Clear(): read() takes every byte and only a successful read lowers the flag.
Clear == IF pipeOpen /\ pipeBytes > 0
         THEN /\ pipeBytes' = 0
              /\ broken_' = FALSE
              /\ UNCHANGED pipeOpen
         ELSE UNCHANGED breakerVars

\* Close() followed by ReCreate(), the way StopAndWait uses them: Close raises
\* the flag and ReCreate, which makes the new pipe, does not lower it.
CloseAndReCreate == /\ broken_' = TRUE
                    /\ pipeOpen' \in BOOLEAN
                    /\ pipeBytes' = 0

\* poll() reports the breaker's descriptor (SocketSelect::IsBreak).
BreakReadable == pipeOpen /\ pipeBytes > 0
=============================================================================
