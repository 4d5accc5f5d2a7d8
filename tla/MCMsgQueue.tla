----------------------------- MODULE MCMsgQueue -----------------------------
(***************************************************************************)
(* Instances of MsgQueue for TLC: the messages the clients send.           *)
(***************************************************************************)
EXTENDS MsgQueue, TLC

ClientSymmetry == Permutations(Clients)

Send(i, h, t, b) == [id |-> i, handler |-> h, after |-> t, bcast |-> b]

\* An immediate message and a delayed broadcast, alike in id and handler.
SendsDispatch == {Send(1, 0, 0, FALSE), Send(1, 0, 1, TRUE)}

\* A delayed message, sent twice; the message of quit is an immediate one.
SendsLive == {Send(1, 0, 1, FALSE)}
=============================================================================
