------------------------------ MODULE MCTcpClient ------------------------------
(***************************************************************************)
(* TcpClient on small instances.                                           *)
(***************************************************************************)
EXTENDS TcpClient

CONSTANT u1

\* A thread and the observer that calls back from the worker.
ThreadAndObserver == {u1, Callback}
OneThread == {u1}
================================================================================
