--------------------------- MODULE MCTaskDispatch ---------------------------
(***************************************************************************)
(* TaskDispatch on a small instance.                                       *)
(***************************************************************************)
EXTENDS TaskDispatch

\* The tasks that are waited for are alike, and no property is temporal.
AwaitedAlike == Permutations(Awaited)
=============================================================================
