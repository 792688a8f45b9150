----------------------------- MODULE MCPageState -----------------------------
(* A page shared by two threads and an optimistic reader, with versions few   *)
(* enough to run over.                                                       *)
EXTENDS PageState
=============================================================================
