-------------------------- MODULE MCCollectionLock --------------------------
(***************************************************************************)
(* Two invocations, a host name of two addresses, two editors.             *)
(***************************************************************************)
EXTENDS Writers

MCHost == {1, 2}

MCSpec == WritersSpec /\ WritersFairness
=============================================================================
