----------------------------- MODULE Synthesis -----------------------------
(***************************************************************************)
(* AI synthesis as a whole (ai/): the artifacts and those who ask for them *)
(* (AIArtifacts), and the evidence that artifacts are keyed by and         *)
(* prompted with (Evidence, E!).                                           *)
(***************************************************************************)
EXTENDS AIArtifacts

CONSTANTS
  Name, Domain, MaxContributors, MaxTopicRepos, MaxHubs, MaxBridges, MaxRelated,
  BridgeLimit, Size, Caps, MaxMeasures

VARIABLES kind, facts, order, forward, bundle, cap, measures

evidence == <<kind, facts, order, forward, bundle, cap, measures>>

E == INSTANCE Evidence
---------------------------------------------------------------------------
SynthesisInit == Init /\ E!Init

SynthesisNext ==
  \/ Next /\ UNCHANGED evidence
  \/ E!Next /\ UNCHANGED vars

SynthesisSpec == SynthesisInit /\ [][SynthesisNext]_<<vars, evidence>>
=============================================================================
