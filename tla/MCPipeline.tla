----------------------------- MODULE MCPipeline -----------------------------
(***************************************************************************)
(* Instances of Pipeline for TLC.                                          *)
(***************************************************************************)
EXTENDS Pipeline, TLC

CONSTANTS p1, p2, p3, p4, g1

\* Two places with a web site, one without and one on a social network.
Sites == p1 :> "site" @@ p2 :> "site" @@ p3 :> "none" @@ p4 :> "social"
=============================================================================
