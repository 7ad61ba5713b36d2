--------------------------- MODULE MCUpstreamPool ---------------------------
(* Instances of UpstreamPool for TLC.  The handlers are interchangeable: no  *)
(* action or safety property tells one from another, so their permutations   *)
(* are a symmetry of the runs that check no liveness.                        *)
EXTENDS UpstreamPool, TLC

HandlerSymmetry == Permutations(Requests)
=============================================================================
