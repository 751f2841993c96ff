---------------------------- MODULE MCOfflineSync ----------------------------
(* OfflineSync on small instances, for the runs that check no liveness. *)
EXTENDS OfflineSync, TLC

(* Events and uploads are only ever compared. *)
Symmetry == Permutations(Events) \cup Permutations(Uploads)
=============================================================================
