---------------------------- MODULE MCSyncRetries ----------------------------
(***************************************************************************)
(* OfflineSync on small instances, watched by a history variable that      *)
(* remembers whether uploads have never overlapped.  It restricts nothing: *)
(* the property that needs it says so.                                     *)
(***************************************************************************)
EXTENDS OfflineSync, TLC

VARIABLE orderly

Orderly == Cardinality(Running) <= 1

MCInit == Init /\ orderly = TRUE
MCNext == Next /\ orderly' = (orderly /\ Orderly')
MCSpec == MCInit /\ [][MCNext]_<<vars, orderly>> /\ Fairness

(* As long as uploads have not overlapped, and only replies and inserts    *)
(* fail, the stats are worth exactly the stored events: an answer given    *)
(* offline "counts for exactly what it would have online", retries         *)
(* notwithstanding.                                                        *)
OrderlyStatsMatchTheLog == orderly => StatsMatchTheLog
=============================================================================
