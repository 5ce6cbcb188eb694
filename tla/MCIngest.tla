------------------------------- MODULE MCIngest -------------------------------
(* Small instances of Ingest: the constants are all given in the .cfg files. *)
EXTENDS Ingest

\* Bound of the run with an impatient user: the progress thread computes only
\* between requests and when no task is queued (it touches no task row, key or
\* chunk, and handlers run the same computation).
ThreadWaits == sync[Thread] = NoSync \/ (queue = {} /\ api.at = "idle")
===============================================================================
