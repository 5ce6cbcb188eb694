---------------------------- MODULE MCTaskStream ----------------------------
(* Instances of TaskStream for TLC.                                        *)
EXTENDS TaskStream, TLC

CONSTANTS e1, e2, t1, t2

\* Only documents.
OneDocument == [t \in Tasks |-> "document"]
\* One document, one memory task or debug run.
DocAndMemory == (t1 :> "document") @@ (t2 :> "memory")
DocumentAndDebug == (t1 :> "document") @@ (t2 :> "debug")
SplitQueues == (t1 :> 1) @@ (t2 :> 2)
OneQueue == [t \in Tasks |-> 2]

Symmetry == Permutations(Executors)
=============================================================================
