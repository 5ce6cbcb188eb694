----------------------------- MODULE MCLocalScan -----------------------------
(* Small instances of LocalScan.                                           *)
EXTENDS LocalScan

\* /hdd1/a and /hdd1/ab: the path of the first is a prefix of the second's files.
PrefixInside == [d \in {"a", "ab"} |-> IF d = "a" THEN {"fa"} ELSE {"fab"}]
PrefixStartsWith == [d \in {"a", "ab"} |-> IF d = "a" THEN {"fa", "fab"} ELSE {"fab"}]

\* One directory with three files, or one.
TrioInside == [d \in {"a"} |-> {"fa", "ga", "ha"}]
SoloInside == [d \in {"a"} |-> {"fa"}]

DirA == [r \in RecIds |-> IF r = 1 THEN "a" ELSE None]
DirsAandAB == [r \in 1..2 |-> IF r = 1 THEN "a" ELSE "ab"]

\* Every edit keeps the size: the change only shows in the modification time.
Sizes == [v \in 1..MaxVersion |-> 1]
=============================================================================
