--------------------------- MODULE MCSourceImport ---------------------------
EXTENDS SourceImport, TLC

\* Every object has the same name once it is sanitized.
MCTableOf == [o \in Objects |-> "orders"]

MCSymmetry == Permutations(Requests) \cup Permutations(Pgs)
=============================================================================
