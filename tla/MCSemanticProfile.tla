------------------------- MODULE MCSemanticProfile -------------------------
EXTENDS SemanticProfile, TLC

\* One schema with two questions, one with none.
MCCandidates ==
    [sig \in Signatures |-> [k \in Keys |-> IF sig = "wide" THEN 2 ELSE IF k = "time" THEN 1 ELSE 0]]

\* An override answers one question, or none.
MCOverrides == {{}, {"time"}}

MCSymmetry == Permutations(Sessions) \cup Permutations(Sources) \cup Permutations(Callers)
=============================================================================
