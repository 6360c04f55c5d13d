--------------------------- MODULE MCCassSessions ---------------------------
EXTENDS CassSessions, TLC

\* Of one block or of two that are equal.
MCContents == UNION {[1..n -> {x}] : n \in 1..2, x \in Blocks}

SessionFiles == Permutations(Files) \union Permutations(Blocks)
=============================================================================
