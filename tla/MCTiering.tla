----------------------------- MODULE MCTiering ------------------------------
EXTENDS Tiering

MostVMs == [p \in Policies |-> IF p = "lru" THEN 3 ELSE 2]
=============================================================================
