----------------------------- MODULE MCIngestion -----------------------------
EXTENDS Ingestion

CONSTANTS j1, j2, j3, r1, r2

MCAt == [j \in Jobs |-> IF j = j2 THEN r2 ELSE r1]
MCSizes == [j \in Jobs |-> CASE j = j1 -> {0, 2, 3} [] j = j2 -> {2} [] j = j3 -> {1, 2, 3}]
=============================================================================
