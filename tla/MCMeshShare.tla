---------------------------- MODULE MCMeshShare -----------------------------
(* Small instances of MeshShare. *)
EXTENDS MeshShare, TLC

CONSTANTS s1, e1, v1, v2

\* Device 1 had a value before it shared, the others nothing.
OneSetUp == [d \in Devices |-> [k \in Settings |-> IF d = 1 THEN v1 ELSE Null]]
\* Every device had a value, device 1 its own.
SetUp == [d \in Devices |-> [k \in Settings |-> IF d = 1 THEN v1 ELSE v2]]
=============================================================================
