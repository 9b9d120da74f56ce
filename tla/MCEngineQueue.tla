--------------------------- MODULE MCEngineQueue ---------------------------
EXTENDS EngineQueue, TLC

CONSTANTS a, b, c, x

OneConsole == [i \in Items |-> x]

\* an item of each kind
MCKindOf == [i \in Items |-> CASE i = b -> "install" [] i = c -> "oneshot" [] OTHER -> "resumes"]
=============================================================================
