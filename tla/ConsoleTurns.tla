---------------------------- MODULE ConsoleTurns ----------------------------
(***************************************************************************)
(* What the engine's queue promises whoever else works on a console        *)
(* (queue_api.rs, "the two take turns"): an item starts there only while   *)
(* nobody holds the console and nothing of the queue runs, and a hold is   *)
(* given only while nothing of the queue runs.  EngineQueue implements     *)
(* this; TurnTaking is the app relying on it.                              *)
(***************************************************************************)
CONSTANTS Items, Consoles, Holders

VARIABLES
  at,    \* the item of the queue that runs on each console: {} or {i}
  held   \* who holds each console

turns == <<at, held>>

Init ==
  /\ at = [c \in Consoles |-> {}]
  /\ held = [c \in Consoles |-> {}]

Start(c, i) ==
  /\ at[c] = {} /\ held[c] = {}
  /\ at' = [at EXCEPT ![c] = {i}]
  /\ UNCHANGED held

End(c) ==
  /\ at[c] # {}
  /\ at' = [at EXCEPT ![c] = {}]
  /\ UNCHANGED held

\* taken, or taken again by the same holder
Hold(c, h) ==
  /\ at[c] = {}
  /\ held' = [held EXCEPT ![c] = @ \cup {h}]
  /\ UNCHANGED at

\* given back, or lapsed
Release(c, h) ==
  /\ held' = [held EXCEPT ![c] = @ \ {h}]
  /\ UNCHANGED at

\* the engine is started again: nothing runs and nobody holds
Restart ==
  /\ at' = [c \in Consoles |-> {}]
  /\ held' = [c \in Consoles |-> {}]

Next ==
  \/ \E c \in Consoles :
       \/ \E i \in Items : Start(c, i)
       \/ End(c)
       \/ \E h \in Holders : Hold(c, h) \/ Release(c, h)
  \/ Restart

Spec == Init /\ [][Next]_turns
=============================================================================
