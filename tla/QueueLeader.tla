---------------------------- MODULE QueueLeader ----------------------------
(***************************************************************************)
(* One tab of a browser profile runs the web UI's upload queue             *)
(* (client/src/lib/queueLeader.ts), and the queue's store follows the      *)
(* election (ensureLeaderElection in client/src/state/uploadQueue.ts).     *)
(*                                                                         *)
(* The tabs share one lease in localStorage.  A tab's code runs to its next*)
(* await, but tabs are processes of their own: another tab can get between *)
(* one tab's read of the lease and its write.                              *)
(***************************************************************************)
EXTENDS Naturals, FiniteSets

CONSTANTS
  Tabs,          \* page loads; each has its own id (makeTabId)
  NoTab,         \* the id of no lease
  TTL,           \* LEASE_TTL_MS, in ticks of the clock
  SettleTime,    \* CLAIM_SETTLE_MS, in ticks
  Stalls,        \* whether a tab's tasks may be late by more than a tick
  Throttled,     \* whether a tab's timers may be
  BackForward,   \* whether the browser keeps left pages and restores them
  StorageFails   \* whether setItem may throw

ASSUME LeaderAssumption ==
  /\ NoTab \notin Tabs
  /\ SettleTime \in Nat \ {0} /\ TTL \in Nat /\ TTL > SettleTime
  /\ {Stalls, Throttled, BackForward, StorageFails} \subseteq BOOLEAN

VARIABLES
  lease,     \* the lease in localStorage, with its age up to TTL
  page,      \* new, open, leaving (in relinquish), cached (back/forward), closed
  pc,        \* the tab's claim: idle; claim or renew (read, about to write); settle
  left,      \* ticks left of the settle's sleep
  leader,    \* leader of createQueueLeader
  told,      \* a storage event for the lease waits to be handled
  hydrated,  \* the store's first claim has been answered
  runs       \* the store loaded the queue as its runner (isLeader)

vars == <<lease, page, pc, left, leader, told, hydrated, runs>>

Pages == {"new", "open", "leaving", "cached", "closed"}
Writing == {"claim", "renew"}
Claims == {"idle", "settle"} \cup Writing

NoLease == [id |-> NoTab, age |-> 0]

\* the tabs other than t that a change of the lease is announced to
Others(t) == [s \in Tabs |-> told[s] \/ (s # t /\ page[s] = "open")]

\* mutant: the store is not told that the lead was lost
ConcludeQuietly(t, v) ==
  /\ leader' = [leader EXCEPT ![t] = v]
  /\ hydrated' = [hydrated EXCEPT ![t] = TRUE]
  /\ runs' = [runs EXCEPT ![t] = @ \/ v]

\* set, and what the store does when the answer is its first or onChange says so
Conclude(t, v) ==
  /\ leader' = [leader EXCEPT ![t] = v]
  /\ hydrated' = [hydrated EXCEPT ![t] = TRUE]
  /\ runs' = [runs EXCEPT ![t] = IF hydrated[t] /\ leader[t] = v THEN @ ELSE v]

\* mutant: a lease of another tab never expires
ClaimFreeOnly(t) ==
  \/ /\ lease.id \notin {t, NoTab}
     /\ Conclude(t, FALSE)
     /\ UNCHANGED pc
  \/ /\ lease.id \in {t, NoTab}
     /\ pc' = [pc EXCEPT ![t] = IF lease.id = t /\ leader[t] THEN "renew" ELSE "claim"]
     /\ UNCHANGED <<leader, hydrated, runs>>

\* claimOnce, up to its write
Claim(t) ==
  \/ /\ lease.id \notin {t, NoTab} /\ lease.age < TTL
     /\ Conclude(t, FALSE)
     /\ UNCHANGED pc
  \/ /\ lease.id \in {t, NoTab} \/ lease.age = TTL
     /\ pc' = [pc EXCEPT ![t] = IF lease.id = t /\ leader[t] THEN "renew" ELSE "claim"]
     /\ UNCHANGED <<leader, hydrated, runs>>

\* hydrate's claim, and the heartbeat's, which is as late as the browser likes
Heartbeat(t) ==
  /\ page[t] = "open" /\ pc[t] = "idle"
  /\ Claim(t)
  /\ UNCHANGED <<lease, page, left, told>>

\* onStorage; while a claim is under way, claim() only returns its promise
OnStorage(t) ==
  /\ page[t] = "open" /\ told[t]
  /\ told' = [told EXCEPT ![t] = FALSE]
  /\ \/ pc[t] = "idle" /\ Claim(t)
     \/ pc[t] = "settle" /\ UNCHANGED <<pc, leader, hydrated, runs>>
  /\ UNCHANGED <<lease, page, left>>

\* claimOnce's write: a renewal is done with it, a claim waits for the settle
Write(t) ==
  /\ page[t] = "open" /\ pc[t] \in Writing
  /\ lease' = [id |-> t, age |-> 0]
  /\ told' = Others(t)
  /\ pc' = [pc EXCEPT ![t] = IF @ = "claim" THEN "settle" ELSE "idle"]
  /\ left' = [left EXCEPT ![t] = IF pc[t] = "claim" THEN SettleTime ELSE @]
  /\ UNCHANGED <<page, leader, hydrated, runs>>

\* setItem throws: nothing to coordinate with
WriteFails(t) ==
  /\ StorageFails
  /\ page[t] = "open" /\ pc[t] \in Writing
  /\ pc' = [pc EXCEPT ![t] = "idle"]
  /\ Conclude(t, TRUE)
  /\ UNCHANGED <<lease, page, left, told>>

\* mutant: the claim is read back without the sleep
ReadBackAtOnce(t) ==
  /\ page[t] = "open" /\ pc[t] = "settle"
  /\ pc' = [pc EXCEPT ![t] = "idle"]
  /\ Conclude(t, lease.id = t)
  /\ UNCHANGED <<lease, page, left, told>>

\* mutant: the id that was read back stands for the answer
ReadBackId(t) ==
  /\ page[t] = "open" /\ pc[t] = "settle" /\ left[t] = 0
  /\ pc' = [pc EXCEPT ![t] = "idle"]
  /\ Conclude(t, lease.id)
  /\ UNCHANGED <<lease, page, left, told>>

\* claimOnce after its sleep: whose lease is it now
ReadBack(t) ==
  /\ page[t] = "open" /\ pc[t] = "settle" /\ left[t] = 0
  /\ pc' = [pc EXCEPT ![t] = "idle"]
  /\ Conclude(t, lease.id = t)
  /\ UNCHANGED <<lease, page, left, told>>

\* where a left page goes
LeftPages == {"closed"} \cup IF BackForward THEN {"cached"} ELSE {}

\* relinquish, its read of the lease (pagehide); it does not call set, so the store is
\* not told
PageHide(t) ==
  /\ page[t] = "open" /\ pc[t] \in {"idle", "settle"}
  /\ leader' = [leader EXCEPT ![t] = FALSE]
  /\ \/ lease.id = t /\ page' = [page EXCEPT ![t] = "leaving"]
     \/ lease.id # t /\ \E p \in LeftPages : page' = [page EXCEPT ![t] = p]
  /\ UNCHANGED <<lease, pc, left, told, hydrated, runs>>

\* relinquish, its removeItem
Remove(t) ==
  /\ page[t] = "leaving"
  /\ \E p \in LeftPages : page' = [page EXCEPT ![t] = p]
  /\ lease' = NoLease
  /\ told' = IF lease.id = NoTab THEN told ELSE Others(t)
  /\ UNCHANGED <<pc, left, leader, hydrated, runs>>
-----------------------------------------------------------------------------
(* The browser *)

\* the page is loaded: start listens and hydrate claims
Open(t) ==
  /\ page[t] = "new"
  /\ page' = [page EXCEPT ![t] = "open"]
  /\ UNCHANGED <<lease, pc, left, leader, told, hydrated, runs>>

\* back to a page that was left; events of the meantime are not delivered
Restore(t) ==
  /\ page[t] = "cached"
  /\ page' = [page EXCEPT ![t] = "open"]
  /\ told' = [told EXCEPT ![t] = FALSE]
  /\ UNCHANGED <<lease, pc, left, leader, hydrated, runs>>

\* a tab ends with no pagehide
Kill(t) ==
  /\ page[t] \in {"open", "leaving", "cached"}
  /\ page' = [page EXCEPT ![t] = "closed"]
  /\ leader' = [leader EXCEPT ![t] = FALSE]
  /\ UNCHANGED <<lease, pc, left, told, hydrated, runs>>

\* no task of an open tab waits for its turn
TasksDone ==
  \A t \in Tabs : /\ page[t] # "leaving"
                  /\ page[t] = "open" => ~told[t] /\ pc[t] \notin Writing

\* no tab has a settle to end
TimersDone == \A t \in Tabs : page[t] = "open" /\ pc[t] = "settle" => left[t] > 0

\* the clock
Tick ==
  /\ TasksDone \/ Stalls
  /\ TimersDone \/ Throttled
  /\ lease' = [lease EXCEPT !.age = IF @ < TTL /\ lease.id # NoTab THEN @ + 1 ELSE @]
  /\ left' = [t \in Tabs |-> IF page[t] = "open" /\ left[t] > 0 THEN left[t] - 1
                             ELSE left[t]]
  /\ UNCHANGED <<page, pc, leader, told, hydrated, runs>>
-----------------------------------------------------------------------------
Init ==
  /\ lease = NoLease
  /\ page = [t \in Tabs |-> "new"]
  /\ pc = [t \in Tabs |-> "idle"]
  /\ left = [t \in Tabs |-> 0]
  /\ leader = [t \in Tabs |-> FALSE]
  /\ told = [t \in Tabs |-> FALSE]
  /\ hydrated = [t \in Tabs |-> FALSE]
  /\ runs = [t \in Tabs |-> FALSE]

TabTask(t) == Heartbeat(t) \/ OnStorage(t) \/ Write(t) \/ ReadBack(t) \/ Remove(t)

Browser(t) == Open(t) \/ PageHide(t) \/ Restore(t) \/ Kill(t) \/ WriteFails(t)

Next == (\E t \in Tabs : TabTask(t) \/ Browser(t)) \/ Tick

Spec == Init /\ [][Next]_vars

\* Every tab's tasks and timers run.  Strong fairness of the clock says that a tab
\* does finitely many things in a tick: its heartbeats are HEARTBEAT_MS apart.
LiveSpec ==
  /\ Spec /\ SF_vars(Tick)
  /\ \A t \in Tabs : WF_vars(Heartbeat(t)) /\ WF_vars(OnStorage(t))
                     /\ WF_vars(Write(t) \/ ReadBack(t) \/ Remove(t))
-----------------------------------------------------------------------------
(* What the election promises *)

\* Every variable keeps its type: the lease names a tab or none, isLeader is a
\* truth value.
TypeOK ==
  /\ lease \in [id : Tabs \cup {NoTab}, age : 0 .. TTL]
  /\ page \in [Tabs -> Pages]
  /\ pc \in [Tabs -> Claims]
  /\ left \in [Tabs -> 0 .. SettleTime]
  /\ leader \in [Tabs -> BOOLEAN]
  /\ told \in [Tabs -> BOOLEAN]
  /\ hydrated \in [Tabs -> BOOLEAN]
  /\ runs \in [Tabs -> BOOLEAN]

\* t is the leader and is not claiming a lease that it found gone
Leads(t) == leader[t] /\ pc[t] \notin {"claim", "settle"}

\* "This elects one tab as the runner": two tabs never lead, however late heartbeats
\* and settles are, as long as storage events and the write after a read are handled
\* within the settle.  A leader that finds the lease removed claims it again and is
\* the leader meanwhile; in that one settle another tab can lead as well.
OneLeader == \A s, t \in Tabs : Leads(s) /\ Leads(t) => s = t

\* in the end writes work, tasks are handled in time and no tab reads the lease between
\* another's read and write
Calm ==
  <>[][/\ Tick => TasksDone
       /\ \A t \in Tabs : ~WriteFails(t)
       /\ \A s, t \in Tabs : s # t /\ pc[s] \in Writing /\ pc'[t] \in Writing
                               => pc[t] \in Writing]_vars

\* "A tab that loses the lease stops its loops" (ensureLeaderElection): two tabs that
\* both run the queue, after a stall of one of them say, do not go on doing so.
ExtraRunnersStop ==
  Calm => \A s, t \in Tabs :
    s # t => []<>~(runs[s] /\ runs[t] /\ page[s] = "open" /\ page[t] = "open")

\* "a tab that sees an expired (or released) lease takes over": while a tab stays
\* open the queue does not stay without a runner, whatever became of the last one.
SomeoneRuns ==
  Calm => \A t \in Tabs :
    <>[](page[t] = "open") => []<>(\E s \in Tabs : page[s] = "open" /\ runs[s])
=============================================================================
