------------------------- MODULE QueueLeaderProofs -------------------------
(***************************************************************************)
(* Proofs about the election of the tab that runs the queue, for any       *)
(* number of tabs and any lease and settle times.                          *)
(***************************************************************************)
EXTENDS QueueLeader, TLAPS

\* Only an open page leads: relinquish and the end of a tab give the lead up.
LeaderIsOpen == \A t \in Tabs : leader[t] => page[t] = "open"

\* A leader whose lease was overwritten or removed has a storage event to handle.
LoserIsTold == \A t \in Tabs : Leads(t) /\ lease.id # t => told[t]

\* Once part of its settle has passed, a tab that still has the lease has no leader
\* beside it: the tick found every event handled.
SettledAlone ==
  \A s, t \in Tabs :
    /\ pc[s] = "settle" /\ lease.id = s /\ left[s] < SettleTime
    /\ s # t
    => ~Leads(t)

\* the inductive invariant
LeaderInv == TypeOK /\ LeaderIsOpen /\ LoserIsTold /\ SettledAlone /\ OneLeader

\* the lease records that the actions write
LEMMA LeaseRecords ==
  ASSUME LeaderAssumption, NEW t \in Tabs,
         NEW l \in [id : Tabs \cup {NoTab}, age : 0 .. TTL]
  PROVE  /\ NoLease \in [id : Tabs \cup {NoTab}, age : 0 .. TTL]
         /\ [id |-> t, age |-> 0] \in [id : Tabs \cup {NoTab}, age : 0 .. TTL]
         /\ LET aged == [l EXCEPT !.age = IF @ < TTL /\ l.id # NoTab THEN @ + 1 ELSE @]
            IN  /\ aged \in [id : Tabs \cup {NoTab}, age : 0 .. TTL]
                /\ aged.id = l.id
BY DEF LeaderAssumption, NoLease

\* The page loads, the claims and the store have their types at the start.
LEMMA InitInv == Init => LeaderInv
<1> SUFFICES ASSUME Init PROVE LeaderInv
  OBVIOUS
<1>1. TypeOK
  BY LeaderAssumption DEF Init, TypeOK, NoLease, Pages, Claims, LeaderAssumption
<1>2. \A t \in Tabs : ~leader[t]
  BY DEF Init
<1> QED
  BY <1>1, <1>2 DEF LeaderInv, LeaderIsOpen, LoserIsTold, SettledAlone, OneLeader, Leads

\* The answer of a claim keeps the types.
LEMMA ConcludeType ==
  ASSUME TypeOK, NEW t \in Tabs, NEW v \in BOOLEAN, Conclude(t, v)
  PROVE  /\ leader' \in [Tabs -> BOOLEAN]
         /\ hydrated' \in [Tabs -> BOOLEAN]
         /\ runs' \in [Tabs -> BOOLEAN]
BY DEF TypeOK, Conclude

\* Every step keeps the types.
LEMMA NextType == TypeOK /\ [Next]_vars => TypeOK'
<1> SUFFICES ASSUME TypeOK, [Next]_vars PROVE TypeOK'
  OBVIOUS
<1> USE LeaderAssumption DEF Pages, Claims, Writing
<1>1. ASSUME NEW t \in Tabs, Heartbeat(t) PROVE TypeOK'
  <2>1. CASE Conclude(t, FALSE) /\ UNCHANGED pc
    BY <1>1, <2>1, ConcludeType DEF Heartbeat, TypeOK
  <2>2. CASE ~(Conclude(t, FALSE) /\ UNCHANGED pc)
    BY <1>1, <2>2 DEF Heartbeat, Claim, TypeOK
  <2> QED BY <2>1, <2>2
<1>2. ASSUME NEW t \in Tabs, OnStorage(t) PROVE TypeOK'
  <2>1. CASE Conclude(t, FALSE) /\ UNCHANGED pc
    BY <1>2, <2>1, ConcludeType DEF OnStorage, TypeOK
  <2>2. CASE ~(Conclude(t, FALSE) /\ UNCHANGED pc)
    BY <1>2, <2>2 DEF OnStorage, Claim, TypeOK
  <2> QED BY <2>1, <2>2
<1>3. ASSUME NEW t \in Tabs, Write(t) PROVE TypeOK'
  BY <1>3, LeaseRecords DEF Write, TypeOK, Others, LeaderAssumption
<1>4. ASSUME NEW t \in Tabs, WriteFails(t) PROVE TypeOK'
  BY <1>4, ConcludeType DEF WriteFails, TypeOK
<1>5. ASSUME NEW t \in Tabs, ReadBack(t) PROVE TypeOK'
  <2>1. (lease.id = t) \in BOOLEAN
    OBVIOUS
  <2> QED BY <1>5, <2>1, ConcludeType DEF ReadBack, TypeOK
<1>6. ASSUME NEW t \in Tabs, PageHide(t) PROVE TypeOK'
  BY <1>6 DEF PageHide, TypeOK, LeftPages
<1>7. ASSUME NEW t \in Tabs, Remove(t) PROVE TypeOK'
  <2>1. page' \in [Tabs -> Pages]
    BY <1>7 DEF Remove, TypeOK, LeftPages
  <2>2. lease' \in [id : Tabs \cup {NoTab}, age : 0 .. TTL]
    BY <1>7, LeaseRecords DEF Remove, TypeOK
  <2>3. told' \in [Tabs -> BOOLEAN]
    BY <1>7 DEF Remove, TypeOK, Others
  <2> QED BY <1>7, <2>1, <2>2, <2>3 DEF Remove, TypeOK
<1>8. ASSUME NEW t \in Tabs, Open(t) \/ Restore(t) \/ Kill(t) PROVE TypeOK'
  BY <1>8 DEF Open, Restore, Kill, TypeOK
<1>9. CASE Tick
  <2>1. lease' \in [id : Tabs \cup {NoTab}, age : 0 .. TTL]
    BY <1>9 DEF Tick, TypeOK, LeaderAssumption
  <2>2. left' \in [Tabs -> 0 .. SettleTime]
    BY <1>9 DEF Tick, TypeOK, LeaderAssumption
  <2> QED BY <1>9, <2>1, <2>2 DEF Tick, TypeOK
<1>10. CASE UNCHANGED vars
  BY <1>10 DEF vars, TypeOK
<1> QED
  BY <1>1, <1>2, <1>3, <1>4, <1>5, <1>6, <1>7, <1>8, <1>9, <1>10
  DEF Next, TabTask, Browser

\* The election is type correct, whatever the browser does.
THEOREM LeaderTypeCorrect == Spec => []TypeOK
<1>1. Init => TypeOK
  BY InitInv DEF LeaderInv
<1> QED
  BY <1>1, NextType, PTL DEF Spec

\* A step that changes no lease, claim, lead or event keeps the election's invariant.
LEMMA SameElection ==
  ASSUME LeaderInv, TypeOK', UNCHANGED <<lease, pc, left, leader, told>>, LeaderIsOpen'
  PROVE  LeaderInv'
BY DEF LeaderInv, LoserIsTold, SettledAlone, OneLeader, Leads

\* A tab that stops being the leader, or starts to claim, disturbs nobody.
LEMMA StopsLeading ==
  ASSUME LeaderInv, TypeOK', NEW t \in Tabs,
         UNCHANGED <<lease, left>>,
         ~Leads(t)', leader'[t] => leader[t],
         \A s \in Tabs \ {t} :
            leader'[s] = leader[s] /\ pc'[s] = pc[s] /\ told'[s] = told[s] /\ page'[s] = page[s],
         leader'[t] => page'[t] = "open",
         pc'[t] = "settle" => pc[t] = "settle"
  PROVE  LeaderInv'
<1>1. LeaderIsOpen'
  BY DEF LeaderInv, LeaderIsOpen
<1>2. \A s \in Tabs : Leads(s)' => s # t /\ Leads(s)
  BY DEF Leads
<1>3. LoserIsTold'
  BY <1>2 DEF LeaderInv, LoserIsTold
<1>4. SettledAlone'
  BY <1>2 DEF LeaderInv, SettledAlone
<1>5. OneLeader'
  BY <1>2 DEF LeaderInv, OneLeader
<1> QED
  BY <1>1, <1>3, <1>4, <1>5 DEF LeaderInv

\* claimOnce up to its write: the lead is given up, or kept with a lease of one's own.
LEMMA ClaimInv ==
  ASSUME LeaderInv, TypeOK', NEW t \in Tabs, pc[t] = "idle", page[t] = "open", Claim(t),
         UNCHANGED <<lease, left, page>>,
         \A s \in Tabs \ {t} : told'[s] = told[s]
  PROVE  LeaderInv'
<1> USE DEF LeaderInv, TypeOK
<1>1. CASE Conclude(t, FALSE) /\ UNCHANGED pc
  <2>1. leader'[t] = FALSE /\ \A s \in Tabs \ {t} : leader'[s] = leader[s]
    BY <1>1 DEF Conclude
  <2>2. ~Leads(t)'
    BY <2>1 DEF Leads
  <2> QED BY <1>1, <2>1, <2>2, StopsLeading
<1>2. CASE /\ pc' = [pc EXCEPT ![t] = "claim"]
           /\ UNCHANGED leader
  <2>1. ~Leads(t)'
    BY <1>2 DEF Leads
  <2> QED BY <1>2, <2>1, StopsLeading DEF LeaderIsOpen
<1>3. CASE /\ lease.id = t /\ leader[t]
           /\ pc' = [pc EXCEPT ![t] = "renew"]
           /\ UNCHANGED leader
  <2>1. \A s \in Tabs : Leads(s)' = Leads(s)
    BY <1>3 DEF Leads
  <2>2. LoserIsTold'
    BY <1>3, <2>1 DEF LoserIsTold
  <2>3. SettledAlone' /\ OneLeader'
    BY <1>3, <2>1 DEF SettledAlone, OneLeader
  <2>4. LeaderIsOpen'
    BY <1>3 DEF LeaderIsOpen
  <2> QED BY <2>2, <2>3, <2>4
<1> QED
  BY <1>1, <1>2, <1>3 DEF Claim

\* claimOnce's write tells every leader that its lease is gone.
LEMMA WriteInv ==
  ASSUME LeaderInv, TypeOK', NEW t \in Tabs, Write(t)
  PROVE  LeaderInv'
<1> USE DEF LeaderInv, TypeOK, Writing
<1>1. lease'.id = t /\ left'[t] \in Nat /\ (pc'[t] = "settle" => left'[t] = SettleTime)
  BY LeaderAssumption DEF Write, LeaderAssumption
<1>2. \A s \in Tabs : Leads(s)' => Leads(s)
  BY DEF Write, Leads
<1>3. \A s \in Tabs \ {t} : page[s] = "open" => told'[s]
  BY DEF Write, Others
<1>4. LeaderIsOpen'
  BY DEF Write, LeaderIsOpen
<1>5. LoserIsTold'
  BY <1>1, <1>2, <1>3 DEF LoserIsTold, LeaderIsOpen, Leads
<1>6. SettledAlone'
  BY <1>1, LeaderAssumption DEF SettledAlone, LeaderAssumption
<1>7. OneLeader'
  BY <1>2 DEF OneLeader
<1> QED
  BY <1>4, <1>5, <1>6, <1>7

\* A tab that finds its claim in place after the settle is the only leader.
LEMMA ReadBackInv ==
  ASSUME LeaderInv, TypeOK', NEW t \in Tabs, ReadBack(t)
  PROVE  LeaderInv'
<1> USE DEF LeaderInv, TypeOK
<1>1. /\ leader'[t] = (lease.id = t)
      /\ \A s \in Tabs \ {t} : leader'[s] = leader[s] /\ pc'[s] = pc[s]
      /\ pc'[t] = "idle" /\ page[t] = "open"
      /\ UNCHANGED <<lease, page, left, told>>
  BY DEF ReadBack, Conclude
<1>2. CASE lease.id # t
  <2>1. ~Leads(t)'
    BY <1>1, <1>2 DEF Leads
  <2> QED BY <1>1, <1>2, <2>1, StopsLeading
<1>3. CASE lease.id = t
  <2>1. \A s \in Tabs \ {t} : ~Leads(s)
    BY <1>3, LeaderAssumption DEF ReadBack, SettledAlone, LeaderAssumption
  <2>2. \A s \in Tabs \ {t} : ~Leads(s)'
    BY <1>1, <2>1 DEF Leads
  <2>3. LeaderIsOpen'
    BY <1>1 DEF LeaderIsOpen
  <2>4. LoserIsTold'
    BY <1>1, <1>3, <2>2 DEF LoserIsTold
  <2>5. SettledAlone'
    BY <1>1, <1>3, <2>2 DEF SettledAlone
  <2>6. OneLeader'
    BY <2>2 DEF OneLeader
  <2> QED BY <2>3, <2>4, <2>5, <2>6
<1> QED
  BY <1>2, <1>3

\* What the browser does with a page.
LEMMA PageInv ==
  ASSUME LeaderInv, TypeOK', NEW t \in Tabs,
         PageHide(t) \/ Open(t) \/ Restore(t) \/ Kill(t)
  PROVE  LeaderInv'
<1> USE DEF LeaderInv, TypeOK
<1>1. CASE Open(t)
  BY <1>1, SameElection DEF Open, LeaderIsOpen
<1>2. CASE PageHide(t) \/ Kill(t) \/ Restore(t)
  <2>1. ~leader'[t] /\ \A s \in Tabs \ {t} : leader'[s] = leader[s]
    BY <1>2 DEF PageHide, Kill, Restore, LeaderIsOpen
  <2>2. /\ UNCHANGED <<lease, left, pc>>
        /\ \A s \in Tabs \ {t} : told'[s] = told[s] /\ page'[s] = page[s]
    BY <1>2 DEF PageHide, Kill, Restore
  <2>3. ~Leads(t)'
    BY <2>1 DEF Leads
  <2> QED BY <2>1, <2>2, <2>3, StopsLeading
<1> QED
  BY <1>1, <1>2

\* relinquish's removal: the leader it may take the lease from is told.
LEMMA RemoveInv ==
  ASSUME LeaderInv, TypeOK', NEW t \in Tabs, Remove(t)
  PROVE  LeaderInv'
<1> USE DEF LeaderInv, TypeOK
<1>1. lease'.id = NoTab /\ UNCHANGED <<pc, left, leader>>
  BY DEF Remove, NoLease
<1>2. \A s \in Tabs : Leads(s)' = Leads(s)
  BY <1>1 DEF Leads
<1>3. LeaderIsOpen'
  BY DEF Remove, LeaderIsOpen
<1>4. ASSUME NEW s \in Tabs, Leads(s) PROVE told'[s]
  <2>1. page[s] = "open" /\ s # t
    BY <1>4 DEF Leads, LeaderIsOpen, Remove
  <2>2. CASE lease.id = NoTab
    BY <1>4, <2>2, LeaderAssumption DEF LoserIsTold, Remove, LeaderAssumption
  <2>3. CASE lease.id # NoTab
    BY <2>1, <2>3 DEF Remove, Others
  <2> QED BY <2>2, <2>3
<1>5. LoserIsTold'
  BY <1>2, <1>4 DEF LoserIsTold
<1>6. SettledAlone'
  BY <1>1, LeaderAssumption DEF SettledAlone, LeaderAssumption
<1>7. OneLeader'
  BY <1>2 DEF OneLeader
<1> QED
  BY <1>3, <1>5, <1>6, <1>7

\* A tick that finds the tasks done finds no leader without the lease.
LEMMA TickInv ==
  ASSUME LeaderInv, TypeOK', ~Stalls, Tick
  PROVE  LeaderInv'
<1> USE DEF LeaderInv, TypeOK
<1>1. lease'.id = lease.id /\ UNCHANGED <<page, pc, leader, told>>
  BY LeaseRecords, LeaderAssumption DEF Tick
<1>2. \A s \in Tabs : Leads(s)' = Leads(s)
  BY <1>1 DEF Leads
<1>3. ASSUME NEW s \in Tabs, Leads(s) PROVE lease.id = s
  <2>1. page[s] = "open"
    BY <1>3 DEF Leads, LeaderIsOpen
  <2>2. ~told[s]
    BY <2>1 DEF Tick, TasksDone
  <2> QED BY <1>3, <2>2 DEF LoserIsTold
<1>4. SettledAlone'
  BY <1>1, <1>2, <1>3 DEF SettledAlone
<1>5. LeaderIsOpen' /\ LoserIsTold' /\ OneLeader'
  BY <1>1, <1>2 DEF LeaderIsOpen, LoserIsTold, OneLeader
<1> QED
  BY <1>4, <1>5

\* Every step keeps the invariant when tasks are handled in time and storage works.
LEMMA NextInv ==
  ASSUME ~Stalls, ~StorageFails
  PROVE  LeaderInv /\ [Next]_vars => LeaderInv'
<1> SUFFICES ASSUME LeaderInv, [Next]_vars PROVE LeaderInv'
  OBVIOUS
<1>0. TypeOK'
  BY NextType DEF LeaderInv
<1>1. ASSUME NEW t \in Tabs, Heartbeat(t) PROVE LeaderInv'
  BY <1>0, <1>1, ClaimInv DEF Heartbeat
<1>2. ASSUME NEW t \in Tabs, OnStorage(t) PROVE LeaderInv'
  <2>1. \A s \in Tabs \ {t} : told'[s] = told[s]
    BY <1>2 DEF OnStorage, LeaderInv, TypeOK
  <2>2. CASE pc[t] = "idle" /\ Claim(t)
    BY <1>0, <1>2, <2>1, <2>2, ClaimInv DEF OnStorage
  <2>3. CASE pc[t] = "settle" /\ UNCHANGED <<pc, leader>>
    <3>1. ~Leads(t)'
      BY <2>3 DEF Leads
    <3> QED BY <1>0, <1>2, <2>1, <2>3, <3>1, StopsLeading
            DEF OnStorage, LeaderInv, LeaderIsOpen
  <2> QED BY <1>2, <2>2, <2>3 DEF OnStorage
<1>3. ASSUME NEW t \in Tabs, Browser(t) PROVE LeaderInv'
  BY <1>0, <1>3, PageInv DEF Browser, WriteFails
<1>4. CASE UNCHANGED vars
  BY <1>0, <1>4, SameElection DEF vars, LeaderInv, LeaderIsOpen
<1> QED
  BY <1>0, <1>1, <1>2, <1>3, <1>4, WriteInv, ReadBackInv, RemoveInv, TickInv
  DEF Next, TabTask

\* "This elects one tab as the runner" (queueLeader.ts): with any number of tabs, any
\* lease and settle times, however late the timers and whatever pages are left,
\* restored or killed, two tabs never lead, if storage works and events are handled
\* within a settle.
THEOREM OneTabLeads ==
  ASSUME ~Stalls, ~StorageFails
  PROVE  Spec => []OneLeader
<1>1. Init => LeaderInv
  BY InitInv
<1>2. LeaderInv /\ [Next]_vars => LeaderInv'
  BY NextInv
<1>3. LeaderInv => OneLeader
  BY DEF LeaderInv
<1> QED
  BY <1>1, <1>2, <1>3, PTL DEF Spec
=============================================================================
