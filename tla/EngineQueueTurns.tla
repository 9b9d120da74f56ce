-------------------------- MODULE EngineQueueTurns --------------------------
(***************************************************************************)
(* EngineQueue implements ConsoleTurns and keeps to MAX_FINISHED: theorems *)
(* about the two, for every set of items, consoles and clients.            *)
(***************************************************************************)
EXTENDS EngineQueueSaves, FiniteSetTheorems, SequenceTheorems

\* the same items run before and after a step
SameRunning == \A j \in Items : status'[j] = "running" <=> status[j] = "running"

\* A step that starts and ends nothing and leaves the holds is a stutter.
LEMMA QuietStep ==
  ASSUME SameRunning, UNCHANGED holds
  PROVE  UNCHANGED Turns!turns
<1>1. \A c \in Consoles : Running(c)' = Running(c)
  BY DEF SameRunning, Running, On
<1>2. [c \in Consoles |-> Running(c)]' = [c \in Consoles |-> Running(c)]
  BY <1>1
<1> QED BY <1>2 DEF Turns!turns

\* A step after which nothing runs on console c, and which leaves the others and the
\* holds, ends c's item or is a stutter.
LEMMA EndStep ==
  ASSUME NEW c \in Consoles, UNCHANGED holds,
         \A j \in Items : ConsoleOf[j] = c => status'[j] # "running",
         \A j \in Items : ConsoleOf[j] # c =>
           (status'[j] = "running" <=> status[j] = "running")
  PROVE  [Turns!Next]_Turns!turns
<1> DEFINE at == [e \in Consoles |-> Running(e)]
<1>1. Running(c)' = {} /\ \A e \in Consoles \ {c} : Running(e)' = Running(e)
  BY DEF Running, On
<1>2. at' = [at EXCEPT ![c] = {}]
  BY <1>1
<1>3. CASE Running(c) = {}
  <2>1. at' = at
    BY <1>1, <1>3
  <2> QED BY <2>1 DEF Turns!turns
<1>4. CASE Running(c) # {}
  <2>1. Turns!End(c)
    BY <1>2, <1>4 DEF Turns!End
  <2> QED BY <2>1 DEF Turns!Next
<1> QED BY <1>3, <1>4

\* finish of the item that a driver follows ends what runs on its console
LEMMA FinishEnds ==
  ASSUME TypeOK, DriverInv, NEW c \in Consoles, drv[c].pc \in Following,
         NEW end \in Finished, Finish(c, drv[c].item, end)
  PROVE  [Turns!Next]_Turns!turns
<1> DEFINE i == drv[c].item
<1>1. i \in Items /\ ConsoleOf[i] = c
  BY DEF DriverInv, DriverHasItem
<1>2. \A j \in Items : ConsoleOf[j] = c => status'[j] # "running"
  BY FinishEffect DEF DriverInv, RunningIsFollowed
<1>3. \A j \in Items : ConsoleOf[j] # c => (status'[j] = "running" <=> status[j] = "running")
  BY <1>1, FinishOthers DEF Finished
<1>4. UNCHANGED holds
  BY DEF Finish
<1> QED BY <1>2, <1>3, <1>4, EndStep
-----------------------------------------------------------------------------
\* A step of a driver starts its console's item, ends it, or changes nothing that
\* ConsoleTurns shows.
LEMMA DriverTurns ==
  ASSUME TypeOK, DriverInv, NEW c \in Consoles, DriverStep(c)
  PROVE  [Turns!Next]_Turns!turns
<1>1. CASE LookAtLine(c) \/ Probe(c) \/ DriverSaves(c) \/ CallRoute(c) \/ Follow(c)
  <2>1. UNCHANGED <<status, holds>>
    BY <1>1, ZenonT(30) DEF LookAtLine, StopDriving, Wait, Probe, DriverSaves, CallRoute, Follow,
       book
  <2> QED BY <2>1, QuietStep DEF SameRunning
<1>2. CASE StartHead(c)
  <2> DEFINE i == drv[c].item
             at == [e \in Consoles |-> Running(e)]
  <2>1. CASE UNCHANGED <<status, holds>>
    BY <2>1, QuietStep DEF SameRunning
  <2>2. CASE StillHead(c, i) /\ StartItem(c, i)
    <3>1. drv[c].pc \notin Following
      BY <1>2 DEF StartHead, Following
    <3>2. Running(c) = {}
      BY <3>1, NoneRunning DEF Running, On
    <3>3. i \in Items /\ ConsoleOf[i] = c /\ holds[c] = {} /\ UNCHANGED holds
      BY <2>2 DEF StillHead, IsHead, Queued, On, StartItem
    <3>4. status' = [status EXCEPT ![i] = "running"]
      BY <2>2 DEF StartItem
    <3>5. Running(c)' = {i} /\ \A e \in Consoles \ {c} : Running(e)' = Running(e)
      BY <3>2, <3>3, <3>4 DEF Running, On, TypeOK
    <3>6. at' = [at EXCEPT ![c] = {i}]
      BY <3>5
    <3>7. Turns!Start(c, i)
      BY <3>2, <3>3, <3>6 DEF Turns!Start
    <3> QED BY <3>3, <3>7 DEF Turns!Next
  <2> QED BY <1>2, <2>1, <2>2 DEF StartHead, Wait
<1>3. CASE RouteAnswers(c)
  <2>1. drv[c].pc \in Following
    BY <1>3 DEF RouteAnswers, Following
  <2>2. CASE Requeue(c, drv[c].item)
    <3>1. UNCHANGED holds /\ status' = [status EXCEPT ![drv[c].item] = "queued"]
      BY <2>2 DEF Requeue
    <3>2. drv[c].item \in Items /\ ConsoleOf[drv[c].item] = c
      BY <2>1 DEF DriverInv, DriverHasItem
    <3>3. \A j \in Items : ConsoleOf[j] = c => status'[j] # "running"
      BY <3>1, <3>2 DEF DriverInv, RunningIsFollowed, TypeOK
    <3>4. \A j \in Items : ConsoleOf[j] # c => status'[j] = status[j]
      BY <3>1, <3>2 DEF TypeOK
    <3> QED BY <3>1, <3>3, <3>4, EndStep
  <2>3. CASE Finish(c, drv[c].item, "failed")
    BY <2>1, <2>3, FinishEnds DEF Finished
  <2>4. CASE UNCHANGED book
    BY <2>4, QuietStep DEF book, SameRunning
  <2> QED BY <1>3, <2>2, <2>3, <2>4 DEF RouteAnswers
<1>4. CASE Poll(c)
  <2>1. \A answer \in JobAnswers : EndOf(answer) \in Finished
    BY DEF EndOf, JobAnswers, Finished
  <2>2. drv[c].pc \in Following
    BY <1>4 DEF Poll, Following
  <2>3. CASE UNCHANGED book
    BY <2>3, QuietStep DEF book, SameRunning
  <2>4. CASE \E answer \in JobAnswers : Finish(c, drv[c].item, EndOf(answer))
    BY <2>1, <2>2, <2>4, FinishEnds
  <2> QED BY <1>4, <2>3, <2>4 DEF Poll
<1> QED BY <1>1, <1>2, <1>3, <1>4 DEF DriverStep

\* A request that changes the list starts and ends nothing; hold_handler and
\* release_handler are the abstract steps.
LEMMA ClientTurns ==
  ASSUME TypeOK, ClientStep
  PROVE  [Turns!Next]_Turns!turns
<1> DEFINE at == [e \in Consoles |-> Running(e)]
<1>1. ASSUME NEW r \in Requests, NEW i \in Items, NEW position,
             \/ AddItem(r, i, position) \/ PauseItem(r, i) \/ ResumeItem(r, i)
             \/ RemoveItem(r, i) \/ MoveItem(r, i, position)
      PROVE  [Turns!Next]_Turns!turns
  <2>1. UNCHANGED holds
    BY <1>1 DEF AddItem, PauseItem, ResumeItem, RemoveItem, MoveItem, Accept
  <2>2. \/ UNCHANGED status
        \/ status[i] # "running" /\ \E s \in {"queued", "paused", "gone"} :
             status' = [status EXCEPT ![i] = s]
    <3>1. CASE AddItem(r, i, position) \/ ResumeItem(r, i)
      BY <3>1, ZenonT(30) DEF AddItem, ResumeItem
    <3>2. CASE PauseItem(r, i)
      BY <3>2, ZenonT(30) DEF PauseItem, Waiting
    <3>3. CASE RemoveItem(r, i) \/ MoveItem(r, i, position)
      BY <3>3, ZenonT(30) DEF RemoveItem, MoveItem
    <3> QED BY <1>1, <3>1, <3>2, <3>3
  <2>3. SameRunning
    BY <2>2 DEF SameRunning, TypeOK
  <2> QED BY <2>1, <2>3, QuietStep
<1>2. ASSUME NEW i \in Items, CancelItem(i)
      PROVE  [Turns!Next]_Turns!turns
  BY <1>2, QuietStep DEF CancelItem, SameRunning
<1>3. ASSUME NEW c \in Consoles, NEW h \in Holders, Hold(c, h) \/ Release(c, h)
      PROVE  [Turns!Next]_Turns!turns
  <2>1. UNCHANGED status
    BY <1>3 DEF Hold, Release
  <2>2. at' = at
    BY <2>1 DEF Running, On
  <2>3. at[c] = Running(c)
    OBVIOUS
  <2> HIDE DEF at
  <2>4. Turns!Hold(c, h) \/ Turns!Release(c, h)
    BY <1>3, <2>2, <2>3 DEF Hold, Release, Turns!Hold, Turns!Release, at
  <2> QED BY <2>4 DEF Turns!Next
<1> QED BY <1>1, <1>2, <1>3, ZenonT(30) DEF ClientStep

\* A fault ends what runs on one console, or everything and all holds.
LEMMA FaultTurns ==
  ASSUME TypeOK, FaultStep
  PROVE  [Turns!Next]_Turns!turns
<1>1. ASSUME NEW r \in Requests, DropRequest(r)
      PROVE  [Turns!Next]_Turns!turns
  BY <1>1, QuietStep DEF DropRequest, book, SameRunning
<1>2. ASSUME NEW s \in pending, WriteFails(s)
      PROVE  [Turns!Next]_Turns!turns
  BY <1>2, QuietStep DEF WriteFails, book, SameRunning
<1>3. ASSUME NEW c \in Consoles, DriverEnd(c)
      PROVE  [Turns!Next]_Turns!turns
  <2>1. UNCHANGED holds /\ \A j \in Items :
          status'[j] = IF j \in Running(c) THEN "interrupted" ELSE status[j]
    BY <1>3 DEF DriverEnd
  <2>2. \A j \in Items : ConsoleOf[j] = c => status'[j] # "running"
    BY <2>1 DEF Running, On
  <2>3. \A j \in Items : ConsoleOf[j] # c => status'[j] = status[j]
    BY <2>1 DEF Running, On
  <2> QED BY <2>1, <2>2, <2>3, EndStep
<1>4. ASSUME NEW saved \in BOOLEAN, Restart(saved)
      PROVE  [Turns!Next]_Turns!turns
  <2>1. \A j \in Items : status'[j] # "running"
    <3>1. disk.status \in [Items -> Statuses]
      BY DEF TypeOK
    <3>2. \A j \in Items : status'[j] \in {AfterRestart(disk.line, disk.status)[j], "new", "gone"}
      BY <1>4 DEF Restart
    <3> QED BY <3>1, <3>2, AfterRestartEffect
  <2>2. holds' = [c \in Consoles |-> {}]
    BY <1>4 DEF Restart
  <2>3. \A c \in Consoles : Running(c)' = {}
    BY <2>1 DEF Running, On
  <2>4. [c \in Consoles |-> Running(c)]' = [c \in Consoles |-> {}]
    BY <2>3
  <2>5. Turns!Restart
    BY <2>2, <2>4 DEF Turns!Restart
  <2> QED BY <2>5 DEF Turns!Next
<1> QED BY <1>1, <1>2, <1>3, <1>4, ZenonT(30) DEF FaultStep

\* Every step of the queue is a step of ConsoleTurns or a stutter.
LEMMA StepTurns ==
  ASSUME TypeOK, DriverInv, [Next]_vars
  PROVE  [Turns!Next]_Turns!turns
<1>1. CASE UNCHANGED vars
  BY <1>1, QuietStep DEF vars, book, SameRunning
<1>2. ASSUME NEW r \in Requests, RequestStep(r)
      PROVE  [Turns!Next]_Turns!turns
  BY <1>2, QuietStep DEF RequestStep, RequestSaves, Answer, book, SameRunning
<1>3. ASSUME NEW s \in pending, WriteSnapshot(s)
      PROVE  [Turns!Next]_Turns!turns
  BY <1>3, QuietStep DEF WriteSnapshot, book, SameRunning
<1>4. CASE Surroundings
  <2>1. UNCHANGED <<status, holds>>
    BY <1>4 DEF Surroundings, Settle, JobEnds, ObstacleComes, ObstacleGoes, book
  <2> QED BY <2>1, QuietStep DEF SameRunning
<1>5. CASE Next
  BY <1>2, <1>3, <1>4, <1>5, DriverTurns, ClientTurns, FaultTurns, ZenonT(30) DEF Next
<1> QED BY <1>1, <1>5

\* The queue keeps hold_handler's contract (ConsoleTurns) whatever its clients do and
\* whatever fails.
THEOREM ImplementsTurns == Spec => TakesTurns
<1>1. Init => Turns!Init
  <2>1. Init => \A c \in Consoles : Running(c) = {}
    BY DEF Init, Running, On
  <2> QED BY <2>1 DEF Init, Turns!Init
<1>2. TypeOK /\ DriverInv /\ [Next]_vars => (TypeOK /\ DriverInv)'
  BY NextInv
<1>3. TypeOK /\ DriverInv /\ [Next]_vars => [Turns!Next]_Turns!turns
  BY StepTurns
<1>4. TakesTurns <=> Turns!Init /\ [][Turns!Next]_Turns!turns
  BY DEF TakesTurns, Turns!Spec
<1> QED BY <1>1, <1>2, <1>3, <1>4, InitInv, PTL DEF Spec
-----------------------------------------------------------------------------
(* The finished items that stay *)

\* a set of numbers has a least one
LEMMA Least ==
  ASSUME NEW T \in SUBSET Nat, T # {}
  PROVE  \E x \in T : \A y \in T : x <= y
<1>1. PICK x \in T : \A y \in T : ~(<<y, x>> \in OpToRel(<, Nat))
  BY NatLessThanWellFounded, WFMin, Zenon
<1>2. \A y \in T : ~(y < x)
  BY <1>1 DEF OpToRel
<1> QED BY <1>2

\* the items that have a place in list l
Placed(l) == {i \in Items : \E k \in DOMAIN l : l[k] = i}

\* of some items of a list one comes first
LEMMA FirstInLine ==
  ASSUME NEW l \in Seq(Items), NEW K \in SUBSET Placed(l), K # {}
  PROVE  \E j \in K : \A k \in K \ {j} : Behind(l, j, k)
<1> DEFINE T == {n \in DOMAIN l : l[n] \in K}
<1>1. DOMAIN l = 1 .. Len(l) /\ Len(l) \in Nat
  OBVIOUS
<1>2. T \in SUBSET Nat /\ T # {}
  BY <1>1 DEF Placed
<1>3. PICK n \in T : \A m \in T : n <= m
  BY <1>2, Least
<1>4. ASSUME NEW k \in K, k # l[n]
      PROVE  Behind(l, l[n], k)
  <2>1. PICK m \in DOMAIN l : l[m] = k
    BY <1>4 DEF Placed
  <2>2. n < m
    BY <1>1, <1>3, <1>4, <2>1
  <2> QED BY <1>3, <2>1, <2>2 DEF Behind
<1> QED BY <1>3, <1>4

\* only finitely many items have a place
LEMMA PlacedFinite ==
  ASSUME NEW l \in Seq(Items)
  PROVE  IsFiniteSet(Placed(l))
<1> DEFINE f == [k \in DOMAIN l |-> l[k]]
<1>1. DOMAIN l = 1 .. Len(l) /\ Len(l) \in Nat
  OBVIOUS
<1>2. IsFiniteSet(DOMAIN l)
  BY <1>1, FS_Interval
<1>3. f \in Surjection(DOMAIN l, Placed(l))
  BY <1>1 DEF Placed, Surjection
<1> QED BY <1>2, <1>3, FS_Surjection

\* prune leaves at most MaxFinished finished items of a console
LEMMA PruneBound ==
  ASSUME NEW l \in Seq(Items), NEW st \in [Items -> Statuses], NEW c,
         On(c, st, Finished) \subseteq Placed(l)
  PROVE  Cardinality(On(c, Prune(l, st, c), Finished)) <= MaxFinished
<1> DEFINE fin == On(c, st, Finished)
           left == On(c, Prune(l, st, c), Finished)
           after(j) == {k \in fin : Behind(l, j, k)}
<1>1. left \subseteq fin /\ \A j \in left : ~(Cardinality(after(j)) >= MaxFinished)
  BY DEF Prune, On, Finished
<1>2. IsFiniteSet(fin)
  BY PlacedFinite, FS_Subset
<1>3. IsFiniteSet(left) /\ Cardinality(left) \in Nat
  BY <1>1, <1>2, FS_Subset, FS_CardinalityType
<1>4. CASE left = {}
  <2>1. Cardinality(left) = 0
    BY <1>4, FS_EmptySet
  <2> QED BY <2>1, QueueAssumption
<1>5. CASE left # {}
  <2>1. PICK j \in left : \A k \in left \ {j} : Behind(l, j, k)
    <3>1. left \in SUBSET Placed(l)
      BY <1>1
    <3> HIDE DEF left
    <3> QED BY <1>5, <3>1, FirstInLine
  <2>2. left \ {j} \subseteq after(j) /\ after(j) \subseteq fin
    BY <1>1, <2>1
  <2>3. IsFiniteSet(after(j)) /\ Cardinality(after(j)) \in Nat
    BY <1>2, <2>2, FS_Subset, FS_CardinalityType
  <2>4. Cardinality(left \ {j}) <= Cardinality(after(j))
    BY <2>2, <2>3, FS_Subset
  <2>5. Cardinality(left \ {j}) = Cardinality(left) - 1
    BY <1>3, <2>1, FS_RemoveElement
  <2>6. ~(Cardinality(after(j)) >= MaxFinished)
    BY <1>1, <2>1
  <2> HIDE DEF left, fin, after
  <2>7. Cardinality(left) <= MaxFinished
    BY <1>3, <2>3, <2>4, <2>5, <2>6, QueueAssumption
  <2> QED BY <2>7 DEF left
<1> QED BY <1>4, <1>5

\* where the elements of two lists are when the second is put behind the first
LEMMA ConcatAt ==
  ASSUME NEW a \in Seq(Items), NEW b \in Seq(Items)
  PROVE  /\ a \o b \in Seq(Items) /\ Len(a \o b) = Len(a) + Len(b)
         /\ \A k \in 1 .. Len(a) : (a \o b)[k] = a[k]
         /\ \A k \in 1 .. Len(b) : (a \o b)[Len(a) + k] = b[k]
<1>1. Len(a) \in Nat /\ Len(b) \in Nat
  OBVIOUS
<1>2. /\ a \o b \in Seq(Items) /\ Len(a \o b) = Len(a) + Len(b)
      /\ \A k \in 1 .. Len(a) + Len(b) :
           (a \o b)[k] = IF k <= Len(a) THEN a[k] ELSE b[k - Len(a)]
  BY ConcatProperties
<1>3. ASSUME NEW k \in 1 .. Len(b) PROVE (a \o b)[Len(a) + k] = b[k]
  <2>1. Len(a) + k \in 1 .. Len(a) + Len(b) /\ ~(Len(a) + k <= Len(a)) /\ (Len(a) + k) - Len(a) = k
    BY <1>1
  <2> QED BY <1>2, <2>1
<1>4. ASSUME NEW k \in 1 .. Len(a) PROVE (a \o b)[k] = a[k]
  <2>1. k \in 1 .. Len(a) + Len(b) /\ k <= Len(a)
    BY <1>1
  <2> QED BY <1>2, <2>1
<1> QED BY <1>2, <1>3, <1>4

\* what taking an item out of a list leaves at each place
LEMMA RemovedIs ==
  ASSUME NEW l \in Seq(Items), NEW at \in DOMAIN l
  PROVE  LET rest == Removed(l, at)
         IN  /\ rest \in Seq(Items) /\ Len(rest) = Len(l) - 1
             /\ \A k \in DOMAIN l : k < at => rest[k] = l[k]
             /\ \A k \in DOMAIN l : k > at => rest[k - 1] = l[k]
<1>0. DOMAIN l = 1 .. Len(l) /\ Len(l) \in Nat
  OBVIOUS
<1> DEFINE a == SubSeq(l, 1, at - 1)
           b == SubSeq(l, at + 1, Len(l))
<1>1. a \in Seq(Items) /\ Len(a) = at - 1 /\ \A k \in 1 .. at - 1 : a[k] = l[k]
  BY <1>0
<1>2. b \in Seq(Items) /\ Len(b) = Len(l) - at /\ \A k \in 1 .. Len(l) - at : b[k] = l[at + k]
  BY <1>0
<1>3. Removed(l, at) = a \o b
  BY DEF Removed
<1> HIDE DEF a, b
<1>4. /\ a \o b \in Seq(Items) /\ Len(a \o b) = Len(l) - 1
      /\ \A k \in 1 .. at - 1 : (a \o b)[k] = a[k]
      /\ \A k \in 1 .. Len(l) - at : (a \o b)[at - 1 + k] = b[k]
  <2>1. /\ a \o b \in Seq(Items) /\ Len(a \o b) = Len(a) + Len(b)
        /\ \A k \in 1 .. Len(a) : (a \o b)[k] = a[k]
        /\ \A k \in 1 .. Len(b) : (a \o b)[Len(a) + k] = b[k]
    BY <1>1, <1>2, ConcatAt
  <2>2. Len(a \o b) = Len(l) - 1
    BY <1>0, <1>1, <1>2, <2>1
  <2> QED BY <1>1, <1>2, <2>1, <2>2
<1>5. ASSUME NEW k \in DOMAIN l, k > at PROVE (a \o b)[k - 1] = l[k]
  <2>1. k - at \in 1 .. Len(l) - at /\ at - 1 + (k - at) = k - 1 /\ at + (k - at) = k
    BY <1>0, <1>5
  <2>2. (a \o b)[at - 1 + (k - at)] = b[k - at] /\ b[k - at] = l[at + (k - at)]
    BY <1>2, <1>4, <2>1
  <2> QED BY <2>1, <2>2
<1>6. \A k \in DOMAIN l : k < at => (a \o b)[k] = l[k]
  BY <1>0, <1>1, <1>4
<1> QED BY <1>3, <1>4, <1>5, <1>6

\* what putting an item into a list leaves at each place
LEMMA InsertedIs ==
  ASSUME NEW l \in Seq(Items), NEW at \in DOMAIN l, NEW i \in Items
  PROVE  LET more == Inserted(l, at, i)
         IN  /\ more \in Seq(Items) /\ Len(more) = Len(l) + 1 /\ more[at] = i
             /\ \A k \in DOMAIN l : k < at => more[k] = l[k]
             /\ \A k \in DOMAIN l : k >= at => more[k + 1] = l[k]
<1>0. DOMAIN l = 1 .. Len(l) /\ Len(l) \in Nat
  OBVIOUS
<1> DEFINE a == SubSeq(l, 1, at - 1)
           b == SubSeq(l, at, Len(l))
           h == a \o <<i>>
<1>1. a \in Seq(Items) /\ Len(a) = at - 1 /\ \A k \in 1 .. at - 1 : a[k] = l[k]
  BY <1>0
<1>2. b \in Seq(Items) /\ Len(b) = Len(l) + 1 - at
      /\ \A k \in 1 .. Len(l) + 1 - at : b[k] = l[at - 1 + k]
  BY <1>0
<1>3. Inserted(l, at, i) = h \o b
  BY DEF Inserted
<1> HIDE DEF a, b
<1>4. h \in Seq(Items) /\ Len(h) = at /\ h[at] = i /\ \A k \in 1 .. at - 1 : h[k] = l[k]
  BY <1>0, <1>1
<1> HIDE DEF h
<1>5. /\ h \o b \in Seq(Items) /\ Len(h \o b) = Len(l) + 1
      /\ \A k \in 1 .. at : (h \o b)[k] = h[k]
      /\ \A k \in 1 .. Len(l) + 1 - at : (h \o b)[at + k] = b[k]
  <2>1. /\ h \o b \in Seq(Items) /\ Len(h \o b) = Len(h) + Len(b)
        /\ \A k \in 1 .. Len(h) : (h \o b)[k] = h[k]
        /\ \A k \in 1 .. Len(b) : (h \o b)[Len(h) + k] = b[k]
    BY <1>2, <1>4, ConcatAt
  <2>2. Len(h \o b) = Len(l) + 1
    BY <1>0, <1>2, <1>4, <2>1, SMTT(60)
  <2> QED BY <1>2, <1>4, <2>1, <2>2
<1>6. ASSUME NEW k \in DOMAIN l, k >= at PROVE (h \o b)[k + 1] = l[k]
  <2>1. /\ k + 1 - at \in 1 .. Len(l) + 1 - at
        /\ at + (k + 1 - at) = k + 1 /\ at - 1 + (k + 1 - at) = k
    BY <1>0, <1>6
  <2>2. (h \o b)[at + (k + 1 - at)] = b[k + 1 - at] /\ b[k + 1 - at] = l[at - 1 + (k + 1 - at)]
    BY <1>2, <1>5, <2>1
  <2> QED BY <2>1, <2>2
<1>7. \A k \in DOMAIN l : k < at => (h \o b)[k] = l[k]
  <2> SUFFICES ASSUME NEW k \in DOMAIN l, k < at PROVE (h \o b)[k] = l[k]
    OBVIOUS
  <2>1. k \in 1 .. at /\ k \in 1 .. at - 1
    BY <1>0
  <2> QED BY <1>4, <1>5, <2>1
<1>8. (h \o b)[at] = i
  BY <1>0, <1>4, <1>5
<1> QED BY <1>3, <1>5, <1>6, <1>7, <1>8

\* place loses no item of the list
LEMMA PlaceKeeps ==
  ASSUME NEW l \in Seq(Items), NEW st, NEW at \in DOMAIN l, NEW position
  PROVE  Placed(l) \subseteq Placed(Place(l, st, at, position))
<1>0. DOMAIN l = 1 .. Len(l) /\ Len(l) \in Nat /\ l[at] \in Items
  OBVIOUS
<1> DEFINE rest == Removed(l, at)
           slots == {k \in DOMAIN rest : rest[k] \in On(ConsoleOf[l[at]], st, Waiting)}
           to == {k \in slots : Cardinality({s \in slots : s < k}) = position}
<1>1. /\ rest \in Seq(Items) /\ Len(rest) = Len(l) - 1
      /\ \A k \in DOMAIN l : k < at => rest[k] = l[k]
      /\ \A k \in DOMAIN l : k > at => rest[k - 1] = l[k]
  BY RemovedIs
<1>2. Place(l, st, at, position) = IF to = {} THEN Append(rest, l[at])
                                   ELSE Inserted(rest, CHOOSE k \in to : TRUE, l[at])
  BY DEF Place
<1>3. to \subseteq DOMAIN rest
  OBVIOUS
<1> HIDE DEF to, slots, rest
<1>4. ASSUME NEW i \in Placed(l), i # l[at] PROVE \E k \in DOMAIN rest : rest[k] = i
  <2>1. PICK k \in DOMAIN l : l[k] = i
    BY DEF Placed
  <2>2. CASE k < at
    <3>1. k \in DOMAIN rest
      BY <1>0, <1>1, <2>2
    <3> QED BY <1>1, <2>1, <2>2, <3>1
  <2>3. CASE k > at
    <3>1. k - 1 \in DOMAIN rest
      BY <1>0, <1>1, <2>3
    <3> QED BY <1>1, <2>1, <2>3, <3>1
  <2> QED BY <1>0, <1>4, <2>1, <2>2, <2>3
<1>5. CASE to = {}
  <2> DEFINE p == Append(rest, l[at])
  <2>1. /\ DOMAIN p = 1 .. Len(rest) + 1 /\ p[Len(rest) + 1] = l[at] /\ Len(rest) \in Nat
        /\ \A k \in DOMAIN rest : k \in DOMAIN p /\ p[k] = rest[k]
    <3>1. /\ p \in Seq(Items) /\ Len(p) = Len(rest) + 1 /\ p[Len(rest) + 1] = l[at]
          /\ \A k \in 1 .. Len(rest) : p[k] = rest[k]
      <4> HIDE DEF p
      <4>1. rest \in Seq(Items) /\ l[at] \in Items
        BY <1>0, <1>1
      <4>2. ASSUME NEW e \in Items
            PROVE  /\ Append(rest, e) \in Seq(Items)
                   /\ Len(Append(rest, e)) = Len(rest) + 1
                   /\ Append(rest, e)[Len(rest) + 1] = e
                   /\ \A k \in 1 .. Len(rest) : Append(rest, e)[k] = rest[k]
        BY <4>1
      <4> QED BY <4>1, <4>2, Zenon DEF p
    <3>2. DOMAIN rest = 1 .. Len(rest) /\ Len(rest) \in Nat
      BY <1>1
    <3> HIDE DEF p
    <3>3. DOMAIN p = 1 .. Len(rest) + 1
      BY <3>1
    <3> QED BY <3>1, <3>2, <3>3
  <2>2. Len(rest) + 1 \in DOMAIN p
    BY <2>1
  <2> HIDE DEF p
  <2>3. \A i \in Placed(l) : \E k \in DOMAIN p : p[k] = i
    BY <1>4, <2>1, <2>2
  <2> QED BY <1>2, <1>5, <2>3 DEF p, Placed
<1>6. CASE to # {}
  <2>0. PICK n \in to : n = CHOOSE k \in to : TRUE
    BY <1>6
  <2> DEFINE p == Inserted(rest, n, l[at])
  <2>1. /\ p \in Seq(Items) /\ Len(p) = Len(rest) + 1 /\ p[n] = l[at]
        /\ \A k \in DOMAIN rest : k < n => p[k] = rest[k]
        /\ \A k \in DOMAIN rest : k >= n => p[k + 1] = rest[k]
    BY <1>0, <1>1, <1>3, <2>0, InsertedIs, ZenonT(60)
  <2> HIDE DEF p
  <2>2. /\ DOMAIN rest = 1 .. Len(rest) /\ Len(rest) \in Nat /\ DOMAIN p = 1 .. Len(rest) + 1
        /\ n \in DOMAIN rest
    BY <1>1, <1>3, <2>0, <2>1
  <2>3. \A k \in DOMAIN rest : k \in DOMAIN p /\ k + 1 \in DOMAIN p
    BY <2>2
  <2>4. \A k \in DOMAIN rest : \E m \in DOMAIN p : p[m] = rest[k]
    BY <2>1, <2>2, <2>3
  <2>5. \A i \in Placed(l) : \E m \in DOMAIN p : p[m] = i
    BY <1>4, <2>1, <2>2, <2>3, <2>4
  <2> QED BY <1>2, <1>6, <2>0, <2>5 DEF p, Placed
<1> QED BY <1>5, <1>6

\* every item of the list has a place in it
InLine == \A i \in Listed : i \in Placed(line)

LimitInv == InLine /\ FinishedBound

\* a console with no finished item more has no more than before
LEMMA FewerFinished ==
  ASSUME TypeOK, LimitInv, NEW c \in Consoles,
         On(c, status', Finished) \subseteq On(c, status, Finished)
  PROVE  Cardinality(On(c, status', Finished)) <= MaxFinished
<1> DEFINE old == On(c, status, Finished)
           new == On(c, status', Finished)
<1>1. old \subseteq Placed(line)
  BY DEF LimitInv, InLine, Listed, On, Finished
<1>2. IsFiniteSet(old) /\ new \subseteq old /\ Cardinality(old) <= MaxFinished
  <2>1. line \in Seq(Items)
    BY DEF TypeOK
  <2> QED BY <1>1, <2>1, PlacedFinite, FS_Subset DEF LimitInv, FinishedBound
<1> HIDE DEF old, new
<1>3. Cardinality(new) <= Cardinality(old) /\ Cardinality(new) \in Nat /\ Cardinality(old) \in Nat
  BY <1>2, FS_Subset, FS_CardinalityType
<1>4. Cardinality(new) <= MaxFinished
  BY <1>2, <1>3, QueueAssumption
<1> QED BY <1>4 DEF new

\* finish prunes the console of the run that ended
LEMMA EndsBound ==
  ASSUME TypeOK, DriverInv, ItemInv, LimitInv,
         NEW c \in Consoles, NEW end \in Finished, Ends(c, end)
  PROVE  LimitInv'
<1> DEFINE i == drv[c].item
           new == IF intent[i] = "remove" THEN "gone"
                  ELSE IF end = "cancelled" /\ intent[i] = "pause" THEN "paused"
                  ELSE end
           ended == [status EXCEPT ![i] = new]
           held == IF i \in StopOnFailure /\ new \in {"failed", "interrupted"}
                   THEN HoldLaterItems(line, ended, i) ELSE ended
<1>1. i \in Items /\ ConsoleOf[i] = c /\ status[i] = "running"
  BY DEF Ends, DriverInv, DriverHasItem, ItemInv, FollowedRuns, Following
<1>2. status' = Prune(line, held, c) /\ UNCHANGED line /\ Finish(c, i, end)
  BY DEF Ends, Finish
<1>3. new \in Statuses
  BY DEF Statuses, Finished, Waiting
<1>4. \A j \in Items : j # i => \/ status'[j] = status[j]
                                \/ status[j] = "queued" /\ status'[j] = "paused"
                                \/ status[j] \in Finished /\ status'[j] = "gone"
  BY <1>2, FinishOthers
<1> HIDE DEF i, new
<1>5. ended \in [Items -> Statuses] /\ \A j \in Items : j # i => ended[j] = status[j]
  BY <1>3 DEF TypeOK
<1> HIDE DEF ended
<1>6. /\ held \in [Items -> Statuses]
      /\ \A j \in Items : held[j] # ended[j] => ended[j] = "queued" /\ held[j] = "paused"
  <2> DEFINE later == HoldLaterItems(line, ended, i)
  <2>1. /\ later \in [Items -> Statuses]
        /\ \A j \in Items : later[j] # ended[j] => ended[j] = "queued" /\ later[j] = "paused"
    BY <1>5, HoldLaterItemsEffect
  <2>2. held = later \/ held = ended
    OBVIOUS
  <2> HIDE DEF later, held
  <2> QED BY <1>5, <2>1, <2>2
<1> HIDE DEF held
<1>7. On(c, held, Finished) \subseteq Placed(line)
  <2> SUFFICES ASSUME NEW j \in Items, held[j] \in Finished
               PROVE  j \in Placed(line)
    BY DEF On
  <2>1. j = i \/ status[j] \in Finished
    BY <1>5, <1>6 DEF Finished
  <2>2. j \in Listed
    BY <1>1, <2>1 DEF Listed, Finished
  <2> QED BY <2>2 DEF LimitInv, InLine
<1>8. Cardinality(On(c, status', Finished)) <= MaxFinished
  <2>1. line \in Seq(Items)
    BY DEF TypeOK
  <2>2. Cardinality(On(c, Prune(line, held, c), Finished)) <= MaxFinished
    BY <1>6, <1>7, <2>1, PruneBound
  <2> QED BY <1>2, <2>2
<1>9. ASSUME NEW e \in Consoles, e # c
      PROVE  Cardinality(On(e, status', Finished)) <= MaxFinished
  <2>1. On(e, status', Finished) \subseteq On(e, status, Finished)
    BY <1>1, <1>4, <1>9 DEF On, Finished
  <2> QED BY <2>1, FewerFinished
<1>10. InLine'
  <2>1. \A j \in Items : j \in Listed' => j \in Listed
    BY <1>1, <1>4 DEF Listed, Finished
  <2>2. \A j \in Listed' : j \in Items
    BY DEF Listed
  <2> QED BY <1>2, <2>1, <2>2 DEF LimitInv, InLine, Placed
<1>11. FinishedBound'
  BY <1>8, <1>9 DEF FinishedBound
<1> QED BY <1>10, <1>11 DEF LimitInv

\* No step takes an item of the list out of its place, or leaves too many finished
\* ones, unless a driver or the process ends by itself.
LEMMA NextLimit ==
  ASSUME {"crash", "panic"} \cap Faults = {}, TypeOK, DriverInv, ItemInv, LimitInv, [Next]_vars
  PROVE  LimitInv'
<1>1. ASSUME \A j \in Items : status'[j] \in Finished => status[j] \in Finished, InLine'
      PROVE  LimitInv'
  <2>1. \A c \in Consoles : On(c, status', Finished) \subseteq On(c, status, Finished)
    BY <1>1 DEF On
  <2>2. \A c \in Consoles : Cardinality(On(c, status', Finished)) <= MaxFinished
    BY <2>1, FewerFinished
  <2> QED BY <1>1, <2>2 DEF LimitInv, FinishedBound
<1>2. ASSUME UNCHANGED line, \A j \in Items : j \in Listed' => j \in Listed
      PROVE  InLine'
  <2>1. \A j \in Listed' : j \in Items
    BY DEF Listed
  <2> QED BY <1>2, <2>1 DEF LimitInv, InLine, Placed
<1>3. CASE UNCHANGED vars \/ Quiet
  <2>1. UNCHANGED <<line, status>>
    BY <1>3 DEF vars, book, Quiet
  <2> QED BY <1>1, <1>2, <2>1 DEF Listed
<1> SUFFICES ASSUME Next PROVE LimitInv'
  BY <1>3
<1>4. ASSUME NEW c \in Consoles, Starts(c)
      PROVE  LimitInv'
  <2>1. drv[c].item \in Items /\ status[drv[c].item] = "queued"
    BY <1>4 DEF Starts, StillHead, IsHead, Queued, On
  <2>2. status' = [status EXCEPT ![drv[c].item] = "running"] /\ UNCHANGED line
    BY <1>4 DEF Starts, StartItem
  <2>3. \A j \in Items : /\ status'[j] \in Finished => status[j] \in Finished
                         /\ j \in Listed' => j \in Listed
    BY <2>1, <2>2 DEF TypeOK, Listed, Finished
  <2> QED BY <1>1, <1>2, <2>2, <2>3
<1>5. ASSUME NEW c \in Consoles, Requeues(c)
      PROVE  LimitInv'
  <2>1. drv[c].item \in Items /\ status[drv[c].item] = "running"
    BY <1>5 DEF Requeues, ItemInv, FollowedRuns, DriverInv, DriverHasItem, Following
  <2>2. status' = [status EXCEPT ![drv[c].item] = "queued"] /\ UNCHANGED line
    BY <1>5 DEF Requeues, Requeue
  <2>3. \A j \in Items : /\ status'[j] \in Finished => status[j] \in Finished
                         /\ j \in Listed' => j \in Listed
    BY <2>1, <2>2 DEF TypeOK, Listed, Finished
  <2> QED BY <1>1, <1>2, <2>2, <2>3
<1>6. ASSUME NEW i \in Items, CancelItem(i)
      PROVE  LimitInv'
  BY <1>1, <1>2, <1>6 DEF CancelItem, Listed
<1>7. ASSUME NEW r \in Requests, NEW i \in Items, Changes(r, i)
      PROVE  LimitInv'
  <2>0. line \in Seq(Items) /\ i \in Items
    BY DEF TypeOK
  <2>1. \A j \in Items : status'[j] \in Finished => status[j] \in Finished
    BY <1>7, HandlerEffect DEF Finished
  <2>2. ASSUME NEW position, AddItem(r, i, position)
        PROVE  InLine'
    <3> DEFINE longer == Append(line, i)
    <3>1. /\ longer \in Seq(Items) /\ Len(line) + 1 \in DOMAIN longer
          /\ longer[Len(line) + 1] = i
          /\ \A k \in DOMAIN line : k \in DOMAIN longer /\ longer[k] = line[k]
      BY <2>0
    <3>2. /\ line' = Place(longer, status, Len(line) + 1, position)
          /\ status' = [status EXCEPT ![i] = "queued"]
      BY <2>2 DEF AddItem
    <3> HIDE DEF longer
    <3>3. Placed(longer) \subseteq Placed(line')
      BY <3>1, <3>2, PlaceKeeps
    <3>4. \A j \in Listed' : j = i \/ j \in Listed
      BY <3>2 DEF Listed, TypeOK
    <3>5. \A j \in Listed' : j \in Placed(longer)
      BY <3>1, <3>4 DEF LimitInv, InLine, Placed
    <3>6. \A j \in Listed' : j \in Placed(line')
      BY <3>3, <3>5
    <3> QED BY <3>6 DEF InLine, Placed
  <2>3. ASSUME NEW position, MoveItem(r, i, position)
        PROVE  InLine'
    <3>1. PICK at \in DOMAIN line : line' = Place(line, status, at, position)
      BY <2>3, ZenonT(30) DEF MoveItem
    <3>2. Placed(line) \subseteq Placed(line')
      BY <2>0, <3>1, PlaceKeeps
    <3>3. Listed' = Listed
      BY <2>3, ZenonT(30) DEF MoveItem, Listed
    <3>4. \A j \in Listed' : j \in Placed(line')
      BY <3>2, <3>3 DEF LimitInv, InLine
    <3> QED BY <3>4 DEF InLine, Placed
  <2>4. ASSUME PauseItem(r, i) \/ ResumeItem(r, i) \/ RemoveItem(r, i)
        PROVE  InLine'
    <3>1. UNCHANGED line
      BY <2>4, ZenonT(30) DEF PauseItem, ResumeItem, RemoveItem
    <3>2. \/ UNCHANGED status
          \/ status[i] \notin {"new", "gone"} /\ \E s : status' = [status EXCEPT ![i] = s]
      BY <2>4 DEF PauseItem, ResumeItem, RemoveItem, Listed, Waiting
    <3>3. \A j \in Items : j \in Listed' => j \in Listed
      BY <3>2 DEF Listed, TypeOK
    <3> QED BY <1>2, <3>1, <3>3
  <2>5. InLine'
    BY <1>7, <2>2, <2>3, <2>4, ZenonT(30) DEF Changes
  <2> QED BY <1>1, <2>1, <2>5
<1>8. ASSUME NEW c \in Consoles, DriverEnd(c)
      PROVE  FALSE
  BY <1>8, ZenonT(30) DEF DriverEnd
<1>9. ASSUME NEW saved \in BOOLEAN, Restart(saved)
      PROVE  FALSE
  BY <1>9, ZenonT(30) DEF Restart
<1> QED
  BY <1>3, <1>4, <1>5, <1>6, <1>7, <1>8, <1>9, EndsBound, ItemSteps, ZenonT(30)

\* The list never keeps more than MaxFinished finished items of a console, for every
\* interleaving of drivers and handlers, while no driver and no process ends by
\* itself: finish is the only step that finishes an item, and it prunes.
THEOREM FinishedStayBounded ==
  ASSUME {"crash", "panic"} \cap Faults = {}
  PROVE  Spec => []FinishedBound
<1>1. TypeOK /\ DriverInv /\ [Next]_vars => (TypeOK /\ DriverInv)'
  BY NextInv
<1>2. TypeOK /\ DriverInv /\ ItemInv /\ [Next]_vars => ItemInv'
  BY NextItems
<1>3. TypeOK /\ DriverInv /\ ItemInv /\ LimitInv /\ [Next]_vars => LimitInv'
  BY NextLimit
<1>4. Init => LimitInv
  <2> SUFFICES ASSUME Init PROVE LimitInv
    OBVIOUS
  <2>1. Listed = {} /\ \A c \in Consoles : On(c, status, Finished) = {}
    BY DEF Init, Listed, On, Finished
  <2>2. \A c \in Consoles : Cardinality(On(c, status, Finished)) <= MaxFinished
    <3>1. Cardinality({}) = 0
      BY FS_EmptySet
    <3> QED BY <2>1, <3>1, QueueAssumption
  <2> QED BY <2>1, <2>2 DEF LimitInv, InLine, FinishedBound
<1>5. LimitInv => FinishedBound
  BY DEF LimitInv
<1> QED BY <1>1, <1>2, <1>3, <1>4, <1>5, InitInv, InitItems, PTL DEF Spec
=============================================================================
