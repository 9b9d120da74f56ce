------------------------- MODULE EngineQueueProofs -------------------------
(***************************************************************************)
(* Theorems about the engine's queue for every value of the constants.     *)
(***************************************************************************)
EXTENDS EngineQueue, TLAPS
-----------------------------------------------------------------------------
(* What the operators on the list return *)

\* place returns a list of items
LEMMA PlaceType ==
  ASSUME NEW l \in Seq(Items), NEW st, NEW at \in DOMAIN l, NEW position
  PROVE  Place(l, st, at, position) \in Seq(Items)
<1> DEFINE rest == Removed(l, at)
           slots == {k \in DOMAIN rest : rest[k] \in On(ConsoleOf[l[at]], st, Waiting)}
           to == {k \in slots : Cardinality({s \in slots : s < k}) = position}
<1>1. rest \in Seq(Items) /\ l[at] \in Items
  BY DEF Removed
<1>2. CASE to = {}
  <2>1. Append(rest, l[at]) \in Seq(Items)
    BY <1>1
  <2> QED BY <1>2, <2>1 DEF Place
<1>3. CASE to # {}
  <2> DEFINE k == CHOOSE k \in to : TRUE
  <2>1. k \in DOMAIN rest
    BY <1>3, ZenonT(30)
  <2> HIDE DEF k, to, slots, rest
  <2>2. Inserted(rest, k, l[at]) \in Seq(Items)
    BY <1>1, <2>1 DEF Inserted
  <2> QED BY <1>3, <2>2, ZenonT(30) DEF Place, k, to, slots, rest
<1> QED BY <1>2, <1>3, ZenonT(30)

\* hold_later_items only pauses queued items
LEMMA HoldLaterItemsEffect ==
  ASSUME NEW l, NEW st \in [Items -> Statuses], NEW i
  PROVE  /\ HoldLaterItems(l, st, i) \in [Items -> Statuses]
         /\ \A j \in Items : HoldLaterItems(l, st, i)[j] # st[j]
              => st[j] = "queued" /\ HoldLaterItems(l, st, i)[j] = "paused"
BY DEF HoldLaterItems, Statuses, Waiting

\* prune only drops finished items
LEMMA PruneEffect ==
  ASSUME NEW l, NEW st \in [Items -> Statuses], NEW c
  PROVE  /\ Prune(l, st, c) \in [Items -> Statuses]
         /\ \A j \in Items : Prune(l, st, c)[j] # st[j]
              => st[j] \in Finished /\ Prune(l, st, c)[j] = "gone"
BY DEF Prune, Statuses, On

\* after_restart leaves nothing running, and nothing in line that was not in line or
\* that needs a secret
LEMMA AfterRestartEffect ==
  ASSUME NEW l, NEW st \in [Items -> Statuses]
  PROVE  /\ AfterRestart(l, st) \in [Items -> Statuses]
         /\ \A j \in Items : AfterRestart(l, st)[j] # "running"
         /\ \A j \in Items : AfterRestart(l, st)[j] = "queued"
              => st[j] = "queued" /\ j \notin Secret
BY DEF AfterRestart, Statuses, Waiting, Finished

\* the statuses that finish leaves
LEMMA FinishEffect ==
  ASSUME TypeOK, NEW c \in Consoles, NEW i, NEW end \in Finished, Finish(c, i, end)
  PROVE  /\ status' \in [Items -> Statuses]
         /\ \A j \in Items : status'[j] \in {"queued", "running"}
              => j # i /\ status[j] = status'[j]
<1> DEFINE new == IF intent[i] = "remove" THEN "gone"
                  ELSE IF end = "cancelled" /\ intent[i] = "pause" THEN "paused"
                  ELSE end
           ended == [status EXCEPT ![i] = new]
           held == IF i \in StopOnFailure /\ new \in {"failed", "interrupted"}
                   THEN HoldLaterItems(line, ended, i) ELSE ended
<1>1. new \in Statuses \ {"queued", "running"}
  BY DEF Statuses, Finished, Waiting
<1>2. status' = Prune(line, held, c)
  BY DEF Finish
<1> HIDE DEF new
<1>3. ended \in [Items -> Statuses] /\ \A j \in Items : j = i => ended[j] = new
  BY <1>1, ZenonT(30) DEF TypeOK
<1>4. \A j \in Items : j # i => ended[j] = status[j]
  BY DEF TypeOK
<1> HIDE DEF ended
<1>5. /\ held \in [Items -> Statuses]
      /\ \A j \in Items : held[j] # ended[j] => held[j] = "paused"
  BY <1>3, HoldLaterItemsEffect
<1> HIDE DEF held
<1>6. /\ status' \in [Items -> Statuses]
      /\ \A j \in Items : status'[j] # held[j] => status'[j] = "gone"
  BY <1>2, <1>5, PruneEffect
<1> QED BY <1>1, <1>3, <1>4, <1>5, <1>6
-----------------------------------------------------------------------------
(* Type correctness *)

\* The initial book, file, drivers and requests have their types.
LEMMA InitType == Init => TypeOK
<1> SUFFICES ASSUME Init PROVE TypeOK
  OBVIOUS
<1>1. NoDriver \in Drivers
  BY DEF NoDriver, Drivers, DriverPcs
<1>2. Idle \in Handlers
  BY QueueAssumption DEF Idle, Handlers, RequestPcs
<1>3. "new" \in Statuses /\ "none" \in Intents /\ "none" \in WaitReasons
  BY DEF Statuses, Intents, WaitReasons
<1> QED BY <1>1, <1>2, <1>3 DEF Init, TypeOK

\* the driver records that the actions write
LEMMA DriverRecords ==
  /\ NoDriver \in Drivers /\ Looking \in Drivers
  /\ \A d \in Drivers, p \in DriverPcs : [d EXCEPT !.pc = p] \in Drivers
  /\ \A i \in Items : [Looking EXCEPT !.pc = "probe", !.item = i] \in Drivers
  /\ [NoDriver EXCEPT !.pc = "saveEnd"] \in Drivers
BY ZenonT(30) DEF Drivers, NoDriver, Looking, DriverPcs, Following

\* the driver record that follow writes
LEMMA FollowRecord ==
  ASSUME NEW d \in Drivers, NEW stop \in BOOLEAN
  PROVE  [d EXCEPT !.pc = "poll", !.stopSent = stop] \in Drivers
<1>1. "poll" \in DriverPcs
  BY DEF DriverPcs, Following
<1> QED BY <1>1, ZenonT(30) DEF Drivers

\* a driver record of which only the place in the code changes
LEMMA DriverMoves ==
  ASSUME NEW d \in Drivers, NEW p \in DriverPcs
  PROVE  LET e == [d EXCEPT !.pc = p] IN e \in Drivers /\ e.pc = p /\ e.item = d.item
BY DEF Drivers

\* a driver that looks at an item's console, or runs an item, has an item of its
\* console
DriverHasItem ==
  \A c \in Consoles : drv[c].pc \in Following \cup {"probe", "tasks"} =>
    drv[c].item \in Items /\ ConsoleOf[drv[c].item] = c

\* A step of a driver keeps the types.
LEMMA DriverStepType ==
  ASSUME TypeOK, DriverHasItem, NEW c \in Consoles, DriverStep(c)
  PROVE  TypeOK'
<1> USE DEF TypeOK
<1>1. ASSUME NEW why \in WaitReasons, Wait(c, why)
      PROVE  /\ waitingFor' \in [Consoles -> WaitReasons]
             /\ drv' \in [Consoles -> Drivers]
             /\ UNCHANGED <<line, status, intent, kept, holds, drivers, settled>>
  BY <1>1, DriverRecords, ZenonT(30) DEF Wait
<1>a. {"none", "hold", "settle", "other_work", "console", "console_task"} \subseteq WaitReasons
  BY DEF WaitReasons, ObstacleKinds
<1>2. CASE LookAtLine(c)
  <2>1. CASE StopDriving(c)
    BY <1>2, <2>1, <1>a, DriverRecords, ZenonT(30) DEF LookAtLine, StopDriving, file
  <2>2. CASE WhyWait(c) # "none" /\ Wait(c, WhyWait(c))
    <3>1. WhyWait(c) \in WaitReasons
      BY <1>a DEF WhyWait
    <3> QED BY <1>1, <1>2, <2>2, <3>1, ZenonT(30) DEF LookAtLine, file
  <2>3. ASSUME NEW i \in Items, UNCHANGED book,
               drv' = [drv EXCEPT ![c] = [Looking EXCEPT !.pc = "probe", !.item = i]]
        PROVE  TypeOK'
    BY <1>2, <2>3, DriverRecords, ZenonT(30) DEF LookAtLine, file, book
  <2> QED BY <1>2, <2>1, <2>2, <2>3, ZenonT(30) DEF LookAtLine
<1>b. DriverPcs = {"saveRun", "call", "answer", "saveJob", "follow", "poll", "none",
                   "look", "probe", "tasks", "saveEnd"}
  BY DEF DriverPcs, Following
<1>c. ASSUME NEW p \in DriverPcs, drv' = [drv EXCEPT ![c].pc = p]
      PROVE  drv' \in [Consoles -> Drivers]
  BY <1>c, DriverRecords, ZenonT(30)
<1>3. CASE Probe(c)
  BY <1>1, <1>3, <1>a, <1>b, <1>c DEF Probe, file, book
<1>4. CASE StartHead(c)
  <2>1. CASE \E why \in {"none", "console_task"} : Wait(c, why)
    BY <1>1, <1>4, <1>a, <2>1 DEF StartHead, file
  <2>2. CASE StartItem(c, drv[c].item)
    BY <1>4, <1>a, <1>b, <1>c, <2>2, ZenonT(30) DEF StartHead, StartItem, file, Statuses
  <2> QED BY <1>4, <2>1, <2>2 DEF StartHead
<1>5. CASE DriverSaves(c)
  <2>1. drv' \in [Consoles -> Drivers]
    BY <1>5, <1>b, <1>c, ZenonT(30) DEF DriverSaves
  <2>2. generation' \in Nat /\ pending' \subseteq Snapshots /\ UNCHANGED disk
    BY <1>5 DEF DriverSaves, TakeSnapshot, Snapshots, file
  <2> QED BY <1>5, <2>1, <2>2 DEF DriverSaves, book
<1>6. CASE CallRoute(c)
  BY <1>6, <1>b, <1>c DEF CallRoute, file, book
<1>7. ASSUME NEW i, NEW end \in Finished, Finish(c, i, end)
      PROVE  /\ status' \in [Items -> Statuses] /\ intent' \in [Items -> Intents]
             /\ drv' \in [Consoles -> Drivers] /\ settled' \subseteq Consoles
             /\ UNCHANGED <<line, kept, holds, waitingFor, drivers>>
  BY <1>7, FinishEffect, DriverRecords, ZenonT(30) DEF Finish, Intents
<1>8. CASE RouteAnswers(c)
  <2> DEFINE i == drv[c].item
  <2>1. CASE Requeue(c, i)
    <3>1. i \in Items
      BY <1>8 DEF RouteAnswers, DriverHasItem, Following
    <3> QED BY <1>8, <2>1, <3>1, DriverRecords, ZenonT(30)
            DEF RouteAnswers, Requeue, Statuses, Waiting, file
  <2>2. CASE Finish(c, i, "failed") /\ UNCHANGED <<job, mayRun>>
    <3>1. "failed" \in Finished
      BY DEF Finished
    <3> QED BY <1>7, <1>8, <2>2, <3>1 DEF RouteAnswers, file
  <2>3. CASE /\ job' = [job EXCEPT ![c] = "running"]
             /\ drv' = [drv EXCEPT ![c].pc = "saveJob"]
             /\ UNCHANGED <<book, mayRun>>
    BY <1>8, <1>b, <1>c, <2>3 DEF RouteAnswers, file, book
  <2> QED BY <1>8, <2>1, <2>2, <2>3 DEF RouteAnswers
<1>9. CASE Follow(c)
  <2> DEFINE stop == drv[c].stopSent \/ intent[drv[c].item] # "none"
  <2>1. stop \in BOOLEAN
    OBVIOUS
  <2>2. drv' = [drv EXCEPT ![c] = [@ EXCEPT !.pc = "poll", !.stopSent = stop]]
    BY <1>9, ZenonT(30) DEF Follow
  <2> HIDE DEF stop
  <2>3. [drv[c] EXCEPT !.pc = "poll", !.stopSent = stop] \in Drivers
    BY <2>1, FollowRecord, ZenonT(30)
  <2>4. drv' \in [Consoles -> Drivers]
    BY <2>2, <2>3
  <2> QED BY <1>9, <2>4 DEF Follow, file, book
<1>10. CASE Poll(c)
  <2>1. CASE job[c] = "running" /\ drv' = [drv EXCEPT ![c].pc = "follow"] /\ UNCHANGED <<book, job>>
    BY <1>10, <2>1, <1>b, <1>c DEF Poll, file, book
  <2>2. ASSUME NEW answer \in JobAnswers, Finish(c, drv[c].item, EndOf(answer)),
               job' = [job EXCEPT ![c] = "none"]
        PROVE  TypeOK'
    <3>1. EndOf(answer) \in Finished
      BY DEF EndOf, JobAnswers, Finished
    <3> QED BY <1>7, <1>10, <2>2, <3>1 DEF Poll, file
  <2> QED BY <1>10, <2>1, <2>2 DEF Poll
<1> QED
  BY <1>2, <1>3, <1>4, <1>5, <1>6, <1>8, <1>9, <1>10, ZenonT(30) DEF DriverStep

\* what snapshot writes
LEMMA SnapshotType ==
  ASSUME TypeOK, NEW p \in Requests \cup Consoles, TakeSnapshot(p)
  PROVE  generation' \in Nat /\ pending' \subseteq Snapshots /\ UNCHANGED disk
BY DEF TypeOK, TakeSnapshot, Snapshots, file

\* the request records that the actions write
LEMMA HandlerRecords ==
  /\ Idle \in Handlers
  /\ \A h \in Handlers : [h EXCEPT !.pc = "wait"] \in Handlers
  /\ \A i \in Items, kick \in BOOLEAN :
       [pc |-> "save", console |-> ConsoleOf[i], kick |-> kick] \in Handlers
<1>1. Idle \in Handlers
  BY QueueAssumption DEF Idle, Handlers, RequestPcs
<1>2. \A h \in Handlers : [h EXCEPT !.pc = "wait"] \in Handlers
  BY DEF Handlers, RequestPcs
<1>3. ASSUME NEW i \in Items, NEW kick \in BOOLEAN
      PROVE  [pc |-> "save", console |-> ConsoleOf[i], kick |-> kick] \in Handlers
  BY QueueAssumption DEF Handlers, RequestPcs
<1> QED BY <1>1, <1>2, <1>3

\* A step of a request that was accepted keeps the types.
LEMMA RequestStepType ==
  ASSUME TypeOK, NEW r \in Requests, RequestStep(r)
  PROVE  TypeOK'
<1> USE DEF TypeOK
<1>1. CASE RequestSaves(r)
  BY <1>1, SnapshotType, HandlerRecords, SMTT(30) DEF RequestSaves, book
<1>2. CASE Answer(r)
  <2>1. req' \in [Requests -> Handlers] /\ req[r].console \in Consoles
    BY <1>2, HandlerRecords DEF Answer, Handlers
  <2>2. drivers' \subseteq Consoles /\ drv' \in [Consoles -> Drivers]
    BY <1>2, <2>1, DriverRecords, ZenonT(30) DEF Answer, Kick
  <2> QED BY <1>2, <2>1, <2>2 DEF Answer, file
<1> QED BY <1>1, <1>2 DEF RequestStep

\* A request that changes the list, or a hold, keeps the types.
LEMMA ClientStepType ==
  ASSUME TypeOK, ClientStep
  PROVE  TypeOK'
<1> USE DEF TypeOK
<1>1. ASSUME NEW r \in Requests, NEW i \in Items, NEW kick \in BOOLEAN, Accept(r, i, kick)
      PROVE  /\ req' \in [Requests -> Handlers]
             /\ UNCHANGED <<holds, waitingFor, drivers, settled, file, drv, job, obstacles>>
  BY <1>1, HandlerRecords DEF Accept
<1>2. {"queued", "paused", "gone"} \subseteq Statuses /\ {"pause", "remove"} \subseteq Intents
  BY SMTT(30) DEF Statuses, Waiting, Intents
<1>3. ASSUME NEW r \in Requests, NEW i \in Items, NEW position, AddItem(r, i, position)
      PROVE  TypeOK'
  <2>1. Append(line, i) \in Seq(Items) /\ Len(line) + 1 \in DOMAIN Append(line, i)
    OBVIOUS
  <2>2. line' \in Seq(Items)
    BY <1>3, <2>1, PlaceType, ZenonT(30) DEF AddItem
  <2>3. kept' \subseteq Items /\ mayRun' \subseteq Items
        /\ status' \in [Items -> Statuses] /\ UNCHANGED intent
    BY <1>2, <1>3 DEF AddItem
  <2> QED BY <1>1, <1>3, <2>2, <2>3, ZenonT(30) DEF AddItem, file
<1>4. ASSUME NEW r \in Requests, NEW i \in Items, PauseItem(r, i)
      PROVE  TypeOK'
  <2>1. status' \in [Items -> Statuses] /\ intent' \in [Items -> Intents]
    BY <1>2, <1>4 DEF PauseItem
  <2> QED BY <1>1, <1>4, <2>1, ZenonT(30) DEF PauseItem, file
<1>5. ASSUME NEW r \in Requests, NEW i \in Items, ResumeItem(r, i)
      PROVE  TypeOK'
  <2>1. status' \in [Items -> Statuses] /\ mayRun' \subseteq Items
    BY <1>2, <1>5 DEF ResumeItem
  <2> QED BY <1>1, <1>5, <2>1, ZenonT(30) DEF ResumeItem, file
<1>6. ASSUME NEW r \in Requests, NEW i \in Items, RemoveItem(r, i)
      PROVE  TypeOK'
  <2>1. status' \in [Items -> Statuses]
    BY <1>2, <1>6 DEF RemoveItem
  <2> QED BY <1>1, <1>6, <2>1, ZenonT(30) DEF RemoveItem, file
<1>7. ASSUME NEW r \in Requests, NEW i \in Items, NEW position, MoveItem(r, i, position)
      PROVE  TypeOK'
  <2>1. line' \in Seq(Items)
    BY <1>7, PlaceType DEF MoveItem
  <2> QED BY <1>1, <1>7, <2>1, ZenonT(30) DEF MoveItem, file
<1>8. ASSUME NEW i \in Items, CancelItem(i)
      PROVE  TypeOK'
  BY <1>2, <1>8 DEF CancelItem, file
<1>9. ASSUME NEW c \in Consoles, NEW h \in Holders, Hold(c, h) \/ Release(c, h)
      PROVE  TypeOK'
  <2>1. holds[c] \cup {h} \in SUBSET Holders /\ holds[c] \ {h} \in SUBSET Holders
    OBVIOUS
  <2>2. holds' = [holds EXCEPT ![c] = @ \cup {h}] \/ holds' = [holds EXCEPT ![c] = @ \ {h}]
    BY <1>9 DEF Hold, Release
  <2>3. holds' \in [Consoles -> SUBSET Holders]
    BY <2>1, <2>2, ZenonT(30)
  <2> QED BY <1>9, <2>3 DEF Hold, Release, file
<1> QED BY <1>3, <1>4, <1>5, <1>6, <1>7, <1>8, <1>9, ZenonT(30) DEF ClientStep

\* the writer keeps the types
LEMMA WriteType ==
  ASSUME TypeOK, NEW s \in pending, WriteSnapshot(s) \/ WriteFails(s)
  PROVE  TypeOK'
<1> USE DEF TypeOK
<1>1. ASSUME NEW g \in Nat, NEW t \in Snapshots
      PROVE  [t EXCEPT !.gen = Since(t.gen, g)] \in Snapshots
  <2>1. Since(t.gen, g) \in Nat
    BY DEF Since, Snapshots
  <2> QED BY <2>1, ZenonT(30) DEF Snapshots
<1>2. s \in Snapshots /\ s.gen \in Nat /\ Since(generation, s.gen) \in Nat
  BY SMTT(30) DEF Snapshots, Since
<1>3. [line |-> s.line, status |-> s.status] \in [line : Seq(Items), status : [Items -> Statuses]]
  BY <1>2 DEF Snapshots
<1>4. pending' \subseteq Snapshots
  BY <1>1, <1>2 DEF WriteSnapshot, WriteFails
<1>5. generation' \in Nat /\ disk' \in [line : Seq(Items), status : [Items -> Statuses]]
  BY <1>2, <1>3, SMTT(30) DEF WriteSnapshot, WriteFails
<1> QED BY <1>4, <1>5 DEF WriteSnapshot, WriteFails, book

\* A fault, and the restart that follows a crash, keep the types.
LEMMA FaultStepType ==
  ASSUME TypeOK, FaultStep
  PROVE  TypeOK'
<1> USE DEF TypeOK
<1>1. ASSUME NEW r \in Requests, DropRequest(r)
      PROVE  TypeOK'
  BY <1>1, HandlerRecords, SMTT(30) DEF DropRequest, book, file
<1>2. ASSUME NEW c \in Consoles, DriverEnd(c)
      PROVE  TypeOK'
  <2> DEFINE new == [i \in Items |-> IF i \in Running(c) THEN "interrupted" ELSE status[i]]
  <2>1. new \in [Items -> Statuses]
    BY DEF Statuses, Finished
  <2> HIDE DEF new
  <2>2. ASSUME SaveNow(new)
        PROVE  /\ generation' \in Nat /\ pending' \subseteq Snapshots
               /\ disk' \in [line : Seq(Items), status : [Items -> Statuses]]
    <3>1. \A t \in Snapshots : [t EXCEPT !.gen = 0] \in Snapshots
      BY ZenonT(30) DEF Snapshots
    <3> QED BY <2>1, <2>2, <3>1 DEF SaveNow, file
  <2>3. /\ generation' \in Nat /\ pending' \subseteq Snapshots
        /\ disk' \in [line : Seq(Items), status : [Items -> Statuses]]
    BY <1>2, <2>2, ZenonT(60) DEF DriverEnd, file, new
  <2>4. intent' \in [Items -> Intents] /\ drv' \in [Consoles -> Drivers]
        /\ drivers' \subseteq Consoles /\ status' \in [Items -> Statuses]
    BY <1>2, <2>1, DriverRecords, ZenonT(30) DEF DriverEnd, Intents, new
  <2>5. obstacles' \in [Consoles -> SUBSET ObstacleKinds]
    BY <1>2 DEF DriverEnd, ObstacleKinds
  <2> QED BY <1>2, <2>3, <2>4, <2>5 DEF DriverEnd
<1>3. ASSUME NEW saved \in BOOLEAN, Restart(saved)
      PROVE  TypeOK'
  <2> DEFINE onDisk == {i \in Items : disk.status[i] \notin {"new", "gone"}}
             after == AfterRestart(disk.line, disk.status)
             new == [i \in Items |-> IF i \in onDisk THEN after[i]
                                     ELSE IF status[i] = "new" THEN "new" ELSE "gone"]
  <2>1. after \in [Items -> Statuses]
    BY AfterRestartEffect
  <2> HIDE DEF after
  <2>2. new \in [Items -> Statuses]
    BY <2>1, SMTT(30) DEF Statuses
  <2>3. status' = new
    BY <1>3, ZenonT(60) DEF Restart, after
  <2>4. disk' = disk \/ disk' = [line |-> disk.line, status |-> new]
    BY <1>3, ZenonT(60) DEF Restart, after
  <2> HIDE DEF new
  <2>5. disk' \in [line : Seq(Items), status : [Items -> Statuses]]
    BY <2>2, <2>4, SMTT(30)
  <2>6. generation' \in Nat /\ line' \in Seq(Items) /\ pending' \subseteq Snapshots
        /\ kept' \subseteq Items /\ settled' \subseteq Consoles /\ drivers' \subseteq Consoles
        /\ mayRun' \subseteq Items
    BY <1>3, ZenonT(60) DEF Restart
  <2>7. /\ intent' \in [Items -> Intents] /\ holds' \in [Consoles -> SUBSET Holders]
        /\ waitingFor' \in [Consoles -> WaitReasons]
        /\ job' \in [Consoles -> {"none", "running", "ended"}]
        /\ obstacles' \in [Consoles -> SUBSET ObstacleKinds]
    BY <1>3 DEF Restart, Intents, WaitReasons
  <2>8. drv' \in [Consoles -> Drivers] /\ req' \in [Requests -> Handlers]
    BY <1>3, DriverRecords, HandlerRecords, ZenonT(30) DEF Restart
  <2> QED BY <2>2, <2>3, <2>5, <2>6, <2>7, <2>8
<1> QED BY <1>1, <1>2, <1>3, WriteType DEF FaultStep

\* What the engine's surroundings do keeps the types.
LEMMA SurroundingsType ==
  ASSUME TypeOK, Surroundings
  PROVE  TypeOK'
<1> USE DEF TypeOK
<1>1. ASSUME NEW c \in Consoles, Settle(c) \/ JobEnds(c)
      PROVE  TypeOK'
  BY <1>1, ZenonT(60) DEF Settle, JobEnds, book, file
<1>2. ASSUME NEW c \in Consoles, NEW o \in Obstacles, ObstacleComes(c, o) \/ ObstacleGoes(c, o)
      PROVE  TypeOK'
  BY <1>2, QueueAssumption DEF ObstacleComes, ObstacleGoes, book, file
<1> QED BY <1>1, <1>2, ZenonT(60) DEF Surroundings
-----------------------------------------------------------------------------
(* One item at a time: the driver of a console and the item that runs there *)

\* Book.drivers names the consoles that have a driver task
DriversRegistered == \A c \in Consoles : c \in drivers <=> drv[c].pc # "none"

\* the strengthening of RunningIsFollowed that every step keeps
DriverInv == DriverHasItem /\ DriversRegistered /\ RunningIsFollowed

\* steps that leave the drivers alone and start nothing
LEMMA NothingStarts ==
  ASSUME DriverInv, UNCHANGED <<drv, drivers>>,
         \A j \in Items : status'[j] = "running" => status[j] = "running"
  PROVE  DriverInv'
BY DEF DriverInv, DriverHasItem, DriversRegistered, RunningIsFollowed

\* steps of one driver, which is `d` afterwards
LEMMA OneDriver ==
  ASSUME TypeOK, DriverInv, NEW c \in Consoles, NEW d \in Drivers,
         drv' = [drv EXCEPT ![c] = d],
         drivers' = IF d.pc = "none" THEN drivers \ {c} ELSE drivers \cup {c},
         d.pc \in Following \cup {"probe", "tasks"}
           => d.item \in Items /\ ConsoleOf[d.item] = c,
         \A j \in Items : status'[j] = "running" =>
           IF ConsoleOf[j] = c THEN d.item = j /\ d.pc \in Following
                               ELSE status[j] = "running"
  PROVE  DriverInv'
<1>1. drv'[c] = d /\ \A e \in Consoles \ {c} : drv'[e] = drv[e]
  BY DEF TypeOK
<1>2. DriverHasItem'
  BY <1>1 DEF DriverInv, DriverHasItem
<1>3. DriversRegistered'
  BY <1>1, SMTT(30) DEF DriverInv, DriversRegistered
<1>4. RunningIsFollowed'
  BY <1>1, QueueAssumption DEF DriverInv, RunningIsFollowed
<1> QED BY <1>2, <1>3, <1>4, SMTT(30) DEF DriverInv

\* a driver moves on with the item it has
LEMMA SameItem ==
  ASSUME TypeOK, DriverInv, NEW c \in Consoles, NEW p \in DriverPcs,
         drv' = [drv EXCEPT ![c].pc = p],
         UNCHANGED <<drivers, status>>,
         \/ drv[c].pc \in Following /\ p \in Following
         \/ drv[c].pc = "probe" /\ p = "tasks"
         \/ drv[c].pc = "saveEnd" /\ p = "look"
  PROVE  DriverInv'
<1> DEFINE d == [drv[c] EXCEPT !.pc = p]
<1>0. drv[c] \in Drivers
  BY DEF TypeOK
<1>1. d \in Drivers /\ d.pc = p /\ d.item = drv[c].item
  BY <1>0, DriverMoves
<1>2. drv' = [drv EXCEPT ![c] = d]
  OBVIOUS
<1> HIDE DEF d
<1>3. {"none", "look", "probe", "tasks", "saveEnd"} \cap Following = {}
  BY DEF Following
<1>4. p # "none" /\ drv[c].pc # "none"
  BY <1>3
<1>5. drivers' = IF d.pc = "none" THEN drivers \ {c} ELSE drivers \cup {c}
  BY <1>1, <1>4 DEF DriverInv, DriversRegistered
<1>6. d.pc \in Following \cup {"probe", "tasks"} => d.item \in Items /\ ConsoleOf[d.item] = c
  BY <1>1, <1>3 DEF DriverInv, DriverHasItem
<1>7. \A j \in Items : status'[j] = "running" =>
           IF ConsoleOf[j] = c THEN d.item = j /\ d.pc \in Following
                               ELSE status[j] = "running"
  BY <1>1, <1>3 DEF DriverInv, RunningIsFollowed
<1> QED BY <1>1, <1>2, <1>5, <1>6, <1>7, OneDriver, ZenonT(30)

\* a driver that is not at an item has nothing running on its console
LEMMA NoneRunning ==
  ASSUME DriverInv, NEW c \in Consoles, drv[c].pc \notin Following,
         NEW j \in Items, ConsoleOf[j] = c
  PROVE  status[j] # "running"
BY DEF DriverInv, RunningIsFollowed

\* A step of a driver: what it starts it follows, and what it no longer follows has
\* ended.
LEMMA DriverStepInv ==
  ASSUME TypeOK, DriverInv, NEW c \in Consoles, DriverStep(c)
  PROVE  DriverInv'
<1>a. {"none", "look", "probe", "tasks", "saveEnd"} \cap Following = {}
  BY DEF Following
<1>b. {"saveRun", "call", "answer", "saveJob", "follow", "poll"} \subseteq Following
      /\ Following \subseteq DriverPcs /\ {"tasks", "look"} \subseteq DriverPcs
  BY DEF Following, DriverPcs
<1>1. ASSUME NEW d \in Drivers, drv[c].pc \notin Following, drv[c].pc # "none",
             drv' = [drv EXCEPT ![c] = d], UNCHANGED <<drivers, status>>,
             d.pc \in {"look", "probe"}, d.pc = "look" \/ (d.item \in Items /\ ConsoleOf[d.item] = c)
      PROVE  DriverInv'
  <2>1. drivers' = IF d.pc = "none" THEN drivers \ {c} ELSE drivers \cup {c}
    BY <1>1 DEF DriverInv, DriversRegistered
  <2> QED BY <1>1, <1>a, <2>1, NoneRunning, OneDriver, ZenonT(30)
<1>2. ASSUME NEW why, Wait(c, why), drv[c].pc \in {"look", "probe", "tasks"}
      PROVE  DriverInv'
  <2>1. Looking \in Drivers /\ Looking.pc = "look"
    BY DriverRecords, ZenonT(30) DEF Looking, NoDriver
  <2> QED BY <1>1, <1>2, <1>a, <2>1, ZenonT(30) DEF Wait
<1>3. CASE LookAtLine(c)
  <2>1. CASE StopDriving(c)
    <3>1. NoDriver \in Drivers /\ NoDriver.pc = "none"
      BY DriverRecords, ZenonT(30) DEF NoDriver
    <3>2. drv[c].pc = "look"
      BY <1>3, ZenonT(30) DEF LookAtLine
    <3>3. \A j \in Items : status'[j] = "running" => ConsoleOf[j] # c /\ status[j] = "running"
      BY <2>1, <1>a, <3>2, NoneRunning DEF StopDriving
    <3> QED BY <2>1, <1>a, <3>1, <3>3, OneDriver, ZenonT(30) DEF StopDriving
  <2>2. CASE Wait(c, WhyWait(c))
    BY <1>2, <1>3, <2>2, ZenonT(30) DEF LookAtLine
  <2>3. ASSUME NEW i \in Items, IsHead(c, i), UNCHANGED book,
               drv' = [drv EXCEPT ![c] = [Looking EXCEPT !.pc = "probe", !.item = i]]
        PROVE  DriverInv'
    <3> DEFINE d == [Looking EXCEPT !.pc = "probe", !.item = i]
    <3>1. d \in Drivers /\ d.pc = "probe" /\ d.item = i
      BY DriverRecords, ZenonT(30) DEF Looking, NoDriver
    <3>2. ConsoleOf[i] = c
      BY <2>3 DEF IsHead, Queued, On
    <3> HIDE DEF d
    <3>3. drv' = [drv EXCEPT ![c] = d] /\ UNCHANGED <<drivers, status>>
      BY <2>3 DEF d, book
    <3>4. drv[c].pc = "look"
      BY <1>3, ZenonT(30) DEF LookAtLine
    <3> QED BY <1>1, <1>a, <3>1, <3>2, <3>3, <3>4, ZenonT(30)
  <2> QED BY <1>3, <2>1, <2>2, <2>3, ZenonT(30) DEF LookAtLine
<1>4. CASE Probe(c)
  <2>1. CASE Wait(c, "console")
    BY <1>2, <1>4, <2>1 DEF Probe
  <2>2. CASE drv' = [drv EXCEPT ![c].pc = "tasks"] /\ UNCHANGED book
    <3>1. UNCHANGED <<drivers, status>> /\ drv[c].pc = "probe"
      BY <1>4, <2>2 DEF Probe, book
    <3> QED BY <1>b, <2>2, <3>1, SameItem, ZenonT(30)
  <2> QED BY <1>4, <2>1, <2>2 DEF Probe
<1>5. CASE StartHead(c)
  <2> DEFINE i == drv[c].item
  <2>1. CASE Wait(c, "console_task") \/ Wait(c, "none")
    BY <1>2, <1>5, <2>1, SMTT(30) DEF StartHead
  <2>2. CASE StillHead(c, i) /\ StartItem(c, i)
    <3> DEFINE d == [drv[c] EXCEPT !.pc = "saveRun"]
    <3>1. d \in Drivers /\ d.pc = "saveRun" /\ d.item = i
      BY <1>b, DriverRecords, ZenonT(30) DEF TypeOK, Drivers
    <3>2. i \in Items /\ ConsoleOf[i] = c
      BY <2>2 DEF StillHead, IsHead, Queued, On
    <3>3. drv' = [drv EXCEPT ![c] = d] /\ drivers' = drivers
      BY <2>2, SMTT(30) DEF StartItem
    <3> HIDE DEF d
    <3>4. drv[c].pc = "tasks"
      BY <1>5 DEF StartHead
    <3>5. drivers' = IF d.pc = "none" THEN drivers \ {c} ELSE drivers \cup {c}
      BY <3>1, <3>3, <3>4 DEF DriverInv, DriversRegistered
    <3>6. \A j \in Items : j # i => status'[j] = status[j]
      BY <2>2 DEF StartItem, TypeOK
    <3>7. \A j \in Items : status'[j] = "running" =>
             IF ConsoleOf[j] = c THEN d.item = j /\ d.pc \in Following
                                 ELSE status[j] = "running"
      BY <1>a, <1>b, <3>1, <3>2, <3>4, <3>6, NoneRunning
    <3> QED BY <1>b, <3>1, <3>2, <3>3, <3>5, <3>7, OneDriver, ZenonT(30)
  <2> QED BY <1>5, <2>1, <2>2, SMTT(30) DEF StartHead
<1>6. CASE DriverSaves(c)
  <2>1. UNCHANGED <<drivers, status>>
    BY <1>6 DEF DriverSaves, book
  <2>2. CASE drv[c].pc = "saveRun"
    BY <1>6, <1>b, <2>1, <2>2, SameItem, ZenonT(30) DEF DriverSaves
  <2>3. CASE drv[c].pc = "saveJob"
    BY <1>6, <1>b, <2>1, <2>3, SameItem, ZenonT(30) DEF DriverSaves
  <2>4. CASE drv[c].pc = "saveEnd"
    BY <1>6, <1>b, <2>1, <2>4, SameItem, ZenonT(30) DEF DriverSaves
  <2> QED BY <1>6, <2>2, <2>3, <2>4 DEF DriverSaves
<1>7. CASE CallRoute(c)
  <2>1. UNCHANGED <<drivers, status>>
    BY <1>7 DEF CallRoute, book
  <2> QED BY <1>7, <1>b, <2>1, SameItem, ZenonT(30) DEF CallRoute
<1>8. ASSUME drv[c].pc \in Following, UNCHANGED drivers,
             drv' = [drv EXCEPT ![c] = [NoDriver EXCEPT !.pc = "saveEnd"]],
             \A j \in Items : status'[j] = "running" => j # drv[c].item /\ status[j] = "running"
      PROVE  DriverInv'
  <2> DEFINE d == [NoDriver EXCEPT !.pc = "saveEnd"]
  <2>1. d \in Drivers /\ d.pc = "saveEnd"
    BY DriverRecords, ZenonT(30) DEF NoDriver
  <2>2. drivers' = drivers \cup {c}
    BY <1>8, <1>a DEF DriverInv, DriversRegistered
  <2>3. \A j \in Items : status'[j] = "running" => ConsoleOf[j] # c /\ status[j] = "running"
    BY <1>8 DEF DriverInv, RunningIsFollowed
  <2>4. drv' = [drv EXCEPT ![c] = d]
    BY <1>8
  <2> HIDE DEF d
  <2>5. drivers' = IF d.pc = "none" THEN drivers \ {c} ELSE drivers \cup {c}
    BY <2>1, <2>2
  <2>6. d.pc \notin Following \cup {"probe", "tasks"}
    BY <1>a, <2>1
  <2> QED BY <2>1, <2>3, <2>4, <2>5, <2>6, OneDriver, ZenonT(30)
<1>9. ASSUME NEW end \in Finished, Finish(c, drv[c].item, end), drv[c].pc \in Following
      PROVE  DriverInv'
  <2>1. /\ UNCHANGED drivers
        /\ drv' = [drv EXCEPT ![c] = [NoDriver EXCEPT !.pc = "saveEnd"]]
    BY <1>9 DEF Finish
  <2>2. \A j \in Items : status'[j] = "running"
          => j # drv[c].item /\ status[j] = "running"
    BY <1>9, FinishEffect
  <2> QED BY <1>8, <1>9, <2>1, <2>2
<1>10. CASE RouteAnswers(c)
  <2> DEFINE i == drv[c].item
  <2>1. drv[c].pc \in Following
    BY <1>10, <1>b DEF RouteAnswers
  <2>2. CASE Requeue(c, i)
    <3>1. \A j \in Items : status'[j] = "running" => j # i /\ status[j] = "running"
      BY <2>2 DEF Requeue, TypeOK
    <3> QED BY <1>8, <2>1, <2>2, <3>1 DEF Requeue
  <2>3. CASE Finish(c, i, "failed")
    BY <1>9, <2>1, <2>3 DEF Finished
  <2>4. CASE drv' = [drv EXCEPT ![c].pc = "saveJob"] /\ UNCHANGED <<book, mayRun>>
    <3>1. UNCHANGED <<drivers, status>>
      BY <2>4 DEF book
    <3> QED BY <1>b, <2>1, <2>4, <3>1, SameItem, ZenonT(30)
  <2> QED BY <1>10, <2>2, <2>3, <2>4 DEF RouteAnswers
<1>11. CASE Follow(c)
  <2> DEFINE stop == drv[c].stopSent \/ intent[drv[c].item] # "none"
             d == [drv[c] EXCEPT !.pc = "poll", !.stopSent = stop]
  <2>1. drv' = [drv EXCEPT ![c] = d] /\ UNCHANGED <<drivers, status>> /\ drv[c].pc = "follow"
    BY <1>11, ZenonT(30) DEF Follow, book
  <2>2. stop \in BOOLEAN /\ drv[c] \in Drivers
    BY DEF TypeOK
  <2> HIDE DEF stop
  <2>3. d \in Drivers /\ d.pc = "poll" /\ d.item = drv[c].item
    BY <2>2, FollowRecord, ZenonT(30) DEF Drivers
  <2> HIDE DEF d
  <2>4. d.item \in Items /\ ConsoleOf[d.item] = c
    BY <1>b, <2>1, <2>3 DEF DriverInv, DriverHasItem
  <2>5. drivers' = IF d.pc = "none" THEN drivers \ {c} ELSE drivers \cup {c}
    BY <2>1, <2>3 DEF DriverInv, DriversRegistered
  <2>6. \A j \in Items : status'[j] = "running" =>
             IF ConsoleOf[j] = c THEN d.item = j /\ d.pc \in Following
                                 ELSE status[j] = "running"
    BY <1>b, <2>1, <2>3 DEF DriverInv, RunningIsFollowed
  <2> QED BY <2>1, <2>3, <2>4, <2>5, <2>6, OneDriver, ZenonT(30)
<1>12. CASE Poll(c)
  <2>1. drv[c].pc \in Following
    BY <1>12, <1>b DEF Poll
  <2>2. CASE drv' = [drv EXCEPT ![c].pc = "follow"] /\ UNCHANGED <<book, job>>
    <3>1. UNCHANGED <<drivers, status>>
      BY <2>2 DEF book
    <3> QED BY <1>b, <2>1, <2>2, <3>1, SameItem, ZenonT(30)
  <2>3. ASSUME NEW answer \in JobAnswers, Finish(c, drv[c].item, EndOf(answer))
        PROVE  DriverInv'
    <3>1. EndOf(answer) \in Finished
      BY DEF EndOf, JobAnswers, Finished
    <3> QED BY <1>9, <2>1, <2>3, <3>1
  <2> QED BY <1>12, <2>2, <2>3 DEF Poll
<1> QED
  BY <1>3, <1>4, <1>5, <1>6, <1>7, <1>10, <1>11, <1>12 DEF DriverStep

\* The other steps: only kick, DriverEnd and a restart touch a driver, and none of
\* them leaves an item running behind.
LEMMA OtherStepInv ==
  ASSUME TypeOK, DriverInv,
         \/ \E r \in Requests : RequestStep(r)
         \/ \E s \in pending : WriteSnapshot(s)
         \/ ClientStep \/ FaultStep \/ Surroundings
  PROVE  DriverInv'
<1>a. {"none", "look"} \cap (Following \cup {"probe", "tasks"}) = {}
      /\ NoDriver.pc = "none" /\ Looking.pc = "look"
  BY DEF Following, NoDriver, Looking
<1>1. ASSUME NEW r \in Requests, RequestSaves(r)
      PROVE  DriverInv'
  BY <1>1, NothingStarts, SMTT(30) DEF RequestSaves, book
<1>2. ASSUME NEW r \in Requests, Answer(r)
      PROVE  DriverInv'
  <2>1. CASE UNCHANGED <<drivers, drv>>
    BY <1>2, <2>1, NothingStarts DEF Answer
  <2>2. ASSUME NEW c \in Consoles, c \notin drivers, drivers' = drivers \cup {c},
               drv' = [drv EXCEPT ![c] = Looking]
        PROVE  DriverInv'
    <3>1. drv[c].pc \notin Following
      BY <2>2, <1>a, SMTT(30) DEF DriverInv, DriversRegistered
    <3>2. \A j \in Items : status'[j] = "running" => ConsoleOf[j] # c /\ status[j] = "running"
      BY <1>2, <3>1, NoneRunning DEF Answer
    <3> QED BY <1>a, <2>2, <3>2, DriverRecords, OneDriver, ZenonT(30)
  <2>3. req[r].console \in Consoles
    BY DEF TypeOK, Handlers
  <2> QED BY <1>2, <2>1, <2>2, <2>3 DEF Answer, Kick
<1>3. ASSUME NEW s, WriteSnapshot(s) \/ WriteFails(s)
      PROVE  DriverInv'
  BY <1>3, NothingStarts DEF WriteSnapshot, WriteFails, book
<1>4. CASE ClientStep
  <2>1. UNCHANGED <<drv, drivers>>
    BY <1>4, ZenonT(30) DEF ClientStep, AddItem, PauseItem, ResumeItem, RemoveItem, MoveItem,
       CancelItem, Hold, Release, Accept
  <2>2. UNCHANGED status \/ \E i \in Items, st \in {"queued", "paused", "gone"} :
                               status' = [status EXCEPT ![i] = st]
    BY <1>4, ZenonT(30) DEF ClientStep, AddItem, PauseItem, ResumeItem, RemoveItem, MoveItem,
       CancelItem, Hold, Release
  <2>3. \A j \in Items : status'[j] = "running" => status[j] = "running"
    BY <2>2 DEF TypeOK
  <2> QED BY <2>1, <2>3, NothingStarts
<1>5. ASSUME NEW r \in Requests, DropRequest(r)
      PROVE  DriverInv'
  BY <1>5, NothingStarts DEF DropRequest, book
<1>6. ASSUME NEW c \in Consoles, DriverEnd(c)
      PROVE  DriverInv'
  <2>1. drv' = [drv EXCEPT ![c] = NoDriver] /\ drivers' = drivers \ {c}
    BY <1>6, SMTT(30) DEF DriverEnd
  <2>2. status' = [i \in Items |-> IF i \in Running(c) THEN "interrupted" ELSE status[i]]
    BY <1>6 DEF DriverEnd
  <2>3. \A j \in Items : status'[j] = "running" => ConsoleOf[j] # c /\ status[j] = "running"
    BY <2>2, SMTT(30) DEF Running, On
  <2> QED BY <1>a, <2>1, <2>3, DriverRecords, OneDriver, ZenonT(30)
<1>7. ASSUME NEW saved \in BOOLEAN, Restart(saved)
      PROVE  DriverInv'
  <2>1. \A j \in Items : status'[j] # "running"
    <3>1. \A j \in Items : AfterRestart(disk.line, disk.status)[j] # "running"
      BY AfterRestartEffect, SMTT(30) DEF TypeOK
    <3> QED BY <1>7, <3>1, SMTT(30) DEF Restart
  <2>2. drivers' \subseteq Consoles /\ drv' = [c \in Consoles |-> IF c \in drivers' THEN Looking ELSE NoDriver]
    BY <1>7 DEF Restart
  <2>3. \A c \in Consoles : drv'[c].pc = IF c \in drivers' THEN "look" ELSE "none"
    BY <1>a, <2>2, SMTT(30)
  <2> QED BY <1>a, <2>1, <2>3, SMTT(30) DEF DriverInv, DriverHasItem, DriversRegistered, RunningIsFollowed
<1>8. CASE Surroundings
  BY <1>8, NothingStarts DEF Surroundings, Settle, JobEnds, ObstacleComes, ObstacleGoes, book
<1> QED
  BY <1>1, <1>2, <1>3, <1>4, <1>5, <1>6, <1>7, <1>8 DEF RequestStep, FaultStep

\* The drivers' invariant with the types: the inductive invariant of the queue.
LEMMA InitInv == Init => TypeOK /\ DriverInv
<1>1. ASSUME Init PROVE DriverInv
  <2>1. NoDriver.pc = "none" /\ "none" \notin Following \cup {"probe", "tasks"}
    BY DEF NoDriver, Following
  <2>2. \A c \in Consoles : drv[c].pc = "none"
    BY <1>1, <2>1 DEF Init
  <2>3. \A i \in Items : status[i] # "running"
    BY <1>1 DEF Init
  <2> QED BY <1>1, <2>1, <2>2, <2>3, ZenonT(30)
          DEF Init, DriverInv, DriverHasItem, DriversRegistered, RunningIsFollowed
<1> QED BY <1>1, InitType

\* Every step keeps the types and the drivers' invariant.
LEMMA NextInv ==
  ASSUME TypeOK, DriverInv, [Next]_vars
  PROVE  TypeOK' /\ DriverInv'
<1>1. CASE UNCHANGED vars
  BY <1>1, ZenonT(30) DEF vars, book, file, TypeOK, DriverInv, DriverHasItem, DriversRegistered,
     RunningIsFollowed
<1>2. CASE Next
  BY <1>2, DriverStepType, DriverStepInv, RequestStepType, WriteType, ClientStepType,
     FaultStepType, SurroundingsType, OtherStepInv DEF Next, DriverInv
<1> QED BY <1>1, <1>2

\* Every variable keeps its type in every engine, whatever its consoles, clients,
\* limits and faults.
THEOREM TypeCorrect == Spec => []TypeOK
<1>1. TypeOK /\ DriverInv /\ [Next]_vars => (TypeOK /\ DriverInv)'
  BY NextInv
<1> QED BY <1>1, InitInv, PTL DEF Spec

\* One item at a time per console: whatever panics, drops, crashes and failed writes
\* happen, a running item is the one its console's driver follows.
THEOREM OneAtATime == Spec => []RunningIsFollowed
<1>1. TypeOK /\ DriverInv /\ [Next]_vars => (TypeOK /\ DriverInv)'
  BY NextInv
<1>2. DriverInv => RunningIsFollowed
  BY SMTT(30) DEF DriverInv
<1> QED BY <1>1, <1>2, InitInv, PTL DEF Spec
-----------------------------------------------------------------------------
(* In order, and by turns with the holders *)

\* what the statuses of a step that is not StartHead's can become
LEMMA StatusStep ==
  ASSUME TypeOK, NEW c \in Consoles, DriverStep(c), ~StartHead(c)
  PROVE  \A j \in Items : status'[j] = "running" => status[j] = "running"
<1> DEFINE Goal == \A j \in Items : status'[j] = "running" => status[j] = "running"
<1>1. CASE LookAtLine(c) \/ Probe(c) \/ DriverSaves(c) \/ CallRoute(c) \/ Follow(c)
  BY <1>1, ZenonT(30) DEF LookAtLine, StopDriving, Wait, Probe, DriverSaves, CallRoute, Follow, book
<1>2. CASE RouteAnswers(c)
  <2>1. CASE Requeue(c, drv[c].item)
    BY <2>1 DEF Requeue, TypeOK
  <2>2. CASE Finish(c, drv[c].item, "failed")
    BY <2>2, FinishEffect DEF Finished
  <2> QED BY <1>2, <2>1, <2>2 DEF RouteAnswers, book
<1>3. CASE Poll(c)
  <2>1. \A answer \in JobAnswers : EndOf(answer) \in Finished
    BY DEF EndOf, JobAnswers, Finished
  <2>2. ASSUME NEW answer \in JobAnswers, Finish(c, drv[c].item, EndOf(answer))
        PROVE  Goal
    BY <2>1, <2>2, FinishEffect, SMTT(30)
  <2> QED BY <1>3, <2>2 DEF Poll, book
<1> QED BY <1>1, <1>2, <1>3 DEF DriverStep

\* An item that starts is the head of its line, with no hold on its console, at the
\* moment its status changes.
LEMMA StartsAsHead ==
  ASSUME TypeOK, Next, NEW j \in Items, status[j] # "running", status'[j] = "running"
  PROVE  StillHead(ConsoleOf[j], j) /\ UNCHANGED holds
<1>1. ASSUME NEW c \in Consoles, StartHead(c)
      PROVE  StillHead(ConsoleOf[j], j) /\ UNCHANGED holds
  <2>1. StillHead(c, drv[c].item) /\ StartItem(c, drv[c].item)
    BY <1>1 DEF StartHead, Wait
  <2>2. j = drv[c].item
    BY <2>1, SMTT(30) DEF StartItem, TypeOK
  <2>3. ConsoleOf[j] = c
    BY <2>1, <2>2, SMTT(30) DEF StillHead, IsHead, Queued, On
  <2> QED BY <2>1, <2>2, <2>3, SMTT(30) DEF StartItem
<1>2. ASSUME NEW c \in Consoles, DriverStep(c), ~StartHead(c)
      PROVE  FALSE
  BY <1>2, StatusStep
<1>3. ASSUME NEW r \in Requests, RequestStep(r)
      PROVE  FALSE
  BY <1>3 DEF RequestStep, RequestSaves, Answer, book
<1>4. ASSUME NEW s \in pending, WriteSnapshot(s) \/ WriteFails(s)
      PROVE  FALSE
  BY <1>4, SMTT(30) DEF WriteSnapshot, WriteFails, book
<1>5. CASE ClientStep
  <2>1. UNCHANGED status \/ \E i \in Items, st \in {"queued", "paused", "gone"} :
                               status' = [status EXCEPT ![i] = st]
    BY <1>5, ZenonT(30) DEF ClientStep, AddItem, PauseItem, ResumeItem, RemoveItem, MoveItem,
       CancelItem, Hold, Release
  <2> QED BY <2>1, SMTT(30) DEF TypeOK
<1>6. ASSUME NEW c \in Consoles, DriverEnd(c)
      PROVE  FALSE
  BY <1>6, SMTT(30) DEF DriverEnd
<1>7. ASSUME NEW r \in Requests, DropRequest(r)
      PROVE  FALSE
  BY <1>7 DEF DropRequest, book
<1>8. ASSUME NEW saved \in BOOLEAN, Restart(saved)
      PROVE  FALSE
  <2>1. AfterRestart(disk.line, disk.status)[j] # "running"
    BY AfterRestartEffect, SMTT(30) DEF TypeOK
  <2> QED BY <1>8, <2>1, SMTT(30) DEF Restart
<1>9. CASE Surroundings
  BY <1>9 DEF Surroundings, Settle, JobEnds, ObstacleComes, ObstacleGoes, book
<1> QED
  BY <1>1, <1>2, <1>3, <1>4, <1>5, <1>6, <1>7, <1>8, <1>9 DEF Next, FaultStep

\* In order: whatever was moved, paused, removed or held while next_step waited for
\* the probe, what starts is the first queued item of its console.
THEOREM InOrder == Spec => StartsInOrder
<1> DEFINE A == \A i \in Items : status[i] # "running" /\ status'[i] = "running"
                  => IsHead(ConsoleOf[i], i)
<1>1. TypeOK /\ DriverInv /\ [Next]_vars => (TypeOK /\ DriverInv)'
  BY NextInv
<1>2. TypeOK /\ [Next]_vars => [A]_vars
  BY StartsAsHead DEF StillHead
<1>3. StartsInOrder <=> [][A]_vars
  BY DEF StartsInOrder
<1> QED BY <1>1, <1>2, <1>3, InitInv, PTL DEF Spec

\* Only hold_handler adds a holder, where nothing runs.
LEMMA HoldStep ==
  ASSUME TypeOK, Next, NEW c \in Consoles, holds'[c] # {}, holds[c] = {}
  PROVE  Running(c) = {} /\ UNCHANGED status
<1>1. ASSUME NEW e \in Consoles, DriverStep(e)
      PROVE  UNCHANGED holds
  BY <1>1, ZenonT(30) DEF DriverStep, LookAtLine, StopDriving, Wait, Probe, StartHead, StartItem,
     DriverSaves, CallRoute, RouteAnswers, Requeue, Finish, Follow, Poll, book
<1>2. ASSUME NEW r \in Requests, RequestStep(r) \/ DropRequest(r)
      PROVE  UNCHANGED holds
  BY <1>2 DEF RequestStep, RequestSaves, Answer, DropRequest, book
<1>3. ASSUME NEW s \in pending, WriteSnapshot(s) \/ WriteFails(s)
      PROVE  UNCHANGED holds
  BY <1>3 DEF WriteSnapshot, WriteFails, book
<1>4. ASSUME NEW r \in Requests, NEW i \in Items, NEW kick, Accept(r, i, kick)
      PROVE  UNCHANGED holds
  BY <1>4, ZenonT(30) DEF Accept
<1>5. CASE ClientStep
  <2>1. ASSUME NEW e \in Consoles, NEW h \in Holders, Hold(e, h) \/ Release(e, h)
        PROVE  Running(c) = {} /\ UNCHANGED status
    BY <2>1 DEF Hold, Release, TypeOK
  <2> QED BY <1>4, <1>5, <2>1, ZenonT(30) DEF ClientStep, AddItem, PauseItem, ResumeItem, RemoveItem,
          MoveItem, CancelItem
<1>6. ASSUME NEW e \in Consoles, DriverEnd(e)
      PROVE  UNCHANGED holds
  BY <1>6, ZenonT(30) DEF DriverEnd
<1>7. ASSUME NEW saved \in BOOLEAN, Restart(saved)
      PROVE  holds'[c] = {}
  BY <1>7, SMTT(30) DEF Restart
<1>8. CASE Surroundings
  BY <1>8 DEF Surroundings, Settle, JobEnds, ObstacleComes, ObstacleGoes, book
<1> QED
  BY <1>1, <1>2, <1>3, <1>5, <1>6, <1>7, <1>8, ZenonT(30) DEF Next, FaultStep

\* The two take turns: no hold and no running item on one console, whatever else
\* happens while next_step waits.
THEOREM TakeTurns == Spec => []HoldExcludesRunning
<1>1. TypeOK /\ DriverInv /\ [Next]_vars => (TypeOK /\ DriverInv)'
  BY NextInv
<1>2. Init => HoldExcludesRunning
  BY SMTT(30) DEF Init, HoldExcludesRunning
<1>3. ASSUME TypeOK, HoldExcludesRunning, [Next]_vars
      PROVE  HoldExcludesRunning'
  <2>1. CASE UNCHANGED vars
    BY <1>3, <2>1 DEF vars, book, HoldExcludesRunning, Running, On
  <2>2. CASE Next
    <3> SUFFICES ASSUME NEW c \in Consoles, holds'[c] # {},
                        NEW j \in Items, ConsoleOf[j] = c, status'[j] = "running"
                 PROVE  FALSE
      BY DEF HoldExcludesRunning, Running, On
    <3>1. CASE status[j] # "running"
      <4>1. StillHead(ConsoleOf[j], j) /\ holds' = holds
        BY <1>3, <2>2, <3>1, StartsAsHead
      <4> QED BY <4>1, SMTT(30) DEF StillHead
    <3>2. CASE status[j] = "running"
      <4>1. holds[c] = {} /\ Running(c) # {}
        BY <1>3, <3>2 DEF HoldExcludesRunning, Running, On
      <4> QED BY <1>3, <2>2, <4>1, HoldStep
    <3> QED BY <3>1, <3>2
  <2> QED BY <1>3, <2>1, <2>2, SMTT(30)
<1> QED BY <1>1, <1>2, <1>3, InitInv, PTL DEF Spec
-----------------------------------------------------------------------------
(* What the steps do to an item *)

\* next_step's Step::Run
Starts(c) ==
  /\ drv[c].pc = "tasks" /\ StillHead(c, drv[c].item) /\ StartItem(c, drv[c].item)
  /\ UNCHANGED <<file, req, mayRun>>

\* run_item ends with `end`
Ends(c, end) ==
  /\ drv[c].pc \in {"answer", "poll"} /\ Finish(c, drv[c].item, end)
  /\ UNCHANGED <<file, req, mayRun>>

\* run_item puts its item back in line
Requeues(c) ==
  /\ drv[c].pc = "answer" /\ Requeue(c, drv[c].item)
  /\ UNCHANGED <<file, req>>

\* steps that change no item
Quiet == UNCHANGED <<line, status, intent, kept>>

\* a handler's change of item i
Changes(r, i) ==
  \/ \E position : AddItem(r, i, position) \/ MoveItem(r, i, position)
  \/ PauseItem(r, i) \/ ResumeItem(r, i) \/ RemoveItem(r, i)

\* the list in the file
LEMMA DiskType ==
  ASSUME TypeOK
  PROVE  disk.line \in Seq(Items) /\ disk.status \in [Items -> Statuses]
<1>1. disk \in [line : Seq(Items), status : [Items -> Statuses]]
  BY DEF TypeOK
<1> QED BY <1>1

\* a restart takes the list from the file, with nothing running and nothing in line
\* that the file did not have in line
LEMMA RestartIs ==
  ASSUME TypeOK, NEW saved, Restart(saved)
  PROVE  LET after == AfterRestart(disk.line, disk.status)
         IN  /\ line' = disk.line /\ pending' = {} /\ mayRun' = mayRun
             /\ \A i \in Items : status'[i] = IF disk.status[i] \notin {"new", "gone"} THEN after[i]
                                              ELSE IF status[i] = "new" THEN "new" ELSE "gone"
             /\ \A i \in Items : after[i] # "running"
             /\ \A i \in Items : after[i] = "queued" => disk.status[i] = "queued" /\ i \notin Secret
<1> DEFINE onDisk == {i \in Items : disk.status[i] \notin {"new", "gone"}}
           after == AfterRestart(disk.line, disk.status)
           new == [i \in Items |-> IF i \in onDisk THEN after[i]
                                   ELSE IF status[i] = "new" THEN "new" ELSE "gone"]
<1>1. line' = disk.line /\ pending' = {} /\ mayRun' = mayRun /\ status' = new
  BY ZenonT(60) DEF Restart
<1>2. /\ \A i \in Items : after[i] # "running"
      /\ \A i \in Items : after[i] = "queued" => disk.status[i] = "queued" /\ i \notin Secret
  BY DiskType, AfterRestartEffect
<1> HIDE DEF after
<1>3. \A i \in Items : status'[i] = IF disk.status[i] \notin {"new", "gone"} THEN after[i]
                                    ELSE IF status[i] = "new" THEN "new" ELSE "gone"
  BY <1>1
<1> QED BY <1>1, <1>2, <1>3 DEF after

\* finish leaves the other items as they are, holds them or drops them from the list
LEMMA FinishOthers ==
  ASSUME TypeOK, NEW c \in Consoles, NEW i, NEW end \in Finished, Finish(c, i, end),
         NEW j \in Items, j # i
  PROVE  \/ status'[j] = status[j]
         \/ status[j] = "queued" /\ status'[j] = "paused"
         \/ status[j] \in Finished /\ status'[j] = "gone"
<1> DEFINE new == IF intent[i] = "remove" THEN "gone"
                  ELSE IF end = "cancelled" /\ intent[i] = "pause" THEN "paused"
                  ELSE end
           ended == [status EXCEPT ![i] = new]
           held == IF i \in StopOnFailure /\ new \in {"failed", "interrupted"}
                   THEN HoldLaterItems(line, ended, i) ELSE ended
<1>1. new \in Statuses
  BY DEF Statuses, Finished, Waiting
<1>2. status' = Prune(line, held, c)
  BY DEF Finish
<1> HIDE DEF new
<1>3. ended \in [Items -> Statuses] /\ ended[j] = status[j]
  BY <1>1 DEF TypeOK
<1> HIDE DEF ended
<1>4. /\ held \in [Items -> Statuses]
      /\ held[j] # ended[j] => ended[j] = "queued" /\ held[j] = "paused"
  BY <1>3, HoldLaterItemsEffect
<1> HIDE DEF held
<1>5. status'[j] # held[j] => held[j] \in Finished /\ status'[j] = "gone"
  BY <1>2, <1>4, PruneEffect
<1> QED BY <1>3, <1>4, <1>5 DEF Finished

\* a driver's step leaves the other drivers alone
LEMMA OneDriverMoves ==
  ASSUME TypeOK, NEW e \in Consoles, DriverStep(e), NEW c \in Consoles, c # e
  PROVE  drv'[c] = drv[c]
<1>1. \E d : drv' = [drv EXCEPT ![e] = d]
  BY ZenonT(30) DEF DriverStep, LookAtLine, StopDriving, Wait, Probe, StartHead, StartItem,
     DriverSaves, CallRoute, RouteAnswers, Requeue, Finish, Follow, Poll
<1> QED BY <1>1 DEF TypeOK

\* a step of a driver that changes no item and saves nothing
Moves(c) ==
  /\ Quiet /\ UNCHANGED <<file, req, mayRun>>
  /\ \/ /\ drv[c].pc \in {"look", "probe", "tasks"}
        /\ drv'[c].pc \in {"none", "look", "probe", "tasks"}
        /\ drv'[c].pc = "none" => Queued(c) = {}
     \/ /\ <<drv[c].pc, drv'[c].pc>> \in
             {<<"answer", "saveJob">>, <<"follow", "poll">>, <<"poll", "follow">>}
        /\ drv'[c].item = drv[c].item

\* where a step of a driver leaves it
LEMMA DriverMove ==
  ASSUME TypeOK, NEW c \in Consoles, DriverStep(c)
  PROVE  \/ Moves(c)
         \/ Starts(c) /\ drv'[c].pc = "saveRun" /\ drv'[c].item = drv[c].item
         \/ /\ DriverSaves(c) /\ drv'[c].item = drv[c].item
            /\ <<drv[c].pc, drv'[c].pc>> \in
                 {<<"saveRun", "call">>, <<"saveJob", "follow">>, <<"saveEnd", "look">>}
         \/ CallRoute(c) /\ drv'[c].pc = "answer" /\ drv'[c].item = drv[c].item
         \/ /\ Requeues(c) \/ \E end \in Finished : Ends(c, end)
            /\ drv'[c].pc = "saveEnd"
<1>1. ASSUME NEW d, drv' = [drv EXCEPT ![c] = d]
      PROVE  drv'[c] = d
  BY <1>1 DEF TypeOK
<1>2. ASSUME NEW p, drv' = [drv EXCEPT ![c].pc = p]
      PROVE  drv'[c].pc = p /\ drv'[c].item = drv[c].item
  BY <1>2 DEF TypeOK, Drivers
<1>3. /\ NoDriver.pc = "none" /\ Looking.pc = "look"
      /\ [NoDriver EXCEPT !.pc = "saveEnd"].pc = "saveEnd"
      /\ \A i : [Looking EXCEPT !.pc = "probe", !.item = i].pc = "probe"
  BY ZenonT(30) DEF NoDriver, Looking
<1>4. CASE LookAtLine(c)
  <2>1. drv[c].pc = "look" /\ Quiet /\ UNCHANGED <<file, req, mayRun>>
    BY <1>4, ZenonT(30) DEF LookAtLine, StopDriving, Wait, Quiet, book
  <2>2. \/ drv' = [drv EXCEPT ![c] = NoDriver] /\ Queued(c) = {}
        \/ drv' = [drv EXCEPT ![c] = Looking]
        \/ \E i : drv' = [drv EXCEPT ![c] = [Looking EXCEPT !.pc = "probe", !.item = i]]
    BY <1>4, ZenonT(30) DEF LookAtLine, StopDriving, Wait
  <2>3. \/ drv'[c].pc = "none" /\ Queued(c) = {}
        \/ drv'[c].pc = "look" \/ drv'[c].pc = "probe"
    BY <1>1, <1>3, <2>2, ZenonT(30)
  <2> QED BY <2>1, <2>3 DEF Moves
<1>5. CASE Probe(c)
  <2>1. drv[c].pc = "probe" /\ Quiet /\ UNCHANGED <<file, req, mayRun>>
    BY <1>5, ZenonT(30) DEF Probe, Wait, Quiet, book
  <2>2. drv'[c].pc = "look" \/ drv'[c].pc = "tasks"
    BY <1>1, <1>2, <1>3, <1>5, ZenonT(30) DEF Probe, Wait
  <2> QED BY <2>1, <2>2 DEF Moves
<1>6. CASE StartHead(c)
  <2>1. CASE Wait(c, "console_task") \/ Wait(c, "none")
    <3>1. drv[c].pc = "tasks" /\ Quiet /\ UNCHANGED <<file, req, mayRun>>
      BY <1>6, <2>1, ZenonT(30) DEF StartHead, Wait, Quiet
    <3>2. drv'[c].pc = "look"
      BY <1>1, <1>3, <2>1, ZenonT(30) DEF Wait
    <3> QED BY <3>1, <3>2 DEF Moves
  <2>2. CASE StillHead(c, drv[c].item) /\ StartItem(c, drv[c].item)
    <3>1. drv'[c].pc = "saveRun" /\ drv'[c].item = drv[c].item
      BY <1>2, <2>2, ZenonT(30) DEF StartItem
    <3> QED BY <1>6, <2>2, <3>1, ZenonT(30) DEF StartHead, Starts
  <2> QED BY <1>6, <2>1, <2>2, ZenonT(30) DEF StartHead
<1>7. CASE DriverSaves(c)
  <2>1. CASE drv[c].pc = "saveRun"
    <3>1. drv' = [drv EXCEPT ![c].pc = "call"]
      BY <1>7, <2>1, ZenonT(30) DEF DriverSaves
    <3> QED BY <1>2, <1>7, <2>1, <3>1
  <2>2. CASE drv[c].pc = "saveJob"
    <3>1. drv' = [drv EXCEPT ![c].pc = "follow"]
      BY <1>7, <2>2, ZenonT(30) DEF DriverSaves
    <3> QED BY <1>2, <1>7, <2>2, <3>1
  <2>3. CASE drv[c].pc = "saveEnd"
    <3>1. drv' = [drv EXCEPT ![c].pc = "look"]
      BY <1>7, <2>3, ZenonT(30) DEF DriverSaves
    <3> QED BY <1>2, <1>7, <2>3, <3>1
  <2> QED BY <1>7, <2>1, <2>2, <2>3 DEF DriverSaves
<1>8. CASE CallRoute(c)
  BY <1>2, <1>8, ZenonT(30) DEF CallRoute
<1>9. ASSUME NEW end \in Finished, Finish(c, drv[c].item, end)
      PROVE  drv'[c].pc = "saveEnd"
  BY <1>1, <1>3, <1>9, ZenonT(30) DEF Finish
<1>10. CASE RouteAnswers(c)
  <2>0. "failed" \in Finished
    BY DEF Finished
  <2>1. CASE Requeue(c, drv[c].item)
    <3>1. drv'[c].pc = "saveEnd"
      BY <1>1, <1>3, <2>1, ZenonT(30) DEF Requeue
    <3> QED BY <1>10, <2>1, <3>1, ZenonT(30) DEF RouteAnswers, Requeues
  <2>2. CASE Finish(c, drv[c].item, "failed") /\ UNCHANGED <<job, mayRun>>
    BY <1>9, <1>10, <2>0, <2>2, ZenonT(30) DEF RouteAnswers, Ends
  <2>3. CASE drv' = [drv EXCEPT ![c].pc = "saveJob"] /\ UNCHANGED <<book, mayRun>>
    <3>1. drv[c].pc = "answer" /\ Quiet /\ UNCHANGED <<file, req, mayRun>>
      BY <1>10, <2>3, ZenonT(30) DEF RouteAnswers, Quiet, book
    <3> QED BY <1>2, <2>3, <3>1 DEF Moves
  <2> QED BY <1>10, <2>1, <2>2, <2>3, ZenonT(30) DEF RouteAnswers
<1>11. CASE Follow(c)
  <2>1. drv[c].pc = "follow" /\ Quiet /\ UNCHANGED <<file, req, mayRun>>
    BY <1>11, ZenonT(30) DEF Follow, Quiet, book
  <2>2. drv'[c].pc = "poll" /\ drv'[c].item = drv[c].item
    <3> DEFINE stop == drv[c].stopSent \/ intent[drv[c].item] # "none"
               d == [drv[c] EXCEPT !.pc = "poll", !.stopSent = stop]
    <3>1. drv' = [drv EXCEPT ![c] = d]
      BY <1>11, ZenonT(30) DEF Follow
    <3> HIDE DEF stop
    <3>2. d.pc = "poll" /\ d.item = drv[c].item
      BY ZenonT(30) DEF TypeOK, Drivers
    <3> HIDE DEF d
    <3> QED BY <1>1, <3>1, <3>2
  <2> QED BY <2>1, <2>2 DEF Moves
<1>12. CASE Poll(c)
  <2>1. CASE drv' = [drv EXCEPT ![c].pc = "follow"] /\ UNCHANGED <<book, job>>
    <3>1. drv[c].pc = "poll" /\ Quiet /\ UNCHANGED <<file, req, mayRun>>
      BY <1>12, <2>1, ZenonT(30) DEF Poll, Quiet, book
    <3> QED BY <1>2, <2>1, <3>1 DEF Moves
  <2>2. ASSUME NEW answer \in JobAnswers, Finish(c, drv[c].item, EndOf(answer))
        PROVE  (\E end \in Finished : Ends(c, end)) /\ drv'[c].pc = "saveEnd"
    <3>1. EndOf(answer) \in Finished
      BY DEF EndOf, JobAnswers, Finished
    <3> QED BY <1>9, <1>12, <2>2, <3>1, ZenonT(30) DEF Poll, Ends
  <2> QED BY <1>12, <2>1, <2>2, ZenonT(30) DEF Poll
<1> QED
  BY <1>4, <1>5, <1>6, <1>7, <1>8, <1>10, <1>11, <1>12 DEF DriverStep

\* Every step changes no item, or is one of the steps above, a handler's change, a
\* request to stop what runs, or the end of a driver or of the process.
LEMMA ItemSteps ==
  ASSUME TypeOK, Next
  PROVE  \/ Quiet
         \/ \E c \in Consoles : \/ Starts(c) \/ Requeues(c) \/ DriverEnd(c)
                                \/ \E end \in Finished : Ends(c, end)
         \/ \E r \in Requests, i \in Items : Changes(r, i)
         \/ \E i \in Items : CancelItem(i)
         \/ \E saved \in BOOLEAN : Restart(saved)
<1>1. ASSUME NEW c \in Consoles, DriverStep(c)
      PROVE  \/ Quiet \/ Starts(c) \/ Requeues(c) \/ \E end \in Finished : Ends(c, end)
  <2>1. DriverSaves(c) \/ CallRoute(c) \/ Moves(c) => Quiet
    BY DEF DriverSaves, CallRoute, Moves, Quiet, book
  <2> QED BY <1>1, <2>1, DriverMove
<1>2. ASSUME NEW r \in Requests, RequestStep(r) \/ DropRequest(r)
      PROVE  Quiet
  BY <1>2 DEF RequestStep, RequestSaves, Answer, DropRequest, book, Quiet
<1>3. ASSUME NEW s \in pending, WriteSnapshot(s) \/ WriteFails(s)
      PROVE  Quiet
  BY <1>3 DEF WriteSnapshot, WriteFails, book, Quiet
<1>4. CASE ClientStep
  BY <1>4, ZenonT(30) DEF ClientStep, Changes, Hold, Release, Quiet
<1>5. CASE Surroundings
  BY <1>5 DEF Surroundings, Settle, JobEnds, ObstacleComes, ObstacleGoes, book, Quiet
<1> QED
  BY <1>1, <1>2, <1>3, <1>4, <1>5, ZenonT(30) DEF Next, FaultStep


\* A handler changes one item, which does not run unless it is a pause of it, and puts
\* it in line only with its secret there and a kick to follow.
LEMMA HandlerEffect ==
  ASSUME TypeOK, NEW r \in Requests, NEW i \in Items, Changes(r, i)
  PROVE  /\ \A j \in Items : j # i => status'[j] = status[j] /\ intent'[j] = intent[j]
         /\ \/ status'[i] = status[i]
            \/ status[i] # "running" /\ status'[i] \in {"queued", "paused", "gone"}
         /\ status'[i] = "queued" /\ status[i] # "queued"
              => i \in mayRun' /\ (i \in Secret => i \in kept') /\ Accept(r, i, TRUE)
         /\ kept \subseteq kept' /\ mayRun \subseteq mayRun'
         /\ intent'[i] # intent[i]
              => status'[i] = "running" /\ status[i] = "running" /\ KindOf[i] # "install"
         /\ \E kick \in BOOLEAN : Accept(r, i, kick)
<1> USE DEF TypeOK
<1>1. ASSUME NEW position, AddItem(r, i, position)
      PROVE  /\ status' = [status EXCEPT ![i] = "queued"] /\ UNCHANGED intent /\ status[i] = "new"
             /\ i \in mayRun' /\ (i \in Secret => i \in kept') /\ Accept(r, i, TRUE)
             /\ kept \subseteq kept' /\ mayRun \subseteq mayRun'
  BY <1>1 DEF AddItem
<1>2. ASSUME NEW position, MoveItem(r, i, position)
      PROVE  UNCHANGED <<status, intent, kept, mayRun>> /\ Accept(r, i, FALSE)
  BY <1>2, ZenonT(30) DEF MoveItem
<1>3. ASSUME PauseItem(r, i)
      PROVE  /\ \/ /\ status[i] \in Waiting /\ status' = [status EXCEPT ![i] = "paused"]
                   /\ UNCHANGED intent
                \/ /\ status[i] = "running" /\ KindOf[i] = "resumes" /\ UNCHANGED status
                   /\ intent' = [intent EXCEPT ![i] = "pause"]
             /\ UNCHANGED <<kept, mayRun>> /\ Accept(r, i, FALSE)
  BY <1>3, ZenonT(30) DEF PauseItem, MayPause
<1>4. ASSUME ResumeItem(r, i)
      PROVE  /\ \/ /\ status[i] \in {"paused", "failed", "cancelled", "interrupted"}
                   /\ status' = [status EXCEPT ![i] = "queued"]
                   /\ i \in Secret => i \in kept
                   /\ mayRun' = mayRun \cup {i}
                \/ UNCHANGED <<status, mayRun>>
             /\ UNCHANGED <<intent, kept>> /\ Accept(r, i, TRUE)
  BY <1>4, ZenonT(30) DEF ResumeItem
<1>5. ASSUME RemoveItem(r, i)
      PROVE  /\ status[i] # "running" /\ status' = [status EXCEPT ![i] = "gone"]
             /\ UNCHANGED <<intent, kept, mayRun>> /\ Accept(r, i, FALSE)
  BY <1>5, ZenonT(30) DEF RemoveItem
<1>6. CASE \E position : AddItem(r, i, position)
  BY <1>1, <1>6
<1>7. CASE \E position : MoveItem(r, i, position)
  BY <1>2, <1>7
<1>8. CASE PauseItem(r, i)
  BY <1>3, <1>8 DEF Waiting
<1>9. CASE ResumeItem(r, i)
  BY <1>4, <1>9
<1>10. CASE RemoveItem(r, i)
  BY <1>5, <1>10
<1> QED BY <1>6, <1>7, <1>8, <1>9, <1>10 DEF Changes

\* a driver follows an item that it started, from there to the end of the run
LEMMA FollowStep ==
  ASSUME TypeOK, DriverInv, Next, NEW c \in Consoles, drv'[c].pc \in Following
  PROVE  \/ drv[c].pc \in Following /\ drv'[c].item = drv[c].item
         \/ Starts(c) /\ drv'[c].item = drv[c].item
<1>1. ASSUME NEW e \in Consoles, DriverStep(e)
      PROVE  \/ drv[c].pc \in Following /\ drv'[c].item = drv[c].item
             \/ Starts(c) /\ drv'[c].item = drv[c].item
  <2>1. CASE c # e
    BY <1>1, <2>1, OneDriverMoves
  <2>2. CASE c = e
    <3>1. CallRoute(c) => drv[c].pc = "call"
      BY DEF CallRoute
    <3> QED BY <1>1, <2>2, <3>1, DriverMove DEF Moves, Following
  <2> QED BY <2>1, <2>2
<1>2. ASSUME drv' = drv
      PROVE  drv[c].pc \in Following /\ drv'[c].item = drv[c].item
  BY <1>2
<1>3. ASSUME NEW e \in Consoles, NEW d, drv' = [drv EXCEPT ![e] = d], d.pc \notin Following
      PROVE  drv[c].pc \in Following /\ drv'[c].item = drv[c].item
  BY <1>3 DEF TypeOK
<1>4. NoDriver.pc \notin Following /\ Looking.pc \notin Following
  BY DEF NoDriver, Looking, Following
<1>5. ASSUME NEW r \in Requests, RequestStep(r)
      PROVE  \/ drv' = drv
             \/ \E e \in Consoles : drv' = [drv EXCEPT ![e] = Looking]
  <2>1. req[r].console \in Consoles
    BY DEF TypeOK, Handlers
  <2> QED BY <1>5, <2>1, ZenonT(30) DEF RequestStep, RequestSaves, Answer, Kick
<1>6. ASSUME ClientStep
      PROVE  drv' = drv
  BY <1>6, ZenonT(30) DEF ClientStep, AddItem, PauseItem, ResumeItem, RemoveItem, MoveItem,
     CancelItem, Hold, Release, Accept
<1>7. ASSUME NEW s \in pending, WriteSnapshot(s) \/ WriteFails(s)
      PROVE  drv' = drv
  BY <1>7 DEF WriteSnapshot, WriteFails
<1>8. ASSUME Surroundings \/ \E r \in Requests : DropRequest(r)
      PROVE  drv' = drv
  BY <1>8 DEF Surroundings, Settle, JobEnds, ObstacleComes, ObstacleGoes, DropRequest
<1>9. ASSUME NEW e \in Consoles, DriverEnd(e)
      PROVE  drv' = [drv EXCEPT ![e] = NoDriver]
  BY <1>9, ZenonT(30) DEF DriverEnd
<1>10. ASSUME NEW saved \in BOOLEAN, Restart(saved)
       PROVE  FALSE
  BY <1>4, <1>10, ZenonT(30) DEF Restart
<1> QED
  BY <1>1, <1>2, <1>3, <1>4, <1>5, <1>6, <1>7, <1>8, <1>9, <1>10, ZenonT(30) DEF Next, FaultStep

\* an item that no longer runs is no longer followed
LEMMA RunEnds ==
  ASSUME TypeOK, DriverInv, Next, NEW i \in Items, status[i] = "running", status'[i] # "running"
  PROVE  drv'[ConsoleOf[i]].pc \notin Following
<1> DEFINE c == ConsoleOf[i]
<1>0. c \in Consoles /\ drv[c].item = i /\ drv[c].pc \in Following
  BY QueueAssumption DEF DriverInv, RunningIsFollowed
<1>a. {"none", "saveEnd"} \cap Following = {} /\ NoDriver.pc = "none" /\ Looking.pc = "look"
      /\ [NoDriver EXCEPT !.pc = "saveEnd"].pc = "saveEnd" /\ "look" \notin Following
  BY DEF NoDriver, Looking, Following
<1>1. ASSUME NEW e \in Consoles, Starts(e)
      PROVE  FALSE
  BY <1>1, SMTT(30) DEF Starts, StartItem, TypeOK
<1>2. ASSUME NEW e \in Consoles, e = c, drv' = [drv EXCEPT ![e] = [NoDriver EXCEPT !.pc = "saveEnd"]]
      PROVE  drv'[c].pc \notin Following
  BY <1>0, <1>2, <1>a DEF TypeOK
<1>3. ASSUME NEW e \in Consoles, Requeues(e)
      PROVE  drv'[c].pc \notin Following
  <2>1. i = drv[e].item
    BY <1>3 DEF Requeues, Requeue, TypeOK
  <2>2. e = c
    BY <1>0, <1>3, <2>1 DEF Requeues, DriverInv, DriverHasItem, Following
  <2> QED BY <1>2, <1>3, <2>2 DEF Requeues, Requeue
<1>4. ASSUME NEW e \in Consoles, NEW end \in Finished, Ends(e, end)
      PROVE  drv'[c].pc \notin Following
  <2>1. i = drv[e].item
    BY <1>4, FinishOthers DEF Ends, Finished
  <2>2. e = c
    BY <1>0, <1>4, <2>1 DEF Ends, DriverInv, DriverHasItem, Following
  <2> QED BY <1>2, <1>4, <2>2 DEF Ends, Finish
<1>5. ASSUME NEW r \in Requests, NEW j \in Items, Changes(r, j)
      PROVE  FALSE
  BY <1>5, HandlerEffect
<1>6. ASSUME NEW j \in Items, CancelItem(j)
      PROVE  FALSE
  BY <1>6 DEF CancelItem
<1>7. ASSUME NEW e \in Consoles, DriverEnd(e)
      PROVE  drv'[c].pc \notin Following
  <2>1. e = c
    BY <1>7, ZenonT(30) DEF DriverEnd, Running, On
  <2> QED BY <1>0, <1>7, <1>a, <2>1 DEF DriverEnd, TypeOK
<1>8. ASSUME NEW saved \in BOOLEAN, Restart(saved)
      PROVE  drv'[c].pc \notin Following
  BY <1>0, <1>8, <1>a, ZenonT(30) DEF Restart
<1>9. CASE Quiet
  BY <1>9 DEF Quiet
<1> QED
  BY <1>1, <1>3, <1>4, <1>5, <1>6, <1>7, <1>8, <1>9, ItemSteps, ZenonT(30)
=============================================================================
