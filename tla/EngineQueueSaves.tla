-------------------------- MODULE EngineQueueSaves --------------------------
(***************************************************************************)
(* Theorems about the items of the engine's queue and about the file that  *)
(* keeps them over a restart, for every value of the constants.            *)
(***************************************************************************)
EXTENDS EngineQueueProofs
-----------------------------------------------------------------------------
(* Stops and secrets belong to a run *)

\* what a driver follows runs: the converse of RunningIsFollowed
FollowedRuns ==
  \A c \in Consoles : drv[c].pc \in Following => status[drv[c].item] = "running"

\* the inductive invariant of the items
ItemInv == FollowedRuns /\ IntentOnlyWhileRunning /\ SecretIsThere

\* the items as the engine starts
LEMMA InitItems == Init => ItemInv
<1>1. NoDriver.pc \notin Following
  BY DEF NoDriver, Following
<1>2. Init => FollowedRuns
  BY <1>1 DEF Init, FollowedRuns
<1>3. Init => IntentOnlyWhileRunning
  BY DEF Init, IntentOnlyWhileRunning
<1>4. Init => SecretIsThere
  BY QueueAssumption DEF Init, SecretIsThere
<1> QED BY <1>2, <1>3, <1>4 DEF ItemInv

\* what a driver follows goes on running
LEMMA FollowedRunsStep ==
  ASSUME TypeOK, DriverInv, FollowedRuns, Next
  PROVE  FollowedRuns'
<1> SUFFICES ASSUME NEW c \in Consoles, drv'[c].pc \in Following
             PROVE  status'[drv'[c].item] = "running"
  BY DEF FollowedRuns
<1>1. CASE Starts(c) /\ drv'[c].item = drv[c].item
  <2>1. drv[c].item \in Items /\ status' = [status EXCEPT ![drv[c].item] = "running"]
    BY <1>1 DEF Starts, StillHead, IsHead, Queued, On, StartItem
  <2> QED BY <1>1, <2>1 DEF TypeOK
<1>2. CASE drv[c].pc \in Following /\ drv'[c].item = drv[c].item
  <2>1. /\ drv[c].item \in Items /\ ConsoleOf[drv[c].item] = c
        /\ status[drv[c].item] = "running"
    BY <1>2 DEF DriverInv, DriverHasItem, FollowedRuns
  <2> QED BY <1>2, <2>1, RunEnds
<1> QED BY <1>1, <1>2, FollowStep

\* No step leaves a stop on an item that does not run, or an item in line without
\* its secret.
LEMMA NextItems ==
  ASSUME TypeOK, DriverInv, ItemInv, [Next]_vars
  PROVE  ItemInv'
<1>0. CASE UNCHANGED vars
  BY <1>0 DEF vars, book, ItemInv, FollowedRuns, IntentOnlyWhileRunning, SecretIsThere
<1> SUFFICES ASSUME Next PROVE IntentOnlyWhileRunning' /\ SecretIsThere'
  BY <1>0, FollowedRunsStep DEF ItemInv
<1> DEFINE Goal == IntentOnlyWhileRunning' /\ SecretIsThere'
<1>a. FollowedRuns /\ IntentOnlyWhileRunning /\ SecretIsThere
  BY DEF ItemInv
<1>1. CASE Quiet
  BY <1>1, <1>a DEF Quiet, IntentOnlyWhileRunning, SecretIsThere
<1>2. ASSUME NEW c \in Consoles, Starts(c)
      PROVE  Goal
  <2>1. drv[c].item \in Items /\ status[drv[c].item] = "queued"
    BY <1>2 DEF Starts, StillHead, IsHead, Queued, On
  <2>2. /\ status' = [status EXCEPT ![drv[c].item] = "running"]
        /\ UNCHANGED <<intent, kept>>
    BY <1>2 DEF Starts, StartItem
  <2> QED BY <1>a, <2>1, <2>2, QueueAssumption DEF IntentOnlyWhileRunning, SecretIsThere, TypeOK
<1>3. ASSUME NEW c \in Consoles, Requeues(c)
      PROVE  Goal
  <2>1. drv[c].item \in Items /\ status[drv[c].item] = "running"
    BY <1>3, <1>a DEF Requeues, FollowedRuns, DriverInv, DriverHasItem, Following
  <2>2. /\ status' = [status EXCEPT ![drv[c].item] = "queued"]
        /\ UNCHANGED <<intent, kept>> /\ KindOf[drv[c].item] = "install"
    BY <1>3 DEF Requeues, Requeue
  <2> QED BY <1>a, <2>1, <2>2, QueueAssumption DEF IntentOnlyWhileRunning, SecretIsThere, TypeOK
<1>4. ASSUME NEW c \in Consoles, NEW end \in Finished, Ends(c, end)
      PROVE  Goal
  <2>1. intent' = [intent EXCEPT ![drv[c].item] = "none"] /\ UNCHANGED kept
    BY <1>4 DEF Ends, Finish
  <2>2. \A j \in Items : /\ status'[j] \in {"queued", "running"} => status[j] = status'[j]
                         /\ j # drv[c].item /\ status[j] = "running" => status'[j] = "running"
    BY <1>4, FinishEffect, FinishOthers DEF Ends, Finished
  <2>3. SecretIsThere'
    <3> SUFFICES ASSUME NEW j \in Secret, status'[j] \in {"queued", "running"}
                 PROVE  j \in kept'
      BY DEF SecretIsThere
    <3>1. j \in Items /\ status[j] \in {"queued", "running"}
      BY <2>2, QueueAssumption
    <3> QED BY <1>a, <2>1, <3>1 DEF SecretIsThere
  <2>4. IntentOnlyWhileRunning'
    <3> SUFFICES ASSUME NEW j \in Items, intent'[j] # "none"
                 PROVE  status'[j] = "running" /\ KindOf[j] # "install"
      BY DEF IntentOnlyWhileRunning
    <3>1. j # drv[c].item /\ intent[j] # "none"
      BY <2>1 DEF TypeOK
    <3> QED BY <1>a, <2>2, <3>1 DEF IntentOnlyWhileRunning
  <2> QED BY <2>3, <2>4
<1>5. ASSUME NEW r \in Requests, NEW i \in Items, Changes(r, i)
      PROVE  Goal
  BY <1>5, <1>a, HandlerEffect, QueueAssumption DEF IntentOnlyWhileRunning, SecretIsThere
<1>6. ASSUME NEW i \in Items, CancelItem(i)
      PROVE  Goal
  BY <1>6, <1>a DEF CancelItem, IntentOnlyWhileRunning, SecretIsThere, TypeOK
<1>7. ASSUME NEW c \in Consoles, DriverEnd(c)
      PROVE  Goal
  <2>1. /\ status' = [i \in Items |-> IF i \in Running(c) THEN "interrupted" ELSE status[i]]
        /\ intent' = [i \in Items |-> IF i \in Running(c) THEN "none" ELSE intent[i]]
        /\ UNCHANGED kept
    BY <1>7 DEF DriverEnd
  <2> QED BY <1>a, <2>1, QueueAssumption DEF IntentOnlyWhileRunning, SecretIsThere
<1>8. ASSUME NEW saved \in BOOLEAN, Restart(saved)
      PROVE  Goal
  <2>1. \A j \in Items : status'[j] # "running" /\ (status'[j] = "queued" => j \notin Secret)
    BY <1>8, RestartIs
  <2>2. intent' = [i \in Items |-> "none"]
    BY <1>8, ZenonT(30) DEF Restart
  <2> QED BY <2>1, <2>2, QueueAssumption DEF IntentOnlyWhileRunning, SecretIsThere
<1> QED
  BY <1>1, <1>2, <1>3, <1>4, <1>5, <1>6, <1>7, <1>8, ItemSteps, ZenonT(30)

\* A stop that was asked for belongs to the run it was asked of, in every engine and
\* under every fault: finish, DriverEnd and a restart take it away.
THEOREM StopsEndWithTheRun == Spec => []IntentOnlyWhileRunning
<1>1. TypeOK /\ DriverInv /\ [Next]_vars => (TypeOK /\ DriverInv)'
  BY NextInv
<1>2. TypeOK /\ DriverInv /\ ItemInv /\ [Next]_vars => ItemInv'
  BY NextItems
<1>3. ItemInv => IntentOnlyWhileRunning
  BY DEF ItemInv
<1> QED BY <1>1, <1>2, <1>3, InitInv, InitItems, PTL DEF Spec

\* No item waits or runs without the secret its request needs, whatever panics,
\* crashes and saves are lost: after_restart takes it out of the line.
THEOREM SecretsAreThere == Spec => []SecretIsThere
<1>1. TypeOK /\ DriverInv /\ [Next]_vars => (TypeOK /\ DriverInv)'
  BY NextInv
<1>2. TypeOK /\ DriverInv /\ ItemInv /\ [Next]_vars => ItemInv'
  BY NextItems
<1>3. ItemInv => SecretIsThere
  BY DEF ItemInv
<1> QED BY <1>1, <1>2, <1>3, InitInv, InitItems, PTL DEF Spec
-----------------------------------------------------------------------------
(* No wakeup is lost *)

\* item j has someone who will look at its line
Awaited(j) ==
  \/ drv[ConsoleOf[j]].pc # "none"
  \/ \E r \in Requests : /\ req[r].pc # "idle" /\ req[r].kick
                         /\ req[r].console = ConsoleOf[j]

\* a driver gives its console up only with nothing queued there
LEMMA DriverKeepsAwake ==
  ASSUME TypeOK, DriverInv, NoLostWakeup, NEW e \in Consoles, DriverStep(e),
         NEW j \in Items, status'[j] = "queued"
  PROVE  Awaited(j)'
<1> DEFINE c == ConsoleOf[j]
<1>0. c \in Consoles
  BY QueueAssumption
<1>1. UNCHANGED req
  <2>1. DriverSaves(e) \/ CallRoute(e) => UNCHANGED req
    BY DEF DriverSaves, CallRoute
  <2> QED BY <2>1, DriverMove, ZenonT(30) DEF Moves, Starts, Requeues, Ends
<1>2. CASE e = c
  <2>1. drv'[c].pc # "none"
    <3>1. ASSUME Moves(c) PROVE drv'[c].pc # "none"
      BY <3>1, <1>0 DEF Moves, Quiet, Queued, On
    <3> QED BY <1>2, <3>1, DriverMove
  <2> QED BY <2>1 DEF Awaited
<1>3. CASE e # c
  <2>1. status[j] = "queued"
    <3>1. DriverSaves(e) \/ CallRoute(e) \/ Moves(e) => UNCHANGED status
      BY DEF DriverSaves, CallRoute, Moves, Quiet, book
    <3>2. Starts(e) => status[j] = "queued"
      BY DEF Starts, StartItem, TypeOK
    <3>3. Requeues(e) => status[j] = "queued"
      <4>1. Requeues(e) => drv[e].item # j
        BY <1>3 DEF Requeues, DriverInv, DriverHasItem, Following
      <4> QED BY <4>1 DEF Requeues, Requeue, TypeOK
    <3>4. \A end \in Finished : Ends(e, end) => status[j] = "queued"
      BY FinishEffect DEF Ends
    <3> QED BY <3>1, <3>2, <3>3, <3>4, DriverMove
  <2>2. drv'[c] = drv[c]
    BY <1>0, <1>3, OneDriverMoves
  <2> QED BY <1>1, <2>1, <2>2 DEF NoLostWakeup, Awaited
<1> QED BY <1>2, <1>3

\* A step that is no drop and no panic leaves every queued item awaited.
LEMMA NextAwake ==
  ASSUME {"drop", "panic"} \cap Faults = {}, TypeOK, DriverInv, NoLostWakeup, [Next]_vars
  PROVE  NoLostWakeup'
<1> SUFFICES ASSUME NEW j \in Items, status'[j] = "queued"
             PROVE  Awaited(j)'
  BY DEF NoLostWakeup, Awaited
<1> DEFINE c == ConsoleOf[j]
<1>0. c \in Consoles
  BY QueueAssumption
<1>1. CASE UNCHANGED <<status, drv, req>>
  BY <1>1 DEF NoLostWakeup, Awaited
<1>2. ASSUME NEW e \in Consoles, DriverStep(e)
      PROVE  Awaited(j)'
  BY <1>2, DriverKeepsAwake
<1>3. ASSUME NEW r \in Requests, RequestSaves(r)
      PROVE  Awaited(j)'
  <2>1. UNCHANGED <<status, drv>> /\ req' = [req EXCEPT ![r].pc = "wait"]
    BY <1>3 DEF RequestSaves, book
  <2>2. Awaited(j)
    BY <2>1 DEF NoLostWakeup, Awaited
  <2>3. ASSUME NEW q \in Requests, req[q].pc # "idle"
        PROVE  /\ req'[q].pc # "idle" /\ req'[q].kick = req[q].kick
               /\ req'[q].console = req[q].console
    BY <2>1, <2>3 DEF TypeOK, Handlers
  <2> QED BY <2>1, <2>2, <2>3 DEF Awaited
<1>4. ASSUME NEW r \in Requests, Answer(r)
      PROVE  Awaited(j)'
  <2>1. UNCHANGED status /\ req' = [req EXCEPT ![r] = Idle]
    BY <1>4 DEF Answer
  <2>2. Awaited(j)
    BY <2>1 DEF NoLostWakeup, Awaited
  <2>3. Looking.pc = "look" /\ req[r].console \in Consoles
    BY DEF Looking, NoDriver, TypeOK, Handlers
  <2>4. \/ UNCHANGED drv
        \/ \E e \in Consoles : drv' = [drv EXCEPT ![e] = Looking]
    BY <1>4, <2>3, ZenonT(30) DEF Answer, Kick
  <2>5. CASE drv[c].pc # "none"
    <3>1. drv'[c].pc # "none"
      BY <1>0, <2>3, <2>4, <2>5 DEF TypeOK
    <3> QED BY <3>1 DEF Awaited
  <2>6. CASE req[r].kick /\ req[r].console = c
    <3>1. Kick(c)
      BY <1>4, <2>6 DEF Answer
    <3>2. drv'[c].pc # "none"
      BY <1>0, <2>3, <3>1 DEF Kick, TypeOK, DriverInv, DriversRegistered
    <3> QED BY <3>2 DEF Awaited
  <2>7. ASSUME NEW q \in Requests, q # r, req[q].pc # "idle", req[q].kick, req[q].console = c
        PROVE  Awaited(j)'
    <3>1. req'[q] = req[q]
      BY <2>1, <2>7 DEF TypeOK
    <3> QED BY <2>7, <3>1 DEF Awaited
  <2> QED BY <2>2, <2>5, <2>6, <2>7, ZenonT(30) DEF Awaited
<1>5. ASSUME NEW r \in Requests, NEW i \in Items, Changes(r, i)
      PROVE  Awaited(j)'
  <2>1. PICK kick \in BOOLEAN : Accept(r, i, kick)
    BY <1>5, HandlerEffect
  <2>2. /\ req[r].pc = "idle" /\ UNCHANGED drv
        /\ req' = [req EXCEPT ![r] = [pc |-> "save", console |-> ConsoleOf[i], kick |-> kick]]
    BY <2>1, ZenonT(30) DEF Accept
  <2>3. CASE status[j] = "queued"
    <3>1. Awaited(j)
      BY <2>3 DEF NoLostWakeup, Awaited
    <3>2. \A q \in Requests : req[q].pc # "idle" => req'[q] = req[q]
      BY <2>2 DEF TypeOK
    <3> QED BY <2>2, <3>1, <3>2, ZenonT(30) DEF Awaited
  <2>4. CASE status[j] # "queued"
    <3>1. i = j /\ Accept(r, i, TRUE)
      BY <1>5, <2>4, HandlerEffect
    <3>2. req' = [req EXCEPT ![r] = [pc |-> "save", console |-> ConsoleOf[i], kick |-> TRUE]]
      BY <3>1, ZenonT(30) DEF Accept
    <3>3. req'[r] = [pc |-> "save", console |-> ConsoleOf[i], kick |-> TRUE]
      BY <3>2 DEF TypeOK
    <3>4. req'[r].pc = "save" /\ req'[r].kick /\ req'[r].console = ConsoleOf[j]
      BY <3>1, <3>3, SMTT(60)
    <3> QED BY <3>4 DEF Awaited
  <2> QED BY <2>3, <2>4
<1>6. ASSUME NEW saved \in BOOLEAN, Restart(saved)
      PROVE  Awaited(j)'
  <2>1. drv'[c] = Looking
    BY <1>0, <1>6, SMTT(30) DEF Restart, On
  <2>2. drv'[c].pc # "none"
    BY <2>1 DEF Looking, NoDriver
  <2> QED BY <2>2 DEF Awaited
<1>7. ASSUME NEW s \in pending, WriteSnapshot(s) \/ WriteFails(s)
      PROVE  UNCHANGED <<status, drv, req>>
  BY <1>7 DEF WriteSnapshot, WriteFails, book
<1>8. ASSUME ClientStep
      PROVE  \/ \E r \in Requests, i \in Items : Changes(r, i)
             \/ UNCHANGED <<status, drv, req>>
  BY <1>8, ZenonT(30) DEF ClientStep, Changes, CancelItem, Hold, Release
<1>9. ASSUME Surroundings
      PROVE  UNCHANGED <<status, drv, req>>
  BY <1>9 DEF Surroundings, Settle, JobEnds, ObstacleComes, ObstacleGoes, book
<1>10. ASSUME FaultStep
       PROVE  \/ \E s \in pending : WriteFails(s)
              \/ \E saved \in BOOLEAN : Restart(saved)
  BY <1>10 DEF FaultStep, DropRequest, DriverEnd
<1>11. UNCHANGED vars => UNCHANGED <<status, drv, req>>
  BY DEF vars, book
<1> QED
  BY <1>1, <1>2, <1>3, <1>4, <1>5, <1>6, <1>7, <1>8, <1>9, <1>10, <1>11, ZenonT(30)
  DEF Next, RequestStep

\* In an engine whose handlers are not dropped and whose drivers do not panic, every
\* queued item has a driver or a handler that will start one, over crashes and failed
\* writes too.
THEOREM NoWakeupIsLost ==
  ASSUME {"drop", "panic"} \cap Faults = {}
  PROVE  Spec => []NoLostWakeup
<1>1. TypeOK /\ DriverInv /\ [Next]_vars => (TypeOK /\ DriverInv)'
  BY NextInv
<1>2. TypeOK /\ DriverInv /\ NoLostWakeup /\ [Next]_vars => NoLostWakeup'
  BY NextAwake
<1>3. Init => NoLostWakeup
  BY SMTT(30) DEF Init, NoLostWakeup
<1> QED BY <1>1, <1>2, <1>3, InitInv, PTL DEF Spec
-----------------------------------------------------------------------------
(* The newest list is the one in the file *)

\* a change in memory that has no snapshot yet
SavesToCome ==
  \/ \E r \in Requests : req[r].pc = "save"
  \/ \E c \in Consoles : drv[c].pc \in {"saveRun", "saveJob", "saveEnd"}

\* a list in the file or on its way there says what the book does
Matches(d) ==
  /\ d.line = line
  /\ \A i \in Items : \/ d.status[i] = status[i]
                      \/ {d.status[i], status[i]} \subseteq {"new", "gone"}

\* no snapshot is numbered above the last one taken
GenerationsBelow == \A s \in pending : s.gen <= generation

\* what says what the book does when no change waits for its snapshot: the file, or
\* the newest snapshot if that is still under way
NewestMatches ==
  HasFile /\ ~SavesToCome =>
    /\ generation = 0 => Matches(disk)
    /\ generation > 0 => \A s \in pending : s.gen = generation => Matches(s)

FileInv == GenerationsBelow /\ NewestMatches

\* a step that touches neither the list nor the file
LEMMA FileAtRest ==
  ASSUME FileInv, UNCHANGED <<line, status, file>>, SavesToCome => SavesToCome'
  PROVE  FileInv'
<1>1. UNCHANGED <<generation, disk, pending>>
  BY DEF file
<1>2. GenerationsBelow'
  BY <1>1 DEF FileInv, GenerationsBelow
<1>3. \A d : Matches(d) <=> Matches(d)'
  BY DEF Matches
<1>4. NewestMatches'
  BY <1>1, <1>3 DEF FileInv, NewestMatches
<1> QED BY <1>2, <1>4 DEF FileInv

\* a step after which a change waits for its snapshot
LEMMA FileBehind ==
  ASSUME FileInv, UNCHANGED file, SavesToCome'
  PROVE  FileInv'
<1>1. GenerationsBelow'
  BY DEF FileInv, GenerationsBelow, file
<1> QED BY <1>1 DEF FileInv, NewestMatches

\* a snapshot is the newest list
LEMMA SnapshotIsNewest ==
  ASSUME TypeOK, FileInv, NEW p, TakeSnapshot(p), UNCHANGED <<line, status>>
  PROVE  FileInv'
<1>1. CASE HasFile
  <2>0. PICK t : t = [by |-> p, gen |-> generation + 1, line |-> line, status |-> status]
    OBVIOUS
  <2>1. generation' = generation + 1 /\ pending' = pending \cup {t}
    BY <1>1, <2>0 DEF TakeSnapshot
  <2>2. t.gen = generation + 1 /\ t.line = line /\ t.status = status
    BY <2>0
  <2>3. generation \in Nat /\ \A s \in pending : s.gen \in Nat /\ s.gen <= generation
    BY SMTT(30) DEF FileInv, GenerationsBelow, TypeOK, Snapshots
  <2>4. GenerationsBelow'
    BY <2>1, <2>2, <2>3 DEF GenerationsBelow
  <2>5. Matches(t)'
    BY <2>2 DEF Matches
  <2>6. \A s \in pending' : s.gen = generation' => s = t
    BY <2>1, <2>3
  <2>7. generation' > 0
    BY <2>1, <2>3
  <2> QED BY <2>3, <2>4, <2>5, <2>6, <2>7, <2>1 DEF FileInv, NewestMatches
<1>2. CASE ~HasFile
  <2>1. GenerationsBelow'
    BY <1>2 DEF TakeSnapshot, file, FileInv, GenerationsBelow
  <2> QED BY <1>2, <2>1 DEF FileInv, NewestMatches
<1> QED BY <1>1, <1>2

\* what the numbers of generations become when one of them has landed
LEMMA SinceLanded ==
  ASSUME NEW g \in Nat, NEW h \in Nat, NEW landed \in Nat, g <= h, landed <= h
  PROVE  /\ Since(g, landed) \in Nat /\ Since(h, landed) \in Nat
         /\ Since(g, landed) <= Since(h, landed)
         /\ Since(h, landed) = 0 <=> landed = h
         /\ Since(h, landed) > 0 /\ Since(g, landed) = Since(h, landed) => g = h
         /\ Since(g, landed) > 0 <=> g > landed
BY DEF Since

\* A snapshot that is written, in whatever order, leaves the newest one in the file
\* or under way.
LEMMA WriteKeepsNewest ==
  ASSUME TypeOK, FileInv, NEW s \in pending, WriteSnapshot(s) \/ WriteFails(s)
  PROVE  FileInv'
<1>0. UNCHANGED <<line, status, req, drv>>
  BY DEF WriteSnapshot, WriteFails, book
<1>1. /\ generation \in Nat
      /\ \A t \in pending : t \in Snapshots /\ t.gen \in Nat /\ t.gen <= generation
  BY ZenonT(60) DEF FileInv, GenerationsBelow, TypeOK, Snapshots
<1>2. SavesToCome <=> SavesToCome'
  BY <1>0 DEF SavesToCome
<1>3. \A d : Matches(d) <=> Matches(d)'
  BY <1>0 DEF Matches
<1>4. CASE UNCHANGED <<generation, disk>> /\ pending' \subseteq pending
  <2>1. GenerationsBelow'
    BY <1>4 DEF FileInv, GenerationsBelow
  <2> QED BY <1>2, <1>3, <1>4, <2>1 DEF FileInv, NewestMatches
<1>5. CASE WriteSnapshot(s) /\ s.gen # 0
  <2>1. /\ pending' = {[t EXCEPT !.gen = Since(t.gen, s.gen)] : t \in pending \ {s}}
        /\ disk' = [line |-> s.line, status |-> s.status]
        /\ generation' = Since(generation, s.gen)
    BY <1>5 DEF WriteSnapshot
  <2>2. disk'.line = s.line /\ disk'.status = s.status
    BY <2>1
  <2>3. ASSUME NEW u \in pending'
        PROVE  \E t \in pending : /\ u.gen = Since(t.gen, s.gen)
                                  /\ u.line = t.line /\ u.status = t.status
    <3>1. PICK t \in pending \ {s} : u = [t EXCEPT !.gen = Since(t.gen, s.gen)]
      BY <2>1, <2>3
    <3>2. t \in Snapshots
      BY <1>1
    <3> HIDE DEF Since
    <3>3. u.gen = Since(t.gen, s.gen) /\ u.line = t.line /\ u.status = t.status
      BY <3>1, <3>2 DEF Snapshots
    <3> QED BY <3>3
  <2>4. GenerationsBelow'
    <3> SUFFICES ASSUME NEW u \in pending' PROVE u.gen <= generation'
      BY DEF GenerationsBelow
    <3>1. PICK t \in pending : u.gen = Since(t.gen, s.gen)
      BY <2>3
    <3> QED BY <1>1, <2>1, <3>1, SinceLanded
  <2>5. ASSUME HasFile, ~SavesToCome'
        PROVE  /\ generation' = 0 => Matches(disk)'
               /\ generation' > 0 => \A u \in pending' : u.gen = generation' => Matches(u)'
    <3>1. \A t \in pending : t.gen = generation => Matches(t)
      BY <1>1, <1>2, <1>5, <2>5 DEF FileInv, NewestMatches
    <3>2. ASSUME generation' = 0 PROVE Matches(disk)'
      <4>1. s.gen = generation
        BY <1>1, <2>1, <3>2 DEF Since
      <4>2. Matches(s)
        BY <3>1, <4>1
      <4> QED BY <1>0, <2>2, <4>2 DEF Matches
    <3>3. ASSUME generation' > 0, NEW u \in pending', u.gen = generation' PROVE Matches(u)'
      <4>1. PICK t \in pending : /\ u.gen = Since(t.gen, s.gen)
                                 /\ u.line = t.line /\ u.status = t.status
        BY <2>3
      <4>2. t.gen = generation
        BY <1>1, <2>1, <3>3, <4>1 DEF Since
      <4>3. Matches(t)
        BY <3>1, <4>2
      <4> QED BY <1>0, <4>1, <4>3 DEF Matches
    <3> QED BY <3>2, <3>3
  <2> QED BY <2>4, <2>5 DEF FileInv, NewestMatches
<1> QED BY <1>4, <1>5 DEF WriteSnapshot, WriteFails

\* A driver's step saves what it changed, or leaves the list and the file alone.
LEMMA DriverKeepsNewest ==
  ASSUME TypeOK, FileInv, NEW e \in Consoles, DriverStep(e)
  PROVE  FileInv'
<1>1. \A c \in Consoles : c # e => drv'[c] = drv[c]
  BY OneDriverMoves
<1>2. ASSUME drv[e].pc \notin {"saveRun", "saveJob", "saveEnd"}, UNCHANGED req
      PROVE  SavesToCome => SavesToCome'
  BY <1>1, <1>2 DEF SavesToCome
<1>3. CASE Moves(e)
  <2>1. UNCHANGED <<line, status, file, req>>
    BY <1>3 DEF Moves, Quiet
  <2>2. drv[e].pc \notin {"saveRun", "saveJob", "saveEnd"}
    BY <1>3 DEF Moves
  <2> QED BY <1>2, <2>1, <2>2, FileAtRest
<1>4. CASE CallRoute(e)
  <2>1. UNCHANGED <<line, status, file, req>> /\ drv[e].pc = "call"
    BY <1>4 DEF CallRoute, book
  <2> QED BY <1>2, <2>1, FileAtRest
<1>5. CASE DriverSaves(e)
  <2>1. TakeSnapshot(e) /\ UNCHANGED <<line, status>>
    BY <1>5 DEF DriverSaves, book
  <2> QED BY <2>1, SnapshotIsNewest
<1>6. CASE drv'[e].pc \in {"saveRun", "saveEnd"} /\ UNCHANGED file
  <2>1. SavesToCome'
    BY <1>6 DEF SavesToCome
  <2> QED BY <1>6, <2>1, FileBehind
<1>7. (Starts(e) \/ Requeues(e) \/ \E end \in Finished : Ends(e, end)) => UNCHANGED file
  BY DEF Starts, Requeues, Ends
<1> QED BY <1>3, <1>4, <1>5, <1>6, <1>7, DriverMove

\* DriverEnd saves what it changed at once, or has not changed anything
LEMMA DriverEndKeepsNewest ==
  ASSUME TypeOK, FileInv, NEW e \in Consoles, DriverEnd(e)
  PROVE  FileInv'
<1>1. /\ UNCHANGED <<line, req>> /\ drv' = [drv EXCEPT ![e] = NoDriver]
      /\ drv[e].pc \notin {"saveRun", "saveJob", "saveEnd"}
      /\ status' = [i \in Items |-> IF i \in Running(e) THEN "interrupted" ELSE status[i]]
      /\ IF Running(e) = {} THEN UNCHANGED file ELSE SaveNow(status')
  BY DEF DriverEnd
<1>2. CASE Running(e) = {}
  <2>1. status' = status /\ UNCHANGED file
    BY <1>1, <1>2 DEF TypeOK
  <2>2. SavesToCome => SavesToCome'
    BY <1>1 DEF SavesToCome, TypeOK
  <2> QED BY <1>1, <2>1, <2>2, FileAtRest
<1>3. CASE Running(e) # {}
  <2>0. generation \in Nat /\ \A s \in pending : s \in Snapshots /\ s.gen \in Nat /\ s.gen <= generation
    BY ZenonT(60) DEF FileInv, GenerationsBelow, TypeOK, Snapshots
  <2>1. SaveNow(status')
    BY <1>1, <1>3
  <2>2. CASE /\ disk' = [line |-> line, status |-> status'] /\ generation' = 0
             /\ pending' = {[t EXCEPT !.gen = 0] : t \in pending}
    <3>1. \A s \in pending' : s.gen = 0
      BY <2>0, <2>2 DEF Snapshots
    <3>2. GenerationsBelow'
      BY <2>2, <3>1 DEF GenerationsBelow
    <3>3. disk'.line = line' /\ disk'.status = status'
      BY <1>1, <2>2
    <3>4. Matches(disk)'
      BY <3>3 DEF Matches
    <3> QED BY <2>2, <3>2, <3>4 DEF FileInv, NewestMatches
  <2>3. CASE generation' = generation + 1 /\ UNCHANGED <<disk, pending>>
    <3>1. GenerationsBelow'
      BY <2>0, <2>3 DEF GenerationsBelow
    <3>2. generation' # 0 /\ \A s \in pending' : s.gen # generation'
      BY <2>0, <2>3
    <3> QED BY <3>1, <3>2 DEF FileInv, NewestMatches
  <2>4. CASE ~HasFile /\ UNCHANGED file
    <3>1. GenerationsBelow'
      BY <2>4 DEF FileInv, GenerationsBelow, file
    <3> QED BY <2>4, <3>1 DEF FileInv, NewestMatches
  <2> QED BY <2>1, <2>2, <2>3, <2>4 DEF SaveNow
<1> QED BY <1>2, <1>3

\* after a restart the book is what the file says, or the file is known to be behind
LEMMA RestartMatches ==
  ASSUME TypeOK, NEW saved \in BOOLEAN, Restart(saved)
  PROVE  FileInv'
<1> DEFINE onDisk == {i \in Items : disk.status[i] \notin {"new", "gone"}}
           after == AfterRestart(disk.line, disk.status)
           changed == \E i \in onDisk : after[i] # disk.status[i]
           new == [i \in Items |-> IF i \in onDisk THEN after[i]
                                   ELSE IF status[i] = "new" THEN "new" ELSE "gone"]
<1>1. /\ line' = disk.line /\ status' = new /\ pending' = {}
      /\ generation' = IF changed /\ ~saved THEN 1 ELSE 0
      /\ disk' = IF changed /\ saved THEN [line |-> disk.line, status |-> new] ELSE disk
  BY ZenonT(60) DEF Restart
<1>2. GenerationsBelow'
  BY <1>1 DEF GenerationsBelow
<1>3. CASE changed /\ ~saved
  BY <1>1, <1>2, <1>3 DEF FileInv, NewestMatches
<1>4. CASE changed /\ saved
  <2>1. disk' = [line |-> disk.line, status |-> status']
    BY <1>1, <1>4
  <2>2. disk'.line = line' /\ disk'.status = status'
    BY <1>1, <2>1
  <2>3. Matches(disk)'
    BY <2>2 DEF Matches
  <2> QED BY <1>1, <1>2, <2>3 DEF FileInv, NewestMatches
<1>5. CASE ~changed
  <2>1. disk' = disk
    BY <1>1, <1>5
  <2>2. ASSUME NEW i \in Items
        PROVE  \/ disk.status[i] = status'[i]
               \/ {disk.status[i], status'[i]} \subseteq {"new", "gone"}
    <3>1. status'[i] = IF i \in onDisk THEN after[i]
                       ELSE IF status[i] = "new" THEN "new" ELSE "gone"
      BY <1>1
    <3>2. i \in onDisk => after[i] = disk.status[i]
      BY <1>5
    <3> HIDE DEF after
    <3> QED BY <3>1, <3>2
  <2>3. Matches(disk)'
    BY <1>1, <2>1, <2>2 DEF Matches
  <2>4. generation' = 0
    BY <1>1, <1>5
  <2> QED BY <1>2, <2>3, <2>4 DEF FileInv, NewestMatches
<1> QED BY <1>3, <1>4, <1>5

\* The newest list is in the file, under way or still to be snapshot after every step.
LEMMA NextFile ==
  ASSUME TypeOK, DriverInv, FileInv, [Next]_vars
  PROVE  FileInv'
<1>1. ASSUME UNCHANGED <<line, status, file, req, drv>>
      PROVE  FileInv'
  <2>1. SavesToCome => SavesToCome'
    BY <1>1 DEF SavesToCome
  <2> QED BY <1>1, <2>1, FileAtRest
<1>2. ASSUME NEW r \in Requests, RequestSaves(r)
      PROVE  FileInv'
  <2>1. TakeSnapshot(r) /\ UNCHANGED <<line, status>>
    BY <1>2 DEF RequestSaves, book
  <2> QED BY <2>1, SnapshotIsNewest
<1>3. ASSUME NEW r \in Requests, Answer(r) \/ DropRequest(r)
      PROVE  FileInv'
  <2>1. /\ UNCHANGED <<line, status, file>> /\ req[r].pc = "wait"
        /\ req' = [req EXCEPT ![r] = Idle]
    BY <1>3 DEF Answer, DropRequest, book
  <2>2. req[r].console \in Consoles
    BY DEF TypeOK, Handlers
  <2>3. \A c \in Consoles : drv[c].pc # "none" => drv'[c] = drv[c]
    BY <1>3, <2>2 DEF Answer, DropRequest, Kick, TypeOK, DriverInv, DriversRegistered
  <2>4. SavesToCome => SavesToCome'
    BY <2>1, <2>3 DEF SavesToCome, TypeOK
  <2> QED BY <2>1, <2>4, FileAtRest
<1>4. ASSUME NEW r \in Requests, NEW i \in Items, Changes(r, i)
      PROVE  FileInv'
  <2>1. PICK kick \in BOOLEAN : Accept(r, i, kick)
    BY <1>4, HandlerEffect
  <2>2. /\ UNCHANGED file
        /\ req' = [req EXCEPT ![r] = [pc |-> "save", console |-> ConsoleOf[i], kick |-> kick]]
    BY <2>1, ZenonT(30) DEF Accept
  <2>3. req'[r].pc = "save"
    BY <2>2 DEF TypeOK
  <2>4. SavesToCome'
    BY <2>3 DEF SavesToCome
  <2> QED BY <2>2, <2>4, FileBehind
<1>5. ASSUME ClientStep
      PROVE  \/ \E r \in Requests, i \in Items : Changes(r, i)
             \/ UNCHANGED <<line, status, file, req, drv>>
  BY <1>5, ZenonT(30) DEF ClientStep, Changes, CancelItem, Hold, Release
<1>6. ASSUME Surroundings \/ UNCHANGED vars
      PROVE  UNCHANGED <<line, status, file, req, drv>>
  BY <1>6 DEF Surroundings, Settle, JobEnds, ObstacleComes, ObstacleGoes, book, vars
<1>7. CASE FaultStep
  BY <1>3, <1>7, WriteKeepsNewest, DriverEndKeepsNewest, RestartMatches, ZenonT(30) DEF FaultStep
<1> QED
  BY <1>1, <1>2, <1>3, <1>4, <1>5, <1>6, <1>7, DriverKeepsNewest, WriteKeepsNewest, ZenonT(30)
  DEF Next, RequestStep

\* the file as the engine first starts
LEMMA InitFile == Init => FileInv
<1> SUFFICES ASSUME Init PROVE FileInv
  OBVIOUS
<1>1. /\ pending = {} /\ line = <<>> /\ status = [i \in Items |-> "new"]
      /\ disk = [line |-> <<>>, status |-> [i \in Items |-> "new"]]
  BY DEF Init
<1>2. disk.line = line /\ disk.status = status
  BY <1>1
<1> QED BY <1>1, <1>2 DEF FileInv, GenerationsBelow, NewestMatches, Matches

\* Saves that overtake each other, fail or are cut off by a crash never leave an older
\* list in the file: with no save under way and the last one not failed, the file
\* lists what the book does.
THEOREM FileIsCurrent == Spec => []FileMatchesBook
<1>1. TypeOK /\ DriverInv /\ [Next]_vars => (TypeOK /\ DriverInv)'
  BY NextInv
<1>2. TypeOK /\ DriverInv /\ FileInv /\ [Next]_vars => FileInv'
  BY NextFile
<1>3. ASSUME FileInv PROVE FileMatchesBook
  <2> SUFFICES ASSUME HasFile, Saved, generation = 0
               PROVE  /\ disk.line = line
                      /\ [i \in Items |-> IF disk.status[i] = "new" THEN "gone" ELSE disk.status[i]]
                          = [i \in Items |-> IF status[i] = "new" THEN "gone" ELSE status[i]]
    BY DEF FileMatchesBook
  <2>1. Matches(disk)
    BY <1>3 DEF FileInv, NewestMatches, SavesToCome, Saved
  <2> QED BY <2>1 DEF Matches
<1> QED BY <1>1, <1>2, <1>3, InitInv, InitFile, PTL DEF Spec
-----------------------------------------------------------------------------
(* Over a crash: what was called is not in line again *)

\* an engine without a data folder has nothing to read back
NoFileNoItems ==
  ~HasFile => pending = {} /\ \A i \in Items : disk.status[i] = "new"

\* the file says that i runs, and so does every snapshot that can still replace it
SavedRunning(i) ==
  /\ disk.status[i] = "running"
  /\ \A s \in pending : s.gen > 0 => s.status[i] = "running"

\* the driver of c awaits a save from which on every snapshot says that i runs
SavingRunning(c, i) ==
  \E s \in pending :
    /\ s.by = c /\ s.gen > 0
    /\ \A t \in pending : t.gen >= s.gen => t.status[i] = "running"

\* what the file says is in line, now or after a write, may run
QueuedMayRun ==
  /\ \A i \in Items : disk.status[i] = "queued" => i \in mayRun
  /\ \A s \in pending, i \in Items : s.gen > 0 /\ s.status[i] = "queued" => i \in mayRun

\* a driver about to call a route awaits the save that says running, if it has not
\* landed
CallIsSaved ==
  HasFile => \A c \in Consoles : drv[c].pc = "call" =>
    SavedRunning(drv[c].item) \/ SavingRunning(c, drv[c].item)

\* an item whose route was called is saved as running until its run has ended
CalledIsSaved ==
  HasFile => \A i \in Items \ mayRun : status[i] = "running" => SavedRunning(i)

\* the inductive invariant of NeverRunsAgainByItself
RunsInv ==
  NoFileNoItems /\ NeverRunsAgainByItself /\ QueuedMayRun /\ CallIsSaved /\ CalledIsSaved

\* what the proofs below know of the pending snapshots
LEMMA PendingType ==
  ASSUME TypeOK
  PROVE  /\ generation \in Nat
         /\ \A s \in pending : s \in Snapshots /\ s.gen \in Nat
BY ZenonT(60) DEF TypeOK, Snapshots

\* steps that touch neither file nor snapshots
LEMMA RunsAtRest ==
  ASSUME RunsInv, UNCHANGED file, mayRun \subseteq mayRun',
         \A i \in Items : status'[i] = "queued" => i \in mayRun',
         \A i \in Items \ mayRun' : status'[i] = "running" => status[i] = "running",
         \A c \in Consoles : drv'[c].pc = "call" =>
           drv[c].pc = "call" /\ drv'[c].item = drv[c].item
  PROVE  RunsInv'
<1>1. UNCHANGED <<generation, disk, pending>>
  BY DEF file
<1>2. \A i : SavedRunning(i)' <=> SavedRunning(i)
  BY <1>1 DEF SavedRunning
<1>3. \A c, i : SavingRunning(c, i)' <=> SavingRunning(c, i)
  BY <1>1 DEF SavingRunning
<1>4. NoFileNoItems' /\ NeverRunsAgainByItself' /\ QueuedMayRun'
  BY <1>1 DEF RunsInv, NoFileNoItems, NeverRunsAgainByItself, QueuedMayRun
<1>5. CallIsSaved'
  BY <1>2, <1>3 DEF RunsInv, CallIsSaved
<1>6. CalledIsSaved'
  BY <1>2 DEF RunsInv, CalledIsSaved
<1> QED BY <1>4, <1>5, <1>6 DEF RunsInv

\* The call of a route: the save it awaited has landed, so no list that says queued
\* can come back.
LEMMA CallKeepsRuns ==
  ASSUME TypeOK, DriverInv, FollowedRuns, RunsInv, NEW e \in Consoles, CallRoute(e),
         drv'[e].pc = "answer", \A c \in Consoles \ {e} : drv'[c] = drv[c]
  PROVE  RunsInv'
<1> DEFINE j == drv[e].item
<1>0. /\ drv[e].pc = "call" /\ Landed(e) /\ mayRun' = mayRun \ {j}
      /\ UNCHANGED <<status, generation, disk, pending>>
  BY DEF CallRoute, book, file
<1>1. j \in Items /\ status[j] = "running"
  BY <1>0 DEF DriverInv, DriverHasItem, FollowedRuns, Following
<1>2. HasFile => SavedRunning(j)
  BY <1>0 DEF RunsInv, CallIsSaved, SavingRunning, Landed
<1>3. \A i : SavedRunning(i)' <=> SavedRunning(i)
  BY <1>0 DEF SavedRunning
<1>4. \A c, i : SavingRunning(c, i)' <=> SavingRunning(c, i)
  BY <1>0 DEF SavingRunning
<1>5. NoFileNoItems' /\ NeverRunsAgainByItself'
  BY <1>0, <1>1 DEF RunsInv, NoFileNoItems, NeverRunsAgainByItself
<1>6. QueuedMayRun'
  BY <1>0, <1>1, <1>2 DEF RunsInv, QueuedMayRun, SavedRunning, NoFileNoItems
<1>7. CallIsSaved'
  BY <1>3, <1>4 DEF RunsInv, CallIsSaved
<1>8. CalledIsSaved'
  BY <1>0, <1>2, <1>3 DEF RunsInv, CalledIsSaved
<1> QED BY <1>5, <1>6, <1>7, <1>8 DEF RunsInv

\* A snapshot says running of every item that is followed, and the one a driver takes
\* before a call is the newest.
LEMMA SnapshotKeepsRuns ==
  ASSUME TypeOK, FollowedRuns, GenerationsBelow, RunsInv, NEW p, TakeSnapshot(p),
         UNCHANGED <<status, mayRun>>,
         \A c \in Consoles : drv'[c].pc = "call" =>
           /\ drv'[c].item = drv[c].item
           /\ drv[c].pc = "call" \/ (drv[c].pc = "saveRun" /\ p = c)
  PROVE  RunsInv'
<1>1. CASE ~HasFile
  BY <1>1 DEF TakeSnapshot, file, RunsInv, NoFileNoItems, NeverRunsAgainByItself, QueuedMayRun,
     CallIsSaved, CalledIsSaved
<1>2. CASE HasFile
  <2>0. PICK n : n = [by |-> p, gen |-> generation + 1, line |-> line, status |-> status]
    OBVIOUS
  <2>1. pending' = pending \cup {n} /\ UNCHANGED disk
    BY <1>2, <2>0 DEF TakeSnapshot
  <2>2. n.by = p /\ n.gen = generation + 1 /\ n.status = status
    BY <2>0
  <2>3. generation \in Nat /\ \A s \in pending : s.gen \in Nat /\ s.gen <= generation
    BY PendingType DEF GenerationsBelow
  <2>4. \A i : status[i] = "running" /\ SavedRunning(i) => SavedRunning(i)'
    BY <2>1, <2>2 DEF SavedRunning
  <2>5. \A c, i : status[i] = "running" /\ SavingRunning(c, i) => SavingRunning(c, i)'
    BY <2>1, <2>2 DEF SavingRunning
  <2>6. ASSUME NEW i, status[i] = "running" PROVE SavingRunning(p, i)'
    <3>1. n \in pending' /\ n.gen > 0 /\ \A t \in pending' : t.gen >= n.gen => t.status[i] = "running"
      BY <2>1, <2>2, <2>3, <2>6
    <3> QED BY <2>2, <3>1 DEF SavingRunning
  <2>7. NoFileNoItems' /\ NeverRunsAgainByItself'
    BY <1>2 DEF RunsInv, NoFileNoItems, NeverRunsAgainByItself
  <2>8. QueuedMayRun'
    BY <2>1, <2>2 DEF RunsInv, QueuedMayRun, NeverRunsAgainByItself
  <2>9. CallIsSaved'
    <3> SUFFICES ASSUME NEW c \in Consoles, drv'[c].pc = "call"
                 PROVE  SavedRunning(drv[c].item)' \/ SavingRunning(c, drv[c].item)'
      BY DEF CallIsSaved
    <3>1. PICK i : i = drv[c].item
      OBVIOUS
    <3>2. status[i] = "running"
      BY <3>1 DEF FollowedRuns, Following
    <3>3. CASE drv[c].pc = "call"
      <4>1. SavedRunning(i) \/ SavingRunning(c, i)
        BY <1>2, <3>1, <3>3 DEF RunsInv, CallIsSaved
      <4> QED BY <2>4, <2>5, <3>1, <3>2, <4>1
    <3>4. CASE p = c
      BY <2>6, <3>1, <3>2, <3>4
    <3> QED BY <3>3, <3>4
  <2>10. CalledIsSaved'
    BY <2>4 DEF RunsInv, CalledIsSaved
  <2> QED BY <2>7, <2>8, <2>9, <2>10 DEF RunsInv
<1> QED BY <1>1, <1>2

\* A write puts a list into the file that says running of what was called, and leaves
\* under way only newer ones.
LEMMA WriteKeepsRuns ==
  ASSUME TypeOK, RunsInv, NEW s \in pending, WriteSnapshot(s)
  PROVE  RunsInv'
<1>0. UNCHANGED <<status, drv, mayRun>> /\ HasFile
  BY DEF WriteSnapshot, book, RunsInv, NoFileNoItems
<1>1. s \in Snapshots /\ s.gen \in Nat /\ \A t \in pending : t \in Snapshots /\ t.gen \in Nat
  BY PendingType
<1>2. NoFileNoItems' /\ NeverRunsAgainByItself'
  BY <1>0 DEF RunsInv, NoFileNoItems, NeverRunsAgainByItself
<1>3. CASE s.gen = 0
  <2>1. pending' = pending \ {s} /\ UNCHANGED disk
    BY <1>3 DEF WriteSnapshot
  <2>2. \A i : SavedRunning(i) => SavedRunning(i)'
    BY <2>1 DEF SavedRunning
  <2>3. \A c, i : SavingRunning(c, i) => SavingRunning(c, i)'
    BY <1>3, <2>1, SMTT(60) DEF SavingRunning
  <2>4. QueuedMayRun'
    BY <1>0, <2>1 DEF RunsInv, QueuedMayRun
  <2>5. CallIsSaved' /\ CalledIsSaved'
    BY <1>0, <2>2, <2>3 DEF RunsInv, CallIsSaved, CalledIsSaved
  <2> QED BY <1>2, <2>4, <2>5 DEF RunsInv
<1>4. CASE s.gen # 0
  <2>1. /\ pending' = {[t EXCEPT !.gen = Since(t.gen, s.gen)] : t \in pending \ {s}}
        /\ disk' = [line |-> s.line, status |-> s.status]
    BY <1>4 DEF WriteSnapshot
  <2>2. disk'.status = s.status
    BY <2>1
  <2>a. ASSUME NEW t \in pending
        PROVE  LET u == [t EXCEPT !.gen = Since(t.gen, s.gen)]
               IN  u.gen = Since(t.gen, s.gen) /\ u.by = t.by /\ u.status = t.status
    BY <1>1 DEF Snapshots
  <2>3. ASSUME NEW u \in pending', u.gen > 0
        PROVE  \E t \in pending : t.gen > s.gen /\ u.gen = t.gen - s.gen /\ u.status = t.status
    <3>1. PICK t \in pending \ {s} : u = [t EXCEPT !.gen = Since(t.gen, s.gen)]
      BY <2>1, <2>3
    <3>2. u.gen = Since(t.gen, s.gen) /\ u.status = t.status
      BY <2>a, <3>1
    <3> QED BY <1>1, <2>3, <3>2 DEF Since
  <2>4. ASSUME NEW i, SavedRunning(i) PROVE SavedRunning(i)'
    BY <1>1, <1>4, <2>2, <2>3, <2>4, SMTT(60) DEF SavedRunning
  <2>5. ASSUME NEW c, NEW i, SavingRunning(c, i)
        PROVE  SavedRunning(i)' \/ SavingRunning(c, i)'
    <3>1. PICK w \in pending : /\ w.by = c /\ w.gen > 0
                               /\ \A t \in pending : t.gen >= w.gen => t.status[i] = "running"
      BY <2>5 DEF SavingRunning
    <3>2. CASE s.gen >= w.gen
      <4>1. disk'.status[i] = "running"
        BY <2>2, <3>1, <3>2
      <4>2. \A u \in pending' : u.gen > 0 => u.status[i] = "running"
        BY <1>1, <2>3, <3>1, <3>2
      <4> QED BY <4>1, <4>2 DEF SavedRunning
    <3>3. CASE s.gen < w.gen
      <4>1. PICK v : v = [w EXCEPT !.gen = Since(w.gen, s.gen)]
        OBVIOUS
      <4>2. v \in pending'
        <5>1. w \in pending \ {s}
          BY <1>1, <3>3
        <5> QED BY <2>1, <4>1, <5>1, ZenonT(30)
      <4>3. v.by = c /\ v.gen = w.gen - s.gen
        BY <1>1, <2>a, <3>1, <3>3, <4>1 DEF Since
      <4>4. v.gen > 0
        BY <1>1, <3>3, <4>3
      <4>5. ASSUME NEW u \in pending', u.gen >= v.gen PROVE u.status[i] = "running"
        <5>1. PICK t \in pending \ {s} : u = [t EXCEPT !.gen = Since(t.gen, s.gen)]
          BY <2>1, <4>5
        <5>2. u.gen = Since(t.gen, s.gen) /\ u.status = t.status
          BY <2>a, <5>1
        <5>3. t.gen >= w.gen
          BY <1>1, <3>3, <4>3, <4>5, <5>2 DEF Since
        <5> QED BY <3>1, <5>2, <5>3
      <4> QED BY <4>2, <4>3, <4>4, <4>5 DEF SavingRunning
    <3> QED BY <1>1, <3>2, <3>3
  <2>6. QueuedMayRun'
    <3>1. \A i \in Items : disk'.status[i] = "queued" => i \in mayRun'
      BY <1>0, <1>1, <1>4, <2>2 DEF RunsInv, QueuedMayRun
    <3>2. ASSUME NEW u \in pending', NEW i \in Items, u.gen > 0, u.status[i] = "queued"
          PROVE  i \in mayRun'
      <4>1. PICK t \in pending : t.gen > s.gen /\ u.status = t.status
        BY <2>3, <3>2
      <4> QED BY <1>0, <1>1, <3>2, <4>1 DEF RunsInv, QueuedMayRun
    <3> QED BY <3>1, <3>2 DEF QueuedMayRun
  <2>7. CallIsSaved'
    <3> SUFFICES ASSUME NEW c \in Consoles, drv[c].pc = "call", NEW i, i = drv[c].item
                 PROVE  SavedRunning(i)' \/ SavingRunning(c, i)'
      BY <1>0 DEF CallIsSaved
    <3>1. SavedRunning(i) \/ SavingRunning(c, i)
      BY <1>0 DEF RunsInv, CallIsSaved
    <3> QED BY <2>4, <2>5, <3>1
  <2>8. CalledIsSaved'
    BY <1>0, <2>4 DEF RunsInv, CalledIsSaved
  <2> QED BY <1>2, <2>6, <2>7, <2>8 DEF RunsInv
<1> QED BY <1>3, <1>4

\* DriverEnd saves at once; what other drivers run stays running in what it saves
LEMMA DriverEndKeepsRuns ==
  ASSUME TypeOK, DriverInv, FollowedRuns, RunsInv, "write" \notin Faults,
         NEW e \in Consoles, DriverEnd(e)
  PROVE  RunsInv'
<1>1. /\ UNCHANGED mayRun /\ drv' = [drv EXCEPT ![e] = NoDriver]
      /\ status' = [i \in Items |-> IF i \in Running(e) THEN "interrupted" ELSE status[i]]
      /\ IF Running(e) = {} THEN UNCHANGED file ELSE SaveNow(status')
  BY DEF DriverEnd
<1>2. NoDriver.pc = "none"
  BY DEF NoDriver
<1>3. ASSUME NEW c \in Consoles, drv'[c].pc = "call"
      PROVE  c # e /\ drv[c].pc = "call" /\ drv'[c] = drv[c]
  BY <1>1, <1>2, <1>3 DEF TypeOK
<1>4. \A i \in Items : status'[i] \in {"queued", "running"} => status[i] = status'[i]
  BY <1>1
<1>5. CASE UNCHANGED file
  <2>1. \A i \in Items : status'[i] = "queued" => i \in mayRun'
    BY <1>1, <1>4 DEF RunsInv, NeverRunsAgainByItself
  <2>2. \A i \in Items \ mayRun' : status'[i] = "running" => status[i] = "running"
    BY <1>4
  <2>3. \A c \in Consoles : drv'[c].pc = "call" => drv[c].pc = "call" /\ drv'[c].item = drv[c].item
    BY <1>3
  <2> QED BY <1>1, <1>5, <2>1, <2>2, <2>3, RunsAtRest
<1>6. CASE /\ HasFile /\ disk' = [line |-> line, status |-> status']
           /\ pending' = {[t EXCEPT !.gen = 0] : t \in pending}
  <2>1. \A u \in pending' : u.gen = 0
    BY <1>6, PendingType DEF Snapshots
  <2>2. disk'.status = status'
    BY <1>6
  <2>3. \A i : SavedRunning(i)' <=> status'[i] = "running"
    BY <2>1, <2>2 DEF SavedRunning
  <2>4. NoFileNoItems' /\ NeverRunsAgainByItself'
    BY <1>1, <1>4, <1>6 DEF RunsInv, NoFileNoItems, NeverRunsAgainByItself
  <2>5. QueuedMayRun'
    BY <1>1, <1>4, <2>1, <2>2, SMTT(60) DEF RunsInv, QueuedMayRun, NeverRunsAgainByItself
  <2>6. CallIsSaved'
    <3> SUFFICES ASSUME NEW c \in Consoles, drv'[c].pc = "call"
                 PROVE  SavedRunning(drv[c].item)'
      BY DEF CallIsSaved
    <3>1. PICK i : i = drv[c].item
      OBVIOUS
    <3>2. i \in Items /\ ConsoleOf[i] = c /\ status[i] = "running" /\ c # e /\ drv'[c].item = i
      BY <1>3, <3>1 DEF DriverInv, DriverHasItem, FollowedRuns, Following
    <3>3. status'[i] = "running"
      BY <1>1, <3>2 DEF Running, On
    <3> QED BY <2>3, <3>2, <3>3
  <2>7. CalledIsSaved'
    BY <2>3 DEF CalledIsSaved
  <2> QED BY <2>4, <2>5, <2>6, <2>7 DEF RunsInv
<1> QED BY <1>1, <1>5, <1>6 DEF SaveNow

\* A restart puts in line only what the file had in line.
LEMMA RestartKeepsRuns ==
  ASSUME TypeOK, RunsInv, NEW saved \in BOOLEAN, Restart(saved)
  PROVE  RunsInv'
<1> DEFINE onDisk == {i \in Items : disk.status[i] \notin {"new", "gone"}}
           after == AfterRestart(disk.line, disk.status)
<1>1. /\ pending' = {} /\ UNCHANGED mayRun
      /\ \A i \in Items : status'[i] = IF i \in onDisk THEN after[i]
                                       ELSE IF status[i] = "new" THEN "new" ELSE "gone"
      /\ \/ disk' = disk
         \/ disk' = [line |-> disk.line, status |-> status'] /\ onDisk # {}
  <2>1. \/ disk' = disk
        \/ disk' = [line |-> disk.line, status |-> status'] /\ onDisk # {}
    BY ZenonT(60) DEF Restart
  <2> QED BY <2>1, RestartIs
<1>2. /\ \A i \in Items : after[i] # "running"
      /\ \A i \in Items : after[i] = "queued" => disk.status[i] = "queued"
  BY RestartIs
<1> HIDE DEF after
<1>3. \A i \in Items : /\ status'[i] # "running"
                       /\ status'[i] = "queued" => disk.status[i] = "queued"
  BY <1>1, <1>2
<1>4. \A c \in Consoles : drv'[c].pc # "call"
  <2>1. Looking.pc = "look" /\ NoDriver.pc = "none"
    BY DEF Looking, NoDriver
  <2> QED BY <2>1, ZenonT(30) DEF Restart
<1>5. NoFileNoItems'
  BY <1>1 DEF RunsInv, NoFileNoItems
<1>6. NeverRunsAgainByItself'
  BY <1>1, <1>3 DEF RunsInv, QueuedMayRun, NeverRunsAgainByItself
<1>7. QueuedMayRun'
  <2>1. CASE disk' = disk
    BY <1>1, <2>1 DEF RunsInv, QueuedMayRun
  <2>2. CASE disk' = [line |-> disk.line, status |-> status']
    <3>1. disk'.status = status'
      BY <2>2
    <3> QED BY <1>1, <1>3, <3>1 DEF RunsInv, QueuedMayRun
  <2> QED BY <1>1, <2>1, <2>2
<1>8. CallIsSaved'
  BY <1>4 DEF CallIsSaved
<1>9. CalledIsSaved'
  BY <1>3 DEF CalledIsSaved
<1> QED BY <1>5, <1>6, <1>7, <1>8, <1>9 DEF RunsInv

\* A driver's step keeps the invariant.
LEMMA DriverKeepsRuns ==
  ASSUME TypeOK, DriverInv, FollowedRuns, GenerationsBelow, RunsInv,
         NEW e \in Consoles, DriverStep(e)
  PROVE  RunsInv'
<1>1. \A c \in Consoles \ {e} : drv'[c] = drv[c]
  BY OneDriverMoves
<1>2. ASSUME UNCHANGED file, mayRun \subseteq mayRun', drv'[e].pc # "call",
             \A i \in Items : status'[i] = "queued" => i \in mayRun',
             \A i \in Items \ mayRun' : status'[i] = "running" => status[i] = "running"
      PROVE  RunsInv'
  <2>1. \A c \in Consoles : drv'[c].pc = "call" => drv[c].pc = "call" /\ drv'[c].item = drv[c].item
    BY <1>1, <1>2
  <2> QED BY <1>2, <2>1, RunsAtRest
<1>3. CASE Moves(e)
  <2>1. UNCHANGED <<file, mayRun, status>> /\ drv'[e].pc # "call"
    BY <1>3 DEF Moves, Quiet
  <2> QED BY <1>2, <2>1 DEF RunsInv, NeverRunsAgainByItself
<1>4. CASE Starts(e) /\ drv'[e].pc = "saveRun"
  <2>1. /\ UNCHANGED <<file, mayRun>> /\ drv[e].item \in Items /\ status[drv[e].item] = "queued"
        /\ status' = [status EXCEPT ![drv[e].item] = "running"]
    BY <1>4 DEF Starts, StartItem, StillHead, IsHead, Queued, On
  <2> QED BY <1>2, <1>4, <2>1 DEF RunsInv, NeverRunsAgainByItself, TypeOK
<1>5. CASE Requeues(e) /\ drv'[e].pc = "saveEnd"
  <2>1. /\ UNCHANGED file /\ mayRun' = mayRun \cup {drv[e].item}
        /\ status' = [status EXCEPT ![drv[e].item] = "queued"]
    BY <1>5 DEF Requeues, Requeue
  <2> QED BY <1>2, <1>5, <2>1 DEF RunsInv, NeverRunsAgainByItself, TypeOK
<1>6. ASSUME NEW end \in Finished, Ends(e, end), drv'[e].pc = "saveEnd"
      PROVE  RunsInv'
  <2>1. UNCHANGED <<file, mayRun>>
    BY <1>6 DEF Ends
  <2>2. \A i \in Items : status'[i] \in {"queued", "running"} => status[i] = status'[i]
    BY <1>6, FinishEffect DEF Ends
  <2> QED BY <1>2, <1>6, <2>1, <2>2 DEF RunsInv, NeverRunsAgainByItself
<1>7. CASE /\ DriverSaves(e) /\ drv'[e].item = drv[e].item
           /\ <<drv[e].pc, drv'[e].pc>> \in
                {<<"saveRun", "call">>, <<"saveJob", "follow">>, <<"saveEnd", "look">>}
  <2>1. TakeSnapshot(e) /\ UNCHANGED <<status, mayRun>>
    BY <1>7 DEF DriverSaves, book
  <2>2. \A c \in Consoles : drv'[c].pc = "call" =>
           /\ drv'[c].item = drv[c].item
           /\ drv[c].pc = "call" \/ (drv[c].pc = "saveRun" /\ e = c)
    BY <1>1, <1>7
  <2> QED BY <2>1, <2>2, SnapshotKeepsRuns
<1>8. CASE CallRoute(e) /\ drv'[e].pc = "answer"
  BY <1>1, <1>8, CallKeepsRuns
<1> QED BY <1>3, <1>4, <1>5, <1>6, <1>7, <1>8, DriverMove

\* Every step of an engine whose file can be written keeps the invariant.
LEMMA NextRuns ==
  ASSUME "write" \notin Faults, TypeOK, DriverInv, FollowedRuns, GenerationsBelow, RunsInv,
         [Next]_vars
  PROVE  RunsInv'
<1>1. ASSUME UNCHANGED <<file, drv, status, mayRun>>
      PROVE  RunsInv'
  BY <1>1, RunsAtRest DEF RunsInv, NeverRunsAgainByItself
<1>2. ASSUME NEW r \in Requests, RequestSaves(r)
      PROVE  RunsInv'
  <2>1. TakeSnapshot(r) /\ UNCHANGED <<status, mayRun, drv>>
    BY <1>2 DEF RequestSaves, book
  <2> QED BY <2>1, SnapshotKeepsRuns
<1>3. ASSUME NEW r \in Requests, Answer(r)
      PROVE  RunsInv'
  <2>1. UNCHANGED <<file, status, mayRun>>
    BY <1>3 DEF Answer
  <2>2. Looking.pc = "look" /\ req[r].console \in Consoles
    BY DEF Looking, NoDriver, TypeOK, Handlers
  <2>3. drv' = drv \/ \E e \in Consoles : drv' = [drv EXCEPT ![e] = Looking]
    BY <1>3, <2>2, ZenonT(30) DEF Answer, Kick
  <2>4. \A c \in Consoles : drv'[c].pc = "call" => drv[c].pc = "call" /\ drv'[c].item = drv[c].item
    BY <2>2, <2>3 DEF TypeOK
  <2> QED BY <2>1, <2>4, RunsAtRest DEF RunsInv, NeverRunsAgainByItself
<1>4. ASSUME NEW r \in Requests, NEW i \in Items, Changes(r, i)
      PROVE  RunsInv'
  <2>1. UNCHANGED <<file, drv>>
    BY <1>4, HandlerEffect DEF Accept
  <2>2. mayRun \subseteq mayRun' /\ \A j \in Items : status'[j] = "queued" => j \in mayRun'
    BY <1>4, HandlerEffect DEF RunsInv, NeverRunsAgainByItself
  <2>3. \A j \in Items : status'[j] = "running" => status[j] = "running"
    BY <1>4, HandlerEffect
  <2> QED BY <2>1, <2>2, <2>3, RunsAtRest
<1>5. ASSUME ClientStep
      PROVE  \/ \E r \in Requests, i \in Items : Changes(r, i)
             \/ UNCHANGED <<file, drv, status, mayRun>>
  BY <1>5, ZenonT(30) DEF ClientStep, Changes, CancelItem, Hold, Release
<1>6. ASSUME Surroundings \/ UNCHANGED vars \/ \E r \in Requests : DropRequest(r)
      PROVE  UNCHANGED <<file, drv, status, mayRun>>
  BY <1>6 DEF Surroundings, Settle, JobEnds, ObstacleComes, ObstacleGoes, DropRequest, book, vars
<1>7. ~\E s \in pending : WriteFails(s)
  BY DEF WriteFails
<1>8. CASE FaultStep
  BY <1>1, <1>6, <1>7, <1>8, DriverEndKeepsRuns, RestartKeepsRuns, ZenonT(30) DEF FaultStep
<1> QED
  BY <1>1, <1>2, <1>3, <1>4, <1>5, <1>6, <1>8, DriverKeepsRuns, WriteKeepsRuns, ZenonT(30)
  DEF Next, RequestStep

\* the runs as the engine starts
LEMMA InitRuns == Init => RunsInv
<1> SUFFICES ASSUME Init PROVE RunsInv
  OBVIOUS
<1>1. NoDriver.pc = "none"
  BY DEF NoDriver
<1>2. \A c \in Consoles : drv[c].pc # "call"
  BY <1>1 DEF Init
<1>3. /\ pending = {}
      /\ \A i \in Items : status[i] = "new" /\ disk.status[i] = "new"
  BY SMTT(30) DEF Init
<1> QED BY <1>2, <1>3 DEF RunsInv, NoFileNoItems, NeverRunsAgainByItself, QueuedMayRun, CallIsSaved,
        CalledIsSaved

\* No item runs again by itself: in an engine whose file can be written, an item in
\* line was added, resumed or put back since its route was last called, whatever
\* crashes, panics and dropped requests happen and in whatever order saves land.
THEOREM NeverByItself ==
  ASSUME "write" \notin Faults
  PROVE  Spec => []NeverRunsAgainByItself
<1>1. TypeOK /\ DriverInv /\ [Next]_vars => (TypeOK /\ DriverInv)'
  BY NextInv
<1>2. TypeOK /\ DriverInv /\ ItemInv /\ [Next]_vars => ItemInv'
  BY NextItems
<1>3. TypeOK /\ DriverInv /\ FileInv /\ [Next]_vars => FileInv'
  BY NextFile
<1>4. TypeOK /\ DriverInv /\ ItemInv /\ FileInv /\ RunsInv /\ [Next]_vars => RunsInv'
  BY NextRuns DEF ItemInv, FileInv
<1>5. RunsInv => NeverRunsAgainByItself
  BY DEF RunsInv
<1> QED BY <1>1, <1>2, <1>3, <1>4, <1>5, InitInv, InitItems, InitFile, InitRuns, PTL DEF Spec
-----------------------------------------------------------------------------
(* What a failure holds *)

\* hold_later_items leaves nothing queued behind an item that failed
LEMMA FinishHolds ==
  ASSUME TypeOK, NEW c \in Consoles, NEW i \in StopOnFailure, NEW end \in Finished,
         Finish(c, i, end), status'[i] \in {"failed", "interrupted"},
         NEW j \in Items, status'[j] = "queued", ConsoleOf[j] = ConsoleOf[i]
  PROVE  ~Behind(line, i, j)
<1> DEFINE new == IF intent[i] = "remove" THEN "gone"
                  ELSE IF end = "cancelled" /\ intent[i] = "pause" THEN "paused"
                  ELSE end
           ended == [status EXCEPT ![i] = new]
           held == IF i \in StopOnFailure /\ new \in {"failed", "interrupted"}
                   THEN HoldLaterItems(line, ended, i) ELSE ended
<1>0. i \in Items
  BY QueueAssumption
<1>1. new \in Statuses \ {"queued"}
  BY DEF Statuses, Finished, Waiting
<1>2. status' = Prune(line, held, c)
  BY DEF Finish
<1> HIDE DEF new
<1>3. ended \in [Items -> Statuses] /\ ended[i] = new
  BY <1>0, <1>1 DEF TypeOK
<1> HIDE DEF ended
<1>4. /\ held \in [Items -> Statuses]
      /\ \A k \in Items : held[k] # ended[k] => ended[k] = "queued"
  <2> DEFINE later == HoldLaterItems(line, ended, i)
  <2>1. /\ later \in [Items -> Statuses]
        /\ \A k \in Items : later[k] # ended[k] => ended[k] = "queued"
    BY <1>3, HoldLaterItemsEffect
  <2>2. held = later \/ held = ended
    OBVIOUS
  <2> HIDE DEF later, held
  <2> QED BY <1>3, <2>1, <2>2
<1>5. held[i] = new
  BY <1>0, <1>1, <1>3, <1>4
<1> HIDE DEF held
<1>6. \A k \in Items : status'[k] # held[k] => status'[k] = "gone"
  BY <1>2, <1>4, PruneEffect
<1>7. new \in {"failed", "interrupted"} /\ held[j] = "queued"
  BY <1>0, <1>5, <1>6
<1>8. held = HoldLaterItems(line, ended, i)
  BY <1>7 DEF held
<1> QED BY <1>7, <1>8 DEF HoldLaterItems

\* after_restart leaves nothing queued behind an item the file says was running
LEMMA RestartHolds ==
  ASSUME TypeOK, NEW saved \in BOOLEAN, Restart(saved), NEW i \in StopOnFailure,
         disk.status[i] = "running",
         NEW j \in Items, status'[j] = "queued", ConsoleOf[j] = ConsoleOf[i]
  PROVE  ~Behind(line', i, j)
<1>1. line' = disk.line /\ AfterRestart(disk.line, disk.status)[j] = "queued"
  BY RestartIs
<1>2. i \in On(ConsoleOf[j], disk.status, {"running"}) \cap StopOnFailure
  BY QueueAssumption DEF On
<1>3. disk.status[j] = "queued"
  BY <1>1, RestartIs
<1> QED BY <1>1, <1>2, <1>3 DEF AfterRestart

\* the step in which a run fails, or is found lost by a restart
LEMMA FailureStep ==
  ASSUME {"write", "panic"} \cap Faults = {}, TypeOK, DriverInv, RunsInv, Next,
         NEW i \in StopOnFailure, status[i] = "running",
         status'[i] \in {"failed", "interrupted"}, i \notin mayRun',
         NEW j \in Items, status'[j] = "queued", ConsoleOf[j] = ConsoleOf[i]
  PROVE  ~Behind(line', i, j)
<1>0. i \in Items
  BY QueueAssumption
<1>1. ASSUME NEW c \in Consoles, Starts(c) \/ Requeues(c)
      PROVE  FALSE
  BY <1>0, <1>1 DEF Starts, StartItem, Requeues, Requeue, TypeOK
<1>2. ASSUME NEW c \in Consoles, NEW end \in Finished, Ends(c, end)
      PROVE  ~Behind(line', i, j)
  <2>1. Finish(c, drv[c].item, end) /\ line' = line
    BY <1>2 DEF Ends, Finish
  <2>2. i = drv[c].item
    BY <1>0, <2>1, FinishOthers DEF Finished
  <2> QED BY <2>1, <2>2, FinishHolds
<1>3. ASSUME NEW r \in Requests, NEW k \in Items, Changes(r, k)
      PROVE  FALSE
  BY <1>0, <1>3, HandlerEffect
<1>4. ASSUME NEW k \in Items, CancelItem(k)
      PROVE  FALSE
  BY <1>4 DEF CancelItem
<1>5. ASSUME NEW c \in Consoles, DriverEnd(c)
      PROVE  FALSE
  BY <1>5 DEF DriverEnd
<1>6. ASSUME NEW saved \in BOOLEAN, Restart(saved)
      PROVE  ~Behind(line', i, j)
  <2>1. mayRun' = mayRun
    BY <1>6, ZenonT(30) DEF Restart
  <2>2. CASE HasFile
    <3>1. disk.status[i] = "running"
      BY <1>0, <2>1, <2>2 DEF RunsInv, CalledIsSaved, SavedRunning
    <3> QED BY <1>6, <3>1, RestartHolds
  <2>3. CASE ~HasFile
    <3>1. disk.status[i] = "new"
      BY <1>0, <2>3 DEF RunsInv, NoFileNoItems
    <3>2. status'[i] \in {"new", "gone"}
      BY <1>0, <1>6, <3>1, RestartIs
    <3> QED BY <3>2
  <2> QED BY <2>2, <2>3
<1>7. CASE Quiet
  BY <1>7 DEF Quiet
<1> QED
  BY <1>1, <1>2, <1>3, <1>4, <1>5, <1>6, <1>7, ItemSteps, ZenonT(30)

\* stop_on_failure holds over crashes: in an engine whose file can be written and whose
\* drivers do not panic, the run of such an item that fails, loses its job or is cut
\* off by the end of the process leaves nothing queued behind it.
THEOREM FailureHolds ==
  ASSUME {"write", "panic"} \cap Faults = {}
  PROVE  Spec => FailureHoldsTheRest
<1> DEFINE A == \A i \in StopOnFailure :
                  /\ status[i] = "running" /\ status'[i] \in {"failed", "interrupted"}
                  /\ i \notin mayRun'
                  => \A j \in Items : status'[j] = "queued" /\ ConsoleOf[j] = ConsoleOf[i]
                                      => ~Behind(line', i, j)
<1>1. TypeOK /\ DriverInv /\ [Next]_vars => (TypeOK /\ DriverInv)'
  BY NextInv
<1>2. TypeOK /\ DriverInv /\ ItemInv /\ [Next]_vars => ItemInv'
  BY NextItems
<1>3. TypeOK /\ DriverInv /\ FileInv /\ [Next]_vars => FileInv'
  BY NextFile
<1>4. TypeOK /\ DriverInv /\ ItemInv /\ FileInv /\ RunsInv /\ [Next]_vars => RunsInv'
  BY NextRuns DEF ItemInv, FileInv
<1>5. TypeOK /\ DriverInv /\ RunsInv /\ [Next]_vars => [A]_vars
  BY FailureStep
<1>6. FailureHoldsTheRest <=> [][A]_vars
  BY DEF FailureHoldsTheRest
<1> QED BY <1>1, <1>2, <1>3, <1>4, <1>5, <1>6, InitInv, InitItems, InitFile, InitRuns, PTL DEF Spec
=============================================================================
