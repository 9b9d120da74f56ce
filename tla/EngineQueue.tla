---------------------------- MODULE EngineQueue ----------------------------
(***************************************************************************)
(* The engine's own queue (engine/crates/ps5upload-engine/src/queue_api.rs)*)
(* one line of items per console, the driver task that runs a console's    *)
(* line, the HTTP handlers that change it, the holds a client takes, and   *)
(* the file that keeps the list over a restart of the engine.              *)
(*                                                                         *)
(* An action is one section of the code between two points where another   *)
(* task can run: a section under the book's lock, the snapshot of a save,  *)
(* the write of a snapshot, the answer of an awaited call.                 *)
(***************************************************************************)
EXTENDS Naturals, Sequences, FiniteSets

CONSTANTS
  Items,          \* item ids; an id is used once (uuid v4)
  Consoles,       \* keys of the lines
  Requests,       \* HTTP requests being handled at one time
  Holders,        \* names clients take holds under
  ConsoleOf,      \* Item.console
  KindOf,         \* Item.kind, up to what the queue tells apart (Kinds)
  StopOnFailure,  \* the items with stop_on_failure
  Secret,         \* the items with secret_in_memory
  MaxWaiting,     \* MAX_WAITING
  MaxFinished,    \* MAX_FINISHED
  Obstacles,      \* what may keep a console from being used (ObstacleKinds)
  Faults,         \* what may go wrong (FaultKinds)
  Positions,      \* the positions add and move are asked for
  MaxBehind,      \* bound: writes fail while the file is fewer saves behind
  HasFile,        \* whether the engine has a data folder (Inner.path)
  NoItem          \* a driver that has no item

\* ItemKind: an install; a kind whose route takes a tx_id (uploads, link
\* downloads); a kind that neither resumes nor is an install (downloads, builds).
Kinds == {"install", "resumes", "oneshot"}

ObstacleKinds == {"other_work", "console", "console_task"}

\* crash: the process ends and is started again.  drop: the HTTP server drops
\* the future of a request whose client has gone.  panic: a driver task ends
\* early (a panic, the runtime shutting down).  write: the file cannot be saved.
FaultKinds == {"crash", "drop", "panic", "write"}

ASSUME QueueAssumption ==
  /\ ConsoleOf \in [Items -> Consoles]
  /\ KindOf \in [Items -> Kinds]
  /\ StopOnFailure \subseteq Items
  /\ Secret \subseteq Items
  /\ MaxWaiting \in Nat /\ MaxFinished \in Nat /\ Positions \subseteq Nat
  /\ Requests \cap Consoles = {} /\ HasFile \in BOOLEAN /\ MaxBehind \in Nat
  /\ Obstacles \subseteq ObstacleKinds
  /\ Faults \subseteq FaultKinds
  /\ NoItem \notin Items /\ Consoles # {}

VARIABLES
  line,        \* Book.items: the ids in list order; an id that left the list
               \* keeps its place here and is skipped ("gone")
  status,      \* Item.status, "new" before the item is added
  intent,      \* Item.intent
  kept,        \* the items whose secrets are in memory
  holds,       \* Book.holds: live holders of each console
  waitingFor,  \* Book.waiting_for
  drivers,     \* Book.drivers
  settled,     \* consoles whose last end is timing.settle ago (Book.last_ended)
  generation,  \* Book.generation, counted from Inner.written: the saves taken
               \* since the one in the file
  disk,        \* engine-queue.json
  pending,     \* snapshots handed to spawn_blocking and not yet written
  drv,         \* the driver task of each console
  req,         \* the requests being handled
  job,         \* the job or install the running item of a console started
  obstacles,   \* what keeps a console from being used now
  mayRun       \* history: the items added, resumed or put back in line since
               \* their route was last called

book == <<line, status, intent, kept, holds, waitingFor, drivers, settled>>
file == <<generation, disk, pending>>
vars == <<book, file, drv, req, job, obstacles, mayRun>>

Waiting == {"queued", "paused"}
Finished == {"done", "failed", "cancelled", "interrupted"}
Statuses == Waiting \cup Finished \cup {"running", "new", "gone"}
Intents == {"none", "pause", "remove"}
WaitReasons == {"none", "hold", "settle"} \cup ObstacleKinds
JobAnswers == {"done", "failed", "cancelled", "lost"}
Following == {"saveRun", "call", "answer", "saveJob", "follow", "poll"}
DriverPcs == Following \cup {"none", "look", "probe", "tasks", "saveEnd"}
RequestPcs == {"idle", "save", "wait"}

NoDriver == [pc |-> "none", item |-> NoItem, stopSent |-> FALSE]
Looking == [NoDriver EXCEPT !.pc = "look"]
Idle == [pc |-> "idle", console |-> CHOOSE c \in Consoles : TRUE, kick |-> FALSE]
-----------------------------------------------------------------------------
(* The list *)

\* j comes after i in list l
Behind(l, i, j) == \E a, b \in DOMAIN l : a < b /\ l[a] = i /\ l[b] = j

On(c, st, S) == {i \in Items : ConsoleOf[i] = c /\ st[i] \in S}

Running(c) == On(c, status, {"running"})
Queued(c) == On(c, status, {"queued"})

\* next_on: the first queued item of a console, if there is one
IsHead(c, i) ==
  /\ i \in Queued(c)
  /\ \A j \in Queued(c) \ {i} : Behind(line, i, j)

\* Vec::remove and Vec::insert
Removed(l, at) == SubSeq(l, 1, at - 1) \o SubSeq(l, at + 1, Len(l))
Inserted(l, at, i) == SubSeq(l, 1, at - 1) \o <<i>> \o SubSeq(l, at, Len(l))

\* place: the item at `at` goes to `position` among the waiting items of its
\* console, or behind everything
Place(l, st, at, position) ==
  LET rest == Removed(l, at)
      slots == {k \in DOMAIN rest : rest[k] \in On(ConsoleOf[l[at]], st, Waiting)}
      to == {k \in slots : Cardinality({s \in slots : s < k}) = position}
  IN  IF to = {} THEN Append(rest, l[at])
      ELSE Inserted(rest, CHOOSE k \in to : TRUE, l[at])

\* mutant: the later items stay in line
HoldNothing(l, st, i) == st

\* hold_later_items
HoldLaterItems(l, st, i) ==
  [j \in Items |-> IF /\ ConsoleOf[j] = ConsoleOf[i] /\ st[j] = "queued"
                      /\ Behind(l, i, j)
                   THEN "paused" ELSE st[j]]

\* mutant: one finished item too many stays
PruneLate(l, st, c) ==
  LET fin == On(c, st, Finished)
  IN  [j \in Items |->
         IF j \in fin /\ Cardinality({k \in fin : Behind(l, j, k)}) > MaxFinished
         THEN "gone" ELSE st[j]]

\* prune: a finished item goes when MaxFinished others are behind it
Prune(l, st, c) ==
  LET fin == On(c, st, Finished)
  IN  [j \in Items |->
         IF j \in fin /\ Cardinality({k \in fin : Behind(l, j, k)}) >= MaxFinished
         THEN "gone" ELSE st[j]]

\* mutant: an item whose secret went with the process stays in line
RestartForgetsSecrets(l, st) ==
  [j \in Items |-> IF st[j] = "running" THEN "interrupted" ELSE st[j]]

\* mutant: nothing is held behind an item the restart interrupted
RestartHoldsNothing(l, st) ==
  [j \in Items |-> IF st[j] = "running" \/ (st[j] \in Waiting /\ j \in Secret)
                   THEN "interrupted" ELSE st[j]]

\* after_restart: what was running is interrupted, and so is what waited with a
\* secret; items behind an interrupted stop_on_failure item are held
AfterRestart(l, st) ==
  [j \in Items |->
     IF st[j] = "running" \/ (st[j] \in Waiting /\ j \in Secret)
     THEN "interrupted"
     ELSE IF /\ st[j] = "queued"
             /\ \E i \in On(ConsoleOf[j], st, {"running"}) \cap StopOnFailure :
                  Behind(l, i, j)
          THEN "paused"
          ELSE st[j]]
-----------------------------------------------------------------------------
(* Saving *)

\* snapshot: the list under the next generation number; whoever took it awaits the
\* write.  An engine without a data folder saves nothing.
TakeSnapshot(p) ==
  \/ /\ HasFile
     /\ generation' = generation + 1
     /\ pending' = pending \cup
          {[by |-> p, gen |-> generation + 1, line |-> line, status |-> status]}
     /\ UNCHANGED disk
  \/ ~HasFile /\ UNCHANGED file

\* mutant: saves are not awaited
NotAwaited(p) == TRUE

\* a save is awaited until its write has been tried
Landed(p) == \A s \in pending : s.by # p

\* counted from a save that has just landed; 0 is a generation not above `written`
Since(g, landed) == IF g > landed THEN g - landed ELSE 0

\* mutant: the generations are not compared
WriteOlderToo(s) ==
  /\ s \in pending
  /\ pending' = {[t EXCEPT !.gen = Since(t.gen, s.gen)] : t \in pending \ {s}}
  /\ disk' = [line |-> s.line, status |-> s.status]
  /\ generation' = Since(generation, s.gen)
  /\ UNCHANGED <<book, drv, req, job, obstacles, mayRun>>

\* write_snapshot: an older generation never lands after a newer one
WriteSnapshot(s) ==
  /\ s \in pending
  /\ IF s.gen = 0
     THEN /\ pending' = pending \ {s}
          /\ UNCHANGED <<disk, generation>>
     ELSE /\ pending' = {[t EXCEPT !.gen = Since(t.gen, s.gen)] : t \in pending \ {s}}
          /\ disk' = [line |-> s.line, status |-> s.status]
          /\ generation' = Since(generation, s.gen)
  /\ UNCHANGED <<book, drv, req, job, obstacles, mayRun>>

\* write_snapshot when the write fails: only logged
WriteFails(s) ==
  /\ "write" \in Faults /\ generation < MaxBehind
  /\ s \in pending /\ s.gen > 0
  /\ pending' = pending \ {s}
  /\ UNCHANGED <<book, generation, disk, drv, req, job, obstacles, mayRun>>
-----------------------------------------------------------------------------
(* The driver of a console: next_step *)

\* Step::Wait: says why and looks again after a tick
Wait(c, why) ==
  /\ waitingFor' = [waitingFor EXCEPT ![c] = why]
  /\ drv' = [drv EXCEPT ![c] = Looking]
  /\ UNCHANGED <<line, status, intent, kept, holds, drivers, settled>>

\* mutant: the driver ends with its console still in `drivers`
StopSilently(c) ==
  /\ Queued(c) = {}
  /\ waitingFor' = [waitingFor EXCEPT ![c] = "none"]
  /\ drv' = [drv EXCEPT ![c] = NoDriver]
  /\ UNCHANGED <<line, status, intent, kept, holds, drivers, settled>>

\* nothing queued: the driver gives the console up under the lock
StopDriving(c) ==
  /\ Queued(c) = {}
  /\ drivers' = drivers \ {c}
  /\ waitingFor' = [waitingFor EXCEPT ![c] = "none"]
  /\ drv' = [drv EXCEPT ![c] = NoDriver]
  /\ UNCHANGED <<line, status, intent, kept, holds, settled>>

\* what next_step meets before its first await, in the order it looks
WhyWait(c) ==
  IF holds[c] # {} THEN "hold"
  ELSE IF c \notin settled THEN "settle"
  ELSE IF "other_work" \in obstacles[c] THEN "other_work"
  ELSE "none"

\* next_step up to the probe
LookAtLine(c) ==
  /\ drv[c].pc = "look" /\ Landed(c)
  /\ \/ StopDriving(c)
     \/ Queued(c) # {} /\ WhyWait(c) # "none" /\ Wait(c, WhyWait(c))
     \/ /\ WhyWait(c) = "none"
        /\ \E i \in Items :
             /\ IsHead(c, i)
             /\ drv' = [drv EXCEPT ![c] = [Looking EXCEPT !.pc = "probe", !.item = i]]
        /\ UNCHANGED book
  /\ UNCHANGED <<file, req, job, obstacles, mayRun>>

\* the probe's answer: a console that does not answer holds the line
Probe(c) ==
  /\ drv[c].pc = "probe"
  /\ \/ "console" \in obstacles[c] /\ Wait(c, "console")
     \/ /\ "console" \notin obstacles[c]
        /\ drv' = [drv EXCEPT ![c].pc = "tasks"]
        /\ UNCHANGED book
  /\ UNCHANGED <<file, req, job, obstacles, mayRun>>

\* mutant: the holds are not looked at again
StillHeadOnly(c, i) == IsHead(c, i)

\* mutant: the item is still queued, whatever is ahead of it now
StillQueued(c, i) == i \in Queued(c) /\ holds[c] = {}

\* the probe took a moment: the line or the holds may have changed
StillHead(c, i) == IsHead(c, i) /\ holds[c] = {}

\* Step::Run: the head's status says running from here on
StartItem(c, i) ==
  /\ status' = [status EXCEPT ![i] = "running"]
  /\ waitingFor' = [waitingFor EXCEPT ![c] = "none"]
  /\ drv' = [drv EXCEPT ![c].pc = "saveRun"]
  /\ UNCHANGED <<line, intent, kept, holds, drivers, settled>>

\* the answer of console-tasks, and the rest of next_step
StartHead(c) ==
  LET i == drv[c].item
  IN  /\ drv[c].pc = "tasks"
      /\ \/ "console_task" \in obstacles[c] /\ Wait(c, "console_task")
         \/ /\ "console_task" \notin obstacles[c]
            /\ ~StillHead(c, i) /\ Wait(c, "none")
         \/ /\ "console_task" \notin obstacles[c]
            /\ StillHead(c, i) /\ StartItem(c, i)
      /\ UNCHANGED <<file, req, job, obstacles, mayRun>>

\* the save after a change the driver made
DriverSaves(c) ==
  /\ drv[c].pc \in {"saveRun", "saveJob", "saveEnd"}
  /\ TakeSnapshot(c)
  /\ drv' = [drv EXCEPT ![c].pc = CASE @ = "saveRun" -> "call"
                                   [] @ = "saveJob" -> "follow"
                                   [] OTHER -> "look"]
  /\ UNCHANGED <<book, req, job, obstacles, mayRun>>
-----------------------------------------------------------------------------
(* The driver of a console: run_item *)

\* finish, for item i of console c whose run ended with `end`
Finish(c, i, end) ==
  LET new == IF intent[i] = "remove" THEN "gone"
             ELSE IF end = "cancelled" /\ intent[i] = "pause" THEN "paused"
             ELSE end
      ended == [status EXCEPT ![i] = new]
      held == IF i \in StopOnFailure /\ new \in {"failed", "interrupted"}
              THEN HoldLaterItems(line, ended, i) ELSE ended
  IN  /\ status' = Prune(line, held, c)
      /\ intent' = [intent EXCEPT ![i] = "none"]
      /\ settled' = settled \ {c}
      /\ drv' = [drv EXCEPT ![c] = [NoDriver EXCEPT !.pc = "saveEnd"]]
      /\ UNCHANGED <<line, kept, holds, waitingFor, drivers>>

\* another install took the console first: back in line
Requeue(c, i) ==
  /\ KindOf[i] = "install"
  /\ "other_work" \in obstacles[c]
  /\ status' = [status EXCEPT ![i] = "queued"]
  /\ settled' = settled \ {c}
  /\ drv' = [drv EXCEPT ![c] = [NoDriver EXCEPT !.pc = "saveEnd"]]
  /\ mayRun' = mayRun \cup {i}
  /\ UNCHANGED <<line, intent, kept, holds, waitingFor, drivers, job>>

\* run_item: the item's route is called, once the save that says running has landed
CallRoute(c) ==
  /\ drv[c].pc = "call" /\ Landed(c)
  /\ drv' = [drv EXCEPT ![c].pc = "answer"]
  /\ mayRun' = mayRun \ {drv[c].item}
  /\ UNCHANGED <<book, file, req, job, obstacles>>

\* the route says the install slot is taken, refuses the item (or names no job), or
\* has started a job
RouteAnswers(c) ==
  LET i == drv[c].item
  IN  /\ drv[c].pc = "answer"
      /\ \/ Requeue(c, i)
         \/ Finish(c, i, "failed") /\ UNCHANGED <<job, mayRun>>
         \/ /\ job' = [job EXCEPT ![c] = "running"]
            /\ drv' = [drv EXCEPT ![c].pc = "saveJob"]
            /\ UNCHANGED <<book, mayRun>>
      /\ UNCHANGED <<file, req, obstacles>>

\* mutant: only a pause is passed on to the job
FollowPauses(c) ==
  /\ drv[c].pc = "follow" /\ Landed(c)
  /\ drv' = [drv EXCEPT
       ![c].pc = "poll",
       ![c].stopSent = @ \/ intent[drv[c].item] = "pause"]
  /\ UNCHANGED <<book, file, req, job, obstacles, mayRun>>

\* follow, the top of its loop: the cancel is sent once, when someone asked for it
Follow(c) ==
  /\ drv[c].pc = "follow" /\ Landed(c)
  /\ drv' = [drv EXCEPT
       ![c].pc = "poll",
       ![c].stopSent = @ \/ intent[drv[c].item] # "none"]
  /\ UNCHANGED <<book, file, req, job, obstacles, mayRun>>

\* mutant: a job that cannot be found has no status of the API
EndAsAnswered(answer) == answer

\* job_end, install_end, and the end of a job that cannot be found
EndOf(answer) == IF answer = "lost" THEN "interrupted" ELSE answer

\* follow, the job's answer
Poll(c) ==
  /\ drv[c].pc = "poll"
  /\ \/ /\ job[c] = "running"
        /\ drv' = [drv EXCEPT ![c].pc = "follow"]
        /\ UNCHANGED <<book, job>>
     \/ /\ job[c] = "ended"
        /\ \E answer \in JobAnswers : Finish(c, drv[c].item, EndOf(answer))
        /\ job' = [job EXCEPT ![c] = "none"]
  /\ UNCHANGED <<file, req, obstacles, mayRun>>

\* the job is done, fails, is cancelled (by the queue or by someone else) or is no
\* longer known; which one, follow's next look says
JobEnds(c) ==
  /\ job[c] = "running"
  /\ job' = [job EXCEPT ![c] = "ended"]
  /\ UNCHANGED <<book, file, drv, req, obstacles, mayRun>>

\* save_now of statuses `new`: snapshot and write at once, or the write fails
SaveNow(new) ==
  \/ /\ HasFile
     /\ disk' = [line |-> line, status |-> new]
     /\ generation' = 0
     /\ pending' = {[t EXCEPT !.gen = 0] : t \in pending}
  \/ /\ HasFile /\ "write" \in Faults /\ generation < MaxBehind
     /\ generation' = generation + 1
     /\ UNCHANGED <<disk, pending>>
  \/ ~HasFile /\ UNCHANGED file

\* DriverEnd::drop of a driver that did not reach its end.  Its job goes on by
\* itself, which is other work to the queue.
DriverEnd(c) ==
  LET new == [i \in Items |-> IF i \in Running(c) THEN "interrupted" ELSE status[i]]
  IN  /\ "panic" \in Faults
      /\ drv[c].pc \in {"look", "probe", "tasks", "call", "answer", "follow", "poll"}
      /\ drivers' = drivers \ {c}
      /\ drv' = [drv EXCEPT ![c] = NoDriver]
      /\ status' = new
      /\ intent' = [i \in Items |-> IF i \in Running(c) THEN "none" ELSE intent[i]]
      /\ IF Running(c) = {} THEN UNCHANGED file ELSE SaveNow(new)
      /\ job' = [job EXCEPT ![c] = "none"]
      /\ obstacles' = IF job[c] = "running"
                      THEN [obstacles EXCEPT ![c] = @ \cup {"other_work"}]
                      ELSE obstacles
      /\ UNCHANGED <<line, kept, holds, waitingFor, settled, req, mayRun>>
-----------------------------------------------------------------------------
(* The requests *)

Listed == {i \in Items : status[i] \notin {"new", "gone"}}

\* a handler has changed the list for an item and goes on to save; add and resume
\* kick the console's driver after that
Accept(r, i, kick) ==
  /\ req[r].pc = "idle" /\ Landed(r)
  /\ req' = [req EXCEPT ![r] = [pc |-> "save", console |-> ConsoleOf[i], kick |-> kick]]
  /\ UNCHANGED <<holds, waitingFor, drivers, settled, file, drv, job, obstacles>>

\* add_handler; a position past the waiting items is the end, as none is
AddItem(r, i, position) ==
  /\ status[i] = "new"
  /\ Cardinality(On(ConsoleOf[i], status, Waiting)) < MaxWaiting
  /\ line' = Place(Append(line, i), status, Len(line) + 1, position)
  /\ status' = [status EXCEPT ![i] = "queued"]
  /\ kept' = kept \cup ({i} \cap Secret)
  /\ mayRun' = mayRun \cup {i}
  /\ Accept(r, i, TRUE)
  /\ UNCHANGED intent

\* mutant: any running item can pause
MayPauseAny(i) == intent[i] # "remove"

\* what a running item must be to pause
MayPause(i) == KindOf[i] = "resumes" /\ intent[i] # "remove"

\* pause_handler
PauseItem(r, i) ==
  /\ \/ /\ status[i] \in Waiting
        /\ status' = [status EXCEPT ![i] = "paused"]
        /\ UNCHANGED intent
     \/ /\ status[i] = "running" /\ MayPause(i)
        /\ intent' = [intent EXCEPT ![i] = "pause"]
        /\ UNCHANGED status
  /\ Accept(r, i, FALSE)
  /\ UNCHANGED <<line, kept, mayRun>>

\* resume_handler
ResumeItem(r, i) ==
  /\ \/ /\ status[i] \in {"paused", "failed", "cancelled", "interrupted"}
        /\ i \in Secret => i \in kept
        /\ status' = [status EXCEPT ![i] = "queued"]
        /\ mayRun' = mayRun \cup {i}
     \/ /\ status[i] = "queued" \/ (status[i] = "running" /\ intent[i] = "none")
        /\ UNCHANGED <<status, mayRun>>
  /\ Accept(r, i, TRUE)
  /\ UNCHANGED <<line, intent, kept>>

\* remove_handler, an item that is not running
RemoveItem(r, i) ==
  /\ i \in Listed /\ status[i] # "running"
  /\ status' = [status EXCEPT ![i] = "gone"]
  /\ Accept(r, i, FALSE)
  /\ UNCHANGED <<line, intent, kept, mayRun>>

\* remove_handler with cancel, a running item: answered 202 with nothing saved
CancelItem(i) ==
  /\ status[i] = "running" /\ KindOf[i] # "install"
  /\ intent' = [intent EXCEPT ![i] = "remove"]
  /\ UNCHANGED <<line, status, kept, holds, waitingFor, drivers, settled, file,
                 drv, req, job, obstacles, mayRun>>

\* move_handler
MoveItem(r, i, position) ==
  /\ status[i] \in Waiting
  /\ \E at \in DOMAIN line : line[at] = i /\ line' = Place(line, status, at, position)
  /\ Accept(r, i, FALSE)
  /\ UNCHANGED <<status, intent, kept, mayRun>>

\* a handler's save
RequestSaves(r) ==
  /\ req[r].pc = "save"
  /\ TakeSnapshot(r)
  /\ req' = [req EXCEPT ![r].pc = "wait"]
  /\ UNCHANGED <<book, drv, job, obstacles, mayRun>>

\* mutant: the console's driver is not looked for
KickAlways(c) ==
  /\ drivers' = drivers \cup {c}
  /\ drv' = [drv EXCEPT ![c] = Looking]

\* kick: at most one driver per console
Kick(c) ==
  IF c \in drivers THEN UNCHANGED <<drivers, drv>>
  ELSE /\ drivers' = drivers \cup {c}
       /\ drv' = [drv EXCEPT ![c] = Looking]

\* the save has landed: a handler kicks the driver, if it does, and answers
Answer(r) ==
  /\ req[r].pc = "wait" /\ Landed(r)
  /\ req' = [req EXCEPT ![r] = Idle]
  /\ IF req[r].kick THEN Kick(req[r].console) ELSE UNCHANGED <<drivers, drv>>
  /\ UNCHANGED <<line, status, intent, kept, holds, waitingFor, settled, file, job,
                 obstacles, mayRun>>

\* the client has gone and the handler's future is dropped where it awaits the save
DropRequest(r) ==
  /\ "drop" \in Faults
  /\ req[r].pc = "wait"
  /\ req' = [req EXCEPT ![r] = Idle]
  /\ UNCHANGED <<book, file, drv, job, obstacles, mayRun>>

\* hold_handler: refused while an item of the queue runs there
Hold(c, h) ==
  /\ Running(c) = {}
  /\ holds' = [holds EXCEPT ![c] = @ \cup {h}]
  /\ UNCHANGED <<line, status, intent, kept, waitingFor, drivers, settled, file,
                 drv, req, job, obstacles, mayRun>>

\* release_handler, or the hold lapses
Release(c, h) ==
  /\ h \in holds[c]
  /\ holds' = [holds EXCEPT ![c] = @ \ {h}]
  /\ UNCHANGED <<line, status, intent, kept, waitingFor, drivers, settled, file,
                 drv, req, job, obstacles, mayRun>>
-----------------------------------------------------------------------------
(* The engine's surroundings *)

\* timing.settle has passed since the console's last end
Settle(c) ==
  /\ c \notin settled
  /\ settled' = settled \cup {c}
  /\ UNCHANGED <<line, status, intent, kept, holds, waitingFor, drivers, file, drv,
                 req, job, obstacles, mayRun>>

\* a job or an install of someone else starts (a BusyGuard is taken), the console goes
\* out of reach, or starts a task of its own
ObstacleComes(c, o) ==
  /\ obstacles' = [obstacles EXCEPT ![c] = @ \cup {o}]
  /\ UNCHANGED <<book, file, drv, req, job, mayRun>>

\* and the end of it
ObstacleGoes(c, o) ==
  /\ obstacles' = [obstacles EXCEPT ![c] = @ \ {o}]
  /\ UNCHANGED <<book, file, drv, req, job, mayRun>>

\* The process ends and is started again: QueueState::build reads the file and
\* saves what the restart changed, attach starts a driver for each line with
\* something queued.  Jobs, holds, intents and secrets went with the process.
Restart(saved) ==
  LET onDisk == {i \in Items : disk.status[i] \notin {"new", "gone"}}
      after == AfterRestart(disk.line, disk.status)
      changed == \E i \in onDisk : after[i] # disk.status[i]
      new == [i \in Items |-> IF i \in onDisk THEN after[i]
                              ELSE IF status[i] = "new" THEN "new" ELSE "gone"]
      lines == {c \in Consoles : On(c, new, {"queued"}) # {}}
  IN  /\ "crash" \in Faults
      /\ ~saved => "write" \in Faults
      /\ line' = disk.line
      /\ status' = new
      /\ intent' = [i \in Items |-> "none"]
      /\ kept' = {}
      /\ holds' = [c \in Consoles |-> {}]
      /\ waitingFor' = [c \in Consoles |-> "none"]
      /\ settled' = Consoles
      /\ drivers' = lines
      /\ drv' = [c \in Consoles |-> IF c \in lines THEN Looking ELSE NoDriver]
      /\ req' = [r \in Requests |-> Idle]
      /\ generation' = IF changed /\ ~saved THEN 1 ELSE 0
      /\ disk' = IF changed /\ saved THEN [line |-> disk.line, status |-> new] ELSE disk
      /\ pending' = {}
      /\ job' = [c \in Consoles |-> "none"]
      /\ obstacles' = [c \in Consoles |-> obstacles[c] \ {"other_work"}]
      /\ UNCHANGED mayRun
-----------------------------------------------------------------------------
Init ==
  /\ line = <<>>
  /\ status = [i \in Items |-> "new"]
  /\ intent = [i \in Items |-> "none"]
  /\ kept = {}
  /\ holds = [c \in Consoles |-> {}]
  /\ waitingFor = [c \in Consoles |-> "none"]
  /\ drivers = {}
  /\ settled = Consoles
  /\ generation = 0
  /\ disk = [line |-> <<>>, status |-> [i \in Items |-> "new"]]
  /\ pending = {}
  /\ drv = [c \in Consoles |-> NoDriver]
  /\ req = [r \in Requests |-> Idle]
  /\ job = [c \in Consoles |-> "none"]
  /\ obstacles = [c \in Consoles |-> {}]
  /\ mayRun = {}

DriverStep(c) ==
  \/ LookAtLine(c) \/ Probe(c) \/ StartHead(c) \/ DriverSaves(c)
  \/ CallRoute(c) \/ RouteAnswers(c) \/ Follow(c) \/ Poll(c)

ClientStep ==
  \/ \E r \in Requests, i \in Items :
       \/ \E position \in Positions \cup {MaxWaiting} : AddItem(r, i, position)
       \/ PauseItem(r, i) \/ ResumeItem(r, i) \/ RemoveItem(r, i)
       \/ \E position \in Positions : MoveItem(r, i, position)
  \/ \E i \in Items : CancelItem(i)
  \/ \E c \in Consoles, h \in Holders : Hold(c, h) \/ Release(c, h)

RequestStep(r) == RequestSaves(r) \/ Answer(r)

FaultStep ==
  \/ \E r \in Requests : DropRequest(r)
  \/ \E c \in Consoles : DriverEnd(c)
  \/ \E s \in pending : WriteFails(s)
  \/ \E saved \in BOOLEAN : Restart(saved)

Surroundings ==
  \E c \in Consoles :
    \/ Settle(c) \/ JobEnds(c)
    \/ \E o \in Obstacles : ObstacleComes(c, o) \/ ObstacleGoes(c, o)

Next ==
  \/ \E c \in Consoles : DriverStep(c)
  \/ \E r \in Requests : RequestStep(r)
  \/ \E s \in pending : WriteSnapshot(s)
  \/ ClientStep
  \/ FaultStep
  \/ Surroundings

Spec == Init /\ [][Next]_vars
-----------------------------------------------------------------------------
(* What the queue promises *)

Snapshots == [by : Requests \cup Consoles, gen : Nat, line : Seq(Items),
              status : [Items -> Statuses]]
Drivers == [pc : DriverPcs, item : Items \cup {NoItem}, stopSent : BOOLEAN]
Handlers == [pc : RequestPcs, console : Consoles, kick : BOOLEAN]

\* Every variable keeps its type: a run ends with a status of the API, a console
\* waits for a reason of WaitingFor.
TypeOK ==
  /\ line \in Seq(Items)
  /\ status \in [Items -> Statuses]
  /\ intent \in [Items -> Intents]
  /\ kept \subseteq Items
  /\ holds \in [Consoles -> SUBSET Holders]
  /\ waitingFor \in [Consoles -> WaitReasons]
  /\ drivers \subseteq Consoles
  /\ settled \subseteq Consoles
  /\ generation \in Nat
  /\ disk \in [line : Seq(Items), status : [Items -> Statuses]]
  /\ pending \subseteq Snapshots
  /\ drv \in [Consoles -> Drivers]
  /\ req \in [Requests -> Handlers]
  /\ job \in [Consoles -> {"none", "running", "ended"}]
  /\ obstacles \in [Consoles -> SUBSET ObstacleKinds]
  /\ mayRun \subseteq Items

\* Header, "one at a time per console": a running item is the one that its
\* console's driver started and still follows, so a console never has two, and
\* none runs with nobody to end it.
RunningIsFollowed ==
  \A i \in Items : status[i] = "running" =>
    LET d == drv[ConsoleOf[i]]
    IN  d.item = i /\ d.pc \in Following

\* Header, "the two take turns": hold_handler refuses a hold while an item runs and
\* next_step starts nothing while one lasts, with the probe's wait in between.
HoldExcludesRunning == \A c \in Consoles : holds[c] = {} \/ Running(c) = {}

\* what EngineQueue shows of itself as ConsoleTurns: the running item and the holds
Turns == INSTANCE ConsoleTurns WITH
  at <- [c \in Consoles |-> Running(c)], held <- holds

\* hold_handler's contract with the app (ConsoleTurns), over every await of a driver
\* and every fault: each step starts one item on a console with nothing running and
\* no hold, ends what runs there, gives or takes back one hold, or is a restart, after
\* which nothing runs and nobody holds.
TakesTurns == Turns!Spec

\* Header, "in order": an item starts only as the first queued item of its console,
\* whatever was moved, paused or removed while next_step waited for the probe.
StartsInOrder ==
  [][\A i \in Items : status[i] # "running" /\ status'[i] = "running"
       => IsHead(ConsoleOf[i], i)]_vars

\* A stop that was asked for belongs to a run: no intent is left on an item that
\* went back to the line or ended, where the next run would obey it, and a running
\* install never has one.
IntentOnlyWhileRunning ==
  \A i \in Items : intent[i] # "none" =>
    status[i] = "running" /\ KindOf[i] # "install"

\* A queued item has a driver, or a request that will start one: next_step gives a
\* console up under the lock, so no add, resume or restart slips past it.
NoLostWakeup ==
  \A i \in Items : status[i] = "queued" =>
    \/ drv[ConsoleOf[i]].pc # "none"
    \/ \E r \in Requests : /\ req[r].pc # "idle" /\ req[r].kick
                           /\ req[r].console = ConsoleOf[i]

\* Finished items kept per console (MAX_FINISHED).
FinishedBound ==
  \A c \in Consoles : Cardinality(On(c, status, Finished)) <= MaxFinished

\* nothing changed in memory is still to be saved
Saved ==
  /\ pending = {}
  /\ \A r \in Requests : req[r].pc # "save"
  /\ \A c \in Consoles : drv[c].pc \notin {"saveRun", "saveJob", "saveEnd"}

\* In an engine with a file every change is saved, and saves that overtake each
\* other leave the newest list in it: once none is under way and the last did not
\* fail, the file lists what the book does, in the same order and with the same
\* statuses.
FileMatchesBook ==
  LET shown(st) == [i \in Items |-> IF st[i] = "new" THEN "gone" ELSE st[i]]
  IN  HasFile /\ Saved /\ generation = 0
      => disk.line = line /\ shown(disk.status) = shown(status)

\* Header, "never restarted: resume is the only way it runs again": an item is in
\* line only if it was added or resumed since its route was last called, over any
\* crash, because the save that says running lands before the call.
NeverRunsAgainByItself ==
  \A i \in Items : status[i] = "queued" => i \in mayRun

\* Header, "an item that needs one after a restart comes back interrupted": no item
\* waits or runs without the secret its request needs.
SecretIsThere ==
  \A i \in Secret : status[i] \in {"queued", "running"} => i \in kept

\* AddBody.stop_on_failure, "if this item fails, the ones after it are paused": the
\* run of such an item, once its route was called, leaves nothing queued behind it
\* when it fails, its job is lost or the engine stops during it.
FailureHoldsTheRest ==
  [][\A i \in StopOnFailure :
       /\ status[i] = "running" /\ status'[i] \in {"failed", "interrupted"}
       /\ i \notin mayRun'
       => \A j \in Items : status'[j] = "queued" /\ ConsoleOf[j] = ConsoleOf[i]
                           => ~Behind(line', i, j)]_vars

\* Header, "the queue waits while anything else uses the console": no item starts
\* while a job or an install of someone else runs there.
StartsOnFreeConsole ==
  [][\A i \in Items : status[i] # "running" /\ status'[i] = "running"
       => "other_work" \notin obstacles[ConsoleOf[i]]]_vars
-----------------------------------------------------------------------------
(* Liveness *)

\* tokio runs every task, a started write ends, and time passes
EngineFairness ==
  /\ \A c \in Consoles : WF_vars(DriverStep(c)) /\ WF_vars(Settle(c))
  /\ \A r \in Requests : WF_vars(RequestStep(r))
  /\ WF_vars(\E s \in pending : WriteSnapshot(s))

\* a job need not end by itself, but ends once it is cancelled
LiveSpec ==
  Spec /\ EngineFairness
       /\ \A c \in Consoles : WF_vars(JobEnds(c) /\ drv[c].stopSent)

\* If jobs end, a queued item does not stay queued on a console that in the end is
\* free, answers and is not held, when in the end no client changes the list: it
\* runs, or it was paused or removed.
QueuedItemsMove ==
  (\A c \in Consoles : WF_vars(JobEnds(c))) =>
    \A i \in Items :
      <>[](/\ holds[ConsoleOf[i]] = {} /\ obstacles[ConsoleOf[i]] = {}
           /\ \A r \in Requests : req[r].pc = "idle")
        => (status[i] = "queued" ~> status[i] # "queued")

\* remove_handler's 202 and pause_handler's answer for a running item: the stop is
\* carried out whenever it was asked for, before the job's id is known included.
StopsAreCarriedOut ==
  \A i \in Items :
    /\ intent[i] = "remove" ~> status[i] = "gone"
    /\ intent[i] = "pause" ~> status[i] # "running"
=============================================================================
