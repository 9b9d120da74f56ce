---------------------------- MODULE UploadQueue ----------------------------
(***************************************************************************)
(* The app's upload queue (src/client/src/state/uploadQueue.ts) for one    *)
(* console: the rows, the drain loops that run them one at a time, and     *)
(* what the person does to the list meanwhile.  JavaScript runs to         *)
(* completion, so an action is what happens between two awaits, and a      *)
(* loop's pc names the await it is at.  A loop is dead once the console's  *)
(* generation has moved on; it finds out at its next check, and some       *)
(* awaits have none after them.  Rows, run state and module-level maps of  *)
(* the page are the record q; the functions below take such a record and   *)
(* return the one after the call.  The engine's transfer jobs and installs *)
(* are external and only what the page can see of them.                    *)
(***************************************************************************)
EXTENDS Integers, FiniteSets, Sequences

CONSTANTS
  Items,             \* the rows that exist at some time
  Queued,            \* the rows the page loads at first, in order
  KindOf,            \* "file", "image" (mounted after), "pkg" (installed after), "install"
  Tier,              \* installOrderPriority: base 0, update 1, add-on 2
  Loops,             \* bound on the drain loops that exist at a time
  Jobs,              \* bound on the engine jobs someone still refers to
  MaxRecover,        \* MAX_AUTO_RECOVER_ATTEMPTS
  AutoResume, ContinueOnFailure,   \* the two settings
  Web,               \* the browser build: progress is saved while a job runs
  Persist,           \* the queue file is modelled (only reloads read it)
  MaxEvents,         \* bound on what the person does and what goes wrong, in all
  Ops,               \* what the person does in this instance
  Faults,            \* what goes wrong in this instance
  NoItem, NoJob, NoLoop,
  NoRoom             \* the bound on the loops is reached

Kinds == {"file", "image", "pkg", "install"}
AllOps == {"add", "start", "stop", "stopAll", "clear", "cancel", "remove", "pause",
           "resume", "sendNow", "restart", "retry", "retryFailed", "retryInstall", "move"}
AllFaults == {"jobFails", "mountFails", "installFails", "lostContact", "lostCancel",
              "sleep", "otherDevice", "reload", "earlyReload"}

-----------------------------------------------------------------------------
(* Lists of rows. *)

Elems(s) == {s[n] : n \in DOMAIN s}
Distinct(s) == \A m, n \in DOMAIN s : s[m] = s[n] => m = n

\* How many of the places in P are not after n.
Count(P, n) == Cardinality({m \in P : m <= n})

\* filter: the elements of s that are in S, in their order.
Filter(s, S) ==
  LET places == {n \in DOMAIN s : s[n] \in S}
  IN  [k \in 1 .. Cardinality(places) |-> s[CHOOSE n \in places : Count(places, n) = k]]

\* find: the first element of s that is in S.
First(s, S) ==
  LET places == {n \in DOMAIN s : s[n] \in S}
  IN  s[CHOOSE n \in places : \A m \in places : n <= m]

ASSUME QueueAssumption ==
  /\ IsFiniteSet(Items) /\ IsFiniteSet(Loops) /\ IsFiniteSet(Jobs)
  /\ Queued \in Seq(Items) /\ Distinct(Queued)
  /\ KindOf \in [Items -> Kinds] /\ Tier \in [Items -> 0 .. 2]
  /\ \A i \in Items : KindOf[i] \in {"file", "image"} => Tier[i] = 0
  /\ MaxRecover \in Nat /\ MaxEvents \in Nat
  /\ {AutoResume, ContinueOnFailure, Web, Persist} \subseteq BOOLEAN
  /\ Ops \subseteq AllOps /\ Faults \subseteq AllFaults
  /\ ("reload" \in Faults) => Persist
  /\ NoItem \notin Items /\ NoJob \notin Jobs /\ {NoLoop, NoRoom} \cap Loops = {} /\ NoLoop # NoRoom

-----------------------------------------------------------------------------
(* The page. *)

VARIABLES
  q,           \* the page: rows and run state
  loop,        \* the drain loops
  job,         \* the engine's transfer jobs, and which ones the page has cancelled
  inst,        \* the engine's install of each row, if any
  asleep,      \* the console is in rest mode, as the poller or a transfer's error says
  doc,         \* the saved queue
  budget,      \* how many more things the person can do or that can go wrong
  asked        \* history: how often the person asked for a row's install and none began

vars == <<q, loop, job, inst, asleep, doc, budget, asked>>

\* The rows of the list; p.line has their order.
Present(p) == {i \in Items : p.row[i].status \notin {"new", "removed"}}
Row(p, i) == p.row[i]
IsInstallWork(r) == r.kind = "install" \/ (r.kind = "pkg" /\ r.uploadDone)
CanPause(r) == r.status = "running" /\ r.kind # "install" /\ ~r.uploadDone
CanResumeUnattended(r) == r.status = "failed" /\ ~IsInstallWork(r) /\ r.fixable

NewRow(i) ==
  [status |-> "pending", kind |-> KindOf[i], paused |-> "no", uploadDone |-> FALSE,
   job |-> NoJob, attach |-> FALSE, installJob |-> FALSE, stopping |-> "no",
   wake |-> FALSE, interrupted |-> FALSE, fixable |-> FALSE]

FullScope == [full |-> TRUE, ids |-> {}]
Only(ids) == [full |-> FALSE, ids |-> ids]
Widened(scope, ids) == IF scope.full THEN scope ELSE Only(scope.ids \cup ids)
NoRestart == [pending |-> FALSE, job |-> NoJob, scope |-> FullScope]

NoRun == [pc |-> "off", item |-> NoItem, kind |-> "file", job |-> NoJob, n |-> 0,
          ran |-> FALSE, sent |-> FALSE, on |-> NoLoop]

\* patchItem: nothing happens to a row that is gone.
Patch(p, i, row) == IF i \in Present(p) THEN [p EXCEPT !.row[i] = row] ELSE p

\* scheduleSave: the file is written a moment later.
Saved(p) == [p EXCEPT !.dirty = Persist]

RemoveRow(p, i) ==
  [p EXCEPT !.line = Filter(@, Items \ {i}), !.sent = Filter(@, Items \ {i}),
            !.row[i].status = "removed"]

-----------------------------------------------------------------------------
(* The order rows run in. *)

\* nextPendingForHost over the rows S: a row sent now first, in click order; then by tier.
NextPending(p, S) ==
  LET ready == {i \in S \cap Present(p) :
                  Row(p, i).status = "pending" /\ Row(p, i).paused = "no"}
      now == ready \cap Elems(p.sent)
      first == {i \in ready : \A k \in ready : Tier[i] <= Tier[k]}
  IN  IF ready = {} THEN NoItem
      ELSE IF now # {} THEN First(p.sent, now)
      ELSE First(p.line, first)

InScope(p) == IF p.scope.full THEN Items ELSE p.scope.ids
PickPending(p) == NextPending(p, InScope(p) \ p.looking)
HasPending(p) == NextPending(p, Items) # NoItem

\* settleSendNow: with no row sent now left, the rows such a row had paused go back in line.
SettleSendNow(p) ==
  LET over == {i \in Elems(p.sent) : Row(p, i).status \in {"done", "failed"}}
      live == {i \in Elems(p.sent) \ over : Row(p, i).paused = "no"}
      back == IF live # {} THEN {}
              ELSE {i \in Present(p) \ over :
                      Row(p, i).paused = "sendNow" /\ Row(p, i).status = "pending"}
  IN  IF over \cup back = {} THEN p
      ELSE Saved([p EXCEPT
             !.sent = Filter(@, Items \ over),
             !.row = [i \in Items |-> IF i \in back THEN [@[i] EXCEPT !.paused = "no"] ELSE @[i]],
             !.scope = Widened(@, back)])

-----------------------------------------------------------------------------
(* Starting and stopping the console's run. *)

FreeLoops == {l \in Loops : loop[l].pc = "off"}
InBound(p) == p.live # NoRoom

\* Mutant: a run that waits for the stopped job to end is not given up.
StartHostOnly(p, scope, unattended) ==
  LET noted == [p EXCEPT !.whole = @ \/ (scope.full /\ ~unattended)]
  IN  IF p.live # NoLoop
      THEN [noted EXCEPT !.scope = IF scope.full THEN scope ELSE Widened(@, scope.ids)]
      ELSE [noted EXCEPT
              !.scope = scope,
              !.live = IF FreeLoops = {} THEN NoRoom ELSE CHOOSE l \in FreeLoops : TRUE,
              !.row = [i \in Items |-> [@[i] EXCEPT !.wake = FALSE]]]
\* startHost: a run that is going is widened; otherwise a new loop takes the console.
StartHost(p, scope, unattended) ==
  LET noted == [p EXCEPT !.whole = @ \/ (scope.full /\ ~unattended)]
  IN  IF p.live # NoLoop
      THEN [noted EXCEPT !.scope = IF scope.full THEN scope ELSE Widened(@, scope.ids)]
      ELSE [noted EXCEPT
              !.scope = scope,
              !.live = IF FreeLoops = {} THEN NoRoom ELSE CHOOSE l \in FreeLoops : TRUE,
              !.restart = NoRestart,
              !.row = [i \in Items |-> [@[i] EXCEPT !.wake = FALSE]]]

\* The loops after the page went from q to p: startHost's first await is the engine's hold.
Spawned(p) ==
  IF p.live \in {q.live, NoLoop} THEN loop
  ELSE [loop EXCEPT ![p.live] = [NoRun EXCEPT !.pc = "enter"]]

\* cancelEngineJob: remembered by the page at once; the request may be lost.
Cancelled(j) ==
  IF j = NoJob THEN {job}
  ELSE LET known == [job EXCEPT ![j].cancelled = TRUE]
       IN  {[known EXCEPT ![j].state = IF @ = "running" THEN "ending" ELSE @]}
           \cup (IF "lostCancel" \in Faults THEN {known} ELSE {})

\* Mutant: the rows are not reset.
StopHostOnly(p) ==
  Saved([p EXCEPT !.job = NoJob, !.live = NoLoop, !.whole = FALSE, !.restart = NoRestart])
\* stopHost (the job it cancels is q.job; a running install stays).
StopHost(p) ==
  Saved([p EXCEPT
    !.job = NoJob, !.live = NoLoop, !.whole = FALSE, !.restart = NoRestart,
    !.row = [i \in Items |->
               IF i \in Present(p) /\ @[i].status = "running" /\ ~IsInstallWork(@[i])
               THEN [@[i] EXCEPT !.status = "pending", !.interrupted = TRUE] ELSE @[i]]])

\* restartAfterStop, up to its first await.
RestartAfterStop(p, stopped, scope) ==
  [p EXCEPT !.restart = [pending |-> TRUE, job |-> stopped, scope |-> scope]]

\* joinPendingRestart, or a limited start.
JoinOrStart(p, i) ==
  IF p.restart.pending
  THEN [p EXCEPT !.restart.scope = Widened(@, {i})]
  ELSE StartHost(p, Only({i}), FALSE)

\* Mutant: the console runs again for the row sent now alone.
PauseForgetsRun(p, i, why, also) ==
  LET stopped == StopHost(p)
  IN  RestartAfterStop(Saved(Patch(stopped, i, [Row(stopped, i) EXCEPT !.paused = why])), p.job, Only(also))
\* pauseRunning.
PauseRunning(p, i, why, also) ==
  LET stopped == StopHost(p)
      paused == Saved(Patch(stopped, i, [Row(stopped, i) EXCEPT !.paused = why]))
      settled == IF why = "user" THEN SettleSendNow(paused) ELSE paused
      resumed == {k \in Items : paused.row[k].paused # settled.row[k].paused}
  IN  RestartAfterStop(settled, p.job, Widened(p.scope, also \cup resumed))

\* discardUploadLeftovers: the job of a row left from before a reload is cancelled with it.
\* Not through cancelEngineJob: the page does not remember that it was.
Orphan(r) == r.status # "running" /\ r.interrupted /\ ~r.uploadDone
             /\ r.kind # "install" /\ r.job # NoJob
Discarded(jobs, rows) ==
  [j \in Jobs |->
     IF jobs[j].state = "running" /\ \E r \in rows : Orphan(r) /\ r.job = j
     THEN [jobs[j] EXCEPT !.state = "ending"] ELSE jobs[j]]

-----------------------------------------------------------------------------
(* The drain loop.  Each operator below is the rest of a callback of loop l, from p. *)

Dead(l) == l # q.live
HeldRow(p, l) == Row(p, loop[l].item)
Mine(p, l) == loop[l].item \in Present(p)
SetRow(p, l, row) == Patch(p, loop[l].item, row)

\* The loop returns; startHost's finally clears the run only while it is still the live one.
Return(l, p) ==
  /\ q' = IF Dead(l) THEN p
          ELSE [p EXCEPT !.live = NoLoop, !.whole = @ /\ HasPending(p)]
  /\ loop' = [loop EXCEPT ![l] = NoRun]

InstallRowRuns(p) ==
  \E i \in Present(p) : IsInstallWork(Row(p, i)) /\ Row(p, i).status = "running"

\* The top of the drain loop: pick a row; wait for an install a stopped loop left running.
GoOn(l, page) == \E p \in {page} :
  LET i == PickPending(p) IN
  IF i = NoItem THEN Return(l, p)
  ELSE /\ q' = p
       /\ loop' = [loop EXCEPT ![l] =
            IF p.inflight # NoLoop /\ InstallRowRuns(p)
            THEN [NoRun EXCEPT !.pc = "waitInstall", !.on = p.inflight, !.ran = loop[l].ran]
            ELSE [NoRun EXCEPT !.pc = "retake", !.item = i, !.kind = Row(p, i).kind,
                               !.sent = i \in Elems(p.sent), !.ran = loop[l].ran]]

\* runOne begins: the row runs, whatever it was when it was picked or is now.
Begin(l) ==
  /\ q' = Saved(SetRow(q, l, [HeldRow(q, l) EXCEPT
                                !.status = "running", !.interrupted = FALSE, !.wake = FALSE,
                                !.uploadDone = FALSE, !.installJob = FALSE, !.fixable = FALSE]))
  /\ loop' = [loop EXCEPT ![l].ran = TRUE,
                          ![l].pc = IF loop[l].kind = "install" THEN "turn" ELSE "prep"]

\* parkForWake, and the run ends.
Park(l, p) ==
  Return(l, Saved(SetRow(p, l, [HeldRow(p, l) EXCEPT !.status = "pending", !.wake = TRUE,
                                                     !.interrupted = TRUE, !.fixable = FALSE])))

\* Mutant: nothing is given back.
FinishedOnly(l, p) ==
  LET over == Saved(SetRow(p, l, [HeldRow(p, l) EXCEPT !.status = "done"]))
  IN  IF Dead(l) THEN Return(l, over) ELSE GoOn(l, over)
\* runOne returned: the row is done even if the loop is dead by now.
Finished(l, p) ==
  LET over == SettleSendNow(Saved(SetRow(p, l, [HeldRow(p, l) EXCEPT !.status = "done"])))
  IN  IF Dead(l) THEN Return(l, over) ELSE GoOn(l, over)

\* runOne threw.  fix: a re-send can fix it, going by the message (isAutoRecoverable).
\* post: the bytes are committed (PostUploadStepError).
Caught(l, p, fix, post) ==
  LET install == IF Mine(p, l) THEN IsInstallWork(HeldRow(p, l)) ELSE loop[l].kind = "install"
      resend == ~install /\ AutoResume /\ fix /\ ~post
      failed == SettleSendNow(Saved(SetRow(p, l, [HeldRow(p, l) EXCEPT !.status = "failed",
                                                                       !.fixable = fix])))
      hard == ~install /\ ~loop[l].sent /\ ~ContinueOnFailure
      goesOn == Mine(failed, l) /\ CanResumeUnattended(HeldRow(failed, l))
  IN  CASE Dead(l) /\ ~install -> Return(l, p)
        [] ~Dead(l) /\ resend /\ asleep -> Park(l, p)
        [] ~Dead(l) /\ resend /\ ~asleep /\ loop[l].n < MaxRecover ->
             /\ q' = Saved(SetRow(p, l, [HeldRow(p, l) EXCEPT !.status = "running"]))
             /\ loop' = [loop EXCEPT ![l].pc = "backoff", ![l].n = @ + 1, ![l].job = NoJob]
        [] OTHER ->
             IF Dead(l) THEN Return(l, failed)
             ELSE IF hard THEN Return(l, [failed EXCEPT !.whole = @ /\ goesOn])
             ELSE GoOn(l, failed)

At(l, pc) == loop[l].pc = pc
Document == [line |-> q.line, row |-> q.row, sent |-> q.sent]
Engine == <<job, inst>>
Rest == <<asleep, doc, budget, asked>>
RestBut == <<asleep, doc, asked>>

\* Something goes wrong.
Fault(f) == f \in Faults /\ budget > 0 /\ budget' = budget - 1

\* The hold on the engine's queue is granted and the helper checked; both waits end in one test.
Enter(l) ==
  /\ At(l, "enter") /\ UNCHANGED <<Engine, Rest>>
  /\ IF Dead(l) THEN Return(l, q) ELSE GoOn(l, q)

Installing(x) == \/ x \in Loops /\ loop[x].pc \in {"turn", "turnWait", "install", "installing"}
                 \/ x \in q.finding
WaitedForInstall(l) ==
  /\ At(l, "waitInstall") /\ ~Installing(loop[l].on) /\ UNCHANGED <<Engine, Rest>>
  /\ IF Dead(l) THEN Return(l, q) ELSE GoOn(l, q)

\* After retakeEngineQueueHold, and after the pause between two items.
Claim(l) ==
  /\ At(l, "retake") /\ UNCHANGED <<Engine, Rest>>
  /\ IF Dead(l) THEN Return(l, q)
     ELSE IF loop[l].kind # "install" /\ ~HeldRow(q, l).attach /\ AutoResume /\ asleep
     THEN Park(l, q)
     ELSE IF loop[l].ran THEN q' = q /\ loop' = [loop EXCEPT ![l].pc = "settle"]
     ELSE Begin(l)
Settled(l) ==
  /\ At(l, "settle") /\ UNCHANGED <<Engine, Rest>>
  /\ IF Dead(l) THEN Return(l, q) ELSE Begin(l)

\* Mutant: a dead loop leaves the job it was given.
TookAnyway(l, p, j) ==
  /\ UNCHANGED <<inst, Rest>>
  /\ job' = job
  /\ IF Dead(l) THEN Caught(l, p, TRUE, FALSE)
     ELSE /\ q' = [SetRow(p, l, [HeldRow(p, l) EXCEPT !.job = j]) EXCEPT !.job = j]
          /\ loop' = [loop EXCEPT ![l].pc = "poll", ![l].job = j]
\* A job is there, started or adopted: a dead loop cancels it, a live one follows it.
Took(l, p, j) ==
  /\ UNCHANGED <<inst, Rest>>
  /\ IF Dead(l)
     THEN job' \in Cancelled(j) /\ Caught(l, p, TRUE, FALSE)
     ELSE /\ job' = job
          /\ q' = [SetRow(p, l, [HeldRow(p, l) EXCEPT !.job = j]) EXCEPT !.job = j]
          /\ loop' = [loop EXCEPT ![l].pc = "poll", ![l].job = j]

\* The write lock is taken and the folders made: attachJobId, else an earlier job, else a new one.
Prepared(l) ==
  LET r == HeldRow(q, l) IN
  /\ At(l, "prep")
  /\ IF Mine(q, l) /\ r.attach
     THEN Took(l, SetRow(q, l, [HeldRow(q, l) EXCEPT !.attach = FALSE]), r.job)
     ELSE /\ UNCHANGED <<q, Engine, Rest>>
          /\ loop' = IF loop[l].item \in Present(q) /\ r.job # NoJob
                     THEN [loop EXCEPT ![l].pc = "lookup", ![l].job = r.job]
                     ELSE [loop EXCEPT ![l].pc = "ask", ![l].job = NoJob]

\* liveJobFor: one answer about the earlier job, or none for too long.
LookedUp(l) ==
  LET j == loop[l].job
      going == job[j].state \in {"running", "ending"} IN
  /\ At(l, "lookup")
  /\ \/ /\ ~going /\ UNCHANGED <<q, Engine, Rest>>
        /\ loop' = [loop EXCEPT ![l].pc = "ask", ![l].job = NoJob]
     \/ going /\ ~job[j].cancelled /\ Took(l, q, j)
     \/ going /\ job[j].cancelled /\ Dead(l)
        /\ Caught(l, q, TRUE, FALSE) /\ UNCHANGED <<Engine, Rest>>
     \/ "lostCancel" \in Faults /\ going /\ job[j].cancelled /\ ~Dead(l)
        /\ Caught(l, q, TRUE, FALSE) /\ UNCHANGED <<Engine, Rest>>
     \/ Fault("lostContact") /\ Caught(l, q, TRUE, FALSE) /\ UNCHANGED <<Engine, RestBut>>

\* The start request reaches the engine, which runs it or refuses it.
Fresh == {j \in Jobs :
  /\ job[j].state \notin {"running", "ending"}
  /\ j \notin {q.job, q.restart.job} \cup {loop[l].job : l \in Loops}
  /\ \A i \in Items : \A r \in {q.row[i], doc.row[i]} :
       r.job = j => r.status \in {"done", "removed"}}
JobStarts(l) ==
  /\ At(l, "ask") /\ Fresh # {} /\ UNCHANGED <<q, inst, Rest>>
  /\ LET j == CHOOSE k \in Fresh : TRUE IN
     /\ job' = [job EXCEPT ![j] = [item |-> loop[l].item, state |-> "running", cancelled |-> FALSE]]
     /\ loop' = [loop EXCEPT ![l].pc = "asked", ![l].job = j]
JobRefused(l) ==
  /\ At(l, "ask") /\ Fault("jobFails") /\ UNCHANGED <<Engine, RestBut>>
  /\ \E fix \in BOOLEAN : Caught(l, q, fix, FALSE)
Answered(l) == At(l, "asked") /\ Took(l, q, loop[l].job)

\* One answer about the job; then what comes after the upload. Or none for too long.
Polled(l) ==
  LET state == job[loop[l].job].state
      up == Saved(SetRow(q, l, [HeldRow(q, l) EXCEPT !.uploadDone = TRUE])) IN
  /\ At(l, "poll") /\ UNCHANGED <<Engine, Rest>>
  /\ \/ Dead(l) /\ Caught(l, q, TRUE, FALSE)
     \/ ~Dead(l) /\ state = "done" /\
          CASE loop[l].kind = "image" -> q' = up /\ loop' = [loop EXCEPT ![l].pc = "mount"]
            [] loop[l].kind = "pkg" -> /\ q' = [up EXCEPT !.inflight = l]
                                       /\ loop' = [loop EXCEPT ![l].pc = "turn"]
            [] OTHER -> Finished(l, up)
     \/ ~Dead(l) /\ state = "failed" /\ \E fix \in BOOLEAN : Caught(l, q, fix, FALSE)
     \/ ~Dead(l) /\ state = "running" /\ Web /\ ~q.dirty /\ doc # Document
        /\ q' = Saved(q) /\ UNCHANGED loop

LostContact(l) ==
  /\ At(l, "poll") /\ ~Dead(l) /\ job[loop[l].job].state \in {"running", "ending"}
  /\ Fault("lostContact") /\ Caught(l, q, TRUE, FALSE) /\ UNCHANGED <<Engine, RestBut>>

\* The mount of an uploaded image; its failure reads like any other.
Mounted(l) ==
  /\ At(l, "mount") /\ UNCHANGED <<Engine, RestBut>>
  /\ \/ Finished(l, q) /\ UNCHANGED budget
     \/ Fault("mountFails") /\ \E fix \in BOOLEAN : Caught(l, q, fix, TRUE)

\* The backoff of a recovery attempt and the helper's check after it.
Recovered(l) ==
  /\ At(l, "backoff") /\ UNCHANGED <<Engine, Rest>>
  /\ IF Dead(l) THEN Return(l, q)
     ELSE IF asleep THEN Park(l, q)
     ELSE /\ q' = Saved(SetRow(q, l, [HeldRow(q, l) EXCEPT !.status = "running"]))
          /\ loop' = [loop EXCEPT ![l].pc = "prep"]

-----------------------------------------------------------------------------
(* Installs: the turn shared with other devices, the request, the end. *)

NotInFlight(l) == [q EXCEPT !.inflight = IF @ = l THEN NoLoop ELSE @]

\* takeMeshLock for the install turn; only a refusal is followed by a test of the generation.
Turn(l) ==
  /\ UNCHANGED <<Engine, RestBut>>
  /\ \/ /\ At(l, "turn") /\ UNCHANGED budget
        /\ q' = [q EXCEPT !.inflight = IF loop[l].kind = "install" THEN l ELSE @]
        /\ loop' = [loop EXCEPT ![l].pc = "install"]
     \/ /\ At(l, "turn") /\ Fault("otherDevice")
        /\ loop' = [loop EXCEPT ![l].pc = "turnWait"] /\ UNCHANGED q
     \/ /\ At(l, "turnWait") /\ UNCHANGED budget
        /\ IF Dead(l) THEN Caught(l, NotInFlight(l), FALSE, TRUE)
           ELSE loop' = [loop EXCEPT ![l].pc = "turn"] /\ UNCHANGED q

\* The engine begins the install, or refuses it (another runs on the console).
InstallAsked(l) ==
  LET i == loop[l].item
      busy == \E k \in Items : inst[k] = "running" IN
  /\ At(l, "install") /\ UNCHANGED <<job, asleep, doc>>
  /\ \/ /\ ~busy /\ UNCHANGED budget
        /\ inst' = [inst EXCEPT ![i] = "running"]
        /\ asked' = [asked EXCEPT ![i] = @ - 1]
        /\ loop' = [loop EXCEPT ![l].pc = "installing"]
        /\ UNCHANGED q
     \/ /\ (busy /\ UNCHANGED budget) \/ Fault("installFails")
        /\ Caught(l, NotInFlight(l), FALSE, TRUE)
        /\ UNCHANGED <<inst, asked>>

\* watchInstallJob: the job's id arrives, and is saved.
InstallNamed(l) ==
  /\ At(l, "installing") /\ ~HeldRow(q, l).installJob
  /\ loop[l].item \in Present(q)
  /\ q' = Saved(SetRow(q, l, [HeldRow(q, l) EXCEPT !.installJob = TRUE]))
  /\ UNCHANGED <<loop, Engine, Rest>>

InstallOver(l) ==
  /\ At(l, "installing") /\ inst[loop[l].item] # "running" /\ UNCHANGED <<Engine, Rest>>
  /\ IF inst[loop[l].item] = "done" THEN Finished(l, NotInFlight(l))
     ELSE Caught(l, NotInFlight(l), FALSE, TRUE)

LoopStep(l) ==
  \/ Enter(l) \/ WaitedForInstall(l) \/ Claim(l) \/ Settled(l) \/ Prepared(l) \/ LookedUp(l)
  \/ JobStarts(l) \/ JobRefused(l) \/ Answered(l) \/ Polled(l) \/ LostContact(l) \/ Mounted(l)
  \/ Recovered(l)
  \/ Turn(l) \/ InstallAsked(l) \/ InstallNamed(l) \/ InstallOver(l)

-----------------------------------------------------------------------------
(* What the person does. *)

\* A call of the store: page, new loop, and the engine job it cancels, if any.
Does(op, p, jobs) ==
  /\ op \in Ops /\ InBound(p)
  /\ q' = p /\ loop' = Spawned(p) /\ job' \in jobs
  /\ budget' = budget - 1 - Cardinality({j \in Jobs : job'[j].cancelled /\ ~job[j].cancelled
                                                      /\ job'[j].state = "running"})
  /\ budget' >= 0
  /\ UNCHANGED <<inst, asleep, doc>>
Asks(S) ==
  asked' = [i \in Items |-> IF i \in S /\ KindOf[i] \in {"pkg", "install"} THEN asked[i] + 1
                           ELSE asked[i]]
AsksNothing == UNCHANGED asked

\* add and startAdded: the whole console starts, if that setting is on.
Add(i) ==
  LET added == Saved([q EXCEPT !.line = Append(@, i), !.row[i] = NewRow(i)]) IN
  /\ Row(q, i).status = "new"
  /\ \E p \in {added, StartHost(added, FullScope, FALSE)} : Does("add", p, {job})
  /\ Asks({i})

Start == Does("start", StartHost(q, FullScope, FALSE), {job}) /\ AsksNothing

StopConsole == Does("stop", StopHost(q), Cancelled(q.job)) /\ AsksNothing

\* stop(): only a console that runs is stopped, but none carries on by itself.
StopAll ==
  /\ AsksNothing
  /\ IF q.live # NoLoop THEN Does("stopAll", StopHost(q), Cancelled(q.job))
     ELSE Does("stopAll", [q EXCEPT !.whole = FALSE], {job})

\* clear: running installs stay.
Clear ==
  LET kept == {i \in Present(q) : IsInstallWork(Row(q, i)) /\ Row(q, i).status = "running"}
      gone == Present(q) \ kept
      left == [q EXCEPT
                !.line = Filter(@, kept), !.sent = Filter(@, kept),
                !.row = [i \in Items |-> IF i \in gone THEN [@[i] EXCEPT !.status = "removed"] ELSE @[i]]]
      stopped == IF q.live = NoLoop THEN left
                 ELSE [left EXCEPT !.live = NoLoop, !.job = NoJob, !.restart = NoRestart]
      cut == IF q.live = NoLoop THEN {job} ELSE Cancelled(q.job)
  IN  /\ Does("clear", Saved(stopped), {Discarded(jobs, {Row(q, i) : i \in gone}) : jobs \in cut})
      /\ AsksNothing

\* remove, and cancelItem of a row that does not run.
RemoveWaiting(i) ==
  /\ i \in Present(q) /\ Row(q, i).status # "running"
  /\ Does("remove", SettleSendNow(Saved(RemoveRow(q, i))), {Discarded(job, {Row(q, i)})})
  /\ AsksNothing

\* Mutant: the engine is not told.
DropUpload(i) ==
  LET stopped == SettleSendNow(Saved(RemoveRow(StopHost(q), i))) IN
  /\ i \in Present(q) /\ Row(q, i).status = "running" /\ ~IsInstallWork(Row(q, i))
  /\ Does("cancel", RestartAfterStop(stopped, q.job, FullScope), {job})
  /\ AsksNothing
\* cancelItem of the running upload: stop, drop the row, run the rest again.
CancelUpload(i) ==
  LET stopped == SettleSendNow(Saved(RemoveRow(StopHost(q), i))) IN
  /\ i \in Present(q) /\ Row(q, i).status = "running" /\ ~IsInstallWork(Row(q, i))
  /\ Does("cancel", IF q.live = NoLoop THEN stopped ELSE RestartAfterStop(stopped, q.job, FullScope),
          Cancelled(q.job))
  /\ AsksNothing

\* cancelItem of a running install: its engine job is stopped once its id is known.
CancelInstall(i) ==
  /\ i \in Present(q) /\ Row(q, i).status = "running" /\ IsInstallWork(Row(q, i))
  /\ Row(q, i).stopping = "no"
  /\ Does("cancel", Patch(q, i, [Row(q, i) EXCEPT
                      !.stopping = IF Row(q, i).installJob THEN "told" ELSE "asked"]), {job})
  /\ AsksNothing

PauseItem(i) ==
  /\ i \in Present(q) /\ CanPause(Row(q, i))
  /\ Does("pause", PauseRunning(q, i, "user", {}), Cancelled(q.job)) /\ AsksNothing

ResumeItem(i) ==
  /\ i \in Present(q) /\ Row(q, i).status = "pending" /\ Row(q, i).paused # "no"
  /\ Does("resume", JoinOrStart(Saved(Patch(q, i, [Row(q, i) EXCEPT !.paused = "no"])), i), {job})
  /\ AsksNothing

\* sendNow: ahead of everything; the upload going is paused, unless it was sent now itself.
SendNow(i) ==
  LET sent == Saved([q EXCEPT !.sent = Append(Filter(@, Items \ {i}), i)])
      going == {k \in Present(q) : Row(q, k).status = "running"}
      first == First(q.line, going)
      pausable == going # {} /\ CanPause(Row(q, first)) /\ first \notin Elems(q.sent) IN
  /\ i \in Present(q) /\ Row(q, i).status = "pending" /\ Row(q, i).paused = "no"
  /\ IF pausable
     THEN Does("sendNow", PauseRunning(sent, first, "sendNow", {i}), Cancelled(q.job))
     ELSE Does("sendNow", JoinOrStart(sent, i), {job})
  /\ AsksNothing

\* restartItem: the run the person started, once the engine has let go of the job.
RestartItem(i) ==
  /\ i \in Present(q) /\ Row(q, i).status = "running" /\ Row(q, i).kind # "install"
  /\ Does("restart", RestartAfterStop(StopHost(q), q.job, Widened(q.scope, {i})), Cancelled(q.job))
  /\ AsksNothing

\* retryPatch: a package that failed at its install installs from the copy on the console.
Retried(p, i) ==
  LET r == [Row(p, i) EXCEPT !.status = "pending"]
  IN  Patch(p, i, IF r.kind = "pkg" /\ r.uploadDone
                  THEN [r EXCEPT !.kind = "install", !.uploadDone = FALSE, !.installJob = FALSE] ELSE r)
RetryItem(i) ==
  /\ i \in Present(q) /\ Row(q, i).status = "failed"
  /\ Does("retry", StartHost(Saved(Retried(q, i)), Only({i}), FALSE), {job}) /\ Asks({i})

\* retryInstall.
RetryInstall(i) ==
  /\ i \in Present(q) /\ Row(q, i).status = "failed" /\ Row(q, i).kind = "install"
  /\ Does("retryInstall", StartHost(Saved(Patch(q, i, [Row(q, i) EXCEPT !.status = "pending"])),
                                    FullScope, FALSE), {job})
  /\ Asks({i})

RetryFailed ==
  LET failed == {i \in Present(q) : Row(q, i).status = "failed"}
      back == [q EXCEPT !.row = [i \in Items |->
                 IF i \in failed THEN [@[i] EXCEPT !.status = "pending"] ELSE @[i]]] IN
  /\ failed # {}
  /\ Does("retryFailed", StartHost(Saved(back), FullScope, FALSE), {job}) /\ Asks(failed)

\* moveUp, moveDown, moveTo: among the waiting rows of the same tier.
MoveTo(i, k) ==
  LET places == {n \in DOMAIN q.line :
                   Row(q, q.line[n]).status = "pending" /\ Tier[q.line[n]] = Tier[i]}
      after(n) == CHOOSE m \in places : n < m /\ \A x \in places : n < x => m <= x
      before(n) == CHOOSE m \in places : m < n /\ \A x \in places : x < n => x <= m
      line(from, to) == [n \in DOMAIN q.line |->
        IF n = to THEN i
        ELSE IF n \in places /\ from <= n /\ n < to THEN q.line[after(n)]
        ELSE IF n \in places /\ to < n /\ n <= from THEN q.line[before(n)]
        ELSE q.line[n]] IN
  /\ i # k
  /\ \E from, to \in places :
       /\ q.line[from] = i /\ q.line[to] = k
       /\ Does("move", Saved([q EXCEPT !.line = line(from, to)]), {job})
  /\ AsksNothing

PersonStep ==
  \/ Start \/ StopConsole \/ StopAll \/ Clear \/ RetryFailed
  \/ \E i \in Items :
       \/ Add(i) \/ RemoveWaiting(i) \/ CancelUpload(i) \/ CancelInstall(i) \/ PauseItem(i)
       \/ ResumeItem(i) \/ SendNow(i) \/ RestartItem(i) \/ RetryItem(i) \/ RetryInstall(i)
       \/ \E k \in Items : MoveTo(i, k)

-----------------------------------------------------------------------------
(* What the page does by itself, and the world around it. *)

Runs(p, jobs) == InBound(p) /\ q' = p /\ loop' = Spawned(p) /\ job' \in jobs
StartedIfPending(p, scope) == IF HasPending(p) THEN StartHost(p, scope, FALSE) ELSE p

\* restartAfterStop's wait is over: the stopped job has ended, or the tries have.
RestartNow ==
  LET j == q.restart.job
      over == [q EXCEPT !.restart = NoRestart] IN
  /\ q.restart.pending
  /\ j # NoJob => \/ job[j].state \notin {"running", "ending"}
                  \/ "lostCancel" \in Faults
  /\ Runs(StartedIfPending(over, q.restart.scope), {job})
  /\ UNCHANGED <<inst, Rest>>

\* cancelItem's task for a running install.  Without an id it stops the console instead.
StopInstall(i) ==
  LET r == Row(q, i)
      running == i \in Present(q) /\ r.status = "running"
      dropped(p) == Saved(RemoveRow([p EXCEPT !.row[i].stopping = "no"], i)) IN
  /\ UNCHANGED <<inst, Rest>>
  /\ \/ r.stopping = "asked" /\ running /\ r.installJob
        /\ Runs(Patch(q, i, [Row(q, i) EXCEPT !.stopping = "told"]), {job})
     \/ r.stopping = "asked" /\ running /\ ~r.installJob
        /\ Runs(Patch(StopHost(q), i, [Row(StopHost(q), i) EXCEPT !.stopping = "stopped"]),
                Cancelled(q.job))
     \/ r.stopping = "asked" /\ ~running
        /\ Runs(StartedIfPending(dropped(StopHost(q)), FullScope), Cancelled(q.job))
     \/ r.stopping = "told" /\ ~running /\ Runs(dropped(q), {job})
     \/ r.stopping = "stopped" /\ ~running
        /\ Runs(StartedIfPending(dropped(q), FullScope), {job})
     \/ r.stopping \in {"told", "stopped"} /\ running
        /\ Runs(Saved(Patch(q, i, [Row(q, i) EXCEPT !.stopping = "no"])), {job})

\* resumeFailedRecoverable, when the console's helper answers again.
ResumeFailedRecoverable ==
  LET failed == {i \in Present(q) : CanResumeUnattended(Row(q, i))}
      parked == {i \in Present(q) : Row(q, i).status = "pending" /\ Row(q, i).wake}
      back == [q EXCEPT !.row = [i \in Items |->
                 IF i \in failed THEN [@[i] EXCEPT !.status = "pending"] ELSE @[i]]]
      p == IF failed = {} THEN q ELSE Saved(back) IN
  /\ AutoResume /\ ~asleep /\ failed \cup parked # {}
  /\ Runs(StartHost(p, IF q.whole THEN FullScope ELSE Only(failed \cup parked), TRUE), {job})
  /\ UNCHANGED <<inst, Rest>>

\* reattachRunning: one row's job is looked up; after the last one the console starts.
Reattach(i) ==
  LET alive == job[Row(q, i).job].state \in {"running", "ending", "done"}
      found == q.found \/ alive
      looked == [(IF alive THEN Patch(q, i, [Row(q, i) EXCEPT !.attach = TRUE]) ELSE q) EXCEPT
                   !.looking = @ \ {i}, !.found = found]
      last == looked.looking = {} /\ found IN
  /\ i \in q.looking
  /\ Runs(IF last THEN StartHost([looked EXCEPT !.found = FALSE], FullScope, TRUE) ELSE looked, {job})
  /\ UNCHANGED <<inst, Rest>>

\* findInstallJob: an install from before the reload has ended, or the engine does not know it.
FoundInstall(i) ==
  /\ i \in q.finding /\ inst[i] # "running"
  /\ LET over == [q EXCEPT !.finding = @ \ {i}, !.inflight = IF @ = i THEN NoLoop ELSE @]
     IN  q' = Saved(Patch(over, i, [Row(over, i) EXCEPT
                                      !.status = IF inst[i] = "done" THEN "done" ELSE "failed"]))
  /\ UNCHANGED <<loop, Engine, Rest>>

Save ==
  /\ q.dirty /\ doc' = Document /\ q' = [q EXCEPT !.dirty = FALSE]
  /\ UNCHANGED <<loop, Engine, asleep, budget, asked>>

\* The page from the saved queue d: rows whose install is followed, whose install is lost,
\* and that go back in line.
FromSaved(d, follow, lost, again) ==
  LET row(i) == [d.row[i] EXCEPT
                   !.attach = FALSE,
                   !.stopping = IF @ = "no" THEN "no" ELSE "stale",
                   !.status = IF i \in lost THEN "failed" ELSE IF i \in again THEN "pending" ELSE @,
                   !.interrupted = @ \/ i \in again]
  IN  [line |-> d.line, row |-> [i \in Items |-> row(i)], sent |-> d.sent,
       live |-> NoLoop, scope |-> FullScope, whole |-> FALSE, restart |-> NoRestart,
       job |-> NoJob, inflight |-> IF follow = {} THEN NoLoop ELSE CHOOSE i \in follow : TRUE,
       looking |-> {i \in again : d.row[i].job # NoJob}, found |-> FALSE,
       finding |-> follow, dirty |-> FALSE]
WasRunning(d) == {i \in Elems(d.line) : d.row[i].status = "running"}
WasInstalling(d) == {i \in WasRunning(d) : IsInstallWork(d.row[i])}

\* Mutant: every row that ran goes back in line.
HydratedAsUploads(d) == FromSaved(d, {}, {}, WasRunning(d))
\* Mutant: only uploads are reset.
HydratedUploadsOnly(d) == FromSaved(d, {}, {}, WasRunning(d) \ WasInstalling(d))
\* hydrate.
Hydrated(d) ==
  LET follow == {i \in WasInstalling(d) : d.row[i].installJob}
  IN  FromSaved(d, follow, WasInstalling(d) \ follow, WasRunning(d) \ WasInstalling(d))

\* A reload ends the page's loops; the engine's jobs go on.
PageIsNew == q = Hydrated(doc) /\ \A l \in Loops : loop[l].pc = "off"
Reload ==
  /\ Fault("reload") /\ ~PageIsNew /\ (q.dirty => "earlyReload" \in Faults)
  /\ q' = Hydrated(doc)
  /\ loop' = [l \in Loops |-> NoRun]
  /\ job' = [j \in Jobs |-> [job[j] EXCEPT !.cancelled = FALSE]]
  /\ UNCHANGED <<inst, RestBut>>

\* Nothing is asked about an ended job but how it ended.
JobEnds(j) ==
  /\ job[j].state \in {"running", "ending"}
  /\ \E s \in {"done", "failed"} :
       /\ job' = [job EXCEPT ![j] = [item |-> NoItem, state |-> s, cancelled |-> FALSE]]
       /\ IF s = "failed" /\ job[j].state = "running" THEN Fault("jobFails") ELSE UNCHANGED budget
  /\ UNCHANGED <<q, loop, inst, RestBut>>
InstallEnds(i) ==
  /\ inst[i] = "running"
  /\ \/ inst' = [inst EXCEPT ![i] = "done"] /\ UNCHANGED budget
     \/ inst' = [inst EXCEPT ![i] = "failed"] /\ Fault("installFails")
  /\ UNCHANGED <<q, loop, job, RestBut>>
Sleeps ==
  /\ Fault("sleep") /\ ~asleep /\ asleep' = TRUE
  /\ UNCHANGED <<q, loop, Engine, doc, asked>>
Wakes ==
  /\ asleep /\ asleep' = FALSE
  /\ UNCHANGED <<q, loop, Engine, doc, budget, asked>>

Init ==
  /\ doc = [line |-> Queued, sent |-> <<>>,
            row |-> [i \in Items |-> [NewRow(i) EXCEPT
                       !.status = IF i \in Elems(Queued) THEN "pending" ELSE "new"]]]
  /\ q = Hydrated(doc)
  /\ loop = [l \in Loops |-> NoRun]
  /\ job = [j \in Jobs |-> [item |-> NoItem, state |-> "done", cancelled |-> FALSE]]
  /\ inst = [i \in Items |-> "none"]
  /\ asleep = FALSE /\ budget = MaxEvents
  /\ asked = [i \in Items |-> IF i \in Elems(Queued) /\ KindOf[i] \in {"pkg", "install"} THEN 1 ELSE 0]

PageStep ==
  \/ RestartNow \/ ResumeFailedRecoverable \/ Save
  \/ \E i \in Items : StopInstall(i) \/ Reattach(i) \/ FoundInstall(i)
EngineStep == (\E j \in Jobs : JobEnds(j)) \/ (\E i \in Items : InstallEnds(i))

Next == \/ PersonStep \/ PageStep \/ EngineStep \/ Sleeps \/ Wakes \/ Reload
        \/ \E l \in Loops : LoopStep(l)
Spec == Init /\ [][Next]_vars

\* Timers fire, requests are answered or time out, jobs and installs end; the person and the
\* faults owe nothing.
Fairness ==
  /\ \A l \in Loops : WF_vars(LoopStep(l))
  /\ WF_vars(RestartNow) /\ WF_vars(Save) /\ WF_vars(ResumeFailedRecoverable)
  /\ \A i \in Items : WF_vars(StopInstall(i)) /\ WF_vars(Reattach(i)) /\ WF_vars(FoundInstall(i))
                    /\ WF_vars(InstallEnds(i))
  /\ \A j \in Jobs : WF_vars(JobEnds(j))
LiveSpec == Spec /\ Fairness

-----------------------------------------------------------------------------
(* What the queue promises. *)

RowSet ==
  [status : {"new", "pending", "running", "done", "failed", "removed"}, kind : Kinds,
   paused : {"no", "user", "sendNow"}, uploadDone : BOOLEAN, job : Jobs \cup {NoJob},
   attach : BOOLEAN, installJob : BOOLEAN,
   stopping : {"no", "asked", "told", "stopped", "stale"},
   wake : BOOLEAN, interrupted : BOOLEAN, fixable : BOOLEAN]
ScopeSet == [full : BOOLEAN, ids : SUBSET Items]
PageSet ==
  [line : Seq(Items), row : [Items -> RowSet], sent : Seq(Items),
   live : Loops \cup {NoLoop, NoRoom}, scope : ScopeSet, whole : BOOLEAN,
   restart : [pending : BOOLEAN, job : Jobs \cup {NoJob}, scope : ScopeSet],
   job : Jobs \cup {NoJob}, inflight : Loops \cup Items \cup {NoLoop},
   looking : SUBSET Items, found : BOOLEAN, finding : SUBSET Items, dirty : BOOLEAN]
LoopSet ==
  [pc : {"off", "enter", "waitInstall", "retake", "settle", "prep", "lookup", "ask", "asked",
         "poll", "mount", "backoff", "turn", "turnWait", "install", "installing"},
   item : Items \cup {NoItem}, kind : Kinds, job : Jobs \cup {NoJob}, n : 0 .. MaxRecover,
   ran : BOOLEAN, sent : BOOLEAN, on : Loops \cup Items \cup {NoLoop}]
JobSet == [item : Items \cup {NoItem}, state : {"running", "ending", "done", "failed"},
           cancelled : BOOLEAN]

\* line, sent and row describe one list (the code's items, with sendNowAt in the item).
OneList(p) ==
  /\ Distinct(p.line) /\ Elems(p.line) = Present(p)
  /\ Distinct(p.sent) /\ Elems(p.sent) \subseteq Present(p)

\* Type correctness of the page, the loops, the engine's jobs and installs and the file; a
\* console that is to run again does not run.
TypeOK ==
  /\ OneList(q) /\ OneList(doc)
  /\ q \in PageSet /\ q.live # NoRoom /\ (q.restart.pending => q.live = NoLoop)
  /\ loop \in [Loops -> LoopSet] /\ job \in [Jobs -> JobSet]
  /\ inst \in [Items -> {"none", "running", "done", "failed"}] /\ asleep \in BOOLEAN
  /\ doc \in [line : Seq(Items), row : [Items -> RowSet], sent : Seq(Items)]
  /\ budget \in 0 .. MaxEvents /\ asked \in [Items -> Int]

Holding(l) == loop[l].pc \notin {"off", "enter", "waitInstall", "retake", "settle"}

\* A row shown as running is in the hands of the loop that runs the console, or it is an install
\* that a stopped loop or the lookup after a reload still follows: no row is left running with
\* nobody to end it (stopHost, resetRunningToPending, hydrate, findInstallJob).
RunningHasRunner ==
  \A i \in Present(q) : q.row[i].status = "running" =>
    \/ i \in q.finding
    \/ \E l \in Loops : /\ loop[l].item = i /\ Holding(l)
                        /\ ~Dead(l) \/ IsInstallWork(q.row[i])

Going(j) == job[j].state = "running" /\ ~job[j].cancelled

\* Every transfer the engine runs and was not told to stop is one the queue can still stop: its
\* start answer is on the way to a loop, it is the job Stop would cancel, or a row that is still
\* in the list names it and adopts it when it runs again (stopHost, liveJobFor, reattachRunning).
JobsAreReachable ==
  \A j \in Jobs : Going(j) =>
    \/ q.job = j \/ \E l \in Loops : loop[l].job = j /\ loop[l].pc = "asked"
    \/ \E i \in Present(q) : q.row[i].job = j

\* The queue never has two transfers of one row going: an earlier job is adopted or waited for
\* (liveJobFor). A start request that a Stop overtook is cancelled when its answer comes.
NoTwinJobs ==
  \A j, k \in Jobs : j # k /\ Going(j) /\ Going(k) /\ job[j].item = job[k].item =>
    \E l \in Loops : Dead(l) /\ loop[l].pc = "asked" /\ loop[l].job \in {j, k}

\* An upload that Send now paused waits for a row sent now that is still to run or running: it is
\* given back when the last such row ends, is removed or is paused (settleSendNow).
SentNowGivesBack ==
  \A i \in Present(q) : q.row[i].paused = "sendNow" /\ q.row[i].status = "pending" =>
    \E k \in Elems(q.sent) : q.row[k].paused = "no" /\ q.row[k].status \in {"pending", "running"}

\* An install begins at most once for each time the person asked for it: no stop, restart,
\* recovery, wake or reload repeats it (isInstallWork, canResumeUnattended, hydrate).
InstallsOnlyWhenAsked == \A i \in Items : asked[i] >= 0

\* While a run goes on, the transfer it follows is not cancelled: only what ends the run does
\* that. A loop that was stopped has no say in the run after it (isLive, cancelEngineJob).
RunKeepsItsTransfer ==
  [][\A l \in Loops, j \in Jobs :
       q.live = l /\ q'.live = l /\ At(l, "poll") /\ loop[l].job = j /\ ~job[j].cancelled
         => ~job'[j].cancelled]_vars

\* Once the person pressed Start, and as long as they do not stop or clear the console, the queue
\* runs to its end: no cancel, pause, resume, Send now, restart or move loses the run that was
\* asked for, and in the end no row that is not paused waits (restartAfterStop, startHost).
StartedQueueDrains ==
  (<>q.whole) => <>[](\A i \in Present(q) :
                        q.row[i].status # "running" /\ (q.row[i].status = "pending" => q.row[i].paused # "no"))
=============================================================================
