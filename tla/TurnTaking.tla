----------------------------- MODULE TurnTaking -----------------------------
(***************************************************************************)
(* How the app takes its turn on a console that the engine's queue uses    *)
(* too (src/client/src/api/engineQueue.ts): a run of the app's queue asks  *)
(* the engine for the console, renews that hold by a timer while it lasts, *)
(* takes it again before a job if it may have lapsed, and gives it back.   *)
(* The engine's side is ConsoleTurns, which EngineQueue implements, with   *)
(* the time a hold lasts added.  Requests and answers take time and may    *)
(* overtake each other; a timer may be late.  Time is counted in ticks of  *)
(* half a minute.                                                          *)
(***************************************************************************)
EXTENDS Naturals, FiniteSets

CONSTANTS
  Items,       \* of the engine's queue
  Runs,        \* the app's runs on the console, each with a holder of its own; bounds them
  NoRun,
  TTL,         \* HOLD_TTL_S
  RenewBy,     \* a timer of a hidden tab fires at least this often
  MaxDelay,    \* a request and its answer take no longer
  MaxRenewals, \* bound on the renewals of one hold under way
  Faults       \* of {"lateTimer", "lostRelease", "noAnswer"}

ASSUME TimesAssumption ==
  /\ {TTL, RenewBy, MaxDelay, MaxRenewals} \subseteq Nat /\ NoRun \notin Runs
  /\ RenewBy + 2 * MaxDelay < TTL

VARIABLES
  at, held,    \* the engine: what runs, and who holds the console
  until,       \* the engine: how long each hold lasts
  net,         \* requests under way and answers on their way back
  live,        \* the run that has the app's queue (isLive)
  pc,          \* where each run is
  hold,        \* each run's Held record and its renewal timer
  current,     \* held.get(host): the run whose record the page finds for the console
  taking,      \* the record a run that takes the hold again found there
  late         \* history: a timer or an answer was later than a hold allows

app == <<live, pc, hold, current, taking>>
vars == <<at, held, until, net, app, late>>

Console == "console"
Engine == INSTANCE ConsoleTurns WITH Consoles <- {Console}, Holders <- Runs

Holds(r) == r \in held[Console]
ItemRuns == at[Console] # {}

Kinds == {"ask", "renew", "retake", "release"}
\* A request, and the run that awaits its answer.
Sent(kind, r, h) == [kind |-> kind, run |-> r, holder |-> h, answer |-> "none", age |-> 0]
Sends(m) == net' = net \cup {m}
Answer(kind, r) == {m \in net : m.kind = kind /\ m.run = r /\ m.answer # "none"}

-----------------------------------------------------------------------------
(* The app. *)

\* startHost: the run is the live one and asks.
Begin(r) ==
  /\ live = NoRun /\ pc[r] = "new" /\ r = CHOOSE q \in Runs : pc[q] = "new"
  /\ live' = r /\ pc' = [pc EXCEPT ![r] = "asking"] /\ Sends(Sent("ask", r, r))
  /\ UNCHANGED <<at, held, until, hold, current, taking, late>>

\* stopHost.
Stop ==
  /\ live # NoRun /\ live' = NoRun
  /\ UNCHANGED <<at, held, until, net, pc, hold, current, taking, late>>

NoHold == [age |-> 0, lost |-> FALSE, timer |-> FALSE]
NewHold == [age |-> 0, lost |-> FALSE, timer |-> TRUE]

\* Mutant: the timer is not cleared.
GivesBackAndRenews(r, cur, left) ==
  /\ current' = IF cur = r THEN NoRun ELSE cur
  /\ net' = left \cup {Sent("release", r, r)}
  /\ pc' = [pc EXCEPT ![r] = "over"] /\ UNCHANGED hold
\* The function holdConsoleFromEngineQueue returns, called by run r.
GivesBack(r, cur, left) ==
  /\ hold' = [hold EXCEPT ![r] = NoHold]
  /\ current' = IF cur = r THEN NoRun ELSE cur
  /\ net' = left \cup {Sent("release", r, r)}
  /\ pc' = [pc EXCEPT ![r] = "over"]

\* askForHold's answer: refused, ask again in a while; else the hold is kept, or given back at
\* once by a run that was stopped meanwhile.
Asked(r) ==
  /\ pc[r] \in {"asking", "again"} /\ UNCHANGED <<at, held, until, live, taking, late>>
  /\ \E m \in Answer("ask", r) :
       \/ /\ m.answer = "no" /\ net' = net \ {m}
          /\ pc' = [pc EXCEPT ![r] = "again"] /\ UNCHANGED <<hold, current>>
       \/ /\ m.answer = "yes" /\ live = r /\ net' = net \ {m}
          /\ pc' = [pc EXCEPT ![r] = "between"]
          /\ hold' = [hold EXCEPT ![r] = NewHold] /\ current' = r
       \/ m.answer = "yes" /\ live # r /\ GivesBack(r, r, net \ {m})

\* Mutant: a run that was refused only looks whether it was stopped.
WaitRefused(r) ==
  /\ pc[r] = "again" /\ live # r /\ pc' = [pc EXCEPT ![r] = "over"]
  /\ UNCHANGED <<at, held, until, net, live, hold, current, taking, late>>
\* After ASK_AGAIN_MS, or once a minute on a hidden tab.
AskAgain(r) ==
  /\ pc[r] = "again" /\ UNCHANGED <<at, held, until, live, hold, current, taking, late>>
  /\ \A m \in net : ~(m.kind = "ask" /\ m.run = r)
  /\ IF live = r THEN Sends(Sent("ask", r, r)) /\ UNCHANGED pc
     ELSE pc' = [pc EXCEPT ![r] = "over"] /\ UNCHANGED net

\* Mutant: the timer notes the time and asks for nothing.
RenewNoted(r) ==
  /\ hold[r].timer /\ hold[r].age > 0 /\ hold' = [hold EXCEPT ![r].age = 0]
  /\ UNCHANGED <<at, held, until, net, live, pc, current, taking, late>>
\* renewHold, from the timer or because the upload made progress (keepEngineQueueHold); those of
\* one tick are one renewal.
Renew(r) ==
  /\ hold[r].timer /\ hold[r].age > 0
  /\ Cardinality({m \in net : m.kind = "renew" /\ m.run = r}) < MaxRenewals
  /\ hold' = [hold EXCEPT ![r].age = 0] /\ Sends(Sent("renew", r, r))
  /\ UNCHANGED <<at, held, until, live, pc, current, taking, late>>
Renewed(r) ==
  /\ \E m \in Answer("renew", r) :
       /\ net' = net \ {m}
       /\ hold' = [hold EXCEPT ![r].lost = hold[r].timer]
  /\ UNCHANGED <<at, held, until, live, pc, current, taking, late>>

\* retakeEngineQueueHold before a job, which then starts unless the run was stopped. A renewal sent
\* less than RENEW_EVERY_MS ago counts as good, answered or not; that is less than a tick, so with
\* age 0 both happen.
Retake(r) ==
  /\ pc[r] = "between" /\ live = r /\ UNCHANGED <<at, held, until, live, current, late>>
  /\ \/ /\ IF current = NoRun THEN TRUE ELSE ~hold[current].lost /\ hold[current].age = 0
        /\ pc' = [pc EXCEPT ![r] = "job"] /\ UNCHANGED <<net, hold, taking>>
     \/ /\ current # NoRun
        /\ pc' = [pc EXCEPT ![r] = "retaking"] /\ taking' = [taking EXCEPT ![r] = current]
        /\ hold' = [hold EXCEPT ![current].age = 0] /\ Sends(Sent("retake", r, current))
Retaken(r) ==
  /\ pc[r] \in {"retaking", "retakeAgain"} /\ UNCHANGED <<at, held, until, live, current, late>>
  /\ \E m \in Answer("retake", r) :
       /\ net' = net \ {m}
       /\ IF m.answer = "yes"
          THEN /\ pc' = [pc EXCEPT ![r] = IF live = r THEN "job" ELSE "between"]
               /\ hold' = [hold EXCEPT ![m.holder].lost = FALSE]
               /\ taking' = [taking EXCEPT ![r] = NoRun]
          ELSE pc' = [pc EXCEPT ![r] = "retakeAgain"] /\ UNCHANGED <<hold, taking>>
\* Mutant: looks the record up again, which may be gone.
RetakeFound(r) ==
  /\ pc[r] = "retakeAgain" /\ live = r /\ \A m \in net : ~(m.kind = "retake" /\ m.run = r)
  /\ Sends(Sent("retake", r, current))
  /\ UNCHANGED <<at, held, until, live, pc, hold, current, taking, late>>
RetakeAgain(r) ==
  /\ pc[r] = "retakeAgain" /\ UNCHANGED <<at, held, until, live, hold, current, late>>
  /\ \A m \in net : ~(m.kind = "retake" /\ m.run = r)
  /\ IF live = taking[r] THEN Sends(Sent("retake", r, taking[r])) /\ UNCHANGED <<pc, taking>>
     ELSE /\ pc' = [pc EXCEPT ![r] = IF live = r THEN "job" ELSE "between"]
          /\ taking' = [taking EXCEPT ![r] = NoRun] /\ UNCHANGED net

JobEnds(r) ==
  /\ pc[r] = "job" /\ pc' = [pc EXCEPT ![r] = "between"]
  /\ UNCHANGED <<at, held, until, net, live, hold, current, taking, late>>

\* The drain loop returns: nothing is left to run, or it finds that it was stopped.
GiveBack(r) ==
  /\ pc[r] = "between"
  /\ live' = IF live = r THEN NoRun ELSE live
  /\ GivesBack(r, current, net) /\ UNCHANGED <<at, held, until, taking, late>>

-----------------------------------------------------------------------------
(* The engine, the network and time. *)

\* The answer is on its way; nobody acts on a renewal's yes.
Answers(m, a) ==
  net' = (net \ {m}) \cup (IF m.kind = "renew" /\ a = "yes" THEN {} ELSE {[m EXCEPT !.answer = a]})

\* hold_handler and release_handler.
Handle(m) ==
  /\ m.answer = "none" /\ UNCHANGED <<app, late>>
  /\ \/ /\ m.kind = "release" /\ net' = net \ {m}
        /\ Engine!Release(Console, m.holder) /\ until' = [until EXCEPT ![m.holder] = 0]
     \/ /\ m.kind # "release" /\ Engine!Hold(Console, m.holder)
        /\ until' = [until EXCEPT ![m.holder] = TTL]
        /\ Answers(m, "yes")
     \/ /\ m.kind # "release" /\ ItemRuns /\ UNCHANGED <<at, held, until>>
        /\ Answers(m, "no")

LoseRelease(m) ==
  /\ "lostRelease" \in Faults /\ m.kind = "release" /\ net' = net \ {m}
  /\ UNCHANGED <<at, held, until, app, late>>

\* The request fails, or is not answered within its time limit (60 s, longer than MaxDelay stands
\* for): askForHold takes the error for a yes.
NoAnswer(m) ==
  /\ "noAnswer" \in Faults /\ ~late /\ m.kind # "release" /\ m.answer # "yes"
  /\ Answers(m, "yes") /\ late' = TRUE
  /\ UNCHANGED <<at, held, until, app>>

\* next_step, at any time: the pause after an item (3 s) is far below a tick.
ItemStarts(i) == Engine!Start(Console, i) /\ UNCHANGED <<until, net, app, late>>
ItemEnds == Engine!End(Console) /\ UNCHANGED <<until, net, app, late>>

\* holders(): a hold whose time is over is no longer one.
Lapse(r) ==
  /\ Holds(r) /\ until[r] = 0 /\ Engine!Release(Console, r)
  /\ UNCHANGED <<until, net, app, late>>

\* Half a minute passes.  A request is there within MaxDelay, and so is its answer; a timer fires
\* in time unless that is a fault of the instance.
Tick ==
  LET due == \E r \in Runs : hold[r].timer /\ hold[r].age = RenewBy IN
  /\ \A m \in net : m.age < MaxDelay
  /\ \A r \in Runs : Holds(r) => until[r] > 0
  /\ due => "lateTimer" \in Faults
  /\ late' = (late \/ due)
  /\ net' = {[m EXCEPT !.age = @ + 1] : m \in net}
  /\ until' = [r \in Runs |-> IF Holds(r) THEN until[r] - 1 ELSE 0]
  /\ hold' = [r \in Runs |-> IF hold[r].timer /\ hold[r].age < RenewBy
                             THEN [hold[r] EXCEPT !.age = @ + 1] ELSE hold[r]]
  /\ UNCHANGED <<at, held, live, pc, current, taking>>

Init ==
  /\ Engine!Init
  /\ until = [r \in Runs |-> 0] /\ net = {} /\ late = FALSE
  /\ live = NoRun /\ current = NoRun /\ taking = [r \in Runs |-> NoRun]
  /\ pc = [r \in Runs |-> "new"] /\ hold = [r \in Runs |-> NoHold]

\* What the run's loop does, and what happens beside it.
Loop(r) == Asked(r) \/ AskAgain(r) \/ Retaken(r) \/ RetakeAgain(r)
RunStep(r) ==
  \/ Begin(r) \/ Loop(r) \/ Retake(r) \/ JobEnds(r) \/ GiveBack(r) \/ Renew(r) \/ Renewed(r)

Next ==
  \/ Stop \/ Tick \/ ItemEnds
  \/ \E r \in Runs : RunStep(r) \/ Lapse(r)
  \/ \E m \in net : Handle(m) \/ LoseRelease(m) \/ NoAnswer(m)
  \/ \E i \in Items : ItemStarts(i)

Spec == Init /\ [][Next]_vars

\* Time goes on, requests arrive, a run does its next step and its timer fires at last; an item of
\* the engine's queue ends.  Nobody need start a run, stop one or start an item.
Fairness ==
  /\ WF_vars(Tick) /\ WF_vars(ItemEnds)
  /\ \A r \in Runs :
       /\ WF_vars(Loop(r) \/ (live # r /\ (JobEnds(r) \/ GiveBack(r))))
       /\ WF_vars(Lapse(r)) /\ WF_vars(Renewed(r)) /\ WF_vars(hold[r].age = RenewBy /\ Renew(r))
       /\ WF_vars(\E m \in net : m.run = r /\ m.kind = "renew" /\ Handle(m))
       /\ WF_vars(\E m \in net : m.run = r /\ m.kind # "renew" /\ Handle(m))
LiveSpec == Spec /\ Fairness

-----------------------------------------------------------------------------
(* What taking turns promises. *)

\* Type correctness of both sides and of the requests; a hold's time never exceeds its limit.
TypeOK ==
  /\ at \in [{Console} -> SUBSET Items] /\ held \in [{Console} -> SUBSET Runs]
  /\ live \in Runs \cup {NoRun} /\ current \in Runs \cup {NoRun} /\ taking \in [Runs -> Runs \cup {NoRun}]
  /\ \A r \in Runs : pc[r] \in {"retaking", "retakeAgain"} => taking[r] # NoRun
  /\ pc \in [Runs -> {"new", "asking", "again", "between", "retaking", "retakeAgain", "job", "over"}]
  /\ hold \in [Runs -> [age : 0 .. RenewBy, lost : BOOLEAN, timer : BOOLEAN]]
  /\ until \in [Runs -> 0 .. TTL] /\ late \in BOOLEAN
  /\ net \subseteq [kind : Kinds, run : Runs, holder : Runs,
                    answer : {"none", "yes", "no"}, age : 0 .. MaxDelay]

\* As long as timers fire at least once a minute and the engine answers in time, a job of the
\* app's queue and an item of the engine's queue are never on the console together, whatever a
\* run that was stopped still does (askForHold, renewHold, retakeEngineQueueHold, HOLD_TTL_S).
NeverTogether == ~late => \A r \in Runs : live = r /\ pc[r] = "job" => ~ItemRuns

\* The app lets go: once no run has the queue any more, the engine's queue can have the console,
\* though releases are lost and a renewal may arrive after its release (HOLD_TTL_S).
ConsoleComesFree == <>[](live = NoRun) => <>[](held[Console] = {})

\* A run that waits for the console is never forgotten: whatever was refused, lost or answered late,
\* once the engine's queue starts nothing more there, the run gets its turn or is stopped. (Between
\* two items of the engine's queue it may miss its turn: see ItemStarts and AskAgain.)
Waits(r) == live = r /\ pc[r] \in {"asking", "again", "retaking", "retakeAgain"}
TurnComes ==
  <>[]~ItemRuns => \A r \in Runs : Waits(r) ~> (live # r \/ pc[r] \in {"between", "job"})
=============================================================================
