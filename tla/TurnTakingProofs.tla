-------------------------- MODULE TurnTakingProofs --------------------------
(***************************************************************************)
(* The app's queue and the engine's never work on the console together, for *)
(* any number of runs and renewals and any times that satisfy              *)
(* TimesAssumption: the hold of a run that works always has time left,     *)
(* because a renewal either was handled recently or is on its way.         *)
(***************************************************************************)
EXTENDS TurnTaking, TLAPS

\* The run has its hold and the timer that renews it.
Timed(r) == pc[r] \in {"between", "retaking", "retakeAgain", "job"}

TimerRuns == \A r \in Runs : hold[r].timer <=> Timed(r)
ReleasedIsOver == \A m \in net : m.kind = "release" => pc[m.holder] = "over"
NewIsSilent == \A m \in net : pc[m.run] # "new"
OwnHold == \A m \in net : m.kind # "retake" => m.holder = m.run
EngineExcludes == ItemRuns => held[Console] = {}
Shape == TimerRuns /\ ReleasedIsOver /\ NewIsSilent /\ OwnHold /\ EngineExcludes

\* A hold that was granted and whose answer is still on its way.
Granted ==
  \A m \in net : m.kind = "ask" /\ m.answer = "yes" /\ pc[m.run] \in {"asking", "again"} =>
                 Holds(m.run) /\ until[m.run] + m.age >= TTL

\* The hold was renewed lately, or a renewal sent in time is on its way.
Renewing(r, m) ==
  /\ m.holder = r /\ m.kind \in {"renew", "retake"} /\ m.answer = "none"
  /\ until[r] + MaxDelay + RenewBy + m.age >= TTL
TimeLeft(r) ==
  \/ until[r] + MaxDelay + hold[r].age >= TTL
  \/ \E m \in net : Renewing(r, m)
Kept == \A r \in Runs : Timed(r) => Holds(r) /\ TimeLeft(r)

IInv ==
  /\ TypeOK /\ Shape
  /\ ~late => Granted /\ Kept

Messages == [kind : Kinds, run : Runs, holder : Runs, answer : {"none", "yes", "no"}, age : 0 .. MaxDelay]

-----------------------------------------------------------------------------
(* Requests. *)

\* What is sent is a request with its fields.
LEMMA SentIs ==
  ASSUME NEW k \in Kinds, NEW r \in Runs, NEW h \in Runs
  PROVE  /\ Sent(k, r, h) \in Messages
         /\ Sent(k, r, h).kind = k /\ Sent(k, r, h).run = r /\ Sent(k, r, h).holder = h
         /\ Sent(k, r, h).answer = "none" /\ Sent(k, r, h).age = 0
BY TimesAssumption DEF Sent, Messages

\* The answer to a request is that request, answered.
LEMMA AnswerIs ==
  ASSUME NEW m \in Messages, NEW a \in {"yes", "no"}
  PROVE  /\ [m EXCEPT !.answer = a] \in Messages
         /\ [m EXCEPT !.answer = a].kind = m.kind /\ [m EXCEPT !.answer = a].run = m.run
         /\ [m EXCEPT !.answer = a].holder = m.holder /\ [m EXCEPT !.answer = a].age = m.age
         /\ [m EXCEPT !.answer = a].answer = a
BY DEF Messages

\* A request that is on its way a tick longer is the same but for its age.
LEMMA OlderIs ==
  ASSUME NEW m \in Messages, m.age < MaxDelay
  PROVE  /\ [m EXCEPT !.age = @ + 1] \in Messages
         /\ [m EXCEPT !.age = @ + 1].kind = m.kind /\ [m EXCEPT !.age = @ + 1].run = m.run
         /\ [m EXCEPT !.age = @ + 1].holder = m.holder
         /\ [m EXCEPT !.age = @ + 1].answer = m.answer
         /\ [m EXCEPT !.age = @ + 1].age = m.age + 1
BY TimesAssumption DEF Messages

\* What is on its way once m is answered.
LEMMA NetAnswered ==
  ASSUME net \subseteq Messages, NEW m \in net, NEW a \in {"yes", "no"}, Answers(m, a)
  PROVE  /\ net \ {m} \subseteq net'
         /\ \A n \in net' : \/ n \in net
                          \/ /\ n.kind = m.kind /\ n.run = m.run /\ n.holder = m.holder
                             /\ n.age = m.age /\ n.answer = a
<1>1. net \ {m} \subseteq net' /\ net' \subseteq (net \ {m}) \cup {[m EXCEPT !.answer = a]}
  BY DEF Answers
<1>2. m \in Messages
  OBVIOUS
<1>3. ASSUME NEW n \in net'
      PROVE  \/ n \in net
             \/ /\ n.kind = m.kind /\ n.run = m.run /\ n.holder = m.holder
                /\ n.age = m.age /\ n.answer = a
  <2>1. CASE n = [m EXCEPT !.answer = a]
    BY <2>1, <1>2, AnswerIs
  <2> QED
    BY <1>1, <2>1
<1> QED
  BY <1>1, <1>3

\* The same request, a tick older.
SameRequest(m, n) ==
  m.kind = n.kind /\ m.run = n.run /\ m.holder = n.holder /\ m.answer = n.answer /\ n.age = m.age + 1

\* A tick makes everything on its way a tick older and changes nothing else of it.
LEMMA NetTicks ==
  ASSUME net \subseteq Messages, Tick
  PROVE  /\ \A n \in net' : \E m \in net : SameRequest(m, n)
         /\ \A m \in net : \E n \in net' : SameRequest(m, n)
<1>1. ASSUME NEW m \in net
      PROVE  SameRequest(m, [m EXCEPT !.age = @ + 1])
  <2>1. m \in Messages /\ m.age < MaxDelay
    BY DEF Tick
  <2> QED
    BY <2>1, OlderIs DEF SameRequest
<1>2. net' = {[m EXCEPT !.age = @ + 1] : m \in net}
  BY DEF Tick
<1>3. ASSUME NEW n \in net' PROVE \E m \in net : SameRequest(m, n)
  <2>1. PICK m \in net : n = [m EXCEPT !.age = @ + 1]
    BY <1>2
  <2> QED
    BY <2>1, <1>1
<1>4. ASSUME NEW m \in net PROVE \E n \in net' : SameRequest(m, n)
  <2>1. [m EXCEPT !.age = @ + 1] \in net'
    BY <1>2
  <2> QED
    BY <2>1, <1>1
<1> QED
  BY <1>3, <1>4

-----------------------------------------------------------------------------
(* Type correctness. *)

\* Every state has its type initially.
LEMMA InitType == Init => TypeOK
<1> SUFFICES ASSUME Init PROVE TypeOK
  OBVIOUS
<1>1. at \in [{Console} -> SUBSET Items] /\ held \in [{Console} -> SUBSET Runs]
  BY DEF Init, Engine!Init
<1>2. NoHold \in [age : 0 .. RenewBy, lost : BOOLEAN, timer : BOOLEAN]
  BY TimesAssumption DEF NoHold
<1>3. hold \in [Runs -> [age : 0 .. RenewBy, lost : BOOLEAN, timer : BOOLEAN]]
  BY <1>2 DEF Init
<1>4. until \in [Runs -> 0 .. TTL]
  BY TimesAssumption DEF Init
<1> QED
  BY <1>1, <1>3, <1>4 DEF Init, TypeOK

\* Every step keeps the types.
LEMMA NextType == TypeOK /\ [Next]_vars => TypeOK'
<1> SUFFICES ASSUME TypeOK, [Next]_vars PROVE TypeOK'
  OBVIOUS
<1> USE TimesAssumption DEF TypeOK, app
<1>m. net \subseteq Messages
  BY DEF Messages
<1>n. ASSUME net' \subseteq Messages PROVE net' \subseteq [kind : Kinds, run : Runs, holder : Runs,
                    answer : {"none", "yes", "no"}, age : 0 .. MaxDelay]
  BY <1>n DEF Messages
<1>1. CASE UNCHANGED vars
  BY <1>1 DEF vars
<1>2. CASE Stop
  BY <1>2 DEF Stop
<1>3. CASE Tick
  <2>1. net' \subseteq Messages
    BY <1>3, <1>m, OlderIs DEF Tick
  <2>2. hold' \in [Runs -> [age : 0 .. RenewBy, lost : BOOLEAN, timer : BOOLEAN]]
    BY <1>3 DEF Tick
  <2>3. until' \in [Runs -> 0 .. TTL]
    BY <1>3 DEF Tick, Holds
  <2> QED
    BY <1>3, <1>n, <2>1, <2>2, <2>3 DEF Tick
<1>4. CASE ItemEnds
  BY <1>4 DEF ItemEnds, Engine!End, Console
<1>5. ASSUME NEW r \in Runs, Begin(r) PROVE TypeOK'
  <2>1. net' \subseteq Messages
    BY <1>5, <1>m, SentIs DEF Begin, Sends, Kinds
  <2> QED
    BY <1>5, <1>n, <2>1 DEF Begin
<1>6. ASSUME NEW r \in Runs, Asked(r) PROVE TypeOK'
  <2>1. PICK m \in net :
          \/ m.answer = "no" /\ net' = net \ {m} /\ pc' = [pc EXCEPT ![r] = "again"] /\ UNCHANGED <<hold, current>>
          \/ /\ m.answer = "yes" /\ live = r /\ net' = net \ {m}
             /\ pc' = [pc EXCEPT ![r] = "between"]
             /\ hold' = [hold EXCEPT ![r] = NewHold] /\ current' = r
          \/ m.answer = "yes" /\ live # r /\ GivesBack(r, r, net \ {m})
    BY <1>6 DEF Asked, Answer
  <2>2. net' \subseteq Messages
    BY <2>1, <1>m, SentIs DEF GivesBack, Kinds
  <2>3. NoHold \in [age : 0 .. RenewBy, lost : BOOLEAN, timer : BOOLEAN]
         /\ NewHold \in [age : 0 .. RenewBy, lost : BOOLEAN, timer : BOOLEAN]
    BY DEF NoHold, NewHold
  <2>4. hold' \in [Runs -> [age : 0 .. RenewBy, lost : BOOLEAN, timer : BOOLEAN]]
    BY <2>1, <2>3 DEF GivesBack
  <2>5. current' \in Runs \cup {NoRun}
    BY <2>1 DEF GivesBack
  <2>6. pc' \in [Runs -> {"new", "asking", "again", "between", "retaking", "retakeAgain", "job", "over"}]
    BY <2>1 DEF GivesBack
  <2>7. \A q \in Runs : pc'[q] \in {"retaking", "retakeAgain"} => pc'[q] = pc[q]
    BY <2>1 DEF GivesBack
  <2> QED
    BY <1>6, <1>n, <2>2, <2>4, <2>5, <2>6, <2>7 DEF Asked
<1>7. ASSUME NEW r \in Runs, AskAgain(r) PROVE TypeOK'
  <2>1. net' \subseteq Messages
    BY <1>7, <1>m, SentIs DEF AskAgain, Sends, Kinds
  <2> QED
    BY <1>7, <1>n, <2>1 DEF AskAgain
<1>8. ASSUME NEW r \in Runs, Renew(r) PROVE TypeOK'
  <2>1. net' \subseteq Messages
    BY <1>8, <1>m, SentIs DEF Renew, Sends, Kinds
  <2> QED
    BY <1>8, <1>n, <2>1 DEF Renew
<1>9. ASSUME NEW r \in Runs, Renewed(r) PROVE TypeOK'
  BY <1>9 DEF Renewed
<1>10. ASSUME NEW r \in Runs, Retake(r) PROVE TypeOK'
  <2>1. net' \subseteq Messages
    BY <1>10, <1>m, SentIs DEF Retake, Sends, Kinds
  <2>2. hold' \in [Runs -> [age : 0 .. RenewBy, lost : BOOLEAN, timer : BOOLEAN]]
    BY <1>10 DEF Retake
  <2>3. pc' \in [Runs -> {"new", "asking", "again", "between", "retaking", "retakeAgain", "job", "over"}]
    BY <1>10 DEF Retake
  <2>4. taking' \in [Runs -> Runs \cup {NoRun}]
    BY <1>10 DEF Retake
  <2> QED
    BY <1>10, <1>n, <2>1, <2>2, <2>3, <2>4 DEF Retake
<1>11. ASSUME NEW r \in Runs, Retaken(r) PROVE TypeOK'
  <2>1. PICK m \in net :
          /\ net' = net \ {m}
          /\ IF m.answer = "yes"
             THEN /\ pc' = [pc EXCEPT ![r] = IF live = r THEN "job" ELSE "between"]
                  /\ hold' = [hold EXCEPT ![m.holder].lost = FALSE]
                  /\ taking' = [taking EXCEPT ![r] = NoRun]
             ELSE pc' = [pc EXCEPT ![r] = "retakeAgain"] /\ UNCHANGED <<hold, taking>>
    BY <1>11 DEF Retaken, Answer
  <2>2. hold' \in [Runs -> [age : 0 .. RenewBy, lost : BOOLEAN, timer : BOOLEAN]]
    <3>1. m.holder \in Runs
      BY <1>m DEF Messages
    <3> QED
      <4>0. hold[m.holder] \in [age : 0 .. RenewBy, lost : BOOLEAN, timer : BOOLEAN]
        BY <3>1
      <4>1. [hold[m.holder] EXCEPT !.lost = FALSE] \in [age : 0 .. RenewBy, lost : BOOLEAN, timer : BOOLEAN]
        BY <4>0, ZenonT(30)
      <4> QED
        BY <2>1, <3>1, <4>1
  <2>3. pc' \in [Runs -> {"new", "asking", "again", "between", "retaking", "retakeAgain", "job", "over"}]
    BY <2>1
  <2>4. taking' \in [Runs -> Runs \cup {NoRun}]
    BY <2>1
  <2> QED
    BY <1>11, <2>1, <2>2, <2>3, <2>4 DEF Retaken
<1>12. ASSUME NEW r \in Runs, RetakeAgain(r) PROVE TypeOK'
  <2>1. net' \subseteq Messages
    <3>1. taking[r] \in Runs
      BY <1>12 DEF RetakeAgain
    <3> QED
      BY <1>12, <1>m, <3>1, SentIs DEF RetakeAgain, Sends, Kinds
  <2>2. pc' \in [Runs -> {"new", "asking", "again", "between", "retaking", "retakeAgain", "job", "over"}]
    BY <1>12 DEF RetakeAgain
  <2>3. taking' \in [Runs -> Runs \cup {NoRun}]
    BY <1>12 DEF RetakeAgain
  <2> QED
    BY <1>12, <1>n, <2>1, <2>2, <2>3 DEF RetakeAgain
<1>13. ASSUME NEW r \in Runs, JobEnds(r) PROVE TypeOK'
  BY <1>13 DEF JobEnds
<1>14. ASSUME NEW r \in Runs, GiveBack(r) PROVE TypeOK'
  <2>1. net' \subseteq Messages
    BY <1>14, <1>m, SentIs DEF GiveBack, GivesBack, Kinds
  <2> QED
    BY <1>14, <1>n, <2>1 DEF GiveBack, GivesBack, NoHold
<1>15. ASSUME NEW r \in Runs, Lapse(r) PROVE TypeOK'
  BY <1>15 DEF Lapse, Engine!Release, Console
<1>16. ASSUME NEW m \in net, Handle(m) PROVE TypeOK'
  <2>1. net' \subseteq Messages
    <3>1. PICK a \in {"yes", "no"} : net' \subseteq net \cup {[m EXCEPT !.answer = a]}
      <4>1. CASE net' = net \ {m}
        BY <4>1
      <4>2. CASE Answers(m, "yes")
        BY <4>2 DEF Answers
      <4>3. CASE Answers(m, "no")
        BY <4>3 DEF Answers
      <4> QED
        BY <1>16, <4>1, <4>2, <4>3 DEF Handle
    <3> QED
      <4>1. [m EXCEPT !.answer = a] \in Messages
        BY <1>m, AnswerIs
      <4> QED
        BY <1>m, <3>1, <4>1
  <2>2. until' \in [Runs -> 0 .. TTL]
    BY <1>16, <1>m DEF Handle, Messages, Engine!Hold, Engine!Release
  <2>3. held' \in [{Console} -> SUBSET Runs] /\ at' = at
    BY <1>16 DEF Handle, Engine!Hold, Engine!Release, Console
  <2> QED
    BY <1>16, <1>n, <2>1, <2>2, <2>3 DEF Handle
<1>17. ASSUME NEW m \in net, LoseRelease(m) PROVE TypeOK'
  BY <1>17 DEF LoseRelease
<1>18. ASSUME NEW m \in net, NoAnswer(m) PROVE TypeOK'
  <2>1. net' \subseteq Messages
    BY <1>18, <1>m, AnswerIs DEF NoAnswer, Answers
  <2> QED
    BY <1>18, <1>n, <2>1 DEF NoAnswer
<1>19. ASSUME NEW i \in Items, ItemStarts(i) PROVE TypeOK'
  BY <1>19 DEF ItemStarts, Engine!Start, Console
<1> QED
  BY <1>1, <1>2, <1>3, <1>4, <1>5, <1>6, <1>7, <1>8, <1>9, <1>10, <1>11, <1>12, <1>13, <1>14,
     <1>15, <1>16, <1>17, <1>18, <1>19 DEF Next, RunStep, Loop

-----------------------------------------------------------------------------
(* What does not depend on time. *)

\* A step of the app that leaves the engine alone keeps the shape if it does so for its run, and
\* sends nothing but a request for a hold.
LEMMA AppShape ==
  ASSUME TypeOK, TypeOK', Shape, NEW r \in Runs, UNCHANGED <<at, held>>,
         \A q \in Runs \ {r} : pc'[q] = pc[q],
         \A q \in Runs \ {r} : hold'[q].timer = hold[q].timer,
         hold'[r].timer <=> Timed(r)', pc[r] # "over",
         \A m \in net' : \/ m \in net
                         \/ /\ m.kind # "retake" => m.holder = m.run
                            /\ m.kind = "release" => pc'[m.holder] = "over"
                            /\ m.run = r,
         pc'[r] # "new"
  PROVE  Shape'
<1>1. TimerRuns'
  BY DEF Shape, TimerRuns, Timed
<1>2. ReleasedIsOver'
  <2> SUFFICES ASSUME NEW m \in net', m.kind = "release" PROVE pc'[m.holder] = "over"
    BY DEF ReleasedIsOver
  <2>1. CASE m \in net
    BY <2>1 DEF Shape, ReleasedIsOver, TypeOK
  <2> QED
    BY <2>1
<1>3. OwnHold'
  BY DEF Shape, OwnHold
<1>4. EngineExcludes'
  BY DEF Shape, EngineExcludes, ItemRuns
<1>5. NewIsSilent'
  <2> SUFFICES ASSUME NEW m \in net' PROVE pc'[m.run] # "new"
    BY DEF NewIsSilent
  <2>1. CASE m \in net
    BY <2>1 DEF Shape, NewIsSilent, TypeOK
  <2> QED
    BY <2>1
<1> QED
  BY <1>1, <1>2, <1>3, <1>4, <1>5 DEF Shape

\* A step of the engine, the network or time that leaves the runs where they are.
LEMMA OtherShape ==
  ASSUME TypeOK, TypeOK', Shape, UNCHANGED pc, \A q \in Runs : hold'[q].timer = hold[q].timer,
         \A m \in net' : \E n \in net : m.kind = n.kind /\ m.run = n.run /\ m.holder = n.holder,
         EngineExcludes'
  PROVE  Shape'
<1>1. TimerRuns'
  BY DEF Shape, TimerRuns, Timed
<1>2. ReleasedIsOver'
  BY DEF Shape, ReleasedIsOver, TypeOK
<1>3. OwnHold'
  BY DEF Shape, OwnHold
<1>4. NewIsSilent'
  BY DEF Shape, NewIsSilent
<1> QED
  BY <1>1, <1>2, <1>3, <1>4 DEF Shape

\* Every step keeps the shape.
LEMMA NextShape == TypeOK /\ TypeOK' /\ Shape /\ [Next]_vars => Shape'
<1> SUFFICES ASSUME TypeOK, TypeOK', Shape, [Next]_vars PROVE Shape'
  OBVIOUS
<1>m. net \subseteq Messages
  BY DEF TypeOK, Messages
<1>1. CASE UNCHANGED vars
  BY <1>1 DEF vars, app, Shape, TimerRuns, Timed, ReleasedIsOver, NewIsSilent, OwnHold, EngineExcludes, ItemRuns
<1>2. CASE Stop
  BY <1>2 DEF Stop, Shape, TimerRuns, Timed, ReleasedIsOver, NewIsSilent, OwnHold, EngineExcludes, ItemRuns
<1>3. CASE Tick
  <2>1. \A q \in Runs : hold'[q].timer = hold[q].timer
    BY <1>3 DEF Tick, TypeOK
  <2>2. \A m \in net' : \E n \in net : m.kind = n.kind /\ m.run = n.run /\ m.holder = n.holder
    BY <1>3, <1>m, NetTicks DEF SameRequest
  <2>3. EngineExcludes'
    BY <1>3 DEF Tick, Shape, EngineExcludes, ItemRuns
  <2> QED
    BY <1>3, <2>1, <2>2, <2>3, OtherShape DEF Tick
<1>4. CASE ItemEnds
  <2>1. EngineExcludes'
    BY <1>4 DEF ItemEnds, Engine!End, EngineExcludes, ItemRuns, TypeOK, Console
  <2> QED
    BY <1>4, <2>1, OtherShape DEF ItemEnds, app
<1>5. ASSUME NEW r \in Runs, Begin(r) PROVE Shape'
  <2>1. \A m \in net' : m \in net \/ (m.kind = "ask" /\ m.holder = m.run /\ m.run = r)
    BY <1>5, SentIs DEF Begin, Sends, Kinds
  <2>2. hold'[r].timer <=> Timed(r)'
    BY <1>5 DEF Begin, Shape, TimerRuns, Timed, TypeOK
  <2> QED
    BY <1>5, <2>1, <2>2, AppShape DEF Begin, TypeOK
<1>6. ASSUME NEW r \in Runs, Asked(r) PROVE Shape'
  <2>1. PICK m \in net :
          \/ m.answer = "no" /\ net' = net \ {m} /\ pc' = [pc EXCEPT ![r] = "again"] /\ UNCHANGED <<hold, current>>
          \/ /\ m.answer = "yes" /\ live = r /\ net' = net \ {m}
             /\ pc' = [pc EXCEPT ![r] = "between"]
             /\ hold' = [hold EXCEPT ![r] = NewHold] /\ current' = r
          \/ m.answer = "yes" /\ live # r /\ GivesBack(r, r, net \ {m})
    BY <1>6 DEF Asked, Answer
  <2>2. \A n \in net' : n \in net \/ (n.kind = "release" /\ n.holder = r /\ n.run = r /\ pc'[r] = "over")
    BY <2>1, SentIs DEF GivesBack, Kinds, TypeOK
  <2>3. hold'[r].timer <=> Timed(r)'
    BY <1>6, <2>1 DEF Asked, Shape, TimerRuns, Timed, TypeOK, GivesBack, NewHold, NoHold
  <2>4. \A q \in Runs \ {r} : pc'[q] = pc[q] /\ hold'[q] = hold[q]
    BY <2>1 DEF TypeOK, GivesBack
  <2>5. pc[r] # "over" /\ pc'[r] # "new" /\ UNCHANGED <<at, held>>
    BY <1>6, <2>1 DEF Asked, GivesBack, TypeOK
  <2> QED
    BY <2>2, <2>3, <2>4, <2>5, AppShape
<1>7. ASSUME NEW r \in Runs, AskAgain(r) PROVE Shape'
  <2>1. \A m \in net' : m \in net \/ (m.kind = "ask" /\ m.holder = m.run /\ m.run = r)
    BY <1>7, SentIs DEF AskAgain, Sends, Kinds
  <2>2. hold'[r].timer <=> Timed(r)'
    BY <1>7 DEF AskAgain, Shape, TimerRuns, Timed, TypeOK
  <2> QED
    BY <1>7, <2>1, <2>2, AppShape DEF AskAgain, TypeOK
<1>8. ASSUME NEW r \in Runs, Renew(r) PROVE Shape'
  <2>1. \A m \in net' : m \in net \/ (m.kind = "renew" /\ m.holder = m.run /\ m.run = r)
    BY <1>8, SentIs DEF Renew, Sends, Kinds
  <2>2. \A q \in Runs : hold'[q].timer = hold[q].timer
    BY <1>8 DEF Renew, TypeOK
  <2>3. pc' = pc /\ pc[r] # "over" /\ pc[r] # "new" /\ UNCHANGED <<at, held>>
    BY <1>8 DEF Renew, Shape, TimerRuns, Timed
  <2>4. hold'[r].timer <=> Timed(r)'
    BY <2>2, <2>3 DEF Shape, TimerRuns, Timed
  <2> QED
    BY <2>1, <2>2, <2>3, <2>4, AppShape DEF Timed
<1>9. ASSUME NEW r \in Runs, Renewed(r) PROVE Shape'
  <2>1. \A q \in Runs : hold'[q].timer = hold[q].timer
    BY <1>9 DEF Renewed, TypeOK
  <2>2. net' \subseteq net /\ EngineExcludes' /\ UNCHANGED pc
    BY <1>9 DEF Renewed, Shape, EngineExcludes, ItemRuns
  <2> QED
    BY <2>1, <2>2, OtherShape
<1>10. ASSUME NEW r \in Runs, Retake(r) PROVE Shape'
  <2>1. \A m \in net' : m \in net \/ (m.kind = "retake" /\ m.run = r)
    BY <1>10, SentIs DEF Retake, Sends, Kinds, TypeOK
  <2>2. \A q \in Runs : hold'[q].timer = hold[q].timer
    BY <1>10 DEF Retake, TypeOK
  <2>3. /\ pc[r] = "between" /\ UNCHANGED <<at, held>> /\ Timed(r)'
        /\ \A q \in Runs \ {r} : pc'[q] = pc[q]
    BY <1>10 DEF Retake, Timed, TypeOK
  <2>4. hold'[r].timer <=> Timed(r)'
    BY <2>2, <2>3 DEF Shape, TimerRuns, Timed
  <2> QED
    BY <2>1, <2>2, <2>3, <2>4, AppShape DEF Timed
<1>11. ASSUME NEW r \in Runs, Retaken(r) PROVE Shape'
  <2>1. /\ pc[r] \in {"retaking", "retakeAgain"} /\ UNCHANGED <<at, held>> /\ Timed(r)'
        /\ \A q \in Runs \ {r} : pc'[q] = pc[q]
    BY <1>11 DEF Retaken, Answer, Timed, TypeOK
  <2>2. \A q \in Runs : hold'[q].timer = hold[q].timer
    BY <1>11, <1>m DEF Retaken, Answer, TypeOK, Messages
  <2>3. net' \subseteq net
    BY <1>11 DEF Retaken
  <2>4. hold'[r].timer <=> Timed(r)'
    BY <2>1, <2>2 DEF Shape, TimerRuns, Timed
  <2> QED
    BY <2>1, <2>2, <2>3, <2>4, AppShape DEF Timed
<1>12. ASSUME NEW r \in Runs, RetakeAgain(r) PROVE Shape'
  <2>1. \A m \in net' : m \in net \/ (m.kind = "retake" /\ m.run = r)
    BY <1>12, SentIs DEF RetakeAgain, Sends, Kinds, TypeOK
  <2>2. /\ pc[r] = "retakeAgain" /\ UNCHANGED <<at, held, hold>> /\ Timed(r)'
        /\ \A q \in Runs \ {r} : pc'[q] = pc[q]
    BY <1>12 DEF RetakeAgain, Timed, TypeOK
  <2>3. hold'[r].timer <=> Timed(r)'
    BY <2>2 DEF Shape, TimerRuns, Timed
  <2> QED
    BY <2>1, <2>2, <2>3, AppShape DEF Timed
<1>13. ASSUME NEW r \in Runs, JobEnds(r) PROVE Shape'
  <2>1. hold'[r].timer <=> Timed(r)'
    BY <1>13 DEF JobEnds, Shape, TimerRuns, Timed, TypeOK
  <2> QED
    BY <1>13, <2>1, AppShape DEF JobEnds, TypeOK
<1>14. ASSUME NEW r \in Runs, GiveBack(r) PROVE Shape'
  <2>1. \A n \in net' : n \in net \/ (n.kind = "release" /\ n.holder = r /\ n.run = r /\ pc'[r] = "over")
    BY <1>14, SentIs DEF GiveBack, GivesBack, Kinds, TypeOK
  <2>2. hold'[r].timer <=> Timed(r)'
    BY <1>14 DEF GiveBack, GivesBack, Timed, TypeOK, NoHold
  <2> QED
    BY <1>14, <2>1, <2>2, AppShape DEF GiveBack, GivesBack, TypeOK
<1>15. ASSUME NEW r \in Runs, Lapse(r) PROVE Shape'
  <2>1. EngineExcludes'
    BY <1>15 DEF Lapse, Engine!Release, Shape, EngineExcludes, ItemRuns, TypeOK, Console
  <2> QED
    BY <1>15, <2>1, OtherShape DEF Lapse, app
<1>16. ASSUME NEW m \in net, Handle(m) PROVE Shape'
  <2>1. \A n \in net' : \E o \in net : n.kind = o.kind /\ n.run = o.run /\ n.holder = o.holder
    BY <1>16, <1>m, NetAnswered DEF Handle
  <2>2. EngineExcludes'
    BY <1>16 DEF Handle, Engine!Hold, Engine!Release, Shape, EngineExcludes, ItemRuns, TypeOK, Console
  <2> QED
    BY <1>16, <2>1, <2>2, OtherShape DEF Handle, app
<1>17. ASSUME NEW m \in net, LoseRelease(m) PROVE Shape'
  <2>1. net' \subseteq net /\ EngineExcludes' /\ UNCHANGED <<pc, hold>>
    BY <1>17 DEF LoseRelease, app, Shape, EngineExcludes, ItemRuns
  <2> QED
    BY <2>1, OtherShape
<1>18. ASSUME NEW m \in net, NoAnswer(m) PROVE Shape'
  <2>1. \A n \in net' : \E o \in net : n.kind = o.kind /\ n.run = o.run /\ n.holder = o.holder
    BY <1>18, <1>m, NetAnswered DEF NoAnswer
  <2>2. EngineExcludes' /\ UNCHANGED <<pc, hold>>
    BY <1>18 DEF NoAnswer, app, Shape, EngineExcludes, ItemRuns
  <2> QED
    BY <2>1, <2>2, OtherShape
<1>19. ASSUME NEW i \in Items, ItemStarts(i) PROVE Shape'
  <2>1. EngineExcludes'
    BY <1>19 DEF ItemStarts, Engine!Start, EngineExcludes, ItemRuns, TypeOK, Console
  <2> QED
    BY <1>19, <2>1, OtherShape DEF ItemStarts, app
<1> QED
  BY <1>1, <1>2, <1>3, <1>4, <1>5, <1>6, <1>7, <1>8, <1>9, <1>10, <1>11, <1>12, <1>13, <1>14,
     <1>15, <1>16, <1>17, <1>18, <1>19 DEF Next, RunStep, Loop

-----------------------------------------------------------------------------
(* What depends on time. *)

\* A hold with time left has not lapsed, and one just granted has not either.
LEMMA HoldLasts ==
  ASSUME TypeOK
  PROVE  /\ \A r \in Runs : TimeLeft(r) => until[r] > 0
         /\ Granted => \A m \in net : m.kind = "ask" /\ m.answer = "yes"
                                     /\ pc[m.run] \in {"asking", "again"} => until[m.run] > 0
<1> USE TimesAssumption
<1>m. net \subseteq Messages
  BY DEF TypeOK, Messages
<1>1. ASSUME NEW r \in Runs, TimeLeft(r) PROVE until[r] > 0
  <2>1. until[r] \in Nat /\ hold[r].age \in 0 .. RenewBy
    BY DEF TypeOK
  <2>2. CASE until[r] + MaxDelay + hold[r].age >= TTL
    BY <2>1, <2>2
  <2>3. ASSUME NEW m \in net, Renewing(r, m) PROVE until[r] > 0
    <3>1. m.age \in 0 .. MaxDelay
      BY <1>m DEF Messages
    <3> QED
      BY <2>1, <2>3, <3>1 DEF Renewing
  <2> QED
    BY <1>1, <2>2, <2>3 DEF TimeLeft
<1>2. ASSUME Granted, NEW m \in net, m.kind = "ask", m.answer = "yes", pc[m.run] \in {"asking", "again"}
      PROVE  until[m.run] > 0
  <2>1. m.age \in 0 .. MaxDelay /\ m.run \in Runs
    BY <1>m DEF Messages
  <2>2. until[m.run] \in Nat /\ until[m.run] + m.age >= TTL
    BY <1>2, <2>1 DEF Granted, TypeOK
  <2> QED
    BY <2>1, <2>2
<1> QED
  BY <1>1, <1>2

\* A step that leaves the holds and their times alone keeps a grant and the time left, if the runs
\* it moves had their hold before, and it removes no request that is still to be handled.
LEMMA AppKept ==
  ASSUME TypeOK, TypeOK', Granted, Kept, UNCHANGED <<held, until>>,
         \A m \in net' : \/ m \in net /\ (pc'[m.run] \in {"asking", "again"} => pc[m.run] \in {"asking", "again"})
                         \/ m.answer = "none"
                         \/ m.kind # "ask",
         \A m \in net : m.answer = "none" /\ m.kind \in {"renew", "retake"} => m \in net',
         \A q \in Runs : Timed(q)' =>
                         Timed(q) \/ (Holds(q) /\ until[q] + MaxDelay + hold'[q].age >= TTL),
         \A q \in Runs : \/ hold'[q].age = hold[q].age \/ ~Timed(q)'
                         \/ until[q] + MaxDelay + hold'[q].age >= TTL
                         \/ \E m \in net' : /\ m.kind \in {"renew", "retake"} /\ m.holder = q
                                            /\ m.answer = "none" /\ m.age = 0
  PROVE  Granted' /\ Kept'
<1> USE TimesAssumption
<1>1. Granted'
  BY DEF Granted, Holds
<1>2. ASSUME NEW q \in Runs, Timed(q)' PROVE Holds(q)' /\ TimeLeft(q)'
  <2>1. Holds(q)' /\ (TimeLeft(q) \/ until[q] + MaxDelay + hold'[q].age >= TTL)
    BY <1>2 DEF Kept, Holds
  <2>2. ASSUME NEW m \in net, Renewing(q, m) PROVE TimeLeft(q)'
    BY <2>2 DEF Renewing, TimeLeft
  <2>3. CASE until[q] + MaxDelay + hold'[q].age >= TTL
    <3>1. until'[q] = until[q]
      OBVIOUS
    <3>2. until'[q] + MaxDelay + hold'[q].age >= TTL
      BY <2>3, <3>1
    <3> QED
      BY <2>1, <3>2 DEF TimeLeft
  <2>4. ASSUME until[q] + MaxDelay + hold[q].age >= TTL,
               NEW m \in net', m.kind \in {"renew", "retake"}, m.holder = q, m.answer = "none", m.age = 0
        PROVE  TimeLeft(q)'
    <3>1. until[q] \in Nat /\ hold[q].age \in 0 .. RenewBy
      BY DEF TypeOK
    <3>2. until'[q] + MaxDelay + RenewBy + m.age >= TTL
      BY <2>4, <3>1, SMTT(60)
    <3> QED
      BY <2>4, <3>2 DEF TimeLeft, Renewing
  <2> QED
    BY <1>2, <2>1, <2>2, <2>3, <2>4 DEF TimeLeft
<1> QED
  BY <1>1, <1>2 DEF Kept

\* Time passes: each hold has a tick less, and its renewal is a tick older.
LEMMA TickKept ==
  ASSUME TypeOK, TypeOK', Shape, Granted, Kept, Tick, ~late'
  PROVE  Granted' /\ Kept'
<1> USE TimesAssumption
<1>m. net \subseteq Messages
  BY DEF TypeOK, Messages
<1>u. ASSUME NEW q \in Runs, Holds(q)
      PROVE  until[q] \in Nat /\ until[q] > 0 /\ until'[q] = until[q] - 1 /\ Holds(q)'
  BY <1>u DEF Tick, TypeOK, Holds
<1>1. ASSUME NEW n \in net', n.kind = "ask", n.answer = "yes", pc'[n.run] \in {"asking", "again"}
      PROVE  Holds(n.run)' /\ until'[n.run] + n.age >= TTL
  <2>1. PICK m \in net : SameRequest(m, n)
    BY <1>m, NetTicks
  <2>2. m.run = n.run /\ m.run \in Runs /\ m.age \in Nat /\ n.age = m.age + 1
    BY <2>1, <1>m DEF SameRequest, Messages
  <2>3. Holds(m.run) /\ until[m.run] + m.age >= TTL
    BY <1>1, <2>1 DEF SameRequest, Granted, Tick
  <2> QED
    BY <1>u, <2>2, <2>3
<1>2. ASSUME NEW q \in Runs, Timed(q)' PROVE Holds(q)' /\ TimeLeft(q)'
  <2>1. Timed(q) /\ Holds(q) /\ TimeLeft(q) /\ hold[q].timer
    BY <1>2 DEF Kept, Tick, Timed, Shape, TimerRuns
  <2>2. hold[q].age \in 0 .. RenewBy /\ hold[q].age < RenewBy /\ hold'[q].age = hold[q].age + 1
    <3>1. hold[q].age \in 0 .. RenewBy
      BY DEF TypeOK
    <3>2. ~(\E p \in Runs : hold[p].timer /\ hold[p].age = RenewBy)
      BY Zenon DEF Tick
    <3>3. hold[q].age # RenewBy
      BY <2>1, <3>2
    <3>4. hold[q].age < RenewBy
      BY <3>1, <3>3
    <3>5. hold'[q] = [hold[q] EXCEPT !.age = @ + 1]
      BY <2>1, <3>4 DEF Tick
    <3>6. hold[q] \in [age : 0 .. RenewBy, lost : BOOLEAN, timer : BOOLEAN]
      BY DEF TypeOK
    <3> QED
      BY <3>1, <3>4, <3>5, <3>6
  <2>3. CASE until[q] + MaxDelay + hold[q].age >= TTL
    <3>1. until'[q] + MaxDelay + hold'[q].age >= TTL
      <4>1. until[q] \in Nat /\ until[q] > 0 /\ until'[q] = until[q] - 1
        BY <1>u, <2>1
      <4> QED BY <2>2, <2>3, <4>1
    <3> QED
      BY <1>u, <2>1, <3>1 DEF TimeLeft
  <2>4. ASSUME NEW m \in net, Renewing(q, m) PROVE Holds(q)' /\ TimeLeft(q)'
    <3>1. PICK n \in net' : SameRequest(m, n)
      BY <1>m, NetTicks
    <3>2. m.age \in Nat /\ n.age = m.age + 1
      BY <3>1, <1>m DEF SameRequest, Messages
    <3>3. until'[q] + MaxDelay + RenewBy + n.age >= TTL
      BY <1>u, <2>1, <2>4, <3>2 DEF Renewing
    <3> QED
      BY <1>u, <2>1, <2>4, <3>1, <3>3 DEF Renewing, SameRequest, TimeLeft
  <2> QED
    BY <2>1, <2>3, <2>4 DEF TimeLeft
<1> QED
  BY <1>1, <1>2 DEF Granted, Kept

\* The engine handles a request: a hold is given its whole time, a release is of a run that is
\* over, and a hold that has time left is not refused.
LEMMA HandleKept ==
  ASSUME TypeOK, TypeOK', Shape, Granted, Kept, NEW m \in net, Handle(m)
  PROVE  Granted' /\ Kept'
<1> USE TimesAssumption
<1>m. net \subseteq Messages /\ m.holder \in Runs /\ m.run \in Runs
  BY DEF TypeOK, Messages
<1>p. pc' = pc /\ hold' = hold
  BY DEF Handle, app
<1>1. CASE m.kind = "release"
  <2>1. /\ net' = net \ {m} /\ pc[m.holder] = "over"
        /\ \A q \in Runs \ {m.holder} : until'[q] = until[q] /\ (Holds(q)' <=> Holds(q))
    BY <1>1 DEF Handle, Engine!Release, Engine!Hold, TypeOK, Holds, Console, Shape, ReleasedIsOver
  <2>2. Granted'
    <3> SUFFICES ASSUME NEW n \in net', n.kind = "ask", n.answer = "yes", pc'[n.run] \in {"asking", "again"}
                 PROVE  Holds(n.run)' /\ until'[n.run] + n.age >= TTL
      BY DEF Granted
    <3>1. n \in net /\ n.run \in Runs /\ n.run # m.holder
      BY <2>1, <1>p, <1>m DEF Messages
    <3> QED
      BY <2>1, <3>1, <1>p DEF Granted
  <2>3. ASSUME NEW q \in Runs, Timed(q)' PROVE Holds(q)' /\ TimeLeft(q)'
    <3>1. q # m.holder /\ Holds(q) /\ TimeLeft(q)
      BY <2>1, <2>3, <1>p DEF Timed, Kept
    <3>2. Holds(q)' /\ until'[q] = until[q] /\ hold'[q] = hold[q]
      BY <2>1, <3>1, <1>p
    <3>3. ASSUME NEW n \in net, Renewing(q, n) PROVE n \in net' /\ Renewing(q, n)'
      BY <3>2, <3>3, <2>1, <1>1 DEF Renewing
    <3> QED
      BY <3>1, <3>2, <3>3 DEF TimeLeft
  <2> QED
    BY <2>2, <2>3 DEF Kept
<1>2. CASE m.kind # "release" /\ Engine!Hold(Console, m.holder)
  <2>1. /\ Answers(m, "yes") \/ Answers(m, "no")
        /\ Holds(m.holder)' /\ until'[m.holder] = TTL
        /\ \A q \in Runs \ {m.holder} : until'[q] = until[q] /\ (Holds(q)' <=> Holds(q))
    BY <1>2, <1>m DEF Handle, Engine!Hold, ItemRuns, TypeOK, Holds, Console
  <2>2. Granted'
    <3> SUFFICES ASSUME NEW n \in net', n.kind = "ask", n.answer = "yes", pc'[n.run] \in {"asking", "again"}
                 PROVE  Holds(n.run)' /\ until'[n.run] + n.age >= TTL
      BY DEF Granted
    <3>1. n \in net \/ (n.kind = m.kind /\ n.run = m.run /\ n.age = m.age)
      BY <2>1, <1>m, NetAnswered
    <3>2. n.run \in Runs /\ n.age \in Nat
      BY DEF TypeOK
    <3>3. CASE n.run = m.holder
      BY <2>1, <3>2, <3>3, SMTT(60)
    <3>4. CASE n.run # m.holder
      <4>1. n \in net
        BY <3>1, <3>4 DEF Shape, OwnHold
      <4> QED
        BY <2>1, <3>2, <3>4, <4>1, <1>p DEF Granted
    <3> QED
      BY <3>3, <3>4
  <2>3. ASSUME NEW q \in Runs, Timed(q)' PROVE Holds(q)' /\ TimeLeft(q)'
    <3>0. Holds(q) /\ TimeLeft(q) /\ hold[q].age \in Nat
      BY <2>3, <1>p DEF Timed, Kept, TypeOK
    <3>1. CASE q = m.holder
      <4>1. until'[q] + MaxDelay + hold'[q].age >= TTL
        BY <2>1, <3>0, <3>1, <1>p
      <4> QED
        BY <2>1, <3>1, <4>1 DEF TimeLeft
    <3>2. CASE q # m.holder
      <4>2. Holds(q)' /\ until'[q] = until[q] /\ hold'[q] = hold[q]
        BY <2>1, <3>0, <3>2, <1>p
      <4>3. ASSUME NEW n \in net, Renewing(q, n) PROVE n \in net' /\ Renewing(q, n)'
        BY <4>2, <4>3, <2>1, <3>2, <1>m, NetAnswered DEF Renewing
      <4> QED
        BY <3>0, <4>2, <4>3 DEF TimeLeft
    <3> QED
      BY <3>1, <3>2
  <2> QED
    BY <2>2, <2>3 DEF Kept
<1>3. CASE m.kind # "release" /\ ItemRuns /\ UNCHANGED <<at, held, until>> /\ Answers(m, "no")
  <2>1. held[Console] = {}
    BY <1>3 DEF Shape, EngineExcludes
  <2>2. \A q \in Runs : ~Timed(q)'
    BY <2>1, <1>p DEF Kept, Timed, Holds
  <2>3. Granted'
    <3> SUFFICES ASSUME NEW n \in net', n.kind = "ask", n.answer = "yes", pc'[n.run] \in {"asking", "again"}
                 PROVE  FALSE
      BY DEF Granted
    <3>1. n \in net
      BY <1>3, <1>m, NetAnswered
    <3> QED
      BY <3>1, <2>1, <1>p DEF Granted, Holds
  <2> QED
    BY <2>2, <2>3 DEF Kept
<1> QED
  BY <1>1, <1>2, <1>3 DEF Handle

\* Every step keeps the holds while neither a timer nor an answer is late.
LEMMA NextKept ==
  TypeOK /\ TypeOK' /\ Shape /\ (~late => Granted /\ Kept) /\ [Next]_vars => (~late' => Granted' /\ Kept')
<1> SUFFICES ASSUME TypeOK, TypeOK', Shape, ~late => Granted /\ Kept, [Next]_vars, ~late'
             PROVE  Granted' /\ Kept'
  OBVIOUS
<1>m. net \subseteq Messages
  BY DEF TypeOK, Messages
<1>l. ASSUME UNCHANGED late PROVE Granted /\ Kept
  BY <1>l
<1>1. CASE UNCHANGED vars
  BY <1>1, <1>l, AppKept DEF vars, app, Timed
<1>2. CASE Stop
  BY <1>2, <1>l, AppKept DEF Stop, Timed
<1>3. CASE Tick
  <2>1. ~late
    BY <1>3, Zenon DEF Tick
  <2> QED
    BY <1>3, <2>1, TickKept
<1>4. CASE ItemEnds
  BY <1>4, <1>l, AppKept DEF ItemEnds, Engine!End, app, Timed
<1>5. ASSUME NEW r \in Runs, Begin(r) PROVE Granted' /\ Kept'
  <2>1. \A m \in net' : (m \in net /\ m.run # r /\ m.run \in Runs) \/ m.answer = "none"
    BY <1>5, <1>m, SentIs DEF Begin, Sends, Kinds, Shape, NewIsSilent, Messages
  <2>2. net \subseteq net' /\ UNCHANGED <<held, until, hold, late>>
    BY <1>5 DEF Begin, Sends
  <2>3. \A q \in Runs : (q # r => pc'[q] = pc[q]) /\ (Timed(q)' => Timed(q))
    BY <1>5 DEF Begin, TypeOK, Timed
  <2> QED
    BY <2>1, <2>2, <2>3, <1>l, AppKept
<1>6. ASSUME NEW r \in Runs, Asked(r) PROVE Granted' /\ Kept'
  <2>1. PICK m \in net :
          /\ m.kind = "ask" /\ m.run = r
          /\ \/ m.answer = "no" /\ net' = net \ {m} /\ pc' = [pc EXCEPT ![r] = "again"] /\ UNCHANGED <<hold, current>>
             \/ /\ m.answer = "yes" /\ live = r /\ net' = net \ {m}
                /\ pc' = [pc EXCEPT ![r] = "between"]
                /\ hold' = [hold EXCEPT ![r] = NewHold] /\ current' = r
             \/ m.answer = "yes" /\ live # r /\ GivesBack(r, r, net \ {m})
    BY <1>6 DEF Asked, Answer
  <2>2. pc[r] \in {"asking", "again"} /\ UNCHANGED <<held, until, late>> /\ m.answer \in {"yes", "no"}
    BY <1>6, <2>1 DEF Asked
  <2>3. \A n \in net' : n \in net \/ n.answer = "none"
    BY <2>1, SentIs DEF GivesBack, Kinds
  <2>4. \A n \in net : n.answer = "none" => n \in net'
    BY <2>1, <2>2 DEF GivesBack
  <2>5. \A q \in Runs \ {r} : pc'[q] = pc[q] /\ hold'[q] = hold[q]
    BY <2>1 DEF TypeOK, GivesBack
  <2>6. \A q \in Runs : pc'[q] \in {"asking", "again"} => pc[q] \in {"asking", "again"}
    BY <2>2, <2>5
  <2>7. ASSUME Timed(r)' PROVE Holds(r) /\ until[r] + MaxDelay + hold'[r].age >= TTL
    <3>1. m.answer = "yes" /\ hold'[r].age = 0
      BY <2>1, <2>7 DEF TypeOK, Timed, GivesBack, NewHold
    <3>2. Holds(r) /\ until[r] + m.age >= TTL
      BY <2>1, <2>2, <3>1, <1>l DEF Granted
    <3>3. until[r] \in Nat /\ m.age \in 0 .. MaxDelay
      BY <1>m DEF TypeOK, Messages
    <3> QED
      BY <3>1, <3>2, <3>3, TimesAssumption
  <2>8. \A n \in net : n.run \in Runs
    BY <1>m DEF Messages
  <2>9. \A q \in Runs : Timed(q)' => \/ Timed(q) /\ hold'[q] = hold[q]
                                     \/ Holds(q) /\ until[q] + MaxDelay + hold'[q].age >= TTL
    BY <2>5, <2>7 DEF Timed
  <2> QED
    BY <2>2, <2>3, <2>4, <2>6, <2>8, <2>9, <1>l, AppKept
<1>7. ASSUME NEW r \in Runs, AskAgain(r) PROVE Granted' /\ Kept'
  <2>1. \A m \in net' : (m \in net /\ m.run \in Runs) \/ m.answer = "none"
    BY <1>7, <1>m, SentIs DEF AskAgain, Sends, Kinds, Messages
  <2>2. net \subseteq net' /\ UNCHANGED <<held, until, hold, late>>
    BY <1>7 DEF AskAgain, Sends
  <2>3. \A q \in Runs : /\ pc'[q] \in {"asking", "again"} => pc[q] \in {"asking", "again"}
                        /\ Timed(q)' => Timed(q)
    BY <1>7 DEF AskAgain, TypeOK, Timed
  <2> QED
    BY <2>1, <2>2, <2>3, <1>l, AppKept
<1>8. ASSUME NEW r \in Runs, Renew(r) PROVE Granted' /\ Kept'
  <2>1. /\ \A m \in net' : m \in net \/ m.answer = "none"
        /\ \E m \in net' : m.kind = "renew" /\ m.holder = r /\ m.answer = "none" /\ m.age = 0
    BY <1>8, SentIs DEF Renew, Sends, Kinds
  <2>2. net \subseteq net' /\ UNCHANGED <<held, until, pc, late>> /\ \A q \in Runs \ {r} : hold'[q] = hold[q]
    BY <1>8 DEF Renew, Sends, TypeOK
  <2> QED
    BY <2>1, <2>2, <1>l, AppKept DEF Timed
<1>9. ASSUME NEW r \in Runs, Renewed(r) PROVE Granted' /\ Kept'
  <2>1. /\ net' \subseteq net /\ \A m \in net : m.answer = "none" => m \in net'
        /\ UNCHANGED <<held, until, pc, late>>
    BY <1>9 DEF Renewed, Answer
  <2>2. \A q \in Runs : hold'[q].age = hold[q].age
    BY <1>9 DEF Renewed, TypeOK
  <2> QED
    BY <2>1, <2>2, <1>l, AppKept DEF Timed
<1>10. ASSUME NEW r \in Runs, Retake(r) PROVE Granted' /\ Kept'
  <2>1. \A m \in net' : m \in net \/ m.answer = "none"
    BY <1>10, SentIs DEF Retake, Sends, Kinds, TypeOK
  <2>2. net \subseteq net' /\ UNCHANGED <<held, until, late>> /\ pc[r] = "between"
    BY <1>10 DEF Retake, Sends
  <2>3. \A q \in Runs : /\ pc'[q] \in {"asking", "again"} => pc[q] \in {"asking", "again"}
                        /\ Timed(q)' => Timed(q)
    BY <1>10 DEF Retake, TypeOK, Timed
  <2>4. \A q \in Runs : \/ hold'[q].age = hold[q].age
                        \/ \E m \in net' : m.kind = "retake" /\ m.holder = q /\ m.answer = "none" /\ m.age = 0
    <3>1. CASE UNCHANGED hold
      BY <3>1
    <3>2. CASE /\ current # NoRun /\ hold' = [hold EXCEPT ![current].age = 0]
               /\ Sends(Sent("retake", r, current))
      <4>1. current \in Runs
        BY <3>2 DEF TypeOK
      <4>2. \E m \in net' : m.kind = "retake" /\ m.holder = current /\ m.answer = "none" /\ m.age = 0
        BY <3>2, <4>1, SentIs DEF Sends, Kinds
      <4>3. \A q \in Runs \ {current} : hold'[q] = hold[q]
        BY <3>2 DEF TypeOK
      <4> QED
        BY <4>2, <4>3
    <3> QED
      BY <1>10, <3>1, <3>2 DEF Retake
  <2>5. \A n \in net : n.run \in Runs
    BY <1>m DEF Messages
  <2> QED
    BY <2>1, <2>2, <2>3, <2>4, <2>5, <1>l, AppKept, ZenonT(30)
<1>11. ASSUME NEW r \in Runs, Retaken(r) PROVE Granted' /\ Kept'
  <2>1. /\ net' \subseteq net /\ \A m \in net : m.answer = "none" => m \in net'
        /\ UNCHANGED <<held, until, late>>
    BY <1>11 DEF Retaken, Answer
  <2>2. \A q \in Runs : hold'[q].age = hold[q].age
    BY <1>11, <1>m, SMTT(60) DEF Retaken, Answer, TypeOK, Messages
  <2>3. \A q \in Runs : /\ pc'[q] \in {"asking", "again"} => pc[q] \in {"asking", "again"}
                        /\ Timed(q)' => Timed(q)
    BY <1>11 DEF Retaken, Answer, TypeOK, Timed
  <2>4. \A n \in net : n.run \in Runs
    BY <1>m DEF Messages
  <2> QED
    BY <2>1, <2>2, <2>3, <2>4, <1>l, AppKept
<1>12. ASSUME NEW r \in Runs, RetakeAgain(r) PROVE Granted' /\ Kept'
  <2>1. \A m \in net' : (m \in net /\ m.run \in Runs) \/ m.kind = "retake"
    BY <1>12, <1>m, SentIs DEF RetakeAgain, Sends, Kinds, TypeOK, Messages
  <2>2. net \subseteq net' /\ UNCHANGED <<held, until, hold, late>>
    BY <1>12 DEF RetakeAgain, Sends
  <2>3. \A q \in Runs : /\ pc'[q] \in {"asking", "again"} => pc[q] \in {"asking", "again"}
                        /\ Timed(q)' => Timed(q)
    BY <1>12 DEF RetakeAgain, TypeOK, Timed
  <2> QED
    BY <2>1, <2>2, <2>3, <1>l, AppKept
<1>13. ASSUME NEW r \in Runs, JobEnds(r) PROVE Granted' /\ Kept'
  <2>1. \A q \in Runs : /\ pc'[q] \in {"asking", "again"} => pc[q] \in {"asking", "again"}
                        /\ Timed(q)' => Timed(q)
    BY <1>13 DEF JobEnds, TypeOK, Timed
  <2>2. \A n \in net : n.run \in Runs
    BY <1>m DEF Messages
  <2> QED
    BY <1>13, <2>1, <2>2, <1>l, AppKept DEF JobEnds
<1>14. ASSUME NEW r \in Runs, GiveBack(r) PROVE Granted' /\ Kept'
  <2>1. \A m \in net' : (m \in net /\ m.run \in Runs) \/ m.answer = "none"
    BY <1>14, <1>m, SentIs DEF GiveBack, GivesBack, Kinds, Messages
  <2>2. net \subseteq net' /\ UNCHANGED <<held, until, late>>
    BY <1>14 DEF GiveBack, GivesBack
  <2>3. \A q \in Runs : /\ pc'[q] \in {"asking", "again"} => pc[q] \in {"asking", "again"}
                        /\ Timed(q)' => Timed(q) /\ hold'[q] = hold[q]
    BY <1>14 DEF GiveBack, GivesBack, TypeOK, Timed
  <2> QED
    BY <2>1, <2>2, <2>3, <1>l, AppKept
<1>15. ASSUME NEW r \in Runs, Lapse(r) PROVE Granted' /\ Kept'
  <2>1. until[r] = 0 /\ UNCHANGED <<until, net, pc, hold, late>>
    BY <1>15 DEF Lapse, app
  <2>2. \A q \in Runs \ {r} : Holds(q)' <=> Holds(q)
    BY <1>15 DEF Lapse, Engine!Release, TypeOK, Holds, Console
  <2>3. Granted /\ Kept
    BY <2>1, <1>l
  <2>4. ~Timed(r)
    <3>1. TimeLeft(r) => until[r] > 0
      BY HoldLasts, <1>l, ZenonT(30)
    <3>2. ~TimeLeft(r)
      BY <2>1, <3>1
    <3> QED BY <2>3, <3>2, ZenonT(30) DEF Kept
  <2>5. ASSUME NEW q \in Runs, Timed(q)' PROVE Holds(q)' /\ TimeLeft(q)'
    BY <2>1, <2>2, <2>3, <2>4, <2>5 DEF Kept, Timed, TimeLeft, Renewing
  <2>6. Granted'
    <3> SUFFICES ASSUME NEW n \in net', n.kind = "ask", n.answer = "yes", pc'[n.run] \in {"asking", "again"}
                 PROVE  Holds(n.run)' /\ until'[n.run] + n.age >= TTL
      BY DEF Granted
    <3>1. n \in net /\ n.run \in Runs /\ pc[n.run] \in {"asking", "again"}
      BY <2>1, <1>m DEF Messages
    <3>2. until[n.run] > 0 /\ Holds(n.run) /\ until[n.run] + n.age >= TTL
      BY <2>3, <3>1, HoldLasts DEF Granted
    <3>3. n.run # r
      BY <2>1, <3>2
    <3> QED
      BY <2>1, <2>2, <3>1, <3>2, <3>3
  <2> QED
    BY <2>5, <2>6 DEF Kept
<1>16. ASSUME NEW m \in net, Handle(m) PROVE Granted' /\ Kept'
  <2>1. Granted /\ Kept
    BY <1>16, <1>l DEF Handle
  <2> QED
    BY <1>16, <2>1, HandleKept
<1>17. ASSUME NEW m \in net, LoseRelease(m) PROVE Granted' /\ Kept'
  <2>1. /\ net' = net \ {m} /\ m.kind = "release"
        /\ UNCHANGED <<held, until, pc, hold, late>>
    BY <1>17 DEF LoseRelease, app
  <2> QED
    BY <2>1, <1>l, AppKept DEF Timed
<1>18. ASSUME NEW m \in net, NoAnswer(m) PROVE Granted' /\ Kept'
  BY <1>18, Zenon DEF NoAnswer
<1>19. ASSUME NEW i \in Items, ItemStarts(i) PROVE Granted' /\ Kept'
  BY <1>19, <1>l, AppKept DEF ItemStarts, Engine!Start, app, Timed
<1> QED
  BY <1>1, <1>2, <1>3, <1>4, <1>5, <1>6, <1>7, <1>8, <1>9, <1>10, <1>11, <1>12, <1>13, <1>14,
     <1>15, <1>16, <1>17, <1>18, <1>19 DEF Next, RunStep, Loop

-----------------------------------------------------------------------------
(* The theorems. *)

\* The invariant holds initially.
LEMMA InitInv == Init => IInv
<1> SUFFICES ASSUME Init PROVE IInv
  OBVIOUS
<1>1. TypeOK
  BY InitType
<1>2. Shape
  BY DEF Init, Engine!Init, Shape, TimerRuns, Timed, ReleasedIsOver, NewIsSilent, OwnHold,
         EngineExcludes, ItemRuns, NoHold, Console
<1>3. Granted /\ Kept
  BY DEF Init, Granted, Kept, Timed
<1> QED
  BY <1>1, <1>2, <1>3 DEF IInv

\* The invariant implies that the two queues take turns.
LEMMA InvTurns == IInv => NeverTogether
BY DEF IInv, Shape, Kept, Timed, EngineExcludes, Holds, NeverTogether

\* Type correctness of the app's side of taking turns, for any instance.
THEOREM TurnTypes == Spec => []TypeOK
<1>1. Init => TypeOK
  BY InitType
<1>2. TypeOK /\ [Next]_vars => TypeOK'
  BY NextType
<1> QED
  BY <1>1, <1>2, PTL DEF Spec

\* While timers fire and answers come in time, no job of the app's queue runs beside an item of the
\* engine's, for any number of runs and any times with RenewBy + 2 * MaxDelay < TTL (askForHold,
\* renewHold, retakeEngineQueueHold, HOLD_TTL_S).
THEOREM QueuesTakeTurns == Spec => []NeverTogether
<1>1. Init => IInv
  BY InitInv
<1>2. IInv /\ [Next]_vars => IInv'
  <2> SUFFICES ASSUME IInv, [Next]_vars PROVE IInv'
    OBVIOUS
  <2>1. TypeOK'
    BY NextType DEF IInv
  <2>2. Shape'
    BY <2>1, NextShape DEF IInv
  <2>3. ~late' => Granted' /\ Kept'
    BY <2>1, NextKept DEF IInv
  <2> QED
    BY <2>1, <2>2, <2>3 DEF IInv
<1>3. IInv => NeverTogether
  BY InvTurns
<1> QED
  BY <1>1, <1>2, <1>3, PTL DEF Spec
=============================================================================
