----------------------------- MODULE MeshShare ------------------------------
(***************************************************************************)
(* Settings and the console list, kept the same on every device through    *)
(* the documents of the consoles (src/client/src/lib/meshShare.ts).  A     *)
(* device stamps what its person changes into its copy of the map; a sync  *)
(* reads a console's document, merges, applies the merge to the device and *)
(* writes it back if the document is still the one it read.  A device does *)
(* one sync at a time; its person goes on changing things meanwhile, and   *)
(* requests are lost.                                                      *)
(***************************************************************************)
EXTENDS MeshCrdt, FiniteSets

CONSTANTS
  Devices,    \* a set of numbers: ids are compared
  Consoles,   \* that keep a document
  Settings,   \* keys of shared settings
  Entries,    \* consoles that may be in the list, with a name each
  Values, Default, Null,
  Before,     \* Before[d]: the setting values the device had before it shared
  MaxWall,    \* bound on the wall clocks
  MaxEvents,  \* bound on changes and clock moves together
  Faults      \* of {"lost", "clock"}

VARIABLES
  view,       \* localView: what each device has now
  copy,       \* each device's map (STATE_KEY)
  clock,      \* and its clock
  wall,       \* each device's wall clock
  sync,       \* the sync each device is in
  doc, rev,   \* each console's document
  budget

device == <<view, copy, clock>>
vars == <<device, wall, sync, doc, rev, budget>>

Listed(e) == <<"c", e>>
Name(e) == <<"name", e>>
Keys == Settings \cup {Listed(e) : e \in Entries} \cup {Name(e) : e \in Entries}

\* localView: every setting, and for each console of the list its name.
IsView(v) ==
  /\ Settings \subseteq DOMAIN v /\ DOMAIN v \subseteq Keys
  /\ \A e \in Entries : /\ Listed(e) \in DOMAIN v => v[Listed(e)] = 1 /\ Name(e) \in DOMAIN v
                        /\ Name(e) \in DOMAIN v => v[Name(e)] # Null

ASSUME MeshAssumption ==
  /\ Devices \subseteq Nat /\ MaxWall \in Nat
  /\ IsFiniteSet(Settings) /\ IsFiniteSet(Entries)
  /\ \A e \in Entries : {Listed(e), Name(e)} \cap Settings = {}
  /\ Null \notin Values \cup {Default, 1}
  /\ DOMAIN Before = Devices /\ \A d \in Devices : IsView(Before[d])

Idle == [at |-> "idle"]
Empty == [k \in {} |-> Null]

-----------------------------------------------------------------------------
(* This device's values and its copy of the map. *)

\* The consoles this device added since the last look; their names are taken for its defaults.
Added(m, v) == {e \in Entries : Listed(e) \in DOMAIN v /\ ~(Listed(e) \in DOMAIN m /\ m[Listed(e)].v # Null)}

\* stampLocal. One look finds one change of the person: a setting, or a console and its name, which
\* is stamped after it.
StampLocal(m, v, last, d, baseline) ==
  LET new == {k \in DOMAIN v \ DOMAIN m : v[k] # Null}
      lowest == {k \in new : baseline \/ \E e \in Added(m, v) : k = Name(e)}
      gone == {Listed(e) : e \in {x \in Entries : /\ Listed(x) \in DOMAIN m \ DOMAIN v
                                                  /\ m[Listed(x)].v # Null}}
      changed == (new \ lowest) \cup {k \in DOMAIN v \cap DOMAIN m : m[k].v # v[k]} \cup gone
      first == Moved(last, wall[d])
      after(k) == IF \E e \in Entries : k = Name(e) /\ Listed(e) \in changed THEN 1 ELSE 0
      stamp(k) == IF k \in lowest THEN [t |-> 0, c |-> 0, d |-> d]
                  ELSE [t |-> first.t, c |-> first.c + after(k), d |-> d]
  IN [m |-> [k \in DOMAIN m \cup lowest \cup changed |->
               IF k \notin lowest \cup changed THEN m[k]
               ELSE [v |-> IF k \in gone THEN Null ELSE v[k], h |-> stamp(k)]],
      last |-> IF changed = {} THEN last
               ELSE [first EXCEPT !.c = @ + Cardinality(changed) - 1]]

\* Mutant: a console removed elsewhere stays in this device's list.
AppliedKeeping(m, v) ==
  LET kept == {e \in Entries : Listed(e) \in DOMAIN m \cup DOMAIN v} IN
  [k \in Settings \cup {Listed(e) : e \in kept} \cup {Name(e) : e \in kept} |->
     IF \E e \in kept : k = Listed(e) THEN 1
     ELSE IF k \in DOMAIN m /\ m[k].v # Null THEN m[k].v
     ELSE IF k \in DOMAIN v THEN v[k] ELSE Default]
\* plan and rosterFrom, applied: what the device has once it matches map m.
Applied(m, v) ==
  LET lists(e) == IF Listed(e) \in DOMAIN m THEN m[Listed(e)].v # Null ELSE Listed(e) \in DOMAIN v
      kept == {e \in Entries : lists(e)}
  IN [k \in Settings \cup {Listed(e) : e \in kept} \cup {Name(e) : e \in kept} |->
        IF k \in Settings THEN IF k \in DOMAIN m THEN m[k].v ELSE v[k]
        ELSE IF \E e \in kept : k = Listed(e) THEN 1
        ELSE IF k \in DOMAIN m /\ m[k].v # Null THEN m[k].v
        ELSE IF k \in DOMAIN v THEN v[k] ELSE Default]

-----------------------------------------------------------------------------
(* What a person does on a device.  The write and the list's change are stamped at once. *)

Spend == budget > 0 /\ budget' = budget - 1

Changes(d, v) ==
  LET s == StampLocal(copy[d], v, clock[d], d, FALSE) IN
  /\ v # view[d] /\ Spend
  /\ view' = [view EXCEPT ![d] = v]
  /\ copy' = [copy EXCEPT ![d] = s.m] /\ clock' = [clock EXCEPT ![d] = s.last]
  /\ UNCHANGED <<wall, sync, doc, rev>>

Drop(v, ks) == [k \in DOMAIN v \ ks |-> v[k]]
With(v, k, val) == [j \in DOMAIN v \cup {k} |-> IF j = k THEN val ELSE v[j]]

SetSetting(d, k, val) == Changes(d, With(view[d], k, val))
\* With the name that was typed, or the default one.
AddConsole(d, e, val) ==
  Listed(e) \notin DOMAIN view[d] /\ Changes(d, With(With(view[d], Listed(e), 1), Name(e), val))
RenameConsole(d, e, val) == Listed(e) \in DOMAIN view[d] /\ Changes(d, With(view[d], Name(e), val))
RemoveConsole(d, e) == Changes(d, Drop(view[d], {Listed(e), Name(e)}))

\* The device's clock goes on or is set, back too.
ClockMoves(d, w) ==
  /\ "clock" \in Faults /\ w # wall[d] /\ Spend
  /\ wall' = [wall EXCEPT ![d] = w] /\ UNCHANGED <<device, sync, doc, rev>>

-----------------------------------------------------------------------------
(* syncWith. *)

Reads(h, tries) == [at |-> "read", host |-> h, rev |-> rev[h], remote |-> doc[h], tries |-> tries]

\* meshDocGet, answered.
Get(d, h) ==
  /\ sync[d] = Idle /\ sync' = [sync EXCEPT ![d] = Reads(h, 1)]
  /\ UNCHANGED <<device, wall, doc, rev, budget>>

\* Mutant: the merge is compared with this device's copy.
NothingNew(d, merged) == merged = copy[d]
\* sameMap(merged, remote)
NothingToPut(d, merged) == merged = sync[d].remote

\* One attempt, from the answer to the next request: stamp, merge, apply, save. No removal is a year
\* old by any device's clock, so pruneTombstones drops none.
Attempt(d) ==
  /\ sync[d].at = "read" /\ UNCHANGED <<wall, doc, rev, budget>>
  /\ \E st \in {StampLocal(copy[d], view[d], clock[d], d, FALSE)}, remote \in {sync[d].remote} :
     \E merged \in {Merge(AdoptBaseline(st.m, remote), remote)} :
       /\ view' = [view EXCEPT ![d] = Applied(merged, view[d])]
       /\ copy' = [copy EXCEPT ![d] = merged]
       /\ clock' = [clock EXCEPT ![d] = Observed(st.last, remote)]
       /\ sync' = [sync EXCEPT ![d] = IF NothingToPut(d, merged) THEN Idle
                                      ELSE [@ EXCEPT !.at = "put", !.remote = merged]]

\* do_doc_put and its answer: saved, or what is there now, to try again with.
MaxTries == 4
\* Mutant: written whatever is there.
PutBlindly(d) ==
  /\ sync[d].at = "put" /\ sync' = [sync EXCEPT ![d] = Idle]
  /\ doc' = [doc EXCEPT ![sync[d].host] = sync[d].remote]
  /\ rev' = [rev EXCEPT ![sync[d].host] = @ + 1] /\ UNCHANGED <<device, wall, budget>>
Put(d) ==
  LET s == sync[d] h == sync[d].host IN
  /\ s.at = "put" /\ UNCHANGED <<device, wall, budget>>
  /\ \/ /\ s.rev = rev[h] /\ sync' = [sync EXCEPT ![d] = Idle]
        /\ doc' = [doc EXCEPT ![h] = s.remote] /\ rev' = [rev EXCEPT ![h] = @ + 1]
     \/ /\ s.rev # rev[h] /\ UNCHANGED <<doc, rev>>
        /\ sync' = [sync EXCEPT ![d] = IF s.tries < MaxTries THEN Reads(h, s.tries + 1) ELSE Idle]

\* The put is lost, or the app is closed: the sync is over. (A lost get is a sync that did not begin;
\* losing the answer of a put that was saved changes nothing, the device does not remember it.)
Lost(d) ==
  /\ "lost" \in Faults /\ sync[d].at = "put"
  /\ sync' = [sync EXCEPT ![d] = Idle] /\ UNCHANGED <<device, wall, doc, rev, budget>>

-----------------------------------------------------------------------------
\* startMeshShare: what the device has is stamped as from before.
Began(d) == StampLocal(Empty, Before[d], [t |-> 0, c |-> 0], d, TRUE)
Init ==
  /\ wall \in [Devices -> 1 .. MaxWall]
  /\ view = Before
  /\ copy = [d \in Devices |-> Began(d).m] /\ clock = [d \in Devices |-> Began(d).last]
  /\ sync = [d \in Devices |-> Idle]
  /\ doc = [h \in Consoles |-> Empty] /\ rev = [h \in Consoles |-> 0]
  /\ budget = MaxEvents

Next ==
  \E d \in Devices :
    \/ \E k \in Settings, v \in Values \cup {Null} : SetSetting(d, k, v)
    \/ \E e \in Entries :
         \/ \E v \in Values \cup {Default} : AddConsole(d, e, v)
         \/ RemoveConsole(d, e) \/ \E v \in Values : RenameConsole(d, e, v)
    \/ \E w \in 1 .. MaxWall : ClockMoves(d, w)
    \/ \E h \in Consoles : Get(d, h)
    \/ Attempt(d) \/ Put(d) \/ Lost(d)

Spec == Init /\ [][Next]_vars

\* A sync ends, as requests have time limits; a device syncs every minute while it is used, and is
\* used with every console again and again; the network is not down for ever.
Fairness ==
  /\ \A d \in Devices : []<>(sync[d] = Idle)
  /\ \A d \in Devices, h \in Consoles : []<>(sync[d] # Idle /\ sync[d].host = h)
  /\ <>[][\A d \in Devices : ~Lost(d)]_vars
LiveSpec == Spec /\ Fairness

-----------------------------------------------------------------------------
(* What sharing promises. *)

Maps == {copy[d] : d \in Devices} \cup {doc[h] : h \in Consoles}
          \cup {sync[d].remote : d \in {x \in Devices : sync[x] # Idle}}

\* Two changes never have the same stamp: a stamp names one value of a key, in every copy there is,
\* whatever the clocks do (Clock.now, Clock.observe). Merging relies on it.
StampsAreUnique ==
  \A m, n \in Maps : \A k \in DOMAIN m \cap DOMAIN n : m[k].h = n[k].h => m[k].v = n[k].v

\* What a sync applies to the device is what its copy says, so the next look at the device finds no
\* change that nobody made (stampLocal after plan and rosterFrom).
NoGhostChange ==
  \A d \in Devices : StampLocal(copy[d], view[d], clock[d], d, FALSE).m = copy[d]

\* No sync undoes a change: neither a device's copy nor a console's document ever takes a register
\* older than the one it has, also when the change was made while a request was out or another
\* device wrote in between. Only a device's set-up from before sharing gives way (adoptBaseline).
Keeps(m, n, from) ==
  \A k \in DOMAIN m : m[k].h.t >= from => k \in DOMAIN n /\ ~Later(m[k].h, n[k].h)
NothingIsUndone ==
  [][/\ \A d \in Devices : Keeps(copy[d], copy'[d], 1)
     /\ \A h \in Consoles : Keeps(doc[h], doc'[h], 0)]_vars

\* The first values of two devices meet, and no device has changed the key since: what was there
\* before sharing, or the names two devices added one console with.
Contested(k) ==
  LET stamps == {m[k].h : m \in {n \in Maps : k \in DOMAIN n}} IN
  (\A h \in stamps : h.t = 0) /\ \E h, g \in stamps : h.d # g.d
Shown(d, k) == IF k \in DOMAIN view[d] THEN view[d][k] ELSE Null

\* Once nothing is changed any more, the devices have the same settings, the same consoles in the
\* list and the same names for them ("the copies on every device and console converge"), though
\* puts are lost and devices write between each other's get and put. Only first values of two
\* devices, with no change since, may differ for ever (adoptBaseline).
Converges == <>[](\A k \in Keys : Contested(k) \/ \A d, e \in Devices : Shown(d, k) = Shown(e, k))

\* The same for first values too. It does not hold: when two devices put theirs on two consoles, a
\* device always takes the value of the console it syncs with, and no document changes any more.
AllConverges == <>[](\A d, e \in Devices : view[d] = view[e])
=============================================================================
