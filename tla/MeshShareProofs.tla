--------------------------- MODULE MeshShareProofs --------------------------
(***************************************************************************)
(* Sharing, for any number of devices, consoles, settings and changes: no  *)
(* two changes have the same stamp, no sync undoes a change, and none      *)
(* makes a change up.                                                      *)
(***************************************************************************)
EXTENDS MeshMapProofs

-----------------------------------------------------------------------------
(* The inductive invariant. *)

InSync(s) ==
  /\ s = [at |-> s.at, host |-> s.host, rev |-> s.rev, remote |-> s.remote, tries |-> s.tries]
  /\ s.at \in {"read", "put"} /\ s.host \in Consoles /\ s.rev \in Nat /\ Shared(s.remote)

Types ==
  /\ wall \in [Devices -> Nat] /\ clock \in [Devices -> Clocks] /\ rev \in [Consoles -> Nat]
  /\ DOMAIN view = Devices /\ \A d \in Devices : DOMAIN view[d] \subseteq Keys
  /\ DOMAIN copy = Devices /\ \A d \in Devices : Shared(copy[d])
  /\ DOMAIN doc = Consoles /\ \A h \in Consoles : Shared(doc[h])
  /\ DOMAIN sync = Devices /\ \A d \in Devices : sync[d] = Idle \/ InSync(sync[d])

\* A device's clock is past every stamp in its copy, its own and others'.
ClocksPast == \A d \in Devices : Past(clock[d], copy[d])

\* A sync whose console has not been written to since holds all of the console's document.
HoldsDocument(s) ==
  s.rev <= rev[s.host] /\ (s.rev = rev[s.host] => Keeps(doc[s.host], s.remote, 0))
SyncsHold == \A d \in Devices : sync[d] # Idle => HoldsDocument(sync[d])

\* A stamp was made by its device's clock, for a key the device has known since.
Owned ==
  \A m \in Maps : \A k \in DOMAIN m :
    /\ m[k].h.d \in Devices
    /\ k \in DOMAIN copy[m[k].h.d] /\ Covers(clock[m[k].h.d], m[k].h)

IInv == Types /\ ClocksPast /\ SyncsHold /\ Owned /\ StampsAreUnique

\* What a step keeps of the copies and documents (the action of NothingIsUndone).
KeptAll == /\ \A d \in Devices : Keeps(copy[d], copy'[d], 1)
           /\ \A h \in Consoles : Keeps(doc[h], doc'[h], 0)

\* Every map there is is one of shared keys.
LEMMA MapsShared ==
  ASSUME Types, NEW m \in Maps
  PROVE  Shared(m)
<1>1. CASE \E d \in Devices : m = copy[d]
  BY <1>1 DEF Types
<1>2. CASE \E h \in Consoles : m = doc[h]
  BY <1>2 DEF Types
<1>3. CASE \E d \in Devices : sync[d] # Idle /\ m = sync[d].remote
  BY <1>3 DEF Types, InSync
<1> QED
  BY <1>1, <1>2, <1>3 DEF Maps

\* A look at device d stamps map st.
Stamped(d, st) ==
  /\ Shared(st)
  /\ \A k \in DOMAIN st : \/ k \in DOMAIN copy[d] /\ st[k] = copy[d][k]
                          \/ Fresh(copy[d], st, clock[d], d, k)

\* After the step every register there is was there before or is of st, copies have lost no key and
\* clocks have not gone back.
From(st) ==
  \A m \in Maps' : \A k \in DOMAIN m : \/ \E n \in Maps : k \in DOMAIN n /\ n[k] = m[k]
                                       \/ k \in DOMAIN st /\ m[k] = st[k]
Grown == /\ \A e \in Devices : DOMAIN copy[e] \subseteq DOMAIN copy'[e]
         /\ \A e \in Devices : \A h \in Stamps : Covers(clock[e], h) => Covers(clock'[e], h)
Taken(d, st) == DOMAIN st \subseteq DOMAIN copy'[d] /\ Past(clock'[d], st)

\* Then stamps stay owned and unique.
LEMMA StampedOwned ==
  ASSUME IInv, NEW d \in Devices, NEW st, Stamped(d, st), From(st), Grown, Taken(d, st)
  PROVE  Owned' /\ StampsAreUnique'
<1> DEFINE Old(k, r) == \E n \in Maps : k \in DOMAIN n /\ n[k] = r
           New(k, r) == k \in DOMAIN st /\ r = st[k] /\ Fresh(copy[d], st, clock[d], d, k)
<1>1. copy[d] \in Maps
  BY DEF Maps
<1>2. \A m \in Maps' : \A k \in DOMAIN m : Old(k, m[k]) \/ New(k, m[k])
  BY <1>1 DEF From, Stamped
<1>3. ASSUME NEW k, NEW r, Old(k, r)
      PROVE  /\ r.h \in Stamps /\ r.h.d \in Devices
             /\ k \in DOMAIN copy[r.h.d] /\ Covers(clock[r.h.d], r.h)
  BY <1>3, MapsShared DEF IInv, Owned, Shared, IsMap
<1>4. Owned'
  <2> SUFFICES ASSUME NEW m \in Maps', NEW k \in DOMAIN m
               PROVE  /\ m[k].h.d \in Devices
                      /\ k \in DOMAIN copy'[m[k].h.d] /\ Covers(clock'[m[k].h.d], m[k].h)
    BY DEF Owned
  <2>1. CASE Old(k, m[k])
    <3> DEFINE r == m[k]
    <3>1. /\ r.h \in Stamps /\ r.h.d \in Devices
          /\ k \in DOMAIN copy[r.h.d] /\ Covers(clock[r.h.d], r.h)
      BY <1>3, <2>1
    <3> HIDE DEF r
    <3>2. r.h.d \in Devices /\ k \in DOMAIN copy'[r.h.d] /\ Covers(clock'[r.h.d], r.h)
      BY <3>1 DEF Grown
    <3> QED
      BY <3>2 DEF r
  <2>2. CASE New(k, m[k])
    BY <2>2 DEF Fresh, Past, Taken
  <2> HIDE DEF Old, New
  <2> QED
    BY <1>2, <2>1, <2>2
<1>5. ASSUME NEW k, NEW r, NEW q, Old(k, r), New(k, q) PROVE r.h # q.h
  <2> SUFFICES ASSUME r.h = q.h PROVE FALSE
    OBVIOUS
  <2>1. r.h.d = d
    BY <1>5 DEF Fresh
  <2>2. k \in DOMAIN copy[d] /\ Covers(clock[d], r.h)
    BY <1>3, <1>5, <2>1
  <2> QED
    BY <1>5, <2>2 DEF Fresh
<1>6. ASSUME NEW k, NEW r, NEW q, Old(k, r), Old(k, q), r.h = q.h PROVE r.v = q.v
  BY <1>6 DEF IInv, StampsAreUnique
<1>7. ASSUME NEW k, NEW r, NEW q, New(k, r), New(k, q) PROVE r = q
  BY <1>7
<1> HIDE DEF Old, New
<1>8. StampsAreUnique'
  <2> SUFFICES ASSUME NEW m \in Maps', NEW n \in Maps', NEW k \in DOMAIN m \cap DOMAIN n,
                      m[k].h = n[k].h
               PROVE  m[k].v = n[k].v
    BY DEF StampsAreUnique
  <2>1. (Old(k, m[k]) \/ New(k, m[k])) /\ (Old(k, n[k]) \/ New(k, n[k]))
    BY <1>2
  <2>2. CASE Old(k, m[k]) /\ Old(k, n[k])
    BY <1>6, <2>2
  <2>3. CASE Old(k, m[k]) /\ New(k, n[k])
    BY <1>5, <2>3
  <2>4. CASE New(k, m[k]) /\ Old(k, n[k])
    BY <1>5, <2>4
  <2>5. CASE New(k, m[k]) /\ New(k, n[k])
    BY <1>7, <2>5
  <2> QED
    BY <2>1, <2>2, <2>3, <2>4, <2>5
<1> QED
  BY <1>4, <1>8

-----------------------------------------------------------------------------
(* The steps. *)

\* A change of the person on device d.
LEMMA ChangesStep ==
  ASSUME IInv, NEW d \in Devices, NEW v, DOMAIN v \subseteq Keys, Changes(d, v)
  PROVE  IInv' /\ KeptAll
<1> DEFINE s == StampLocal(copy[d], v, clock[d], d, FALSE)
<1>1. /\ view' = [view EXCEPT ![d] = v] /\ copy' = [copy EXCEPT ![d] = s.m]
      /\ clock' = [clock EXCEPT ![d] = s.last] /\ UNCHANGED <<wall, sync, doc, rev>>
  BY DEF Changes
<1>2. /\ Shared(copy[d]) /\ Past(clock[d], copy[d]) /\ clock[d] \in Clocks /\ wall[d] \in Nat
      /\ DOMAIN copy = Devices /\ DOMAIN clock = Devices /\ DOMAIN view = Devices
  BY DEF IInv, Types, ClocksPast
<1>3. /\ Shared(s.m) /\ s.last \in Clocks
      /\ DOMAIN copy[d] \subseteq DOMAIN s.m
      /\ Keeps(copy[d], s.m, 0)
      /\ Past(s.last, s.m)
      /\ \A h \in Stamps : Covers(clock[d], h) => Covers(s.last, h)
      /\ \A k \in DOMAIN s.m : \/ k \in DOMAIN copy[d] /\ s.m[k] = copy[d][k]
                               \/ Fresh(copy[d], s.m, clock[d], d, k)
  BY <1>2, StampedIs
<1> HIDE DEF s
<1>4. /\ copy'[d] = s.m /\ clock'[d] = s.last
      /\ \A e \in Devices \ {d} : copy'[e] = copy[e] /\ clock'[e] = clock[e]
  BY <1>1, <1>2
<1>5. Types'
  BY <1>1, <1>2, <1>3, <1>4 DEF IInv, Types, InSync
<1>6. ClocksPast'
  BY <1>3, <1>4 DEF IInv, ClocksPast
<1>7. SyncsHold'
  BY <1>1 DEF IInv, SyncsHold, HoldsDocument
<1>8. Owned' /\ StampsAreUnique'
  <2>1. ASSUME NEW m \in Maps', NEW k \in DOMAIN m
        PROVE  (\E n \in Maps : k \in DOMAIN n /\ n[k] = m[k]) \/ (k \in DOMAIN s.m /\ m[k] = s.m[k])
    <3>1. m \in Maps \/ m = s.m
      BY <1>1, <1>4 DEF Maps
    <3> QED
      BY <3>1
  <2>2. \A e \in Devices : DOMAIN copy[e] \subseteq DOMAIN copy'[e]
    BY <1>3, <1>4
  <2>3. \A e \in Devices : \A h \in Stamps : Covers(clock[e], h) => Covers(clock'[e], h)
    BY <1>3, <1>4
  <2> QED
    <3> DEFINE sm == s.m
    <3> HIDE DEF sm
    <3>1. Stamped(d, sm) /\ Taken(d, sm)
      BY <1>3, <1>4 DEF sm, Stamped, Taken
    <3>2. From(sm)
      BY <2>1 DEF sm, From
    <3>3. Grown
      BY <2>2, <2>3 DEF Grown
    <3> QED
      BY <3>1, <3>2, <3>3, StampedOwned
<1>9. KeptAll
  <2>1. \A e \in Devices : IsMap(copy[e])
    BY DEF IInv, Types, Shared
  <2>2. \A h \in Consoles : IsMap(doc[h])
    BY DEF IInv, Types, Shared
  <2>3. Keeps(copy[d], s.m, 1)
    BY <1>3, <2>1, KeepsLess
  <2> QED
    BY <1>1, <1>4, <2>1, <2>2, <2>3, KeepsItself DEF KeptAll
<1> QED
  BY <1>5, <1>6, <1>7, <1>8, <1>9 DEF IInv

\* The record of a sync that is about to write.
LEMMA PutRecord ==
  ASSUME NEW s, InSync(s), NEW m
  PROVE  /\ [s EXCEPT !.at = "put", !.remote = m] =
              [at |-> "put", host |-> s.host, rev |-> s.rev, remote |-> m, tries |-> s.tries]
         /\ [s EXCEPT !.at = "put", !.remote = m] # Idle
<1> DEFINE a == s.at
           h == s.host
           r == s.rev
           o == s.remote
           t == s.tries
<1>1. s = [at |-> a, host |-> h, rev |-> r, remote |-> o, tries |-> t]
  BY DEF InSync
<1> HIDE DEF a, h, r, o, t
<1>2. [s EXCEPT !.at = "put", !.remote = m] =
        [at |-> "put", host |-> h, rev |-> r, remote |-> m, tries |-> t]
  <2> DEFINE n == [s EXCEPT !.at = "put", !.remote = m]
  <2>1. s \in [at : {a, "put"}, host : {h}, rev : {r}, remote : {o, m}, tries : {t}]
    BY <1>1
  <2>2. /\ n \in [at : {a, "put"}, host : {h}, rev : {r}, remote : {o, m}, tries : {t}]
        /\ n.at = "put" /\ n.remote = m
    BY <2>1
  <2> HIDE DEF n
  <2>3. n = [at |-> "put", host |-> h, rev |-> r, remote |-> m, tries |-> t]
    BY <2>2
  <2> QED
    BY <2>3 DEF n
<1>3. s.host = h /\ s.rev = r /\ s.tries = t
  BY <1>1
<1> QED
  BY <1>2, <1>3 DEF Idle

\* One attempt of a sync.
LEMMA AttemptStep ==
  ASSUME IInv, NEW d \in Devices, Attempt(d)
  PROVE  IInv' /\ KeptAll
<1> DEFINE s == StampLocal(copy[d], view[d], clock[d], d, FALSE)
           remote == sync[d].remote
           merged == Merge(AdoptBaseline(s.m, remote), remote)
           last == Observed(s.last, remote)
           put == [sync[d] EXCEPT !.at = "put", !.remote = merged]
<1>1. /\ view' = [view EXCEPT ![d] = Applied(merged, view[d])]
      /\ copy' = [copy EXCEPT ![d] = merged]
      /\ clock' = [clock EXCEPT ![d] = last]
      /\ sync' = [sync EXCEPT ![d] = IF NothingToPut(d, merged) THEN Idle ELSE put]
      /\ UNCHANGED <<wall, doc, rev>> /\ sync[d].at = "read"
  BY DEF Attempt
<1>2. /\ Shared(copy[d]) /\ Past(clock[d], copy[d]) /\ clock[d] \in Clocks /\ wall[d] \in Nat
      /\ DOMAIN view[d] \subseteq Keys
      /\ DOMAIN copy = Devices /\ DOMAIN clock = Devices /\ DOMAIN view = Devices /\ DOMAIN sync = Devices
  BY DEF IInv, Types, ClocksPast
<1>3. sync[d] # Idle /\ InSync(sync[d]) /\ Shared(remote)
  BY <1>1 DEF IInv, Types, Idle, InSync
<1>4. /\ Shared(s.m) /\ s.last \in Clocks
      /\ DOMAIN copy[d] \subseteq DOMAIN s.m
      /\ Keeps(copy[d], s.m, 0)
      /\ Past(s.last, s.m)
      /\ \A h \in Stamps : Covers(clock[d], h) => Covers(s.last, h)
      /\ \A k \in DOMAIN s.m : \/ k \in DOMAIN copy[d] /\ s.m[k] = copy[d][k]
                               \/ Fresh(copy[d], s.m, clock[d], d, k)
  BY <1>2, StampedIs
<1> HIDE DEF s, remote
<1>5. /\ Shared(merged)
      /\ DOMAIN merged = DOMAIN s.m \cup DOMAIN remote
      /\ Keeps(s.m, merged, 1) /\ Keeps(remote, merged, 0)
      /\ \A k \in DOMAIN merged : \/ k \in DOMAIN s.m /\ merged[k] = s.m[k]
                                  \/ k \in DOMAIN remote /\ merged[k] = remote[k]
  <2> DEFINE sm == s.m
  <2>1. Shared(sm) /\ Shared(remote)
    BY <1>3, <1>4
  <2> HIDE DEF sm
  <2> DEFINE mm == Merge(AdoptBaseline(sm, remote), remote)
  <2>2. /\ Shared(mm)
        /\ DOMAIN mm = DOMAIN sm \cup DOMAIN remote
        /\ Keeps(sm, mm, 1) /\ Keeps(remote, mm, 0)
        /\ \A k \in DOMAIN mm : \/ k \in DOMAIN sm /\ mm[k] = sm[k]
                                \/ k \in DOMAIN remote /\ mm[k] = remote[k]
    BY <2>1, MergedIs
  <2> QED
    BY <2>2 DEF sm
<1>6. /\ last \in Clocks
      /\ \A h \in Stamps : Covers(s.last, h) => Covers(last, h)
      /\ \A k \in DOMAIN remote : Covers(last, remote[k].h)
  BY <1>3, <1>4, SharedFinite, ObservedCovers DEF Shared
<1>7. /\ put = [at |-> "put", host |-> sync[d].host, rev |-> sync[d].rev, remote |-> merged,
                tries |-> sync[d].tries]
      /\ put # Idle
  BY <1>3, PutRecord
<1>8. DOMAIN Applied(merged, view[d]) \subseteq Keys
  BY DEF Applied, Keys
<1> HIDE DEF merged, last, put
<1>9. /\ copy'[d] = merged /\ clock'[d] = last
      /\ \A e \in Devices \ {d} : copy'[e] = copy[e] /\ clock'[e] = clock[e] /\ sync'[e] = sync[e]
      /\ sync'[d] = Idle \/ sync'[d] = put
  BY <1>1, <1>2
<1>10. Past(last, s.m) /\ Past(last, merged)
  <2>1. \A k \in DOMAIN s.m : s.m[k].h \in Stamps
    BY <1>4 DEF Shared, IsMap
  <2>2. Past(last, s.m)
    BY <1>4, <1>6, <2>1 DEF Past
  <2> QED
    BY <1>5, <1>6, <2>2 DEF Past
<1>11. Types'
  <2>1. InSync(put)
    BY <1>3, <1>5, <1>7 DEF InSync
  <2>2. clock' \in [Devices -> Clocks]
    BY <1>1, <1>6 DEF IInv, Types
  <2>3. DOMAIN view' = Devices /\ \A e \in Devices : DOMAIN view'[e] \subseteq Keys
    BY <1>1, <1>2, <1>8 DEF IInv, Types
  <2>4. DOMAIN copy' = Devices /\ \A e \in Devices : Shared(copy'[e])
    BY <1>1, <1>2, <1>5, <1>9 DEF IInv, Types
  <2>5. DOMAIN sync' = Devices /\ \A e \in Devices : sync'[e] = Idle \/ InSync(sync'[e])
    BY <1>1, <1>2, <1>9, <2>1 DEF IInv, Types
  <2> QED
    BY <1>1, <2>2, <2>3, <2>4, <2>5 DEF IInv, Types
<1>12. ClocksPast'
  BY <1>9, <1>10 DEF IInv, ClocksPast
<1>13. SyncsHold'
  <2> SUFFICES ASSUME NEW e \in Devices, sync'[e] # Idle PROVE HoldsDocument(sync[e])'
    BY DEF SyncsHold
  <2>1. CASE e # d
    BY <1>1, <1>9, <2>1 DEF IInv, SyncsHold, HoldsDocument
  <2>2. CASE e = d
    <3>1. sync'[e] = put
      BY <1>9, <2>2
    <3>2. HoldsDocument(sync[d]) /\ Shared(doc[sync[d].host])
      BY <1>3 DEF IInv, SyncsHold, Types, InSync
    <3>3. Keeps(doc[sync[d].host], remote, 0) => Keeps(doc[sync[d].host], merged, 0)
      BY <1>3, <1>5, <3>2, KeepsTransitive DEF Shared
    <3> QED
      BY <1>1, <1>7, <3>1, <3>2, <3>3, SMTT(60) DEF HoldsDocument, remote
  <2> QED
    BY <2>1, <2>2
<1>14. Owned' /\ StampsAreUnique'
  <2>1. remote \in Maps
    BY <1>3 DEF Maps, remote
  <2>2. ASSUME NEW m \in Maps', NEW k \in DOMAIN m
        PROVE  (\E n \in Maps : k \in DOMAIN n /\ n[k] = m[k]) \/ (k \in DOMAIN s.m /\ m[k] = s.m[k])
    <3>1. m \in Maps \/ m = merged
      BY <1>1, <1>7, <1>9 DEF Maps
    <3> QED
      BY <1>5, <2>1, <3>1
  <2>3. \A e \in Devices : DOMAIN copy[e] \subseteq DOMAIN copy'[e]
    BY <1>4, <1>5, <1>9
  <2>4. \A e \in Devices : \A h \in Stamps : Covers(clock[e], h) => Covers(clock'[e], h)
    BY <1>4, <1>6, <1>9
  <2>5. DOMAIN s.m \subseteq DOMAIN copy'[d] /\ Past(clock'[d], s.m)
    BY <1>5, <1>9, <1>10
  <2> QED
    <3> DEFINE sm == s.m
    <3> HIDE DEF sm
    <3>1. Stamped(d, sm) /\ Taken(d, sm)
      BY <1>4, <2>5 DEF sm, Stamped, Taken
    <3>2. From(sm)
      BY <2>2 DEF sm, From
    <3>3. Grown
      BY <2>3, <2>4 DEF Grown
    <3> QED
      BY <3>1, <3>2, <3>3, StampedOwned
<1>15. KeptAll
  <2>1. \A e \in Devices : IsMap(copy[e])
    BY DEF IInv, Types, Shared
  <2>2. \A h \in Consoles : IsMap(doc[h])
    BY DEF IInv, Types, Shared
  <2>3. Keeps(copy[d], merged, 1)
    BY <1>4, <1>5, <2>1, KeepsLess, KeepsTransitive DEF Shared
  <2> QED
    BY <1>1, <1>9, <2>1, <2>2, <2>3, KeepsItself DEF KeptAll
<1> QED
  BY <1>11, <1>12, <1>13, <1>14, <1>15 DEF IInv

\* A step that leaves the devices alone and makes no new map.
LEMMA NoNewMap ==
  ASSUME IInv, UNCHANGED device, Maps' \subseteq Maps
  PROVE  ClocksPast' /\ Owned' /\ StampsAreUnique'
<1>1. copy' = copy /\ clock' = clock
  BY DEF device
<1>2. ClocksPast'
  BY <1>1 DEF IInv, ClocksPast
<1>3. Owned'
  BY <1>1 DEF IInv, Owned
<1>4. StampsAreUnique'
  BY DEF IInv, StampsAreUnique
<1> QED
  BY <1>2, <1>3, <1>4

\* A step that leaves the devices alone keeps everything if it keeps the documents.
LEMMA DevicesKept ==
  ASSUME IInv, UNCHANGED device, \A h \in Consoles : doc'[h] # doc[h] => Keeps(doc[h], doc'[h], 0)
  PROVE  KeptAll
<1>1. copy' = copy
  BY DEF device
<1>2. \A d \in Devices : IsMap(copy[d])
  BY DEF IInv, Types, Shared
<1>3. \A h \in Consoles : IsMap(doc[h])
  BY DEF IInv, Types, Shared
<1> QED
  BY <1>1, <1>2, <1>3, KeepsItself DEF KeptAll

\* Reading a console's document.
LEMMA ReadsStep ==
  ASSUME IInv, NEW d \in Devices, NEW h \in Consoles, NEW n,
         sync' = [sync EXCEPT ![d] = Reads(h, n)], UNCHANGED <<device, wall, doc, rev>>
  PROVE  IInv' /\ KeptAll
<1> DEFINE r == Reads(h, n)
<1>1. /\ r # Idle /\ InSync(r) /\ r.host = h /\ r.rev = rev[h] /\ r.remote = doc[h]
  BY DEF Reads, Idle, InSync, IInv, Types
<1> HIDE DEF r
<1>2. DOMAIN sync = Devices /\ sync'[d] = r /\ \A e \in Devices \ {d} : sync'[e] = sync[e]
  BY DEF IInv, Types, r
<1>3. Types'
  BY <1>1, <1>2 DEF IInv, Types, InSync, device
<1>4. SyncsHold'
  <2> SUFFICES ASSUME NEW e \in Devices, sync'[e] # Idle PROVE HoldsDocument(sync[e])'
    BY DEF SyncsHold
  <2>1. CASE e # d
    BY <1>2, <2>1 DEF IInv, SyncsHold, HoldsDocument
  <2>2. CASE e = d
    <3>1. IsMap(doc[h]) /\ rev[h] \in Nat
      BY DEF IInv, Types, Shared
    <3> QED
      BY <1>1, <1>2, <2>2, <3>1, KeepsItself DEF HoldsDocument
  <2> QED
    BY <2>1, <2>2
<1>5. Maps' \subseteq Maps
  BY <1>1, <1>2 DEF Maps, device
<1>6. KeptAll
  BY DevicesKept
<1> QED
  BY <1>3, <1>4, <1>5, <1>6, NoNewMap DEF IInv

\* The end of a sync that wrote nothing.
LEMMA EndsStep ==
  ASSUME IInv, NEW d \in Devices,
         sync' = [sync EXCEPT ![d] = Idle], UNCHANGED <<device, wall, doc, rev>>
  PROVE  IInv' /\ KeptAll
<1>1. DOMAIN sync = Devices /\ sync'[d] = Idle /\ \A e \in Devices \ {d} : sync'[e] = sync[e]
  BY DEF IInv, Types
<1>2. Types'
  BY <1>1 DEF IInv, Types, InSync, device
<1>3. SyncsHold'
  BY <1>1 DEF IInv, SyncsHold, HoldsDocument
<1>4. Maps' \subseteq Maps
  BY <1>1 DEF Maps, device
<1>5. KeptAll
  BY DevicesKept
<1> QED
  BY <1>2, <1>3, <1>4, <1>5, NoNewMap DEF IInv

\* A write the console took: only the sync that read the document as it still is gets here.
LEMMA SavedStep ==
  ASSUME IInv, NEW d \in Devices, sync[d].at = "put",
         NEW h \in Consoles, h = sync[d].host, sync[d].rev = rev[h],
         sync' = [sync EXCEPT ![d] = Idle], doc' = [doc EXCEPT ![h] = sync[d].remote],
         rev' = [rev EXCEPT ![h] = @ + 1], UNCHANGED <<device, wall>>
  PROVE  IInv' /\ KeptAll
<1>1. sync[d] # Idle /\ InSync(sync[d])
  BY DEF IInv, Types, Idle
<1>2. /\ DOMAIN sync = Devices /\ sync'[d] = Idle /\ \A e \in Devices \ {d} : sync'[e] = sync[e]
      /\ DOMAIN doc = Consoles /\ doc'[h] = sync[d].remote
      /\ \A g \in Consoles \ {h} : doc'[g] = doc[g] /\ rev'[g] = rev[g]
      /\ rev[h] \in Nat /\ rev'[h] = rev[h] + 1
  BY DEF IInv, Types
<1>3. Types'
  <2>1. rev' \in [Consoles -> Nat]
    BY DEF IInv, Types
  <2>2. DOMAIN doc' = Consoles /\ \A g \in Consoles : Shared(doc'[g])
    BY <1>1, <1>2 DEF IInv, Types, InSync
  <2>3. DOMAIN sync' = Devices /\ \A e \in Devices : sync'[e] = Idle \/ InSync(sync'[e])
    BY <1>2 DEF IInv, Types
  <2> QED
    BY <2>1, <2>2, <2>3 DEF IInv, Types, device
<1>4. SyncsHold'
  <2> SUFFICES ASSUME NEW e \in Devices, sync'[e] # Idle PROVE HoldsDocument(sync[e])'
    BY DEF SyncsHold
  <2>1. e # d /\ sync'[e] = sync[e] /\ HoldsDocument(sync[e]) /\ InSync(sync[e])
    BY <1>2 DEF IInv, SyncsHold, Types
  <2>2. CASE sync[e].host = h
    <3>1. sync[e].rev \in Nat
      BY <2>1 DEF InSync
    <3> QED
      BY <1>2, <2>1, <2>2, <3>1 DEF HoldsDocument
  <2>3. CASE sync[e].host # h
    <3>1. sync[e].host \in Consoles
      BY <2>1 DEF InSync
    <3> QED
      BY <1>2, <2>1, <2>3, <3>1 DEF HoldsDocument
  <2> QED
    BY <2>2, <2>3
<1>5. Maps' \subseteq Maps
  BY <1>1, <1>2 DEF Maps, device
<1>6. KeptAll
  <2>1. Keeps(doc[h], sync[d].remote, 0)
    BY <1>1 DEF IInv, SyncsHold, HoldsDocument
  <2> QED
    BY <1>2, <2>1, DevicesKept
<1> QED
  BY <1>3, <1>4, <1>5, <1>6, NoNewMap DEF IInv

\* A wall clock goes on or is set.
LEMMA ClockStep ==
  ASSUME IInv, NEW d \in Devices, NEW w \in 1 .. MaxWall, ClockMoves(d, w)
  PROVE  IInv' /\ KeptAll
<1>1. wall' = [wall EXCEPT ![d] = w] /\ UNCHANGED <<device, sync, doc, rev>> /\ w \in Nat
  BY MeshAssumption DEF ClockMoves
<1>2. Types'
  BY <1>1 DEF IInv, Types, InSync, device
<1>3. SyncsHold'
  BY <1>1 DEF IInv, SyncsHold, HoldsDocument
<1>4. Maps' \subseteq Maps
  BY <1>1 DEF Maps, device
<1>5. KeptAll
  BY <1>1, DevicesKept
<1> QED
  BY <1>1, <1>2, <1>3, <1>4, <1>5, NoNewMap DEF IInv

-----------------------------------------------------------------------------
(* The theorems. *)

\* Sharing starts in the invariant.
LEMMA InitInv == Init => IInv
<1> SUFFICES ASSUME Init PROVE IInv
  OBVIOUS
<1>1. /\ wall \in [Devices -> Nat] /\ view = Before
      /\ copy = [d \in Devices |-> Began(d).m] /\ clock = [d \in Devices |-> Began(d).last]
      /\ sync = [d \in Devices |-> Idle]
      /\ doc = [h \in Consoles |-> Empty] /\ rev = [h \in Consoles |-> 0]
  BY MeshAssumption DEF Init
<1>2. Shared(Empty) /\ DOMAIN Empty = {}
  BY DEF Empty, Shared, IsMap
<1>3. ASSUME NEW d \in Devices
      PROVE  /\ Shared(copy[d]) /\ clock[d] \in Clocks /\ Past(clock[d], copy[d])
             /\ \A k \in DOMAIN copy[d] : copy[d][k].h.d = d
  <2> DEFINE zero == [t |-> 0, c |-> 0]
             s == StampLocal(Empty, Before[d], zero, d, TRUE)
  <2>1. zero \in Clocks /\ Past(zero, Empty) /\ DOMAIN Before[d] \subseteq Keys /\ wall[d] \in Nat
    BY <1>1, <1>2, MeshAssumption DEF Clocks, Past, IsView
  <2>2. /\ Shared(s.m) /\ s.last \in Clocks /\ Past(s.last, s.m)
        /\ \A k \in DOMAIN s.m : \/ k \in DOMAIN Empty /\ s.m[k] = Empty[k]
                                 \/ Fresh(Empty, s.m, zero, d, k)
    <3> HIDE DEF zero
    <3> QED
      BY <1>2, <2>1, StampedIs
  <2>3. copy[d] = s.m /\ clock[d] = s.last
    BY <1>1 DEF Began
  <2> HIDE DEF s
  <2> QED
    BY <1>2, <2>2, <2>3 DEF Fresh
<1>4. Types
  BY <1>1, <1>2, <1>3, MeshAssumption DEF Types, IsView
<1>5. ClocksPast
  BY <1>3 DEF ClocksPast
<1>6. SyncsHold
  BY <1>1 DEF SyncsHold
<1>7. ASSUME NEW m \in Maps, NEW k \in DOMAIN m PROVE \E d \in Devices : m = copy[d] /\ m[k].h.d = d
  BY <1>1, <1>2, <1>3, SMTT(60) DEF Maps
<1>8. Owned
  BY <1>3, <1>7, SMTT(60) DEF Owned, Past
<1>9. StampsAreUnique
  BY <1>7, SMTT(60) DEF StampsAreUnique
<1> QED
  BY <1>4, <1>5, <1>6, <1>8, <1>9 DEF IInv

\* Every step keeps the invariant, and every change.
LEMMA NextInv ==
  ASSUME IInv, [Next]_vars
  PROVE  IInv' /\ KeptAll
<1>1. CASE UNCHANGED vars
  <2>1. UNCHANGED <<device, wall, sync, doc, rev>>
    BY <1>1 DEF vars
  <2>2. Types' /\ SyncsHold' /\ Maps' = Maps
    BY <2>1 DEF IInv, Types, InSync, SyncsHold, HoldsDocument, Maps, device
  <2>3. KeptAll
    BY <2>1, DevicesKept
  <2> QED
    BY <2>1, <2>2, <2>3, NoNewMap DEF IInv
<1>2. CASE Next
  <2>1. PICK d \in Devices :
          \/ \E k \in Settings, v \in Values \cup {Null} : SetSetting(d, k, v)
          \/ \E e \in Entries :
               \/ \E v \in Values \cup {Default} : AddConsole(d, e, v)
               \/ RemoveConsole(d, e) \/ \E v \in Values : RenameConsole(d, e, v)
          \/ \E w \in 1 .. MaxWall : ClockMoves(d, w)
          \/ \E h \in Consoles : Get(d, h)
          \/ Attempt(d) \/ Put(d) \/ Lost(d)
    BY <1>2 DEF Next
  <2>2. DOMAIN view[d] \subseteq Keys
    BY DEF IInv, Types
  <2>3. ASSUME NEW k \in Settings, NEW v, SetSetting(d, k, v) PROVE IInv' /\ KeptAll
    <3>1. DOMAIN With(view[d], k, v) \subseteq Keys
      BY <2>2 DEF With, Keys
    <3> QED
      BY <2>3, <3>1, ChangesStep DEF SetSetting
  <2>4. ASSUME NEW e \in Entries, NEW v, AddConsole(d, e, v) PROVE IInv' /\ KeptAll
    <3>1. DOMAIN With(With(view[d], Listed(e), 1), Name(e), v) \subseteq Keys
      BY <2>2 DEF With, Keys
    <3> QED
      BY <2>4, <3>1, ChangesStep DEF AddConsole
  <2>5. ASSUME NEW e \in Entries, RemoveConsole(d, e) PROVE IInv' /\ KeptAll
    <3>1. DOMAIN Drop(view[d], {Listed(e), Name(e)}) \subseteq Keys
      BY <2>2 DEF Drop
    <3> QED
      BY <2>5, <3>1, ChangesStep DEF RemoveConsole
  <2>6. ASSUME NEW e \in Entries, NEW v, RenameConsole(d, e, v) PROVE IInv' /\ KeptAll
    <3>1. DOMAIN With(view[d], Name(e), v) \subseteq Keys
      BY <2>2 DEF With, Keys
    <3> QED
      BY <2>6, <3>1, ChangesStep DEF RenameConsole
  <2>7. ASSUME NEW h \in Consoles, Get(d, h) PROVE IInv' /\ KeptAll
    BY <2>7, ReadsStep DEF Get
  <2>8. ASSUME Put(d) PROVE IInv' /\ KeptAll
    <3> DEFINE h == sync[d].host
    <3>1. sync[d].at = "put" /\ UNCHANGED <<device, wall>> /\ h \in Consoles
      BY <2>8, SMTT(60) DEF Put, IInv, Types, Idle, InSync
    <3>2. \/ /\ sync[d].rev = rev[h] /\ sync' = [sync EXCEPT ![d] = Idle]
             /\ doc' = [doc EXCEPT ![h] = sync[d].remote] /\ rev' = [rev EXCEPT ![h] = @ + 1]
          \/ sync' = [sync EXCEPT ![d] = Reads(h, sync[d].tries + 1)] /\ UNCHANGED <<doc, rev>>
          \/ sync' = [sync EXCEPT ![d] = Idle] /\ UNCHANGED <<doc, rev>>
      BY <2>8 DEF Put
    <3> QED
      BY <3>1, <3>2, SavedStep, ReadsStep, EndsStep
  <2>9. ASSUME Lost(d) PROVE IInv' /\ KeptAll
    BY <2>9, EndsStep DEF Lost
  <2> QED
    BY <2>1, <2>3, <2>4, <2>5, <2>6, <2>7, <2>8, <2>9, ClockStep, AttemptStep
<1> QED
  BY <1>1, <1>2

\* No two changes have the same stamp, on any number of devices whose wall clocks say anything at
\* all (Clock.now and Clock.observe in meshCrdt.ts, stampLocal in meshShare.ts).
THEOREM UniqueStamps == Spec => []StampsAreUnique
<1>1. IInv /\ [Next]_vars => IInv'
  BY NextInv
<1>2. IInv => StampsAreUnique
  BY DEF IInv
<1> QED
  BY InitInv, <1>1, <1>2, PTL DEF Spec

\* No sync undoes a change, with any number of devices and consoles whose requests interleave and
\* are lost (syncWith in meshShare.ts, do_doc_put in mesh.c).
THEOREM ChangesAreKept == Spec => NothingIsUndone
<1>1. IInv /\ [Next]_vars => IInv'
  BY NextInv
<1>2. IInv /\ [Next]_vars => [KeptAll]_vars
  BY NextInv
<1>3. [KeptAll]_vars <=> [/\ \A d \in Devices : Keeps(copy[d], copy'[d], 1)
                          /\ \A h \in Consoles : Keeps(doc[h], doc'[h], 0)]_vars
  BY DEF KeptAll
<1> QED
  BY InitInv, <1>1, <1>2, <1>3, PTL DEF Spec, NothingIsUndone

-----------------------------------------------------------------------------
(* A device has what its copy says. *)

\* The inductive invariant: copies tell what the devices have, and no map lists a console without
\* a name.
ViewsTold == \A d \in Devices : IsView(view[d]) /\ Tells(copy[d], view[d])
MapsNamed ==
  /\ \A d \in Devices : Named(copy[d])
  /\ \A h \in Consoles : Named(doc[h])
  /\ \A d \in Devices : sync[d] # Idle => Named(sync[d].remote)
GhostInv == ViewsTold /\ MapsNamed

\* A change of the person leaves a view, told by the copy.
LEMMA ChangesTold ==
  ASSUME IInv, GhostInv, NEW d \in Devices, NEW v, IsView(v), Changes(d, v)
  PROVE  GhostInv'
<1> DEFINE s == StampLocal(copy[d], v, clock[d], d, FALSE)
<1>1. /\ view' = [view EXCEPT ![d] = v] /\ copy' = [copy EXCEPT ![d] = s.m]
      /\ UNCHANGED <<sync, doc>>
  BY DEF Changes
<1>2. DOMAIN view = Devices /\ DOMAIN copy = Devices
  BY DEF IInv, Types
<1>3. Tells(s.m, v) /\ Named(s.m)
  BY StampedTells DEF GhostInv, MapsNamed
<1> HIDE DEF s
<1>4. ViewsTold'
  BY <1>1, <1>2, <1>3 DEF GhostInv, ViewsTold
<1>5. MapsNamed'
  BY <1>1, <1>2, <1>3 DEF GhostInv, MapsNamed
<1> QED
  BY <1>4, <1>5 DEF GhostInv

\* An attempt leaves the device with what its copy says.
LEMMA AttemptTold ==
  ASSUME IInv, GhostInv, NEW d \in Devices, Attempt(d)
  PROVE  GhostInv'
<1> DEFINE s == StampLocal(copy[d], view[d], clock[d], d, FALSE)
           remote == sync[d].remote
           merged == Merge(AdoptBaseline(s.m, remote), remote)
           put == [sync[d] EXCEPT !.at = "put", !.remote = merged]
<1>1. /\ view' = [view EXCEPT ![d] = Applied(merged, view[d])]
      /\ copy' = [copy EXCEPT ![d] = merged]
      /\ sync' = [sync EXCEPT ![d] = IF NothingToPut(d, merged) THEN Idle ELSE put]
      /\ UNCHANGED doc /\ sync[d].at = "read"
  BY DEF Attempt
<1>2. /\ Shared(copy[d]) /\ Past(clock[d], copy[d]) /\ clock[d] \in Clocks /\ wall[d] \in Nat
      /\ DOMAIN view[d] \subseteq Keys
      /\ DOMAIN copy = Devices /\ DOMAIN view = Devices /\ DOMAIN sync = Devices
  BY DEF IInv, Types, ClocksPast
<1>3. sync[d] # Idle /\ InSync(sync[d]) /\ Shared(remote) /\ Named(remote)
  BY <1>1 DEF IInv, Types, Idle, InSync, GhostInv, MapsNamed
<1>4. IsView(view[d]) /\ Named(copy[d])
  BY DEF GhostInv, ViewsTold, MapsNamed
<1>5. Shared(s.m) /\ Tells(s.m, view[d]) /\ Named(s.m)
  BY <1>2, <1>4, StampedIs, StampedTells
<1> HIDE DEF s, remote
<1>6. Named(merged) /\ DOMAIN s.m \subseteq DOMAIN merged
  <2>1. Named(merged)
    BY <1>3, <1>5, MergedNamed
  <2>2. DOMAIN merged = DOMAIN s.m \cup DOMAIN remote
    BY <1>3, <1>5, MergedIs
  <2> QED
    BY <2>1, <2>2
<1>7. put.remote = merged
  BY <1>3, PutRecord
<1> HIDE DEF merged, put
<1>8. IsView(Applied(merged, view[d])) /\ Tells(merged, Applied(merged, view[d]))
  BY <1>4, <1>5, <1>6, AppliedTells
<1>9. ViewsTold'
  BY <1>1, <1>2, <1>8 DEF GhostInv, ViewsTold
<1>10. MapsNamed'
  <2>1. \A e \in Devices : Named(copy'[e])
    BY <1>1, <1>2, <1>6 DEF GhostInv, MapsNamed
  <2>2. \A e \in Devices : sync'[e] # Idle => Named(sync'[e].remote)
    BY <1>1, <1>2, <1>6, <1>7 DEF GhostInv, MapsNamed
  <2> QED
    BY <1>1, <2>1, <2>2 DEF GhostInv, MapsNamed
<1> QED
  BY <1>9, <1>10 DEF GhostInv

\* A sync that begins, ends or saves leaves the devices and moves maps that are there.
LEMMA SyncTold ==
  ASSUME IInv, GhostInv, NEW d \in Devices, UNCHANGED <<view, copy>>, NEW s,
         sync' = [sync EXCEPT ![d] = s], s # Idle => Named(s.remote),
         \A h \in Consoles : Named(doc'[h])
  PROVE  GhostInv'
<1>1. DOMAIN sync = Devices
  BY DEF IInv, Types
<1>2. \A e \in Devices : sync'[e] # Idle => Named(sync'[e].remote)
  BY <1>1 DEF GhostInv, MapsNamed
<1> QED
  BY <1>2 DEF GhostInv, ViewsTold, MapsNamed

\* Sharing starts with copies that say what the devices have.
LEMMA InitTold == Init => GhostInv
<1> SUFFICES ASSUME Init PROVE GhostInv
  OBVIOUS
<1>1. /\ view = Before /\ copy = [d \in Devices |-> Began(d).m]
      /\ sync = [d \in Devices |-> Idle] /\ doc = [h \in Consoles |-> Empty]
  BY DEF Init
<1>2. Named(Empty)
  BY DEF Named, Empty
<1>3. ASSUME NEW d \in Devices
      PROVE  IsView(view[d]) /\ Tells(copy[d], view[d]) /\ Named(copy[d])
  <2>1. IsView(Before[d])
    BY MeshAssumption
  <2> QED
    BY <1>1, <1>2, <2>1, StampedTells DEF Began
<1> QED
  BY <1>1, <1>2, <1>3 DEF GhostInv, ViewsTold, MapsNamed

\* Every step leaves every device with what its copy says.
LEMMA NextTold ==
  ASSUME IInv, GhostInv, [Next]_vars
  PROVE  GhostInv'
<1>1. CASE UNCHANGED <<view, copy, sync, doc>>
  BY <1>1 DEF GhostInv, ViewsTold, MapsNamed
<1>2. CASE Next
  <2>1. PICK d \in Devices :
          \/ \E k \in Settings, v \in Values \cup {Null} : SetSetting(d, k, v)
          \/ \E e \in Entries :
               \/ \E v \in Values \cup {Default} : AddConsole(d, e, v)
               \/ RemoveConsole(d, e) \/ \E v \in Values : RenameConsole(d, e, v)
          \/ \E w \in 1 .. MaxWall : ClockMoves(d, w)
          \/ \E h \in Consoles : Get(d, h)
          \/ Attempt(d) \/ Put(d) \/ Lost(d)
    BY <1>2 DEF Next
  <2>2. /\ IsView(view[d]) /\ Settings \subseteq DOMAIN view[d] /\ DOMAIN view[d] \subseteq Keys
        /\ \A e \in Entries : /\ Listed(e) \in DOMAIN view[d] => /\ view[d][Listed(e)] = 1
                                                                 /\ Name(e) \in DOMAIN view[d]
                              /\ Name(e) \in DOMAIN view[d] => view[d][Name(e)] # Null
    BY DEF GhostInv, ViewsTold, IsView
  <2>a. \A h \in Consoles : Named(doc[h])
    BY DEF GhostInv, MapsNamed
  <2>3. ASSUME NEW k \in Settings, NEW v, SetSetting(d, k, v) PROVE GhostInv'
    <3>1. \A e \in Entries : Listed(e) # k /\ Name(e) # k
      BY KeysDiffer
    <3>2. IsView(With(view[d], k, v))
      BY <2>2, <3>1 DEF With, IsView, Keys
    <3> QED
      BY <2>3, <3>2, ChangesTold DEF SetSetting
  <2>4. ASSUME NEW e \in Entries, NEW v \in Values \cup {Default}, AddConsole(d, e, v)
        PROVE  GhostInv'
    <3> DEFINE w == With(With(view[d], Listed(e), 1), Name(e), v)
    <3>1. /\ DOMAIN w = DOMAIN view[d] \cup {Listed(e), Name(e)}
          /\ \A k \in DOMAIN w : w[k] = IF k = Name(e) THEN v
                                        ELSE IF k = Listed(e) THEN 1 ELSE view[d][k]
      BY DEF With
    <3> HIDE DEF w
    <3>2. DOMAIN w \subseteq Keys
      BY <2>2, <3>1 DEF Keys
    <3>3. \A f \in Entries : Listed(f) # Name(e) /\ Listed(e) # Name(f)
                             /\ (Listed(f) = Listed(e) => f = e) /\ (Name(f) = Name(e) => f = e)
      BY KeysDiffer
    <3>4. v # Null
      BY MeshAssumption
    <3>5. \A f \in Entries : /\ Listed(f) \in DOMAIN w => w[Listed(f)] = 1 /\ Name(f) \in DOMAIN w
                             /\ Name(f) \in DOMAIN w => w[Name(f)] # Null
      BY <2>2, <3>1, <3>3, <3>4
    <3>6. IsView(w)
      BY <2>2, <3>1, <3>2, <3>5 DEF IsView
    <3> QED
      BY <2>4, <3>6, ChangesTold DEF AddConsole, w
  <2>5. ASSUME NEW e \in Entries, RemoveConsole(d, e) PROVE GhostInv'
    <3> DEFINE w == Drop(view[d], {Listed(e), Name(e)})
    <3>1. /\ DOMAIN w = DOMAIN view[d] \ {Listed(e), Name(e)}
          /\ \A k \in DOMAIN w : w[k] = view[d][k]
      BY DEF Drop
    <3> HIDE DEF w
    <3>2. /\ Listed(e) \notin Settings /\ Name(e) \notin Settings
          /\ \A f \in Entries : Name(f) # Listed(e) /\ (Name(f) = Name(e) => f = e)
      BY KeysDiffer
    <3>3. \A f \in Entries : /\ Listed(f) \in DOMAIN w => w[Listed(f)] = 1 /\ Name(f) \in DOMAIN w
                             /\ Name(f) \in DOMAIN w => w[Name(f)] # Null
      BY <2>2, <3>1, <3>2
    <3>4. Settings \subseteq DOMAIN w /\ DOMAIN w \subseteq Keys
      BY <2>2, <3>1, <3>2
    <3>5. IsView(w)
      BY <3>3, <3>4 DEF IsView
    <3> QED
      BY <2>5, <3>5, ChangesTold DEF RemoveConsole, w
  <2>6. ASSUME NEW e \in Entries, NEW v \in Values, RenameConsole(d, e, v) PROVE GhostInv'
    <3>1. v # Null /\ Name(e) \in Keys
      BY MeshAssumption DEF Keys
    <3>2. \A f \in Entries : Listed(f) # Name(e)
      BY KeysDiffer
    <3>3. IsView(With(view[d], Name(e), v))
      BY <2>2, <3>1, <3>2 DEF With, IsView
    <3> QED
      BY <2>6, <3>3, ChangesTold DEF RenameConsole
  <2>7. ASSUME NEW h \in Consoles, NEW t, sync' = [sync EXCEPT ![d] = Reads(h, t)],
               UNCHANGED <<view, copy, doc>>
        PROVE  GhostInv'
    <3>1. Reads(h, t).remote = doc[h]
      BY DEF Reads
    <3> QED
      BY <2>7, <2>a, <3>1, SyncTold
  <2>8. ASSUME sync' = [sync EXCEPT ![d] = Idle], UNCHANGED <<view, copy, doc>>
        PROVE  GhostInv'
    BY <2>8, <2>a, SyncTold
  <2>9. ASSUME NEW h \in Consoles, Get(d, h) PROVE GhostInv'
    BY <2>7, <2>9, ZenonT(30) DEF Get, device
  <2>10. ASSUME Put(d) PROVE GhostInv'
    <3> DEFINE h == sync[d].host
    <3>1. sync[d].at = "put" /\ UNCHANGED <<view, copy>> /\ h \in Consoles /\ Named(sync[d].remote)
      <4>1. sync[d].at = "put" /\ UNCHANGED <<view, copy>>
        BY <2>10 DEF Put, device
      <4>2. sync[d] = Idle \/ InSync(sync[d])
        BY DEF IInv, Types
      <4>3. InSync(sync[d])
        BY <4>1, <4>2 DEF Idle
      <4>4. h \in Consoles
        BY <4>3 DEF InSync
      <4>5. sync[d] # Idle
        BY <4>1 DEF Idle
      <4> QED
        BY <4>1, <4>4, <4>5 DEF GhostInv, MapsNamed
    <3>2. \/ sync' = [sync EXCEPT ![d] = Idle] /\ doc' = [doc EXCEPT ![h] = sync[d].remote]
          \/ sync' = [sync EXCEPT ![d] = Reads(h, sync[d].tries + 1)] /\ UNCHANGED doc
          \/ sync' = [sync EXCEPT ![d] = Idle] /\ UNCHANGED doc
      BY <2>10 DEF Put
    <3>3. ASSUME sync' = [sync EXCEPT ![d] = Idle], doc' = [doc EXCEPT ![h] = sync[d].remote]
          PROVE  GhostInv'
      <4>1. \A c \in Consoles : Named(doc'[c])
        BY <2>a, <3>1, <3>3 DEF IInv, Types
      <4> QED
        BY <3>1, <3>3, <4>1, SyncTold
    <3> QED
      BY <2>7, <2>8, <3>1, <3>2, <3>3
  <2>11. ASSUME Lost(d) PROVE GhostInv'
    BY <2>8, <2>11 DEF Lost, device
  <2>12. ASSUME NEW w, ClockMoves(d, w) PROVE GhostInv'
    BY <1>1, <2>12 DEF ClockMoves, device
  <2> QED
    BY <2>1, <2>3, <2>4, <2>5, <2>6, <2>9, <2>10, <2>11, <2>12, AttemptTold
<1> QED
  BY <1>1, <1>2 DEF vars, device

\* Sharing makes no change up: on any number of devices, a look at a device finds nothing in it that
\* its copy does not say (stampLocal after plan and rosterFrom in meshShare.ts).
THEOREM NoGhosts == Spec => []NoGhostChange
<1>1. IInv /\ [Next]_vars => IInv'
  BY NextInv
<1>2. IInv /\ GhostInv /\ [Next]_vars => GhostInv'
  BY NextTold
<1>3. IInv /\ GhostInv => NoGhostChange
  BY TellsNoGhost DEF IInv, Types, Shared, GhostInv, ViewsTold, NoGhostChange
<1> QED
  BY InitInv, InitTold, <1>1, <1>2, <1>3, PTL DEF Spec
=============================================================================
