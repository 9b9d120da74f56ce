---------------------------- MODULE MeshMapProofs ---------------------------
(***************************************************************************)
(* What the operations on maps promise, for maps of any size.  Stamps are  *)
(* totally ordered, and the merge is idempotent, associative and, when a   *)
(* stamp names one register, commutative.  What stampLocal makes of a      *)
(* device's values, and what merge, plan and rosterFrom leave of them.     *)
(***************************************************************************)
EXTENDS MeshShare, FiniteSetTheorems, TLAPS

Stamps == [t : Nat, c : Nat, d : Nat]

\* A map from keys to registers.
IsMap(m) == /\ m = [k \in DOMAIN m |-> m[k]]
            /\ \A k \in DOMAIN m : m[k].h \in Stamps

\* The same stamp is the same register in both.
Agree(a, b) == \A k \in DOMAIN a \cap DOMAIN b : a[k].h = b[k].h => a[k] = b[k]

-----------------------------------------------------------------------------
(* cmpHlc is a total order. *)

\* cmpHlc never orders a stamp before itself, or two stamps both ways.
LEMMA LaterAsymmetric ==
  ASSUME NEW g \in Stamps, NEW h \in Stamps, Later(g, h)
  PROVE  ~Later(h, g) /\ g # h
BY DEF Stamps, Later

\* cmpHlc is transitive.
LEMMA LaterTransitive ==
  ASSUME NEW f \in Stamps, NEW g \in Stamps, NEW h \in Stamps, Later(f, g), Later(g, h)
  PROVE  Later(f, h)
BY DEF Stamps, Later

\* Of two different stamps cmpHlc puts one after the other: the device breaks exact ties.
LEMMA LaterTotal ==
  ASSUME NEW g \in Stamps, NEW h \in Stamps, g # h
  PROVE  Later(g, h) \/ Later(h, g)
BY DEF Stamps, Later

\* Not later is a transitive relation as well.
LEMMA NotLaterTransitive ==
  ASSUME NEW f \in Stamps, NEW g \in Stamps, NEW h \in Stamps, ~Later(f, g), ~Later(g, h)
  PROVE  ~Later(f, h)
BY DEF Stamps, Later

-----------------------------------------------------------------------------
(* The merge. *)

\* The keys of a merge.
LEMMA MergeKeys ==
  ASSUME NEW a, NEW b
  PROVE  DOMAIN Merge(a, b) = DOMAIN a \cup DOMAIN b
BY DEF Merge

\* And each key's register.
LEMMA MergeAt ==
  ASSUME NEW a, NEW b, NEW k \in DOMAIN a \cup DOMAIN b
  PROVE  /\ k \notin DOMAIN a => Merge(a, b)[k] = b[k]
         /\ k \notin DOMAIN b => Merge(a, b)[k] = a[k]
         /\ k \in DOMAIN a /\ k \in DOMAIN b /\ Later(b[k].h, a[k].h) => Merge(a, b)[k] = b[k]
         /\ k \in DOMAIN a /\ ~Later(b[k].h, a[k].h) => Merge(a, b)[k] = a[k]
BY DEF Merge

\* A merge of maps is a map.
LEMMA MergeType ==
  ASSUME NEW a, NEW b, IsMap(a), IsMap(b)
  PROVE  IsMap(Merge(a, b))
<1>1. Merge(a, b) = [k \in DOMAIN Merge(a, b) |-> Merge(a, b)[k]]
  BY DEF Merge
<1>2. ASSUME NEW k \in DOMAIN Merge(a, b) PROVE Merge(a, b)[k].h \in Stamps
  <2>1. k \in DOMAIN a \cup DOMAIN b
    BY MergeKeys
  <2>2. \/ k \in DOMAIN a /\ Merge(a, b)[k] = a[k]
        \/ k \in DOMAIN b /\ Merge(a, b)[k] = b[k]
    BY <2>1, MergeAt
  <2> QED
    BY <2>2 DEF IsMap
<1> QED
  BY <1>1, <1>2 DEF IsMap

\* Two functions are the same when their keys and values are.
LEMMA SameMap ==
  ASSUME NEW a, NEW b, a = [k \in DOMAIN a |-> a[k]], b = [k \in DOMAIN b |-> b[k]],
         DOMAIN a = DOMAIN b, \A k \in DOMAIN a : a[k] = b[k]
  PROVE  a = b
OBVIOUS

\* merge(m, m) is m: meeting the same copy again changes nothing.
THEOREM MergeIdempotent ==
  ASSUME NEW m, IsMap(m)
  PROVE  Merge(m, m) = m
<1>1. IsMap(Merge(m, m)) /\ DOMAIN Merge(m, m) = DOMAIN m
  BY MergeType, MergeKeys
<1>2. \A k \in DOMAIN m : Merge(m, m)[k] = m[k]
  BY MergeAt
<1> QED
  BY <1>1, <1>2, SameMap DEF IsMap

\* merge(a, b) is merge(b, a), provided the same stamp is the same register.
THEOREM MergeCommutes ==
  ASSUME NEW a, NEW b, IsMap(a), IsMap(b), Agree(a, b)
  PROVE  Merge(a, b) = Merge(b, a)
<1>1. IsMap(Merge(a, b)) /\ IsMap(Merge(b, a))
  BY MergeType
<1>2. DOMAIN Merge(a, b) = DOMAIN a \cup DOMAIN b /\ DOMAIN Merge(b, a) = DOMAIN a \cup DOMAIN b
  BY MergeKeys, ZenonT(60)
<1>3. ASSUME NEW k \in DOMAIN Merge(a, b) PROVE Merge(a, b)[k] = Merge(b, a)[k]
  <2>1. CASE k \in DOMAIN a /\ k \in DOMAIN b
    <3>1. a[k].h \in Stamps /\ b[k].h \in Stamps
      BY <2>1 DEF IsMap
    <3>2. a[k].h = b[k].h => a[k] = b[k]
      BY <2>1 DEF Agree
    <3> QED
      BY <2>1, <3>1, <3>2, LaterAsymmetric, LaterTotal, MergeAt
  <2>2. CASE ~(k \in DOMAIN a /\ k \in DOMAIN b)
    BY <2>2, <1>2, MergeAt
  <2> QED
    BY <2>1, <2>2
<1> QED
  BY <1>1, <1>2, <1>3, SameMap DEF IsMap

\* merge(merge(a, b), c) is merge(a, merge(b, c)): the way the copies meet does not matter.
THEOREM MergeAssociates ==
  ASSUME NEW a, NEW b, NEW c, IsMap(a), IsMap(b), IsMap(c)
  PROVE  Merge(Merge(a, b), c) = Merge(a, Merge(b, c))
<1> DEFINE l == Merge(Merge(a, b), c)
           r == Merge(a, Merge(b, c))
<1>1. IsMap(l) /\ IsMap(r)
  BY MergeType
<1>2. DOMAIN l = DOMAIN a \cup DOMAIN b \cup DOMAIN c /\ DOMAIN r = DOMAIN l
  <2>1. /\ DOMAIN l = DOMAIN Merge(a, b) \cup DOMAIN c /\ DOMAIN Merge(a, b) = DOMAIN a \cup DOMAIN b
        /\ DOMAIN r = DOMAIN a \cup DOMAIN Merge(b, c) /\ DOMAIN Merge(b, c) = DOMAIN b \cup DOMAIN c
    BY MergeKeys
  <2> QED
    BY <2>1
<1>3. ASSUME NEW k \in DOMAIN l PROVE l[k] = r[k]
  <2> DEFINE ab == Merge(a, b)
             bc == Merge(b, c)
  <2>1. /\ DOMAIN ab = DOMAIN a \cup DOMAIN b /\ DOMAIN bc = DOMAIN b \cup DOMAIN c
        /\ k \in DOMAIN a \cup DOMAIN b \cup DOMAIN c
    BY <1>2, MergeKeys
  <2>a. k \in DOMAIN a \cup DOMAIN b =>
          /\ k \notin DOMAIN a => ab[k] = b[k]
          /\ k \notin DOMAIN b => ab[k] = a[k]
          /\ k \in DOMAIN a /\ k \in DOMAIN b /\ Later(b[k].h, a[k].h) => ab[k] = b[k]
          /\ k \in DOMAIN a /\ ~Later(b[k].h, a[k].h) => ab[k] = a[k]
    BY MergeAt
  <2>b. k \in DOMAIN b \cup DOMAIN c =>
          /\ k \notin DOMAIN b => bc[k] = c[k]
          /\ k \notin DOMAIN c => bc[k] = b[k]
          /\ k \in DOMAIN b /\ k \in DOMAIN c /\ Later(c[k].h, b[k].h) => bc[k] = c[k]
          /\ k \in DOMAIN b /\ ~Later(c[k].h, b[k].h) => bc[k] = b[k]
    BY MergeAt
  <2>c. /\ k \notin DOMAIN ab => l[k] = c[k]
        /\ k \notin DOMAIN c => l[k] = ab[k]
        /\ k \in DOMAIN ab /\ k \in DOMAIN c /\ Later(c[k].h, ab[k].h) => l[k] = c[k]
        /\ k \in DOMAIN ab /\ ~Later(c[k].h, ab[k].h) => l[k] = ab[k]
    BY <2>1, MergeAt
  <2>d. /\ k \notin DOMAIN a => r[k] = bc[k]
        /\ k \notin DOMAIN bc => r[k] = a[k]
        /\ k \in DOMAIN a /\ k \in DOMAIN bc /\ Later(bc[k].h, a[k].h) => r[k] = bc[k]
        /\ k \in DOMAIN a /\ ~Later(bc[k].h, a[k].h) => r[k] = a[k]
    BY <2>1, MergeAt
  <2> HIDE DEF l, r, ab, bc
  <2>3. /\ k \in DOMAIN a => a[k].h \in Stamps
        /\ k \in DOMAIN b => b[k].h \in Stamps
        /\ k \in DOMAIN c => c[k].h \in Stamps
    BY DEF IsMap
  <2>4. CASE k \in DOMAIN a /\ k \in DOMAIN b /\ k \in DOMAIN c
    BY <2>1, <2>a, <2>b, <2>c, <2>d, <2>3, <2>4, LaterAsymmetric, LaterTransitive, NotLaterTransitive
  <2>5. CASE ~(k \in DOMAIN a /\ k \in DOMAIN b /\ k \in DOMAIN c)
    BY <2>1, <2>a, <2>b, <2>c, <2>d, <2>3, <2>5
  <2> QED
    BY <2>4, <2>5
<1> HIDE DEF l, r
<1>4. l = r
  BY <1>1, <1>2, <1>3, SameMap DEF IsMap
<1> QED
  BY <1>4 DEF l, r

\* No key of either map gets an older register.
LEMMA MergeKeepsLater ==
  ASSUME NEW a, NEW b, IsMap(a), IsMap(b), NEW k
  PROVE  /\ k \in DOMAIN a => k \in DOMAIN Merge(a, b) /\ ~Later(a[k].h, Merge(a, b)[k].h)
         /\ k \in DOMAIN b => k \in DOMAIN Merge(a, b) /\ ~Later(b[k].h, Merge(a, b)[k].h)
<1>1. /\ k \in DOMAIN a => k \in DOMAIN Merge(a, b) /\ a[k].h \in Stamps
      /\ k \in DOMAIN b => k \in DOMAIN Merge(a, b) /\ b[k].h \in Stamps
  <2>1. DOMAIN Merge(a, b) = DOMAIN a \cup DOMAIN b
    BY MergeKeys
  <2> QED
    BY <2>1 DEF IsMap
<1>2. CASE k \in DOMAIN a /\ k \in DOMAIN b
  BY <1>1, <1>2, MergeAt, LaterAsymmetric
<1>3. CASE ~(k \in DOMAIN a /\ k \in DOMAIN b)
  BY <1>1, <1>3, MergeAt, LaterAsymmetric
<1> QED
  BY <1>2, <1>3

-----------------------------------------------------------------------------
(* The clock. *)

Clocks == [t : Nat, c : Nat]

\* The clock is at or past a stamp.
Covers(last, h) == h.t < last.t \/ (h.t = last.t /\ h.c <= last.c)

\* A stamp that Clock.now makes is past everything the clock covered.
LEMMA MovedIsLater ==
  ASSUME NEW last \in Clocks, NEW w \in Nat
  PROVE  /\ Moved(last, w) \in Clocks
         /\ \A h \in Stamps : Covers(last, h) => Covers(Moved(last, w), h)
         /\ \A h, g \in Stamps : Covers(last, h) /\ g.t = Moved(last, w).t /\ g.c >= Moved(last, w).c
                               => Later(g, h) /\ ~Covers(last, g)
BY DEF Clocks, Stamps, Moved, Covers, Later

\* A finite set of stamps has a latest one (maxHlc finds it).
LEMMA LatestExists ==
  ASSUME NEW S \in SUBSET Stamps, IsFiniteSet(S), S # {}
  PROVE  \E h \in S : \A g \in S : ~Later(g, h)
<1> DEFINE Bad == {U \in SUBSET S : U # {} /\ \A h \in U : \E g \in U : Later(g, h)}
<1> SUFFICES ASSUME S \in Bad PROVE FALSE
  OBVIOUS
<1>1. IsWellFoundedOn(StrictSubsetOrdering(S), SUBSET S)
  BY FS_StrictSubsetOrderingWellFounded, FS_FiniteSubsetsOfFinite
<1>2. PICK U \in Bad : \A V \in Bad : ~(<<V, U>> \in StrictSubsetOrdering(S))
  <2> Bad \subseteq SUBSET S /\ Bad # {}
    OBVIOUS
  <2> HIDE DEF Bad
  <2> QED
    BY <1>1, WFMin
<1>3. PICK x \in U : TRUE
  OBVIOUS
<1>4. U \ {x} \notin Bad
  <2>1. <<U \ {x}, U>> \in StrictSubsetOrdering(S)
    BY <1>3 DEF StrictSubsetOrdering
  <2> QED
    BY <1>2, <2>1
<1>5. CASE U \ {x} = {}
  <2>1. Later(x, x)
    BY <1>3, <1>5
  <2> QED
    BY <1>3, <2>1, LaterAsymmetric
<1>6. CASE U \ {x} # {}
  <2>1. PICK m \in U \ {x} : \A g \in U \ {x} : ~Later(g, m)
    BY <1>4, <1>6
  <2>2. PICK g \in U : Later(g, m)
    BY <2>1
  <2>3. g = x
    BY <2>1, <2>2
  <2>4. PICK f \in U : Later(f, x)
    BY <1>3
  <2>5. f \in U \ {x} /\ f \in Stamps /\ m \in Stamps /\ x \in Stamps
    BY <1>3, <2>1, <2>4, LaterAsymmetric
  <2> QED
    BY <2>1, <2>2, <2>3, <2>4, <2>5, LaterTransitive
<1> QED
  BY <1>5, <1>6

\* Clock.observe moves the clock past every stamp of the map read, and never back.
LEMMA ObservedCovers ==
  ASSUME NEW last \in Clocks, NEW m, IsMap(m), IsFiniteSet(DOMAIN m)
  PROVE  /\ Observed(last, m) \in Clocks
         /\ \A h \in Stamps : Covers(last, h) => Covers(Observed(last, m), h)
         /\ \A k \in DOMAIN m : Covers(Observed(last, m), m[k].h)
<1> DEFINE late(j) == Later(m[j].h, [t |-> last.t, c |-> last.c, d |-> m[j].h.d])
           ks == {j \in DOMAIN m : late(j)}
           past == {m[k].h : k \in ks}
           top == CHOOSE h \in past : \A g \in past : ~Later(g, h)
<1>1. Observed(last, m) = IF past = {} THEN last ELSE [t |-> top.t, c |-> top.c]
  BY DEF Observed
<1>2. past \subseteq Stamps
  BY DEF IsMap
<1>3. IsFiniteSet(past)
  <2>1. IsFiniteSet(ks)
    BY FS_Subset
  <2> DEFINE f == [k \in DOMAIN m |-> m[k].h]
  <2>2. IsFiniteSet({f[k] : k \in ks})
    <3> HIDE DEF f, ks
    <3> DEFINE g == [k \in ks |-> f[k]]
    <3>1. g \in Surjection(ks, {f[k] : k \in ks})
      BY DEF Surjection
    <3> QED
      BY <2>1, <3>1, FS_Surjection
  <2>3. {f[k] : k \in ks} = past
    OBVIOUS
  <2> QED
    BY <2>2, <2>3
<1>4. \A k \in DOMAIN m : m[k].h \in past \/ Covers(last, m[k].h)
  <2> SUFFICES ASSUME NEW k \in DOMAIN m, ~late(k) PROVE Covers(last, m[k].h)
    OBVIOUS
  <2>1. m[k].h \in Stamps
    BY DEF IsMap
  <2> QED
    BY <2>1 DEF Stamps, Clocks, Covers, Later
<1>5. \A h \in past : ~Covers(last, h)
  <2> SUFFICES ASSUME NEW k \in DOMAIN m, late(k) PROVE ~Covers(last, m[k].h)
    OBVIOUS
  <2>1. m[k].h \in Stamps
    BY DEF IsMap
  <2> QED
    BY <2>1 DEF Stamps, Clocks, Covers, Later
<1> HIDE DEF past
<1>6. CASE past = {}
  BY <1>1, <1>4, <1>6
<1>7. CASE past # {}
  <2>1. top \in past /\ \A g \in past : ~Later(g, top)
    BY <1>2, <1>3, <1>7, LatestExists
  <2> HIDE DEF top
  <2>2. top \in Stamps /\ ~Covers(last, top) /\ Observed(last, m) = [t |-> top.t, c |-> top.c]
    BY <1>1, <1>2, <1>5, <1>7, <2>1
  <2>3. Observed(last, m) \in Clocks
    BY <2>2 DEF Stamps, Clocks
  <2>4. \A h \in Stamps : Covers(last, h) => Covers(Observed(last, m), h)
    BY <2>2 DEF Stamps, Clocks, Covers
  <2>5. \A h \in past : Covers(Observed(last, m), h)
    BY <1>2, <2>1, <2>2 DEF Stamps, Clocks, Covers, Later
  <2>6. \A k \in DOMAIN m : m[k].h \in Stamps
    BY DEF IsMap
  <2> QED
    BY <1>4, <2>3, <2>4, <2>5, <2>6
<1> QED
  BY <1>6, <1>7

\* A map of the shared keys.
Shared(m) == IsMap(m) /\ DOMAIN m \subseteq Keys

\* A clock that is past every stamp of a map.
Past(last, m) == \A k \in DOMAIN m : Covers(last, m[k].h)

-----------------------------------------------------------------------------
(* Keys. *)

\* There are finitely many shared keys.
LEMMA KeysFinite == IsFiniteSet(Keys)
<1> DEFINE L == {Listed(e) : e \in Entries}
           N == {Name(e) : e \in Entries}
<1>1. IsFiniteSet(L)
  <2> DEFINE f == [e \in Entries |-> Listed(e)]
  <2>1. f \in Surjection(Entries, L)
    BY DEF Surjection
  <2> QED
    BY <2>1, FS_Surjection, MeshAssumption
<1>2. IsFiniteSet(N)
  <2> DEFINE f == [e \in Entries |-> Name(e)]
  <2>1. f \in Surjection(Entries, N)
    BY DEF Surjection
  <2> QED
    BY <2>1, FS_Surjection, MeshAssumption
<1>3. Keys = (Settings \cup L) \cup N
  BY DEF Keys
<1> QED
  <2> HIDE DEF L, N
  <2>1. IsFiniteSet(Settings \cup L)
    BY <1>1, FS_Union, MeshAssumption
  <2> QED
    BY <1>2, <1>3, <2>1, FS_Union

\* So a map has finitely many.
LEMMA SharedFinite ==
  ASSUME NEW m, Shared(m)
  PROVE  IsFiniteSet(DOMAIN m)
BY KeysFinite, FS_Subset DEF Shared

-----------------------------------------------------------------------------
(* Keeping registers. *)

\* A map keeps its own registers.
LEMMA KeepsItself ==
  ASSUME NEW m, IsMap(m)
  PROVE  Keeps(m, m, 0) /\ Keeps(m, m, 1)
BY LaterAsymmetric DEF Keeps, IsMap

\* What keeps what keeps a map keeps the map.
LEMMA KeepsTransitive ==
  ASSUME NEW m, NEW n, NEW o, IsMap(m), IsMap(n), IsMap(o), NEW from \in Nat,
         Keeps(m, n, from), Keeps(n, o, from)
  PROVE  Keeps(m, o, from)
<1> SUFFICES ASSUME NEW k \in DOMAIN m, m[k].h.t >= from
             PROVE  k \in DOMAIN o /\ ~Later(m[k].h, o[k].h)
  BY DEF Keeps
<1>1. k \in DOMAIN n /\ ~Later(m[k].h, n[k].h)
  BY DEF Keeps
<1>2. m[k].h \in Stamps /\ n[k].h \in Stamps
  BY <1>1 DEF IsMap
<1>3. n[k].h.t >= from
  BY <1>1, <1>2 DEF Stamps, Later
<1>4. k \in DOMAIN o /\ ~Later(n[k].h, o[k].h)
  BY <1>1, <1>3 DEF Keeps
<1>5. o[k].h \in Stamps
  BY <1>4 DEF IsMap
<1> QED
  BY <1>1, <1>2, <1>4, <1>5, NotLaterTransitive

\* Keeping every register keeps those of changes.
LEMMA KeepsLess ==
  ASSUME NEW m, NEW n, IsMap(m), Keeps(m, n, 0)
  PROVE  Keeps(m, n, 1)
BY DEF Keeps, IsMap, Stamps

-----------------------------------------------------------------------------
(* What one attempt of syncWith makes of this device's map and the console's. *)

\* adoptBaseline drops only a set-up from before that the console has another of.
LEMMA AdoptIs ==
  ASSUME NEW m, NEW r
  PROVE  /\ DOMAIN AdoptBaseline(m, r) \subseteq DOMAIN m
         /\ \A k \in DOMAIN AdoptBaseline(m, r) : AdoptBaseline(m, r)[k] = m[k]
         /\ \A k \in DOMAIN m : k \notin DOMAIN AdoptBaseline(m, r) => m[k].h.t = 0 /\ k \in DOMAIN r
         /\ AdoptBaseline(m, r) = [k \in DOMAIN AdoptBaseline(m, r) |-> AdoptBaseline(m, r)[k]]
BY DEF AdoptBaseline

\* The merge loses no key, keeps this device's changes and all of the console's registers, and makes none up.
LEMMA MergedIs ==
  ASSUME NEW m, NEW r, Shared(m), Shared(r)
  PROVE  LET merged == Merge(AdoptBaseline(m, r), r)
         IN  /\ Shared(merged)
             /\ DOMAIN merged = DOMAIN m \cup DOMAIN r
             /\ Keeps(m, merged, 1) /\ Keeps(r, merged, 0)
             /\ \A k \in DOMAIN merged : \/ k \in DOMAIN m /\ merged[k] = m[k]
                                         \/ k \in DOMAIN r /\ merged[k] = r[k]
<1> DEFINE a == AdoptBaseline(m, r)
           merged == Merge(a, r)
<1>1. IsMap(a)
  BY AdoptIs DEF IsMap, Shared
<1>2. IsMap(merged) /\ DOMAIN merged = DOMAIN a \cup DOMAIN r
  BY <1>1, MergeType, MergeKeys DEF Shared
<1>3. DOMAIN merged = DOMAIN m \cup DOMAIN r
  BY <1>2, AdoptIs
<1>4. ASSUME NEW k \in DOMAIN merged
      PROVE  \/ k \in DOMAIN m /\ merged[k] = m[k]
             \/ k \in DOMAIN r /\ merged[k] = r[k]
  <2>1. \/ k \in DOMAIN a /\ merged[k] = a[k]
        \/ k \in DOMAIN r /\ merged[k] = r[k]
    <3> HIDE DEF a
    <3> QED
      BY <1>2, MergeAt
  <2> QED
    BY <2>1, AdoptIs
<1>5. Keeps(r, merged, 0)
  <2> HIDE DEF a
  <2> QED
    BY <1>1, MergeKeepsLater DEF Keeps, Shared
<1>6. Keeps(m, merged, 1)
  <2> SUFFICES ASSUME NEW k \in DOMAIN m, m[k].h.t >= 1
               PROVE  k \in DOMAIN merged /\ ~Later(m[k].h, merged[k].h)
    BY DEF Keeps
  <2>1. k \in DOMAIN a /\ a[k] = m[k]
    BY AdoptIs
  <2> HIDE DEF a
  <2> QED
    BY <1>1, <2>1, MergeKeepsLater DEF Shared
<1> QED
  BY <1>2, <1>3, <1>4, <1>5, <1>6 DEF Shared

-----------------------------------------------------------------------------
(* What a look at the device stamps. *)

\* A register of st at key k that map m did not have: of this device, and either the first one of
\* its key or past the clock.
Fresh(m, st, last, d, k) ==
  st[k].h.d = d /\ (k \notin DOMAIN m \/ ~Covers(last, st[k].h))

\* stampLocal loses nothing, its stamps are past the clock, and the clock is past its stamps.
LEMMA StampedIs ==
  ASSUME NEW m, NEW v, NEW last \in Clocks, NEW d \in Devices, NEW b \in BOOLEAN,
         Shared(m), Past(last, m), DOMAIN v \subseteq Keys, wall[d] \in Nat
  PROVE  LET s == StampLocal(m, v, last, d, b)
         IN  /\ Shared(s.m) /\ s.last \in Clocks
             /\ DOMAIN m \subseteq DOMAIN s.m
             /\ Keeps(m, s.m, 0)
             /\ Past(s.last, s.m)
             /\ \A h \in Stamps : Covers(last, h) => Covers(s.last, h)
             /\ \A k \in DOMAIN s.m : (k \in DOMAIN m /\ s.m[k] = m[k]) \/ Fresh(m, s.m, last, d, k)
<1> DEFINE new == {k \in DOMAIN v \ DOMAIN m : v[k] # Null}
           lowest == {k \in new : b \/ \E e \in Added(m, v) : k = Name(e)}
           gone == {Listed(e) : e \in {x \in Entries : /\ Listed(x) \in DOMAIN m \ DOMAIN v
                                                       /\ m[Listed(x)].v # Null}}
           changed == (new \ lowest) \cup {k \in DOMAIN v \cap DOMAIN m : m[k].v # v[k]} \cup gone
           first == Moved(last, wall[d])
           after(k) == IF \E e \in Entries : k = Name(e) /\ Listed(e) \in changed THEN 1 ELSE 0
           stamp(k) == IF k \in lowest THEN [t |-> 0, c |-> 0, d |-> d]
                       ELSE [t |-> first.t, c |-> first.c + after(k), d |-> d]
           val(k) == IF k \in gone THEN Null ELSE v[k]
           sm == [k \in DOMAIN m \cup lowest \cup changed |->
                    IF k \notin lowest \cup changed THEN m[k] ELSE [v |-> val(k), h |-> stamp(k)]]
           sl == IF changed = {} THEN last ELSE [first EXCEPT !.c = @ + Cardinality(changed) - 1]
           s == StampLocal(m, v, last, d, b)
<1>1. s.m = sm /\ s.last = sl
  BY DEF StampLocal
<1>2. changed \subseteq Keys /\ lowest \subseteq Keys /\ IsFiniteSet(changed)
  <2>1. changed \subseteq Keys /\ lowest \subseteq Keys
    BY DEF Shared
  <2> QED
    BY <2>1, KeysFinite, FS_Subset
<1>3. lowest \cap DOMAIN m = {} /\ lowest \cap changed = {}
  OBVIOUS
<1>4. first \in Clocks /\ d \in Nat
  BY MovedIsLater, MeshAssumption
<1>5. ASSUME NEW k \in changed
      PROVE  after(k) \in {0, 1} /\ after(k) < Cardinality(changed)
  <2>1. Cardinality(changed) \in Nat /\ Cardinality(changed) # 0
    <3> HIDE DEF changed
    <3> QED
      BY <1>2, FS_CardinalityType, FS_EmptySet
  <2>2. CASE \E e \in Entries : k = Name(e) /\ Listed(e) \in changed
    <3>1. PICK e \in Entries : k = Name(e) /\ Listed(e) \in changed
      BY <2>2
    <3>2. Listed(e) # k
      BY <3>1 DEF Listed, Name
    <3> HIDE DEF changed
    <3>3. Cardinality(changed \ {k}) = Cardinality(changed) - 1 /\ IsFiniteSet(changed \ {k})
      BY <1>2, FS_RemoveElement
    <3>4. Cardinality(changed \ {k}) # 0 /\ Cardinality(changed \ {k}) \in Nat
      <4>1. changed \ {k} # {}
        BY <3>1, <3>2
      <4> QED
        BY <3>3, <4>1, FS_CardinalityType, FS_EmptySet
    <3> QED
      BY <2>1, <2>2, <3>3, <3>4
  <2>3. CASE ~(\E e \in Entries : k = Name(e) /\ Listed(e) \in changed)
    BY <2>1, <2>3
  <2> QED
    BY <2>2, <2>3
<1>6. sl \in Clocks /\ \A h \in Stamps : Covers(last, h) => Covers(sl, h)
  <2> DEFINE n == Cardinality(changed)
  <2>1. CASE changed = {}
    BY <2>1
  <2>2. CASE changed # {}
    <3>1. n \in Nat /\ n # 0
      <4> HIDE DEF changed
      <4> QED
        BY <1>2, <2>2, FS_CardinalityType, FS_EmptySet
    <3>2. sl = [t |-> first.t, c |-> first.c + n - 1]
      BY <1>4, <2>2 DEF Clocks
    <3> HIDE DEF n, sl, first
    <3>3. sl \in Clocks
      BY <1>4, <3>1, <3>2 DEF Clocks
    <3>4. \A h \in Stamps : Covers(first, h) => Covers(sl, h)
      BY <1>4, <3>1, <3>2 DEF Clocks, Stamps, Covers
    <3> QED
      BY <3>3, <3>4, MovedIsLater DEF first
  <2> QED
    BY <2>1, <2>2
<1>7. ASSUME NEW k \in changed
      PROVE  /\ stamp(k) \in Stamps /\ stamp(k).d = d /\ Covers(sl, stamp(k))
             /\ stamp(k).t = first.t /\ stamp(k).c >= first.c
  <2> DEFINE n == Cardinality(changed)
             a == after(k)
             st == stamp(k)
  <2>1. n \in Nat
    <3> HIDE DEF changed
    <3> QED
      BY <1>2, FS_CardinalityType
  <2>2. st = [t |-> first.t, c |-> first.c + a, d |-> d]
    BY <1>3
  <2>3. sl = [t |-> first.t, c |-> first.c + n - 1]
    BY <1>4 DEF Clocks
  <2>4. a \in {0, 1} /\ a < n
    BY <1>5
  <2>5. /\ st \in Stamps /\ st.d = d /\ Covers(sl, st)
        /\ st.t = first.t /\ st.c >= first.c
    <3> HIDE DEF n, a, st, sl, first, changed, lowest
    <3>1. /\ first.t \in Nat /\ first.c \in Nat
          /\ first.c + a \in Nat /\ first.c + a >= first.c /\ first.c + a <= first.c + n - 1
      BY <1>4, <2>1, <2>4 DEF Clocks
    <3>2. /\ st.t = first.t /\ st.c = first.c + a /\ st.d = d
          /\ sl.t = first.t /\ sl.c = first.c + n - 1
      BY <2>2, <2>3
    <3>3. st \in Stamps
      BY <1>4, <2>2, <3>1 DEF Stamps
    <3>4. Covers(sl, st)
      BY <3>1, <3>2 DEF Covers
    <3> QED
      BY <3>1, <3>2, <3>3, <3>4
  <2> QED
    BY <2>5
<1>8. ASSUME NEW k \in lowest
      PROVE  /\ stamp(k) = [t |-> 0, c |-> 0, d |-> d] /\ stamp(k) \in Stamps
             /\ Covers(sl, stamp(k)) /\ k \notin DOMAIN m
  <2>1. stamp(k) = [t |-> 0, c |-> 0, d |-> d]
    OBVIOUS
  <2>2. k \notin DOMAIN m
    BY <1>3
  <2> HIDE DEF sl, changed, lowest, stamp
  <2>3. stamp(k) \in Stamps
    BY <1>4, <2>1 DEF Stamps
  <2>4. Covers(sl, stamp(k))
    BY <1>4, <1>6, <2>1 DEF Covers, Clocks
  <2> QED
    BY <2>1, <2>2, <2>3, <2>4
<1>9. DOMAIN sm = DOMAIN m \cup lowest \cup changed
  OBVIOUS
<1>10. ASSUME NEW k \in DOMAIN sm
       PROVE  /\ k \in changed => sm[k].h = stamp(k)
              /\ k \in lowest => sm[k].h = stamp(k)
              /\ k \notin changed \cup lowest => k \in DOMAIN m /\ sm[k] = m[k]
  OBVIOUS
<1>11. sm = [k \in DOMAIN sm |-> sm[k]]
  OBVIOUS
<1> HIDE DEF sm, sl, stamp, changed, lowest, first
<1>12. \A k \in DOMAIN m : m[k].h \in Stamps /\ Covers(last, m[k].h)
  BY DEF Shared, IsMap, Past
<1>13. Shared(sm)
  BY <1>2, <1>7, <1>8, <1>9, <1>10, <1>11, <1>12 DEF Shared, IsMap
<1>14. Past(sl, sm)
  BY <1>6, <1>7, <1>8, <1>9, <1>10, <1>12 DEF Past
<1>15. \A k \in changed : \A h \in Stamps : Covers(last, h) => Later(stamp(k), h) /\ ~Covers(last, stamp(k))
  BY <1>7, MovedIsLater DEF first
<1>16. Keeps(m, sm, 0)
  <2> SUFFICES ASSUME NEW k \in DOMAIN m PROVE k \in DOMAIN sm /\ ~Later(m[k].h, sm[k].h)
    BY DEF Keeps
  <2> QED
    BY <1>3, <1>7, <1>9, <1>10, <1>12, <1>15, LaterAsymmetric
<1>17. \A k \in DOMAIN sm : (k \in DOMAIN m /\ sm[k] = m[k]) \/ Fresh(m, sm, last, d, k)
  <2> SUFFICES ASSUME NEW k \in DOMAIN sm, ~(k \in DOMAIN m /\ sm[k] = m[k])
               PROVE  Fresh(m, sm, last, d, k)
    OBVIOUS
  <2>1. CASE k \in lowest
    BY <1>8, <1>10, <2>1 DEF Fresh
  <2>2. CASE k \in changed
    <3>1. sm[k].h = stamp(k) /\ stamp(k).d = d
      BY <1>7, <1>10, <2>2
    <3>2. k \in DOMAIN m => ~Covers(last, stamp(k))
      BY <1>12, <1>15, <2>2
    <3> QED
      BY <3>1, <3>2 DEF Fresh
  <2> QED
    BY <1>10, <2>1, <2>2
<1> QED
  BY <1>1, <1>6, <1>9, <1>13, <1>14, <1>16, <1>17

-----------------------------------------------------------------------------
(* What a device has and what its copy says. *)

\* The copy says what the device has.
Tells(m, v) ==
  /\ \A k \in DOMAIN v : IF k \in DOMAIN m THEN m[k].v = v[k] ELSE v[k] = Null
  /\ \A e \in Entries : Listed(e) \in DOMAIN m \ DOMAIN v => m[Listed(e)].v = Null

\* A map has a name for every console it has ever listed.
Named(m) ==
  \A e \in Entries :
    /\ Listed(e) \in DOMAIN m => m[Listed(e)].v \in {1, Null} /\ Name(e) \in DOMAIN m
    /\ Name(e) \in DOMAIN m => m[Name(e)].v # Null

\* The keys of consoles, of their names and of settings are different keys.
LEMMA KeysDiffer ==
  ASSUME NEW e \in Entries, NEW f \in Entries
  PROVE  /\ Listed(e) = Listed(f) => e = f
         /\ Name(e) = Name(f) => e = f
         /\ Listed(e) # Name(f)
         /\ Listed(e) \notin Settings /\ Name(e) \notin Settings
<1>1. Listed(e) \notin Settings /\ Name(e) \notin Settings
  BY MeshAssumption
<1> QED
  BY <1>1 DEF Listed, Name

\* A look at a device whose copy says what it has finds no change.
LEMMA TellsNoGhost ==
  ASSUME NEW m, NEW v, NEW last, NEW d, IsMap(m), Tells(m, v)
  PROVE  StampLocal(m, v, last, d, FALSE).m = m
<1> DEFINE new == {k \in DOMAIN v \ DOMAIN m : v[k] # Null}
           lowest == {k \in new : FALSE \/ \E e \in Added(m, v) : k = Name(e)}
           gone == {Listed(e) : e \in {x \in Entries : /\ Listed(x) \in DOMAIN m \ DOMAIN v
                                                       /\ m[Listed(x)].v # Null}}
           changed == (new \ lowest) \cup {k \in DOMAIN v \cap DOMAIN m : m[k].v # v[k]} \cup gone
           first == Moved(last, wall[d])
           after(k) == IF \E e \in Entries : k = Name(e) /\ Listed(e) \in changed THEN 1 ELSE 0
           stamp(k) == IF k \in lowest THEN [t |-> 0, c |-> 0, d |-> d]
                       ELSE [t |-> first.t, c |-> first.c + after(k), d |-> d]
           reg(k) == [v |-> IF k \in gone THEN Null ELSE v[k], h |-> stamp(k)]
           sm == [k \in DOMAIN m \cup lowest \cup changed |->
                    IF k \notin lowest \cup changed THEN m[k] ELSE reg(k)]
<1>1. StampLocal(m, v, last, d, FALSE).m = sm
  BY DEF StampLocal
<1>2. lowest = {} /\ changed = {}
  BY DEF Tells
<1> HIDE DEF lowest, changed, reg
<1>3. sm = [k \in DOMAIN m |-> m[k]]
  BY <1>2
<1> QED
  BY <1>1, <1>3 DEF IsMap

\* The consoles that are in a map and that the device has no more.
Left(m, v) == {Listed(e) : e \in {x \in Entries : /\ Listed(x) \in DOMAIN m \ DOMAIN v
                                                  /\ m[Listed(x)].v # Null}}

\* What stampLocal does to the values of a map.
LEMMA StampedValues ==
  ASSUME NEW m, NEW v, NEW last, NEW d, NEW b
  PROVE  LET sm == StampLocal(m, v, last, d, b).m
         IN  /\ DOMAIN sm = DOMAIN m \cup {k \in DOMAIN v : v[k] # Null}
             /\ \A k \in DOMAIN sm : sm[k].v = IF k \in Left(m, v) THEN Null
                                               ELSE IF k \in DOMAIN v THEN v[k] ELSE m[k].v
<1> DEFINE new == {k \in DOMAIN v \ DOMAIN m : v[k] # Null}
           lowest == {k \in new : b \/ \E e \in Added(m, v) : k = Name(e)}
           gone == {Listed(e) : e \in {x \in Entries : /\ Listed(x) \in DOMAIN m \ DOMAIN v
                                                       /\ m[Listed(x)].v # Null}}
           changed == (new \ lowest) \cup {k \in DOMAIN v \cap DOMAIN m : m[k].v # v[k]} \cup gone
           first == Moved(last, wall[d])
           after(k) == IF \E e \in Entries : k = Name(e) /\ Listed(e) \in changed THEN 1 ELSE 0
           stamp(k) == IF k \in lowest THEN [t |-> 0, c |-> 0, d |-> d]
                       ELSE [t |-> first.t, c |-> first.c + after(k), d |-> d]
           val(k) == IF k \in gone THEN Null ELSE v[k]
           sm == [k \in DOMAIN m \cup lowest \cup changed |->
                    IF k \notin lowest \cup changed THEN m[k] ELSE [v |-> val(k), h |-> stamp(k)]]
<1>1. StampLocal(m, v, last, d, b).m = sm
  BY DEF StampLocal
<1>2. gone \subseteq DOMAIN m /\ gone \cap DOMAIN v = {} /\ gone \subseteq changed
  OBVIOUS
<1>3. lowest \cup changed = new \cup {k \in DOMAIN v \cap DOMAIN m : m[k].v # v[k]} \cup gone
  OBVIOUS
<1> HIDE DEF stamp
<1>4. DOMAIN sm = DOMAIN m \cup {k \in DOMAIN v : v[k] # Null}
  <2>1. DOMAIN sm = DOMAIN m \cup lowest \cup changed
    OBVIOUS
  <2> HIDE DEF sm, lowest, changed
  <2> QED
    BY <1>2, <1>3, <2>1
<1>5. ASSUME NEW k \in DOMAIN sm
      PROVE  sm[k].v = IF k \in gone THEN Null ELSE IF k \in DOMAIN v THEN v[k] ELSE m[k].v
  <2>1. CASE k \in lowest \cup changed
    <3>1. sm[k] = [v |-> val(k), h |-> stamp(k)]
      BY <2>1
    <3>2. sm[k].v = val(k)
      <4> HIDE DEF sm, val
      <4> QED BY <3>1
    <3>3. k \in gone \/ k \in DOMAIN v
      BY <1>3, <2>1
    <3> HIDE DEF sm, gone
    <3> QED
      BY <3>2, <3>3
  <2>2. CASE k \notin lowest \cup changed
    <3>1. sm[k] = m[k] /\ k \in DOMAIN m
      BY <2>2
    <3>2. k \notin gone /\ (k \in DOMAIN v => m[k].v = v[k])
      BY <1>3, <2>2, <3>1
    <3> HIDE DEF sm, gone
    <3> QED
      BY <3>1, <3>2
  <2> QED
    BY <2>1, <2>2
<1> HIDE DEF sm
<1> QED
  BY <1>1, <1>4, <1>5 DEF Left

\* So the map says what the device has, and still has a name for every console.
LEMMA StampedTells ==
  ASSUME NEW m, NEW v, NEW last, NEW d, NEW b
  PROVE  /\ Tells(StampLocal(m, v, last, d, b).m, v)
         /\ IsView(v) /\ Named(m) => Named(StampLocal(m, v, last, d, b).m)
<1> DEFINE sm == StampLocal(m, v, last, d, b).m
           gone == Left(m, v)
<1>1. /\ DOMAIN sm = DOMAIN m \cup {k \in DOMAIN v : v[k] # Null}
      /\ \A k \in DOMAIN sm : sm[k].v = IF k \in gone THEN Null
                                        ELSE IF k \in DOMAIN v THEN v[k] ELSE m[k].v
  BY StampedValues
<1>2. gone \cap DOMAIN v = {}
  BY DEF Left
<1>3. \A e \in Entries : Listed(e) \in DOMAIN m \ DOMAIN v /\ m[Listed(e)].v # Null => Listed(e) \in gone
  BY DEF Left
<1>4. \A e \in Entries : Name(e) \notin gone
  BY KeysDiffer DEF Left
<1> HIDE DEF sm, gone
<1>5. Tells(sm, v)
  <2>1. ASSUME NEW k \in DOMAIN v
        PROVE  IF k \in DOMAIN sm THEN sm[k].v = v[k] ELSE v[k] = Null
    BY <1>1, <1>2
  <2>2. ASSUME NEW e \in Entries, Listed(e) \in DOMAIN sm \ DOMAIN v
        PROVE  sm[Listed(e)].v = Null
    BY <1>1, <1>3, <2>2
  <2> QED
    BY <2>1, <2>2 DEF Tells
<1>6. ASSUME IsView(v), Named(m) PROVE Named(sm)
  <2> SUFFICES ASSUME NEW e \in Entries
               PROVE  /\ Listed(e) \in DOMAIN sm => sm[Listed(e)].v \in {1, Null} /\ Name(e) \in DOMAIN sm
                      /\ Name(e) \in DOMAIN sm => sm[Name(e)].v # Null
    BY DEF Named
  <2>1. /\ Listed(e) \in DOMAIN v => v[Listed(e)] = 1 /\ Name(e) \in DOMAIN v
        /\ Name(e) \in DOMAIN v => v[Name(e)] # Null
        /\ Listed(e) \in DOMAIN m => m[Listed(e)].v \in {1, Null} /\ Name(e) \in DOMAIN m
        /\ Name(e) \in DOMAIN m => m[Name(e)].v # Null
    BY <1>6 DEF IsView, Named
  <2> QED
    BY <1>1, <1>4, <2>1
<1> QED
  BY <1>5, <1>6 DEF sm

\* The merge has a name for every console either map lists.
LEMMA MergedNamed ==
  ASSUME NEW m, NEW r, Shared(m), Shared(r), Named(m), Named(r)
  PROVE  Named(Merge(AdoptBaseline(m, r), r))
<1> DEFINE merged == Merge(AdoptBaseline(m, r), r)
<1>1. /\ DOMAIN merged = DOMAIN m \cup DOMAIN r
      /\ \A k \in DOMAIN merged : \/ k \in DOMAIN m /\ merged[k] = m[k]
                                  \/ k \in DOMAIN r /\ merged[k] = r[k]
  BY MergedIs
<1> HIDE DEF merged
<1>2. Named(merged)
  BY <1>1 DEF Named
<1> QED
  BY <1>2 DEF merged

\* plan and rosterFrom leave the device with what the merged map says.
LEMMA AppliedTells ==
  ASSUME NEW m, NEW n, NEW v, IsView(v), Tells(m, v), Named(n), DOMAIN m \subseteq DOMAIN n
  PROVE  IsView(Applied(n, v)) /\ Tells(n, Applied(n, v))
<1> DEFINE lists(e) == IF Listed(e) \in DOMAIN n THEN n[Listed(e)].v # Null ELSE Listed(e) \in DOMAIN v
           kept == {e \in Entries : lists(e)}
           a == Applied(n, v)
<1>1. /\ DOMAIN a = Settings \cup {Listed(e) : e \in kept} \cup {Name(e) : e \in kept}
      /\ \A k \in DOMAIN a :
           a[k] = IF k \in Settings THEN IF k \in DOMAIN n THEN n[k].v ELSE v[k]
                  ELSE IF \E e \in kept : k = Listed(e) THEN 1
                  ELSE IF k \in DOMAIN n /\ n[k].v # Null THEN n[k].v
                  ELSE IF k \in DOMAIN v THEN v[k] ELSE Default
  BY DEF Applied
<1> HIDE DEF a
<1>2. ASSUME NEW e \in Entries
      PROVE  /\ Listed(e) \in DOMAIN v => v[Listed(e)] = 1 /\ Name(e) \in DOMAIN v
             /\ Name(e) \in DOMAIN v => v[Name(e)] # Null
             /\ Listed(e) \in DOMAIN n => n[Listed(e)].v \in {1, Null} /\ Name(e) \in DOMAIN n
             /\ Name(e) \in DOMAIN n => n[Name(e)].v # Null
  BY DEF IsView, Named
<1>3. 1 # Null /\ Default # Null
  BY MeshAssumption
<1>4. ASSUME NEW e \in Entries
      PROVE  e \in kept <=> Listed(e) \in DOMAIN n /\ n[Listed(e)].v = 1
  <2>1. Listed(e) \in DOMAIN v /\ Listed(e) \notin DOMAIN m => v[Listed(e)] = Null
    BY DEF Tells
  <2> QED
    BY <1>2, <1>3, <2>1
<1>5. kept \subseteq Entries
  OBVIOUS
<1> HIDE DEF kept
<1>6. ASSUME NEW e \in kept
      PROVE  /\ Listed(e) \in DOMAIN a /\ a[Listed(e)] = 1
             /\ Name(e) \in DOMAIN a /\ a[Name(e)] = n[Name(e)].v
             /\ Name(e) \in DOMAIN n /\ n[Name(e)].v # Null
  <2>1. e \in Entries /\ Listed(e) \in DOMAIN a /\ Name(e) \in DOMAIN a
    BY <1>1, <1>5
  <2>2. /\ Listed(e) \notin Settings /\ Name(e) \notin Settings
        /\ \A f \in kept : Name(e) # Listed(f)
    BY <1>5, <2>1, KeysDiffer
  <2>3. Name(e) \in DOMAIN n /\ n[Name(e)].v # Null
    BY <1>2, <1>4, <2>1
  <2> QED
    BY <1>1, <2>1, <2>2, <2>3
<1>7. ASSUME NEW e \in Entries, Listed(e) \in DOMAIN a \/ Name(e) \in DOMAIN a
      PROVE  e \in kept
  BY <1>1, <1>5, <1>7, KeysDiffer
<1>8. IsView(a)
  <2>1. Settings \subseteq DOMAIN a /\ DOMAIN a \subseteq Keys
    BY <1>1, <1>5 DEF Keys
  <2> QED
    BY <1>6, <1>7, <2>1 DEF IsView
<1>9. ASSUME NEW k \in DOMAIN a
      PROVE  IF k \in DOMAIN n THEN n[k].v = a[k] ELSE a[k] = Null
  <2>1. CASE k \in Settings
    <3>1. k \in DOMAIN v /\ (k \notin DOMAIN m => v[k] = Null)
      BY <2>1 DEF IsView, Tells
    <3> QED
      BY <1>1, <2>1, <3>1
  <2>2. CASE \E e \in kept : k = Listed(e)
    BY <1>4, <1>5, <1>6, <2>2
  <2>3. CASE \E e \in kept : k = Name(e)
    BY <1>6, <2>3
  <2> QED
    BY <1>1, <2>1, <2>2, <2>3
<1>10. ASSUME NEW e \in Entries, Listed(e) \in DOMAIN n \ DOMAIN a
       PROVE  n[Listed(e)].v = Null
  BY <1>2, <1>4, <1>6, <1>10
<1>11. Tells(n, a)
  BY <1>9, <1>10 DEF Tells
<1> QED
  BY <1>8, <1>11 DEF a
=============================================================================
