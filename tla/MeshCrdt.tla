------------------------------ MODULE MeshCrdt ------------------------------
(***************************************************************************)
(* The shared map every device and console keeps a copy of                 *)
(* (src/client/src/lib/meshCrdt.ts): per key a register, a value with the  *)
(* stamp of the change that set it.  A stamp is a hybrid logical clock's:  *)
(* wall-clock time, a counter, and the device, a number here.              *)
(***************************************************************************)
EXTENDS Integers

\* cmpHlc(g, h) > 0
Later(g, h) ==
  \/ g.t > h.t
  \/ g.t = h.t /\ g.c > h.c
  \/ g.t = h.t /\ g.c = h.c /\ g.d > h.d

\* Per key, the register with the higher stamp.
Merge(a, b) ==
  [k \in DOMAIN a \cup DOMAIN b |->
     IF k \notin DOMAIN a THEN b[k]
     ELSE IF k \in DOMAIN b /\ Later(b[k].h, a[k].h) THEN b[k] ELSE a[k]]

\* Mutant: the wall clock only.
MovedToWall(last, w) == [t |-> w, c |-> 0]
\* Clock.now at wall-clock time w: the clock moves past every stamp it made or saw.
Moved(last, w) == IF w > last.t THEN [t |-> w, c |-> 0] ELSE [t |-> last.t, c |-> last.c + 1]

\* Clock.observe(maxHlc(m))
Observed(last, m) ==
  LET past == {m[k].h : k \in {j \in DOMAIN m : Later(m[j].h, [t |-> last.t, c |-> last.c, d |-> m[j].h.d])}}
      top == CHOOSE h \in past : \A g \in past : ~Later(g, h)
  IN IF past = {} THEN last ELSE [t |-> top.t, c |-> top.c]

\* A set-up from before sharing (time 0) gives way to what another device shared already.
AdoptBaseline(local, remote) ==
  [k \in {j \in DOMAIN local : ~(/\ local[j].h.t = 0 /\ j \in DOMAIN remote
                                 /\ remote[j].h.d # local[j].h.d)} |-> local[k]]
=============================================================================
