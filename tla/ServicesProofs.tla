---------------------------- MODULE ServicesProofs --------------------------
(***************************************************************************)
(* Theorems about the services of an io_context, for any number of         *)
(* objects, services, native handles, addresses and adapters:              *)
(*                                                                         *)
(*  - ServiceObjects: native handles are held once and connect_state_      *)
(*    follows them, also across io_contexts; the lists of implementations  *)
(*    are exact and shutdown reaches every object, for moves within an     *)
(*    io_context;                                                          *)
(*  - DeviceSetup: what discovery leaves, what get_first_available_device  *)
(*    selects and what use_device registers.                               *)
(***************************************************************************)
EXTENDS ServiceObjects, DeviceSetup, FiniteSetTheorems, SequenceTheorems,
        WellFoundedInduction, TLAPS

(* Induction, in the form the provers can use: on a set of numbers. *)

LEMMA LeastElement ==
  ASSUME NEW S, S \subseteq Nat, S # {}
  PROVE  \E m \in S : \A n \in S : m <= n
<1>1. OpToRel(<, Nat) = {ss \in Nat \X Nat : ss[1] < ss[2]}
  BY DEF OpToRel
<1>2. PICK x \in S : \A y \in S : ~(<<y, x>> \in OpToRel(<, Nat))
  BY NatLessThanWellFounded, WFMin
<1>3. \A y \in S : <<y, x>> \in OpToRel(<, Nat) <=> y < x
  BY <1>1
<1>4. \A y \in S : ~(y < x)
  BY <1>2, <1>3
<1> HIDE <1>2, <1>3
<1> QED BY <1>4

LEMMA SetInduction ==
  ASSUME NEW S, S \subseteq Nat, 0 \in S, \A n \in S : n + 1 \in S
  PROVE  S = Nat
<1> SUFFICES ASSUME Nat \ S # {} PROVE FALSE
  OBVIOUS
<1>1. PICK m \in Nat \ S : \A n \in Nat \ S : m <= n
  BY LeastElement
<1>2. m # 0 /\ m - 1 \in Nat /\ m - 1 \in S
  BY <1>1
<1> QED BY <1>2

-----------------------------------------------------------------------------
(* Native handles. *)

\* The types the argument needs.
HolderTypes ==
  /\ svc \in [Impls -> Services \cup {Null}]
  /\ native \in [Impls -> Natives \cup {Null}]
  /\ handle \in [Natives -> {"none", "fresh", "used", "closed"}]

\* Only an object holds a handle: constructing one overwrites nothing.
OnlyObjectsHold == \A i \in Impls : svc[i] = Null => native[i] = Null

\* A handle is open exactly if some object holds it, and no two objects hold
\* the same.
OpenIsHeld ==
  \A n \in Natives :
    handle[n] \in {"fresh", "used"} <=> \E i \in Impls : native[i] = n
HeldApart ==
  \A i, j \in Impls : native[i] = native[j] /\ native[i] # Null => i = j

\* The inductive invariant.
HolderInv == HolderTypes /\ OnlyObjectsHold /\ OpenIsHeld /\ HeldApart

\* The pointwise parts are HeldOnce.
LEMMA HolderImpliesHeldOnce == HolderInv => HeldOnce
BY NullAssumption
   DEF HolderInv, HolderTypes, OnlyObjectsHold, OpenIsHeld, HeldApart, HeldOnce

LEMMA InitHolder == Init => HolderInv
BY NullAssumption
   DEF Init, HolderInv, HolderTypes, OnlyObjectsHold, OpenIsHeld, HeldApart

\* Every step keeps the invariant; a move hands the handle over, and closes
\* the one it overwrites.
LEMMA NextHolder == HolderInv /\ [Next]_vars => HolderInv'
<1> SUFFICES ASSUME HolderInv, [Next]_vars PROVE HolderInv'
  OBVIOUS
<1> USE NullAssumption
        DEF HolderInv, HolderTypes, OnlyObjectsHold, OpenIsHeld, HeldApart
<1>1. CASE UNCHANGED vars
  BY <1>1 DEF vars
<1>2. ASSUME NEW i \in Impls, NEW s \in Services, Construct(i, s) PROVE HolderInv'
  BY <1>2 DEF Construct
<1>3. ASSUME NEW i \in Impls, NEW j \in Impls, MoveConstruct(i, j) PROVE HolderInv'
  BY <1>3 DEF MoveConstruct, HandOver
<1>4. ASSUME NEW i \in Impls, NEW j \in Impls, MoveAssign(i, j) PROVE HolderInv'
  <2>1. /\ i # j /\ svc[i] # Null /\ svc[j] # Null
        /\ handle' = Closing({i})
        /\ native' = HandOver(i, j)
        /\ svc' = [svc EXCEPT ![i] = svc[j]]
    BY <1>4 DEF MoveAssign
  <2>2. /\ handle' \in [Natives -> {"none", "fresh", "used", "closed"}]
        /\ \A n \in Natives : handle'[n] = IF native[i] = n THEN "closed" ELSE handle[n]
    BY <2>1 DEF Closing
  <2>3. /\ native' \in [Impls -> Natives \cup {Null}]
        /\ \A k \in Impls : native'[k] = IF k = j THEN Null
                                         ELSE IF k = i THEN native[j] ELSE native[k]
    BY <2>1 DEF HandOver
  <2>4. /\ svc' \in [Impls -> Services \cup {Null}]
        /\ \A k \in Impls : svc'[k] = IF k = i THEN svc[j] ELSE svc[k]
    BY <2>1
  <2>5. HolderTypes'
    BY <2>2, <2>3, <2>4
  <2>6. OnlyObjectsHold'
    <3> SUFFICES ASSUME NEW k \in Impls, svc'[k] = Null PROVE native'[k] = Null
      OBVIOUS
    <3>1. k # i /\ svc[k] = Null
      BY <2>1, <2>4
    <3>2. native[k] = Null
      BY <3>1
    <3> QED BY <2>3, <3>1, <3>2
  <2>7. HeldApart'
    BY <2>1, <2>3
  <2>8. OpenIsHeld'
    <3> SUFFICES ASSUME NEW n \in Natives
                 PROVE  handle'[n] \in {"fresh", "used"} <=> \E k \in Impls : native'[k] = n
      OBVIOUS
    <3>1. CASE native[i] = n
      <4>1. \A k \in Impls : native'[k] # n
        BY <2>1, <2>3, <3>1
      <4> QED BY <2>2, <3>1, <4>1
    <3>2. CASE native[i] # n
      <4>1. (\E k \in Impls : native'[k] = n) <=> (\E k \in Impls : native[k] = n)
        BY <2>1, <2>3, <3>2
      <4> QED BY <2>2, <3>2, <4>1
    <3> QED BY <3>1, <3>2
  <2> QED BY <2>5, <2>6, <2>7, <2>8
<1>5. ASSUME NEW i \in Impls, Destroy(i) PROVE HolderInv'
  BY <1>5 DEF Destroy, Closing
<1>6. ASSUME NEW i \in Impls, NEW n \in Natives, Open(i, n) PROVE HolderInv'
  BY <1>6 DEF Open, Live
<1>7. ASSUME NEW i \in Impls, Use(i) PROVE HolderInv'
  BY <1>7 DEF Use, Live
<1>8. ASSUME NEW s \in Services, Shutdown(s) PROVE HolderInv'
  <2> DEFINE V == Visited(s)
  <2>1. V \subseteq Impls
    BY DEF Visited, Listed
  <2>2. /\ handle' = Closing(V) /\ UNCHANGED svc
        /\ native' = [k \in Impls |-> IF k \in V THEN Null ELSE native[k]]
    BY <1>8 DEF Shutdown
  <2> HIDE DEF V
  <2>3. /\ handle' \in [Natives -> {"none", "fresh", "used", "closed"}]
        /\ \A n \in Natives :
             handle'[n] = IF \E k \in V : native[k] = n THEN "closed" ELSE handle[n]
    BY <2>2 DEF Closing
  <2>4. HolderTypes' /\ OnlyObjectsHold' /\ HeldApart'
    BY <2>2, <2>3
  <2>5. OpenIsHeld'
    BY <2>1, <2>2, <2>3
  <2> QED BY <2>4, <2>5
<1> QED BY <1>1, <1>2, <1>3, <1>4, <1>5, <1>6, <1>7, <1>8 DEF Next

\* A native handle that is open is held by exactly one object, and one that
\* was closed by none, whatever is constructed, moved, destroyed and shut down,
\* for any number of objects and io_contexts, moves between them included.
THEOREM HandlesHeldOnce == Spec => []HeldOnce
BY InitHolder, NextHolder, HolderImpliesHeldOnce, PTL DEF Spec
-----------------------------------------------------------------------------
(* connect_state_. *)

\* The inductive invariant: where a handle is decides what its state tells.
StateInv ==
  /\ HolderInv
  /\ state \in [Impls -> {"idle", "used"}]
  /\ StateFollowsHandle

LEMMA InitState == Init => StateInv
BY InitHolder, NullAssumption DEF Init, StateInv, StateFollowsHandle

\* Every step keeps it: a move carries the state with the handle, an open
\* handle is nobody else's, and only an idle connector is used.
LEMMA NextState == StateInv /\ [Next]_vars => StateInv'
<1> SUFFICES ASSUME StateInv, [Next]_vars PROVE StateInv'
  OBVIOUS
<1>0. HolderInv'
  BY NextHolder DEF StateInv
<1> SUFFICES /\ (state \in [Impls -> {"idle", "used"}])'
             /\ StateFollowsHandle'
  BY <1>0 DEF StateInv
<1> USE NullAssumption
        DEF StateInv, HolderInv, HolderTypes, HeldApart, StateFollowsHandle
<1>1. CASE UNCHANGED vars
  BY <1>1 DEF vars
<1>2. ASSUME NEW i \in Impls, NEW s \in Services, Construct(i, s) PROVE StateInv'
  BY <1>0, <1>2 DEF Construct
<1>3. ASSUME NEW i \in Impls, NEW j \in Impls, MoveConstruct(i, j) PROVE StateInv'
  BY <1>0, <1>3 DEF MoveConstruct, HandOver, CarryState
<1>4. ASSUME NEW i \in Impls, NEW j \in Impls, MoveAssign(i, j) PROVE StateInv'
  BY <1>0, <1>4 DEF MoveAssign, HandOver, CarryState, Closing
<1>5. ASSUME NEW i \in Impls, Destroy(i) PROVE StateInv'
  BY <1>0, <1>5 DEF Destroy, Closing
<1>6. ASSUME NEW i \in Impls, NEW n \in Natives, Open(i, n) PROVE StateInv'
  BY <1>0, <1>6 DEF Open
<1>7. ASSUME NEW i \in Impls, Use(i) PROVE StateInv'
  BY <1>0, <1>7 DEF Use
<1>8. ASSUME NEW s \in Services, Shutdown(s) PROVE StateInv'
  BY <1>0, <1>8 DEF Shutdown, Closing
<1> QED BY <1>1, <1>2, <1>3, <1>4, <1>5, <1>6, <1>7, <1>8 DEF Next

\* connect_state_ goes with the handle through every chain of moves: a handle
\* that was used is never in a connector that counts as fresh.
THEOREM StateGoesWithHandle == Spec => []StateFollowsHandle
<1>1. StateInv => StateFollowsHandle
  BY DEF StateInv
<1> QED BY InitState, NextState, <1>1, PTL DEF Spec

-----------------------------------------------------------------------------
(* The intrusive lists. *)

Place == Impls \cup {Null}
ListLinks == [head : [Services -> Place], next : [Impls -> Place], prev : [Impls -> Place]]

\* The links between neighbours, of lists l for the objects that are where v
\* says: each element is linked with its neighbours both ways, they are of the
\* same service, and the element without a predecessor is the head.
Linked(l, v) ==
  /\ \A s \in Services :
       l.head[s] # Null => v[l.head[s]] = s /\ l.prev[l.head[s]] = Null
  /\ \A i \in Impls : v[i] # Null =>
       /\ l.next[i] # Null => v[l.next[i]] = v[i] /\ l.prev[l.next[i]] = i
       /\ l.prev[i] # Null => v[l.prev[i]] = v[i] /\ l.next[l.prev[i]] = i
       /\ l.prev[i] = Null => l.head[v[i]] = i

\* No cycle: the elements can be numbered downwards along next_.
Falls(l, v, rank) ==
  \A i \in Impls : v[i] # Null /\ l.next[i] # Null => rank[l.next[i]] < rank[i]
Numbered(l, v) == \E n \in Nat : \E rank \in [Impls -> 0..n] : Falls(l, v, rank)

WellLinked(l, v) ==
  /\ l \in ListLinks /\ v \in [Impls -> Services \cup {Null}]
  /\ Linked(l, v) /\ Numbered(l, v)

LEMMA InsertKeeps ==
  ASSUME NEW l, NEW v, WellLinked(l, v), NEW i \in Impls, NEW s \in Services, v[i] = Null
  PROVE  WellLinked(DoInsert(l, s, i), [v EXCEPT ![i] = s])
<1> DEFINE m == DoInsert(l, s, i)
           w == [v EXCEPT ![i] = s]
           h == l.head[s]
<1>1. /\ l \in ListLinks /\ v \in [Impls -> Services \cup {Null}] /\ h \in Place
      /\ Null \notin Impls /\ Null \notin Services
  BY NullAssumption DEF WellLinked, ListLinks
<1>2. h # Null => h # i /\ v[h] = s /\ l.prev[h] = Null
  BY <1>1 DEF WellLinked, Linked
<1>3. /\ m \in ListLinks
      /\ \A t \in Services : m.head[t] = IF t = s THEN i ELSE l.head[t]
      /\ \A x \in Impls : m.next[x] = IF x = i THEN h ELSE l.next[x]
      /\ \A x \in Impls : m.prev[x] = IF x = i THEN Null
                                      ELSE IF x = h THEN i ELSE l.prev[x]
  <2>1. /\ m.head = [l.head EXCEPT ![s] = i] /\ m.next = [l.next EXCEPT ![i] = h]
        /\ m.prev = [x \in Impls |-> CASE x = h -> i
                                       [] x = i -> Null
                                       [] OTHER -> l.prev[x]]
        /\ m = [head |-> m.head, next |-> m.next, prev |-> m.prev]
    BY DEF DoInsert
  <2>2. \A x \in Impls : m.prev[x] = IF x = i THEN Null
                                     ELSE IF x = h THEN i ELSE l.prev[x]
    BY <1>1, <1>2, <2>1
  <2>3. /\ l.head \in [Services -> Place] /\ l.next \in [Impls -> Place]
        /\ l.prev \in [Impls -> Place] /\ i \in Place /\ Null \in Place
    BY <1>1 DEF ListLinks, Place
  <2>4. m.prev \in [Impls -> Place]
    BY <1>1, <1>2, <2>1, <2>3
  <2>5. m.head \in [Services -> Place] /\ m.next \in [Impls -> Place]
    BY <1>1, <2>1, <2>3
  <2> HIDE DEF m
  <2> QED BY <1>1, <2>1, <2>2, <2>3, <2>4, <2>5 DEF ListLinks
<1>4. /\ w \in [Impls -> Services \cup {Null}]
      /\ \A x \in Impls : w[x] = IF x = i THEN s ELSE v[x]
  BY <1>1
<1> HIDE DEF m, w
<1>5. ASSUME NEW x \in Impls
      PROVE  l.next[x] \in Place /\ l.prev[x] \in Place
  BY <1>1 DEF ListLinks
<1>6. ASSUME NEW t \in Services, m.head[t] # Null
      PROVE  w[m.head[t]] = t /\ m.prev[m.head[t]] = Null
  <2>1. CASE t = s
    BY <1>3, <1>4, <2>1
  <2>2. CASE t # s
    <3>1. m.head[t] = l.head[t] /\ l.head[t] \in Impls
      BY <1>1, <1>3, <1>6, <2>2 DEF ListLinks, Place
    <3>2. v[l.head[t]] = t /\ l.prev[l.head[t]] = Null
      BY <1>6, <3>1 DEF WellLinked, Linked
    <3>3. l.head[t] # i /\ l.head[t] # h
      BY <1>1, <1>2, <2>2, <3>1, <3>2
    <3> QED BY <1>3, <1>4, <3>1, <3>2, <3>3
  <2> QED BY <2>1, <2>2
<1>7. ASSUME NEW x \in Impls, w[x] # Null
      PROVE  /\ m.next[x] # Null => w[m.next[x]] = w[x] /\ m.prev[m.next[x]] = x
             /\ m.prev[x] # Null => w[m.prev[x]] = w[x] /\ m.next[m.prev[x]] = x
             /\ m.prev[x] = Null => m.head[w[x]] = x
  <2>1. CASE x = i
    <3>1. m.next[x] = h /\ m.prev[x] = Null /\ w[x] = s
      BY <1>3, <1>4, <2>1
    <3>2. m.head[s] = i
      BY <1>3
    <3>3. h # Null => w[h] = s /\ m.prev[h] = i
      BY <1>1, <1>2, <1>3, <1>4 DEF Place
    <3> QED BY <2>1, <3>1, <3>2, <3>3
  <2>2. CASE x # i
    <3>1. /\ w[x] = v[x] /\ v[x] # Null /\ m.next[x] = l.next[x]
          /\ v[x] \in Services
      BY <1>1, <1>3, <1>4, <1>7, <2>2
    <3>2. /\ l.next[x] # Null => v[l.next[x]] = v[x] /\ l.prev[l.next[x]] = x
          /\ l.prev[x] # Null => v[l.prev[x]] = v[x] /\ l.next[l.prev[x]] = x
          /\ l.prev[x] = Null => l.head[v[x]] = x
      BY <3>1 DEF WellLinked, Linked
    <3>3. l.next[x] # Null => w[l.next[x]] = v[x] /\ m.prev[l.next[x]] = x
      <4> SUFFICES ASSUME l.next[x] # Null
                   PROVE  w[l.next[x]] = v[x] /\ m.prev[l.next[x]] = x
        OBVIOUS
      <4>1. l.next[x] \in Impls /\ l.next[x] # i
        BY <1>5, <3>1, <3>2 DEF Place
      <4>2. l.next[x] # h
        BY <1>1, <1>2, <3>2, <4>1
      <4> QED BY <1>3, <1>4, <3>2, <4>1, <4>2
    <3>4. CASE x = h
      <4>1. v[x] = s /\ m.prev[x] = i
        BY <1>1, <1>2, <1>3, <2>2, <3>4
      <4>2. w[i] = s /\ m.next[i] = h
        BY <1>3, <1>4
      <4> QED BY <1>1, <3>1, <3>3, <3>4, <4>1, <4>2
    <3>5. CASE x # h
      <4>1. m.prev[x] = l.prev[x]
        BY <1>3, <2>2, <3>5
      <4>2. l.prev[x] # Null => w[l.prev[x]] = v[x] /\ m.next[l.prev[x]] = x
        <5> SUFFICES ASSUME l.prev[x] # Null
                     PROVE  w[l.prev[x]] = v[x] /\ m.next[l.prev[x]] = x
          OBVIOUS
        <5>1. l.prev[x] \in Impls /\ l.prev[x] # i
          BY <1>5, <3>1, <3>2 DEF Place
        <5> QED BY <1>3, <1>4, <3>2, <5>1
      <4>3. l.prev[x] = Null => m.head[v[x]] = x
        BY <1>3, <3>1, <3>2, <3>5
      <4> QED BY <3>1, <3>3, <4>1, <4>2, <4>3
    <3> QED BY <3>4, <3>5
  <2> QED BY <2>1, <2>2
<1>8. Linked(m, w)
  BY <1>6, <1>7 DEF Linked
<1>9. Numbered(m, w)
  <2>1. PICK n \in Nat : \E rank \in [Impls -> 0..n] : Falls(l, v, rank)
    BY DEF WellLinked, Numbered
  <2>2. PICK rank \in [Impls -> 0..n] : Falls(l, v, rank)
    BY <2>1
  <2> DEFINE up == [rank EXCEPT ![i] = n + 1]
  <2>3. up \in [Impls -> 0..(n + 1)]
    <3>1. \A x \in Impls : rank[x] \in 0..n /\ rank[x] \in 0..(n + 1)
      BY <2>1, <2>2
    <3> QED BY <3>1
  <2>4. \A x \in Impls : up[x] = IF x = i THEN n + 1 ELSE rank[x]
    OBVIOUS
  <2> HIDE DEF up
  <2>5. ASSUME NEW x \in Impls, w[x] # Null, m.next[x] # Null
        PROVE  up[m.next[x]] < up[x]
    <3>1. CASE x = i
      <4>1. m.next[x] = h /\ h \in Impls /\ h # i /\ up[x] = n + 1
        BY <1>1, <1>2, <1>3, <2>4, <2>5, <3>1 DEF Place
      <4>2. up[h] \in 0..n
        BY <2>4, <4>1
      <4> QED BY <2>1, <4>1, <4>2
    <3>2. CASE x # i
      <4>1. /\ m.next[x] = l.next[x] /\ v[x] # Null /\ l.next[x] \in Impls
            /\ v[l.next[x]] = v[x]
        BY <1>3, <1>4, <1>5, <2>5, <3>2 DEF Place, WellLinked, Linked
      <4>2. l.next[x] # i
        BY <4>1
      <4>3. rank[l.next[x]] < rank[x]
        BY <2>2, <4>1, <1>1 DEF Falls
      <4> QED BY <2>4, <3>2, <4>1, <4>2, <4>3
    <3> QED BY <3>1, <3>2
  <2>6. n + 1 \in Nat
    BY <2>1
  <2> QED BY <2>3, <2>5, <2>6 DEF Numbered, Falls
<1> QED BY <1>3, <1>4, <1>8, <1>9 DEF WellLinked, m, w

\* do_remove of an element of the list of s: its neighbours are linked with
\* each other, or the head moves on.
LEMMA RemoveKeeps ==
  ASSUME NEW l, NEW v, WellLinked(l, v), NEW i \in Impls, NEW s \in Services, v[i] = s
  PROVE  WellLinked(DoRemove(l, s, i), [v EXCEPT ![i] = Null])
<1> DEFINE m == DoRemove(l, s, i)
           w == [v EXCEPT ![i] = Null]
           p == l.prev[i]
           n == l.next[i]
<1>1. /\ l \in ListLinks /\ v \in [Impls -> Services \cup {Null}]
      /\ Null \notin Impls /\ Null \notin Services /\ s # Null
  BY NullAssumption DEF WellLinked, ListLinks
<1>2. /\ l.head \in [Services -> Place] /\ l.next \in [Impls -> Place]
      /\ l.prev \in [Impls -> Place] /\ p \in Place /\ n \in Place
  BY <1>1 DEF ListLinks
<1>3. PICK r \in Nat : \E rank \in [Impls -> 0..r] : Falls(l, v, rank)
  BY DEF WellLinked, Numbered
<1>4. PICK rank \in [Impls -> 0..r] : Falls(l, v, rank)
  BY <1>3
<1>5. /\ n # Null => v[n] = s /\ l.prev[n] = i
      /\ p # Null => v[p] = s /\ l.next[p] = i
      /\ p = Null => l.head[s] = i
  BY <1>1 DEF WellLinked, Linked
<1>6. n # i /\ p # i
  <2>1. n # i
    <3> SUFFICES ASSUME n = i PROVE FALSE
      OBVIOUS
    <3>1. rank[i] < rank[i] /\ rank[i] \in 0..r
      BY <1>1, <1>4 DEF Falls
    <3> QED BY <1>3, <3>1
  <2>2. p = i => n = i
    BY <1>1, <1>5
  <2> QED BY <2>1, <2>2
<1>7. /\ m \in ListLinks
      /\ \A t \in Services : m.head[t] = IF t = s /\ l.head[s] = i THEN n ELSE l.head[t]
      /\ \A x \in Impls : m.next[x] = IF x = i THEN Null
                                      ELSE IF x = p THEN n ELSE l.next[x]
      /\ \A x \in Impls : m.prev[x] = IF x = i THEN Null
                                      ELSE IF x = n THEN p ELSE l.prev[x]
  <2>1. /\ m.head = [l.head EXCEPT ![s] = IF l.head[s] = i THEN n ELSE l.head[s]]
        /\ m.next = [x \in Impls |-> CASE x = i -> Null
                                       [] x = p -> n
                                       [] OTHER -> l.next[x]]
        /\ m.prev = [x \in Impls |-> CASE x = i -> Null
                                       [] x = n -> p
                                       [] OTHER -> l.prev[x]]
        /\ m = [head |-> m.head, next |-> m.next, prev |-> m.prev]
    BY <1>2 DEF DoRemove
  <2> HIDE DEF m
  <2>2. \A x \in Impls : m.next[x] = IF x = i THEN Null
                                     ELSE IF x = p THEN n ELSE l.next[x]
    BY <1>6, <2>1
  <2>3. \A x \in Impls : m.prev[x] = IF x = i THEN Null
                                     ELSE IF x = n THEN p ELSE l.prev[x]
    BY <1>6, <2>1
  <2>4. \A t \in Services : m.head[t] = IF t = s /\ l.head[s] = i THEN n ELSE l.head[t]
    BY <1>2, <2>1
  <2>5. m.next \in [Impls -> Place]
    <3>1. Null \in Place /\ \A x \in Impls : m.next[x] \in Place
      BY <1>2, <2>2 DEF Place
    <3>2. DOMAIN m.next = Impls /\ m.next = [x \in Impls |-> m.next[x]]
      BY <2>1
    <3> QED BY <3>1, <3>2
  <2>6. m.prev \in [Impls -> Place]
    <3>1. Null \in Place /\ \A x \in Impls : m.prev[x] \in Place
      BY <1>2, <2>3 DEF Place
    <3>2. DOMAIN m.prev = Impls /\ m.prev = [x \in Impls |-> m.prev[x]]
      BY <2>1
    <3> QED BY <3>1, <3>2
  <2>7. m.head \in [Services -> Place]
    BY <1>2, <2>1
  <2> QED BY <2>1, <2>2, <2>3, <2>4, <2>5, <2>6, <2>7 DEF ListLinks
<1>8. /\ w \in [Impls -> Services \cup {Null}]
      /\ \A x \in Impls : w[x] = IF x = i THEN Null ELSE v[x]
  BY <1>1
<1> HIDE DEF m, w
<1>9. ASSUME NEW t \in Services, m.head[t] # Null
      PROVE  w[m.head[t]] = t /\ m.prev[m.head[t]] = Null
  <2>1. CASE t = s /\ l.head[s] = i
    <3>1. m.head[t] = n /\ n \in Impls
      BY <1>2, <1>7, <1>9, <2>1 DEF Place
    <3>2. p = Null
      BY <1>1, <2>1 DEF WellLinked, Linked
    <3> QED BY <1>5, <1>6, <1>7, <1>8, <1>9, <2>1, <3>1, <3>2
  <2>2. CASE ~(t = s /\ l.head[s] = i)
    <3>1. m.head[t] = l.head[t] /\ l.head[t] \in Impls
      BY <1>2, <1>7, <1>9, <2>2 DEF Place
    <3>2. v[l.head[t]] = t /\ l.prev[l.head[t]] = Null
      BY <1>9, <3>1 DEF WellLinked, Linked
    <3>3. l.head[t] # i
      BY <2>2, <3>2
    <3>4. l.head[t] # n
      BY <1>1, <1>5, <3>1, <3>2
    <3> QED BY <1>7, <1>8, <3>1, <3>2, <3>3, <3>4
  <2> QED BY <2>1, <2>2
<1>10. ASSUME NEW x \in Impls, w[x] # Null
       PROVE  /\ m.next[x] # Null => w[m.next[x]] = w[x] /\ m.prev[m.next[x]] = x
              /\ m.prev[x] # Null => w[m.prev[x]] = w[x] /\ m.next[m.prev[x]] = x
              /\ m.prev[x] = Null => m.head[w[x]] = x
  <2>1. x # i /\ w[x] = v[x] /\ v[x] # Null /\ v[x] \in Services
    BY <1>1, <1>8, <1>10
  <2>2. /\ l.next[x] # Null => v[l.next[x]] = v[x] /\ l.prev[l.next[x]] = x
        /\ l.prev[x] # Null => v[l.prev[x]] = v[x] /\ l.next[l.prev[x]] = x
        /\ l.prev[x] = Null => l.head[v[x]] = x
        /\ l.next[x] \in Place /\ l.prev[x] \in Place
    BY <1>2, <2>1 DEF WellLinked, Linked
  <2>3. m.next[x] # Null => w[m.next[x]] = v[x] /\ m.prev[m.next[x]] = x
    <3> SUFFICES ASSUME m.next[x] # Null
                 PROVE  w[m.next[x]] = v[x] /\ m.prev[m.next[x]] = x
      OBVIOUS
    <3>1. CASE x = p
      <4>1. m.next[x] = n /\ n \in Impls /\ p # Null
        BY <1>1, <1>2, <1>7, <2>1, <3>1 DEF Place
      <4>2. v[n] = s /\ v[x] = s
        BY <1>5, <3>1, <4>1
      <4>3. w[n] = s /\ m.prev[n] = p
        BY <1>6, <1>7, <1>8, <4>1, <4>2
      <4> QED BY <3>1, <4>1, <4>2, <4>3
    <3>2. CASE x # p
      <4>1. m.next[x] = l.next[x] /\ l.next[x] \in Impls /\ l.next[x] # Null
        BY <1>7, <2>1, <2>2, <3>2 DEF Place
      <4>2. l.next[x] # i
        BY <2>2, <3>2, <4>1
      <4>3. l.next[x] # n
        BY <1>5, <2>1, <2>2, <4>1
      <4>4. w[l.next[x]] = v[x] /\ m.prev[l.next[x]] = l.prev[l.next[x]]
        BY <1>7, <1>8, <2>2, <4>1, <4>2, <4>3
      <4> QED BY <2>2, <4>1, <4>4
    <3> QED BY <3>1, <3>2
  <2>4. /\ m.prev[x] # Null => w[m.prev[x]] = v[x] /\ m.next[m.prev[x]] = x
        /\ m.prev[x] = Null => m.head[v[x]] = x
    <3>1. CASE x = n
      <4>1. m.prev[x] = p /\ n # Null
        BY <1>1, <1>7, <2>1, <3>1
      <4>2. v[x] = s
        BY <1>5, <3>1, <4>1
      <4>3. CASE p = Null
        <5>1. m.head[s] = n
          BY <1>5, <1>7, <4>3
        <5> QED BY <3>1, <4>1, <4>2, <4>3, <5>1
      <4>4. CASE p # Null
        <5>1. p \in Impls /\ v[p] = s
          BY <1>2, <1>5, <4>4 DEF Place
        <5>2. w[p] = s /\ m.next[p] = n
          BY <1>6, <1>7, <1>8, <5>1
        <5> QED BY <3>1, <4>1, <4>2, <4>4, <5>2
      <4> QED BY <4>3, <4>4
    <3>2. CASE x # n
      <4>1. m.prev[x] = l.prev[x]
        BY <1>7, <2>1, <3>2
      <4>2. CASE l.prev[x] = Null
        <5>1. l.head[v[x]] = x /\ m.head[v[x]] = l.head[v[x]]
          BY <1>7, <2>1, <2>2, <4>2
        <5> QED BY <4>1, <4>2, <5>1
      <4>3. CASE l.prev[x] # Null
        <5>1. l.prev[x] \in Impls /\ l.prev[x] # i
          BY <2>2, <3>2, <4>3 DEF Place
        <5>2. l.prev[x] # p
          BY <1>5, <2>1, <2>2, <4>3
        <5>3. w[l.prev[x]] = v[x] /\ m.next[l.prev[x]] = l.next[l.prev[x]]
          BY <1>7, <1>8, <2>2, <4>3, <5>1, <5>2
        <5> QED BY <2>2, <4>1, <4>3, <5>3
      <4> QED BY <4>2, <4>3
    <3> QED BY <3>1, <3>2
  <2> QED BY <2>1, <2>3, <2>4
<1>11. Linked(m, w)
  BY <1>9, <1>10 DEF Linked
<1>12. Numbered(m, w)
  <2>1. ASSUME NEW x \in Impls, w[x] # Null, m.next[x] # Null
        PROVE  rank[m.next[x]] < rank[x]
    <3>1. x # i /\ v[x] # Null
      BY <1>8, <2>1
    <3>2. CASE x = p
      <4>1. m.next[x] = n /\ n # Null /\ l.next[p] = i /\ n \in Impls
        BY <1>1, <1>2, <1>5, <1>7, <2>1, <3>1, <3>2 DEF Place
      <4>2. rank[n] < rank[i]
        BY <1>1, <1>4, <4>1 DEF Falls
      <4>3. rank[i] < rank[p]
        BY <1>1, <1>4, <3>1, <3>2, <4>1 DEF Falls
      <4>4. rank[n] \in 0..r /\ rank[i] \in 0..r /\ rank[p] \in 0..r
        BY <1>4, <3>2, <4>1
      <4> QED BY <1>3, <3>2, <4>1, <4>2, <4>3, <4>4
    <3>3. CASE x # p
      <4>1. m.next[x] = l.next[x]
        BY <1>7, <3>1, <3>3
      <4> QED BY <1>4, <2>1, <3>1, <4>1 DEF Falls
    <3> QED BY <3>2, <3>3
  <2> QED BY <1>3, <1>4, <2>1 DEF Numbered, Falls
<1> QED BY <1>7, <1>8, <1>11, <1>12 DEF WellLinked, m, w

-----------------------------------------------------------------------------
(* What base_shutdown visits. *)

Steps == Cardinality(Impls)

LEMMA StepsType == Steps \in Nat
BY FiniteAssumption, FS_CardinalityType DEF Steps

\* The walk is defined by its recursion: it starts at the head and follows
\* next_ until there is none.
LEMMA WalkUnfolds ==
  ASSUME links \in ListLinks, NEW s \in Services
  PROVE  /\ Walk(s) \in [0..Steps -> Place]
         /\ Walk(s)[0] = links.head[s]
         /\ \A k \in 0..Steps : k # 0 =>
              Walk(s)[k] = IF Walk(s)[k - 1] = Null THEN Null
                           ELSE links.next[Walk(s)[k - 1]]
<1> USE StepsType
<1>0. /\ links.head[s] \in Place /\ Null \in Place
      /\ \A x \in Place : (IF x = Null THEN Null ELSE links.next[x]) \in Place
  BY NullAssumption DEF ListLinks, Place
<1> DEFINE Go(x) == IF x = Null THEN Null ELSE links.next[x]
           R(f, n) == \A k \in 0..n : f[k] = IF k = 0 THEN links.head[s] ELSE Go(f[k - 1])
           S == {n \in Nat : \E f \in [0..n -> Place] : R(f, n)}
<1>a. \A x \in Place : Go(x) \in Place
  BY <1>0
<1> HIDE DEF Go
<1>1. 0 \in S
  <2> DEFINE f == [k \in 0..0 |-> links.head[s]]
  <2>1. \A k \in 0..0 : k = 0
    OBVIOUS
  <2>2. f \in [0..0 -> Place] /\ \A k \in 0..0 : f[k] = links.head[s]
    BY <1>0
  <2> HIDE DEF f
  <2>3. R(f, 0)
    BY <2>1, <2>2
  <2> QED BY <2>2, <2>3
<1>2. ASSUME NEW n \in S PROVE n + 1 \in S
  <2>0. n \in Nat /\ n + 1 \in Nat
    OBVIOUS
  <2>1. PICK f \in [0..n -> Place] : R(f, n)
    BY <1>2
  <2> DEFINE g == [k \in 0..(n + 1) |-> IF k = n + 1 THEN Go(f[n]) ELSE f[k]]
  <2>3. g \in [0..(n + 1) -> Place]
    <3>1. f[n] \in Place /\ \A k \in 0..(n + 1) : k # n + 1 => k \in 0..n
      BY <2>0
    <3> QED BY <1>a, <2>0, <3>1
  <2>4. ASSUME NEW k \in 0..(n + 1)
        PROVE  g[k] = IF k = 0 THEN links.head[s] ELSE Go(g[k - 1])
    <3>1. CASE k = n + 1
      <4>1. n \in 0..(n + 1) /\ n # n + 1 /\ n + 1 \in 0..(n + 1)
        BY <2>0
      <4>2. g[n] = f[n] /\ g[n + 1] = Go(f[n])
        BY <2>0, <4>1
      <4>3. k # 0 /\ k - 1 = n
        BY <2>0, <3>1
      <4> HIDE DEF g
      <4> QED BY <3>1, <4>2, <4>3
    <3>2. CASE k # n + 1
      <4>1. k \in 0..n /\ (k # 0 => k - 1 \in 0..n /\ k - 1 # n + 1 /\ k - 1 \in 0..(n + 1))
        BY <2>0, <3>2
      <4>2. g[k] = f[k] /\ (k # 0 => g[k - 1] = f[k - 1])
        BY <3>2, <4>1
      <4>3. f[k] = IF k = 0 THEN links.head[s] ELSE Go(f[k - 1])
        BY <2>1, <4>1
      <4> HIDE DEF g
      <4> QED BY <4>2, <4>3
    <3> QED BY <3>1, <3>2
  <2> HIDE DEF g
  <2>5. R(g, n + 1)
    BY <2>4
  <2> QED BY <2>0, <2>3, <2>5
<1>3. S = Nat
  <2> HIDE DEF S
  <2>1. S \subseteq Nat
    BY DEF S
  <2> QED BY <1>1, <1>2, <2>1, SetInduction
<1>4. PICK f \in [0..Steps -> Place] : R(f, Steps)
  BY <1>3
<1> DEFINE at == CHOOSE h : h = [k \in 0..Steps |-> IF k = 0 THEN links.head[s]
                                                   ELSE Go(h[k - 1])]
<1>5. f = [k \in 0..Steps |-> IF k = 0 THEN links.head[s] ELSE Go(f[k - 1])]
  BY <1>4
<1>6. at = [k \in 0..Steps |-> IF k = 0 THEN links.head[s] ELSE Go(at[k - 1])]
  BY <1>5
<1>7. Walk(s) = at
  BY DEF Walk, Steps, Go
<1> HIDE DEF at
<1>8. \A k \in 0..Steps : at[k] = IF k = 0 THEN links.head[s] ELSE Go(at[k - 1])
  BY <1>6
<1>9. \A k \in Nat : k <= Steps => at[k] \in Place
  <2> DEFINE V == {k \in Nat : k <= Steps => at[k] \in Place}
  <2>1. 0 \in V
    BY <1>0, <1>8
  <2>2. ASSUME NEW k \in V PROVE k + 1 \in V
    <3> SUFFICES ASSUME k + 1 <= Steps PROVE at[k + 1] \in Place
      OBVIOUS
    <3>1. k + 1 \in 0..Steps /\ k + 1 # 0 /\ (k + 1) - 1 = k /\ at[k] \in Place
      OBVIOUS
    <3>2. at[k + 1] = Go(at[k])
      BY <1>8, <3>1
    <3> QED BY <1>a, <3>1, <3>2
  <2>3. V = Nat
    <3> HIDE DEF V
    <3>1. V \subseteq Nat
      BY DEF V
    <3> QED BY <2>1, <2>2, <3>1, SetInduction
  <2> QED BY <2>3
<1>10. at \in [0..Steps -> Place]
  BY <1>6, <1>9
<1>11. at[0] = links.head[s] /\ \A k \in 0..Steps : k # 0 => at[k] = Go(at[k - 1])
  BY <1>8
<1> QED BY <1>7, <1>10, <1>11 DEF Go

\* One step of the walk.
LEMMA WalkStep ==
  ASSUME links \in ListLinks, NEW s \in Services, NEW k \in Nat, k + 1 <= Steps
  PROVE  /\ k \in 0..Steps /\ k + 1 \in 0..Steps
         /\ Walk(s)[k] \in Place
         /\ Walk(s)[k] = Null => Walk(s)[k + 1] = Null
         /\ Walk(s)[k] # Null => Walk(s)[k + 1] = links.next[Walk(s)[k]]
<1>1. k \in 0..Steps /\ k + 1 \in 0..Steps /\ k + 1 # 0 /\ (k + 1) - 1 = k
  BY StepsType
<1>2. Walk(s)[k + 1] = IF Walk(s)[k] = Null THEN Null ELSE links.next[Walk(s)[k]]
  BY <1>1, WalkUnfolds
<1>3. Walk(s)[k] \in Place
  BY <1>1, WalkUnfolds
<1> QED BY <1>1, <1>2, <1>3

\* It visits objects of its service only.
LEMMA WalkStays ==
  ASSUME WellLinked(links, svc), NEW s \in Services
  PROVE  \A k \in 0..Steps : Walk(s)[k] # Null => Walk(s)[k] \in Impls /\ svc[Walk(s)[k]] = s
<1>0. links \in ListLinks
  BY DEF WellLinked
<1> DEFINE at == Walk(s)
           V == {k \in Nat : k <= Steps /\ at[k] # Null => at[k] \in Impls /\ svc[at[k]] = s}
<1>1. at \in [0..Steps -> Place] /\ at[0] = links.head[s]
  BY <1>0, WalkUnfolds
<1>2. \A k \in Nat : k + 1 <= Steps =>
        /\ at[k] = Null => at[k + 1] = Null
        /\ at[k] # Null => at[k + 1] = links.next[at[k]]
  BY <1>0, WalkStep
<1> HIDE DEF at
<1>3. 0 \in V
  <2> SUFFICES ASSUME at[0] # Null PROVE at[0] \in Impls /\ svc[at[0]] = s
    OBVIOUS
  <2>1. 0 \in 0..Steps
    BY StepsType
  <2> QED BY <1>1, <2>1 DEF WellLinked, Linked, Place
<1>4. ASSUME NEW k \in V PROVE k + 1 \in V
  <2> SUFFICES ASSUME k + 1 <= Steps, at[k + 1] # Null
               PROVE  at[k + 1] \in Impls /\ svc[at[k + 1]] = s
    OBVIOUS
  <2>1. k + 1 \in 0..Steps /\ k <= Steps /\ k \in Nat
    BY StepsType
  <2>2. at[k] # Null /\ at[k + 1] = links.next[at[k]] /\ at[k + 1] \in Place
    BY <1>1, <1>2, <2>1
  <2>3. at[k] \in Impls /\ svc[at[k]] = s
    BY <2>1, <2>2
  <2>4. s # Null
    BY NullAssumption
  <2> QED BY <2>2, <2>3, <2>4 DEF WellLinked, Linked, Place
<1>5. V = Nat
  <2> HIDE DEF V
  <2>1. V \subseteq Nat
    BY DEF V
  <2> QED BY <1>3, <1>4, <2>1, SetInduction
<1>6. \A k \in 0..Steps : k \in V /\ k <= Steps
  BY <1>5, StepsType
<1> QED BY <1>6 DEF at

\* It ends: the numbering falls at every step, so no object is visited twice,
\* and there are no more objects than steps.
LEMMA WalkEnds ==
  ASSUME WellLinked(links, svc), NEW s \in Services
  PROVE  Walk(s)[Steps] = Null
<1> SUFFICES ASSUME Walk(s)[Steps] # Null PROVE FALSE
  OBVIOUS
<1>0. links \in ListLinks
  BY DEF WellLinked
<1> DEFINE at == Walk(s)
<1>1. at \in [0..Steps -> Place] /\ Steps \in Nat
  BY <1>0, WalkUnfolds, StepsType
<1>2. \A k \in Nat : k + 1 <= Steps =>
        /\ at[k] = Null => at[k + 1] = Null
        /\ at[k] # Null => at[k + 1] = links.next[at[k]]
  BY <1>0, WalkStep
<1>3. \A k \in 0..Steps : at[k] # Null => at[k] \in Impls /\ svc[at[k]] = s
  BY WalkStays
<1>3a. at[Steps] # Null
  OBVIOUS
<1> HIDE DEF at
<1>4. ASSUME NEW k \in 0..Steps PROVE at[k] # Null
  <2> SUFFICES ASSUME at[k] = Null PROVE FALSE
    OBVIOUS
  <2> DEFINE V == {d \in Nat : k + d <= Steps => at[k + d] = Null}
  <2>1. 0 \in V
    OBVIOUS
  <2>2. ASSUME NEW d \in V PROVE d + 1 \in V
    <3> SUFFICES ASSUME k + (d + 1) <= Steps PROVE at[k + (d + 1)] = Null
      OBVIOUS
    <3>1. k + d \in Nat /\ (k + d) + 1 = k + (d + 1) /\ k + d <= Steps
      BY <1>1
    <3>2. at[k + d] = Null
      BY <3>1
    <3> QED BY <1>2, <3>1, <3>2
  <2>3. V = Nat
    <3> HIDE DEF V
    <3>1. V \subseteq Nat
      BY DEF V
    <3> QED BY <2>1, <2>2, <3>1, SetInduction
  <2>4. Steps - k \in Nat /\ k + (Steps - k) = Steps
    BY <1>1
  <2>5. Steps - k \in V
    BY <2>3, <2>4
  <2> QED BY <1>1, <1>3a, <2>4, <2>5
<1>5. PICK r \in Nat : \E rank \in [Impls -> 0..r] : Falls(links, svc, rank)
  BY DEF WellLinked, Numbered
<1>6. PICK rank \in [Impls -> 0..r] : Falls(links, svc, rank)
  BY <1>5
<1>7. ASSUME NEW k \in Nat, k + 1 <= Steps PROVE rank[at[k + 1]] < rank[at[k]]
  <2>1. k \in 0..Steps /\ k + 1 \in 0..Steps
    BY <1>1, <1>7
  <2>2. at[k] \in Impls /\ svc[at[k]] # Null /\ at[k + 1] = links.next[at[k]] /\ at[k + 1] # Null
    BY <1>2, <1>3, <1>4, <1>7, <2>1, NullAssumption
  <2> QED BY <1>6, <2>2 DEF Falls
<1>8. ASSUME NEW k \in 0..Steps PROVE at[k] \in Impls /\ rank[at[k]] \in Nat
  <2>1. at[k] \in Impls
    BY <1>3, <1>4
  <2> QED BY <1>5, <1>6, <2>1
<1>9. ASSUME NEW j \in 0..Steps, NEW k \in 0..Steps, j < k
      PROVE  rank[at[k]] < rank[at[j]]
  <2> DEFINE V == {d \in Nat : (j + 1) + d <= Steps => rank[at[(j + 1) + d]] < rank[at[j]]}
  <2>1. 0 \in V
    <3> SUFFICES ASSUME j + 1 <= Steps PROVE rank[at[j + 1]] < rank[at[j]]
      BY <1>1
    <3> QED BY <1>1, <1>7
  <2>2. ASSUME NEW d \in V PROVE d + 1 \in V
    <3> SUFFICES ASSUME (j + 1) + (d + 1) <= Steps
                 PROVE  rank[at[(j + 1) + (d + 1)]] < rank[at[j]]
      OBVIOUS
    <3> DEFINE q == (j + 1) + d
    <3>1. q \in Nat /\ q + 1 = (j + 1) + (d + 1) /\ q + 1 <= Steps /\ q \in 0..Steps
          /\ q + 1 \in 0..Steps
      BY <1>1
    <3>2. rank[at[q]] < rank[at[j]]
      BY <1>1, <3>1
    <3> HIDE DEF q
    <3>3. rank[at[q + 1]] < rank[at[q]]
      BY <1>7, <3>1
    <3>4. rank[at[q + 1]] \in Nat /\ rank[at[q]] \in Nat /\ rank[at[j]] \in Nat
      BY <1>8, <3>1
    <3>5. rank[at[q + 1]] < rank[at[j]]
      BY <3>2, <3>3, <3>4
    <3> QED BY <3>1, <3>5
  <2>3. V = Nat
    <3> HIDE DEF V
    <3>1. V \subseteq Nat
      BY DEF V
    <3> QED BY <2>1, <2>2, <3>1, SetInduction
  <2>4. k - (j + 1) \in Nat /\ (j + 1) + (k - (j + 1)) = k /\ k <= Steps
    BY <1>1, <1>9
  <2>5. k - (j + 1) \in V
    BY <2>3, <2>4
  <2> QED BY <2>4, <2>5
<1>10. at \in [0..Steps -> Impls]
  BY <1>1, <1>8
<1>11. IsFiniteSet(0..Steps) /\ Cardinality(0..Steps) = Steps + 1
  <2>1. 0 \in Int /\ Steps \in Int /\ ~(0 > Steps) /\ (Steps - 0) + 1 = Steps + 1
    BY <1>1
  <2> QED BY <2>1, FS_Interval
<1>12. IsFiniteSet(Impls) /\ Cardinality(Impls) < Cardinality(0..Steps)
  BY <1>1, <1>11, FiniteAssumption DEF Steps
<1>13. PICK j \in 0..Steps, k \in 0..Steps : j # k /\ at[j] = at[k]
  BY <1>10, <1>11, <1>12, FS_PigeonHole
<1>14. j < k \/ k < j
  BY <1>1, <1>13
<1>15. rank[at[j]] < rank[at[j]]
  BY <1>9, <1>13, <1>14
<1>16. rank[at[j]] \in Nat
  BY <1>8
<1> QED BY <1>15, <1>16

\* It reaches every object of its service: of those it missed, the one that
\* is numbered highest has a predecessor that was visited.
LEMMA WalkReaches ==
  ASSUME WellLinked(links, svc), NEW s \in Services, NEW i \in Impls, svc[i] = s
  PROVE  i \in Listed(s)
<1>0. links \in ListLinks /\ s # Null
  BY NullAssumption DEF WellLinked
<1> DEFINE at == Walk(s)
           Missed == {x \in Impls : svc[x] = s /\ x \notin Listed(s)}
<1> SUFFICES ASSUME Missed # {} PROVE FALSE
  OBVIOUS
<1>1. at \in [0..Steps -> Place] /\ at[0] = links.head[s] /\ Steps \in Nat
  BY <1>0, WalkUnfolds, StepsType
<1>2. \A x \in Impls : x \in Listed(s) <=> \E k \in 0..Steps : at[k] = x
  BY DEF Listed, Steps
<1>3. at[Steps] = Null
  BY WalkEnds
<1>4. \A k \in Nat : k + 1 <= Steps /\ at[k] # Null => at[k + 1] = links.next[at[k]]
  BY <1>0, WalkStep
<1>5. PICK r \in Nat : \E rank \in [Impls -> 0..r] : Falls(links, svc, rank)
  BY DEF WellLinked, Numbered
<1>6. PICK rank \in [Impls -> 0..r] : Falls(links, svc, rank)
  BY <1>5
<1> HIDE DEF at
<1>7. \A x \in Impls : rank[x] \in Nat /\ r - rank[x] \in Nat
  BY <1>5, <1>6
<1>8. PICK x \in Missed : \A y \in Missed : r - rank[x] <= r - rank[y]
  <2> DEFINE G == {r - rank[y] : y \in Missed}
  <2>1. G \subseteq Nat /\ G # {}
    BY <1>7
  <2>2. PICK m \in G : \A g \in G : m <= g
    <3> HIDE DEF G
    <3> QED BY <2>1, LeastElement
  <2>3. PICK y \in Missed : m = r - rank[y]
    OBVIOUS
  <2>4. \A z \in Missed : r - rank[z] \in G
    OBVIOUS
  <2> HIDE DEF G, Missed
  <2> QED BY <2>2, <2>3, <2>4
<1>9. x \in Impls /\ svc[x] = s /\ x \notin Listed(s)
  BY <1>8
<1>10. /\ links.prev[x] \in Place
       /\ links.prev[x] # Null => svc[links.prev[x]] = s /\ links.next[links.prev[x]] = x
       /\ links.prev[x] = Null => links.head[s] = x
  BY <1>0, <1>9 DEF WellLinked, Linked, ListLinks
<1>11. links.prev[x] # Null
  <2> SUFFICES ASSUME links.prev[x] = Null PROVE FALSE
    OBVIOUS
  <2>1. at[0] = x /\ 0 \in 0..Steps
    BY <1>1, <1>10
  <2> QED BY <1>2, <1>9, <2>1
<1> DEFINE p == links.prev[x]
<1>12. p \in Impls /\ svc[p] = s /\ links.next[p] = x /\ p # Null /\ x # Null
  BY <1>9, <1>10, <1>11, NullAssumption DEF Place
<1> HIDE DEF p
<1>13. rank[x] < rank[p]
  BY <1>0, <1>6, <1>12 DEF Falls
<1>14. p \in Listed(s)
  <2> SUFFICES ASSUME p \notin Listed(s) PROVE FALSE
    OBVIOUS
  <2>1. p \in Missed
    BY <1>12
  <2>2. r - rank[x] <= r - rank[p]
    BY <1>8, <2>1
  <2>3. rank[x] \in Nat /\ rank[p] \in Nat
    BY <1>7, <1>9, <1>12
  <2> HIDE DEF Missed
  <2> QED BY <1>5, <1>13, <2>2, <2>3
<1>15. PICK k \in 0..Steps : at[k] = p
  BY <1>2, <1>12, <1>14
<1>16. k # Steps
  BY <1>3, <1>12, <1>15
<1>17. k \in Nat /\ k + 1 <= Steps /\ k + 1 \in 0..Steps
  BY <1>1, <1>16
<1>18. at[k + 1] = x
  BY <1>4, <1>12, <1>15, <1>17
<1> QED BY <1>2, <1>9, <1>17, <1>18

\* So it visits the objects of its service and no others.
LEMMA ListedIsOwned ==
  ASSUME WellLinked(links, svc), NEW s \in Services
  PROVE  Listed(s) = {i \in Impls : svc[i] = s}
<1>1. ASSUME NEW i \in Listed(s) PROVE i \in Impls /\ svc[i] = s
  <2>1. i \in Impls /\ \E k \in 0..Steps : Walk(s)[k] = i
    BY <1>1 DEF Listed, Steps
  <2>2. PICK k \in 0..Steps : Walk(s)[k] = i
    BY <2>1
  <2>3. Walk(s)[k] # Null
    BY <2>1, <2>2, NullAssumption
  <2>4. svc[Walk(s)[k]] = s
    BY <2>3, WalkStays
  <2> QED BY <2>1, <2>2, <2>4
<1>2. ASSUME NEW i \in Impls, svc[i] = s PROVE i \in Listed(s)
  BY <1>2, WalkReaches
<1> QED BY <1>1, <1>2

LEMMA WellLinkedIsExact == WellLinked(links, svc) => ListsAreExact
<1> SUFFICES ASSUME WellLinked(links, svc), NEW s \in Services
             PROVE  /\ Walk(s)[Cardinality(Impls)] = Null
                    /\ Listed(s) = {i \in Impls : svc[i] = s}
                    /\ \A i \in Listed(s) :
                         links.prev[i] = IF links.head[s] = i THEN Null
                                         ELSE CHOOSE p \in Listed(s) : links.next[p] = i
  BY DEF ListsAreExact
<1>0. links \in ListLinks /\ s # Null /\ Null \notin Impls
  BY NullAssumption DEF WellLinked
<1>1. Walk(s)[Cardinality(Impls)] = Null
  BY WalkEnds DEF Steps
<1>2. Listed(s) = {i \in Impls : svc[i] = s}
  BY ListedIsOwned
<1>3. ASSUME NEW i \in Listed(s)
      PROVE  links.prev[i] = IF links.head[s] = i THEN Null
                             ELSE CHOOSE p \in Listed(s) : links.next[p] = i
  <2>1. i \in Impls /\ svc[i] = s /\ i # Null
    BY <1>0, <1>2, <1>3
  <2>2. /\ links.prev[i] \in Place
        /\ links.prev[i] # Null => svc[links.prev[i]] = s /\ links.next[links.prev[i]] = i
        /\ links.prev[i] = Null => links.head[s] = i
    BY <1>0, <2>1 DEF WellLinked, Linked, ListLinks
  <2>3. CASE links.head[s] = i
    BY <2>1, <2>3 DEF WellLinked, Linked
  <2>4. CASE links.head[s] # i
    <3>1. links.prev[i] \in Listed(s) /\ links.next[links.prev[i]] = i
      BY <1>2, <2>2, <2>4 DEF Place
    <3>2. ASSUME NEW q \in Listed(s), links.next[q] = i PROVE q = links.prev[i]
      <4>1. q \in Impls /\ svc[q] = s
        BY <1>2, <3>2
      <4> QED BY <1>0, <2>1, <3>2, <4>1 DEF WellLinked, Linked
    <3>3. links.prev[i] = CHOOSE p \in Listed(s) : links.next[p] = i
      BY <3>1, <3>2
    <3> QED BY <2>4, <3>3
  <2> QED BY <2>3, <2>4
<1> QED BY <1>1, <1>2, <1>3
-----------------------------------------------------------------------------
(* The lists through the operations of the services. *)

\* The inductive invariant: the links are right, and an object of a service
\* that is down holds nothing.
ListInv ==
  /\ HolderInv
  /\ WellLinked(links, svc)
  /\ \A i \in Impls : svc[i] \in down => native[i] = Null
  /\ down \subseteq Services

LEMMA InitList == Init => ListInv
<1> SUFFICES ASSUME Init PROVE ListInv
  OBVIOUS
<1>1. HolderInv
  BY InitHolder
<1>2. /\ \A s \in Services : links.head[s] = Null
      /\ \A i \in Impls : svc[i] = Null
      /\ svc \in [Impls -> Services \cup {Null}]
      /\ links \in ListLinks
  BY DEF Init, ListLinks, Place
<1>3. Linked(links, svc)
  BY <1>2 DEF Linked
<1>4. Numbered(links, svc)
  <2> DEFINE rank == [i \in Impls |-> 0]
  <2>1. rank \in [Impls -> 0..0]
    OBVIOUS
  <2>2. Falls(links, svc, rank)
    BY <1>2 DEF Falls
  <2>3. 0 \in Nat
    OBVIOUS
  <2> HIDE DEF rank
  <2> QED BY <2>1, <2>2, <2>3 DEF Numbered
<1>5. down = {}
  BY DEF Init
<1> QED BY <1>1, <1>2, <1>3, <1>4, <1>5 DEF ListInv, WellLinked

\* Every step keeps it, where objects are moved within their io_context.
LEMMA NextList ==
  ASSUME CrossMove = FALSE
  PROVE  ListInv /\ [Next]_vars => ListInv'
<1> SUFFICES ASSUME ListInv, [Next]_vars PROVE ListInv'
  OBVIOUS
<1>0. HolderInv'
  BY NextHolder DEF ListInv
<1>a. /\ Null \notin Services /\ down \subseteq Services
      /\ svc \in [Impls -> Services \cup {Null}]
      /\ native \in [Impls -> Natives \cup {Null}]
      /\ WellLinked(links, svc)
      /\ \A i \in Impls : svc[i] \in down => native[i] = Null
  BY NullAssumption DEF ListInv, HolderInv, HolderTypes
<1> SUFFICES /\ WellLinked(links', svc')
             /\ \A i \in Impls : svc'[i] \in down' => native'[i] = Null
             /\ down' \subseteq Services
  BY <1>0 DEF ListInv, WellLinked, Linked, Numbered, Falls
<1> DEFINE Goal == /\ WellLinked(links', svc')
                   /\ \A i \in Impls : svc'[i] \in down' => native'[i] = Null
                   /\ down' \subseteq Services
<1>1. CASE UNCHANGED vars
  BY <1>1, <1>a DEF vars
<1>2. ASSUME NEW i \in Impls, NEW s \in Services, Construct(i, s) PROVE Goal
  <2>1. /\ svc[i] = Null /\ svc' = [svc EXCEPT ![i] = s] /\ links' = DoInsert(links, s, i)
        /\ native' = [native EXCEPT ![i] = Null] /\ down' = down
    BY <1>2 DEF Construct
  <2>2. WellLinked(DoInsert(links, s, i), [svc EXCEPT ![i] = s])
    BY <1>a, <2>1, InsertKeeps
  <2>3. WellLinked(links', svc')
    BY <2>1, <2>2
  <2>4. \A k \in Impls : svc'[k] \in down' => native'[k] = Null
    BY <1>a, <2>1
  <2> QED BY <1>a, <2>1, <2>3, <2>4
<1>3. ASSUME NEW i \in Impls, NEW j \in Impls, MoveConstruct(i, j) PROVE Goal
  <2>1. /\ svc[i] = Null /\ svc' = [svc EXCEPT ![i] = svc[j]]
        /\ links' = DoInsert(links, svc[j], i)
        /\ native' = HandOver(i, j) /\ down' = down
        /\ svc[j] \in Services /\ i # j
    BY <1>3, <1>a DEF MoveConstruct
  <2>2. WellLinked(DoInsert(links, svc[j], i), [svc EXCEPT ![i] = svc[j]])
    BY <1>a, <2>1, InsertKeeps
  <2>3. WellLinked(links', svc')
    BY <2>1, <2>2
  <2>4. \A k \in Impls : svc'[k] \in down' => native'[k] = Null
    <3> SUFFICES ASSUME NEW k \in Impls, svc'[k] \in down PROVE native'[k] = Null
      BY <2>1
    <3>1. CASE k = i
      <4>1. svc[j] \in down
        BY <1>a, <2>1, <3>1
      <4>2. native[j] = Null
        BY <1>a, <4>1
      <4> QED BY <1>a, <2>1, <3>1, <4>2 DEF HandOver
    <3>2. CASE k # i
      <4>1. svc[k] \in down
        BY <1>a, <2>1, <3>2
      <4>2. native[k] = Null
        BY <1>a, <4>1
      <4> QED BY <1>a, <2>1, <3>2, <4>2 DEF HandOver
    <3> QED BY <3>1, <3>2
  <2> QED BY <1>a, <2>1, <2>3, <2>4
<1>4. ASSUME NEW i \in Impls, NEW j \in Impls, MoveAssign(i, j) PROVE Goal
  <2>1. /\ svc[i] = svc[j] /\ svc' = [svc EXCEPT ![i] = svc[j]]
        /\ native' = HandOver(i, j) /\ down' = down
        /\ svc[i] \in Services /\ i # j
        /\ links' = IF backend = "ibv" THEN links
                    ELSE DoInsert(DoRemove(links, svc[i], i), svc[i], i)
    BY <1>4, <1>a DEF MoveAssign
  <2>2. svc' = svc
    BY <1>a, <2>1
  <2>3. WellLinked(links', svc')
    <3>1. CASE backend = "ibv"
      BY <1>a, <2>1, <2>2, <3>1
    <3>2. CASE backend # "ibv"
      <4> DEFINE l == DoRemove(links, svc[i], i)
                 v == [svc EXCEPT ![i] = Null]
      <4>1. WellLinked(l, v)
        BY <1>a, <2>1, RemoveKeeps
      <4>2. v[i] = Null /\ [v EXCEPT ![i] = svc[i]] = svc
        BY <1>a
      <4>3. links' = DoInsert(l, svc[i], i)
        BY <2>1, <3>2
      <4> HIDE DEF l, v
      <4>4. WellLinked(DoInsert(l, svc[i], i), [v EXCEPT ![i] = svc[i]])
        BY <2>1, <4>1, <4>2, InsertKeeps
      <4> QED BY <2>2, <4>2, <4>3, <4>4
    <3> QED BY <3>1, <3>2
  <2>4. \A k \in Impls : svc'[k] \in down' => native'[k] = Null
    <3> SUFFICES ASSUME NEW k \in Impls, svc[k] \in down PROVE native'[k] = Null
      BY <2>1, <2>2
    <3>1. native[k] = Null
      BY <1>a
    <3>2. k = i => native[j] = Null
      BY <1>a, <2>1
    <3> QED BY <1>a, <2>1, <3>1, <3>2 DEF HandOver
  <2> QED BY <1>a, <2>1, <2>3, <2>4
<1>5. ASSUME NEW i \in Impls, Destroy(i) PROVE Goal
  <2>1. /\ svc[i] \in Services /\ svc' = [svc EXCEPT ![i] = Null]
        /\ links' = DoRemove(links, svc[i], i)
        /\ native' = [native EXCEPT ![i] = Null] /\ down' = down
    BY <1>5, <1>a DEF Destroy
  <2>2. WellLinked(DoRemove(links, svc[i], i), [svc EXCEPT ![i] = Null])
    BY <1>a, <2>1, RemoveKeeps
  <2>3. WellLinked(links', svc')
    BY <2>1, <2>2
  <2>4. \A k \in Impls : svc'[k] \in down' => native'[k] = Null
    BY <1>a, <2>1
  <2> QED BY <1>a, <2>1, <2>3, <2>4
<1>6. ASSUME NEW i \in Impls, NEW n \in Natives, Open(i, n) PROVE Goal
  <2>1. /\ svc[i] \notin down /\ native' = [native EXCEPT ![i] = n]
        /\ svc' = svc /\ links' = links /\ down' = down
    BY <1>6 DEF Open, Live
  <2> QED BY <1>a, <2>1
<1>7. ASSUME NEW i \in Impls, Use(i) PROVE Goal
  BY <1>7, <1>a DEF Use
<1>8. ASSUME NEW s \in Services, Shutdown(s) PROVE Goal
  <2>1. /\ down' = down \cup {s} /\ svc' = svc /\ links' = links
        /\ native' = [k \in Impls |-> IF k \in Visited(s) THEN Null ELSE native[k]]
    BY <1>8 DEF Shutdown
  <2>2. Visited(s) = {k \in Impls : svc[k] = s}
    BY <1>a, ListedIsOwned DEF Visited
  <2>3. \A k \in Impls : svc'[k] \in down' => native'[k] = Null
    BY <1>a, <2>1, <2>2
  <2> QED BY <1>a, <2>1, <2>3
<1> QED BY <1>1, <1>2, <1>3, <1>4, <1>5, <1>6, <1>7, <1>8 DEF Next

\* impl_list_ of a service is the list of its live objects, each once and
\* linked both ways, for any number of objects and services, where objects are
\* moved within their io_context.
THEOREM ListsExact ==
  ASSUME CrossMove = FALSE
  PROVE  Spec => []ListsAreExact
<1>1. ListInv => ListsAreExact
  BY WellLinkedIsExact DEF ListInv
<1>2. ListInv /\ [Next]_vars => ListInv'
  BY NextList
<1> QED BY InitList, <1>1, <1>2, PTL DEF Spec

\* Every open native handle has exactly one object, of a service that is up:
\* base_shutdown, which follows the links, closes all that its service has.
THEOREM OneHolderEach ==
  ASSUME CrossMove = FALSE
  PROVE  Spec => []OneHolder
<1>1. ListInv => OneHolder
  BY HolderImpliesHeldOnce DEF ListInv, OneHolder
<1>2. ListInv /\ [Next]_vars => ListInv'
  BY NextList
<1> QED BY InitList, <1>1, <1>2, PTL DEF Spec

-----------------------------------------------------------------------------
(* Types. *)

\* The links stay addresses or null also where CASE arms overlap, which they
\* do only after a move across io_contexts.
LEMMA LinksTyped ==
  ASSUME NEW l \in ListLinks, NEW s \in Services, NEW i \in Impls
  PROVE  DoInsert(l, s, i) \in ListLinks /\ DoRemove(l, s, i) \in ListLinks
<1>1. /\ l.head \in [Services -> Place] /\ l.next \in [Impls -> Place]
      /\ l.prev \in [Impls -> Place] /\ i \in Place /\ Null \in Place
  BY DEF ListLinks, Place
<1>2. l.head[s] \in Place /\ l.next[i] \in Place /\ l.prev[i] \in Place
  BY <1>1
<1>3. ASSUME NEW a \in Impls, NEW x, NEW y \in Place, NEW z \in Place,
             NEW f \in [Impls -> Place], NEW b
      PROVE  (CASE a = x -> y [] a = b -> z [] OTHER -> f[a]) \in Place
  BY <1>3
<1>4. DoInsert(l, s, i) \in ListLinks
  <2>1. [l.head EXCEPT ![s] = i] \in [Services -> Place]
    BY <1>1
  <2>2. [l.next EXCEPT ![i] = l.head[s]] \in [Impls -> Place]
    BY <1>1, <1>2
  <2>3. [x \in Impls |-> CASE x = l.head[s] -> i
                           [] x = i -> Null
                           [] OTHER -> l.prev[x]] \in [Impls -> Place]
    BY <1>1, <1>3
  <2> QED BY <2>1, <2>2, <2>3 DEF DoInsert, ListLinks
<1>5. DoRemove(l, s, i) \in ListLinks
  <2>1. [l.head EXCEPT ![s] = IF @ = i THEN l.next[i] ELSE @] \in [Services -> Place]
    BY <1>1, <1>2
  <2>2. [x \in Impls |-> CASE x = i -> Null
                           [] x = l.prev[i] -> l.next[i]
                           [] OTHER -> l.next[x]] \in [Impls -> Place]
    BY <1>1, <1>2, <1>3
  <2>3. [x \in Impls |-> CASE x = i -> Null
                           [] x = l.next[i] -> l.prev[i]
                           [] OTHER -> l.prev[x]] \in [Impls -> Place]
    BY <1>1, <1>2, <1>3
  <2> QED BY <2>1, <2>2, <2>3 DEF DoRemove, ListLinks
<1> QED BY <1>4, <1>5

TypeInv ==
  /\ StateInv
  /\ backend \in {"ibv", "nd"}
  /\ down \subseteq Services
  /\ links \in ListLinks

LEMMA NextType == TypeInv /\ [Next]_vars => TypeInv'
<1> SUFFICES ASSUME TypeInv, [Next]_vars PROVE TypeInv'
  OBVIOUS
<1>0. StateInv'
  BY NextState DEF TypeInv
<1>1. /\ backend' = backend
      /\ down' = down \/ \E s \in Services : down' = down \cup {s}
  BY DEF Next, vars, Construct, MoveConstruct, MoveAssign, Destroy, Open, Use, Shutdown
<1>2. links' \in ListLinks
  <2>0. /\ links \in ListLinks /\ svc \in [Impls -> Services \cup {Null}]
    BY DEF TypeInv, StateInv, HolderInv, HolderTypes
  <2>1. ASSUME NEW i \in Impls, NEW s \in Services, Construct(i, s) PROVE links' \in ListLinks
    BY <2>0, <2>1, LinksTyped DEF Construct
  <2>2. ASSUME NEW i \in Impls, NEW j \in Impls, MoveConstruct(i, j)
        PROVE  links' \in ListLinks
    <3>1. svc[j] \in Services /\ links' = DoInsert(links, svc[j], i)
      BY <2>0, <2>2 DEF MoveConstruct
    <3> QED BY <2>0, <3>1, LinksTyped
  <2>3. ASSUME NEW i \in Impls, NEW j \in Impls, MoveAssign(i, j)
        PROVE  links' \in ListLinks
    <3>1. /\ svc[i] \in Services
          /\ \/ links' = links
             \/ links' = DoInsert(DoRemove(links, svc[i], i), svc[i], i)
      BY <2>0, <2>3 DEF MoveAssign
    <3>2. DoRemove(links, svc[i], i) \in ListLinks
      BY <2>0, <3>1, LinksTyped
    <3> QED BY <2>0, <3>1, <3>2, LinksTyped
  <2>4. ASSUME NEW i \in Impls, Destroy(i) PROVE links' \in ListLinks
    <3>1. svc[i] \in Services /\ links' = DoRemove(links, svc[i], i)
      BY <2>0, <2>4 DEF Destroy
    <3> QED BY <2>0, <3>1, LinksTyped
  <2>5. CASE UNCHANGED links
    BY <2>0, <2>5
  <2>6. \/ \E i \in Impls, s \in Services : Construct(i, s)
        \/ \E i, j \in Impls : MoveConstruct(i, j) \/ MoveAssign(i, j)
        \/ \E i \in Impls : Destroy(i)
        \/ UNCHANGED links
    BY DEF Next, vars, Open, Use, Shutdown
  <2> QED BY <2>1, <2>2, <2>3, <2>4, <2>5, <2>6
<1> QED BY <1>0, <1>1, <1>2 DEF TypeInv

\* Every variable keeps its type and only an object holds a handle, moves
\* across io_contexts included.
THEOREM ServicesTypeCorrect == Spec => []TypeOK
<1>1. Init => TypeInv
  BY InitState DEF Init, TypeInv, ListLinks, Place
<1>2. TypeInv => TypeOK
  BY DEF TypeInv, TypeOK, StateInv, HolderInv, HolderTypes, OnlyObjectsHold, ListLinks, Place
<1> QED BY <1>1, <1>2, NextType, PTL DEF Spec
-----------------------------------------------------------------------------
(* Sequences. *)

LEMMA FirstInFacts ==
  ASSUME NEW s, Len(s) \in Nat, NEW S, NEW none
  PROVE  /\ (\E i \in 1..Len(s) : s[i] \in S)
              => \E i \in 1..Len(s) : FirstIn(s, S, none) = s[i] /\ s[i] \in S
         /\ ~(\E i \in 1..Len(s) : s[i] \in S) => FirstIn(s, S, none) = none
<1>1. ASSUME NEW k \in 1..Len(s), s[k] \in S
      PROVE  \E i \in 1..Len(s) : FirstIn(s, S, none) = s[i] /\ s[i] \in S
  <2> DEFINE I == {i \in 1..Len(s) : s[i] \in S}
             First(i) == s[i] \in S /\ \A j \in 1..(i - 1) : s[j] \notin S
  <2>1. I \subseteq Nat /\ I # {}
    BY <1>1
  <2>2. PICK m \in I : \A n \in I : m <= n
    <3> HIDE DEF I
    <3> QED BY <2>1, LeastElement
  <2>3. m \in 1..Len(s) /\ First(m)
    <3>1. m \in 1..Len(s) /\ s[m] \in S
      OBVIOUS
    <3>2. ASSUME NEW j \in 1..(m - 1) PROVE s[j] \notin S
      <4>1. j \in 1..Len(s) /\ ~(m <= j)
        BY <3>1
      <4> QED BY <2>2, <4>1
    <3> QED BY <3>1, <3>2
  <2> DEFINE f == CHOOSE i \in 1..Len(s) : First(i)
  <2>4. f \in 1..Len(s) /\ First(f)
    <3> HIDE DEF First
    <3> QED BY <2>3
  <2>5. FirstIn(s, S, none) = s[f]
    BY <1>1 DEF FirstIn
  <2> HIDE DEF f
  <2> QED BY <2>4, <2>5
<1>2. ASSUME ~(\E i \in 1..Len(s) : s[i] \in S) PROVE FirstIn(s, S, none) = none
  BY <1>2 DEF FirstIn
<1> QED BY <1>1, <1>2

\* An enumeration of a finite set lists each element once.
LEMMA EnumerationFacts ==
  ASSUME NEW S, IsFiniteSet(S), NEW t \in SetToSeqs(S)
  PROVE  /\ t \in Seq(S) /\ Len(t) \in Nat /\ t \in [1..Len(t) -> S]
         /\ \A i, j \in 1..Len(t) : i # j => t[i] # t[j]
         /\ \A x \in S : \E i \in 1..Len(t) : t[i] = x
<1> DEFINE n == Cardinality(S)
<1>1. n \in Nat
  BY FS_CardinalityType
<1>2. t \in [1..n -> S] /\ \A i, j \in 1..n : i # j => t[i] # t[j]
  BY DEF SetToSeqs
<1> HIDE DEF n
<1>3. t \in Seq(S) /\ Len(t) = n
  BY <1>1, <1>2
<1>4. t \in Injection(1..n, S)
  BY <1>2 DEF Injection, IsInjective
<1>5. IsFiniteSet(1..n) /\ Cardinality(1..n) = n
  <2>1. 1 \in Int /\ n \in Int /\ (IF 1 > n THEN 0 ELSE (n - 1) + 1) = n
    BY <1>1
  <2> QED BY <2>1, FS_Interval
<1>6. t \in Surjection(1..n, S)
  BY <1>4, <1>5, FS_Injection DEF n
<1>7. \A x \in S : \E i \in 1..n : t[i] = x
  BY <1>6 DEF Surjection
<1> QED BY <1>1, <1>2, <1>3, <1>7

\* The upward enumeration of a set of positions.
LEMMA UpwardsFacts ==
  ASSUME NEW n \in Nat, NEW S \in SUBSET (1..n), NEW t \in Upwards(S)
  PROVE  /\ t \in Seq(S) /\ Len(t) \in Nat /\ t \in [1..Len(t) -> S]
         /\ \A i, j \in 1..Len(t) : i < j => t[i] < t[j]
         /\ \A x \in S : \E i \in 1..Len(t) : t[i] = x
<1>1. IsFiniteSet(S)
  <2>1. 1 \in Int /\ n \in Int
    OBVIOUS
  <2>2. IsFiniteSet(1..n)
    BY <2>1, FS_Interval
  <2> QED BY <2>2, FS_Subset
<1>2. t \in SetToSeqs(S) /\ \A i, j \in 1..Len(t) : i < j => t[i] < t[j]
  BY DEF Upwards
<1> QED BY <1>1, <1>2, EnumerationFacts
-----------------------------------------------------------------------------
(* chunk_by on what sort_by left. *)

\* What the pipeline does with the chunks relies on: each is a sequence of
\* addresses, all those of its adapter, and no other chunk is of that adapter.
ChunkList(cs, as) ==
  /\ cs \in Seq(Seq(Addrs))
  /\ \A i \in 1..Len(cs) :
       /\ cs[i] # <<>>
       /\ ToSet(cs[i]) = {a \in as : AdapterOf[a] = AdapterOf[Head(cs[i])]}
  /\ \A i, j \in 1..Len(cs) :
       i # j => AdapterOf[Head(cs[i])] # AdapterOf[Head(cs[j])]

LEMMA ChunksAreGroups ==
  ASSUME NEW as \in SUBSET Addrs, NEW s \in SortBy(as), NEW cs \in ChunkBy(s)
  PROVE  ChunkList(cs, as)
<1> DEFINE A(k) == AdapterOf[s[k]]
           n == Len(s)
<1>1. /\ s \in Seq(as) /\ n \in Nat /\ s \in [1..n -> as]
      /\ \A x \in as : \E i \in 1..n : s[i] = x
      /\ \A i, j \in 1..n : i < j => A(i) <= A(j)
  <2>1. IsFiniteSet(as) /\ s \in SetToSeqs(as)
    BY AddrAssumption, FS_Subset DEF SortBy
  <2>2. \A i, j \in 1..n : i < j => A(i) <= A(j)
    BY DEF SortBy
  <2> QED BY <2>1, <2>2, EnumerationFacts
<1>2. \A k \in 1..n : A(k) \in Nat /\ s[k] \in Addrs
  BY <1>1, AddrAssumption
<1> DEFINE B == ChunkStarts(s)
<1>3. B \in SUBSET (1..n) /\ \A k \in 1..n : k \in B <=> (k = 1 \/ A(k - 1) # A(k))
  BY DEF ChunkStarts
<1>4. PICK b \in Upwards(B) :
        cs = [i \in 1..Len(b) |->
                SubSeq(s, b[i], IF i = Len(b) THEN Len(s) ELSE b[i + 1] - 1)]
  BY DEF ChunkBy
<1> DEFINE m == Len(b)
           e(i) == IF i = m THEN n ELSE b[i + 1] - 1
<1>5. /\ m \in Nat /\ b \in [1..m -> B]
      /\ \A i, j \in 1..m : i < j => b[i] < b[j]
      /\ \A x \in B : \E i \in 1..m : b[i] = x
  <2> HIDE DEF B
  <2> QED BY <1>1, <1>3, UpwardsFacts
<1>6. ASSUME NEW i \in 1..m
      PROVE  b[i] \in B /\ b[i] \in 1..n /\ e(i) \in 1..n /\ b[i] <= e(i)
  <2>1. b[i] \in B /\ b[i] \in 1..n
    BY <1>3, <1>5
  <2>2. CASE i = m
    BY <1>1, <2>1, <2>2
  <2>3. CASE i # m
    <3>1. i + 1 \in 1..m /\ i < i + 1
      <4>1. m \in Nat /\ i \in 1..m /\ i # m
        BY <1>5, <2>3
      <4> HIDE DEF m
      <4> QED BY <4>1
    <3>2. b[i + 1] \in 1..n /\ b[i] < b[i + 1]
      BY <1>3, <1>5, <3>1
    <3>3. e(i) = b[i + 1] - 1
      BY <2>3
    <3> HIDE DEF e
    <3> QED BY <1>1, <2>1, <3>2, <3>3
  <2> QED BY <2>2, <2>3
<1> HIDE DEF B
<1>7. ASSUME NEW i \in 1..m, NEW k \in 1..n, b[i] <= k, k <= e(i)
      PROVE  A(k) = A(b[i])
  <2> DEFINE V == {d \in Nat : b[i] + d <= e(i) => A(b[i] + d) = A(b[i])}
  <2>0. b[i] \in 1..n /\ e(i) \in 1..n
    BY <1>6
  <2>1. 0 \in V
    BY <2>0
  <2>2. ASSUME NEW d \in V PROVE d + 1 \in V
    <3> SUFFICES ASSUME b[i] + (d + 1) <= e(i) PROVE A(b[i] + (d + 1)) = A(b[i])
      OBVIOUS
    <3> DEFINE q == b[i] + (d + 1)
    <3>1. /\ q \in 1..n /\ q # 1 /\ q - 1 = b[i] + d /\ b[i] < q /\ b[i] + d <= e(i)
          /\ q <= e(i)
      <4>1. d \in Nat /\ n \in Nat /\ b[i] \in 1..n /\ e(i) \in 1..n
        BY <1>1, <2>0
      <4> HIDE DEF A, e, n, V
      <4> QED BY <4>1
    <3>2. A(b[i] + d) = A(b[i])
      BY <3>1
    <3> HIDE DEF q, e
    <3>3. q \notin B
      <4> SUFFICES ASSUME q \in B PROVE FALSE
        OBVIOUS
      <4>1. PICK j \in 1..m : b[j] = q
        BY <1>5
      <4>2. i < j
        <5>1. i = j \/ j < i \/ i < j
          BY <1>5
        <5>2. b[i] \in Nat /\ q \in Nat
          BY <2>0, <3>1
        <5>3. j < i => b[j] < b[i]
          BY <1>5
        <5> QED BY <3>1, <4>1, <5>1, <5>2, <5>3
      <4>3. i # m /\ i + 1 \in 1..m /\ e(i) = b[i + 1] - 1
        <5>1. m \in Nat /\ i \in 1..m /\ j \in 1..m
          BY <1>5
        <5> HIDE DEF m
        <5>2. i # m /\ i + 1 \in 1..m
          BY <4>2, <5>1
        <5> QED BY <5>2 DEF e, m
      <4>4. b[i + 1] <= b[j] /\ b[i + 1] \in 1..n
        <5>1. b[i + 1] \in 1..n /\ b[j] \in 1..n
          BY <1>6, <4>3
        <5>2. i + 1 = j \/ i + 1 < j
          BY <1>5, <4>2
        <5>3. i + 1 < j => b[i + 1] < b[j]
          BY <1>5, <4>3
        <5> QED BY <5>1, <5>2, <5>3
      <4> QED BY <3>1, <4>1, <4>3, <4>4
    <3>4. A(q) = A(q - 1)
      BY <1>3, <3>1, <3>3
    <3> QED BY <3>1, <3>2, <3>4 DEF q
  <2>3. V = Nat
    <3> HIDE DEF V
    <3>1. V \subseteq Nat
      BY DEF V
    <3> QED BY <2>1, <2>2, <3>1, SetInduction
  <2>4. k - b[i] \in Nat /\ b[i] + (k - b[i]) = k
    BY <1>7, <2>0
  <2>5. k - b[i] \in V
    BY <2>3, <2>4
  <2> QED BY <1>7, <2>4, <2>5
<1>8. ASSUME NEW i \in 1..m, NEW k \in 1..n, k < b[i] PROVE A(k) < A(b[i])
  <2>1. b[i] \in 1..n /\ b[i] \in B /\ b[i] # 1 /\ b[i] - 1 \in 1..n
    BY <1>6, <1>8
  <2>2. A(b[i] - 1) # A(b[i])
    BY <1>3, <2>1
  <2>3. A(b[i] - 1) <= A(b[i])
    BY <1>1, <2>1
  <2>4. A(k) <= A(b[i] - 1)
    <3>1. k = b[i] - 1 \/ k < b[i] - 1
      BY <1>8, <2>1
    <3>2. A(k) \in Nat
      BY <1>2
    <3> QED BY <1>1, <2>1, <3>1, <3>2
  <2>5. A(k) \in Nat /\ A(b[i] - 1) \in Nat /\ A(b[i]) \in Nat
    BY <1>2, <2>1
  <2> HIDE DEF A
  <2> QED BY <2>2, <2>3, <2>4, <2>5
<1>9. ASSUME NEW i \in 1..m, NEW k \in 1..n, e(i) < k PROVE A(b[i]) < A(k)
  <2>1. i # m /\ i + 1 \in 1..m /\ e(i) = b[i + 1] - 1
    BY <1>1, <1>5, <1>9
  <2>2. b[i + 1] \in 1..n /\ b[i] \in 1..n /\ b[i] < b[i + 1]
    <3>1. i < i + 1
      BY <1>5
    <3> QED BY <1>5, <1>6, <2>1, <3>1
  <2>3. A(b[i]) < A(b[i + 1])
    BY <1>8, <2>1, <2>2
  <2>4. A(b[i + 1]) <= A(k)
    <3>1. b[i + 1] = k \/ b[i + 1] < k
      BY <1>9, <2>1, <2>2
    <3>2. A(k) \in Nat
      BY <1>2
    <3> QED BY <1>1, <2>2, <3>1, <3>2
  <2>5. A(k) \in Nat /\ A(b[i + 1]) \in Nat /\ A(b[i]) \in Nat
    BY <1>2, <2>2
  <2> HIDE DEF A
  <2> QED BY <2>3, <2>4, <2>5
<1>10. ASSUME NEW i \in 1..m
       PROVE  /\ cs[i] \in Seq(Addrs) /\ Len(cs[i]) = (e(i) - b[i]) + 1
              /\ \A k \in 1..Len(cs[i]) : cs[i][k] = s[(b[i] + k) - 1]
              /\ cs[i] # <<>> /\ Head(cs[i]) = s[b[i]]
  <2>1. cs[i] = SubSeq(s, b[i], e(i)) /\ b[i] \in 1..n /\ e(i) \in b[i]..n
    BY <1>4, <1>6
  <2>2. b[i] \in Int /\ e(i) \in Int /\ \A k \in b[i]..e(i) : s[k] \in Addrs
    BY <1>1, <1>2, <2>1
  <2> HIDE DEF e
  <2>3. /\ SubSeq(s, b[i], e(i)) \in Seq(Addrs)
        /\ Len(SubSeq(s, b[i], e(i))) = (e(i) - b[i]) + 1
        /\ \A k \in 1..((e(i) - b[i]) + 1) : SubSeq(s, b[i], e(i))[k] = s[(b[i] + k) - 1]
    <3>1. b[i] <= e(i)
      BY <2>1
    <3> QED BY <2>2, <3>1, SubSeqProperties
  <2>4. Len(cs[i]) # 0 /\ 1 \in 1..Len(cs[i]) /\ (b[i] + 1) - 1 = b[i]
    BY <2>1, <2>2, <2>3
  <2>5. cs[i] \in Seq(Addrs) /\ cs[i][1] = s[b[i]]
    BY <2>1, <2>3, <2>4
  <2>6. Head(cs[i]) = cs[i][1] /\ cs[i] # <<>>
    BY <2>4, <2>5
  <2> QED BY <2>1, <2>3, <2>5, <2>6
<1>11. cs \in Seq(Seq(Addrs)) /\ Len(cs) = m
  <2>1. DOMAIN cs = 1..m /\ cs = [i \in 1..m |-> cs[i]]
    BY <1>4
  <2>2. \A i \in 1..m : cs[i] \in Seq(Addrs)
    BY <1>10
  <2> QED BY <1>5, <2>1, <2>2
<1> HIDE DEF e, A, m
<1>12. ASSUME NEW i \in 1..m
       PROVE  ToSet(cs[i]) = {a \in as : AdapterOf[a] = AdapterOf[Head(cs[i])]}
  <2>0. /\ b[i] \in 1..n /\ e(i) \in 1..n /\ b[i] <= e(i) /\ n \in Nat
        /\ AdapterOf[Head(cs[i])] = A(b[i])
    BY <1>1, <1>6, <1>10 DEF A
  <2>1. ASSUME NEW k \in 1..Len(cs[i])
        PROVE  cs[i][k] \in as /\ AdapterOf[cs[i][k]] = A(b[i])
    <3> DEFINE q == (b[i] + k) - 1
    <3>0. k \in 1..((e(i) - b[i]) + 1)
      BY <1>10
    <3>1. q \in 1..n /\ b[i] <= q /\ q <= e(i)
      BY <2>0, <3>0
    <3>2. cs[i][k] = s[q]
      BY <1>10
    <3> HIDE DEF q
    <3>3. s[q] \in as
      BY <1>1, <3>1
    <3>4. AdapterOf[s[q]] = A(b[i])
      BY <1>7, <3>1 DEF A
    <3> QED BY <3>2, <3>3, <3>4
  <2>2. ASSUME NEW a \in as, AdapterOf[a] = A(b[i])
        PROVE  \E k \in 1..Len(cs[i]) : cs[i][k] = a
    <3>1. PICK q \in 1..n : s[q] = a
      BY <1>1
    <3>2. A(q) = A(b[i]) /\ A(b[i]) \in Nat
      BY <1>2, <2>0, <2>2, <3>1 DEF A
    <3>3. ~(q < b[i]) /\ ~(e(i) < q)
      BY <1>8, <1>9, <3>2
    <3>4. /\ (q - b[i]) + 1 \in 1..((e(i) - b[i]) + 1)
          /\ (b[i] + ((q - b[i]) + 1)) - 1 = q
      BY <2>0, <3>3
    <3>5. cs[i][(q - b[i]) + 1] = s[q]
      BY <1>10, <3>4
    <3> QED BY <1>10, <3>1, <3>4, <3>5
  <2>3. ToSet(cs[i]) = {cs[i][k] : k \in 1..Len(cs[i])}
    BY <1>10 DEF ToSet
  <2>4. \A x \in ToSet(cs[i]) : x \in as /\ AdapterOf[x] = A(b[i])
    BY <2>1, <2>3
  <2>5. \A x \in as : AdapterOf[x] = A(b[i]) => x \in ToSet(cs[i])
    BY <2>2, <2>3
  <2> QED BY <2>0, <2>4, <2>5
<1>13. ASSUME NEW i \in 1..m, NEW j \in 1..m, i # j
       PROVE  AdapterOf[Head(cs[i])] # AdapterOf[Head(cs[j])]
  <2>1. /\ AdapterOf[Head(cs[i])] = A(b[i]) /\ AdapterOf[Head(cs[j])] = A(b[j])
        /\ A(b[i]) \in Nat /\ A(b[j]) \in Nat /\ b[i] \in 1..n /\ b[j] \in 1..n
    BY <1>2, <1>6, <1>10 DEF A
  <2>2. i < j \/ j < i
    BY <1>5, <1>13
  <2>3. b[i] < b[j] \/ b[j] < b[i]
    BY <1>5, <2>2
  <2>4. A(b[i]) < A(b[j]) \/ A(b[j]) < A(b[i])
    BY <1>8, <2>1, <2>3
  <2> QED BY <2>1, <2>4
<1> QED BY <1>10, <1>11, <1>12, <1>13 DEF ChunkList
-----------------------------------------------------------------------------
(* Devices. *)

\* What discovery may keep: a device of an adapter with an address to bind to,
\* and addresses that are its own.  An entry of a list is one or null.
DeviceRecords ==
  [adapter : Adapters, v4 : Addrs \cup {None}, v6 : Addrs \cup {None}]
HasOwn(d) ==
  /\ d.v4 # None => Family[d.v4] = "v4" /\ AdapterOf[d.v4] = d.adapter
  /\ d.v6 # None => Family[d.v6] = "v6" /\ AdapterOf[d.v6] = d.adapter
Usable == {d \in DeviceRecords : HasOwn(d) /\ ~(d.v4 = None /\ d.v6 = None)}
Entries == Usable \cup {NoDevice}

Apart(s) ==
  \A i, j \in 1..Len(s) : i # j /\ s[i] # NoDevice => s[i].adapter # s[j].adapter

LEMMA AdapterFacts ==
  /\ Adapters \subseteq Nat /\ None \notin Adapters /\ IsFiniteSet(Adapters)
  /\ \A a \in Addrs : AdapterOf[a] \in Adapters
  /\ NoDevice.adapter = None /\ NoDevice.v4 = None /\ NoDevice.v6 = None
  /\ NoDevice \notin Usable
<1>1. Adapters \subseteq Nat /\ \A a \in Addrs : AdapterOf[a] \in Adapters
  BY AddrAssumption DEF Adapters
<1>2. None \notin Adapters
  BY <1>1, AddrAssumption
<1>3. IsFiniteSet(Adapters)
  <2>1. AdapterOf \in Surjection(Addrs, Adapters)
    BY AddrAssumption DEF Surjection, Adapters
  <2> QED BY <2>1, AddrAssumption, FS_Surjection
<1>4. NoDevice.adapter = None /\ NoDevice.v4 = None /\ NoDevice.v6 = None
  BY DEF NoDevice
<1>5. NoDevice \notin Usable
  BY <1>4 DEF Usable
<1> QED BY <1>1, <1>2, <1>3, <1>4, <1>5

LEMMA ListsOfAddresses ==
  ASSUME NEW from, NEW s \in AddrLists(from)
  PROVE  s \in Seq(from)
<1>1. s \in SeqOf(from, MaxList)
  BY DEF AddrLists
<1>2. PICK m \in 0..MaxList : s \in [1..m -> from]
  BY <1>1 DEF SeqOf
<1>3. m \in Nat
  BY <1>2, ListAssumption
<1> QED BY <1>2, <1>3

LEMMA FirstOfList ==
  ASSUME NEW s \in Seq(Addrs), NEW S
  PROVE  FirstIn(s, S, None) = None \/ FirstIn(s, S, None) \in S
<1>1. Len(s) \in Nat
  OBVIOUS
<1> QED BY <1>1, FirstInFacts

\* attach_device_addresses of the nd backend.
LEMMA AttachIsOwn ==
  ASSUME NEW id \in Adapters, NEW s \in Seq(Addrs),
         \A i \in 1..Len(s) : AdapterOf[s[i]] = id
  PROVE  /\ Attach(id, s) \in DeviceRecords /\ HasOwn(Attach(id, s))
         /\ Attach(id, s).adapter = id
<1> DEFINE S4 == {a \in ToSet(s) : Family[a] = "v4"}
           S6 == {a \in ToSet(s) : Family[a] = "v6"}
           v4 == FirstIn(s, S4, None)
           v6 == FirstIn(s, S6, None)
<1>1. /\ \A a \in S4 : a \in Addrs /\ Family[a] = "v4" /\ AdapterOf[a] = id
      /\ \A a \in S6 : a \in Addrs /\ Family[a] = "v6" /\ AdapterOf[a] = id
  BY DEF ToSet
<1>2. Attach(id, s) = [adapter |-> id, v4 |-> v4, v6 |-> v6]
  BY DEF Attach
<1> HIDE DEF S4, S6
<1>b. (v4 = None \/ v4 \in S4) /\ (v6 = None \/ v6 \in S6)
  BY FirstOfList
<1>3. v4 \in Addrs \cup {None} /\ (v4 # None => Family[v4] = "v4" /\ AdapterOf[v4] = id)
  BY <1>1, <1>b
<1>4. v6 \in Addrs \cup {None} /\ (v6 # None => Family[v6] = "v6" /\ AdapterOf[v6] = id)
  BY <1>1, <1>b
<1> HIDE DEF v4, v6
<1>5. /\ Attach(id, s).adapter = id
      /\ Attach(id, s).v4 = v4 /\ Attach(id, s).v6 = v6
  BY <1>2
<1>6. Attach(id, s) \in DeviceRecords
  BY <1>2, <1>3, <1>4 DEF DeviceRecords
<1>7. HasOwn(Attach(id, s))
  BY <1>3, <1>4, <1>5 DEF HasOwn
<1> QED BY <1>5, <1>6, <1>7

\* open_device of a chunk.
LEMMA OpenDeviceIsOwn ==
  ASSUME NEW chunk \in Seq(Addrs), chunk # <<>>,
         \A i \in 1..Len(chunk) : AdapterOf[chunk[i]] = AdapterOf[Head(chunk)],
         NEW d \in OpenDevice(chunk)
  PROVE  /\ d \in Entries
         /\ d # NoDevice => d \in Usable /\ d.adapter = AdapterOf[Head(chunk)]
<1> DEFINE id == AdapterOf[Head(chunk)]
<1>1. Head(chunk) \in Addrs /\ id \in Adapters
  BY AdapterFacts
<1>2. PICK ok \in CreateDevice :
        \E x \in {Attach(id, IF own = <<>> THEN chunk ELSE own) : own \in AdapterLists(id)} :
          d = IF ok /\ ~(x.v4 = None /\ x.v6 = None) THEN x ELSE NoDevice
  BY DEF OpenDevice
<1>3. PICK own \in AdapterLists(id) :
        LET x == Attach(id, IF own = <<>> THEN chunk ELSE own)
        IN d = IF ok /\ ~(x.v4 = None /\ x.v6 = None) THEN x ELSE NoDevice
  BY <1>2
<1> DEFINE s == IF own = <<>> THEN chunk ELSE own
           x == Attach(id, s)
<1>4. s \in Seq(Addrs) /\ \A i \in 1..Len(s) : AdapterOf[s[i]] = id
  <2>1. own \in Seq({a \in Storable : AdapterOf[a] = id})
    BY ListsOfAddresses DEF AdapterLists
  <2>2. {a \in Storable : AdapterOf[a] = id} \subseteq Addrs
    BY DEF Storable
  <2>3. own \in Seq(Addrs)
    BY <2>1, <2>2, SeqMonotonic
  <2>4. \A i \in 1..Len(own) : AdapterOf[own[i]] = id
    <3> SUFFICES ASSUME NEW i \in 1..Len(own) PROVE AdapterOf[own[i]] = id
      OBVIOUS
    <3>1. own[i] \in {a \in Storable : AdapterOf[a] = id}
      BY <2>1, ElementOfSeq
    <3> QED BY <3>1
  <2> QED BY <2>3, <2>4
<1> HIDE DEF s
<1>5. x \in DeviceRecords /\ HasOwn(x) /\ x.adapter = id
  BY <1>1, <1>4, AttachIsOwn
<1>6. d = NoDevice \/ (d = x /\ ~(x.v4 = None /\ x.v6 = None))
  BY <1>3 DEF s
<1> HIDE DEF x
<1> QED BY <1>5, <1>6 DEF Entries, Usable

\* Of the addresses that bind to an ibv device the first of each family.
LEMMA AttachAddressIsOwn ==
  ASSUME NEW id \in Adapters, NEW d, d = [NoDevice EXCEPT !.adapter = id],
         NEW list \in Seq(Addrs), NEW mine \in SUBSET {a \in Addrs : AdapterOf[a] = id}
  PROVE  /\ AttachAddress(d, list, mine) \in DeviceRecords
         /\ HasOwn(AttachAddress(d, list, mine))
         /\ AttachAddress(d, list, mine).adapter = id
<1> DEFINE S4 == {a \in mine : Family[a] = "v4"}
           S6 == {a \in mine : Family[a] = "v6"}
           v4 == FirstIn(list, S4, None)
           v6 == FirstIn(list, S6, None)
           x == AttachAddress(d, list, mine)
<1>0. d = [adapter |-> id, v4 |-> None, v6 |-> None]
  BY DEF NoDevice
<1>1. x = [adapter |-> id, v4 |-> v4, v6 |-> v6]
  <2>1. x = [d EXCEPT !.v4 = v4, !.v6 = v6]
    BY DEF AttachAddress
  <2> HIDE DEF x, v4, v6
  <2> QED BY <1>0, <2>1
<1>a. /\ \A a \in S4 : a \in Addrs /\ Family[a] = "v4" /\ AdapterOf[a] = id
      /\ \A a \in S6 : a \in Addrs /\ Family[a] = "v6" /\ AdapterOf[a] = id
  OBVIOUS
<1> HIDE DEF S4, S6
<1>b. (v4 = None \/ v4 \in S4) /\ (v6 = None \/ v6 \in S6)
  BY FirstOfList
<1>2. v4 \in Addrs \cup {None} /\ (v4 # None => Family[v4] = "v4" /\ AdapterOf[v4] = id)
  BY <1>a, <1>b
<1>3. v6 \in Addrs \cup {None} /\ (v6 # None => Family[v6] = "v6" /\ AdapterOf[v6] = id)
  BY <1>a, <1>b
<1> HIDE DEF v4, v6, x
<1>4. x.adapter = id /\ x.v4 = v4 /\ x.v6 = v6
  BY <1>1
<1>5. x \in DeviceRecords
  BY <1>1, <1>2, <1>3 DEF DeviceRecords
<1>6. HasOwn(x)
  BY <1>2, <1>3, <1>4 DEF HasOwn
<1> QED BY <1>4, <1>5, <1>6 DEF x

LEMMA InAllDevices ==
  ASSUME devices \in Seq(Seq(Entries))
  PROVE  \A d : d \in AllDevices
                  <=> \E p \in 1..Len(devices) : \E i \in 1..Len(devices[p]) : d = devices[p][i]
<1>1. \A p \in 1..Len(devices) :
        devices[p] \in Seq(Entries) /\ DOMAIN devices[p] = 1..Len(devices[p])
  BY ElementOfSeq, LenProperties
<1>2. \A p \in 1..Len(devices) : \A d :
        d \in ToSet(devices[p]) <=> \E i \in 1..Len(devices[p]) : d = devices[p][i]
  BY <1>1 DEF ToSet
<1>3. \A d : d \in AllDevices <=> \E p \in 1..Len(devices) : d \in ToSet(devices[p])
  BY DEF AllDevices
<1> SUFFICES ASSUME NEW d
             PROVE  d \in AllDevices
                      <=> \E p \in 1..Len(devices) : \E i \in 1..Len(devices[p]) : d = devices[p][i]
  OBVIOUS
<1>4. d \in AllDevices <=> \E p \in 1..Len(devices) : d \in ToSet(devices[p])
  BY <1>3
<1>5. \A p \in 1..Len(devices) :
        d \in ToSet(devices[p]) <=> \E i \in 1..Len(devices[p]) : d = devices[p][i]
  BY <1>2
<1> QED BY <1>4, <1>5
-----------------------------------------------------------------------------
(* The configuration an io_context is registered with. *)

LEMMA ConfigFacts ==
  ASSUME NEW c \in Configs
  PROVE  \A f \in Fields : c[f] \in Nat
BY ListAssumption DEF Configs

LEMMA CapFacts ==
  ASSUME NEW d \in Usable
  PROVE  /\ d.adapter \in Adapters
         /\ \A f \in Bounded \cup CapOnly \cup {Inline} : Cap[d.adapter][f] \in Nat
<1>1. d.adapter \in Adapters
  BY DEF Usable, DeviceRecords
<1> QED BY <1>1, ConfigAssumption

LEMMA NdEffectiveFits ==
  ASSUME NEW d \in Usable, NEW c \in Configs, NdCompatible(c, d)
  PROVE  /\ \A f \in NdLimited : NdEffective(c, d)[f] <= Cap[d.adapter][f]
         /\ \A f \in Free : NdEffective(c, d)[f] > 0
<1>1. ASSUME NEW f \in NdLimited PROVE NdEffective(c, d)[f] <= Cap[d.adapter][f]
  <2>1. /\ f \in Fields /\ f \notin Free /\ c[f] \in Nat /\ Cap[d.adapter][f] \in Nat
        /\ c[f] = 0 \/ c[f] <= Cap[d.adapter][f]
        /\ f \in Bounded => Default[f] \in Nat
    BY <1>1, CapFacts, ConfigFacts, ConfigAssumption DEF NdLimited, Fields, NdCompatible
  <2>2. NdEffective(c, d)[f] =
          IF c[f] = 0 THEN IF f \in Bounded THEN Smaller(Cap[d.adapter][f], Default[f])
                           ELSE Cap[d.adapter][f]
          ELSE c[f]
    BY <2>1 DEF NdEffective
  <2> QED BY <2>1, <2>2 DEF Smaller
<1>2. ASSUME NEW f \in Free PROVE NdEffective(c, d)[f] > 0
  <2>1. f \in Fields /\ c[f] \in Nat /\ f \notin Bounded /\ Default[f] \in Nat \ {0}
    BY <1>2, ConfigFacts, ConfigAssumption DEF Fields
  <2>2. NdEffective(c, d)[f] = IF c[f] = 0 THEN Default[f] ELSE c[f]
    BY <1>2, <2>1 DEF NdEffective
  <2> QED BY <2>1, <2>2
<1> QED BY <1>1, <1>2

LEMMA IbvEffectiveFits ==
  ASSUME NEW d \in Usable, NEW c \in Configs, IbvCompatible(c, d)
  PROVE  /\ \A f \in IbvLimited : IbvEffective(c, d)[f] <= Cap[d.adapter][f]
         /\ \A f \in Free : IbvEffective(c, d)[f] > 0
<1>1. ASSUME NEW f \in IbvLimited PROVE IbvEffective(c, d)[f] <= Cap[d.adapter][f]
  <2>1. /\ f \in Fields /\ c[f] \in Nat /\ Cap[d.adapter][f] \in Nat
        /\ c[f] = 0 \/ c[f] <= Cap[d.adapter][f]
        /\ f \in Bounded => Default[f] \in Nat
        /\ f \in Bounded \/ f \in CapOnly
    BY <1>1, CapFacts, ConfigFacts, ConfigAssumption DEF IbvLimited, Fields, IbvCompatible
  <2>2. IbvEffective(c, d)[f] =
          IF c[f] = 0 THEN IF f \in Bounded THEN Smaller(Cap[d.adapter][f], Default[f])
                           ELSE Cap[d.adapter][f]
          ELSE c[f]
    BY <2>1 DEF IbvEffective
  <2> QED BY <2>1, <2>2 DEF Smaller
<1>2. ASSUME NEW f \in Free PROVE IbvEffective(c, d)[f] > 0
  <2>1. /\ f \in Fields /\ c[f] \in Nat /\ f \notin Bounded /\ f \notin CapOnly
        /\ Default[f] \in Nat \ {0}
    BY <1>2, ConfigFacts, ConfigAssumption DEF Fields
  <2>2. IbvEffective(c, d)[f] = IF c[f] = 0 THEN Default[f] ELSE c[f]
    BY <1>2, <2>1 DEF IbvEffective
  <2> QED BY <2>1, <2>2
<1> QED BY <1>1, <1>2
-----------------------------------------------------------------------------
(* The inductive invariant of the start of a program. *)

\* The lists hold devices as discovery makes them, or null, and no two of one
\* adapter; ibv has no null.
DeviceLists ==
  /\ devices \in Seq(Seq(Entries))
  /\ \A p \in 1..Len(devices) : Apart(devices[p])
  /\ build = "ibv" =>
       \A p \in 1..Len(devices) : \A i \in 1..Len(devices[p]) : devices[p][i] # NoDevice

\* ibv: devices before they have addresses, one for each context.
FoundDevices ==
  /\ Len(found) \in Nat
  /\ \A i \in 1..Len(found) :
       \E id \in Adapters : found[i] = [NoDevice EXCEPT !.adapter = id]
  /\ \A i, j \in 1..Len(found) : i # j => found[i].adapter # found[j].adapter

\* nd: where open_adapters is in the lists, and that the chunks still to open
\* are of adapters the list under construction does not have.
Ahead(ds, cs) ==
  \A k \in 1..Len(ds) : \A i \in 1..Len(cs) :
    ds[k] # NoDevice => ds[k].adapter # AdapterOf[Head(cs[i])]
Positions ==
  build = "nd" =>
    /\ pc \in {"start", "enumerate", "test_provider", "store_provider", "failed"}
         => devices = <<>> /\ cur = 1
    /\ pc = "discover" => cur = Len(devices) + 1
    /\ pc \in {"test_device", "store_device"} =>
         cur = Len(devices) /\ cur \in 1..Len(devices) /\ Ahead(devices[cur], chunks)
    /\ pc = "store_device" => chunks # <<>>

\* Where initialize() is between its native calls.
Calls == {"create_handle", "create_cq", "register"}

\* A listed device, and a configuration that fits it.
Fits(d, c) ==
  /\ d \in Found
  /\ \A f \in Limited : c[f] <= Cap[d.adapter][f]
  /\ \A f \in Free : c[f] > 0

\* What is registered, and what a use_device that is still running holds: the
\* handle after its first native call, the CQ after its second.
Registration ==
  /\ registered \in BOOLEAN /\ cq \in BOOLEAN /\ cq_handle \in BOOLEAN
  /\ registered => pc = "ready" /\ Fits(device, effective)
  /\ pc \in Calls => Fits(call.device, call.effective)
  /\ cq <=> (registered \/ pc = "register")
  /\ cq_handle <=> (registered \/ pc \in {"create_cq", "register"})
  /\ ec = "already_registered" => registered

SetupInv ==
  /\ build \in {"ibv", "nd"}
  /\ DeviceLists /\ FoundDevices /\ ChunkList(chunks, resolved) /\ Positions
  /\ Registration

LEMMA InitSetup == SetupInit => SetupInv
<1> SUFFICES ASSUME SetupInit PROVE SetupInv
  OBVIOUS
<1>1. /\ build \in {"ibv", "nd"} /\ pc = "start" /\ devices = <<>> /\ found = <<>>
      /\ registered = FALSE /\ cq = FALSE /\ cq_handle = FALSE /\ ec = "none"
      /\ chunks = <<>> /\ cur = 1
  BY DEF SetupInit, ServiceInit, NdInit, IbvInit
<1>2. DeviceLists
  BY <1>1 DEF DeviceLists
<1>3. FoundDevices
  BY <1>1 DEF FoundDevices
<1>4. ChunkList(chunks, resolved)
  BY <1>1 DEF ChunkList
<1>5. Positions
  BY <1>1 DEF Positions
<1>6. Registration
  BY <1>1 DEF Registration, Calls
<1> QED BY <1>1, <1>2, <1>3, <1>4, <1>5, <1>6 DEF SetupInv

\* Discovery runs before anything is registered.
LEMMA DiscoveryKeepsRegistration ==
  ASSUME SetupInv, pc \notin {"ready"} \cup Calls, pc' \notin Calls, UNCHANGED context
  PROVE  Registration'
<1>1. /\ registered = FALSE /\ cq = FALSE /\ cq_handle = FALSE
      /\ ec # "already_registered"
  BY DEF SetupInv, Registration, Calls
<1>2. /\ registered' = registered /\ cq' = cq /\ cq_handle' = cq_handle /\ ec' = ec
  BY DEF context
<1> QED BY <1>1, <1>2 DEF Registration, Calls

\* The steps that leave the lists alone.
LEMMA QuietDiscovery ==
  ASSUME SetupInv, pc \notin {"ready"} \cup Calls, pc' \notin Calls, Positions',
         UNCHANGED <<build, devices, found, resolved, chunks, context>>
  PROVE  SetupInv'
<1>1. Registration'
  BY DiscoveryKeepsRegistration
<1>2. /\ build' = build /\ devices' = devices /\ found' = found
      /\ resolved' = resolved /\ chunks' = chunks
  OBVIOUS
<1>3. DeviceLists'
  BY <1>2 DEF SetupInv, DeviceLists, Apart
<1>4. FoundDevices'
  BY <1>2 DEF SetupInv, FoundDevices
<1>5. ChunkList(chunks, resolved)'
  BY <1>2 DEF SetupInv, ChunkList
<1> QED BY <1>1, <1>2, <1>3, <1>4, <1>5 DEF SetupInv
-----------------------------------------------------------------------------
(* Discovery on nd. *)

LEMMA ProviderSteps ==
  ASSUME SetupInv, build = "nd", UNCHANGED <<build, found>>,
         Startup \/ EnumerateProtos \/ TestProvider \/ StoreProvider \/ ProvidersDone
           \/ ManagerReady
  PROVE  SetupInv'
<1>1. /\ pc \notin {"ready"} \cup Calls /\ pc' \notin Calls
      /\ UNCHANGED <<build, devices, found, resolved, chunks, context, cur>>
  BY DEF Startup, EnumerateProtos, TestProvider, StoreProvider, ProvidersDone,
         ManagerReady, pipeline, Calls
<1>2. \/ /\ pc \in {"start", "enumerate", "test_provider", "store_provider"}
         /\ pc' \in {"enumerate", "test_provider", "store_provider", "failed", "discover"}
      \/ pc' = "ready"
  BY DEF Startup, EnumerateProtos, TestProvider, StoreProvider, ProvidersDone,
         ManagerReady
<1>3. Positions'
  <2>1. CASE pc' = "ready"
    BY <2>1 DEF Positions
  <2>2. CASE /\ pc \in {"start", "enumerate", "test_provider", "store_provider"}
             /\ pc' \in {"enumerate", "test_provider", "store_provider", "failed", "discover"}
    <3>1. devices = <<>> /\ cur = 1
      BY <2>2 DEF SetupInv, Positions
    <3>2. devices' = <<>> /\ cur' = 1 /\ Len(devices') = 0
      BY <1>1, <3>1
    <3> QED BY <2>2, <3>2 DEF Positions
  <2> QED BY <1>2, <2>1, <2>2
<1> QED BY <1>1, <1>3, QuietDiscovery

\* A provider's list of devices starts empty.
LEMMA NewList ==
  ASSUME SetupInv, devices' = Append(devices, <<>>), build' = build
  PROVE  /\ DeviceLists' /\ Len(devices') = Len(devices) + 1 /\ Len(devices) \in Nat
         /\ devices'[Len(devices) + 1] = <<>>
<1>1. devices \in Seq(Seq(Entries)) /\ Len(devices) \in Nat /\ <<>> \in Seq(Entries)
  BY DEF SetupInv, DeviceLists
<1>2. PICK n \in Nat : n = Len(devices)
  BY <1>1
<1>3. /\ devices' \in Seq(Seq(Entries)) /\ Len(devices') = n + 1
      /\ \A p \in 1..n : devices'[p] = devices[p]
      /\ devices'[n + 1] = <<>>
  BY <1>1, <1>2, AppendProperties
<1>4. \A p \in 1..(n + 1) : p \in 1..n \/ p = n + 1
  BY <1>2
<1>5. \A p \in 1..n : Apart(devices[p])
  BY <1>2 DEF SetupInv, DeviceLists
<1>6. build = "ibv" => \A p \in 1..n : \A i \in 1..Len(devices[p]) : devices[p][i] # NoDevice
  BY <1>2 DEF SetupInv, DeviceLists
<1>7. ASSUME NEW ds, ds \in Seq(Seq(Entries)), Len(ds) = n + 1,
             \A p \in 1..n : ds[p] = devices[p], ds[n + 1] = <<>>
      PROVE  /\ \A p \in 1..Len(ds) : Apart(ds[p])
             /\ build = "ibv" =>
                  \A p \in 1..Len(ds) : \A i \in 1..Len(ds[p]) : ds[p][i] # NoDevice
  <2>1. Apart(<<>>)
    BY DEF Apart
  <2>2. \A p \in 1..Len(ds) : Apart(ds[p])
    BY <1>4, <1>5, <1>7, <2>1
  <2>3. ASSUME build = "ibv", NEW p \in 1..Len(ds), NEW i \in 1..Len(ds[p])
        PROVE  ds[p][i] # NoDevice
    <3>1. CASE p \in 1..n
      BY <1>6, <1>7, <2>3, <3>1
    <3>2. CASE p = n + 1
      BY <1>7, <2>3, <3>2
    <3> QED BY <1>4, <1>7, <3>1, <3>2
  <2> QED BY <2>2, <2>3
<1>8. PICK ds : ds = devices'
  OBVIOUS
<1>8a. ds \in Seq(Seq(Entries)) /\ Len(ds) = n + 1
  BY <1>3, <1>8
<1>8b. \A p \in 1..n : ds[p] = devices[p]
  BY <1>3, <1>8
<1>8c. ds[n + 1] = <<>>
  BY <1>3, <1>8
<1>9. /\ \A p \in 1..Len(ds) : Apart(ds[p])
      /\ build = "ibv" =>
           \A p \in 1..Len(ds) : \A i \in 1..Len(ds[p]) : ds[p][i] # NoDevice
  BY <1>7, <1>8a, <1>8b, <1>8c
<1>10. DeviceLists'
  BY <1>3, <1>8, <1>9 DEF DeviceLists, Apart
<1> QED BY <1>1, <1>2, <1>3, <1>10

LEMMA DiscoverStep ==
  ASSUME SetupInv, build = "nd", UNCHANGED <<build, found>>, DiscoverProvider
  PROVE  SetupInv'
<1>1. /\ pc = "discover" /\ UNCHANGED context /\ cur = Len(devices) + 1
      /\ pc \notin {"ready"} \cup Calls /\ pc' \notin Calls
  BY DEF DiscoverProvider, SetupInv, Positions, Calls
<1>2. Registration' /\ FoundDevices'
  BY <1>1, DiscoveryKeepsRegistration DEF SetupInv, FoundDevices
<1>3. CASE pc' = "crashed" /\ UNCHANGED <<cur, resolved, chunks, devices>>
  <2>1. Positions'
    BY <1>3 DEF Positions
  <2> QED BY <1>1, <1>3, <2>1, QuietDiscovery
<1>4. CASE devices' = Append(devices, <<>>) /\ cur' = cur + 1 /\ UNCHANGED <<pc, resolved, chunks>>
  <2>1. DeviceLists' /\ Len(devices') = Len(devices) + 1
    BY <1>4, NewList
  <2>2. pc' = "discover" /\ cur' = cur + 1 /\ chunks' = chunks /\ resolved' = resolved
    BY <1>1, <1>4
  <2>3. cur' = Len(devices') + 1
    BY <1>1, <2>1, <2>2
  <2>4. Positions'
    BY <2>2, <2>3 DEF Positions
  <2>5. ChunkList(chunks, resolved)'
    BY <2>2 DEF SetupInv, ChunkList
  <2> QED BY <1>2, <2>1, <2>4, <2>5 DEF SetupInv
<1>5. ASSUME NEW list \in AddrLists(Storable), NEW known \in SUBSET Supported(ToSet(list)),
             NEW sorted \in SortBy(known), resolved' = known, chunks' \in ChunkBy(sorted),
             devices' = Append(devices, <<>>), pc' = "test_device", UNCHANGED cur
      PROVE  SetupInv'
  <2>1. DeviceLists' /\ Len(devices') = Len(devices) + 1 /\ Len(devices) \in Nat
        /\ devices'[Len(devices) + 1] = <<>>
    BY <1>5, NewList
  <2>2. known \subseteq Addrs
    <3>1. list \in Seq(Storable)
      BY ListsOfAddresses
    <3>2. \A a \in ToSet(list) : a \in Addrs
      BY <3>1 DEF ToSet, Storable
    <3> QED BY <3>2 DEF Supported
  <2>3. ChunkList(chunks', resolved')
    BY <1>5, <2>2, ChunksAreGroups
  <2>4. ChunkList(chunks, resolved)'
    BY <2>3 DEF ChunkList
  <2>5. cur' = Len(devices') /\ cur' \in 1..Len(devices') /\ devices'[cur'] = <<>>
    <3>1. cur' = Len(devices) + 1
      BY <1>1, <1>5
    <3> QED BY <2>1, <3>1
  <2>6. Ahead(devices'[cur'], chunks')
    BY <2>5 DEF Ahead
  <2>7. Positions'
    BY <1>5, <2>5, <2>6 DEF Positions, Ahead
  <2> QED BY <1>2, <2>1, <2>4, <2>7 DEF SetupInv
<1>6. \/ pc' = "crashed" /\ UNCHANGED <<cur, resolved, chunks, devices>>
      \/ devices' = Append(devices, <<>>) /\ cur' = cur + 1 /\ UNCHANGED <<pc, resolved, chunks>>
      \/ \E list \in AddrLists(Storable) :
           \E known \in SUBSET Supported(ToSet(list)) : \E sorted \in SortBy(known) :
             /\ resolved' = known /\ chunks' \in ChunkBy(sorted)
             /\ devices' = Append(devices, <<>>) /\ pc' = "test_device" /\ UNCHANGED cur
  BY DEF DiscoverProvider
<1> QED BY <1>3, <1>4, <1>5, <1>6

\* The chunk that was opened or passed over is dropped.
LEMMA DropChunk ==
  ASSUME ChunkList(chunks, resolved), chunks # <<>>
  PROVE  /\ ChunkList(Tail(chunks), resolved)
         /\ Head(chunks) \in Seq(Addrs) /\ Head(chunks) # <<>> /\ Head(chunks) = chunks[1]
         /\ \A k \in 1..Len(Head(chunks)) :
              AdapterOf[Head(chunks)[k]] = AdapterOf[Head(Head(chunks))]
         /\ Len(Tail(chunks)) + 1 = Len(chunks) /\ Len(Tail(chunks)) \in Nat
         /\ \A i \in 1..Len(Tail(chunks)) :
              /\ i + 1 \in 1..Len(chunks) /\ Tail(chunks)[i] = chunks[i + 1]
              /\ AdapterOf[Head(Tail(chunks)[i])] # AdapterOf[Head(Head(chunks))]
<1>1. chunks \in Seq(Seq(Addrs)) /\ Len(chunks) \in Nat
  BY DEF ChunkList
<1>2. /\ Tail(chunks) \in Seq(Seq(Addrs)) /\ Len(Tail(chunks)) = Len(chunks) - 1
      /\ \A i \in 1..Len(Tail(chunks)) : Tail(chunks)[i] = chunks[i + 1]
      /\ Len(chunks) # 0 /\ Head(chunks) = chunks[1]
  BY <1>1, HeadTailProperties, EmptySeq
<1>3. \A i \in 1..Len(Tail(chunks)) : i + 1 \in 1..Len(chunks) /\ i + 1 # 1
  BY <1>1, <1>2
<1>4. 1 \in 1..Len(chunks) /\ Len(Tail(chunks)) + 1 = Len(chunks) /\ Len(Tail(chunks)) \in Nat
  BY <1>1, <1>2
<1>5. Head(chunks) \in Seq(Addrs) /\ Head(chunks) # <<>>
  BY <1>1, <1>2, <1>4 DEF ChunkList
<1>6. ASSUME NEW k \in 1..Len(Head(chunks))
      PROVE  AdapterOf[Head(chunks)[k]] = AdapterOf[Head(Head(chunks))]
  <2>1. ToSet(Head(chunks)) = {a \in resolved : AdapterOf[a] = AdapterOf[Head(Head(chunks))]}
    BY <1>2, <1>4 DEF ChunkList
  <2>2. Head(chunks)[k] \in ToSet(Head(chunks))
    BY <1>5 DEF ToSet
  <2> QED BY <2>1, <2>2
<1>7. \A i \in 1..Len(Tail(chunks)) :
        AdapterOf[Head(Tail(chunks)[i])] # AdapterOf[Head(Head(chunks))]
  BY <1>2, <1>3, <1>4 DEF ChunkList
<1>8. ASSUME NEW t, t \in Seq(Seq(Addrs)), \A i \in 1..Len(t) : t[i] = chunks[i + 1],
             \A i \in 1..Len(t) : i + 1 \in 1..Len(chunks), Len(t) \in Nat
      PROVE  ChunkList(t, resolved)
  <2>1. ASSUME NEW i \in 1..Len(t)
        PROVE  /\ t[i] # <<>>
               /\ ToSet(t[i]) = {a \in resolved : AdapterOf[a] = AdapterOf[Head(t[i])]}
    <3>1. t[i] = chunks[i + 1] /\ i + 1 \in 1..Len(chunks)
      BY <1>8
    <3>2. PICK q \in 1..Len(chunks) : q = i + 1
      BY <3>1
    <3>3. /\ chunks[q] # <<>>
          /\ ToSet(chunks[q]) = {a \in resolved : AdapterOf[a] = AdapterOf[Head(chunks[q])]}
      BY DEF ChunkList
    <3>4. t[i] = chunks[q]
      BY <3>1, <3>2
    <3> QED BY <3>3, <3>4
  <2>2. ASSUME NEW i \in 1..Len(t), NEW j \in 1..Len(t), i # j
        PROVE  AdapterOf[Head(t[i])] # AdapterOf[Head(t[j])]
    <3>1. i + 1 # j + 1
      BY <1>8, <2>2
    <3>2. i + 1 \in 1..Len(chunks) /\ j + 1 \in 1..Len(chunks)
      BY <1>8
    <3>3. AdapterOf[Head(chunks[i + 1])] # AdapterOf[Head(chunks[j + 1])]
      BY <3>1, <3>2 DEF ChunkList
    <3>4. t[i] = chunks[i + 1] /\ t[j] = chunks[j + 1]
      BY <1>8
    <3> QED BY <3>3, <3>4
  <2> QED BY <1>8, <2>1, <2>2 DEF ChunkList
<1>9. ChunkList(Tail(chunks), resolved)
  BY <1>2, <1>3, <1>4, <1>8
<1> QED BY <1>2, <1>3, <1>4, <1>5, <1>6, <1>7, <1>9
\* The filter passes over a chunk or leaves it to be stored.
LEMMA TestStep ==
  ASSUME SetupInv, build = "nd", UNCHANGED <<build, found>>, TestDevice
  PROVE  SetupInv'
<1>1. /\ pc = "test_device" /\ chunks # <<>>
      /\ UNCHANGED <<cur, resolved, devices, context>>
      /\ \/ chunks' = Tail(chunks) /\ pc' = pc
         \/ pc' = "store_device" /\ chunks' = chunks
  BY DEF TestDevice
<1>2. /\ cur = Len(devices) /\ cur \in 1..Len(devices) /\ Ahead(devices[cur], chunks)
      /\ ChunkList(chunks, resolved)
  BY <1>1 DEF SetupInv, Positions
<1>3. Registration' /\ FoundDevices' /\ DeviceLists'
  <2>1. /\ pc \notin {"ready"} \cup Calls /\ pc' \notin Calls
        /\ UNCHANGED <<context, devices, found, build>>
    BY <1>1 DEF Calls
  <2>2. Registration'
    BY <2>1, DiscoveryKeepsRegistration
  <2>3. FoundDevices'
    BY <2>1 DEF SetupInv, FoundDevices
  <2>4. DeviceLists'
    BY <2>1 DEF SetupInv, DeviceLists, Apart
  <2> QED BY <2>2, <2>3, <2>4
<1>4. CASE chunks' = Tail(chunks) /\ pc' = pc
  <2>1. PICK t : t = Tail(chunks)
    OBVIOUS
  <2>2. ChunkList(t, resolved) /\ \A i \in 1..Len(t) : i + 1 \in 1..Len(chunks) /\ t[i] = chunks[i + 1]
    BY <1>1, <1>2, <2>1, DropChunk
  <2>3. Ahead(devices[cur], t)
    BY <1>2, <2>2 DEF Ahead
  <2>4. chunks' = t /\ resolved' = resolved /\ devices' = devices /\ cur' = cur /\ pc' = "test_device"
    BY <1>1, <1>4, <2>1
  <2>5. ChunkList(chunks, resolved)'
    BY <2>2, <2>4 DEF ChunkList
  <2>6. Positions'
    BY <1>2, <2>3, <2>4 DEF Positions, Ahead
  <2> QED BY <1>3, <2>5, <2>6 DEF SetupInv
<1>5. CASE pc' = "store_device" /\ chunks' = chunks
  <2>1. Positions'
    BY <1>1, <1>2, <1>5 DEF Positions, Ahead
  <2>2. /\ pc \notin {"ready"} \cup Calls /\ pc' \notin Calls
        /\ UNCHANGED <<build, devices, found, resolved, chunks, context>>
    BY <1>1, <1>5 DEF Calls
  <2> QED BY <2>1, <2>2, QuietDiscovery
<1> QED BY <1>1, <1>4, <1>5

\* An entry for the adapter of the first chunk goes to the end of the list.
LEMMA StoreStep ==
  ASSUME SetupInv, build = "nd", UNCHANGED <<build, found>>, StoreDevice
  PROVE  SetupInv'
<1>1. /\ pc = "store_device" /\ chunks' = Tail(chunks) /\ pc' = "test_device"
      /\ UNCHANGED <<cur, resolved, context>>
  BY DEF StoreDevice
<1>2. PICK d \in OpenDevice(Head(chunks)) :
        devices' = [devices EXCEPT ![cur] = Append(devices[cur], d)]
  BY DEF StoreDevice
<1>3. /\ cur = Len(devices) /\ cur \in 1..Len(devices) /\ Ahead(devices[cur], chunks)
      /\ ChunkList(chunks, resolved) /\ chunks # <<>>
      /\ devices \in Seq(Seq(Entries)) /\ Len(devices) \in Nat
  BY <1>1 DEF SetupInv, Positions, DeviceLists
<1>4. Registration' /\ FoundDevices'
  <2>1. pc \notin {"ready"} \cup Calls /\ pc' \notin Calls
    BY <1>1 DEF Calls
  <2> QED BY <1>1, <2>1, DiscoveryKeepsRegistration DEF SetupInv, FoundDevices
<1> DEFINE id == AdapterOf[Head(Head(chunks))]
<1>5. d \in Entries /\ (d # NoDevice => d \in Usable /\ d.adapter = id)
  BY <1>3, DropChunk, OpenDeviceIsOwn
<1>6. PICK l \in Seq(Entries) : l = devices[cur]
  BY <1>3
<1>7. PICK n \in Nat : n = Len(l)
  BY <1>6
<1>8. PICK m \in Seq(Entries) : m = Append(l, d)
  BY <1>5, <1>6, AppendProperties
<1>9. Len(m) = n + 1 /\ m[n + 1] = d /\ \A k \in 1..n : m[k] = l[k]
  BY <1>5, <1>7, <1>8, AppendProperties
<1>10. PICK ds \in Seq(Seq(Entries)) :
         /\ ds = devices' /\ Len(ds) = Len(devices)
         /\ \A p \in 1..Len(devices) : ds[p] = IF p = cur THEN m ELSE devices[p]
  <2>1. devices' = [devices EXCEPT ![cur] = m]
    BY <1>2, <1>6, <1>8
  <2>2. PICK ds : ds = [devices EXCEPT ![cur] = m]
    OBVIOUS
  <2>3. /\ ds \in Seq(Seq(Entries)) /\ Len(ds) = Len(devices)
        /\ \A p \in 1..Len(devices) : ds[p] = IF p = cur THEN m ELSE devices[p]
    BY <1>3, <2>2, ExceptSeq
  <2>4. ds = devices'
    BY <2>1, <2>2
  <2> QED BY <2>3, <2>4
<1>11. Apart(l) /\ \A p \in 1..Len(devices) : Apart(devices[p])
  BY <1>3, <1>6 DEF SetupInv, DeviceLists
<1>12. \A k \in 1..n : l[k] # NoDevice => l[k].adapter # id
  <2>1. 1 \in 1..Len(chunks) /\ Head(chunks) = chunks[1]
    BY <1>3, DropChunk
  <2> QED BY <1>3, <1>6, <1>7, <2>1 DEF Ahead
<1>13. \A k \in 1..n : l[k] \in Entries
  BY <1>6, <1>7, ElementOfSeq
<1> HIDE DEF id
<1>14. Apart(m)
  <2> SUFFICES ASSUME NEW i \in 1..(n + 1), NEW j \in 1..(n + 1), i # j, m[i] # NoDevice
               PROVE  m[i].adapter # m[j].adapter
    BY <1>9 DEF Apart
  <2>1. CASE i \in 1..n /\ j \in 1..n
    BY <1>7, <1>9, <1>11, <2>1 DEF Apart
  <2>2. CASE i \in 1..n /\ j = n + 1
    <3>1. l[i] # NoDevice /\ m[i] = l[i] /\ m[j] = d
      BY <1>9, <2>2
    <3>2. CASE d = NoDevice
      <4>1. l[i].adapter \in Adapters
        BY <1>13, <2>2, <3>1 DEF Entries, Usable, DeviceRecords
      <4> QED BY <3>1, <3>2, <4>1, AdapterFacts
    <3>3. CASE d # NoDevice
      BY <1>5, <1>12, <2>2, <3>1, <3>3
    <3> QED BY <3>2, <3>3
  <2>3. CASE j \in 1..n /\ i = n + 1
    <3>1. d # NoDevice /\ m[i] = d /\ m[j] = l[j] /\ d.adapter = id /\ d \in Usable
      BY <1>5, <1>9, <2>3
    <3>2. CASE l[j] = NoDevice
      <4>1. d.adapter \in Adapters
        BY <3>1 DEF Usable, DeviceRecords
      <4> QED BY <3>1, <3>2, <4>1, AdapterFacts
    <3>3. CASE l[j] # NoDevice
      BY <1>12, <2>3, <3>1, <3>3
    <3> QED BY <3>2, <3>3
  <2>4. i \in 1..n \/ i = n + 1
    BY <1>7
  <2>5. j \in 1..n \/ j = n + 1
    BY <1>7
  <2> QED BY <2>1, <2>2, <2>3, <2>4, <2>5
<1>15. \A p \in 1..Len(ds) : Apart(ds[p])
  BY <1>10, <1>11, <1>14
<1>16. DeviceLists'
  <2>1. build' # "ibv"
    OBVIOUS
  <2> QED BY <1>10, <1>15, <2>1 DEF DeviceLists, Apart
<1>17. PICK t : t = Tail(chunks)
  OBVIOUS
<1>18. /\ ChunkList(t, resolved)
       /\ \A i \in 1..Len(t) : /\ i + 1 \in 1..Len(chunks) /\ t[i] = chunks[i + 1]
                               /\ AdapterOf[Head(t[i])] # id
  BY <1>3, <1>17, DropChunk DEF id
<1>19. Ahead(m, t)
  <2> SUFFICES ASSUME NEW k \in 1..(n + 1), NEW i \in 1..Len(t), m[k] # NoDevice
               PROVE  m[k].adapter # AdapterOf[Head(t[i])]
    BY <1>9 DEF Ahead
  <2>1. CASE k \in 1..n
    <3>1. m[k] = l[k] /\ t[i] = chunks[i + 1] /\ i + 1 \in 1..Len(chunks)
      BY <1>9, <1>18, <2>1
    <3>2. Ahead(l, chunks)
      BY <1>3, <1>6
    <3> QED BY <1>7, <2>1, <3>1, <3>2 DEF Ahead
  <2>2. CASE k = n + 1
    BY <1>5, <1>9, <1>18, <2>2
  <2>3. k \in 1..n \/ k = n + 1
    BY <1>7
  <2> QED BY <2>1, <2>2, <2>3
<1>20. /\ chunks' = t /\ resolved' = resolved /\ cur' = cur /\ devices' = ds
       /\ ds[cur] = m /\ cur = Len(ds) /\ cur \in 1..Len(ds)
  BY <1>1, <1>3, <1>10, <1>17
<1>21. ChunkList(chunks, resolved)'
  BY <1>18, <1>20 DEF ChunkList
<1>22. Positions'
  BY <1>1, <1>19, <1>20 DEF Positions, Ahead
<1> QED BY <1>4, <1>16, <1>21, <1>22 DEF SetupInv

LEMMA DoneStep ==
  ASSUME SetupInv, build = "nd", UNCHANGED <<build, found>>, DevicesDone
  PROVE  SetupInv'
<1>1. /\ pc = "test_device" /\ chunks = <<>> /\ chunks' = chunks /\ devices' = devices
      /\ cur' = cur + 1 /\ pc' = "discover" /\ UNCHANGED context
  BY DEF DevicesDone
<1>2. cur = Len(devices) /\ Len(devices) \in Nat
  BY <1>1 DEF SetupInv, Positions, DeviceLists
<1>3. Registration' /\ FoundDevices' /\ DeviceLists'
  <2>1. /\ pc \notin {"ready"} \cup Calls /\ pc' \notin Calls
        /\ UNCHANGED <<context, devices, found, build>>
    BY <1>1 DEF Calls
  <2>2. Registration'
    BY <2>1, DiscoveryKeepsRegistration
  <2>3. FoundDevices'
    BY <2>1 DEF SetupInv, FoundDevices
  <2>4. DeviceLists'
    BY <2>1 DEF SetupInv, DeviceLists, Apart
  <2> QED BY <2>2, <2>3, <2>4
<1>4. chunks' = <<>>
  BY <1>1
<1>5. ChunkList(chunks, resolved)'
  BY <1>4 DEF ChunkList
<1>6. Positions'
  BY <1>1, <1>2 DEF Positions
<1> QED BY <1>3, <1>5, <1>6 DEF SetupInv
-----------------------------------------------------------------------------
(* Discovery on ibv. *)

LEMMA GetDevicesStep ==
  ASSUME SetupInv, build = "ibv", UNCHANGED <<build, pipeline>>, GetDevices
  PROVE  SetupInv'
<1>1. /\ pc = "start" /\ UNCHANGED <<devices, context, resolved, chunks, build>>
      /\ pc \notin {"ready"} \cup Calls /\ pc' \notin Calls
  BY DEF GetDevices, pipeline, Calls
<1>2. Registration' /\ DeviceLists' /\ ChunkList(chunks, resolved)' /\ Positions'
  BY <1>1, DiscoveryKeepsRegistration DEF SetupInv, DeviceLists, Apart, ChunkList, Positions
<1>3. FoundDevices'
  <2>1. CASE UNCHANGED found
    BY <2>1 DEF SetupInv, FoundDevices
  <2>2. ASSUME NEW usable \in SetToAllKPermutations(Adapters), found' = CreateDevices(usable)
        PROVE  FoundDevices'
    <3>1. PICK S \in SUBSET Adapters : usable \in SetToSeqs(S)
      BY DEF SetToAllKPermutations
    <3>2. IsFiniteSet(S)
      BY AdapterFacts, FS_Subset
    <3>3. /\ Len(usable) \in Nat /\ usable \in [1..Len(usable) -> S]
          /\ \A i, j \in 1..Len(usable) : i # j => usable[i] # usable[j]
      BY <3>1, <3>2, EnumerationFacts
    <3>4. PICK n \in Nat : n = Len(usable)
      BY <3>3
    <3>5. PICK fs : /\ fs = found'
                    /\ fs = [i \in 1..n |-> [NoDevice EXCEPT !.adapter = usable[i]]]
      BY <2>2, <3>4 DEF CreateDevices
    <3>6. Len(fs) = n
      BY <3>4, <3>5
    <3>7. ASSUME NEW i \in 1..n
          PROVE  /\ usable[i] \in Adapters /\ fs[i] = [NoDevice EXCEPT !.adapter = usable[i]]
                 /\ fs[i].adapter = usable[i]
      BY <3>3, <3>4, <3>5 DEF NoDevice
    <3>8. \A i, j \in 1..n : i # j => fs[i].adapter # fs[j].adapter
      <4> SUFFICES ASSUME NEW i \in 1..n, NEW j \in 1..n, i # j
                   PROVE  fs[i].adapter # fs[j].adapter
        OBVIOUS
      <4>1. fs[i].adapter = usable[i] /\ fs[j].adapter = usable[j]
        BY <3>7
      <4>2. usable[i] # usable[j]
        BY <3>3, <3>4
      <4> QED BY <4>1, <4>2
    <3>9. \A i \in 1..n : \E id \in Adapters : fs[i] = [NoDevice EXCEPT !.adapter = id]
      BY <3>7
    <3>10. found' = fs
      BY <3>5
    <3> HIDE <2>2, <3>5
    <3> QED BY <3>6, <3>8, <3>9, <3>10 DEF FoundDevices
  <2> QED BY <2>1, <2>2 DEF GetDevices
<1> QED BY <1>1, <1>2, <1>3 DEF SetupInv

\* What is kept of the devices found.
LEMMA AddressableIsOwn ==
  ASSUME FoundDevices, NEW list \in AddrLists(Addrs),
         NEW bindable \in SUBSET (ToSet(list) \cap Candidates),
         NEW kept \in Addressable(AttachLocal(list, bindable))
  PROVE  /\ kept \in Seq(Usable) /\ Len(kept) \in Nat
         /\ \A i, j \in 1..Len(kept) : i # j => kept[i].adapter # kept[j].adapter
<1>1. list \in Seq(Addrs) /\ bindable \subseteq Addrs
  BY ListsOfAddresses DEF Candidates
<1>2. PICK n \in Nat : n = Len(found)
  BY DEF FoundDevices
<1>3. PICK ds : ds = AttachLocal(list, bindable)
  OBVIOUS
<1> DEFINE mine(i) == {a \in bindable : AdapterOf[a] = found[i].adapter}
<1>4. ds = [i \in 1..n |-> AttachAddress(found[i], list, mine(i))]
  BY <1>2, <1>3 DEF AttachLocal
<1>5. Len(ds) = n
  BY <1>2, <1>4
<1>6. ASSUME NEW i \in 1..n
      PROVE  ds[i] \in DeviceRecords /\ HasOwn(ds[i]) /\ ds[i].adapter = found[i].adapter
  <2>1. PICK id \in Adapters : found[i] = [NoDevice EXCEPT !.adapter = id]
    BY <1>2 DEF FoundDevices
  <2>2. found[i].adapter = id
    BY <2>1 DEF NoDevice
  <2>3. mine(i) \in SUBSET {a \in Addrs : AdapterOf[a] = id}
    BY <1>1, <2>2
  <2>4. ds[i] = AttachAddress(found[i], list, mine(i))
    BY <1>4
  <2> HIDE DEF mine
  <2> QED BY <1>1, <2>1, <2>2, <2>3, <2>4, AttachAddressIsOwn
<1>7. \A i, j \in 1..n : i # j => ds[i].adapter # ds[j].adapter
  BY <1>2, <1>6 DEF FoundDevices
<1>8. PICK order \in Upwards({i \in 1..n : HasLocalAddress(ds[i])}) :
        kept = [k \in 1..Len(order) |-> ds[order[k]]]
  BY <1>3, <1>5 DEF Addressable
<1> DEFINE S == {i \in 1..n : HasLocalAddress(ds[i])}
<1>9. /\ Len(order) \in Nat /\ order \in [1..Len(order) -> S]
      /\ \A i, j \in 1..Len(order) : i < j => order[i] < order[j]
  <2>1. S \in SUBSET (1..n)
    OBVIOUS
  <2> HIDE DEF S
  <2> QED BY <1>2, <1>8, <2>1, UpwardsFacts DEF S
<1>10. PICK m \in Nat : m = Len(order)
  BY <1>9
<1>11. kept = [k \in 1..m |-> ds[order[k]]] /\ Len(kept) = m
  BY <1>8, <1>10
<1>12. ASSUME NEW k \in 1..m
       PROVE  order[k] \in 1..n /\ kept[k] = ds[order[k]] /\ kept[k] \in Usable
  <2>1. order[k] \in S
    BY <1>9, <1>10
  <2>2. order[k] \in 1..n /\ HasLocalAddress(ds[order[k]])
    BY <2>1
  <2>3. kept[k] = ds[order[k]]
    BY <1>11
  <2> QED BY <1>6, <2>2, <2>3 DEF Usable, HasLocalAddress
<1>13. kept \in Seq(Usable)
  BY <1>10, <1>11, <1>12
<1>14. ASSUME NEW i \in 1..m, NEW j \in 1..m, i # j PROVE kept[i].adapter # kept[j].adapter
  <2>1. i < j \/ j < i
    BY <1>10, <1>14
  <2>2. order[i] < order[j] \/ order[j] < order[i]
    BY <1>9, <1>10, <2>1
  <2>3. order[i] # order[j]
    BY <1>12, <2>2
  <2> QED BY <1>7, <1>12, <2>3
<1> QED BY <1>10, <1>11, <1>13, <1>14

LEMMA AttachStep ==
  ASSUME SetupInv, build = "ibv", UNCHANGED <<build, pipeline>>, AttachAddresses
  PROVE  SetupInv'
<1>1. /\ pc = "attach" /\ UNCHANGED <<context, resolved, chunks, build>> /\ found' = <<>>
      /\ pc \notin {"ready"} \cup Calls /\ pc' \notin Calls
  BY DEF AttachAddresses, pipeline, Calls
<1>2. Registration' /\ ChunkList(chunks, resolved)' /\ Positions'
  BY <1>1, DiscoveryKeepsRegistration DEF SetupInv, ChunkList, Positions
<1>3. FoundDevices'
  BY <1>1 DEF FoundDevices
<1>4. DeviceLists'
  <2>1. CASE UNCHANGED devices
    BY <1>1, <2>1 DEF SetupInv, DeviceLists, Apart
  <2>2. ASSUME NEW list \in AddrLists(Addrs),
               NEW bindable \in SUBSET (ToSet(list) \cap Candidates),
               NEW kept \in Addressable(AttachLocal(list, bindable)), devices' = <<kept>>
        PROVE  DeviceLists'
    <3>1. /\ kept \in Seq(Usable) /\ Len(kept) \in Nat
          /\ \A i, j \in 1..Len(kept) : i # j => kept[i].adapter # kept[j].adapter
      BY AddressableIsOwn DEF SetupInv
    <3>2. kept \in Seq(Entries)
      BY <3>1, SeqMonotonic DEF Entries
    <3>3. \A i \in 1..Len(kept) : kept[i] # NoDevice
      <4>1. \A i \in 1..Len(kept) : kept[i] \in Usable
        BY <3>1, ElementOfSeq
      <4> QED BY <4>1, AdapterFacts
    <3>4. Apart(kept)
      BY <3>1 DEF Apart
    <3>5. PICK ds \in Seq(Seq(Entries)) : ds = <<kept>>
      <4>1. <<kept>> \in Seq(Seq(Entries))
        <5>1. PICK E : E = Seq(Entries)
          OBVIOUS
        <5>2. kept \in E
          BY <3>2, <5>1
        <5>3. <<kept>> \in Seq(E)
          BY <5>2
        <5> QED BY <5>1, <5>3
      <4> QED BY <4>1
    <3>6. Len(ds) = 1 /\ ds[1] = kept /\ \A p \in 1..Len(ds) : ds[p] = kept
      BY <3>5
    <3>7. devices' = ds
      BY <2>2, <3>5
    <3>8. \A p \in 1..Len(ds) : Apart(ds[p])
      BY <3>4, <3>6
    <3>9. \A p \in 1..Len(ds) : \A i \in 1..Len(ds[p]) : ds[p][i] # NoDevice
      BY <3>3, <3>6
    <3> HIDE <2>2, <3>5
    <3> QED BY <3>5, <3>7, <3>8, <3>9 DEF DeviceLists, Apart
  <2> QED BY <2>1, <2>2 DEF AttachAddresses
<1> QED BY <1>1, <1>2, <1>3, <1>4 DEF SetupInv
-----------------------------------------------------------------------------
(* use_device and shutdown. *)

\* Only the services of the io_context change.
LEMMA ServiceSteps ==
  ASSUME SetupInv, UNCHANGED <<build, devices, pipeline, found>>, Registration',
         pc' = pc \/ pc' \in {"ready"} \cup Calls
  PROVE  SetupInv'
<1>1. /\ build' = build /\ devices' = devices /\ found' = found
      /\ resolved' = resolved /\ chunks' = chunks /\ cur' = cur
  BY DEF pipeline
<1>2. DeviceLists'
  BY <1>1 DEF SetupInv, DeviceLists, Apart
<1>3. FoundDevices'
  BY <1>1 DEF SetupInv, FoundDevices
<1>4. ChunkList(chunks, resolved)'
  BY <1>1 DEF SetupInv, ChunkList
<1>5. Positions'
  <2>1. CASE pc' = pc
    BY <1>1, <2>1 DEF SetupInv, Positions, Ahead
  <2>2. CASE pc' \in {"ready"} \cup Calls
    BY <2>2 DEF Positions, Calls
  <2> QED BY <2>1, <2>2
<1> QED BY <1>1, <1>2, <1>3, <1>4, <1>5 DEF SetupInv

LEMMA ListedDevices ==
  ASSUME SetupInv, NEW d \in AllDevices
  PROVE  (d = NoDevice => build = "nd") /\ (d # NoDevice => d \in Usable)
<1>1. devices \in Seq(Seq(Entries))
  BY DEF SetupInv, DeviceLists
<1>2. PICK p \in 1..Len(devices) : \E i \in 1..Len(devices[p]) : d = devices[p][i]
  BY <1>1, InAllDevices
<1>3. PICK i \in 1..Len(devices[p]) : d = devices[p][i]
  BY <1>2
<1>4. devices[p] \in Seq(Entries)
  BY <1>1
<1>5. d \in Entries
  BY <1>3, <1>4
<1> QED BY <1>2, <1>3, <1>5 DEF SetupInv, DeviceLists, Entries

\* What fits goes on fitting while the device lists stay.
LEMMA FitsStays ==
  ASSUME UNCHANGED <<build, devices>>, NEW d, NEW c, Fits(d, c)
  PROVE  Fits(d, c)'
<1>1. Found' = Found /\ Limited' = Limited
  BY DEF Found, Limited, AllDevices
<1> QED BY <1>1 DEF Fits

\* use_device up to its first native call: refused, or with a device and a
\* configuration that fit.
LEMMA StartStep ==
  ASSUME SetupInv, UNCHANGED <<build, devices, pipeline, found>>, pc = "ready",
         NEW r \in {"already_registered", "invalid_device", "invalid_config", "none"},
         NEW d, NEW c, StartUse(r, d, c),
         r = "already_registered" => registered \/ cq,
         r = "none" => ~registered /\ Fits(d, c)
  PROVE  SetupInv'
<1>1. UNCHANGED <<registered, device, effective, cq, cq_handle>> /\ ec' = r
  BY DEF StartUse
<1>2. /\ registered \in BOOLEAN /\ cq \in BOOLEAN /\ cq_handle \in BOOLEAN
      /\ registered => Fits(device, effective)
      /\ cq <=> registered
      /\ cq_handle <=> registered
  BY DEF SetupInv, Registration
<1>3. registered' => Fits(device, effective)'
  <2> SUFFICES ASSUME registered' PROVE Fits(device, effective)'
    OBVIOUS
  <2>1. PICK x, y : x = device /\ y = effective
    OBVIOUS
  <2>2. Fits(x, y)
    BY <1>1, <1>2, <2>1
  <2>3. Fits(x, y)'
    BY <2>2, FitsStays
  <2> QED BY <1>1, <2>1, <2>3 DEF Fits
<1>4. CASE r = "none"
  <2>1. /\ pc' = "create_handle" /\ call' = [device |-> d, effective |-> c]
        /\ registered = FALSE /\ Fits(d, c)
    BY <1>2, <1>4 DEF StartUse
  <2>2. Fits(d, c)'
    BY <2>1, FitsStays
  <2>3. Fits(call.device, call.effective)'
    <3>1. call'.device = d /\ call'.effective = c
      BY <2>1
    <3> QED BY <2>2, <3>1 DEF Fits
  <2>4. Registration'
    BY <1>1, <1>2, <1>4, <2>1, <2>3 DEF Registration, Calls
  <2> QED BY <2>1, <2>4, ServiceSteps DEF Calls
<1>5. CASE r # "none"
  <2>1. pc' = "ready"
    BY <1>5 DEF StartUse
  <2>2. Registration'
    BY <1>1, <1>2, <1>3, <2>1 DEF Registration, Calls
  <2> QED BY <2>1, <2>2, ServiceSteps
<1> QED BY <1>4, <1>5

LEMMA NdUseStep ==
  ASSUME SetupInv, NEW d \in AllDevices \cup {NoDevice}, NEW c \in Configs, build = "nd",
         NdUseDevice(d, c), UNCHANGED <<build, devices, pipeline, found>>
  PROVE  SetupInv'
<1>1. PICK r : r = NdRefusal(d, c)
  OBVIOUS
<1>2. PICK e : e = IF r = "none" THEN NdEffective(c, d) ELSE NoConfig
  OBVIOUS
<1>3. pc = "ready" /\ StartUse(r, d, e)
  BY <1>1, <1>2 DEF NdUseDevice
<1>4. /\ r \in {"already_registered", "invalid_device", "invalid_config", "none"}
      /\ r = "already_registered" => registered \/ cq
      /\ r = "none" => ~registered /\ d # NoDevice /\ NdCompatible(c, d)
  BY <1>1 DEF NdRefusal
<1>5. ASSUME r = "none" PROVE Fits(d, e)
  <2>1. d \in Usable /\ d \in Found
    BY <1>4, <1>5, ListedDevices DEF Found
  <2>2. e = NdEffective(c, d)
    BY <1>2, <1>5
  <2>3. (\A f \in Limited : e[f] <= Cap[d.adapter][f]) /\ (\A f \in Free : e[f] > 0)
    BY <1>4, <1>5, <2>1, <2>2, NdEffectiveFits DEF Limited
  <2> QED BY <2>1, <2>3 DEF Fits
<1> QED BY <1>3, <1>4, <1>5, StartStep

LEMMA IbvUseStep ==
  ASSUME SetupInv, NEW d \in AllDevices \cup {NoDevice}, NEW c \in Configs, build = "ibv",
         IbvUseDevice(d, c), UNCHANGED <<build, devices, pipeline, found>>
  PROVE  SetupInv'
<1>1. PICK r : r = IbvRefusal(d, c)
  OBVIOUS
<1>2. PICK e : e = IF r = "none" THEN IbvEffective(c, d) ELSE NoConfig
  OBVIOUS
<1>3. pc = "ready" /\ StartUse(r, d, e)
  BY <1>1, <1>2 DEF IbvUseDevice
<1>4. /\ r \in {"already_registered", "invalid_device", "invalid_config", "none"}
      /\ r = "already_registered" => registered \/ cq
      /\ r = "none" => ~registered /\ d # NoDevice /\ IbvCompatible(c, d)
  BY <1>1 DEF IbvRefusal
<1>5. ASSUME r = "none" PROVE Fits(d, e)
  <2>1. d \in Usable /\ d \in Found
    BY <1>4, <1>5, ListedDevices DEF Found
  <2>2. e = IbvEffective(c, d)
    BY <1>2, <1>5
  <2>3. (\A f \in Limited : e[f] <= Cap[d.adapter][f]) /\ (\A f \in Free : e[f] > 0)
    BY <1>4, <1>5, <2>1, <2>2, IbvEffectiveFits DEF Limited
  <2> QED BY <2>1, <2>3 DEF Fits
<1> QED BY <1>3, <1>4, <1>5, StartStep

\* The native calls, of either backend: a call that succeeds adds its part, the
\* last one registers, and one that fails takes back what there is.
LEMMA CallStep ==
  ASSUME SetupInv, UNCHANGED <<build, devices, pipeline, found>>,
         \/ /\ pc = "create_handle" /\ cq' = cq
            /\ cq_handle' = TRUE /\ Proceed("create_cq")
         \/ /\ pc = "create_cq" /\ cq_handle' = cq_handle
            /\ cq' = TRUE /\ Proceed("register")
         \/ /\ pc = "register" /\ cq' = cq /\ cq_handle' = cq_handle
            /\ RegisterDevice
         \/ /\ pc \in Calls /\ cq' = FALSE /\ cq_handle' = FALSE
            /\ UseFails
  PROVE  SetupInv'
<1>1. pc \in Calls
  BY DEF Calls
<1>2. /\ registered = FALSE /\ ec # "already_registered"
      /\ cq \in BOOLEAN /\ cq_handle \in BOOLEAN
      /\ cq <=> pc = "register"
      /\ cq_handle <=> pc \in {"create_cq", "register"}
  BY <1>1 DEF SetupInv, Registration, Calls
<1>3. PICK x, y : x = call.device /\ y = call.effective /\ Fits(x, y)
  BY <1>1 DEF SetupInv, Registration
<1>4. Fits(x, y)'
  BY <1>3, FitsStays
<1>5. CASE /\ pc = "create_handle" /\ cq' = cq
           /\ cq_handle' = TRUE /\ Proceed("create_cq")
  <2>1. pc' = "create_cq" /\ UNCHANGED <<registered, call, ec>>
    BY <1>5 DEF Proceed
  <2>2. Fits(call.device, call.effective)'
    BY <1>3, <1>4, <2>1 DEF Fits
  <2>3. Registration'
    BY <1>2, <1>5, <2>1, <2>2 DEF Registration, Calls
  <2> QED BY <2>1, <2>3, ServiceSteps DEF Calls
<1>6. CASE /\ pc = "create_cq" /\ cq_handle' = cq_handle
           /\ cq' = TRUE /\ Proceed("register")
  <2>1. pc' = "register" /\ UNCHANGED <<registered, call, ec>>
    BY <1>6 DEF Proceed
  <2>2. Fits(call.device, call.effective)'
    BY <1>3, <1>4, <2>1 DEF Fits
  <2>3. Registration'
    BY <1>2, <1>6, <2>1, <2>2 DEF Registration, Calls
  <2> QED BY <2>1, <2>3, ServiceSteps DEF Calls
<1>7. CASE /\ pc = "register" /\ cq' = cq /\ cq_handle' = cq_handle
           /\ RegisterDevice
  <2>1. /\ pc' = "ready" /\ registered' = TRUE /\ ec' = "ok"
        /\ device' = x /\ effective' = y
    BY <1>3, <1>7 DEF RegisterDevice
  <2>2. Fits(device, effective)'
    BY <1>4, <2>1 DEF Fits
  <2>3. Registration'
    BY <1>2, <1>7, <2>1, <2>2 DEF Registration, Calls
  <2> QED BY <2>1, <2>3, ServiceSteps
<1>8. CASE /\ pc \in Calls /\ cq' = FALSE /\ cq_handle' = FALSE
           /\ UseFails
  <2>1. pc' = "ready" /\ registered' = FALSE /\ ec' = "error"
    BY <1>2, <1>8 DEF UseFails
  <2>2. Registration'
    BY <1>8, <2>1 DEF Registration, Calls
  <2> QED BY <2>1, <2>2, ServiceSteps
<1> QED BY <1>5, <1>6, <1>7, <1>8

LEMMA InitializeStep == SetupInv /\ Initialize => SetupInv'
<1> SUFFICES ASSUME SetupInv, Initialize PROVE SetupInv'
  OBVIOUS
<1>1. UNCHANGED <<build, devices, pipeline, found>>
  BY DEF Initialize, NdInitialize, IbvInitialize
<1>2. pc = "create_handle" => cq = FALSE /\ cq_handle = FALSE
  BY DEF SetupInv, Registration
<1>3. \/ IbvCreateChannel \/ IbvCreateCq \/ RegisterDescriptor
      \/ NdCreateFile \/ NdCreateCq \/ RegisterHandle
  BY DEF Initialize, NdInitialize, IbvInitialize
<1>4. \/ /\ pc = "create_handle" /\ cq' = cq
         /\ cq_handle' = TRUE /\ Proceed("create_cq")
      \/ /\ pc = "create_cq" /\ cq_handle' = cq_handle
         /\ cq' = TRUE /\ Proceed("register")
      \/ /\ pc = "register" /\ cq' = cq /\ cq_handle' = cq_handle
         /\ RegisterDevice
      \/ /\ pc \in Calls /\ cq' = FALSE /\ cq_handle' = FALSE
         /\ UseFails
  BY <1>2, <1>3 DEF IbvCreateChannel, IbvCreateCq, RegisterDescriptor, NdCreateFile,
     NdCreateCq, RegisterHandle, Calls
<1> QED BY <1>1, <1>4, CallStep

LEMMA NextSetup == SetupInv /\ [SetupNext]_setupvars => SetupInv'
<1> SUFFICES ASSUME SetupInv, [SetupNext]_setupvars PROVE SetupInv'
  OBVIOUS
<1>1. CASE UNCHANGED setupvars
  <2>1. UNCHANGED <<build, pc, devices, pipeline, found>> /\ UNCHANGED context
    BY <1>1 DEF setupvars
  <2>2. Registration'
    BY <2>1 DEF SetupInv, Registration, Fits, Found, AllDevices, Limited, context
  <2> QED BY <2>1, <2>2, ServiceSteps
<1>2. CASE NdDiscover /\ UNCHANGED found
  <2>1. build = "nd" /\ UNCHANGED <<build, found>>
    BY <1>2 DEF NdDiscover
  <2>2. \/ Startup \/ EnumerateProtos \/ TestProvider \/ StoreProvider \/ ProvidersDone
        \/ DiscoverProvider \/ TestDevice \/ StoreDevice \/ DevicesDone \/ ManagerReady
    BY <1>2 DEF NdDiscover
  <2> QED BY <2>1, <2>2, ProviderSteps, DiscoverStep, TestStep, StoreStep, DoneStep
<1>3. CASE IbvDiscover /\ UNCHANGED pipeline
  <2>1. build = "ibv" /\ UNCHANGED <<build, pipeline>> /\ (GetDevices \/ AttachAddresses)
    BY <1>3 DEF IbvDiscover
  <2> QED BY <2>1, GetDevicesStep, AttachStep
<1>4. CASE Retry /\ UNCHANGED <<pipeline, found>>
  <2>1. /\ pc = "failed" /\ pc' = "start"
        /\ pc \notin {"ready"} \cup Calls /\ pc' \notin Calls
        /\ UNCHANGED <<build, devices, found, context>>
        /\ UNCHANGED <<resolved, chunks, cur>>
    BY <1>4 DEF Retry, pipeline, Calls
  <2>2. Positions'
    BY <2>1 DEF SetupInv, Positions
  <2> QED BY <2>1, <2>2, QuietDiscovery
<1>5. CASE UseDevice
  BY <1>5, NdUseStep, IbvUseStep DEF UseDevice
<1>7. CASE Initialize
  BY <1>7, InitializeStep
<1>6. CASE ShutdownServices /\ UNCHANGED <<pipeline, found>>
  <2>1. /\ UNCHANGED <<build, pc, devices, pipeline, found>> /\ pc' = "ready"
        /\ registered' = FALSE /\ cq' = FALSE /\ cq_handle' = FALSE /\ ec' = "none"
    BY <1>6 DEF ShutdownServices
  <2>2. Registration'
    BY <2>1 DEF Registration, Calls
  <2> QED BY <2>1, <2>2, ServiceSteps
<1> QED BY <1>1, <1>2, <1>3, <1>4, <1>5, <1>6, <1>7 DEF SetupNext
-----------------------------------------------------------------------------
(* What the invariant gives. *)

\* The first device that fits is one that does, and none is missed.
LEMMA FirstDeviceFits ==
  ASSUME SetupInv, NEW fit, fit \subseteq AllDevices, NoDevice \notin fit
  PROVE  IF FirstDevice(fit) = NoDevice THEN fit = {} ELSE FirstDevice(fit) \in fit
<1> DEFINE n == Len(devices)
           firsts == [p \in 1..n |-> FirstIn(devices[p], fit, NoDevice)]
<1>1. devices \in Seq(Seq(Entries)) /\ n \in Nat
  BY DEF SetupInv, DeviceLists
<1>2. \A p \in 1..n : Len(devices[p]) \in Nat
  BY <1>1
<1>3. Len(firsts) = n /\ \A p \in 1..n : firsts[p] = FirstIn(devices[p], fit, NoDevice)
  BY <1>1
<1>4. FirstDevice(fit) = FirstIn(firsts, fit, NoDevice)
  BY DEF FirstDevice
<1> HIDE DEF firsts
<1>5. CASE \E p \in 1..n : firsts[p] \in fit
  <2>1. FirstIn(firsts, fit, NoDevice) \in fit
    BY <1>1, <1>3, <1>5, FirstInFacts
  <2> QED BY <1>4, <2>1
<1>6. CASE ~(\E p \in 1..n : firsts[p] \in fit)
  <2>1. FirstIn(firsts, fit, NoDevice) = NoDevice
    BY <1>1, <1>3, <1>6, FirstInFacts
  <2>2. ASSUME NEW d \in fit PROVE FALSE
    <3>1. PICK p \in 1..n : \E i \in 1..Len(devices[p]) : d = devices[p][i]
      BY <1>1, InAllDevices
    <3>2. \E i \in 1..Len(devices[p]) : devices[p][i] \in fit
      BY <3>1
    <3>3. FirstIn(devices[p], fit, NoDevice) \in fit
      BY <1>2, <3>2, FirstInFacts
    <3> QED BY <1>3, <1>6, <3>3
  <2> QED BY <1>4, <2>1, <2>2
<1> QED BY <1>5, <1>6

\* On a device of the list the two checks of the capabilities agree.
LEMMA ChecksAgree ==
  ASSUME NEW d \in Usable, NEW c \in Configs
  PROVE  IsValidAdapter(d, c) <=> NdCompatible(c, d)
<1>1. d # NoDevice
  BY AdapterFacts
<1>2. \A f \in NdLimited : c[f] \in Nat /\ Cap[d.adapter][f] \in Nat
  BY CapFacts, ConfigFacts DEF NdLimited, Fields
<1>3. \A f \in NdLimited : c[f] <= Cap[d.adapter][f]
                             <=> (c[f] = 0 \/ c[f] <= Cap[d.adapter][f])
  BY <1>2
<1> QED BY <1>1, <1>3 DEF IsValidAdapter, NdCompatible

LEMMA SelectionFits ==
  ASSUME SetupInv
  PROVE  SelectionIsUsable
<1>0. ASSUME NEW c \in Configs
      PROVE  LET accepts(e) == IF build = "nd" THEN NdCompatible(c, e) ELSE IbvCompatible(c, e)
                 d == IF build = "nd" THEN NdFirstAvailable(c) ELSE IbvFirstAvailable(c)
                 usable == {e \in Found : accepts(e)}
             IN IF d = NoDevice THEN usable = {} ELSE d \in usable
  <2>1. CASE build = "nd"
    <3> DEFINE fit == {e \in AllDevices : IsValidAdapter(e, c)}
               usable == {e \in Found : NdCompatible(c, e)}
    <3>1. fit = usable
      <4>1. ASSUME NEW e \in AllDevices, e # NoDevice
            PROVE  IsValidAdapter(e, c) <=> NdCompatible(c, e)
        BY <4>1, ListedDevices, ChecksAgree
      <4>2. \A e : IsValidAdapter(e, c) => e # NoDevice
        BY DEF IsValidAdapter
      <4> QED BY <4>1, <4>2 DEF Found
    <3>2. fit \subseteq AllDevices /\ NoDevice \notin fit
      BY DEF IsValidAdapter
    <3>3. NdFirstAvailable(c) = FirstDevice(fit)
      BY DEF NdFirstAvailable
    <3> HIDE DEF fit, usable
    <3>4. IF FirstDevice(fit) = NoDevice THEN usable = {} ELSE FirstDevice(fit) \in usable
      BY <3>1, <3>2, FirstDeviceFits
    <3> QED BY <2>1, <3>3, <3>4 DEF usable
  <2>2. CASE build # "nd"
    <3> DEFINE fit == {e \in AllDevices : IbvCompatible(c, e)}
               usable == {e \in Found : IbvCompatible(c, e)}
    <3>1. NoDevice \notin AllDevices
      BY <2>2, ListedDevices
    <3>2. fit = usable /\ fit \subseteq AllDevices /\ NoDevice \notin fit
      BY <3>1 DEF Found
    <3>3. IbvFirstAvailable(c) = FirstDevice(fit)
      BY DEF IbvFirstAvailable
    <3> HIDE DEF fit, usable
    <3>4. IF FirstDevice(fit) = NoDevice THEN usable = {} ELSE FirstDevice(fit) \in usable
      BY <3>2, FirstDeviceFits
    <3> QED BY <2>2, <3>3, <3>4 DEF usable
  <2> QED BY <2>1, <2>2
<1> QED BY <1>0 DEF SelectionIsUsable

LEMMA InvGivesDevices ==
  ASSUME SetupInv
  PROVE  OneDevicePerAdapter /\ AddressesAreOwn
<1>1. OneDevicePerAdapter
  BY DEF SetupInv, ChunkList, DeviceLists, Apart, OneDevicePerAdapter
<1>2. ASSUME NEW d \in Found
      PROVE  HasOwn(d) /\ ~(d.v4 = None /\ d.v6 = None)
  <2>1. d \in AllDevices /\ d # NoDevice
    BY DEF Found
  <2>2. d \in Usable
    BY <2>1, ListedDevices
  <2> QED BY <2>2 DEF Usable
<1> QED BY <1>1, <1>2 DEF AddressesAreOwn, HasOwn

\* The lists discovery leaves, where each pipeline is in them, the groups it
\* works on and what use_device registered fit together in every reachable
\* state of either backend, for any set of addresses and adapters.
THEOREM SetupInvariant == SetupSpec => []SetupInv
BY InitSetup, NextSetup, PTL DEF SetupSpec

\* However the providers list their addresses and whatever order the sort
\* leaves, chunk_by yields one group for each adapter and no list has two
\* devices of one adapter.
THEOREM DevicesPerAdapter == SetupSpec => []OneDevicePerAdapter
<1>1. SetupInv => OneDevicePerAdapter
  BY InvGivesDevices
<1> QED BY <1>1, SetupInvariant, PTL

\* Every device a program can get has an address to bind to, of the family
\* its getter names and on its own adapter.
THEOREM AddressesOwn == SetupSpec => []AddressesAreOwn
<1>1. SetupInv => AddressesAreOwn
  BY InvGivesDevices
<1> QED BY <1>1, SetupInvariant, PTL

\* get_first_available_device and use_device agree on every configuration.
THEOREM SelectionUsable == SetupSpec => []SelectionIsUsable
<1>1. SetupInv => SelectionIsUsable
  BY SelectionFits
<1> QED BY <1>1, SetupInvariant, PTL

\* use_device registers a CQ, its handle and a configuration the adapter
\* supports, or, whichever of its native calls failed, leaves nothing that a
\* later call would take for a registration.
THEOREM RegistrationWhole == SetupSpec => []RegistrationIsWhole
<1>1. SetupInv => RegistrationIsWhole
  BY DEF SetupInv, Registration, Fits, RegistrationIsWhole
<1> QED BY <1>1, SetupInvariant, PTL
=============================================================================
