-------------------------- MODULE QueuePairProofs ---------------------------
(***************************************************************************)
(* Ownership of native queue pairs, for any number of queue pair objects,  *)
(* connectors, operations and native queue pairs, on both backends.        *)
(***************************************************************************)
EXTENDS QueuePair, TLAPS

QpType == [cq : Modes \cup {"none"}, native : Natives \cup {None}]

OpType == [kind : {"none", "connect", "accept", "move"},
           conn : Conns \cup {None}, at : Slots \cup {None},
           stage : {"none", "resolving", "started", "posted", "done"},
           ec : {"none", "ok", "error"}, kept : BOOLEAN]

LEMMA TypeFacts ==
  ASSUME TypeOK
  PROVE  /\ qp \in [Slots -> QpType] /\ op \in [Ops -> OpType]
         /\ \A x \in Slots : qp[x] = [cq |-> qp[x].cq, native |-> qp[x].native]
BY DEF TypeOK, QpType, OpType

LEMMA EmptyFacts ==
  Empty \in QpType /\ Empty.cq = "none" /\ Empty.native = None
BY DEF Empty, QpType

(* What the operators of the model return. *)

\* bind() leaves a native queue pair, fresh, only on nd and only on success.
LEMMA BindFacts ==
  ASSUME TypeOK, NEW m \in Modes, NEW r \in BindResults(m)
  PROVE  /\ r.qp \in QpType /\ r.ec \in {"ok", "error"}
         /\ r.qp.native # None => /\ backend = "nd" /\ r.ec = "ok"
                                  /\ r.qp.cq # "none" /\ r.qp.native \in Unused
         /\ r.ec = "ok" => r.qp.cq # "none" /\ (backend = "nd" => r.qp.native # None)
         /\ r.qp.cq = "event" /\ (backend = "ibv" \/ r.qp.native # None) =>
              m = "event" /\ r.ec = "ok"
<1> USE NoneAssumption DEF TypeOK, QpType, Unused, Modes
<1>1. CASE r = [qp |-> Empty, ec |-> "error"]
  BY <1>1 DEF Empty
<1>2. CASE backend = "ibv" /\ r = [qp |-> [cq |-> m, native |-> None], ec |-> "ok"]
  BY <1>2
<1>3. CASE /\ backend = "nd"
           /\ \E n \in Unused : r = [qp |-> [cq |-> m, native |-> n], ec |-> "ok"]
  BY <1>3
<1>4. CASE backend = "nd" /\ r = [qp |-> [cq |-> m, native |-> None], ec |-> "error"]
  BY <1>4
<1> QED
  BY <1>1, <1>2, <1>3, <1>4 DEF BindResults

LEMMA MadeFacts ==
  ASSUME TypeOK, NEW r, r.qp \in QpType
  PROVE  /\ Made(r) \in [Natives -> {"none", "live", "destroyed"}]
         /\ \A n \in Natives : Made(r)[n] = IF n = r.qp.native THEN "live" ELSE native[n]
BY DEF TypeOK, Made

LEMMA ReleasedFacts ==
  ASSUME TypeOK, NEW x \in Slots
  PROVE  /\ Released(x) \in [Natives -> {"none", "live", "destroyed"}]
         /\ \A n \in Natives : Released(x)[n] =
              IF backend = "nd" /\ n = qp[x].native THEN "destroyed" ELSE native[n]
BY DEF TypeOK, Released

LEMMA DisturbedFacts ==
  ASSUME TypeOK, NEW xs
  PROVE  /\ Disturbed(xs) \in [Ops -> OpType]
         /\ \A p \in Ops :
              /\ Disturbed(xs)[p].kind = op[p].kind /\ Disturbed(xs)[p].conn = op[p].conn
              /\ Disturbed(xs)[p].at = op[p].at /\ Disturbed(xs)[p].stage = op[p].stage
              /\ Disturbed(xs)[p].ec = op[p].ec
              /\ Disturbed(xs)[p].kept <=> op[p].kept /\ op[p].at \notin xs
<1>1. op \in [Ops -> OpType]
  BY TypeFacts
<1>2. ASSUME NEW p \in Ops
      PROVE  /\ Disturbed(xs)[p] \in OpType
             /\ Disturbed(xs)[p].kind = op[p].kind /\ Disturbed(xs)[p].conn = op[p].conn
             /\ Disturbed(xs)[p].at = op[p].at /\ Disturbed(xs)[p].stage = op[p].stage
             /\ Disturbed(xs)[p].ec = op[p].ec
             /\ Disturbed(xs)[p].kept <=> op[p].kept /\ op[p].at \notin xs
  <2>1. CASE op[p].at \in xs
    <3>1. Disturbed(xs)[p] = [op[p] EXCEPT !.kept = FALSE]
      BY <2>1 DEF Disturbed
    <3> QED BY <1>1, <2>1, <3>1 DEF OpType
  <2>2. CASE op[p].at \notin xs
    <3>1. Disturbed(xs)[p] = op[p]
      BY <2>2 DEF Disturbed
    <3> QED BY <1>1, <2>2, <3>1
  <2> QED BY <2>1, <2>2
<1> QED
  BY <1>2 DEF Disturbed

LEMMA GivenFacts ==
  ASSUME TypeOK, NEW o \in Ops, NEW k \in {"connect", "accept", "move"},
         NEW c \in Conns, NEW x \in Slots,
         NEW st \in {"resolving", "started", "posted"}, NEW e \in {"none", "error"},
         op' = Given(o, k, c, x, st, e)
  PROVE  /\ op' \in [Ops -> OpType]
         /\ op'[o].kind = k /\ op'[o].conn = c /\ op'[o].at = x /\ op'[o].stage = st
         /\ op'[o].ec = e
         /\ op'[o].kept <=> \A p \in Ops : p # o /\ Pending(p) => op[p].at # x
         /\ \A p \in Ops : p # o =>
              /\ op'[p].kind = op[p].kind /\ op'[p].conn = op[p].conn
              /\ op'[p].at = op[p].at /\ op'[p].stage = op[p].stage /\ op'[p].ec = op[p].ec
              /\ op'[p].kept <=> op[p].kept /\ ~(Pending(p) /\ op[p].at = x)
<1>1. op \in [Ops -> OpType]
  BY TypeFacts
<1>2. /\ op'[o] = [kind |-> k, conn |-> c, at |-> x, stage |-> st, ec |-> e,
                 kept |-> Sharing(o, x) = {}]
  <2>1. o \notin Sharing(o, x)
    BY DEF Sharing
  <2>2. op' = [p \in Ops |->
     CASE p = o -> [kind |-> k, conn |-> c, at |-> x, stage |-> st, ec |-> e,
                    kept |-> Sharing(o, x) = {}]
       [] p \in Sharing(o, x) -> [op[p] EXCEPT !.kept = FALSE]
       [] OTHER -> op[p]]
    BY DEF Given
  <2> QED BY <2>1, <2>2
<1>3. /\ op'[o] \in OpType
      /\ op'[o].kind = k /\ op'[o].conn = c /\ op'[o].at = x /\ op'[o].stage = st /\ op'[o].ec = e
  <2>1. (Sharing(o, x) = {}) \in BOOLEAN
    BY Zenon
  <2> QED BY <1>2, <2>1 DEF OpType
<1>4. op'[o].kept <=> \A p \in Ops : p # o /\ Pending(p) => op[p].at # x
  <2>1. op'[o].kept = (Sharing(o, x) = {})
    BY <1>2
  <2>2. Sharing(o, x) = {} <=> \A p \in Ops : p # o /\ Pending(p) => op[p].at # x
    BY DEF Sharing
  <2> QED BY <2>1, <2>2
<1>5. ASSUME NEW p \in Ops, p # o
      PROVE  /\ op'[p] \in OpType
             /\ op'[p].kind = op[p].kind /\ op'[p].conn = op[p].conn
             /\ op'[p].at = op[p].at /\ op'[p].stage = op[p].stage /\ op'[p].ec = op[p].ec
             /\ op'[p].kept <=> op[p].kept /\ ~(Pending(p) /\ op[p].at = x)
  <2>1. p \in Sharing(o, x) <=> Pending(p) /\ op[p].at = x
    BY <1>5 DEF Sharing
  <2>2. CASE p \in Sharing(o, x)
    <3>1. op'[p] = [op[p] EXCEPT !.kept = FALSE]
      BY <1>5, <2>2 DEF Given
    <3>2. op[p] \in OpType
      BY <1>1
    <3>3. /\ op'[p] \in OpType
          /\ op'[p].kind = op[p].kind /\ op'[p].conn = op[p].conn
          /\ op'[p].at = op[p].at /\ op'[p].stage = op[p].stage
          /\ op'[p].ec = op[p].ec /\ ~op'[p].kept
      BY <3>1, <3>2 DEF OpType
    <3> QED BY <2>1, <2>2, <3>3
  <2>3. CASE p \notin Sharing(o, x)
    <3>1. op'[p] = op[p]
      BY <1>5, <2>3 DEF Given
    <3> QED BY <1>1, <2>1, <2>3, <3>1
  <2> QED BY <2>2, <2>3
<1>6. op' \in [Ops -> OpType]
  <2>1. op' = [p \in Ops |-> op'[p]]
    BY DEF Given
  <2>2. \A p \in Ops : op'[p] \in OpType
    BY <1>3, <1>5
  <2> QED BY <2>1, <2>2
<1> QED
  BY <1>3, <1>4, <1>5, <1>6
-----------------------------------------------------------------------------
(* The inductive invariant. *)

\* A queue pair object: where none is there is nothing, one with a native queue
\* pair is bound, no two point at the same native one, and the poller of an
\* event-mode one runs.
Objects ==
  /\ \A x \in Slots : x \notin live => qp[x] = Empty
  /\ \A x \in Slots : qp[x].native # None =>
       qp[x].cq # "none" /\ native[qp[x].native] # "none"
  /\ \A x, y \in Slots :
       x # y /\ qp[x].native = qp[y].native => qp[x].native = None
  /\ \A x \in Slots :
       qp[x].cq = "event" /\ (backend = "ibv" \/ qp[x].native # None) => poller

\* On nd the objects own the native queue pairs.
NdOwners ==
  backend = "nd" =>
    /\ \A c \in Conns : cm_qp[c] = None
    /\ \A x \in Slots : qp[x].native # None => native[qp[x].native] = "live"
    /\ \A n \in Natives : native[n] = "live" => \E x \in Slots : qp[x].native = n

\* On ibv the connectors do.
IbvOwners ==
  backend = "ibv" =>
    /\ \A c \in Conns : cm_qp[c] # None =>
         /\ conn[c] # "idle"
         /\ native[cm_qp[c]] = IF conn[c] = "destroyed" THEN "destroyed" ELSE "live"
    /\ \A c, d \in Conns : c # d /\ cm_qp[c] = cm_qp[d] => cm_qp[c] = None
    /\ \A n \in Natives : native[n] = "live" => \E c \in Conns : cm_qp[c] = n

Active(o) == op[o].stage \in {"resolving", "started"}

\* An operation: only a move-accept has a queue pair of its own, which nobody
\* else touches, and a connector in use has no native queue pair while its
\* address is being resolved.
OpShape ==
  \A o \in Ops :
    /\ op[o].stage = "none" => op[o].kind = "none" /\ op[o].at = None
    /\ op[o].stage # "none" => /\ op[o].kind # "none" /\ op[o].conn \in Conns
                               /\ IF op[o].kind = "move" THEN op[o].at = o
                                                         ELSE op[o].at \in Qps
    /\ op[o].kind = "move" => op[o].kept
    /\ o \in live <=> op[o].kind = "move" /\ Pending(o)
    /\ op[o].stage = "resolving" =>
         backend = "ibv" /\ op[o].kind = "connect" /\ cm_qp[op[o].conn] = None
    /\ Active(o) => conn[op[o].conn] = "used"

\* A connector is one-shot: one operation at most is in flight on it.
OneUser ==
  \A o, p \in Ops : o # p /\ Active(o) /\ Active(p) => op[o].conn # op[p].conn

\* A queue pair that two pending operations were given is not left alone.
OneGiven ==
  \A o, p \in Ops :
    o # p /\ Pending(o) /\ Pending(p) /\ op[o].at = op[p].at => ~op[o].kept

\* The object an operation was given, left alone, is there, and from the start of
\* the native call to a handler that sees success it holds the native queue
\* pair, on ibv the one of the connector.
Holds(o) ==
  /\ qp[op[o].at].cq # "none"
  /\ qp[op[o].at].native # None
  /\ backend = "ibv" => cm_qp[op[o].conn] = qp[op[o].at].native

GivenHolds ==
  \A o \in Ops :
    op[o].kept =>
      /\ Pending(o) => op[o].at \in live
      /\ op[o].stage = "started" \/ (op[o].stage = "posted" /\ op[o].ec = "ok") => Holds(o)

OwnerInv ==
  /\ TypeOK /\ Objects /\ NdOwners /\ IbvOwners
  /\ OpShape /\ OneUser /\ OneGiven /\ GivenHolds

LEMMA InitOwner == Init => OwnerInv
<1> SUFFICES ASSUME Init PROVE OwnerInv
  OBVIOUS
<1> USE NoneAssumption, SlotAssumption DEF Init
<1>1. TypeOK
  BY DEF TypeOK, NoOp, Empty, Modes
<1>2. \A x \in Slots : qp[x] = Empty /\ qp[x].native = None /\ qp[x].cq = "none"
  BY DEF Empty
<1>3. \A o \in Ops : /\ op[o].stage = "none" /\ op[o].kind = "none" /\ op[o].at = None
  BY DEF NoOp
<1>4. Objects /\ NdOwners /\ IbvOwners
  BY <1>2 DEF Objects, NdOwners, IbvOwners
<1>5. OpShape /\ OneUser /\ OneGiven /\ GivenHolds
  BY <1>3 DEF OpShape, OneUser, OneGiven, GivenHolds, Active, Pending
<1> QED
  BY <1>1, <1>4, <1>5 DEF OwnerInv
-----------------------------------------------------------------------------
(* What the operations know, kept by steps on queue pair objects. *)

\* From the native call to a handler that sees success.
Holding(o) == op[o].stage = "started" \/ (op[o].stage = "posted" /\ op[o].ec = "ok")

\* A step of the caller that leaves the operations alone, up to disturbing the
\* queue pairs they were given.
LEMMA OpsFrame ==
  ASSUME OwnerInv, UNCHANGED <<backend, conn, cm_qp>>,
         \A o \in Ops : o \in live' <=> o \in live,
         \A o \in Ops :
           /\ op'[o].kind = op[o].kind /\ op'[o].conn = op[o].conn
           /\ op'[o].at = op[o].at /\ op'[o].stage = op[o].stage
           /\ op'[o].ec = op[o].ec
           /\ op'[o].kept => op[o].kept
           /\ op[o].kind = "move" => op'[o].kept
           /\ op'[o].kept /\ Pending(o) => op[o].at \in live'
           /\ op'[o].kept /\ Holding(o) => qp'[op[o].at] = qp[op[o].at]
  PROVE  OpShape' /\ OneUser' /\ OneGiven' /\ GivenHolds'
<1> USE DEF OwnerInv, Pending, Active
<1>1. OpShape'
  BY DEF OpShape
<1>2. OneUser' /\ OneGiven'
  BY DEF OneUser, OneGiven
<1>3. GivenHolds'
  BY DEF GivenHolds, Holds, Holding
<1> QED
  BY <1>1, <1>2, <1>3

\* What a holding operation holds.
LEMMA HoldingFacts ==
  ASSUME OwnerInv, NEW o \in Ops, op[o].kept
  PROVE  /\ Pending(o) => op[o].at \in live /\ op[o].at \in Slots
         /\ Holding(o) => /\ Pending(o)
                          /\ qp[op[o].at].cq # "none" /\ qp[op[o].at].native # None
BY NoneAssumption DEF OwnerInv, TypeOK, GivenHolds, Holds, Holding, Pending, Slots

\* An operation is given the queue pair at x.
LEMMA GivenStep ==
  ASSUME OwnerInv, NEW o \in Ops, op[o].stage = "none",
         NEW k \in {"connect", "accept", "move"}, NEW c \in Conns, NEW x \in Slots,
         NEW st \in {"resolving", "started", "posted"}, NEW e \in {"none", "error"},
         op' = Given(o, k, c, x, st, e),
         UNCHANGED backend,
         IF k = "move" THEN x = o /\ live' = live \cup {o}
                       ELSE x \in Qps \cap live /\ live' = live,
         conn' = conn \/ (conn[c] = "idle" /\ conn' = [conn EXCEPT ![c] = "used"]),
         st \in {"resolving", "started"} => conn[c] = "idle" /\ conn'[c] = "used",
         st = "resolving" => backend = "ibv" /\ k = "connect" /\ cm_qp' = cm_qp,
         \A d \in Conns : d # c => cm_qp'[d] = cm_qp[d],
         cm_qp' = cm_qp \/ conn[c] = "idle",
         \A y \in Slots : y # x => qp'[y] = qp[y],
         st = "started" => /\ qp'[x].cq # "none" /\ qp'[x].native # None
                           /\ backend = "ibv" => cm_qp'[c] = qp'[x].native
  PROVE  OpShape' /\ OneUser' /\ OneGiven' /\ GivenHolds'
<1>1. TypeOK /\ Objects /\ NdOwners /\ IbvOwners /\ OpShape /\ OneUser /\ OneGiven /\ GivenHolds
  BY DEF OwnerInv
<1>2. /\ op'[o].kind = k /\ op'[o].conn = c /\ op'[o].at = x /\ op'[o].stage = st
      /\ op'[o].ec = e
      /\ op'[o].kept <=> \A p \in Ops : p # o /\ Pending(p) => op[p].at # x
      /\ \A p \in Ops : p # o =>
           /\ op'[p].kind = op[p].kind /\ op'[p].conn = op[p].conn
           /\ op'[p].at = op[p].at /\ op'[p].stage = op[p].stage
           /\ op'[p].ec = op[p].ec
           /\ op'[p].kept <=> op[p].kept /\ ~(Pending(p) /\ op[p].at = x)
  BY <1>1, GivenFacts
<1>3. \A d \in Conns : conn'[d] = conn[d] \/ (d = c /\ conn[d] = "idle" /\ conn'[d] = "used")
  BY <1>1 DEF TypeOK
\* Nobody was given the queue pair inside this operation.
<1>4. k = "move" => \A p \in Ops : p # o => op[p].at # o
  BY <1>1, NoneAssumption, SlotAssumption DEF OpShape
\* A connector that may start has no native queue pair and no operation.
<1>5. conn[c] = "idle" => /\ cm_qp[c] = None
                          /\ \A p \in Ops : Active(p) => op[p].conn # c
  BY <1>1 DEF TypeOK, NdOwners, IbvOwners, OpShape
<1>6. OpShape'
  <2> SUFFICES ASSUME NEW p \in Ops
      PROVE /\ op'[p].stage = "none" => op'[p].kind = "none" /\ op'[p].at = None
            /\ op'[p].stage # "none" => /\ op'[p].kind # "none" /\ op'[p].conn \in Conns
                                        /\ IF op'[p].kind = "move" THEN op'[p].at = p
                                                                   ELSE op'[p].at \in Qps
            /\ op'[p].kind = "move" => op'[p].kept
            /\ p \in live' <=> op'[p].kind = "move" /\ Pending(p)'
            /\ op'[p].stage = "resolving" =>
                 /\ backend' = "ibv" /\ op'[p].kind = "connect"
                 /\ cm_qp'[op'[p].conn] = None
            /\ Active(p)' => conn'[op'[p].conn] = "used"
    BY DEF OpShape
  <2>1. CASE p = o
    <3>1. op'[p].kind = "move" => op'[p].kept
      BY <1>2, <1>4, <2>1
    <3>2. p \in live' <=> op'[p].kind = "move" /\ Pending(p)'
      BY <1>1, <1>2, <2>1, SlotAssumption DEF Pending, OpShape
    <3>3. op'[p].stage = "resolving" =>
                 /\ backend' = "ibv" /\ op'[p].kind = "connect"
                 /\ cm_qp'[op'[p].conn] = None
      BY <1>2, <1>5, <2>1
    <3> QED BY <1>2, <2>1, <3>1, <3>2, <3>3 DEF Active
  <2>2. CASE p # o
    <3>1. op'[p].kind = "move" => op'[p].kept
      <4>1. SUFFICES ASSUME op[p].kind = "move" PROVE op'[p].kept
        BY <1>2, <2>2
      <4>2. op[p].kept /\ op[p].at \in {p, None}
        BY <1>1, <4>1 DEF OpShape
      <4>3. op[p].at # x
        BY <1>1, <2>2, <4>2, NoneAssumption, SlotAssumption DEF Slots
      <4> QED BY <1>2, <2>2, <4>2, <4>3
    <3>2. p \in live' <=> op'[p].kind = "move" /\ Pending(p)'
      BY <1>1, <1>2, <2>2 DEF Pending, OpShape
    <3>3. op'[p].stage = "resolving" =>
                 /\ backend' = "ibv" /\ op'[p].kind = "connect"
                 /\ cm_qp'[op'[p].conn] = None
      BY <1>1, <1>2, <1>5, <2>2 DEF OpShape, Active
    <3>4. Active(p)' => conn'[op'[p].conn] = "used"
      BY <1>1, <1>2, <1>3, <2>2 DEF OpShape, Active
    <3> QED BY <1>1, <1>2, <2>2, <3>1, <3>2, <3>3, <3>4 DEF OpShape
  <2> QED BY <2>1, <2>2
<1>7. OneUser'
  <2> SUFFICES ASSUME NEW p \in Ops, NEW s \in Ops, p # s, Active(p)', Active(s)'
               PROVE  op'[p].conn # op'[s].conn
    BY DEF OneUser
  <2>1. CASE p # o /\ s # o
    BY <1>1, <1>2, <2>1 DEF OneUser, Active
  <2>2. CASE p = o \/ s = o
    BY <1>2, <1>5, <2>2 DEF Active
  <2> QED BY <2>1, <2>2
<1>8. OneGiven'
  <2> SUFFICES ASSUME NEW p \in Ops, NEW s \in Ops, p # s, Pending(p)', Pending(s)',
                      op'[p].at = op'[s].at
               PROVE  ~op'[p].kept
    BY DEF OneGiven
  <2>1. CASE p # o /\ s # o
    BY <1>1, <1>2, <2>1 DEF OneGiven, Pending
  <2>2. CASE p = o
    BY <1>2, <2>2 DEF Pending
  <2>3. CASE s = o
    BY <1>2, <2>3 DEF Pending
  <2> QED BY <2>1, <2>2, <2>3
<1>9. GivenHolds'
  <2> SUFFICES ASSUME NEW p \in Ops, op'[p].kept
               PROVE  /\ Pending(p)' => op'[p].at \in live'
                      /\ Holding(p)' => Holds(p)'
    BY DEF GivenHolds, Holding
  <2>1. CASE p = o
    BY <1>2, <2>1 DEF Holding, Holds
  <2>2. CASE p # o
    <3>1. op[p].kept /\ (Pending(p) => op[p].at # x)
      BY <1>2, <2>2
    <3>2. Pending(p)' => op'[p].at \in live'
      BY <1>1, <1>2, <2>2, <3>1 DEF GivenHolds, Pending
    <3>3. ASSUME Holding(p)' PROVE Holds(p)'
      <4>1. Pending(p) /\ Holding(p)
        BY <1>2, <2>2, <3>3 DEF Pending, Holding
      <4>2. Holds(p) /\ op[p].at \in Slots /\ op[p].conn \in Conns
        BY <1>1, <3>1, <4>1, NoneAssumption
           DEF GivenHolds, Holding, Pending, TypeOK, OpShape, Slots
      <4>3. qp'[op[p].at] = qp[op[p].at]
        BY <3>1, <4>1, <4>2
      <4>4. backend = "ibv" => cm_qp'[op[p].conn] = cm_qp[op[p].conn]
        BY <1>5, <4>2 DEF Holds
      <4> QED BY <1>2, <2>2, <4>2, <4>3, <4>4 DEF Holds
    <3> QED BY <3>2, <3>3
  <2> QED BY <2>1, <2>2
<1> QED
  BY <1>6, <1>7, <1>8, <1>9
-----------------------------------------------------------------------------
(* Who owns what, kept by the two ways a native queue pair is made. *)

\* A connector moves from idle to used, or none does.
Spent == \A c \in Conns : conn'[c] = conn[c] \/ (conn[c] = "idle" /\ conn'[c] = "used")

\* bind() on the object at x, which has no native queue pair.
LEMMA BindStep ==
  ASSUME OwnerInv, NEW m \in Modes, NEW r \in BindResults(m), NEW x \in Slots,
         qp[x].native = None, x \in live', live \subseteq live',
         qp' = [qp EXCEPT ![x] = r.qp], native' = Made(r),
         poller' = PollerAfter(m, r), UNCHANGED <<backend, cm_qp>>, Spent
  PROVE  Objects' /\ NdOwners' /\ IbvOwners'
<1>1. TypeOK /\ Objects /\ NdOwners /\ IbvOwners
  BY DEF OwnerInv
<1>2. /\ r.qp \in QpType
      /\ r.qp.native # None => /\ backend = "nd" /\ r.ec = "ok"
                               /\ r.qp.cq # "none" /\ r.qp.native \in Unused
      /\ r.qp.cq = "event" /\ (backend = "ibv" \/ r.qp.native # None) =>
           m = "event" /\ r.ec = "ok"
  BY <1>1, BindFacts
<1>3. \A n \in Natives : native'[n] = IF n = r.qp.native THEN "live" ELSE native[n]
  BY <1>1, <1>2, MadeFacts
<1>4. /\ qp'[x] = r.qp /\ \A y \in Slots : y # x => qp'[y] = qp[y]
  BY <1>1 DEF TypeOK
<1>5. /\ \A y \in Slots : qp[y].native \in Natives \cup {None}
      /\ r.qp.native \in Natives \cup {None} /\ None \notin Natives
      /\ \A c \in Conns : cm_qp[c] \in Natives \cup {None}
  BY <1>1, <1>2, NoneAssumption DEF TypeOK, QpType
<1>6. r.qp.native # None => native[r.qp.native] = "none" /\ r.qp.native \in Natives
  BY <1>2 DEF Unused
<1>7. Objects'
  <2>1. \A y \in Slots : y \notin live' => qp'[y] = Empty
    BY <1>1, <1>4 DEF Objects
  <2>2. \A y \in Slots : qp'[y].native # None =>
          qp'[y].cq # "none" /\ native'[qp'[y].native] # "none"
    BY <1>1, <1>2, <1>3, <1>4, <1>5, <1>6 DEF Objects
  <2>3. \A y, z \in Slots :
          y # z /\ qp'[y].native = qp'[z].native => qp'[y].native = None
    BY <1>1, <1>4, <1>5, <1>6 DEF Objects
  <2>4. \A y \in Slots :
          qp'[y].cq = "event" /\ (backend = "ibv" \/ qp'[y].native # None) => poller'
    BY <1>1, <1>2, <1>4 DEF Objects, PollerAfter
  <2> QED
    BY <2>1, <2>2, <2>3, <2>4 DEF Objects
<1>8. NdOwners'
  BY <1>1, <1>3, <1>4, <1>5, <1>6 DEF NdOwners
<1>9. IbvOwners'
  <2> SUFFICES ASSUME backend = "ibv" PROVE IbvOwners'
    BY DEF IbvOwners
  <2>1. r.qp.native = None /\ \A n \in Natives : native'[n] = native[n]
    BY <1>2, <1>3, <1>5
  <2> QED
    BY <1>1, <1>5, <2>1 DEF IbvOwners, Spent
<1> QED
  BY <1>7, <1>8, <1>9

\* create_qp on the cm_id of c, for the object at x if one is there.
LEMMA CreateStep ==
  ASSUME OwnerInv, backend = "ibv", NEW c \in Conns, NEW n \in Unused,
         NEW x \in Slots,
         cm_qp[c] = None, conn[c] # "destroyed", conn'[c] = "used", Spent,
         native' = [native EXCEPT ![n] = "live"], cm_qp' = [cm_qp EXCEPT ![c] = n],
         \A y \in Slots : y # x => qp'[y] = qp[y],
         \/ qp'[x] = qp[x]
         \/ /\ x \in live' /\ qp'[x].native = n /\ qp'[x].cq # "none"
            /\ qp'[x].cq = "event" => poller',
         poller => poller', live \subseteq live', UNCHANGED backend
  PROVE  Objects' /\ NdOwners' /\ IbvOwners'
<1>1. TypeOK /\ Objects /\ NdOwners /\ IbvOwners
  BY DEF OwnerInv
<1>2. /\ \A y \in Slots : qp[y].native \in Natives \cup {None}
      /\ \A d \in Conns : cm_qp[d] \in Natives \cup {None}
      /\ None \notin Natives /\ n \in Natives /\ native[n] = "none"
  BY <1>1, NoneAssumption DEF TypeOK, Unused
<1>3. /\ native'[n] = "live" /\ \A p \in Natives : p # n => native'[p] = native[p]
      /\ cm_qp'[c] = n /\ \A d \in Conns : d # c => cm_qp'[d] = cm_qp[d]
  BY <1>1, <1>2 DEF TypeOK
<1>4. \A y \in Slots : qp[y].native # n
  BY <1>1, <1>2 DEF Objects
<1>5. \A d \in Conns : cm_qp[d] # n
  BY <1>1, <1>2 DEF IbvOwners
<1>6. Objects'
  <2>1. \A y \in Slots : y \notin live' => qp'[y] = Empty
    BY <1>1 DEF Objects
  <2>2. \A y \in Slots : qp'[y].native # None =>
          qp'[y].cq # "none" /\ native'[qp'[y].native] # "none"
    BY <1>1, <1>2, <1>3, <1>4 DEF Objects
  <2>3. \A y, z \in Slots :
          y # z /\ qp'[y].native = qp'[z].native => qp'[y].native = None
    BY <1>1, <1>4 DEF Objects
  <2>4. \A y \in Slots :
          qp'[y].cq = "event" /\ (backend = "ibv" \/ qp'[y].native # None) => poller'
    BY <1>1 DEF Objects
  <2> QED
    BY <2>1, <2>2, <2>3, <2>4 DEF Objects
<1>7. NdOwners'
  BY DEF NdOwners
<1>8. IbvOwners'
  <2>1. \A d \in Conns : cm_qp'[d] # None =>
         /\ conn'[d] # "idle"
         /\ native'[cm_qp'[d]] = IF conn'[d] = "destroyed" THEN "destroyed" ELSE "live"
    BY <1>1, <1>2, <1>3, <1>5 DEF IbvOwners, Spent
  <2>2. \A d, f \in Conns : d # f /\ cm_qp'[d] = cm_qp'[f] => cm_qp'[d] = None
    BY <1>1, <1>3, <1>5 DEF IbvOwners
  <2>3. ASSUME NEW p \in Natives, native'[p] = "live" PROVE \E d \in Conns : cm_qp'[d] = p
    <3>1. CASE p = n
      BY <1>3, <3>1
    <3>2. CASE p # n
      <4>1. PICK d \in Conns : cm_qp[d] = p
        BY <1>1, <1>3, <2>3, <3>2 DEF IbvOwners
      <4>2. d # c
        BY <1>2, <4>1
      <4> QED BY <1>3, <4>1, <4>2
    <3> QED BY <3>1, <3>2
  <2> QED
    BY <2>1, <2>2, <2>3 DEF IbvOwners
<1> QED
  BY <1>6, <1>7, <1>8

\* The object at x is emptied, and on nd frees its native queue pair.
LEMMA ReleaseStep ==
  ASSUME OwnerInv, NEW x \in Slots, qp'[x] = Empty,
         \A y \in Slots : y # x => qp'[y] = qp[y],
         \A y \in Slots : y \in live /\ y # x => y \in live',
         native' = Released(x), UNCHANGED <<backend, cm_qp, conn, poller>>
  PROVE  Objects' /\ NdOwners' /\ IbvOwners'
<1>1. TypeOK /\ Objects /\ NdOwners /\ IbvOwners
  BY DEF OwnerInv
<1>2. \A n \in Natives : native'[n] =
        IF backend = "nd" /\ n = qp[x].native THEN "destroyed" ELSE native[n]
  BY <1>1, ReleasedFacts
<1>3. /\ qp'[x].cq = "none" /\ qp'[x].native = None
      /\ \A y \in Slots : qp[y].native \in Natives \cup {None}
      /\ \A d \in Conns : cm_qp[d] \in Natives \cup {None}
      /\ None \notin Natives
  BY <1>1, NoneAssumption, EmptyFacts DEF TypeOK
<1>4. Objects'
  BY <1>1, <1>2, <1>3 DEF Objects
<1>5. NdOwners'
  <2> SUFFICES ASSUME backend = "nd" PROVE NdOwners'
    BY DEF NdOwners
  <2>1. \A y \in Slots : qp'[y].native # None => native'[qp'[y].native] = "live"
    BY <1>1, <1>2, <1>3 DEF NdOwners, Objects
  <2>2. ASSUME NEW n \in Natives, native'[n] = "live" PROVE \E y \in Slots : qp'[y].native = n
    <3>1. n # qp[x].native /\ native[n] = "live"
      BY <1>2, <2>2
    <3>2. PICK y \in Slots : qp[y].native = n
      BY <1>1, <3>1 DEF NdOwners
    <3> QED BY <3>1, <3>2
  <2> QED
    BY <1>1, <2>1, <2>2 DEF NdOwners
<1>6. IbvOwners'
  BY <1>1, <1>2, <1>3 DEF IbvOwners
<1> QED
  BY <1>4, <1>5, <1>6

\* Steps that leave the objects and the native queue pairs alone.
LEMMA OwnersFrame ==
  ASSUME OwnerInv, Spent, UNCHANGED <<backend, live, qp, cm_qp, native, poller>>
  PROVE  Objects' /\ NdOwners' /\ IbvOwners'
<1>1. Objects' /\ NdOwners'
  BY DEF OwnerInv, Objects, NdOwners
<1>2. IbvOwners'
  BY DEF OwnerInv, IbvOwners, Spent
<1> QED
  BY <1>1, <1>2
-----------------------------------------------------------------------------
(* The steps of the program on queue pair objects. *)

LEMMA ConstructStep ==
  ASSUME OwnerInv, NEW q \in Qps, Construct(q)
  PROVE  OwnerInv'
<1>1. TypeOK /\ Objects /\ NdOwners /\ IbvOwners
  BY DEF OwnerInv
<1>2. /\ q \in Slots /\ q \notin live /\ q \notin Ops /\ live' = live \cup {q}
      /\ UNCHANGED <<backend, conn, cm_qp, op, native, poller>>
  BY SlotAssumption DEF Construct, Slots
<1>3. qp' = qp
  BY <1>1, <1>2 DEF Construct, Objects, TypeOK
<1>4. TypeOK'
  BY <1>1, <1>2, <1>3 DEF TypeOK
<1>5. Objects' /\ NdOwners' /\ IbvOwners'
  BY <1>1, <1>2, <1>3 DEF Objects, NdOwners, IbvOwners
<1>6. \A o \in Ops : op[o].kind = "move" => op[o].kept
  BY DEF OwnerInv, OpShape
<1>7. OpShape' /\ OneUser' /\ OneGiven' /\ GivenHolds'
  <2>1. \A o \in Ops : /\ o \in live' <=> o \in live
                       /\ op[o].kept /\ Pending(o) => op[o].at \in live'
    BY <1>2, HoldingFacts
  <2> QED
    BY <1>2, <1>3, <1>6, <2>1, OpsFrame
<1> QED
  BY <1>4, <1>5, <1>7 DEF OwnerInv

\* Both ways to bind a queue pair of the program.
LEMMA BindObjectStep ==
  ASSUME OwnerInv, NEW q \in Qps, NEW m \in Modes, NEW r \in BindResults(m),
         q \notin live \/ qp[q].cq = "none",
         live' = live \cup {q}, qp' = [qp EXCEPT ![q] = r.qp], native' = Made(r),
         poller' = PollerAfter(m, r), UNCHANGED <<backend, conn, cm_qp, op>>
  PROVE  OwnerInv'
<1>1. TypeOK /\ Objects /\ NdOwners /\ IbvOwners
  BY DEF OwnerInv
<1>2. q \in Slots /\ q \notin Ops
  BY SlotAssumption DEF Slots
<1>3. qp[q].cq = "none" /\ qp[q].native = None
  <2>1. qp[q].cq = "none"
    BY <1>1, <1>2, EmptyFacts DEF Objects
  <2> QED BY <1>1, <1>2, <2>1 DEF Objects
<1>4. r.qp \in QpType /\ poller' \in BOOLEAN
  BY <1>1, BindFacts DEF TypeOK, PollerAfter
<1>5. native' \in [Natives -> {"none", "live", "destroyed"}]
  BY <1>1, <1>4, MadeFacts
<1>6. TypeOK'
  BY <1>1, <1>2, <1>4, <1>5 DEF TypeOK, QpType
<1>7. Objects' /\ NdOwners' /\ IbvOwners'
  <2>1. Spent
    BY DEF Spent
  <2> QED BY <1>2, <1>3, <2>1, BindStep
<1>8. \A o \in Ops : op[o].kind = "move" => op[o].kept
  BY DEF OwnerInv, OpShape
<1>9. \A y \in Slots : y # q => qp'[y] = qp[y]
  BY <1>1 DEF TypeOK
<1>10. OpShape' /\ OneUser' /\ OneGiven' /\ GivenHolds'
  <2>1. ASSUME NEW o \in Ops
        PROVE  /\ o \in live' <=> o \in live
               /\ op[o].kept /\ Pending(o) => op[o].at \in live'
               /\ op[o].kept /\ Holding(o) => qp'[op[o].at] = qp[op[o].at]
    BY <1>2, <1>3, <1>9, HoldingFacts
  <2> QED
    BY <1>8, <2>1, OpsFrame
<1> QED
  BY <1>6, <1>7, <1>10 DEF OwnerInv

LEMMA MoveStep ==
  ASSUME OwnerInv, NEW x \in Qps, NEW y \in Qps, Move(x, y)
  PROVE  OwnerInv'
<1>1. TypeOK /\ Objects /\ NdOwners /\ IbvOwners
  BY DEF OwnerInv
<1>2. /\ x \in Slots /\ y \in Slots /\ x \in live /\ x # y /\ x \notin Ops /\ y \notin Ops
      /\ live' = live \cup {y} /\ UNCHANGED <<backend, conn, cm_qp, poller>>
      /\ op' = Disturbed({x, y})
  BY SlotAssumption DEF Move, Slots
<1>3. /\ qp' \in [Slots -> QpType]
      /\ qp'[y] = qp[x] /\ qp'[x] = Empty
      /\ \A z \in Slots : z # x /\ z # y => qp'[z] = qp[z]
  BY <1>1, <1>2, EmptyFacts, TypeFacts DEF Move, MovedFrom
<1>4. /\ native' \in [Natives -> {"none", "live", "destroyed"}]
      /\ \A n \in Natives : native'[n] =
           IF backend = "nd" /\ n = qp[y].native THEN "destroyed" ELSE native[n]
  <2>1. CASE y \in live
    BY <1>1, <1>2, <2>1, ReleasedFacts DEF Move
  <2>2. CASE y \notin live
    <3>1. qp[y].native \notin Natives /\ native' = native
      BY <1>1, <1>2, <2>2, EmptyFacts, NoneAssumption DEF Move, Objects
    <3> QED BY <1>1, <3>1 DEF TypeOK
  <2> QED BY <2>1, <2>2
<1>5. /\ op' \in [Ops -> OpType]
      /\ \A p \in Ops :
           /\ op'[p].kind = op[p].kind /\ op'[p].conn = op[p].conn
           /\ op'[p].at = op[p].at /\ op'[p].stage = op[p].stage
           /\ op'[p].ec = op[p].ec
           /\ op'[p].kept <=> op[p].kept /\ op[p].at \notin {x, y}
  BY <1>1, <1>2, DisturbedFacts
<1>6. TypeOK'
  <2>1. qp' \in [Slots -> [cq : Modes \cup {"none"}, native : Natives \cup {None}]]
    BY <1>3 DEF QpType
  <2>2. op' \in [Ops -> [kind : {"none", "connect", "accept", "move"},
                        conn : Conns \cup {None}, at : Slots \cup {None},
                        stage : {"none", "resolving", "started", "posted", "done"},
                        ec : {"none", "ok", "error"}, kept : BOOLEAN]]
    BY <1>5 DEF OpType
  <2>3. live' \subseteq Slots /\ native' \in [Natives -> {"none", "live", "destroyed"}]
    BY <1>1, <1>2, <1>4 DEF TypeOK
  <2> QED BY <1>1, <1>2, <2>1, <2>2, <2>3 DEF TypeOK
<1>7. /\ qp'[x].cq = "none" /\ qp'[x].native = None
      /\ \A z \in Slots : qp[z].native \in Natives \cup {None}
      /\ \A d \in Conns : cm_qp[d] \in Natives \cup {None}
      /\ None \notin Natives
  BY <1>1, <1>3, NoneAssumption, EmptyFacts DEF TypeOK
<1>8. Objects'
  <2>1. \A z \in Slots : z \notin live' => qp'[z] = Empty
    BY <1>1, <1>2, <1>3 DEF Objects
  <2>2. \A z \in Slots : qp'[z].native # None =>
          qp'[z].cq # "none" /\ native'[qp'[z].native] # "none"
    BY <1>1, <1>2, <1>3, <1>4, <1>7 DEF Objects
  <2>3. \A z, w \in Slots :
          z # w /\ qp'[z].native = qp'[w].native => qp'[z].native = None
    <3> SUFFICES ASSUME NEW z \in Slots, NEW w \in Slots, z # w,
                        qp'[z].native = qp'[w].native, qp'[z].native # None
                 PROVE  FALSE
      OBVIOUS
    <3>1. z # x /\ w # x
      BY <1>7
    <3>2. \A v \in Slots : v # x => qp'[v] = IF v = y THEN qp[x] ELSE qp[v]
      BY <1>3
    <3> QED BY <1>1, <1>2, <3>1, <3>2 DEF Objects
  <2>4. \A z \in Slots :
          qp'[z].cq = "event" /\ (backend = "ibv" \/ qp'[z].native # None) => poller
    BY <1>1, <1>2, <1>3, <1>7 DEF Objects
  <2> QED
    BY <1>2, <2>1, <2>2, <2>3, <2>4 DEF Objects
<1>9. NdOwners'
  <2> SUFFICES ASSUME backend = "nd" PROVE NdOwners'
    BY <1>2 DEF NdOwners
  <2>1. \A z \in Slots : qp'[z].native # None => native'[qp'[z].native] = "live"
    <3> SUFFICES ASSUME NEW z \in Slots, qp'[z].native # None
                 PROVE  native'[qp'[z].native] = "live"
      OBVIOUS
    <3>1. z # x
      BY <1>7
    <3>2. PICK w \in Slots : w # y /\ qp'[z] = qp[w]
      BY <1>2, <1>3, <3>1
    <3>3. qp[w].native # qp[y].native /\ native[qp[w].native] = "live"
      BY <1>1, <1>2, <3>2 DEF Objects, NdOwners
    <3> QED BY <1>4, <1>7, <3>2, <3>3
  <2>2. ASSUME NEW n \in Natives, native'[n] = "live" PROVE \E z \in Slots : qp'[z].native = n
    <3>1. n # qp[y].native /\ native[n] = "live"
      BY <1>4, <2>2
    <3>2. PICK z \in Slots : qp[z].native = n
      BY <1>1, <3>1 DEF NdOwners
    <3>3. CASE z = x
      BY <1>2, <1>3, <3>2, <3>3
    <3>4. CASE z # x
      BY <1>3, <3>1, <3>2, <3>4
    <3> QED BY <3>3, <3>4
  <2> QED
    BY <1>1, <1>2, <2>1, <2>2 DEF NdOwners
<1>10. IbvOwners'
  BY <1>1, <1>2, <1>4, <1>7 DEF IbvOwners
<1>11. OpShape' /\ OneUser' /\ OneGiven' /\ GivenHolds'
  <2>1. ASSUME NEW o \in Ops
        PROVE  /\ o \in live' <=> o \in live
               /\ op[o].kind = "move" => op'[o].kept
               /\ op'[o].kept /\ Pending(o) => op[o].at \in live'
               /\ op'[o].kept /\ Holding(o) => qp'[op[o].at] = qp[op[o].at]
    <3>1. op[o].kind = "move" => op[o].kept /\ op[o].at \in {o, None}
      BY DEF OwnerInv, OpShape
    <3>2. op[o].kind = "move" => op'[o].kept
      <4>1. o \notin {x, y} /\ None \notin {x, y}
        BY <1>2, NoneAssumption
      <4> QED BY <1>5, <3>1, <4>1
    <3> QED
      BY <1>2, <1>3, <1>5, <3>2, HoldingFacts
  <2> QED
    BY <1>2, <1>5, <2>1, OpsFrame
<1> QED
  BY <1>6, <1>8, <1>9, <1>10, <1>11 DEF OwnerInv

LEMMA DestroyStep ==
  ASSUME OwnerInv, NEW q \in Qps, Destroy(q)
  PROVE  OwnerInv'
<1>1. TypeOK
  BY DEF OwnerInv
<1>2. /\ q \in Slots /\ q \in live /\ q \notin Ops
      /\ live' = live \ {q} /\ UNCHANGED <<backend, conn, cm_qp, poller>>
      /\ op' = Disturbed({q}) /\ native' = Released(q)
  BY SlotAssumption DEF Destroy, Slots
<1>3. /\ qp' \in [Slots -> QpType]
      /\ qp'[q] = Empty /\ \A z \in Slots : z # q => qp'[z] = qp[z]
  BY <1>1, <1>2, EmptyFacts, TypeFacts DEF Destroy
<1>4. native' \in [Natives -> {"none", "live", "destroyed"}]
  BY <1>1, <1>2, ReleasedFacts
<1>5. /\ op' \in [Ops -> OpType]
      /\ \A p \in Ops :
           /\ op'[p].kind = op[p].kind /\ op'[p].conn = op[p].conn
           /\ op'[p].at = op[p].at /\ op'[p].stage = op[p].stage
           /\ op'[p].ec = op[p].ec
           /\ op'[p].kept <=> op[p].kept /\ op[p].at \notin {q}
  BY <1>1, <1>2, DisturbedFacts
<1>6. TypeOK'
  BY <1>1, <1>2, <1>3, <1>4, <1>5 DEF TypeOK, QpType, OpType
<1>7. Objects' /\ NdOwners' /\ IbvOwners'
  BY <1>2, <1>3, ReleaseStep
<1>8. OpShape' /\ OneUser' /\ OneGiven' /\ GivenHolds'
  <2>1. ASSUME NEW o \in Ops
        PROVE  /\ o \in live' <=> o \in live
               /\ op[o].kind = "move" => op'[o].kept
               /\ op'[o].kept /\ Pending(o) => op[o].at \in live'
               /\ op'[o].kept /\ Holding(o) => qp'[op[o].at] = qp[op[o].at]
    <3>1. op[o].kind = "move" => op[o].kept /\ op[o].at \in {o, None}
      BY DEF OwnerInv, OpShape
    <3>2. op[o].kind = "move" => op'[o].kept
      <4>1. o \notin {q} /\ None \notin {q}
        BY <1>2, NoneAssumption
      <4> QED BY <1>5, <3>1, <4>1
    <3> QED
      BY <1>2, <1>3, <1>5, <3>2, HoldingFacts
  <2> QED
    BY <1>2, <1>5, <2>1, OpsFrame
<1> QED
  BY <1>6, <1>7, <1>8 DEF OwnerInv
-----------------------------------------------------------------------------
(* The steps of connect and accept. *)

LEMMA RefuseStep ==
  ASSUME OwnerInv, NEW o \in Ops, NEW c \in Conns, NEW x \in Qps,
         NEW k \in {"connect", "accept"}, op[o].stage = "none", x \in live,
         Refuse(o, k, c, x)
  PROVE  OwnerInv'
<1>1. TypeOK /\ x \in Slots
  BY DEF OwnerInv, Slots
<1>2. /\ op' = Given(o, k, c, x, "posted", "error")
      /\ UNCHANGED <<backend, live, qp, conn, cm_qp, native, poller>>
  BY DEF Refuse, Posted
<1>3. op' \in [Ops -> OpType]
  BY <1>1, <1>2, GivenFacts
<1>4. TypeOK'
  BY <1>1, <1>2, <1>3 DEF TypeOK, OpType
<1>5. Objects' /\ NdOwners' /\ IbvOwners'
  BY <1>2, OwnersFrame DEF Spent
<1>6. OpShape' /\ OneUser' /\ OneGiven' /\ GivenHolds'
  BY <1>1, <1>2, GivenStep
<1> QED
  BY <1>4, <1>5, <1>6 DEF OwnerInv

\* What Use does to the connectors.
LEMMA UseFacts ==
  ASSUME TypeOK, NEW c \in Conns, conn[c] = "idle", Use(c)
  PROVE  /\ conn' \in [Conns -> {"idle", "used", "destroyed"}]
         /\ conn' = [conn EXCEPT ![c] = "used"] /\ conn'[c] = "used" /\ Spent
BY DEF TypeOK, Use, Spent

LEMMA IbvConnectStep ==
  ASSUME OwnerInv, NEW o \in Ops, NEW c \in Conns, NEW x \in Qps,
         op[o].stage = "none", x \in live, IbvConnect(o, c, x)
  PROVE  OwnerInv'
<1>1. TypeOK /\ x \in Slots
  BY DEF OwnerInv, Slots
<1>2. /\ backend = "ibv" /\ conn[c] = "idle" /\ Use(c)
      /\ \/ op' = Given(o, "connect", c, x, "resolving", "none")
         \/ op' = Given(o, "connect", c, x, "posted", "error")
      /\ UNCHANGED <<backend, live, qp, cm_qp, native, poller>>
  BY DEF IbvConnect, MayStart, Posted
<1>3. op' \in [Ops -> OpType]
  BY <1>1, <1>2, GivenFacts
<1>4. TypeOK'
  BY <1>1, <1>2, <1>3, UseFacts DEF TypeOK, OpType
<1>5. Objects' /\ NdOwners' /\ IbvOwners'
  BY <1>1, <1>2, UseFacts, OwnersFrame
<1>6. OpShape' /\ OneUser' /\ OneGiven' /\ GivenHolds'
  BY <1>1, <1>2, UseFacts, GivenStep
<1> QED
  BY <1>4, <1>5, <1>6 DEF OwnerInv

LEMMA NdStartStep ==
  ASSUME OwnerInv, NEW o \in Ops, NEW c \in Conns, NEW x \in Qps,
         NEW k \in {"connect", "accept"}, op[o].stage = "none", x \in live,
         MayStart(c), NdStart(o, k, c, x, qp), UNCHANGED <<live, native, poller>>
  PROVE  OwnerInv'
<1>1. TypeOK /\ Objects /\ x \in Slots
  BY DEF OwnerInv, Slots
<1>2. /\ backend = "nd" /\ conn[c] = "idle" /\ Use(c) /\ qp[x].native # None
      /\ \/ op' = Given(o, k, c, x, "started", "none")
         \/ op' = Given(o, k, c, x, "posted", "error")
      /\ UNCHANGED <<backend, live, qp, cm_qp, native, poller>>
  BY DEF NdStart, MayStart, Posted, Started
<1>3. op' \in [Ops -> OpType]
  BY <1>1, <1>2, GivenFacts
<1>4. TypeOK'
  BY <1>1, <1>2, <1>3, UseFacts DEF TypeOK, OpType
<1>5. Objects' /\ NdOwners' /\ IbvOwners'
  BY <1>1, <1>2, UseFacts, OwnersFrame
<1>6. qp[x].cq # "none"
  BY <1>1, <1>2 DEF Objects
<1>7. OpShape' /\ OneUser' /\ OneGiven' /\ GivenHolds'
  BY <1>1, <1>2, <1>6, UseFacts, GivenStep
<1> QED
  BY <1>4, <1>5, <1>7 DEF OwnerInv

\* An idle connector has no native queue pair.
LEMMA IdleFacts ==
  ASSUME OwnerInv, NEW c \in Conns, conn[c] = "idle"
  PROVE  cm_qp[c] = None /\ conn[c] # "destroyed"
BY DEF OwnerInv, TypeOK, NdOwners, IbvOwners

\* accept with a queue pair of the program.
LEMMA IbvAcceptStep ==
  ASSUME OwnerInv, NEW o \in Ops, NEW c \in Conns, NEW x \in Qps,
         op[o].stage = "none", x \in live,
         MayStart(c), IbvAccept(o, "accept", c, x, qp), UNCHANGED <<live, poller>>
  PROVE  OwnerInv'
<1>1. TypeOK /\ Objects /\ x \in Slots
  BY DEF OwnerInv, Slots
<1>2. backend = "ibv" /\ conn[c] = "idle" /\ Use(c) /\ UNCHANGED backend
  BY DEF IbvAccept, MayStart
<1>3. /\ \/ op' = Given(o, "accept", c, x, "started", "none")
         \/ op' = Given(o, "accept", c, x, "posted", "error")
  BY DEF IbvAccept, Posted, Started
<1>4. op' \in [Ops -> OpType]
  BY <1>1, <1>3, GivenFacts
<1>5. CASE UNCHANGED <<qp, native, cm_qp>> /\ op' = Given(o, "accept", c, x, "posted", "error")
  <2>1. TypeOK'
    BY <1>1, <1>2, <1>4, <1>5, UseFacts DEF TypeOK, OpType
  <2>2. Objects' /\ NdOwners' /\ IbvOwners'
    BY <1>1, <1>2, <1>5, UseFacts, OwnersFrame
  <2>3. OpShape' /\ OneUser' /\ OneGiven' /\ GivenHolds'
    BY <1>1, <1>2, <1>5, UseFacts, GivenStep
  <2> QED BY <2>1, <2>2, <2>3 DEF OwnerInv
<1>6. ASSUME NEW n \in Unused, CanCreate(qp, x), native' = [native EXCEPT ![n] = "live"],
             cm_qp' = [cm_qp EXCEPT ![c] = n], qp' = FilledIn(qp, x, n)
      PROVE  OwnerInv'
  <2>1. n \in Natives /\ None \notin Natives
    BY NoneAssumption DEF Unused
  <2>2. /\ qp' \in [Slots -> QpType] /\ qp[x].cq # "none"
        /\ qp'[x].native = n /\ qp'[x].cq = qp[x].cq
        /\ \A y \in Slots : y # x => qp'[y] = qp[y]
    BY <1>1, <1>6, <2>1, TypeFacts DEF CanCreate, FilledIn, QpType
  <2>3. TypeOK'
    BY <1>1, <1>2, <1>4, <1>6, <2>1, <2>2, UseFacts DEF TypeOK, OpType, QpType
  <2>4. Objects' /\ NdOwners' /\ IbvOwners'
    <3>1. qp[x].cq = "event" => poller
      BY <1>1, <1>2 DEF Objects
    <3>2. cm_qp[c] = None /\ conn[c] # "destroyed"
      BY <1>2, IdleFacts
    <3> QED BY <1>1, <1>2, <1>6, <2>2, <3>1, <3>2, UseFacts, CreateStep
  <2>5. /\ cm_qp'[c] = n /\ \A d \in Conns : d # c => cm_qp'[d] = cm_qp[d]
    BY <1>1, <1>6 DEF TypeOK
  <2>6. OpShape' /\ OneUser' /\ OneGiven' /\ GivenHolds'
    BY <1>1, <1>2, <1>3, <2>1, <2>2, <2>5, UseFacts, GivenStep
  <2> QED BY <2>3, <2>4, <2>6 DEF OwnerInv
<1> QED
  BY <1>5, <1>6 DEF IbvAccept, Posted

\* accept with a queue pair in the operation.
LEMMA MoveAcceptStep ==
  ASSUME OwnerInv, NEW o \in Ops, NEW c \in Conns, NEW m \in Modes, MoveAccept(o, c, m)
  PROVE  OwnerInv'
<1>1. TypeOK /\ Objects /\ o \in Slots /\ op[o].stage = "none" /\ live' = live \cup {o}
  BY DEF OwnerInv, Slots, MoveAccept
<1>2. o \notin live /\ qp[o].native = None
  <2>1. o \notin live
    BY <1>1 DEF OwnerInv, OpShape, Pending
  <2> QED BY <1>1, <2>1, EmptyFacts DEF Objects
<1>3. PICK r \in BindResults(m) :
       LET qs == [qp EXCEPT ![o] = r.qp] IN
       /\ poller' = PollerAfter(m, r)
       /\ \/ /\ r.ec = "ok" /\ MayStart(c)
             /\ \/ IbvAccept(o, "move", c, o, qs)
                \/ NdStart(o, "move", c, o, qs) /\ native' = Made(r)
          \/ /\ op' = Posted(o, "move", c, o)
             /\ qp' = qs
             /\ native' = Made(r)
             /\ UNCHANGED <<backend, conn, cm_qp>>
  BY DEF MoveAccept
<1> DEFINE qs == [qp EXCEPT ![o] = r.qp]
<1>4. /\ r.qp \in QpType /\ r.ec \in {"ok", "error"}
      /\ r.qp.native # None => /\ backend = "nd" /\ r.ec = "ok"
                               /\ r.qp.cq # "none" /\ r.qp.native \in Unused
      /\ r.ec = "ok" => r.qp.cq # "none" /\ (backend = "nd" => r.qp.native # None)
      /\ r.qp.cq = "event" /\ (backend = "ibv" \/ r.qp.native # None) =>
           m = "event" /\ r.ec = "ok"
  BY <1>1, BindFacts
<1>5. /\ qs \in [Slots -> QpType] /\ qs[o] = r.qp
      /\ \A y \in Slots : y # o => qs[y] = qp[y]
      /\ poller' \in BOOLEAN /\ Made(r) \in [Natives -> {"none", "live", "destroyed"}]
  BY <1>1, <1>3, <1>4, TypeFacts, MadeFacts DEF TypeOK, PollerAfter
<1>6. ASSUME qp' = qs, native' = Made(r), UNCHANGED <<backend, cm_qp>>,
             \/ /\ op' = Given(o, "move", c, o, "posted", "error")
                /\ conn' = conn \/ (conn[c] = "idle" /\ Use(c))
             \/ /\ op' = Given(o, "move", c, o, "started", "none")
                /\ backend = "nd" /\ r.ec = "ok" /\ conn[c] = "idle" /\ Use(c)
      PROVE  OwnerInv'
  <2>1. op' \in [Ops -> OpType]
    BY <1>1, <1>6, GivenFacts
  <2>2. /\ conn' \in [Conns -> {"idle", "used", "destroyed"}] /\ Spent
        /\ conn' = conn \/ (conn[c] = "idle" /\ conn' = [conn EXCEPT ![c] = "used"])
    BY <1>1, <1>6, UseFacts DEF TypeOK, Spent
  <2>3. TypeOK'
    BY <1>1, <1>5, <1>6, <2>1, <2>2 DEF TypeOK, OpType, QpType
  <2>4. Objects' /\ NdOwners' /\ IbvOwners'
    BY <1>1, <1>2, <1>3, <1>6, <2>2, BindStep
  <2>5. OpShape' /\ OneUser' /\ OneGiven' /\ GivenHolds'
    <3>1. CASE op' = Given(o, "move", c, o, "posted", "error")
      BY <1>1, <1>5, <1>6, <2>2, <3>1, GivenStep
    <3>2. CASE /\ op' = Given(o, "move", c, o, "started", "none")
               /\ backend = "nd" /\ r.ec = "ok" /\ conn[c] = "idle" /\ Use(c)
      <4>1. conn'[c] = "used" /\ r.qp.cq # "none" /\ r.qp.native # None
        BY <1>1, <1>4, <3>2, UseFacts
      <4> HIDE DEF qs
      <4> QED BY <1>1, <1>5, <1>6, <2>2, <3>2, <4>1, GivenStep
    <3> QED BY <1>6, <3>1, <3>2
  <2> QED BY <2>3, <2>4, <2>5 DEF OwnerInv
<1>7. CASE NdStart(o, "move", c, o, qs) /\ native' = Made(r) /\ r.ec = "ok" /\ MayStart(c)
  BY <1>6, <1>7 DEF NdStart, MayStart, Posted, Started
<1>8. CASE /\ op' = Posted(o, "move", c, o) /\ qp' = qs /\ native' = Made(r)
           /\ UNCHANGED <<backend, conn, cm_qp>>
  BY <1>6, <1>8 DEF Posted
<1>9. CASE IbvAccept(o, "move", c, o, qs) /\ r.ec = "ok" /\ MayStart(c)
  <2>1. backend = "ibv" /\ conn[c] = "idle" /\ Use(c) /\ UNCHANGED backend
    BY <1>9 DEF IbvAccept, MayStart
  <2>2. /\ \/ op' = Given(o, "move", c, o, "started", "none")
           \/ op' = Given(o, "move", c, o, "posted", "error")
    BY <1>9 DEF IbvAccept, Posted, Started
  <2>3. op' \in [Ops -> OpType]
    BY <1>1, <2>2, GivenFacts
  <2>4. Made(r) = native
    <3>1. r.qp.native \notin Natives
      BY <1>4, <2>1, NoneAssumption DEF QpType
    <3> QED BY <1>1, <3>1 DEF Made, TypeOK
  <2>5. CASE /\ op' = Posted(o, "move", c, o) /\ qp' = qs /\ UNCHANGED <<native, cm_qp>>
    BY <1>6, <2>1, <2>4, <2>5 DEF Posted
  <2>6. ASSUME NEW n \in Unused, native' = [native EXCEPT ![n] = "live"],
               cm_qp' = [cm_qp EXCEPT ![c] = n], qp' = FilledIn(qs, o, n)
        PROVE  OwnerInv'
    <3>1. n \in Natives /\ None \notin Natives
      BY NoneAssumption DEF Unused
    <3>2. /\ qp' \in [Slots -> QpType] /\ r.qp.cq # "none"
          /\ qp'[o].native = n /\ qp'[o].cq = r.qp.cq
          /\ \A y \in Slots : y # o => qp'[y] = qp[y]
      <4>1. qp' = [qs EXCEPT ![o].native = n]
        BY <2>6 DEF FilledIn
      <4> HIDE DEF qs
      <4> QED BY <1>1, <1>4, <1>5, <1>9, <3>1, <4>1 DEF QpType
    <3>3. TypeOK'
      BY <1>1, <1>5, <2>1, <2>3, <2>6, <3>1, <3>2, UseFacts DEF TypeOK, OpType, QpType
    <3>4. Objects' /\ NdOwners' /\ IbvOwners'
      <4>1. (r.qp.cq = "event" => poller') /\ (poller => poller')
        BY <1>3, <1>4, <2>1 DEF PollerAfter
      <4>2. cm_qp[c] = None /\ conn[c] # "destroyed"
        BY <2>1, IdleFacts
      <4>3. o \in live' /\ live \subseteq live'
        BY <1>1
      <4> QED BY <1>1, <2>1, <2>6, <3>2, <4>1, <4>2, <4>3, UseFacts, CreateStep
    <3>5. /\ cm_qp'[c] = n /\ \A d \in Conns : d # c => cm_qp'[d] = cm_qp[d]
      BY <1>1, <2>6 DEF TypeOK
    <3>6. OpShape' /\ OneUser' /\ OneGiven' /\ GivenHolds'
      BY <1>1, <2>1, <2>2, <3>1, <3>2, <3>5, UseFacts, GivenStep
    <3> QED BY <3>3, <3>4, <3>6 DEF OwnerInv
  <2> QED
    BY <1>9, <2>5, <2>6 DEF IbvAccept
<1> QED
  BY <1>3, <1>7, <1>8, <1>9
-----------------------------------------------------------------------------
(* The end of an operation. *)

\* The operation o goes to its next stage; nothing else happens to operations.
LEMMA StageStep ==
  ASSUME OwnerInv, NEW o \in Ops, Pending(o), NEW st \in {"started", "posted", "done"},
         op'[o].kind = op[o].kind, op'[o].conn = op[o].conn, op'[o].at = op[o].at,
         op'[o].kept <=> op[o].kept, op'[o].stage = st,
         \A p \in Ops : p # o => op'[p] = op[p],
         UNCHANGED <<backend, conn>>,
         \A p \in Ops : p \in live' <=> p \in live /\ ~(p = o /\ st = "done"),
         st = "started" => op[o].stage = "resolving",
         IF st = "started" THEN \A d \in Conns : d # op[o].conn => cm_qp'[d] = cm_qp[d]
                           ELSE cm_qp' = cm_qp,
         \A p \in Ops : p # o /\ op[p].kept =>
           /\ Pending(p) => op[p].at \in live'
           /\ Holding(p) => qp'[op[p].at] = qp[op[p].at],
         st # "done" /\ op[o].kept => op[o].at \in live',
         op[o].kept /\ Holding(o)' => Holds(o)'
  PROVE  OpShape' /\ OneUser' /\ OneGiven' /\ GivenHolds'
<1>1. TypeOK /\ OpShape /\ OneUser /\ OneGiven /\ GivenHolds
  BY DEF OwnerInv
<1>2. op[o].stage \in {"resolving", "started", "posted"} /\ op[o].conn \in Conns
  BY <1>1 DEF TypeOK, OpShape, Pending
\* A connector whose address is being resolved is used by no other operation
\* in flight and by none that holds a native queue pair.
<1>3. op[o].stage = "resolving" =>
        /\ cm_qp[op[o].conn] = None
        /\ \A p \in Ops : p # o /\ Active(p) => op[p].conn # op[o].conn
  BY <1>1 DEF OpShape, OneUser, Active
<1>4. OpShape'
  <2> SUFFICES ASSUME NEW p \in Ops
      PROVE /\ op'[p].stage = "none" => op'[p].kind = "none" /\ op'[p].at = None
            /\ op'[p].stage # "none" => /\ op'[p].kind # "none" /\ op'[p].conn \in Conns
                                        /\ IF op'[p].kind = "move" THEN op'[p].at = p
                                                                   ELSE op'[p].at \in Qps
            /\ op'[p].kind = "move" => op'[p].kept
            /\ p \in live' <=> op'[p].kind = "move" /\ Pending(p)'
            /\ op'[p].stage = "resolving" =>
                 /\ backend' = "ibv" /\ op'[p].kind = "connect"
                 /\ cm_qp'[op'[p].conn] = None
            /\ Active(p)' => conn'[op'[p].conn] = "used"
    BY DEF OpShape
  <2>1. CASE p = o
    BY <1>1, <1>2, <2>1 DEF OpShape, Active, Pending
  <2>2. CASE p # o
    <3>1. op'[p].stage = "resolving" => cm_qp'[op'[p].conn] = None
      BY <1>1, <1>3, <2>2 DEF OpShape, Active
    <3> QED BY <1>1, <2>2, <3>1 DEF OpShape, Active, Pending
  <2> QED BY <2>1, <2>2
<1>5. OneUser'
  <2> SUFFICES ASSUME NEW p \in Ops, NEW s \in Ops, p # s, Active(p)', Active(s)'
               PROVE  op'[p].conn # op'[s].conn
    BY DEF OneUser
  <2> QED BY <1>1, <1>3 DEF OneUser, Active
<1>6. OneGiven'
  <2> SUFFICES ASSUME NEW p \in Ops, NEW s \in Ops, p # s, Pending(p)', Pending(s)',
                      op'[p].at = op'[s].at
               PROVE  ~op'[p].kept
    BY DEF OneGiven
  <2> QED BY <1>1 DEF OneGiven, Pending
<1>7. GivenHolds'
  <2> SUFFICES ASSUME NEW p \in Ops, op'[p].kept
               PROVE  /\ Pending(p)' => op'[p].at \in live'
                      /\ Holding(p)' => Holds(p)'
    BY DEF GivenHolds, Holding
  <2>1. CASE p = o
    BY <2>1 DEF Pending
  <2>2. CASE p # o
    <3>1. Pending(p)' => op'[p].at \in live'
      BY <2>2 DEF Pending
    <3>2. ASSUME Holding(p)' PROVE Holds(p)'
      <4>1. Holding(p) /\ op[p].kept
        BY <2>2, <3>2 DEF Holding
      <4>2. Holds(p) /\ op[p].conn \in Conns
        BY <1>1, <4>1 DEF GivenHolds, Holding, OpShape
      <4>3. backend = "ibv" => cm_qp'[op[p].conn] = cm_qp[op[p].conn]
        BY <1>3, <4>2 DEF Holds
      <4> QED BY <2>2, <4>1, <4>2, <4>3 DEF Holds
    <3> QED BY <3>1, <3>2
  <2> QED BY <2>1, <2>2
<1> QED
  BY <1>4, <1>5, <1>6, <1>7

LEMMA AddrResolvedStep ==
  ASSUME OwnerInv, NEW o \in Ops, AddrResolved(o)
  PROVE  OwnerInv'
<1> DEFINE c == op[o].conn
           x == op[o].at
<1>1. TypeOK /\ Objects /\ OpShape /\ OneGiven
  BY DEF OwnerInv
<1>2. op \in [Ops -> OpType] /\ qp \in [Slots -> QpType]
  BY <1>1, TypeFacts
<1>3. /\ op[o].stage = "resolving" /\ UNCHANGED <<backend, live, conn, poller>>
  BY DEF AddrResolved
<1>4. /\ c \in Conns /\ x \in Qps /\ x \in Slots /\ x \notin Ops /\ backend = "ibv"
      /\ cm_qp[c] = None /\ conn[c] = "used" /\ Pending(o) /\ Spent
  BY <1>1, <1>3, SlotAssumption DEF OpShape, Active, Pending, Slots, Spent
<1>5. CASE /\ op' = [op EXCEPT ![o].stage = "posted", ![o].ec = "error"]
           /\ UNCHANGED <<native, cm_qp, qp>>
  <2>1. /\ op' \in [Ops -> OpType]
        /\ op'[o].kind = op[o].kind /\ op'[o].conn = op[o].conn /\ op'[o].at = op[o].at
        /\ op'[o].kept = op[o].kept /\ op'[o].stage = "posted" /\ op'[o].ec = "error"
        /\ \A p \in Ops : p # o => op'[p] = op[p]
    BY <1>2, <1>5 DEF OpType
  <2>2. TypeOK'
    BY <1>1, <1>3, <1>5, <2>1 DEF TypeOK, OpType
  <2>3. Objects' /\ NdOwners' /\ IbvOwners'
    BY <1>3, <1>4, <1>5, OwnersFrame
  <2>4. ~Holding(o)'
    BY <2>1 DEF Holding
  <2>5. OpShape' /\ OneUser' /\ OneGiven' /\ GivenHolds'
    BY <1>3, <1>4, <1>5, <2>1, <2>4, HoldingFacts, StageStep
  <2> QED BY <2>2, <2>3, <2>5 DEF OwnerInv
<1>6. ASSUME NEW n \in Unused, CanCreate(qp, x), native' = [native EXCEPT ![n] = "live"],
             cm_qp' = [cm_qp EXCEPT ![c] = n], qp' = FilledIn(qp, x, n),
             op' = [op EXCEPT ![o].stage = "started"]
      PROVE  OwnerInv'
  <2>1. /\ op' \in [Ops -> OpType]
        /\ op'[o].kind = op[o].kind /\ op'[o].conn = op[o].conn /\ op'[o].at = op[o].at
        /\ op'[o].kept = op[o].kept /\ op'[o].stage = "started" /\ op'[o].ec = op[o].ec
        /\ \A p \in Ops : p # o => op'[p] = op[p]
    BY <1>2, <1>6 DEF OpType
  <2>2. n \in Natives /\ None \notin Natives
    BY NoneAssumption DEF Unused
  <2>3. /\ qp' \in [Slots -> QpType] /\ \A y \in Slots : y # x => qp'[y] = qp[y]
        /\ x \in live => /\ qp[x].cq # "none"
                         /\ qp'[x].native = n /\ qp'[x].cq = qp[x].cq
        /\ x \notin live => qp'[x] = qp[x]
    <3> HIDE DEF x
    <3>1. CASE x \in live
      BY <1>2, <1>4, <1>6, <2>2, <3>1 DEF CanCreate, FilledIn, QpType
    <3>2. CASE x \notin live
      BY <1>2, <1>4, <1>6, <3>2 DEF FilledIn
    <3> QED BY <3>1, <3>2
  <2>4. /\ cm_qp' \in [Conns -> Natives \cup {None}]
        /\ native' \in [Natives -> {"none", "live", "destroyed"}]
        /\ cm_qp'[c] = n /\ \A d \in Conns : d # c => cm_qp'[d] = cm_qp[d]
    <3> HIDE DEF c
    <3> QED BY <1>1, <1>4, <1>6, <2>2 DEF TypeOK
  <2>5. TypeOK'
    BY <1>1, <1>3, <2>1, <2>3, <2>4 DEF TypeOK, OpType, QpType
  <2>6. Objects' /\ NdOwners' /\ IbvOwners'
    <3>1. qp[x].cq = "event" => poller
      BY <1>1, <1>4 DEF Objects
    <3> HIDE DEF c, x
    <3> QED BY <1>3, <1>4, <1>6, <2>3, <3>1, CreateStep
  <2>7. OpShape' /\ OneUser' /\ OneGiven' /\ GivenHolds'
    <3>1. \A p \in Ops : p # o /\ op[p].kept =>
             /\ Pending(p) => op[p].at \in live
             /\ Holding(p) => qp'[op[p].at] = qp[op[p].at]
      <4> SUFFICES ASSUME NEW p \in Ops, p # o, op[p].kept
                   PROVE  /\ Pending(p) => op[p].at \in live
                          /\ Holding(p) => qp'[op[p].at] = qp[op[p].at]
        OBVIOUS
      <4>1. Pending(p) => op[p].at # x
        BY <1>1, <1>4 DEF OneGiven
      <4> QED BY <2>3, <4>1, HoldingFacts
    <3>2. op[o].kept => x \in live
      BY <1>4, HoldingFacts
    <3>3. op[o].kept => Holds(o)'
      BY <1>3, <2>1, <2>2, <2>3, <2>4, <3>2 DEF Holds
    <3> QED BY <1>3, <1>4, <2>1, <2>4, <3>1, <3>2, <3>3, StageStep
  <2> QED BY <2>5, <2>6, <2>7 DEF OwnerInv
<1> QED
  BY <1>5, <1>6 DEF AddrResolved

LEMMA FinishStep ==
  ASSUME OwnerInv, NEW o \in Ops, NEW e \in {"ok", "error"}, Finish(o, e)
  PROVE  OwnerInv'
<1>1. TypeOK /\ GivenHolds /\ op \in [Ops -> OpType]
  BY TypeFacts DEF OwnerInv
<1>2. /\ op[o].stage = "started" \/ (op[o].stage = "resolving" /\ e = "error")
      /\ op' = [op EXCEPT ![o].stage = "posted", ![o].ec = e]
      /\ UNCHANGED <<backend, live, qp, conn, cm_qp, native, poller>>
  BY DEF Finish
<1>3. /\ op' \in [Ops -> OpType]
      /\ op'[o].kind = op[o].kind /\ op'[o].conn = op[o].conn /\ op'[o].at = op[o].at
      /\ op'[o].kept = op[o].kept /\ op'[o].stage = "posted" /\ op'[o].ec = e
      /\ \A p \in Ops : p # o => op'[p] = op[p]
  BY <1>1, <1>2 DEF OpType
<1>4. TypeOK'
  BY <1>1, <1>2, <1>3 DEF TypeOK, OpType
<1>5. Objects' /\ NdOwners' /\ IbvOwners'
  BY <1>2, OwnersFrame DEF Spent
<1>6. Pending(o)
  BY <1>2 DEF Pending
<1>7. op[o].kept /\ Holding(o)' => Holds(o)'
  BY <1>1, <1>2, <1>3 DEF Holding, Holds, GivenHolds
<1>8. OpShape' /\ OneUser' /\ OneGiven' /\ GivenHolds'
  BY <1>2, <1>3, <1>6, <1>7, HoldingFacts, StageStep
<1> QED
  BY <1>4, <1>5, <1>8 DEF OwnerInv

LEMMA DisconnectStep ==
  ASSUME OwnerInv, NEW c \in Conns, Disconnect(c)
  PROVE  OwnerInv'
<1>1. TypeOK
  BY DEF OwnerInv
<1>2. /\ conn[c] = "idle" /\ Use(c)
      /\ UNCHANGED <<backend, live, qp, cm_qp, op, native, poller>>
  BY DEF Disconnect
<1>3. TypeOK'
  BY <1>1, <1>2, UseFacts DEF TypeOK
<1>4. Objects' /\ NdOwners' /\ IbvOwners'
  BY <1>1, <1>2, UseFacts, OwnersFrame
<1>5. OpShape'
  BY <1>1, <1>2, UseFacts DEF OwnerInv, OpShape, Active, Pending, Spent
<1>6. OneUser' /\ OneGiven' /\ GivenHolds'
  BY <1>2 DEF OwnerInv, OneUser, OneGiven, GivenHolds, Holds, Active, Pending
<1> QED
  BY <1>3, <1>4, <1>5, <1>6 DEF OwnerInv

\* The queue pair of a move-accept is moved from the operation o to q, which is
\* not there yet.
LEMMA DeliverStep ==
  ASSUME OwnerInv, NEW o \in Slots, NEW q \in Slots, o # q, q \notin live,
         qp'[q] = qp[o], qp'[o] = Empty,
         \A y \in Slots : y # o /\ y # q => qp'[y] = qp[y],
         q \in live', \A y \in Slots : y \in live /\ y # o => y \in live',
         UNCHANGED <<backend, conn, cm_qp, native, poller>>
  PROVE  Objects' /\ NdOwners' /\ IbvOwners'
<1>1. TypeOK /\ Objects /\ NdOwners /\ IbvOwners
  BY DEF OwnerInv
<1>2. qp[q].native = None /\ qp'[o].native = None /\ qp'[o].cq = "none"
  BY <1>1, EmptyFacts DEF Objects
<1>3. Objects'
  <2>1. \A z \in Slots : z \notin live' => qp'[z] = Empty
    BY <1>1 DEF Objects
  <2>2. \A z \in Slots : qp'[z].native # None =>
          qp'[z].cq # "none" /\ native'[qp'[z].native] # "none"
    BY <1>1, <1>2 DEF Objects
  <2>3. \A z, w \in Slots :
          z # w /\ qp'[z].native = qp'[w].native => qp'[z].native = None
    <3> SUFFICES ASSUME NEW z \in Slots, NEW w \in Slots, z # w,
                        qp'[z].native = qp'[w].native, qp'[z].native # None
                 PROVE  FALSE
      OBVIOUS
    <3>1. z # o /\ w # o
      BY <1>2
    <3>2. \A v \in Slots : v # o => qp'[v] = IF v = q THEN qp[o] ELSE qp[v]
      OBVIOUS
    <3> QED BY <1>1, <3>1, <3>2 DEF Objects
  <2>4. \A z \in Slots :
          qp'[z].cq = "event" /\ (backend = "ibv" \/ qp'[z].native # None) => poller'
    BY <1>1, <1>2 DEF Objects
  <2> QED
    BY <2>1, <2>2, <2>3, <2>4 DEF Objects
<1>4. NdOwners'
  <2> SUFFICES ASSUME backend = "nd" PROVE NdOwners'
    BY DEF NdOwners
  <2>1. \A z \in Slots : qp'[z].native # None => native'[qp'[z].native] = "live"
    BY <1>1, <1>2 DEF NdOwners
  <2>2. ASSUME NEW n \in Natives, native'[n] = "live" PROVE \E z \in Slots : qp'[z].native = n
    <3>1. PICK z \in Slots : qp[z].native = n
      BY <1>1, <2>2 DEF NdOwners
    <3>2. z # q
      BY <1>2, <3>1, NoneAssumption
    <3>3. CASE z = o
      BY <3>1, <3>3
    <3>4. CASE z # o
      BY <3>1, <3>2, <3>4
    <3> QED BY <3>3, <3>4
  <2> QED
    BY <1>1, <2>1, <2>2 DEF NdOwners
<1>5. IbvOwners'
  BY <1>1 DEF IbvOwners
<1> QED
  BY <1>3, <1>4, <1>5

LEMMA CompleteStep ==
  ASSUME OwnerInv, NEW o \in Ops, Complete(o)
  PROVE  OwnerInv'
<1>1. TypeOK /\ Objects /\ OpShape /\ op \in [Ops -> OpType] /\ qp \in [Slots -> QpType]
  BY TypeFacts DEF OwnerInv
<1>2. /\ op[o].stage = "posted" /\ op' = [op EXCEPT ![o].stage = "done"]
      /\ UNCHANGED <<backend, conn, cm_qp, poller>> /\ o \in Slots
  BY DEF Complete, Slots
<1>3. /\ op' \in [Ops -> OpType]
      /\ op'[o].kind = op[o].kind /\ op'[o].conn = op[o].conn /\ op'[o].at = op[o].at
      /\ op'[o].kept = op[o].kept /\ op'[o].stage = "done"
      /\ \A p \in Ops : p # o => op'[p] = op[p]
  BY <1>1, <1>2 DEF OpType
<1>4. Pending(o) /\ ~Holding(o)'
  BY <1>2, <1>3 DEF Pending, Holding
<1>5. CASE op[o].kind # "move" /\ UNCHANGED <<live, qp, native>>
  <2>1. TypeOK'
    BY <1>1, <1>2, <1>3, <1>5 DEF TypeOK, OpType
  <2>2. Objects' /\ NdOwners' /\ IbvOwners'
    BY <1>2, <1>5, OwnersFrame DEF Spent
  <2>3. o \notin live
    BY <1>1, <1>5 DEF OpShape
  <2>4. OpShape' /\ OneUser' /\ OneGiven' /\ GivenHolds'
    BY <1>2, <1>3, <1>4, <1>5, <2>3, HoldingFacts, StageStep
  <2> QED BY <2>1, <2>2, <2>4 DEF OwnerInv
\* Nobody else was given the queue pair in the operation, or one that is not
\* there yet.
<1>6. ASSUME op[o].kind = "move", NEW q, q = o \/ q \in Qps \ live,
             live' \cup {o} = live \cup {q, o}, o \notin live',
             \A y \in Slots : y # o /\ y # q => qp'[y] = qp[y]
      PROVE  OpShape' /\ OneUser' /\ OneGiven' /\ GivenHolds'
  <2>1. \A p \in Ops : p # o => op[p].at # o
    BY <1>1, NoneAssumption, SlotAssumption DEF OpShape
  <2>2. \A p \in Ops : p # o /\ op[p].kept =>
           /\ Pending(p) => op[p].at \in live' /\ op[p].at # q
           /\ Holding(p) => qp'[op[p].at] = qp[op[p].at]
    BY <1>6, <2>1, HoldingFacts
  <2>3. \A p \in Ops : p \in live' <=> p \in live /\ p # o
    BY <1>6, SlotAssumption
  <2> QED
    BY <1>2, <1>3, <1>4, <2>2, <2>3, StageStep
<1>7. ASSUME op[o].kind = "move", live' = live \ {o}, qp' = [qp EXCEPT ![o] = Empty],
             native' = Released(o)
      PROVE  OwnerInv'
  <2>1. /\ qp' \in [Slots -> QpType] /\ qp'[o] = Empty
        /\ \A y \in Slots : y # o => qp'[y] = qp[y]
    BY <1>1, <1>2, <1>7, EmptyFacts
  <2>2. native' \in [Natives -> {"none", "live", "destroyed"}]
    BY <1>1, <1>2, <1>7, ReleasedFacts
  <2>3. TypeOK'
    BY <1>1, <1>2, <1>3, <1>7, <2>1, <2>2 DEF TypeOK, OpType, QpType
  <2>4. Objects' /\ NdOwners' /\ IbvOwners'
    BY <1>2, <1>7, <2>1, ReleaseStep
  <2>5. OpShape' /\ OneUser' /\ OneGiven' /\ GivenHolds'
    BY <1>6, <1>7, <2>1
  <2> QED BY <2>3, <2>4, <2>5 DEF OwnerInv
<1>8. ASSUME op[o].kind = "move", NEW q \in Qps \ live, live' = (live \ {o}) \cup {q},
             qp' = [qp EXCEPT ![q] = Delivered(o), ![o] = Empty],
             native' = IF Delivered(o) = Empty THEN Released(o) ELSE native
      PROVE  OwnerInv'
  <2>1. q \in Slots /\ q # o /\ q \notin Ops /\ qp[q] = Empty
    BY <1>1, <1>8, SlotAssumption DEF Slots, Objects
  <2>2. Delivered(o) \in QpType /\ (Delivered(o) = qp[o] \/ Delivered(o) = Empty)
    BY <1>1, <1>2, EmptyFacts DEF Delivered
  <2>3. /\ qp' \in [Slots -> QpType] /\ qp'[o] = Empty /\ qp'[q] = Delivered(o)
        /\ \A y \in Slots : y # o /\ y # q => qp'[y] = qp[y]
    BY <1>1, <1>2, <1>8, <2>1, <2>2, EmptyFacts
  <2>4. native' \in [Natives -> {"none", "live", "destroyed"}]
    BY <1>1, <1>2, <1>8, ReleasedFacts DEF TypeOK
  <2>5. TypeOK'
    BY <1>1, <1>2, <1>3, <1>8, <2>1, <2>3, <2>4 DEF TypeOK, OpType, QpType
  <2>6. Objects' /\ NdOwners' /\ IbvOwners'
    <3>1. CASE Delivered(o) = Empty
      BY <1>2, <1>8, <2>1, <2>3, <3>1, ReleaseStep
    <3>2. CASE Delivered(o) # Empty
      BY <1>2, <1>8, <2>1, <2>2, <2>3, <3>2, DeliverStep
    <3> QED BY <3>1, <3>2
  <2>7. OpShape' /\ OneUser' /\ OneGiven' /\ GivenHolds'
    BY <1>1, <1>4, <1>6, <1>8, <2>1, <2>3 DEF OpShape
  <2> QED BY <2>5, <2>6, <2>7 DEF OwnerInv
<1> QED
  BY <1>5, <1>7, <1>8 DEF Complete

LEMMA DestroyConnectorStep ==
  ASSUME OwnerInv, NEW c \in Conns, DestroyConnector(c)
  PROVE  OwnerInv'
<1>1. /\ TypeOK /\ Objects /\ NdOwners /\ IbvOwners
      /\ OpShape /\ OneUser /\ OneGiven /\ GivenHolds
  BY DEF OwnerInv
<1>2. /\ conn[c] # "destroyed" /\ conn' = [conn EXCEPT ![c] = "destroyed"]
      /\ UNCHANGED <<backend, live, qp, cm_qp, poller>>
      /\ \A n \in Natives : native'[n] = IF n = cm_qp[c] THEN "destroyed" ELSE native[n]
      /\ native' \in [Natives -> {"none", "live", "destroyed"}]
  BY <1>1 DEF DestroyConnector, TypeOK
<1>3. /\ conn'[c] = "destroyed" /\ \A d \in Conns : d # c => conn'[d] = conn[d]
      /\ conn' \in [Conns -> {"idle", "used", "destroyed"}]
      /\ \A y \in Slots : qp[y].native \in Natives \cup {None}
      /\ \A d \in Conns : cm_qp[d] \in Natives \cup {None}
      /\ None \notin Natives
  BY <1>1, <1>2, NoneAssumption DEF TypeOK
<1>4. ASSUME NEW p \in Ops
      PROVE  /\ op'[p] \in OpType
             /\ op'[p].kind = op[p].kind /\ op'[p].conn = op[p].conn
             /\ op'[p].at = op[p].at /\ op'[p].kept = op[p].kept
             /\ IF op[p].conn = c /\ Active(p)
                THEN op'[p].stage = "posted" /\ op'[p].ec = "error"
                ELSE op'[p].stage = op[p].stage /\ op'[p].ec = op[p].ec
  <2>1. op[p] \in OpType
    BY <1>1, TypeFacts
  <2>2. op'[p] = IF op[p].conn = c /\ Active(p)
                 THEN [op[p] EXCEPT !.stage = "posted", !.ec = "error"] ELSE op[p]
    BY DEF DestroyConnector, Active
  <2> QED BY <2>1, <2>2 DEF OpType
<1>5. op' \in [Ops -> OpType]
  <2>1. op' = [p \in Ops |-> op'[p]]
    BY DEF DestroyConnector
  <2> QED BY <1>4, <2>1
<1>6. TypeOK'
  BY <1>1, <1>2, <1>3, <1>5 DEF TypeOK, OpType
<1>7. Objects'
  BY <1>1, <1>2, <1>3 DEF Objects
<1>8. NdOwners'
  BY <1>1, <1>2, <1>3 DEF NdOwners
<1>9. IbvOwners'
  BY <1>1, <1>2, <1>3 DEF IbvOwners
<1>10. OpShape'
  BY <1>1, <1>2, <1>3, <1>4 DEF OpShape, Active, Pending
<1>11. OneUser' /\ OneGiven'
  BY <1>1, <1>4 DEF OneUser, OneGiven, Active, Pending
<1>12. GivenHolds'
  BY <1>1, <1>2, <1>4 DEF GivenHolds, Holds, Active, Pending
<1> QED
  BY <1>6, <1>7, <1>8, <1>9, <1>10, <1>11, <1>12 DEF OwnerInv
-----------------------------------------------------------------------------
(* The theorems. *)

LEMMA OwnerStep == OwnerInv /\ [Next]_vars => OwnerInv'
<1> SUFFICES ASSUME OwnerInv, [Next]_vars PROVE OwnerInv'
  OBVIOUS
<1>1. ASSUME NEW q \in Qps, Construct(q) \/ Destroy(q) PROVE OwnerInv'
  BY <1>1, ConstructStep, DestroyStep
<1>2. ASSUME NEW q \in Qps, NEW m \in Modes, ConstructBound(q, m) PROVE OwnerInv'
  BY <1>2, BindObjectStep DEF ConstructBound
<1>3. ASSUME NEW q \in Qps, NEW m \in Modes, Bind(q, m) PROVE OwnerInv'
  <2>1. live' = live \cup {q}
    BY <1>3 DEF Bind
  <2> QED BY <1>3, <2>1, BindObjectStep DEF Bind
<1>4. ASSUME NEW x \in Qps, NEW y \in Qps, Move(x, y) PROVE OwnerInv'
  BY <1>4, MoveStep
<1>5. ASSUME NEW o \in Ops, NEW c \in Conns, NEW x \in Qps, Connect(o, c, x)
      PROVE  OwnerInv'
  BY <1>5, IbvConnectStep, NdStartStep, RefuseStep DEF Connect
<1>6. ASSUME NEW o \in Ops, NEW c \in Conns, NEW x \in Qps, Accept(o, c, x)
      PROVE  OwnerInv'
  BY <1>6, IbvAcceptStep, NdStartStep, RefuseStep DEF Accept
<1>7. ASSUME NEW o \in Ops, NEW c \in Conns, NEW m \in Modes, MoveAccept(o, c, m)
      PROVE  OwnerInv'
  BY <1>7, MoveAcceptStep
<1>8. ASSUME NEW o \in Ops, AddrResolved(o) \/ Complete(o) PROVE OwnerInv'
  BY <1>8, AddrResolvedStep, CompleteStep
<1>9. ASSUME NEW o \in Ops, NEW e \in {"ok", "error"}, Finish(o, e) PROVE OwnerInv'
  BY <1>9, FinishStep
<1>10. ASSUME NEW c \in Conns, Disconnect(c) \/ DestroyConnector(c) PROVE OwnerInv'
  BY <1>10, DisconnectStep, DestroyConnectorStep
<1>11. CASE UNCHANGED vars
  BY <1>11 DEF vars, OwnerInv, TypeOK, Objects, NdOwners, IbvOwners, OpShape,
               OneUser, OneGiven, GivenHolds, Holds, Active, Pending
<1> QED
  BY <1>1, <1>2, <1>3, <1>4, <1>5, <1>6, <1>7, <1>8, <1>9, <1>10, <1>11 DEF Next

LEMMA OwnerInvariant == Spec => []OwnerInv
BY InitOwner, OwnerStep, PTL DEF Spec

\* Every variable of the queue pairs and connectors keeps its type.
THEOREM QpTypeCorrect == Spec => []TypeOK
<1>1. OwnerInv => TypeOK
  BY DEF OwnerInv
<1> QED
  BY OwnerInvariant, <1>1, PTL

LEMMA OwnerInvOneOwner == OwnerInv => OneOwner
<1> SUFFICES ASSUME OwnerInv PROVE OneOwner
  OBVIOUS
<1>1. TypeOK /\ Objects /\ NdOwners /\ IbvOwners
  BY DEF OwnerInv
<1>2. ASSUME NEW n \in Natives, native[n] = "live"
      PROVE  LET owners == IF backend = "ibv"
                           THEN {c \in Conns : conn[c] # "destroyed" /\ cm_qp[c] = n}
                           ELSE {x \in live : qp[x].native = n}
             IN \E a \in owners : owners = {a}
  <2>1. n # None
    BY NoneAssumption
  <2>2. CASE backend = "ibv"
    <3>1. PICK c \in Conns : cm_qp[c] = n
      BY <1>1, <1>2, <2>2 DEF IbvOwners
    <3>2. conn[c] # "destroyed"
      BY <1>1, <1>2, <2>1, <2>2, <3>1 DEF IbvOwners
    <3>3. {d \in Conns : conn[d] # "destroyed" /\ cm_qp[d] = n} = {c}
      BY <1>1, <2>1, <2>2, <3>1, <3>2 DEF IbvOwners
    <3> QED BY <2>2, <3>3
  <2>3. CASE backend = "nd"
    <3>1. PICK x \in Slots : qp[x].native = n
      BY <1>1, <1>2, <2>3 DEF NdOwners
    <3>2. x \in live
      BY <1>1, <2>1, <3>1, EmptyFacts DEF Objects
    <3>3. {y \in live : qp[y].native = n} = {x}
      BY <1>1, <2>1, <3>1, <3>2 DEF Objects, TypeOK
    <3> QED BY <2>3, <3>3
  <2> QED BY <1>1, <2>2, <2>3 DEF TypeOK
<1>3. \A x, y \in Slots : qp[x].native = qp[y].native /\ x # y => qp[x].native = None
  BY <1>1 DEF Objects
<1>4. backend = "nd" =>
        \A x \in Slots : qp[x].native # None => x \in live /\ native[qp[x].native] = "live"
  BY <1>1, EmptyFacts DEF Objects, NdOwners
<1> QED
  BY <1>2, <1>3, <1>4 DEF OneOwner

\* A native queue pair that is live has exactly one owner, the connector on ibv
\* and the queue pair object on nd, and no two objects point at the same one:
\* moves, overwritten objects, failed accepts and handlers that drop what they
\* are given neither leak one nor free one twice.
THEOREM OwnedOnce == Spec => []OneOwner
BY OwnerInvariant, OwnerInvOneOwner, PTL

\* What an operation holds is ready for a post while its connector is there.
LEMMA HoldsReady ==
  ASSUME OwnerInv, NEW o \in Ops, op[o].kept, Holding(o),
         backend = "nd" \/ conn[op[o].conn] # "destroyed"
  PROVE  /\ Ready(qp[op[o].at])
         /\ backend = "ibv" => cm_qp[op[o].conn] = qp[op[o].at].native
<1>1. TypeOK /\ Objects /\ NdOwners /\ IbvOwners /\ OpShape
  BY DEF OwnerInv
<1>2. Holds(o) /\ op[o].at \in Slots /\ op[o].conn \in Conns
  <2>1. Holds(o) /\ Pending(o) /\ op[o].at \in Slots
    BY HoldingFacts DEF OwnerInv, GivenHolds, Holding
  <2> QED BY <1>1, <2>1 DEF OpShape, Pending
<1>3. native[qp[op[o].at].native] = "live"
  <2>1. CASE backend = "nd"
    BY <1>1, <1>2, <2>1 DEF NdOwners, Holds
  <2>2. CASE backend = "ibv"
    BY <1>1, <1>2, <2>2 DEF IbvOwners, Holds
  <2> QED BY <1>1, <2>1, <2>2 DEF TypeOK
<1>4. qp[op[o].at].cq = "event" => poller
  BY <1>1, <1>2 DEF Objects, Holds
<1> QED
  BY <1>2, <1>3, <1>4 DEF Ready, Holds

LEMMA OwnerInvPending == OwnerInv => PendingHasItsQp
<1> SUFFICES ASSUME OwnerInv, NEW o \in Ops, op[o].stage = "started", op[o].kept
             PROVE  /\ Ready(qp[op[o].at])
                    /\ backend = "ibv" => cm_qp[op[o].conn] = qp[op[o].at].native
  BY DEF PendingHasItsQp
<1>1. conn[op[o].conn] # "destroyed"
  BY DEF OwnerInv, OpShape, Active
<1> QED
  BY <1>1, HoldsReady DEF Holding

\* While a connect or accept is in flight its native queue pair is live, and the
\* object the caller passed and left alone, or the one in the operation, holds
\* it, is bound and has someone who reaps.
THEOREM InFlightHasItsQp == Spec => []PendingHasItsQp
BY OwnerInvariant, OwnerInvPending, PTL

\* Only the completion of the operation runs its handler.
LEMMA OnlyComplete ==
  ASSUME OwnerInv, Next, NEW o \in Ops, op[o].stage = "posted", op'[o].stage = "done"
  PROVE  Complete(o)
<1>1. TypeOK /\ op \in [Ops -> OpType]
  BY TypeFacts DEF OwnerInv
<1>2. op' # op
  OBVIOUS
<1>3. \A q \in Qps : ~Construct(q) /\ \A m \in Modes : ~ConstructBound(q, m) /\ ~Bind(q, m)
  BY <1>2 DEF Construct, ConstructBound, Bind
<1>4. ASSUME NEW xs PROVE op' # Disturbed(xs)
  <2>1. Disturbed(xs)[o].stage = op[o].stage
    BY <1>1, DisturbedFacts
  <2> QED BY <2>1
<1>5. \A q \in Qps : ~Destroy(q) /\ \A y \in Qps : ~Move(q, y)
  BY <1>4 DEF Destroy, Move
<1>6. ASSUME NEW p \in Ops, NEW k \in {"connect", "accept", "move"}, NEW c \in Conns,
             NEW x \in Slots, NEW st \in {"resolving", "started", "posted"},
             NEW e \in {"none", "error"}
      PROVE  op' # Given(p, k, c, x, st, e)
  <2> SUFFICES ASSUME op' = Given(p, k, c, x, st, e) PROVE FALSE
    OBVIOUS
  <2>1. /\ op'[p].stage = st
        /\ o # p => op'[o].stage = op[o].stage
    BY <1>1, GivenFacts
  <2> QED BY <2>1
<1>7. ASSUME NEW p \in Ops, NEW k \in {"connect", "accept", "move"}, NEW c \in Conns,
             NEW x \in Slots
      PROVE  op' # Posted(p, k, c, x) /\ op' # Started(p, k, c, x)
  BY <1>6 DEF Posted, Started
<1>8. ASSUME NEW p \in Ops, NEW c \in Conns, NEW x \in Qps
      PROVE  ~Connect(p, c, x) /\ ~Accept(p, c, x)
  <2>1. x \in Slots
    BY DEF Slots
  <2>2. ~IbvConnect(p, c, x)
    BY <1>6, <1>7, <2>1 DEF IbvConnect
  <2>3. ~IbvAccept(p, "accept", c, x, qp)
    BY <1>7, <2>1 DEF IbvAccept
  <2>4. \A k \in {"connect", "accept"} : ~NdStart(p, k, c, x, qp) /\ ~Refuse(p, k, c, x)
    BY <1>7, <2>1 DEF NdStart, Refuse
  <2> QED BY <2>2, <2>3, <2>4 DEF Connect, Accept
<1>9. ASSUME NEW p \in Ops, NEW c \in Conns, NEW m \in Modes, MoveAccept(p, c, m)
      PROVE  FALSE
  <2>1. op' # Posted(p, "move", c, p) /\ op' # Started(p, "move", c, p)
    BY <1>7 DEF Slots
  <2> QED BY <1>9, <2>1 DEF MoveAccept, IbvAccept, NdStart
<1>10. ASSUME NEW p \in Ops, AddrResolved(p) PROVE FALSE
  <2>1. op[p].stage = "resolving"
    BY <1>10 DEF AddrResolved
  <2>2. op'[o] = op[o]
    BY <1>1, <1>10, <2>1 DEF AddrResolved
  <2> QED BY <2>2
<1>11. ASSUME NEW p \in Ops, NEW e \in {"ok", "error"}, Finish(p, e) PROVE FALSE
  <2>1. op[p].stage # "posted"
    BY <1>11 DEF Finish
  <2>2. op'[o] = op[o]
    BY <1>1, <1>11, <2>1 DEF Finish
  <2> QED BY <2>2
<1>12. ASSUME NEW c \in Conns, Disconnect(c) \/ DestroyConnector(c) PROVE FALSE
  <2>1. op'[o] = op[o]
    BY <1>1, <1>12 DEF Disconnect, DestroyConnector
  <2> QED BY <2>1
<1>13. ASSUME NEW p \in Ops, Complete(p) PROVE p = o
  <2>1. op' = [op EXCEPT ![p].stage = "done"]
    BY <1>13 DEF Complete
  <2> QED BY <1>1, <2>1
<1>14. PICK p \in Ops : Complete(p)
  BY <1>3, <1>5, <1>8, <1>9, <1>10, <1>11, <1>12 DEF Next
<1> QED
  BY <1>13, <1>14

LEMMA OwnerInvHandler == OwnerInv /\ [Next]_vars => [HandlerStep]_vars
<1> SUFFICES ASSUME OwnerInv, Next PROVE HandlerStep
  OBVIOUS
<1> SUFFICES ASSUME NEW o \in Ops, op[o].stage = "posted", op'[o].stage = "done"
             PROVE  LET usable == /\ op[o].ec = "ok"
                                  /\ backend = "nd" \/ conn[op[o].conn] # "destroyed"
                    IN  IF op[o].kind = "move"
                        THEN \A q \in live' \ live :
                               /\ usable => Ready(qp[q])'
                               /\ op[o].ec # "ok" => qp'[q] = Empty
                        ELSE usable /\ op[o].kept => Ready(qp[op[o].at])
  BY DEF HandlerStep
<1> DEFINE usable == op[o].ec = "ok" /\ (backend = "nd" \/ conn[op[o].conn] # "destroyed")
<1>1. Complete(o)
  BY OnlyComplete
<1>2. usable /\ op[o].kept => Ready(qp[op[o].at])
  BY HoldsReady DEF Holding
<1>3. ASSUME op[o].kind = "move", NEW q \in live' \ live
      PROVE  (usable => Ready(qp[q])') /\ (op[o].ec # "ok" => qp'[q] = Empty)
  <2>1. TypeOK /\ op[o].kept /\ op[o].at = o /\ o \in live /\ o \in Slots
    BY <1>3 DEF OwnerInv, OpShape, Pending, Slots
  <2>2. /\ qp'[q] = Delivered(o) /\ UNCHANGED poller
        /\ Delivered(o) # Empty => native' = native
    <3>1. PICK r \in Qps \ live :
            /\ live' = (live \ {o}) \cup {r}
            /\ qp' = [qp EXCEPT ![r] = Delivered(o), ![o] = Empty]
            /\ native' = IF Delivered(o) = Empty THEN Released(o) ELSE native
      BY <1>1, <1>3 DEF Complete
    <3>2. q = r /\ r \in Slots /\ r # o
      BY <1>3, <2>1, <3>1 DEF Slots
    <3>3. qp'[r] = Delivered(o)
      BY <2>1, <3>1, <3>2 DEF TypeOK
    <3> QED BY <1>1, <3>1, <3>2, <3>3 DEF Complete
  <2>3. ASSUME usable PROVE Ready(qp[q])'
    <3>1. Ready(qp[o])
      BY <1>2, <2>1, <2>3
    <3>2. Delivered(o) = qp[o] /\ Delivered(o) # Empty
      BY <2>3, <3>1, EmptyFacts DEF Delivered, Ready
    <3> QED BY <2>2, <3>1, <3>2 DEF Ready
  <2>4. op[o].ec # "ok" => qp'[q] = Empty
    BY <2>2 DEF Delivered
  <2> QED BY <2>3, <2>4
<1> QED
  BY <1>2, <1>3

\* A handler that sees success can post: the queue pair it is given, or the one
\* the caller passed and left alone, is bound, live and reaped as long as its
\* connector is there; a handler that sees an error is given an empty one.
THEOREM SuccessMeansReady == Spec => HandlerGetsReadyQp
BY OwnerInvariant, OwnerInvHandler, PTL DEF Spec, HandlerGetsReadyQp
=============================================================================
