----------------------------- MODULE QueuePair ------------------------------
(***************************************************************************)
(* Queue pair objects of both backends and the connectors they meet.       *)
(*                                                                         *)
(* On ibv bind() only notes the completion queue: the native queue pair is *)
(* made by the connector on its cm_id, through a callback that fills in    *)
(* the queue pair object at the address it captured, and the connector     *)
(* owns it.  On nd bind() makes the native queue pair, the object owns it  *)
(* and the connector borrows it.  Move-accept binds a queue pair that      *)
(* lives in the operation and is moved into the handler's argument.        *)
(*                                                                         *)
(* Abstracted: the state machine of the connector (IbvConnector,           *)
(* NdConnector) is reduced to "idle", "used" (anything else: it is         *)
(* one-shot) and "destroyed", and a started operation ends with success or *)
(* an error at any moment; work requests and completions (IbvCompletion,   *)
(* NdCompletion, PollCq).                                                  *)
(***************************************************************************)
EXTENDS Naturals, FiniteSets

CONSTANTS
  Qps,      \* queue pair variables of the program
  Conns,    \* its connectors
  Ops,      \* connect and accept operations; an operation stores a queue pair
  Natives,  \* native queue pairs that can be made
  None

ASSUME NoneAssumption == None \notin Qps \cup Ops \cup Natives \cup Conns
ASSUME SlotAssumption == Qps \cap Ops = {}

Slots == Qps \cup Ops
Modes == {"event", "poll"}
Empty == [cq |-> "none", native |-> None]

VARIABLES
  backend,  \* "ibv" or "nd"
  live,     \* the addresses where a queue pair object is
  qp,       \* cq_ ("none": not bound) and qp_ of each
  conn,     \* the connectors
  cm_qp,    \* cm_id->qp of each connector (ibv)
  op,       \* the operations
  native,   \* "none", "live", "destroyed"
  poller    \* the poller of the shared CQ was started

vars == <<backend, live, qp, conn, cm_qp, op, native, poller>>

\* An operation: the address create_qp fills in, or whose native queue pair
\* was borrowed; kept tells that the caller left that queue pair alone since.
NoOp == [kind |-> "none", conn |-> None, at |-> None, stage |-> "none",
         ec |-> "none", kept |-> TRUE]

Init ==
  /\ backend \in {"ibv", "nd"}
  /\ live = {}
  /\ qp = [x \in Slots |-> Empty]
  /\ conn = [c \in Conns |-> "idle"]
  /\ cm_qp = [c \in Conns |-> None]
  /\ op = [o \in Ops |-> NoOp]
  /\ native = [n \in Natives |-> "none"]
  /\ poller = FALSE

Unused == {n \in Natives : native[n] = "none"}
-----------------------------------------------------------------------------
(* Queue pair objects. *)

\* What bind() may leave in an object: a device that is not registered leaves
\* it as it was.  nd sets cq_ before create_qp, which may fail.
BindResults(m) ==
  {[qp |-> Empty, ec |-> "error"] : x \in {m} \cap {"event"}}
  \cup
  IF backend = "ibv"
  THEN {[qp |-> [cq |-> m, native |-> None], ec |-> "ok"]}
  ELSE {[qp |-> [cq |-> m, native |-> n], ec |-> "ok"] : n \in Unused}
       \cup {[qp |-> [cq |-> m, native |-> None], ec |-> "error"]}

\* ensure_poller_started, after a bind in event mode that succeeded.
PollerAfter(m, r) == poller \/ (m = "event" /\ r.ec = "ok")

Made(r) ==
  [n \in Natives |-> IF n = r.qp.native THEN "live" ELSE native[n]]

\* The smart pointer of the nd object frees its native queue pair; the ibv
\* object holds a plain pointer.
Released(x) ==
  [n \in Natives |-> IF backend = "nd" /\ n = qp[x].native THEN "destroyed"
                     ELSE native[n]]

\* The caller has changed these queue pairs under the operations using them.
Disturbed(xs) ==
  [o \in Ops |-> IF op[o].at \in xs
                 THEN [op[o] EXCEPT !.kept = FALSE] ELSE op[o]]

Construct(q) ==
  /\ q \in Qps \ live
  /\ live' = live \cup {q}
  /\ qp' = [qp EXCEPT ![q] = Empty]
  /\ UNCHANGED <<backend, conn, cm_qp, op, native, poller>>

\* The binding constructors: one that fails throws, and its native queue pair
\* was not made.
ConstructBound(q, m) ==
  /\ q \in Qps \ live
  /\ \E r \in BindResults(m) :
       /\ r.ec = "ok"
       /\ live' = live \cup {q}
       /\ qp' = [qp EXCEPT ![q] = r.qp]
       /\ native' = Made(r)
       /\ poller' = PollerAfter(m, r)
  /\ UNCHANGED <<backend, conn, cm_qp, op>>

\* bind(): an object that is bound refuses (already_open).
Bind(q, m) ==
  /\ q \in Qps \cap live
  /\ qp[q].cq = "none"
  /\ \E r \in BindResults(m) :
       /\ qp' = [qp EXCEPT ![q] = r.qp]
       /\ native' = Made(r)
       /\ poller' = PollerAfter(m, r)
  /\ UNCHANGED <<backend, live, conn, cm_qp, op>>

\* Seeded fault: the source of a move keeps its pointers.
MovedFromKept(x) == qp[x]

\* What a move leaves at its source.
MovedFrom(x) == Empty

\* The move constructor, and the move assignment onto an object that is live:
\* what the nd object held is freed.
Move(x, y) ==
  /\ x \in Qps \cap live /\ y \in Qps /\ x # y
  /\ live' = live \cup {y}
  /\ qp' = [qp EXCEPT ![y] = qp[x], ![x] = MovedFrom(x)]
  /\ native' = IF y \in live THEN Released(y) ELSE native
  /\ op' = Disturbed({x, y})
  /\ UNCHANGED <<backend, conn, cm_qp, poller>>

Destroy(q) ==
  /\ q \in Qps \cap live
  /\ live' = live \ {q}
  /\ qp' = [qp EXCEPT ![q] = Empty]
  /\ native' = Released(q)
  /\ op' = Disturbed({q})
  /\ UNCHANGED <<backend, conn, cm_qp, poller>>
-----------------------------------------------------------------------------
(* Connect and accept. *)

Pending(p) == op[p].stage \notin {"none", "done"}

\* The other operations that were given the queue pair at x.
Sharing(o, x) == {p \in Ops \ {o} : Pending(p) /\ op[p].at = x}

\* Operation o is given the queue pair at x, which no two may share.
Given(o, k, c, x, st, e) ==
  [p \in Ops |->
     CASE p = o -> [kind |-> k, conn |-> c, at |-> x, stage |-> st, ec |-> e,
                    kept |-> Sharing(o, x) = {}]
       [] p \in Sharing(o, x) -> [op[p] EXCEPT !.kept = FALSE]
       [] OTHER -> op[p]]

Posted(o, k, c, x) == Given(o, k, c, x, "posted", "error")
Started(o, k, c, x) == Given(o, k, c, x, "started", "none")

\* Seeded fault: the object is not told of its native queue pair.
FilledInNot(qs, x, n) == qs

\* create_qp fills in the object at the address it is given, if one is there.
FilledIn(qs, x, n) == IF x \in live \cup Ops THEN [qs EXCEPT ![x].native = n] ELSE qs

\* create_qp on the cm_id (ibv): refused for an object that is not bound.  An
\* address where no object is any more reads whatever is there.
CanCreate(qs, x) == qs[x].cq # "none" \/ x \notin live \cup Ops

\* Refused before it starts and posted with an error: the connector was used
\* or is not open, the private data is too large, or nd has no queue pair.
Refuse(o, k, c, x) ==
  /\ op' = Posted(o, k, c, x)
  /\ UNCHANGED <<backend, live, qp, conn, cm_qp, native, poller>>

\* The one-shot guard.
MayStart(c) == conn[c] = "idle"

Use(c) == conn' = [conn EXCEPT ![c] = "used"]

\* async_connect on ibv: the queue pair is made when the address is resolved,
\* through the address of x.  resolve_addr may fail at once.
IbvConnect(o, c, x) ==
  /\ backend = "ibv"
  /\ MayStart(c)
  /\ Use(c)
  /\ \/ op' = Given(o, "connect", c, x, "resolving", "none")
     \/ op' = Posted(o, "connect", c, x)
  /\ UNCHANGED <<backend, live, qp, cm_qp, native, poller>>

\* ADDR_RESOLVED: the operation goes on with the native queue pair, or ends.
AddrResolved(o) ==
  LET c == op[o].conn
      x == op[o].at
  IN
  /\ op[o].stage = "resolving"
  /\ \/ \E n \in Unused :
          /\ CanCreate(qp, x)
          /\ native' = [native EXCEPT ![n] = "live"]
          /\ cm_qp' = [cm_qp EXCEPT ![c] = n]
          /\ qp' = FilledIn(qp, x, n)
          /\ op' = [op EXCEPT ![o].stage = "started"]
     \/ /\ op' = [op EXCEPT ![o].stage = "posted", ![o].ec = "error"]
        /\ UNCHANGED <<native, cm_qp, qp>>
  /\ UNCHANGED <<backend, live, conn, poller>>

\* start_accept_op on ibv with the queue pair object at x: the native queue
\* pair is made at once; rdma_accept may fail after it.
IbvAccept(o, k, c, x, qs) ==
  /\ backend = "ibv"
  /\ Use(c)
  /\ \/ \E n \in Unused :
          /\ CanCreate(qs, x)
          /\ native' = [native EXCEPT ![n] = "live"]
          /\ cm_qp' = [cm_qp EXCEPT ![c] = n]
          /\ qp' = FilledIn(qs, x, n)
          /\ \/ op' = Started(o, k, c, x)
             \/ op' = Posted(o, k, c, x)
     \/ /\ op' = Posted(o, k, c, x)
        /\ qp' = qs
        /\ UNCHANGED <<native, cm_qp>>
  /\ UNCHANGED backend

\* async_connect and async_accept on nd borrow the native queue pair, or are
\* refused without one; the native call may fail at once.
NdStart(o, k, c, x, qs) ==
  /\ backend = "nd"
  /\ qs[x].native # None
  /\ Use(c)
  /\ \/ op' = Started(o, k, c, x)
     \/ op' = Posted(o, k, c, x)
  /\ qp' = qs
  /\ UNCHANGED <<backend, cm_qp>>

\* async_connect(qp, ...) and async_accept(qp, ...).
Connect(o, c, x) ==
  /\ op[o].stage = "none" /\ conn[c] # "destroyed" /\ x \in Qps \cap live
  /\ \/ IbvConnect(o, c, x)
     \/ MayStart(c) /\ NdStart(o, "connect", c, x, qp) /\ UNCHANGED <<live, native, poller>>
     \/ Refuse(o, "connect", c, x)

Accept(o, c, x) ==
  /\ op[o].stage = "none" /\ conn[c] # "destroyed" /\ x \in Qps \cap live
  /\ \/ /\ MayStart(c)
        /\ \/ IbvAccept(o, "accept", c, x, qp)
           \/ NdStart(o, "accept", c, x, qp) /\ UNCHANGED native
        /\ UNCHANGED <<live, poller>>
     \/ Refuse(o, "accept", c, x)

\* async_accept(io or cq, ...): the queue pair in the operation is bound, and
\* used only if that worked and the connector may be used.
MoveAccept(o, c, m) ==
  /\ op[o].stage = "none" /\ conn[c] # "destroyed"
  /\ live' = live \cup {o}
  /\ \E r \in BindResults(m) :
       LET qs == [qp EXCEPT ![o] = r.qp] IN
       /\ poller' = PollerAfter(m, r)
       /\ \/ /\ r.ec = "ok" /\ MayStart(c)
             /\ \/ IbvAccept(o, "move", c, o, qs)
                \/ NdStart(o, "move", c, o, qs) /\ native' = Made(r)
          \/ /\ op' = Posted(o, "move", c, o)
             /\ qp' = qs
             /\ native' = Made(r)
             /\ UNCHANGED <<backend, conn, cm_qp>>

\* The connection is established, or the operation fails or is aborted.
Finish(o, e) ==
  /\ \/ op[o].stage = "started"
     \/ op[o].stage = "resolving" /\ e = "error"
  /\ op' = [op EXCEPT ![o].stage = "posted", ![o].ec = e]
  /\ UNCHANGED <<backend, live, qp, conn, cm_qp, native, poller>>

\* disconnect() of a connector that is idle spends it.
Disconnect(c) ==
  /\ conn[c] = "idle"
  /\ Use(c)
  /\ UNCHANGED <<backend, live, qp, cm_qp, op, native, poller>>

\* Seeded fault: the handler gets the queue pair of the failed accept.
DeliveredAlways(o) == qp[o]

\* move_accept_handler: an error resets the queue pair.
Delivered(o) == IF op[o].ec = "ok" THEN qp[o] ELSE Empty

\* The handler of a connect or accept runs.  That of a move-accept receives
\* the queue pair in an object of its own, or drops it.
Complete(o) ==
  /\ op[o].stage = "posted"
  /\ op' = [op EXCEPT ![o].stage = "done"]
  /\ \/ /\ op[o].kind # "move"
        /\ UNCHANGED <<live, qp, native>>
     \/ /\ op[o].kind = "move"
        /\ \/ \E q \in Qps \ live :
                /\ live' = (live \ {o}) \cup {q}
                /\ qp' = [qp EXCEPT ![q] = Delivered(o), ![o] = Empty]
                /\ native' = IF Delivered(o) = Empty THEN Released(o) ELSE native
           \/ /\ live' = live \ {o}
              /\ qp' = [qp EXCEPT ![o] = Empty]
              /\ native' = Released(o)
  /\ UNCHANGED <<backend, conn, cm_qp, poller>>

\* The destructor of a connector aborts its operation; on ibv the native queue
\* pair on its cm_id is destroyed.
DestroyConnector(c) ==
  /\ conn[c] # "destroyed"
  /\ conn' = [conn EXCEPT ![c] = "destroyed"]
  /\ native' = [n \in Natives |-> IF n = cm_qp[c] THEN "destroyed" ELSE native[n]]
  /\ op' = [o \in Ops |->
             IF op[o].conn = c /\ op[o].stage \in {"resolving", "started"}
             THEN [op[o] EXCEPT !.stage = "posted", !.ec = "error"] ELSE op[o]]
  /\ UNCHANGED <<backend, live, qp, cm_qp, poller>>

Next ==
  \/ \E q \in Qps : Construct(q) \/ Destroy(q)
  \/ \E q \in Qps, m \in Modes : ConstructBound(q, m) \/ Bind(q, m)
  \/ \E x, y \in Qps : Move(x, y)
  \/ \E o \in Ops, c \in Conns, x \in Qps : Connect(o, c, x) \/ Accept(o, c, x)
  \/ \E o \in Ops, c \in Conns, m \in Modes : MoveAccept(o, c, m)
  \/ \E o \in Ops : AddrResolved(o) \/ Complete(o)
  \/ \E o \in Ops, e \in {"ok", "error"} : Finish(o, e)
  \/ \E c \in Conns : Disconnect(c) \/ DestroyConnector(c)

Spec == Init /\ [][Next]_vars
-----------------------------------------------------------------------------
(* Properties. *)

\* Every variable keeps its type.
TypeOK ==
  /\ backend \in {"ibv", "nd"}
  /\ live \subseteq Slots
  /\ qp \in [Slots -> [cq : Modes \cup {"none"}, native : Natives \cup {None}]]
  /\ conn \in [Conns -> {"idle", "used", "destroyed"}]
  /\ cm_qp \in [Conns -> Natives \cup {None}]
  /\ op \in [Ops -> [kind : {"none", "connect", "accept", "move"},
                     conn : Conns \cup {None}, at : Slots \cup {None},
                     stage : {"none", "resolving", "started", "posted", "done"},
                     ec : {"none", "ok", "error"}, kept : BOOLEAN]]
  /\ native \in [Natives -> {"none", "live", "destroyed"}]
  /\ poller \in BOOLEAN

\* A native queue pair that is live has one owner, the connector on ibv and
\* the queue pair object on nd, and no two objects point at the same one:
\* nothing is leaked or freed twice by moves, overwritten objects, failed
\* accepts or handlers that drop what they are given.
OneOwner ==
  /\ \A n \in Natives :
       native[n] = "live" =>
         LET owners == IF backend = "ibv"
                       THEN {c \in Conns : conn[c] # "destroyed" /\ cm_qp[c] = n}
                       ELSE {x \in live : qp[x].native = n}
         IN \E a \in owners : owners = {a}
  /\ \A x, y \in Slots : qp[x].native = qp[y].native /\ x # y => qp[x].native = None
  /\ backend = "nd" =>
       \A x \in Slots : qp[x].native # None => x \in live /\ native[qp[x].native] = "live"

\* What a post needs: bound, a live native queue pair, and someone who reaps.
Ready(q) ==
  /\ q.cq # "none"
  /\ q.native # None /\ native[q.native] = "live"
  /\ q.cq = "event" => poller

\* While a connect or accept is in flight its native queue pair is live, and
\* the object the caller passed, or the one in the operation, holds it.
PendingHasItsQp ==
  \A o \in Ops :
    op[o].stage = "started" /\ op[o].kept =>
      /\ Ready(qp[op[o].at])
      /\ backend = "ibv" => cm_qp[op[o].conn] = qp[op[o].at].native

\* The step in which the handler of a connect or accept runs.
HandlerStep ==
  \A o \in Ops :
    LET usable == op[o].ec = "ok" /\ (backend = "nd" \/ conn[op[o].conn] # "destroyed")
    IN
    op[o].stage = "posted" /\ op'[o].stage = "done" =>
      IF op[o].kind = "move"
      THEN \A q \in live' \ live :
             /\ usable => Ready(qp[q])'
             /\ op[o].ec # "ok" => qp'[q] = Empty
      ELSE usable /\ op[o].kept => Ready(qp[op[o].at])

\* A handler that sees success can post: the queue pair it is given, or the
\* one the caller passed and left alone, is ready as long as its connector is
\* there.  One that sees an error is given an empty queue pair.
HandlerGetsReadyQp == [][HandlerStep]_vars

\* On nd "the QP is created at bind time, so native_handle() is also non-null
\* then".  Refuted: cq_ is set before create_qp, which may fail.
BoundHasNative ==
  backend = "nd" => \A x \in live : qp[x].cq # "none" => qp[x].native # None
=============================================================================
