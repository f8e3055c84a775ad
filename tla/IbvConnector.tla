---------------------------- MODULE IbvConnector ----------------------------
(***************************************************************************)
(* One rdma_connector of the ibv backend: ibv_connector_service, the       *)
(* connect, accept and wait_disconnect reactor operations, and the CM      *)
(* event channel and cm_id they drive.                                     *)
(*                                                                         *)
(* Actors.  The owner thread opens the connector, initiates operations and *)
(* destroys it.  Any thread of Threads may call disconnect().  A reactor   *)
(* thread runs perform_io under the descriptor lock and a scheduler thread *)
(* runs completions.  rdma_cm reports events on the channel.  Every        *)
(* compare-exchange of connect_state_ and every native call is a step of   *)
(* its own, so that they interleave as the code allows.                    *)
(*                                                                         *)
(* Abstracted: addresses, private data, queue-pair attributes (a native    *)
(* call either succeeds or fails), and the several error codes that differ *)
(* only in their text ("error" is any system error, "rejected" any guard   *)
(* of the initiating function).                                            *)
(***************************************************************************)
EXTENDS Naturals, Sequences

CONSTANTS
  Threads,    \* threads that may call disconnect()
  ConnOps,    \* async_connect / async_accept / move-accept operations
  Watchers,   \* async_wait_disconnect operations
  MaxExtra,   \* bound: unsolicited CM events (ADDR_CHANGE, DEVICE_REMOVAL)
  MaxFault    \* bound: hard errors of rdma_get_cm_event

ASSUME OpsDisjoint == ConnOps \cap Watchers = {}
ASSUME BoundsAreNat == MaxExtra \in Nat /\ MaxFault \in Nat

Ops == ConnOps \cup Watchers

VARIABLES
  life,          \* the object: is_open(), registered descriptor, destroyed
  connect_state, \* implementation_type::connect_state_
  peer_closed,   \* implementation_type::peer_closed_
  phase,         \* where each operation is, from initiation to its handler
  stage,         \* ibv_connect_op_base::stage_ ("accept" for an accept op)
  ec,            \* reactor_op::ec_ of each operation
  rq,            \* the reactor's read_op queue of the CM channel fd
  rpc,           \* what perform_io is executing under the descriptor lock
  edge,          \* an edge-triggered readiness is pending for the fd
  pc,            \* where each thread is inside disconnect()
  old,           \* the prior state disconnect() obtained from its CAS
  cm,            \* the kernel's state of the cm_id
  events,        \* CM events queued on the channel
  discs,         \* rdma_disconnect calls issued on the cm_id
  consumed,      \* who took the ESTABLISHED event off the channel
  dangling,      \* a completion wrote connect_state_ after the destructor
  extra, faults  \* used budget of the environment

connector == <<life, connect_state, peer_closed>>
opvars    == <<phase, stage, ec>>
reactor   == <<rq, rpc, edge>>
threads   == <<pc, old>>
cmvars    == <<cm, events, discs, consumed>>
aux       == <<dangling, extra, faults>>
vars      == <<connector, opvars, reactor, threads, cmvars, aux>>

ConnectState ==
  {"idle", "addr_resolve", "addr_route", "connecting", "connected", "closed"}
InFlight == {"addr_resolve", "addr_route", "connecting"}

Event ==
  {"ADDR_RESOLVED", "ADDR_ERROR", "ROUTE_RESOLVED", "ROUTE_ERROR",
   "ESTABLISHED", "REJECTED", "DISCONNECTED", "TIMEWAIT_EXIT",
   "ADDR_CHANGE", "DEVICE_REMOVAL"}

\* The cm_id before and after the connection came up.
PreEst  == {"none", "bound", "request", "resolving", "resolved", "routing",
            "routed", "connecting", "failed"}
PostEst == {"established", "disconnecting", "disconnected", "timewait_over",
            "gone"}

ConnCode  == {"none", "ok", "aborted", "rejected", "error", "modify_failed"}
WatchCode == {"none", "aborted", "rejected", "error", "disconnected",
              "device_removed"}

Phase == {"none", "connect_cas", "accept_cas", "accept_call", "start",
          "armed", "posted", "done"}

\* The owner thread is inside async_connect / async_accept / async_wait_...
Initiating == \E o \in Ops :
  phase[o] \in {"connect_cas", "accept_cas", "accept_call", "start"}

is_open == life \in {"opening", "open"}

Init ==
  /\ life = "unopened"
  /\ connect_state = "idle"
  /\ peer_closed = FALSE
  /\ phase = [o \in Ops |-> "none"]
  /\ stage = [o \in ConnOps |-> "none"]
  /\ ec = [o \in Ops |-> "none"]
  /\ rq = <<>>
  /\ rpc = "idle"
  /\ edge = FALSE
  /\ pc = [t \in Threads |-> "idle"]
  /\ old = [t \in Threads |-> "idle"]
  /\ cm = "none"
  /\ events = <<>>
  /\ discs = 0
  /\ consumed = "none"
  /\ dangling = FALSE
  /\ extra = 0
  /\ faults = 0
-----------------------------------------------------------------------------
(* open() and assign(): both publish the cm_id first and store idle after. *)

\* open(): a fresh channel and cm_id, registered with the reactor.
Open ==
  /\ life = "unopened"
  /\ life' = "opening"
  /\ cm' = "bound"
  /\ UNCHANGED <<connect_state, peer_closed, opvars, reactor, threads,
                 events, discs, consumed, aux>>

\* assign(): adopts the child cm_id of a CONNECT_REQUEST.
Assign ==
  /\ life = "unopened"
  /\ life' = "opening"
  /\ cm' = "request"
  /\ UNCHANGED <<connect_state, peer_closed, opvars, reactor, threads,
                 events, discs, consumed, aux>>

\* The stores at the end of open() and assign().
StoreIdle ==
  /\ life = "opening"
  /\ life' = "open"
  /\ connect_state' = "idle"
  /\ peer_closed' = FALSE
  /\ UNCHANGED <<opvars, reactor, threads, cmvars, aux>>
-----------------------------------------------------------------------------
(* Initiating functions, on the owner thread. *)

Post(o, code) ==
  /\ phase' = [phase EXCEPT ![o] = "posted"]
  /\ ec' = [ec EXCEPT ![o] = code]

CanInitiate(o) == phase[o] = "none" /\ ~Initiating

\* async_connect, async_accept, async_move_accept: a guard posts the
\* operation at once: the connector cannot be opened or is not open, the
\* private data is too large, or the connector is not idle.
Reject(o) ==
  /\ CanInitiate(o)
  /\ life \in {"unopened", "open"}
  /\ Post(o, "rejected")
  /\ UNCHANGED <<stage, connector, reactor, threads, cmvars, aux>>

\* async_connect past its guards: start_connect_op calls resolve_addr.
AsyncConnect(o) ==
  /\ CanInitiate(o)
  /\ life = "open"
  /\ connect_state = "idle"
  /\ \/ /\ cm = "bound"
        /\ cm' = "resolving"
        /\ phase' = [phase EXCEPT ![o] = "connect_cas"]
        /\ stage' = [stage EXCEPT ![o] = "addr_resolve"]
        /\ UNCHANGED <<ec, connect_state>>
     \/ /\ connect_state' = "closed"
        /\ Post(o, "error")
        /\ UNCHANGED <<cm, stage>>
  /\ UNCHANGED <<life, peer_closed, reactor, threads, events, discs,
                 consumed, aux>>

\* start_connect_op: publish addr_resolve before arming.
ConnectCas(o) ==
  /\ phase[o] = "connect_cas"
  /\ \/ /\ connect_state = "idle"
        /\ connect_state' = "addr_resolve"
        /\ phase' = [phase EXCEPT ![o] = "start"]
        /\ UNCHANGED ec
     \/ /\ connect_state # "idle"
        /\ Post(o, "aborted")
        /\ UNCHANGED connect_state
  /\ UNCHANGED <<life, peer_closed, stage, reactor, threads, cmvars, aux>>

\* async_accept / async_move_accept past their guards.
AsyncAccept(o) ==
  /\ CanInitiate(o)
  /\ life = "open"
  /\ connect_state = "idle"
  /\ phase' = [phase EXCEPT ![o] = "accept_cas"]
  /\ UNCHANGED <<stage, ec, connector, reactor, threads, cmvars, aux>>

\* start_accept_op: publish connecting before creating the QP.
AcceptCas(o) ==
  /\ phase[o] = "accept_cas"
  /\ \/ /\ connect_state = "idle"
        /\ connect_state' = "connecting"
        /\ phase' = [phase EXCEPT ![o] = "accept_call"]
        /\ stage' = [stage EXCEPT ![o] = "accept"]
        /\ UNCHANGED ec
     \/ /\ connect_state # "idle"
        /\ Post(o, "aborted")
        /\ UNCHANGED <<connect_state, stage>>
  /\ UNCHANGED <<life, peer_closed, reactor, threads, cmvars, aux>>

\* Seeded fault: the failure path forgets to return and arms the op as well.
AcceptCallNoReturn(o) ==
  /\ phase[o] = "accept_call"
  /\ rpc = "idle"
  /\ connect_state' = "closed"
  /\ Post(o, "error")
  /\ rq' = Append(rq, o)
  /\ UNCHANGED <<life, peer_closed, stage, rpc, edge, threads, cmvars, aux>>

\* start_accept_op: create_qp, then rdma_accept; either may fail.
AcceptCall(o) ==
  /\ phase[o] = "accept_call"
  /\ \/ /\ cm = "request"
        /\ cm' = "connecting"
        /\ phase' = [phase EXCEPT ![o] = "start"]
        /\ UNCHANGED <<ec, connect_state>>
     \/ /\ connect_state' = "closed"
        /\ Post(o, "error")
        /\ UNCHANGED cm
  /\ UNCHANGED <<life, peer_closed, stage, reactor, threads, events, discs,
                 consumed, aux>>

\* async_wait_disconnect: immediate if already torn down, else arm.
AsyncWaitDisconnect(w) ==
  /\ CanInitiate(w)
  /\ life \in {"unopened", "open"}
  /\ CASE peer_closed \/ connect_state = "closed" -> Post(w, "disconnected")
       [] life = "unopened" /\ ~peer_closed /\ connect_state # "closed" ->
            Post(w, "rejected")
       [] OTHER -> /\ phase' = [phase EXCEPT ![w] = "start"]
                   /\ UNCHANGED ec
  /\ UNCHANGED <<stage, connector, reactor, threads, cmvars, aux>>

\* reactor::start_op (external): push under the descriptor lock; on an empty
\* queue EPOLL_CTL_MOD reports a channel that is readable already.
StartOp(o) ==
  /\ phase[o] = "start"
  /\ rpc = "idle"
  /\ rq' = Append(rq, o)
  /\ edge' = (edge \/ (rq = <<>> /\ events # <<>>))
  /\ phase' = [phase EXCEPT ![o] = "armed"]
  /\ UNCHANGED <<stage, ec, rpc, connector, threads, cmvars, aux>>
-----------------------------------------------------------------------------
(* disconnect(), on any thread. *)

\* The CAS loop to closed; a second caller finds closed and returns.
DisconnectClaim(t) ==
  /\ is_open
  /\ pc[t] = "idle"
  /\ connect_state # "closed"
  /\ old' = [old EXCEPT ![t] = connect_state]
  /\ connect_state' = "closed"
  /\ pc' = [pc EXCEPT ![t] =
              IF connect_state = "idle" THEN "idle" ELSE "cancel"]
  /\ UNCHANGED <<life, peer_closed, opvars, reactor, cmvars, aux>>

\* Every operation still queued completes with operation_aborted.
AbortQueued ==
  LET queued == {rq[i] : i \in 1..Len(rq)} IN
  /\ rq' = <<>>
  /\ phase' = [o \in Ops |-> IF o \in queued THEN "posted" ELSE phase[o]]
  /\ ec' = [o \in Ops |-> IF o \in queued THEN "aborted" ELSE ec[o]]

\* Seeded fault: rdma_disconnect whatever the prior state was.
AfterCancelAlways(t) == "rdma"

\* The switch on the prior state: only `connected' goes on to rdma_disconnect.
AfterCancel(t) == IF old[t] = "connected" THEN "rdma" ELSE "idle"

\* reactor::cancel_ops takes the descriptor lock.
DisconnectCancel(t) ==
  /\ pc[t] = "cancel"
  /\ rpc = "idle"
  /\ AbortQueued
  /\ pc' = [pc EXCEPT ![t] = AfterCancel(t)]
  /\ UNCHANGED <<stage, rpc, edge, connector, old, cmvars, aux>>

\* rdma_disconnect (external): an established connection starts to go down.
RdmaDisconnect ==
  /\ discs' = discs + 1
  /\ cm' = IF cm = "established" THEN "disconnecting" ELSE cm

\* Only the thread that left connected calls rdma_disconnect.
DisconnectRdma(t) ==
  /\ pc[t] = "rdma"
  /\ RdmaDisconnect
  /\ pc' = [pc EXCEPT ![t] = "idle"]
  /\ UNCHANGED <<connector, opvars, reactor, old, events, consumed, aux>>

Without(s, i) ==
  [j \in 1..(Len(s) - 1) |-> IF j < i THEN s[j] ELSE s[j + 1]]

\* A cancellation slot fires: cancel_ops_by_key removes this operation only.
CancelByKey(o) ==
  /\ rpc = "idle"
  /\ \E i \in 1..Len(rq) : rq[i] = o /\ rq' = Without(rq, i)
  /\ Post(o, "aborted")
  /\ UNCHANGED <<stage, rpc, edge, connector, threads, cmvars, aux>>
-----------------------------------------------------------------------------
(* perform_io: the operation at the front of the queue takes one event. *)

Front(o) == rq # <<>> /\ Head(rq) = o

\* The front operation is done: it leaves the queue with its result.
Retire(o, code) ==
  /\ Post(o, code)
  /\ rq' = Tail(rq)
  /\ rpc' = "loop"

\* epoll_wait reports the edge (external).
PerformIo ==
  /\ life = "open"
  /\ rpc = "idle"
  /\ edge
  /\ edge' = FALSE
  /\ rpc' = "loop"
  /\ UNCHANGED <<rq, connector, opvars, threads, cmvars, aux>>

\* No operation, or no event (EAGAIN, not_done): perform_io returns.
PerformIoEnd ==
  /\ rpc = "loop"
  /\ rq = <<>> \/ events = <<>>
  /\ rpc' = "idle"
  /\ UNCHANGED <<rq, edge, connector, opvars, threads, cmvars, aux>>

\* A hard error pulling the event: the operation is done with it.
GetEventError(o) ==
  /\ rpc = "loop"
  /\ Front(o)
  /\ faults < MaxFault
  /\ faults' = faults + 1
  /\ Retire(o, "error")
  /\ UNCHANGED <<stage, edge, connector, threads, cmvars, dangling, extra>>

\* Seeded fault: the operation empties the channel instead of taking one event.
TakeEventAll(o) ==
  /\ rpc = "loop"
  /\ Front(o)
  /\ events # <<>>
  /\ events' = <<>>
  /\ consumed' = IF Head(events) # "ESTABLISHED" THEN consumed
                 ELSE IF o \in Watchers THEN "watcher" ELSE "op"
  /\ UNCHANGED <<life, edge, threads, cm, discs, aux>>

\* The front operation takes the head of the channel; its deleter acks it.
TakeEvent(o) ==
  /\ rpc = "loop"
  /\ Front(o)
  /\ events # <<>>
  /\ events' = Tail(events)
  /\ consumed' = IF Head(events) # "ESTABLISHED" THEN consumed
                 ELSE IF o \in Watchers THEN "watcher" ELSE "op"
  /\ UNCHANGED <<life, edge, threads, cm, discs, aux>>

\* advance(from, to) of the connect op: disconnect() may have won.
Advance(o, from, to, next) ==
  \/ /\ connect_state = from
     /\ connect_state' = to
     /\ rpc' = next
     /\ UNCHANGED <<rq, phase, ec>>
  \/ /\ connect_state # from
     /\ Retire(o, "aborted")
     /\ UNCHANGED connect_state

\* do_process_addr_resolve and do_process_addr_route.
ProcessResolve(o) ==
  /\ stage[o] \in {"addr_resolve", "addr_route"}
  /\ TakeEvent(o)
  /\ CASE stage[o] = "addr_resolve" /\ Head(events) = "ADDR_RESOLVED" ->
            Advance(o, "addr_resolve", "addr_route", "resolve_route")
       [] stage[o] = "addr_route" /\ Head(events) = "ROUTE_RESOLVED" ->
            Advance(o, "addr_route", "connecting", "rdma_connect")
       [] OTHER -> rpc' = "claim" /\ UNCHANGED <<connect_state, rq, phase, ec>>
  /\ UNCHANGED <<peer_closed, stage>>

\* create_qp and resolve_route, then the op stays armed.
ResolveRoute(o) ==
  /\ rpc = "resolve_route"
  /\ Front(o)
  /\ \/ /\ rpc' = "idle"
        /\ cm' = "routing"
        /\ stage' = [stage EXCEPT ![o] = "addr_route"]
     \/ /\ rpc' = "claim"
        /\ UNCHANGED <<cm, stage>>
  /\ UNCHANGED <<phase, ec, rq, edge, connector, threads, events, discs,
                 consumed, aux>>

\* rdma_connect, then the op stays armed.
RdmaConnect(o) ==
  /\ rpc = "rdma_connect"
  /\ Front(o)
  /\ \/ /\ rpc' = "idle"
        /\ cm' = "connecting"
        /\ stage' = [stage EXCEPT ![o] = "connect"]
     \/ /\ rpc' = "claim"
        /\ UNCHANGED <<cm, stage>>
  /\ UNCHANGED <<phase, ec, rq, edge, connector, threads, events, discs,
                 consumed, aux>>

\* claim_closed(): keep the real error unless disconnect() already won.
ClaimClosed(o) ==
  /\ rpc = "claim"
  /\ Front(o)
  /\ Retire(o, IF connect_state = "closed" THEN "aborted" ELSE "error")
  /\ connect_state' = "closed"
  /\ UNCHANGED <<life, peer_closed, stage, edge, threads, cmvars, aux>>

\* Seeded faults: store instead of compare-exchange; no second-actor teardown.
ArbitrateByStore == connect_state' = "connected" /\ rpc' = "modify_qp"
ArbitrateNoTeardown ==
  IF connect_state = "connecting"
    THEN connect_state' = "connected" /\ rpc' = "modify_qp"
    ELSE UNCHANGED connect_state /\ rpc' = "claim"

\* THE arbitration: connecting -> connected, or disconnect() has won.
Arbitrate ==
  IF connect_state = "connecting"
    THEN connect_state' = "connected" /\ rpc' = "modify_qp"
    ELSE UNCHANGED connect_state /\ rpc' = "teardown"

\* Seeded fault: any other event leaves the operation armed.
ProcessConnectStaysArmed(o) ==
  /\ stage[o] \in {"connect", "accept"}
  /\ TakeEvent(o)
  /\ IF Head(events) = "ESTABLISHED"
       THEN Arbitrate
       ELSE rpc' = "idle" /\ UNCHANGED connect_state
  /\ UNCHANGED <<peer_closed, opvars, rq>>

\* do_process_connect and ibv_accept_op::do_perform.
ProcessConnect(o) ==
  /\ stage[o] \in {"connect", "accept"}
  /\ TakeEvent(o)
  /\ IF Head(events) = "ESTABLISHED"
       THEN Arbitrate
       ELSE rpc' = "claim" /\ UNCHANGED connect_state
  /\ UNCHANGED <<peer_closed, opvars, rq>>

\* The QP is RTS: apply min_rnr_timer; a failure is the operation's error.
ModifyQp(o) ==
  /\ rpc = "modify_qp"
  /\ Front(o)
  /\ \E code \in {"ok", "modify_failed"} : Retire(o, code)
  /\ UNCHANGED <<stage, edge, connector, threads, cmvars, aux>>

\* disconnect() won: the operation is the second actor and tears down.
SecondActorTeardown(o) ==
  /\ rpc = "teardown"
  /\ Front(o)
  /\ RdmaDisconnect
  /\ Retire(o, "aborted")
  /\ UNCHANGED <<stage, edge, connector, threads, events, consumed, aux>>

\* ibv_wait_disconnect_op_base::do_perform.
ProcessWatch(w) ==
  /\ TakeEvent(w)
  /\ CASE Head(events) = "DISCONNECTED" ->
            peer_closed' = TRUE /\ Retire(w, "disconnected")
       [] Head(events) = "DEVICE_REMOVAL" ->
            peer_closed' = TRUE /\ Retire(w, "device_removed")
       [] OTHER -> rpc' = "idle" /\ UNCHANGED <<peer_closed, rq, phase, ec>>
  /\ UNCHANGED <<connect_state, stage>>

\* Seeded faults: any error stores closed; nothing does.
StoresClosedOnError(o) == o \in ConnOps /\ ec[o] # "ok"
StoresClosedNever(o) == FALSE

\* Keyed strictly on operation_aborted.
StoresClosed(o) == o \in ConnOps /\ ec[o] = "aborted"

\* do_complete: an aborted connect/accept makes the connector terminal, then
\* the handler runs.  The store goes through state_, which points into the
\* connector object.
Complete(o) ==
  /\ phase[o] = "posted"
  /\ phase' = [phase EXCEPT ![o] = "done"]
  /\ CASE StoresClosed(o) /\ life # "destroyed" ->
            connect_state' = "closed" /\ UNCHANGED dangling
       [] StoresClosed(o) /\ life = "destroyed" ->
            dangling' = TRUE /\ UNCHANGED connect_state
       [] OTHER -> UNCHANGED <<connect_state, dangling>>
  /\ UNCHANGED <<life, peer_closed, stage, ec, reactor, threads, cmvars,
                 extra, faults>>
-----------------------------------------------------------------------------
(* close_for_destruction, on the owner thread; no disconnect() is running. *)

\* deregister_descriptor aborts what is queued.
CloseDeregister ==
  /\ life \in {"unopened", "open"}
  /\ ~Initiating
  /\ rpc = "idle"
  /\ \A t \in Threads : pc[t] = "idle"
  /\ life' = "closing"
  /\ AbortQueued
  /\ edge' = FALSE
  /\ UNCHANGED <<connect_state, peer_closed, stage, rpc, threads, cmvars, aux>>

\* Seeded fault: the drain only acks.
DrainCmEventAckOnly ==
  /\ life = "closing"
  /\ events # <<>>
  /\ events' = Tail(events)
  /\ consumed' = IF Head(events) = "ESTABLISHED" THEN "drain" ELSE consumed
  /\ UNCHANGED <<cm, discs, connector, opvars, reactor, threads, aux>>

\* drain_cm_events: ack each event; tear down on an unprocessed ESTABLISHED.
DrainCmEvent ==
  /\ life = "closing"
  /\ events # <<>>
  /\ events' = Tail(events)
  /\ IF Head(events) = "ESTABLISHED"
       THEN RdmaDisconnect /\ consumed' = "drain"
       ELSE UNCHANGED <<discs, cm, consumed>>
  /\ UNCHANGED <<connector, opvars, reactor, threads, aux>>

\* Drained (or a hard error): destroy the QP, the cm_id and the channel.
CloseDestroy ==
  /\ life = "closing"
  /\ \/ events = <<>> /\ UNCHANGED faults
     \/ events # <<>> /\ faults < MaxFault /\ faults' = faults + 1
  /\ life' = "destroyed"
  /\ cm' = IF cm \in PostEst THEN "gone" ELSE "failed"
  /\ events' = <<>>
  /\ UNCHANGED <<connect_state, peer_closed, opvars, reactor, threads, discs,
                 consumed, dangling, extra>>
-----------------------------------------------------------------------------
(* rdma_cm (external): the events it reports for what was asked of it. *)

Report(from, event, to) ==
  /\ cm = from
  /\ cm' = to
  /\ events' = Append(events, event)
  /\ edge' = (edge \/ life # "closing")
  /\ UNCHANGED <<rq, rpc, connector, opvars, threads, discs, consumed, aux>>

\* Every asynchronous CM request is answered: CM retries and timeouts.
CmAnswer ==
  \/ Report("resolving", "ADDR_RESOLVED", "resolved")
  \/ Report("resolving", "ADDR_ERROR", "failed")
  \/ Report("routing", "ROUTE_RESOLVED", "routed")
  \/ Report("routing", "ROUTE_ERROR", "failed")
  \/ Report("connecting", "ESTABLISHED", "established")
  \/ Report("connecting", "REJECTED", "failed")
  \/ Report("disconnecting", "DISCONNECTED", "disconnected")
  \/ Report("disconnected", "TIMEWAIT_EXIT", "timewait_over")

\* The peer disconnects on its own.
PeerDisconnect == Report("established", "DISCONNECTED", "disconnected")

\* Events no request caused.
CmExtra ==
  /\ cm \notin {"none", "failed", "gone"}
  /\ life \in {"opening", "open", "closing"}
  /\ extra < MaxExtra
  /\ extra' = extra + 1
  /\ \E e \in {"ADDR_CHANGE", "DEVICE_REMOVAL"} : events' = Append(events, e)
  /\ edge' = (edge \/ life # "closing")
  /\ UNCHANGED <<rq, rpc, connector, opvars, threads, cm, discs, consumed,
                 dangling, faults>>
-----------------------------------------------------------------------------
Initiate ==
  \/ Open \/ Assign \/ StoreIdle
  \/ \E o \in ConnOps : \/ Reject(o)
                        \/ AsyncConnect(o) \/ ConnectCas(o)
                        \/ AsyncAccept(o) \/ AcceptCas(o) \/ AcceptCall(o)
  \/ \E w \in Watchers : AsyncWaitDisconnect(w)
  \/ \E o \in Ops : StartOp(o)

Disconnect(t) == DisconnectClaim(t) \/ DisconnectCancel(t) \/ DisconnectRdma(t)

Perform ==
  \/ PerformIo \/ PerformIoEnd
  \/ \E o \in Ops : GetEventError(o)
  \/ \E o \in ConnOps : \/ ProcessResolve(o) \/ ResolveRoute(o)
                        \/ RdmaConnect(o) \/ ClaimClosed(o)
                        \/ ProcessConnect(o) \/ ModifyQp(o)
                        \/ SecondActorTeardown(o)
  \/ \E w \in Watchers : ProcessWatch(w)

Close == CloseDeregister \/ DrainCmEvent \/ CloseDestroy

Next ==
  \/ Initiate
  \/ \E t \in Threads : Disconnect(t)
  \/ \E o \in Ops : CancelByKey(o) \/ Complete(o)
  \/ Perform
  \/ Close
  \/ CmAnswer \/ PeerDisconnect \/ CmExtra

Spec == Init /\ [][Next]_vars

(* Fairness.  A thread that entered disconnect() or an initiating function *)
(* runs it to the end; the io_context is being run, so readiness and       *)
(* posted completions are served; rdma_cm answers what it was asked (its   *)
(* resolve timeout and CM retries are finite).  Nothing makes a caller     *)
(* call, the peer leave, or the owner destroy the connector.               *)
Fairness ==
  /\ WF_vars(StoreIdle)
  /\ \A o \in ConnOps : WF_vars(ConnectCas(o) \/ AcceptCas(o) \/ AcceptCall(o))
  /\ \A o \in Ops : WF_vars(StartOp(o)) /\ WF_vars(Complete(o))
  /\ \A t \in Threads : WF_vars(DisconnectCancel(t) \/ DisconnectRdma(t))
  /\ WF_vars(Perform)
  /\ WF_vars(DrainCmEvent \/ CloseDestroy)
  /\ WF_vars(CmAnswer)

FairSpec == Spec /\ Fairness
-----------------------------------------------------------------------------
(* Properties. *)

FlagsOK == peer_closed \in BOOLEAN /\ edge \in BOOLEAN /\ dangling \in BOOLEAN

ValuesOK ==
  /\ life \in {"unopened", "opening", "open", "closing", "destroyed"}
  /\ connect_state \in ConnectState
  /\ phase \in [Ops -> Phase]
  /\ stage \in [ConnOps -> {"none", "addr_resolve", "addr_route", "connect",
                            "accept"}]
  /\ ec \in [Ops -> ConnCode \cup WatchCode]
  /\ \A w \in Watchers : ec[w] \in WatchCode
  /\ rq \in Seq(Ops)
  /\ rpc \in {"idle", "loop", "resolve_route", "rdma_connect", "claim",
              "modify_qp", "teardown"}
  /\ pc \in [Threads -> {"idle", "cancel", "rdma"}]
  /\ old \in [Threads -> ConnectState]
  /\ cm \in PreEst \cup PostEst
  /\ events \in Seq(Event)
  /\ discs \in Nat
  /\ consumed \in {"none", "op", "watcher", "drain"}
  /\ extra \in 0..MaxExtra
  /\ faults \in 0..MaxFault

\* Every variable keeps its type; a watcher never reports a connect's code.
TypeOK == FlagsOK /\ ValuesOK

\* The threads that took `connected' and have not called rdma_disconnect yet.
DutyThreads == {t \in Threads : /\ pc[t] \in {"cancel", "rdma"}
                                /\ old[t] = "connected"}
NobodyOwes == rpc # "teardown" /\ DutyThreads = {}
OneOwes == \/ rpc = "teardown" /\ DutyThreads = {}
           \/ rpc # "teardown" /\ \E t \in Threads : DutyThreads = {t}

\* "Whoever acts second performs the one rdma_disconnect": once the connect or
\* accept operation has taken ESTABLISHED, the connection is either live and
\* nobody owes a teardown, or it is closed and exactly one actor owes the
\* teardown, or it has been torn down exactly once and nobody owes another.
EstablishedAccounted ==
  consumed = "op" =>
    \/ connect_state = "connected" /\ discs = 0 /\ NobodyOwes
    \/ connect_state = "closed" /\ discs = 0 /\ OneOwes
    \/ connect_state = "closed" /\ discs = 1 /\ NobodyOwes

\* However disconnect() callers, the operation and the destructor's drain
\* race, the cm_id sees at most one rdma_disconnect.
OneTeardown == discs <= 1

\* rdma_disconnect is never issued on a cm_id whose connection never came up.
TeardownOnlyEstablished == [][discs' # discs => cm \in PostEst]_vars

\* Once an opened connector is closed it stays closed: no racing completion,
\* stage advance or late event revives it (README: "terminal").
ClosedIsTerminal ==
  [][connect_state = "closed" /\ life # "opening" => connect_state' = "closed"]_vars

\* A live connection ends only by disconnect(): a rejected second connect, a
\* cancelled operation or a stale abort never clobbers `connected'.
ConnectedLeftByDisconnect ==
  [][connect_state = "connected" /\ connect_state' # "connected"
       => \E t \in Threads : pc[t] = "idle" /\ pc'[t] = "cancel"]_vars

\* When an aborted connect/accept handler has run, the connector is terminal
\* (README: "Cancelling a connect/accept makes the connector terminal").
AbortedIsTerminal ==
  \A o \in ConnOps : phase[o] = "done" /\ ec[o] = "aborted" /\ life # "destroyed"
                       => connect_state = "closed"

\* An operation sits in the reactor queue exactly once while armed, and not
\* at all before or after: no operation is lost between cancel_ops, a
\* cancellation slot and perform_io, and none completes twice.
QueueConsistent ==
  /\ \A o \in Ops : phase[o] = "armed" <=> \E i \in 1..Len(rq) : rq[i] = o
  /\ \A i, j \in 1..Len(rq) : rq[i] = rq[j] => i = j

(* The inductive strengthening the proofs of IbvConnectorProofs rest on. *)

\* A connect/accept operation that got past the guards of its initiation.
Started(o) == phase[o] = "accept_cas" \/ stage[o] # "none"

\* One operation at most gets past the guards (the connector is one-shot),
\* and the connector leaves idle only on its behalf.
OneShot ==
  /\ \A o1, o2 \in ConnOps : Started(o1) /\ Started(o2) => o1 = o2
  /\ connect_state = "idle" =>
       \A o \in ConnOps : Started(o) => phase[o] \in {"connect_cas", "accept_cas"}
  /\ connect_state \in InFlight \cup {"connected"} =>
       \E o \in ConnOps : stage[o] # "none"
  /\ life \in {"unopened", "opening"} =>
       /\ rpc = "idle"
       /\ \A o \in ConnOps : phase[o] \in {"none", "posted", "done"}
                              /\ stage[o] = "none" /\ ec[o] # "aborted"

\* What the stage of an operation says of the cm_id and of connect_state_.
StageAgrees ==
  \A o \in ConnOps :
    /\ phase[o] = "accept_cas" => stage[o] = "none"
    /\ phase[o] = "connect_cas" => stage[o] = "addr_resolve"
    /\ phase[o] = "accept_call" => stage[o] = "accept"
    /\ phase[o] \in {"start", "armed"} => stage[o] # "none"
    /\ stage[o] \in {"addr_resolve", "addr_route"} =>
         cm \in {"resolving", "resolved", "routing", "routed", "failed"}
    /\ stage[o] = "connect" => cm \in {"connecting", "failed"} \cup PostEst
    /\ stage[o] \in {"connect", "accept"} =>
         connect_state \in {"connecting", "connected", "closed"}

\* What perform_io is executing agrees with the operation at the front.
PerformAgrees ==
  /\ rpc \notin {"idle", "loop"} => rq # <<>> /\ Head(rq) \in ConnOps
  /\ rpc = "resolve_route" =>
       /\ stage[Head(rq)] = "addr_resolve"
       /\ connect_state \in {"addr_route", "closed"}
  /\ rpc = "rdma_connect" =>
       /\ stage[Head(rq)] = "addr_route"
       /\ connect_state \in {"connecting", "closed"}
  /\ rpc = "modify_qp" => stage[Head(rq)] \in {"connect", "accept"}

\* A live connection was won by an operation that was not aborted.
ConnectedWasWon ==
  /\ connect_state = "connected" /\ rpc # "modify_qp" =>
       \E o \in ConnOps : /\ stage[o] \in {"connect", "accept"}
                           /\ phase[o] \in {"posted", "done"}
                           /\ ec[o] \in {"ok", "modify_failed"}
  /\ rpc = "modify_qp" => connect_state \in {"connected", "closed"}
  /\ \A o \in ConnOps :
       ec[o] = "aborted" =>
         /\ phase[o] \in {"posted", "done"}
         /\ stage[o] = "none" => connect_state = "closed"

\* ESTABLISHED is reported once, for an operation that asked for the
\* connection, and taken by one consumer.
EstablishedOnce ==
  /\ life = "unopened" => cm = "none"
  /\ life \in {"unopened", "opening"} => consumed = "none"
  /\ \A i \in 1..Len(events) :
       events[i] = "ESTABLISHED" => cm \in PostEst /\ consumed = "none"
  /\ \A i, j \in 1..Len(events) :
       events[i] = "ESTABLISHED" /\ events[j] = "ESTABLISHED" => i = j
  /\ consumed # "none" => cm \in PostEst
  /\ cm \in {"connecting"} \cup PostEst =>
       \E o \in ConnOps : stage[o] \in {"connect", "accept"}

\* Only the op that took ESTABLISHED creates a teardown to account for.
TeardownHasCause ==
  /\ connect_state = "connected" => consumed = "op"
  /\ rpc = "teardown" => consumed = "op"
  /\ \A t \in Threads : pc[t] = "rdma" => old[t] = "connected"
  /\ DutyThreads # {} => consumed = "op"
  /\ consumed \in {"none", "watcher"} => discs = 0
  /\ consumed = "drain" => discs = 1

\* The whole inductive invariant.
IndInv ==
  /\ TypeOK /\ QueueConsistent
  /\ OneShot /\ StageAgrees /\ PerformAgrees /\ ConnectedWasWon
  /\ EstablishedOnce /\ TeardownHasCause /\ EstablishedAccounted

\* A connect or accept that is armed when the connector gets closed is not
\* stranded: its handler runs.  The exception is a watcher that shares the
\* event channel and may take the event the operation waits for.
ClosedOpCompletes ==
  \A o \in ConnOps :
    (phase[o] = "armed" /\ connect_state = "closed")
      ~> (phase[o] = "done" \/ \E w \in Watchers : phase[w] # "none")

\* A watcher armed on a live connection the peer has left is notified.
WatcherNotified ==
  \A w \in Watchers :
    (phase[w] = "armed" /\ connect_state = "connected" /\ cm = "disconnected")
      ~> (phase[w] = "done")

\* A connector closed after its connection came up is destroyed only after a
\* graceful rdma_disconnect, even if the operation was aborted first (the
\* drain of design A.7), unless a watcher swallowed the ESTABLISHED event.
NoAbruptDestroy ==
  life = "destroyed" /\ connect_state = "closed" /\ consumed \in {"op", "drain"}
    => discs = 1

\* No completion writes the connector's state after its destructor ran.
NoDanglingStore == ~dangling

\* disconnect() is final whatever the connector was doing when it was called.
DisconnectIsFinal ==
  [][connect_state = "closed" => connect_state' = "closed"]_vars
=============================================================================
