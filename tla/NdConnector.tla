---------------------------- MODULE NdConnector -----------------------------
(***************************************************************************)
(* One rdma_connector of the NetworkDirect backend: nd_connector_service   *)
(* and its connect, accept, wait_disconnect and disconnect operations.     *)
(*                                                                         *)
(* Actors.  The owner thread opens the connector, initiates operations and *)
(* destroys it.  Any thread of Threads may call disconnect().  IOCP        *)
(* threads run completions, several at once.  The ND2 provider completes   *)
(* or cancels overlapped requests.  A step is one atomic access of         *)
(* connect_state_ or peer_closed_, or one native call.                     *)
(*                                                                         *)
(* Abstracted: addresses, private data, read limits, error codes ("error"  *)
(* is any failure of a native call, "rejected" any guard).                 *)
(***************************************************************************)
EXTENDS Naturals

CONSTANTS
  Threads,    \* threads that may call disconnect()
  ConnOps,    \* async_connect / async_accept / move-accept operations
  Watchers    \* async_wait_disconnect operations

ASSUME OpsDisjoint == ConnOps \cap Watchers = {}

Ops == ConnOps \cup Watchers

VARIABLES
  life,          \* unopened, inside open() or assign(), open, destroyed
  connect_state, \* implementation_type::connect_state_
  peer_closed,   \* implementation_type::peer_closed_
  phase,         \* where each operation is, from initiation to its handler
  stage,         \* nd_connect_op_base::stage_; "accept" once mark_started()
  ec,            \* the result of each operation
  slot,          \* the cancellation slot of each operation
  pc,            \* where each thread is inside disconnect()
  old,           \* the prior state disconnect() obtained from its CAS
  nd,            \* the provider's state of the connection
  discs,         \* IND2Connector::Disconnect calls
  stale          \* a completion used the connector after its destructor

connector == <<life, connect_state, peer_closed>>
opvars    == <<phase, stage, ec, slot>>
threads   == <<pc, old>>
vars      == <<connector, opvars, threads, nd, discs, stale>>

ConnectState == {"idle", "connecting", "connected", "closed"}
Phase == {"none", "check", "cas", "call", "pending", "queued", "mark", "done"}
Code  == {"none", "ok", "aborted", "rejected", "error", "disconnected"}

\* The owner thread is inside do_open() or assign(), connector_ is set already.
Opening == {"opening", "assigning", "resetting"}

\* connector_ is set: disconnect() from another thread gets past its guard.
Published == life \in Opening \cup {"open"}

\* The owner thread is inside open(), assign() or an initiating function.
Initiating ==
  \/ life \in Opening
  \/ \E o \in Ops : phase[o] \in {"check", "cas", "call"} \/ slot[o] = "due"

CanInitiate(o) == phase[o] = "none" /\ ~Initiating /\ life # "destroyed"

Init ==
  /\ life = "unopened"
  /\ connect_state = "idle"
  /\ peer_closed = FALSE
  /\ phase = [o \in Ops |-> "none"]
  /\ stage = [o \in ConnOps |-> "none"]
  /\ ec = [o \in Ops |-> "none"]
  /\ slot = [o \in Ops |-> "none"]
  /\ pc = [t \in Threads |-> "idle"]
  /\ old = [t \in Threads |-> "idle"]
  /\ nd = "none"
  /\ discs = 0
  /\ stale = FALSE
-----------------------------------------------------------------------------
(* Initiating functions, on the owner thread. *)

\* The connector appears: do_open() attached the one it created, or assign()
\* moved in the listener's (both return without a trace when they fail before).
Publish(where) ==
  /\ life = "unopened"
  /\ ~Initiating
  /\ life' = where
  /\ UNCHANGED <<connect_state, peer_closed, opvars, threads, nd, discs, stale>>

\* open() or the auto-open of async_connect: do_open().
Open == Publish("opening")

\* register_handle() in do_open(): on failure the connector goes away again.
\* connect_state_ and peer_closed_ stay as they are.
Register ==
  /\ life = "opening"
  /\ life' \in {"open", "unopened"}
  /\ UNCHANGED <<connect_state, peer_closed, opvars, threads, nd, discs, stale>>

\* assign(), past its register_handle().
Assign == Publish("assigning")

\* assign() stores idle, whatever the state is by now,
AssignIdle ==
  /\ life = "assigning"
  /\ life' = "resetting"
  /\ connect_state' = "idle"
  /\ UNCHANGED <<peer_closed, opvars, threads, nd, discs, stale>>

\* and clears peer_closed_.
AssignReset ==
  /\ life = "resetting"
  /\ life' = "open"
  /\ peer_closed' = FALSE
  /\ UNCHANGED <<connect_state, opvars, threads, nd, discs, stale>>

\* scheduler.on_completion: the operation is queued with this result.
Queue(o, code) ==
  /\ phase' = [phase EXCEPT ![o] = "queued"]
  /\ ec' = [ec EXCEPT ![o] = code]

\* A guard of async_connect: open failure, oversized private data, connector
\* not idle, null queue pair.  A connect op is queued in its first stage.
RejectConnect(o) ==
  /\ CanInitiate(o)
  /\ Queue(o, "rejected")
  /\ stage' = [stage EXCEPT ![o] = "connecting"]
  /\ UNCHANGED <<slot, connector, threads, nd, discs, stale>>

\* A guard of async_accept / async_move_accept: started_ stays false.
RejectAccept(o) ==
  /\ CanInitiate(o)
  /\ Queue(o, "rejected")
  /\ UNCHANGED <<stage, slot, connector, threads, nd, discs, stale>>

\* Past the guards: start_connect_op, or mark_started() and start_accept_op.
Start(o, how) ==
  /\ CanInitiate(o)
  /\ life = "open"
  /\ connect_state = "idle"
  /\ phase' = [phase EXCEPT ![o] = "cas"]
  /\ stage' = [stage EXCEPT ![o] = how]
  /\ UNCHANGED <<ec, slot, connector, threads, nd, discs, stale>>

\* The CAS idle -> connecting; disconnect() may have come first.
StartCas(o) ==
  /\ phase[o] = "cas"
  /\ \/ /\ connect_state = "idle"
        /\ connect_state' = "connecting"
        /\ phase' = [phase EXCEPT ![o] = "call"]
        /\ UNCHANGED <<ec, slot>>
     \/ /\ connect_state # "idle"
        /\ UNCHANGED connect_state
        /\ Queue(o, "aborted")
        /\ slot' = [slot EXCEPT ![o] = "due"]
  /\ UNCHANGED <<life, peer_closed, stage, threads, nd, discs, stale>>

\* Bind and Connect, or Accept: pending, completed at once, or failed.
StartCall(o) ==
  /\ phase[o] = "call"
  /\ \/ /\ phase' = [phase EXCEPT ![o] = "pending"]
        /\ nd' = "connecting"
        /\ UNCHANGED ec
     \/ /\ Queue(o, "ok")
        /\ nd' = IF stage[o] = "accept" THEN "up" ELSE "answered"
     \/ /\ Queue(o, "error")
        /\ UNCHANGED nd
  /\ slot' = [slot EXCEPT ![o] = "due"]
  /\ UNCHANGED <<stage, connector, threads, discs, stale>>

\* arm_nd_cancellation, after the request was started.
ArmSlot(o) ==
  /\ slot[o] = "due"
  /\ slot' = [slot EXCEPT ![o] = "armed"]
  /\ UNCHANGED <<phase, stage, ec, connector, threads, nd, discs, stale>>

\* async_wait_disconnect: complete at once if the connection is over.
AsyncWaitDisconnect(w) ==
  /\ CanInitiate(w)
  /\ CASE peer_closed \/ connect_state = "closed" -> Queue(w, "disconnected")
       [] life = "unopened" /\ ~peer_closed /\ connect_state # "closed" ->
            Queue(w, "rejected")
       [] OTHER -> phase' = [phase EXCEPT ![w] = "check"] /\ UNCHANGED ec
  /\ UNCHANGED <<stage, slot, connector, threads, nd, discs, stale>>

\* NotifyDisconnect: pending on a connection that is up (armed before
\* on_pending), at once if it is down already, or an error; an error always
\* if there is no connection.
NotifyDisconnect(w) ==
  /\ phase[w] = "check"
  /\ \/ /\ nd \in {"up", "disconnecting"}
        /\ phase' = [phase EXCEPT ![w] = "pending"]
        /\ slot' = [slot EXCEPT ![w] = "armed"]
        /\ UNCHANGED ec
     \/ nd = "down" /\ Queue(w, "ok") /\ UNCHANGED slot
     \/ Queue(w, "error") /\ UNCHANGED slot
  /\ UNCHANGED <<stage, connector, threads, nd, discs, stale>>
-----------------------------------------------------------------------------
(* Overlapped requests: provider and IOCP (external). *)

\* CancelIoEx: the pending requests among these complete with aborted.
CancelIoEx(which) ==
  LET hit == {o \in which : phase[o] = "pending"} IN
  /\ phase' = [o \in Ops |-> IF o \in hit THEN "queued" ELSE phase[o]]
  /\ ec' = [o \in Ops |-> IF o \in hit THEN "aborted" ELSE ec[o]]
  /\ nd' = IF hit \cap ConnOps # {} THEN "failed" ELSE nd

\* nd_cm_op_cancellation: the slot fires, for this request only.
FireSlot(o) ==
  /\ slot[o] = "armed"
  /\ life = "open"
  /\ phase[o] # "done"
  /\ slot' = [slot EXCEPT ![o] = "fired"]
  /\ CancelIoEx({o})
  /\ UNCHANGED <<stage, connector, threads, discs, stale>>

\* A pending Connect, CompleteConnect or Accept completes.
Finish(o) ==
  /\ phase[o] = "pending"
  /\ \/ /\ Queue(o, "ok")
        /\ nd' = IF stage[o] = "connecting" THEN "answered" ELSE "up"
     \/ /\ Queue(o, "error")
        /\ nd' = "failed"
  /\ UNCHANGED <<stage, slot, connector, threads, discs, stale>>

\* NotifyDisconnect completes once the connection is down.
FinishNotify(w) ==
  /\ phase[w] = "pending"
  /\ nd = "down"
  /\ Queue(w, "ok")
  /\ UNCHANGED <<stage, slot, connector, threads, nd, discs, stale>>

\* The peer leaves.
PeerDisconnect ==
  /\ nd = "up"
  /\ nd' = "down"
  /\ UNCHANGED <<connector, opvars, threads, discs, stale>>

\* The fire-and-forget Disconnect completes; its operation only frees itself.
DisconnectCompletes ==
  /\ nd = "disconnecting"
  /\ nd' = "down"
  /\ UNCHANGED <<connector, opvars, threads, discs, stale>>
-----------------------------------------------------------------------------
(* Completions, on an IOCP thread: do_complete of each operation. *)

\* A store to connect_state_ by a completion, through the op's state_ pointer.
StoreState(s) ==
  IF life = "destroyed" THEN stale' = TRUE /\ UNCHANGED connect_state
                        ELSE connect_state' = s /\ UNCHANGED stale

Finished(o, code) ==
  /\ phase' = [phase EXCEPT ![o] = "done"]
  /\ ec' = [ec EXCEPT ![o] = code]

\* process_complete_connect: CompleteConnect, on the op's own thread.
CompleteConnect(o) ==
  /\ phase[o] = "queued" /\ ec[o] = "ok" /\ stage[o] = "connecting"
  /\ life # "destroyed"
  /\ stage' = [stage EXCEPT ![o] = "connected"]
  /\ \/ /\ phase' = [phase EXCEPT ![o] = "pending"]
        /\ nd' = "completing"
        /\ UNCHANGED <<connect_state, ec, stale>>
     \/ /\ phase' = [phase EXCEPT ![o] = "mark"]
        /\ nd' = "up"
        /\ UNCHANGED <<connect_state, ec, stale>>
     \/ /\ Finished(o, "error")
        /\ nd' = "failed"
        /\ StoreState("closed")
  /\ UNCHANGED <<life, peer_closed, slot, threads, discs>>

\* The connector released its IND2Connector while the op was queued.
CompleteConnectReleased(o) ==
  /\ phase[o] = "queued" /\ ec[o] = "ok" /\ stage[o] = "connecting"
  /\ life = "destroyed"
  /\ stale' = TRUE
  /\ Finished(o, "error")
  /\ UNCHANGED <<connector, stage, slot, threads, nd, discs>>

\* Seeded fault: a lost compare-exchange is not treated as completed.
MarkConnectedStuck(o) ==
  /\ phase[o] = "mark" \/ (phase[o] = "queued" /\ ec[o] = "ok" /\ stage[o] = "connected")
  /\ connect_state = "connecting"
  /\ StoreState("connected") /\ Finished(o, "ok")
  /\ UNCHANGED <<life, peer_closed, stage, slot, threads, nd, discs>>

\* mark_connected, and the store of closed when it lost to disconnect().
MarkConnected(o) ==
  /\ phase[o] = "mark" \/ (phase[o] = "queued" /\ ec[o] = "ok" /\ stage[o] = "connected")
  /\ IF connect_state = "connecting"
       THEN StoreState("connected") /\ Finished(o, "ok")
       ELSE StoreState("closed") /\ Finished(o, "aborted")
  /\ UNCHANGED <<life, peer_closed, stage, slot, threads, nd, discs>>

\* nd_connect_op stores closed on ANY error, nd_accept_op once it was started.
FailCompletion(o) ==
  /\ phase[o] = "queued" /\ ec[o] # "ok"
  /\ IF stage[o] # "none" THEN StoreState("closed")
                          ELSE UNCHANGED <<connect_state, stale>>
  /\ Finished(o, ec[o])
  /\ UNCHANGED <<life, peer_closed, stage, slot, threads, nd, discs>>

\* nd_accept_op stores connected without looking.
AcceptCompletion(o) ==
  /\ phase[o] = "queued" /\ ec[o] = "ok" /\ stage[o] = "accept"
  /\ StoreState("connected")
  /\ Finished(o, "ok")
  /\ UNCHANGED <<life, peer_closed, stage, slot, threads, nd, discs>>

\* Seeded fault: an abort after the latch is dropped without an upcall.
WatchCompletionDrops(w) ==
  /\ phase[w] = "queued" /\ ~(ec[w] = "aborted" /\ peer_closed)
  /\ peer_closed' = (peer_closed \/ ec[w] = "ok")
  /\ Finished(w, IF ec[w] = "ok" THEN "disconnected" ELSE ec[w])
  /\ UNCHANGED <<stale, life, connect_state, stage, slot, threads, nd, discs>>

\* nd_wait_disconnect_op: a real notification latches peer_closed_; an abort
\* counts as disconnected only if the latch was set before.
WatchCompletion(w) ==
  /\ phase[w] = "queued"
  /\ IF life = "destroyed"
       THEN stale' = TRUE /\ UNCHANGED peer_closed
       ELSE peer_closed' = (peer_closed \/ ec[w] = "ok") /\ UNCHANGED stale
  /\ Finished(w, IF ec[w] = "ok" \/ (ec[w] = "aborted" /\ peer_closed)
                   THEN "disconnected" ELSE ec[w])
  /\ UNCHANGED <<life, connect_state, stage, slot, threads, nd, discs>>
-----------------------------------------------------------------------------
(* disconnect(), on any thread. *)

\* Seeded fault: cancel without latching peer_closed_ first.
AfterClaimNoLatch == "cancel"

\* What disconnect() does first once it owns the transition.
AfterClaim == "latch"

\* Seeded fault: a load and a store instead of a compare-exchange.
DisconnectClaimRacy(t) ==
  /\ Published
  /\ pc[t] = "idle"
  /\ \E s \in {connect_state} \cup {old[u] : u \in {v \in Threads : pc[v] = "latch"}} :
       s # "closed" /\ old' = [old EXCEPT ![t] = s]
  /\ connect_state' = "closed"
  /\ pc' = [pc EXCEPT ![t] = AfterClaim]
  /\ UNCHANGED <<life, peer_closed, opvars, nd, discs, stale>>

\* The CAS loop to closed; a second caller finds closed and returns.
DisconnectClaim(t) ==
  /\ Published
  /\ pc[t] = "idle"
  /\ connect_state # "closed"
  /\ old' = [old EXCEPT ![t] = connect_state]
  /\ connect_state' = "closed"
  /\ pc' = [pc EXCEPT ![t] = AfterClaim]
  /\ UNCHANGED <<life, peer_closed, opvars, nd, discs, stale>>

\* peer_closed_ is latched before anything is cancelled.
DisconnectLatch(t) ==
  /\ pc[t] = "latch"
  /\ peer_closed' = TRUE
  /\ pc' = [pc EXCEPT ![t] = IF old[t] = "idle" THEN "idle" ELSE "cancel"]
  /\ UNCHANGED <<life, connect_state, opvars, old, nd, discs, stale>>

\* Only the thread that left connected goes on to Disconnect.
AfterCancel(t) == IF old[t] = "connected" THEN "native" ELSE "idle"

\* CancelIoEx(connector_handle_, NULL): every pending request.
DisconnectCancel(t) ==
  /\ pc[t] = "cancel"
  /\ CancelIoEx(Ops)
  /\ pc' = [pc EXCEPT ![t] = AfterCancel(t)]
  /\ UNCHANGED <<stage, slot, connector, old, discs, stale>>

\* IND2Connector::Disconnect with a self-reaping operation: pending, completed
\* at once, or failed, which leaves the connection as it is and is reported to
\* the caller of disconnect() only.
DisconnectNative(t) ==
  /\ pc[t] = "native"
  /\ discs' = discs + 1
  /\ nd' \in {nd} \cup (IF nd = "up" THEN {"disconnecting", "down"} ELSE {})
  /\ pc' = [pc EXCEPT ![t] = "idle"]
  /\ UNCHANGED <<connector, opvars, old, stale>>
-----------------------------------------------------------------------------
\* destroy(): connector_ and its handle are released, which cancels what is
\* pending.  No disconnect() is running.
Destroy ==
  /\ life \in {"unopened", "open"}
  /\ ~Initiating
  /\ \A t \in Threads : pc[t] = "idle"
  /\ life' = "destroyed"
  /\ phase' = [o \in Ops |-> IF phase[o] = "pending" THEN "queued" ELSE phase[o]]
  /\ ec' = [o \in Ops |-> IF phase[o] = "pending" THEN "aborted" ELSE ec[o]]
  /\ nd' = IF nd = "none" THEN "none" ELSE "gone"
  /\ UNCHANGED <<connect_state, peer_closed, stage, slot, threads, discs, stale>>

Initiate(o) ==
  \/ RejectConnect(o) \/ RejectAccept(o)
  \/ \E how \in {"connecting", "accept"} : Start(o, how)
  \/ StartCas(o) \/ StartCall(o)

ConnCompletion(o) ==
  \/ CompleteConnect(o) \/ CompleteConnectReleased(o) \/ MarkConnected(o)
  \/ FailCompletion(o) \/ AcceptCompletion(o)

Disconnect(t) ==
  \/ DisconnectClaim(t) \/ DisconnectLatch(t)
  \/ DisconnectCancel(t) \/ DisconnectNative(t)

Next ==
  \/ Open \/ Register \/ Assign \/ AssignIdle \/ AssignReset \/ Destroy
  \/ \E o \in ConnOps : Initiate(o) \/ Finish(o) \/ ConnCompletion(o)
  \/ \E w \in Watchers : \/ AsyncWaitDisconnect(w) \/ NotifyDisconnect(w)
                         \/ FinishNotify(w) \/ WatchCompletion(w)
  \/ \E o \in Ops : ArmSlot(o) \/ FireSlot(o)
  \/ \E t \in Threads : Disconnect(t)
  \/ PeerDisconnect \/ DisconnectCompletes

Spec == Init /\ [][Next]_vars

(* Fairness.  A thread inside disconnect() or an initiating function runs  *)
(* to its end, the io_context is being run, and the provider completes     *)
(* Connect, CompleteConnect, Accept, a Disconnect it took and due           *)
(* notifications.                                                          *)
Fairness ==
  /\ WF_vars(Register \/ AssignIdle \/ AssignReset)
  /\ \A o \in ConnOps : /\ WF_vars(StartCas(o)) /\ WF_vars(StartCall(o))
                        /\ WF_vars(Finish(o)) /\ WF_vars(ConnCompletion(o))
  /\ \A w \in Watchers : /\ WF_vars(NotifyDisconnect(w))
                         /\ WF_vars(FinishNotify(w))
                         /\ WF_vars(WatchCompletion(w))
  /\ \A o \in Ops : WF_vars(ArmSlot(o))
  /\ \A t \in Threads : WF_vars(\/ DisconnectLatch(t) \/ DisconnectCancel(t)
                                \/ DisconnectNative(t))
  /\ WF_vars(DisconnectCompletes)

FairSpec == Spec /\ Fairness
-----------------------------------------------------------------------------
(* Properties. *)

\* Every variable keeps its type; no watcher finishes with success.
TypeOK ==
  /\ life \in {"unopened", "open", "destroyed"} \cup Opening
  /\ connect_state \in ConnectState
  /\ peer_closed \in BOOLEAN /\ stale \in BOOLEAN
  /\ phase \in [Ops -> Phase]
  /\ stage \in [ConnOps -> {"none", "connecting", "connected", "accept"}]
  /\ ec \in [Ops -> Code]
  /\ \A w \in Watchers : phase[w] = "done" => ec[w] # "ok"
  /\ slot \in [Ops -> {"none", "due", "armed", "fired"}]
  /\ pc \in [Threads -> {"idle", "latch", "cancel", "native"}]
  /\ old \in [Threads -> ConnectState]
  /\ nd \in {"none", "connecting", "answered", "completing", "up",
             "disconnecting", "down", "failed", "gone"}
  /\ discs \in Nat

\* However many threads call disconnect() and however the operation's stores
\* interleave with them, the connection gets at most one Disconnect.
OneDisconnect == discs <= 1

\* A watcher hears operation_aborted only when its own slot was fired or the
\* connector was destroyed: disconnect() cancels it too, but then the
\* watcher reports disconnected (peer_closed_ is latched before CancelIoEx).
AbortedWatcherWasCancelled ==
  \A w \in Watchers : phase[w] = "done" /\ ec[w] = "aborted"
                        => slot[w] = "fired" \/ life = "destroyed"

\* A connect or accept in flight when the connector is closed still runs its
\* handler.
ClosedOpCompletes ==
  \A o \in ConnOps :
    (phase[o] = "pending" /\ connect_state = "closed") ~> (phase[o] = "done")

\* A watcher that is armed when disconnect() owns the teardown of a connect or
\* a connection, and one whose connection ends (the provider took the
\* Disconnect, or the peer left), is notified, also when it was armed behind
\* disconnect()'s CancelIoEx.
WatcherNotified ==
  \A w \in Watchers :
    /\ phase[w] = "pending"
    /\ \/ \E t \in Threads : pc[t] \in {"latch", "cancel"} /\ old[t] # "idle"
       \/ nd \in {"disconnecting", "down"}
    ~> phase[w] = "done"

\* A closed connector stays closed once open() or assign() has returned.
ClosedIsTerminal ==
  [][life = "open" /\ connect_state = "closed" => connect_state' = "closed"]_vars

\* A watcher hears of every disconnect() that reached the native call.
WatcherHearsDisconnect ==
  \A w \in Watchers : (phase[w] = "pending" /\ discs > 0) ~> (phase[w] = "done")

\* A live connection ends only by disconnect().
ConnectedLeftByDisconnect ==
  [][connect_state = "connected" /\ connect_state' # "connected"
       => \E t \in Threads : pc[t] = "idle" /\ pc'[t] # "idle"]_vars

\* A disconnect() that caught the connect in flight leaves no connection up
\* once the connect's handler has run.
RacedConnectTornDown ==
  \A o \in ConnOps :
    (phase[o] = "done" /\ stage[o] = "connected" /\ ec[o] = "aborted"
       /\ nd = "up" /\ life = "open")
      ~> (nd # "up" \/ life = "destroyed")

\* No completion touches the connector after its destructor.
NoStaleUse == ~stale
=============================================================================
