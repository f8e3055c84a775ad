----------------------------- MODULE IbvListener ----------------------------
(***************************************************************************)
(* The ibv side of the listener: ibv_listener_service and                  *)
(* ibv_get_connection_request_op.                                          *)
(*                                                                         *)
(* Clients arrive on the listener's event channel at any moment.  A        *)
(* reactor thread performs the queued operations under the descriptor      *)
(* lock, scheduler threads run completions.                                *)
(***************************************************************************)
EXTENDS ListenerService

VARIABLES rpc, edge  \* the reactor: its lock, and readiness not yet reported

reactor == <<rpc, edge>>

IbvInit == rpc = "idle" /\ edge = FALSE
-----------------------------------------------------------------------------
Open == backend = "ibv" /\ OpenListener /\ UNCHANGED reactor

\* The channel, the cm_id and the queue of the descriptor are moved, and not
\* bind_endpoint_, which the new object default-constructs.
Move == backend = "ibv" /\ rpc = "idle" /\ MoveListener("default") /\ UNCHANGED reactor

\* bind() of bind_endpoint_ with the port.
Bind == backend = "ibv" /\ BindListener /\ UNCHANGED reactor

Listen == backend = "ibv" /\ ListenListener /\ UNCHANGED reactor

\* async_get_connection_request: a closed listener posts the operation.
GetConnectionRequest(o) ==
  /\ backend = "ibv"
  /\ IF life = "open" THEN Initiate(o, "start", "none")
                      ELSE Initiate(o, "posted", "invalid_handle")
  /\ UNCHANGED <<listener, events, rq, child, holder, conn, moved, left, reactor>>

\* reactor::start_op (external): an empty queue makes EPOLL_CTL_MOD report a
\* channel that is readable already.
StartOp(o) ==
  /\ backend = "ibv"
  /\ phase[o] = "start"
  /\ rpc = "idle"
  /\ rq' = Append(rq, o)
  /\ edge' = (edge \/ (rq = <<>> /\ events # <<>>))
  /\ phase' = [phase EXCEPT ![o] = "armed"]
  /\ UNCHANGED <<listener, events, child, holder, ec, form, conn, moved, left, rpc>>

\* cancel(): reactor::cancel_ops.
Cancel ==
  /\ backend = "ibv"
  /\ life = "open"
  /\ rpc = "idle"
  /\ rq # <<>>
  /\ AbortAll
  /\ UNCHANGED <<listener, events, child, holder, form, conn, moved, left, reactor>>

\* A cancellation slot fires: cancel_ops_by_key removes this operation.  The
\* slot knows the descriptor by the listener's address, so a listener that was
\* moved no longer hears it.
CancelByKey(o) ==
  /\ backend = "ibv"
  /\ life = "open"
  /\ rpc = "idle"
  /\ phase[o] = "armed" /\ o \notin moved
  /\ AbortOne(o)
  /\ UNCHANGED <<listener, events, child, holder, form, conn, moved, left, reactor>>

\* close_for_destruction.
Destroy ==
  /\ backend = "ibv"
  /\ rpc = "idle"
  /\ DestroyListener
  /\ edge' = FALSE
  /\ UNCHANGED rpc

\* CONNECT_REQUEST carries the child cm_id (external).
ConnectRequest(c) ==
  /\ backend = "ibv"
  /\ Arrive(c)
  /\ edge' = TRUE
  /\ UNCHANGED rpc

\* Another event (external).
OtherEvent ==
  /\ backend = "ibv"
  /\ life = "open" /\ listening
  /\ Spend("other")
  /\ events' = Append(events, Other)
  /\ edge' = TRUE
  /\ UNCHANGED <<listener, rq, child, holder, phase, ec, form, conn, moved, rpc>>
-----------------------------------------------------------------------------
(* perform_io. *)

\* epoll_wait reports the edge (external).
PerformIo ==
  /\ life = "open"
  /\ rpc = "idle"
  /\ edge
  /\ edge' = FALSE
  /\ rpc' = "loop"
  /\ UNCHANGED service

\* No operation, or no event (EAGAIN, not_done).
PerformIoEnd ==
  /\ rpc = "loop"
  /\ rq = <<>> \/ events = <<>>
  /\ rpc' = "idle"
  /\ UNCHANGED <<service, edge>>

Front(o) == rpc = "loop" /\ rq # <<>> /\ Head(rq) = o

\* The front operation is done with this code.
Retire(o, code) ==
  /\ phase' = [phase EXCEPT ![o] = "posted"]
  /\ ec' = [ec EXCEPT ![o] = code]
  /\ rq' = Tail(rq)

\* A hard error of rdma_get_cm_event.
GetEventError(o) ==
  /\ Front(o)
  /\ Spend("fault")
  /\ Retire(o, "error")
  /\ UNCHANGED <<listener, events, child, holder, form, conn, moved, reactor>>

\* Seeded fault: an event of no interest is acked and the wait goes on.
TakeOtherWaits(o) ==
  /\ Front(o)
  /\ events # <<>> /\ Head(events) = Other
  /\ events' = Tail(events)
  /\ rpc' = "idle"
  /\ UNCHANGED <<listener, rq, child, holder, phase, ec, form, conn, moved, left, edge>>

\* do_perform: any other event ends the operation with connection_aborted.
TakeOther(o) ==
  /\ Front(o)
  /\ events # <<>> /\ Head(events) = Other
  /\ events' = Tail(events)
  /\ Retire(o, "connection_aborted")
  /\ UNCHANGED <<listener, child, holder, form, conn, moved, left, reactor>>

\* Seeded fault: without a channel the request is passed over and the
\* operation goes on waiting.
TakeRequestSkips(o) ==
  /\ Front(o)
  /\ events # <<>> /\ Head(events) # Other
  /\ events' = Tail(events)
  /\ LET c == Head(events) IN
     \/ /\ Retire(o, "ok") /\ UNCHANGED left
        /\ child' = [child EXCEPT ![c] = "held"]
        /\ holder' = [holder EXCEPT ![o] = {c}]
     \/ /\ Spend("chan")
        /\ child' = [child EXCEPT ![c] = "leaked"]
        /\ UNCHANGED <<rq, phase, ec, holder>>
  /\ UNCHANGED <<listener, form, conn, moved, reactor>>

\* do_perform on a CONNECT_REQUEST: a channel for the child, ownership, then
\* the migration, which may fail.  Without a channel nothing owns the child.
TakeRequest(o) ==
  /\ Front(o)
  /\ events # <<>> /\ Head(events) # Other
  /\ events' = Tail(events)
  /\ LET c == Head(events) IN
     \/ /\ \/ Retire(o, "ok") /\ UNCHANGED left
           \/ Retire(o, "error") /\ Spend("fault")
        /\ child' = [child EXCEPT ![c] = "held"]
        /\ holder' = [holder EXCEPT ![o] = {c}]
     \/ /\ Spend("chan")
        /\ Retire(o, "error")
        /\ child' = [child EXCEPT ![c] = "leaked"]
        /\ UNCHANGED holder
  /\ UNCHANGED <<listener, form, conn, moved, reactor>>

\* do_complete moves the handle out of the operation and calls the adapter.
Complete(o) == backend = "ibv" /\ Deliver(o) /\ UNCHANGED reactor

ReactorStep ==
  PerformIo \/ PerformIoEnd \/ \E o \in GetOps : TakeOther(o) \/ TakeRequest(o)

IbvNext ==
  \/ Open \/ Move \/ Bind \/ Listen
  \/ Cancel \/ Destroy \/ OtherEvent \/ ReactorStep
  \/ \E c \in Children : ConnectRequest(c)
  \/ \E o \in GetOps :
       \/ GetConnectionRequest(o) \/ StartOp(o) \/ CancelByKey(o)
       \/ GetEventError(o) \/ Complete(o)
=============================================================================
