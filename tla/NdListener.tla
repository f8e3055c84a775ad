----------------------------- MODULE NdListener -----------------------------
(***************************************************************************)
(* The nd side of the listener: nd_listener_service and                    *)
(* nd_get_connection_request_op.                                           *)
(*                                                                         *)
(* An operation makes a connector of its own, waits in the provider and    *)
(* owns the request the provider gives to that connector.  Its completion  *)
(* packet may be dequeued before the initiating call has said on_pending:  *)
(* the operation is then run by that call (phase "early").                 *)
(***************************************************************************)
EXTENDS ListenerService

\* open(): overlapped file, native listener and registration; each failure
\* undoes what came before it.
NdOpen == backend = "nd" /\ OpenListener

NdMove == backend = "nd" /\ MoveListener(bind_endpoint)

\* bind() of the device's address of the family of bind_endpoint_.
NdBind == backend = "nd" /\ BindListener

NdListen == backend = "nd" /\ ListenListener

\* Operation o, ended with this code, leaves with the request c, if any.
NdEnd(o, code, c) ==
  /\ phase' = [phase EXCEPT ![o] = Ended(o)]
  /\ ec' = [ec EXCEPT ![o] = code]
  /\ holder' = [holder EXCEPT ![o] = c]
  /\ child' = [x \in Children |-> IF x \in c THEN "held" ELSE child[x]]

\* async_get_connection_request up to the native call: a closed listener, a
\* failing overlapped file, connector or GetConnectionRequest posts the
\* operation; otherwise it is pending, or has a request at once.
NdGetConnectionRequest(o) ==
  /\ backend = "nd"
  /\ \/ /\ life = "unopened"
        /\ Initiate(o, "posted", "invalid_handle")
        /\ UNCHANGED <<events, rq, child, holder, left>>
     \/ /\ life = "open"
        /\ Spend("fault")
        /\ Initiate(o, "posted", "error")
        /\ UNCHANGED <<events, rq, child, holder>>
     \/ /\ life = "open"
        /\ Initiate(o, "start", "none")
        /\ rq' = Append(rq, o)
        /\ UNCHANGED <<events, child, holder, left>>
     \/ /\ life = "open"
        /\ rq = <<>> /\ events # <<>>
        /\ Initiate(o, "posted", "ok")
        /\ events' = Tail(events)
        /\ child' = [child EXCEPT ![Head(events)] = "held"]
        /\ holder' = [holder EXCEPT ![o] = {Head(events)}]
        /\ UNCHANGED <<rq, left>>
  /\ UNCHANGED <<listener, conn, moved>>

\* Seeded fault: an operation that ended before on_pending is left waiting.
NdOnPendingForgets(o) ==
  /\ backend = "nd"
  /\ phase[o] \in {"start", "early"}
  /\ phase' = [phase EXCEPT ![o] = "armed"]
  /\ UNCHANGED <<listener, events, rq, child, holder, ec, form, conn, moved, left>>

\* The cancellation is armed, then scheduler::on_pending: an operation that
\* ended meanwhile is posted.
NdOnPending(o) ==
  /\ backend = "nd"
  /\ phase[o] \in {"start", "early"}
  /\ phase' = [phase EXCEPT ![o] = IF @ = "start" THEN "armed" ELSE "posted"]
  /\ UNCHANGED <<listener, events, rq, child, holder, ec, form, conn, moved, left>>

\* The provider gives the first request to the first operation (external).
NdMatch ==
  /\ backend = "nd"
  /\ rq # <<>> /\ events # <<>>
  /\ rq' = Tail(rq) /\ events' = Tail(events)
  /\ NdEnd(Head(rq), "ok", {Head(events)})
  /\ UNCHANGED <<listener, form, conn, moved, left>>

\* The pending call fails (external).
NdPendingFails(o) ==
  /\ backend = "nd"
  /\ o \in Queued
  /\ Spend("fault")
  /\ Unqueue(o)
  /\ NdEnd(o, "error", {})
  /\ UNCHANGED <<listener, events, form, conn, moved>>

\* cancel(): CancelIoEx on the handle ends whatever is pending.
NdCancel ==
  /\ backend = "nd"
  /\ life = "open"
  /\ rq # <<>>
  /\ AbortAll
  /\ UNCHANGED <<listener, events, child, holder, form, conn, moved, left>>

\* A cancellation slot fires: CancelIoEx on the OVERLAPPED of the operation.
NdCancelByKey(o) ==
  /\ backend = "nd"
  /\ life = "open"
  /\ o \in Queued
  /\ AbortOne(o)
  /\ UNCHANGED <<listener, events, child, holder, form, conn, moved, left>>

NdDestroy == backend = "nd" /\ DestroyListener

\* do_complete: the private data is fetched, the handle moved out and the
\* adapter called.
NdComplete(o) == backend = "nd" /\ Deliver(o)

NdArrive(c) == backend = "nd" /\ Arrive(c)

NdNext ==
  \/ NdOpen \/ NdMove \/ NdBind \/ NdListen
  \/ NdCancel \/ NdDestroy \/ NdMatch
  \/ \E c \in Children : NdArrive(c)
  \/ \E o \in GetOps :
       \/ NdGetConnectionRequest(o) \/ NdOnPending(o) \/ NdPendingFails(o)
       \/ NdCancelByKey(o) \/ NdComplete(o)
=============================================================================
