--------------------------- MODULE ListenerService --------------------------
(***************************************************************************)
(* What the rdma_listener of both backends has in common: its state, the   *)
(* async_get_connection operations, and the adapters that turn a delivered *)
(* handle into a connector, a new one (return form) or one the caller      *)
(* built (fill form).  IbvListener and NdListener add their machinery.     *)
(*                                                                         *)
(* Abstracted: private data, ports, and a failing open(), bind() or        *)
(* listen(), which leaves the listener as it was.                          *)
(***************************************************************************)
EXTENDS Naturals, Sequences

CONSTANTS
  GetOps,    \* async_get_connection operations
  Children,  \* connection requests, one for each client that connects
  Fills,     \* connectors built by the caller
  Other,     \* an ibv event that is no CONNECT_REQUEST (DEVICE_REMOVAL, ...)
  None,
  MaxOther,  \* bound: such events
  MaxMove,   \* bound: moves of the listener
  MaxChan,   \* bound: failures of rdma_create_event_channel
  MaxFault   \* bound: failures of the other native calls

ASSUME OtherAssumption == Other \notin Children /\ None \notin Children
ASSUME ConnectorAssumption == GetOps \cap Fills = {} /\ None \notin Fills
ASSUME BoundAssumption ==
  {MaxOther, MaxMove, MaxChan, MaxFault} \subseteq Nat

VARIABLES
  backend,        \* "ibv" or "nd"
  life,           \* "unopened", "open", "destroyed"
  bind_endpoint,  \* bind_endpoint_: set by open(), or default
  bound_to,       \* the endpoint the native bind was given
  listening,
  events,         \* what has arrived at the listener and was not taken
  rq,             \* the operations waiting at the listener, in their order
  child,          \* where each request is
  holder,         \* connector_handle_ of each operation: requests it owns
  phase, ec,      \* each operation, and its code
  form,           \* the connector it fills, None for the return form
  conn,           \* the request held by the connector an operation returned
                  \* or filled
  moved,          \* operations whose listener was moved under them
  left            \* what is left of each bound

listener == <<backend, life, bind_endpoint, bound_to, listening>>
service  == <<listener, events, rq, child, holder, phase, ec, form, conn, moved, left>>

ServiceInit ==
  /\ backend \in {"ibv", "nd"}
  /\ life = "unopened"
  /\ bind_endpoint = "default" /\ bound_to = "none" /\ listening = FALSE
  /\ events = <<>> /\ rq = <<>>
  /\ child = [c \in Children |-> "none"]
  /\ holder = [o \in GetOps |-> {}]
  /\ phase = [o \in GetOps |-> "none"]
  /\ ec = [o \in GetOps |-> "none"]
  /\ form = [o \in GetOps |-> None]
  /\ conn = [x \in GetOps \cup Fills |-> None]
  /\ moved = {}
  /\ left = [move |-> MaxMove, other |-> MaxOther, chan |-> MaxChan, fault |-> MaxFault]

Spend(bound) == left[bound] > 0 /\ left' = [left EXCEPT ![bound] = @ - 1]

InFlight(o) == phase[o] \notin {"none", "done"}
Queued == {rq[i] : i \in 1..Len(rq)}
-----------------------------------------------------------------------------
(* The owner. *)

OpenListener ==
  /\ life = "unopened"
  /\ life' = "open"
  /\ bind_endpoint' = "opened"
  /\ UNCHANGED <<backend, bound_to, listening, events, rq, child, holder, phase,
                 ec, form, conn, moved, left>>

\* move_construct and move_assign onto a closed listener: the native objects
\* go to the new object, whose bind_endpoint_ becomes e.
MoveListener(e) ==
  /\ life = "open"
  /\ Spend("move")
  /\ \A o \in GetOps : phase[o] \notin {"start", "early"}
  /\ bind_endpoint' = e
  /\ moved' = moved \cup {o \in GetOps : InFlight(o)}
  /\ UNCHANGED <<backend, life, bound_to, listening, events, rq, child, holder,
                 phase, ec, form, conn>>

\* bind(): the native call fails on a listener that is bound or listens.
BindListener ==
  /\ life = "open"
  /\ bound_to = "none" /\ ~listening
  /\ bound_to' = bind_endpoint
  /\ UNCHANGED <<backend, life, bind_endpoint, listening, events, rq, child, holder,
                 phase, ec, form, conn, moved, left>>

ListenListener ==
  /\ life = "open"
  /\ ~listening
  /\ listening' = TRUE
  /\ UNCHANGED <<backend, life, bind_endpoint, bound_to, events, rq, child, holder,
                 phase, ec, form, conn, moved, left>>

\* async_get_connection, in either form: the operation is initiated with phase
\* p and code e.
Initiate(o, p, e) ==
  /\ life # "destroyed"
  /\ phase[o] = "none"
  /\ \E f \in Fills \cup {None} : form' = [form EXCEPT ![o] = f]
  /\ phase' = [phase EXCEPT ![o] = p]
  /\ ec' = [ec EXCEPT ![o] = e]

\* Where an operation goes that ends while its initiating call still runs, or
\* after it returned.
Ended(o) == IF phase[o] = "start" THEN "early" ELSE "posted"

\* The waiting operation o leaves the queue; the others keep their order.
Unqueue(o) ==
  \E i \in 1..Len(rq) :
    /\ rq[i] = o
    /\ rq' = [j \in 1..(Len(rq) - 1) |-> IF j < i THEN rq[j] ELSE rq[j + 1]]

\* These operations end with operation_aborted.
EndAborted(os) ==
  /\ phase' = [o \in GetOps |-> IF o \in os THEN Ended(o) ELSE phase[o]]
  /\ ec' = [o \in GetOps |-> IF o \in os THEN "aborted" ELSE ec[o]]

\* Every waiting operation is aborted; one of them is.
AbortAll == rq' = <<>> /\ EndAborted(Queued)
AbortOne(o) == Unqueue(o) /\ EndAborted({o})

\* The destructor: the operations that wait are aborted (deregistering the
\* descriptor on ibv, closing the overlapped file on nd), and the native
\* listener drops the requests nobody took (external).
DestroyListener ==
  /\ life = "open"
  /\ \A o \in GetOps : phase[o] \notin {"start", "early"}
  /\ life' = "destroyed"
  /\ AbortAll
  /\ events' = <<>>
  /\ child' = [c \in Children |-> IF child[c] = "queued" THEN "dropped" ELSE child[c]]
  /\ UNCHANGED <<backend, bind_endpoint, bound_to, listening, holder, form, conn,
                 moved, left>>

\* A client connects (external).
Arrive(c) ==
  /\ life = "open" /\ listening
  /\ child[c] = "none"
  /\ child' = [child EXCEPT ![c] = "queued"]
  /\ events' = Append(events, c)
  /\ UNCHANGED <<listener, rq, holder, phase, ec, form, conn, moved, left>>
-----------------------------------------------------------------------------
(* Completion. *)

\* Seeded fault: a connector that is open takes the new handle.
AssignedAnyway(o) == {"ok", "error"}

\* The answers of assign() on the connector of the operation: one that is open
\* refuses, an empty handle is refused, and the registration may fail.
Assigned(o) ==
  IF form[o] # None /\ conn[form[o]] # None THEN {"already_open"}
  ELSE IF holder[o] = {} THEN {"invalid_handle"} ELSE {"ok", "error"}

\* The code the handler is told: an error skips assign().
Codes(o) == IF ec[o] = "ok" THEN Assigned(o) ELSE {ec[o]}

\* The connector the operation delivers.
Connector(o) == IF form[o] = None THEN o ELSE form[o]

\* The adapter has the handle, which was moved out of the operation: the
\* connector takes it, or it is released.
Deliver(o) ==
  /\ phase[o] = "posted"
  /\ phase' = [phase EXCEPT ![o] = "done"]
  /\ holder' = [holder EXCEPT ![o] = {}]
  /\ \E e \in Codes(o) :
       /\ ec' = [ec EXCEPT ![o] = e]
       /\ child' = [c \in Children |->
                      IF c \notin holder[o] THEN child[c]
                      ELSE IF e = "ok" THEN "connector" ELSE "destroyed"]
       /\ conn' = IF e # "ok" \/ holder[o] = {} THEN conn
                  ELSE [conn EXCEPT ![Connector(o)] = CHOOSE c \in holder[o] : TRUE]
  /\ UNCHANGED <<listener, events, rq, form, moved, left>>
=============================================================================
