------------------------------ MODULE Listener ------------------------------
(***************************************************************************)
(* rdma_listener on either backend: operations that wait for connection    *)
(* requests, and the connectors made from them.                            *)
(***************************************************************************)
EXTENDS IbvListener, NdListener

vars == <<service, reactor>>

Init == ServiceInit /\ IbvInit

Next == IbvNext \/ (NdNext /\ UNCHANGED reactor)

Spec == Init /\ [][Next]_vars

(* Fairness: the io_context is run, an initiating call returns, and the nd *)
(* provider hands over requests to the operations that wait for them.      *)
FairSpec ==
  /\ Spec
  /\ WF_vars(ReactorStep)
  /\ WF_vars(NdMatch /\ UNCHANGED reactor)
  /\ \A o \in GetOps :
       /\ WF_vars(StartOp(o))
       /\ WF_vars(NdOnPending(o) /\ UNCHANGED reactor)
       /\ WF_vars(Complete(o))
       /\ WF_vars(NdComplete(o) /\ UNCHANGED reactor)
-----------------------------------------------------------------------------
(* Properties. *)

FlagsOK == listening \in BOOLEAN /\ edge \in BOOLEAN

ValuesOK ==
  /\ backend \in {"ibv", "nd"}
  /\ life \in {"unopened", "open", "destroyed"}
  /\ bind_endpoint \in {"default", "opened"}
  /\ bound_to \in {"none", "default", "opened"}
  /\ rpc \in {"idle", "loop"}
  /\ events \in Seq(Children \cup {Other})
  /\ rq \in Seq(GetOps)
  /\ child \in [Children -> {"none", "queued", "held", "connector", "dropped",
                         "destroyed", "leaked"}]
  /\ holder \in [GetOps -> SUBSET Children]
  /\ phase \in [GetOps -> {"none", "start", "early", "armed", "posted", "done"}]
  /\ ec \in [GetOps -> {"none", "ok", "error", "aborted", "connection_aborted",
                        "invalid_handle", "already_open"}]
  /\ form \in [GetOps -> Fills \cup {None}]
  /\ conn \in [GetOps \cup Fills -> Children \cup {None}]
  /\ moved \subseteq GetOps
  /\ left \in [move : 0..MaxMove, other : 0..MaxOther, chan : 0..MaxChan,
               fault : 0..MaxFault]

\* Every variable keeps its type; an operation waits at the listener once, and
\* exactly while it is armed or its initiating call runs.
TypeOK ==
  /\ FlagsOK /\ ValuesOK
  /\ \A i, j \in 1..Len(rq) : rq[i] = rq[j] => i = j
  /\ \A o \in GetOps : /\ phase[o] = "armed" => o \in Queued
                       /\ o \in Queued => phase[o] \in {"armed", "start"}

\* Every request has exactly one owner: the listener's queue, one operation or
\* one connector, and none once it was destroyed.  A connector given to two
\* operations keeps the request it took first, and a request whose channel was
\* created is released on every error path.
OneOwner ==
  \A c \in Children :
    LET queued == {i \in 1..Len(events) : events[i] = c}
        ops == {o \in GetOps : c \in holder[o]}
        conns == {x \in GetOps \cup Fills : conn[x] = c}
    IN
    /\ (child[c] = "queued") <=> (\E i \in queued : queued = {i})
    /\ (child[c] = "held") <=> (\E o \in ops : ops = {o})
    /\ (child[c] = "connector") <=> (\E x \in conns : conns = {x})
    /\ child[c] # "queued" => queued = {}
    /\ child[c] # "held" => ops = {}
    /\ child[c] # "connector" => conns = {}
    /\ child[c] = "leaked" => left.chan < MaxChan

\* The handle and its channel "are released on any error path".  Refuted when
\* rdma_create_event_channel fails: nothing owns the child cm_id by then.
NoChildLeaked == \A c \in Children : child[c] # "leaked"

\* The operations told of a connection, the ones that failed, and the requests
\* that were lost after the listener's queue gave them up.
Won    == {o \in GetOps : phase[o] = "done" /\ ec[o] = "ok"}
Failed == {o \in GetOps : ec[o] \notin {"none", "ok"}}
Lost   == {c \in Children : child[c] \in {"destroyed", "leaked"}}

\* The operations told of a connection and the connectors that hold one match
\* one to one, also when two operations were given one connector to fill.
WinsAgree ==
  /\ \A o \in Won : conn[Connector(o)] # None
  /\ \A o, p \in Won : Connector(o) = Connector(p) => o = p
  /\ \A x \in GetOps \cup Fills : conn[x] # None => \E o \in Won : Connector(o) = x

\* The handlers account for the requests that left the listener's queue: a
\* handler told of success has a connector with a request of its own, every
\* connector with a request came that way, and for every request lost (released
\* on an error path, refused by assign(), or left without an owner when its
\* event channel fails) an operation of its own reports an error.
HandlersAccount ==
  /\ WinsAgree
  /\ \E by \in [Lost -> Failed] : \A c, d \in Lost : by[c] = by[d] => c = d

\* A waiting operation takes a queued request: no readiness is lost between
\* operations that complete, are cancelled or start while others wait.
RequestIsTaken ==
  \A o \in GetOps :
    (phase[o] = "armed" /\ events # <<>>) ~> (phase[o] # "armed" \/ events = <<>>)

\* Destroying the listener lets go of everybody: each operation completes.
DestroyedOpsComplete ==
  \A o \in GetOps :
    (life = "destroyed" /\ phase[o] # "none") ~> (phase[o] = "done")

\* bind() uses the endpoint of the port space the listener was opened with,
\* as nd_listener_service does, which the ibv service is to mirror.  Refuted
\* on ibv after a move.
BindsWhatWasOpened == bound_to # "default"
=============================================================================
