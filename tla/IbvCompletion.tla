---------------------------- MODULE IbvCompletion ---------------------------
(***************************************************************************)
(* The event mode of the ibv data plane: the shared completion queue of an *)
(* io_context and the one self-rearming poller (ibv_io_completion_service) *)
(* that reaps it, with the operations queue pairs post.                    *)
(*                                                                         *)
(* Actors.  Any thread binds queue pairs and posts operations.  The HCA    *)
(* adds completions to the CQ at any moment, between any two calls of the  *)
(* poller.  The poller is one object that moves between a scheduler thread *)
(* and the reactor; each verbs call it makes is a step.  The completion    *)
(* channel is an edge-triggered descriptor.                                *)
(*                                                                         *)
(* Abstracted: buffers (an operation has a size), queue pairs (the HCA may *)
(* complete posted operations in any order), wr_id 0.                      *)
(***************************************************************************)
EXTENDS VerbsOps

CONSTANTS
  Ops,            \* operations
  QPs,            \* event-mode queue pairs of this io_context
  Batch,          \* wc_buf_.size(), the poll batch
  MaxBatches,     \* max_batches_per_turn (4 in the code)
  Size,           \* the size of an operation's buffers
  MaxThrow,       \* bound: handlers that throw
  MaxNotifyFail,  \* bound: failures of ibv_req_notify_cq
  MaxPollFail     \* bound: negative returns of ibv_poll_cq

ASSUME BatchAssumption == Batch \in Nat \ {0} /\ MaxBatches \in Nat \ {0}
ASSUME SizeAssumption == Size \in Nat \ {0}
ASSUME FaultAssumption ==
  MaxThrow \in Nat /\ MaxNotifyFail \in Nat /\ MaxPollFail \in Nat

VARIABLES
  bound,      \* queue pairs bound to the shared CQ
  started,    \* poller_started_
  ppc,        \* where the poller is
  batches,    \* batches polled in this turn
  completed,  \* poller_.completed_
  cq,         \* completions on the CQ: operation, status, byte_len
  notify,     \* the CQ will report its next completion on the channel
  chan,       \* events on the completion channel
  edge,       \* a readiness of the channel is pending in epoll
  phase,      \* where each operation is
  class,      \* send/write or recv/read
  ec,         \* rdma_verbs_op_base::ec_
  bytes,      \* rdma_verbs_op_base::bytes_transferred_
  reported,   \* history: operations in the order their CQEs appeared
  reaped,     \* history: operations in the order the poller dispatched them
  throws, nfails, pfails   \* used budget of the environment

native == <<cq, notify, chan, edge>>
opvars == <<phase, class, ec, bytes>>
faults == <<throws, nfails, pfails>>
vars   == <<bound, started, ppc, batches, completed, native, opvars,
            reported, reaped, faults>>

\* The operations of a sequence of CQEs.
OpsOf(s) == [i \in 1..Len(s) |-> s[i].op]

Init ==
  /\ bound = {}
  /\ started = FALSE
  /\ ppc = "off"
  /\ batches = 0
  /\ completed = <<>>
  /\ cq = <<>>
  /\ notify = FALSE
  /\ chan = 0
  /\ edge = FALSE
  /\ phase = [o \in Ops |-> "none"]
  /\ class = [o \in Ops |-> "inbound"]
  /\ ec = [o \in Ops |-> "ok"]
  /\ bytes = [o \in Ops |-> 0]
  /\ reported = <<>>
  /\ reaped = <<>>
  /\ throws = 0 /\ nfails = 0 /\ pfails = 0
-----------------------------------------------------------------------------
(* Queue pairs, on any thread. *)

\* bind(io_context): ensure_poller_started exchanges the flag; the first one
\* arms the poller.
Bind(q) ==
  /\ ppc # "down"
  /\ q \notin bound
  /\ bound' = bound \cup {q}
  /\ started' = TRUE
  /\ ppc' = IF started THEN ppc ELSE "notify"
  /\ UNCHANGED <<batches, completed, native, opvars, reported, reaped, faults>>

\* async_send, _recv, _write, _read: do_post_* and finish_event.
Submit(o) ==
  /\ ppc # "down"
  /\ bound # {}
  /\ phase[o] = "none"
  /\ \E c \in Class, outcome \in PostOutcome :
       /\ class' = [class EXCEPT ![o] = c]
       /\ ec' = [ec EXCEPT ![o] = PostCode(outcome)]
       /\ bytes' = [bytes EXCEPT ![o] = PostBytes(c, outcome, Size)]
       /\ phase' = [phase EXCEPT ![o] =
                      IF Immediate(outcome) THEN "immediate" ELSE "posted"]
  /\ UNCHANGED <<bound, started, ppc, batches, completed, native, reported,
                 reaped, faults>>

\* do_complete of the operation: its handler gets the code and the count.
RunHandler(o) ==
  /\ phase' = [phase EXCEPT ![o] = "done"]
  /\ bytes' = [bytes EXCEPT ![o] = ReportedBytes(class[o], ec[o], bytes[o])]

\* ibv_complete_op: an immediate completion, from the scheduler's queue.
CompleteImmediate(o) ==
  /\ ppc # "down"
  /\ phase[o] = "immediate"
  /\ RunHandler(o)
  /\ UNCHANGED <<bound, started, ppc, batches, completed, native, class, ec,
                 reported, reaped, faults>>
-----------------------------------------------------------------------------
\* The HCA (external) completes a posted operation.  A CQ with notification
\* requested puts one event on the channel and is no longer armed.
HcaComplete(o) ==
  /\ phase[o] = "posted"
  /\ phase' = [phase EXCEPT ![o] = "cqe"]
  /\ \E s \in WcStatus, len \in 0..Size :
       cq' = Append(cq, [op |-> o, status |-> s, len |-> len])
  /\ reported' = Append(reported, o)
  /\ notify' = FALSE
  /\ chan' = IF notify THEN chan + 1 ELSE chan
  /\ edge' = (edge \/ notify)
  /\ UNCHANGED <<bound, started, ppc, batches, completed, class, ec, bytes,
                 reaped, faults>>
-----------------------------------------------------------------------------
(* The poller. *)

\* ibv_req_notify_cq; its error code is ignored.
ReqNotify ==
  \/ notify' = TRUE /\ UNCHANGED nfails
  \/ nfails < MaxNotifyFail /\ nfails' = nfails + 1 /\ UNCHANGED notify

\* Seeded fault: the CQ is not looked at after the request.
ArmNotifyNoPoll ==
  /\ ppc = "notify"
  /\ ppc' = "start"
  /\ batches' = 0
  /\ ReqNotify
  /\ UNCHANGED <<bound, started, completed, cq, chan, edge, opvars, reported,
                 reaped, throws, pfails>>

\* arm_poller: request notification first, then look at the CQ.
ArmNotify ==
  /\ ppc = "notify"
  /\ ppc' = "poll"
  /\ batches' = 0
  /\ ReqNotify
  /\ UNCHANGED <<bound, started, completed, cq, chan, edge, opvars, reported,
                 reaped, throws, pfails>>

\* The number of CQEs one ibv_poll_cq takes.
Taken == IF Len(cq) < Batch THEN Len(cq) ELSE Batch

\* After the last batch: dispatch what was found, or wait for the channel.
AfterPoll(found) ==
  IF found THEN "posted" ELSE IF ppc = "poll" THEN "start" ELSE "armed"

\* The loop condition of poll_into.
MoreBatches(n) == n = Batch /\ batches + 1 < MaxBatches

\* poll_into, one batch: each CQE stamps its operation.
PollBatch ==
  LET n == Taken
      hit == {cq[i].op : i \in 1..n}
      wc(o) == cq[CHOOSE i \in 1..n : cq[i].op = o]
  IN
  /\ ppc \in {"poll", "perform_poll"}
  /\ completed' = completed \o OpsOf(SubSeq(cq, 1, n))
  /\ cq' = SubSeq(cq, n + 1, Len(cq))
  /\ ec' = [o \in Ops |-> IF o \in hit /\ wc(o).status # "success"
                            THEN WcCode(wc(o).status) ELSE ec[o]]
  /\ bytes' = [o \in Ops |-> IF o \in hit
                 THEN WcBytes(class[o], bytes[o], wc(o).status, wc(o).len)
                 ELSE bytes[o]]
  /\ batches' = batches + 1
  /\ ppc' = IF MoreBatches(n) THEN ppc ELSE AfterPoll(completed' # <<>>)
  /\ UNCHANGED <<bound, started, notify, chan, edge, phase, class, reported,
                 reaped, faults>>

\* ibv_poll_cq returns a negative value: taken for an empty CQ.
PollFail ==
  /\ ppc \in {"poll", "perform_poll"}
  /\ pfails < MaxPollFail
  /\ pfails' = pfails + 1
  /\ ppc' = AfterPoll(completed # <<>>)
  /\ UNCHANGED <<bound, started, batches, completed, native, opvars, reported,
                 reaped, throws, nfails>>

\* reactor::start_op (external): EPOLL_CTL_MOD reports a readable channel.
StartOp ==
  /\ ppc = "start"
  /\ ppc' = "armed"
  /\ edge' = (edge \/ chan > 0)
  /\ UNCHANGED <<bound, started, batches, completed, cq, notify, chan, opvars,
                 reported, reaped, faults>>

\* epoll reports the edge (external) and do_perform takes at most one event.
Perform ==
  /\ ppc = "armed"
  /\ edge
  /\ edge' = FALSE
  /\ batches' = 0
  /\ IF chan > 0 THEN ppc' = "renotify" /\ chan' = chan - 1
                 ELSE ppc' = "perform_poll" /\ UNCHANGED chan
  /\ UNCHANGED <<bound, started, completed, cq, notify, opvars, reported,
                 reaped, faults>>

\* do_perform requests the next notification, then polls.
Renotify ==
  /\ ppc = "renotify"
  /\ ppc' = "perform_poll"
  /\ ReqNotify
  /\ UNCHANGED <<bound, started, batches, completed, cq, chan, edge, opvars,
                 reported, reaped, throws, pfails>>

\* Seeded fault: only the first drained operation is dispatched.
DispatchFirst ==
  /\ ppc = "posted"
  /\ completed # <<>>
  /\ RunHandler(Head(completed))
  /\ reaped' = Append(reaped, Head(completed))
  /\ completed' = <<>>
  /\ UNCHANGED <<bound, started, ppc, batches, native, class, ec, reported,
                 faults>>

\* on_poll_complete: the next handler, which may throw out of run().
Dispatch ==
  /\ ppc = "posted"
  /\ completed # <<>>
  /\ RunHandler(Head(completed))
  /\ reaped' = Append(reaped, Head(completed))
  /\ completed' = Tail(completed)
  /\ \/ UNCHANGED <<ppc, throws>>
     \/ throws < MaxThrow /\ throws' = throws + 1 /\ ppc' = "thrown"
  /\ UNCHANGED <<bound, started, batches, native, class, ec, reported, nfails,
                 pfails>>

\* Everything dispatched: arm again.
Rearm ==
  /\ ppc = "posted"
  /\ completed = <<>>
  /\ ppc' = "notify"
  /\ UNCHANGED <<bound, started, batches, completed, native, opvars, reported,
                 reaped, faults>>

\* shutdown(), no thread running the io_context: drained and immediate
\* operations are destroyed without an upcall; what is still posted or on the
\* CQ is gone with it.
Shutdown ==
  /\ ppc \in {"off", "armed", "posted", "thrown"}
  /\ ppc' = "down"
  /\ completed' = <<>>
  /\ cq' = <<>>
  /\ phase' = [o \in Ops |->
       CASE phase[o] = "immediate" -> "destroyed"
         [] \E i \in 1..Len(completed) : completed[i] = o -> "destroyed"
         [] phase[o] = "posted" \/ (\E i \in 1..Len(cq) : cq[i].op = o) -> "leaked"
         [] OTHER -> phase[o]]
  /\ UNCHANGED <<bound, started, batches, notify, chan, edge, class, ec, bytes,
                 reported, reaped, faults>>

PollerStep ==
  \/ ArmNotify \/ PollBatch \/ PollFail \/ StartOp
  \/ Perform \/ Renotify \/ Dispatch \/ Rearm

Next ==
  \/ \E q \in QPs : Bind(q)
  \/ \E o \in Ops : Submit(o) \/ CompleteImmediate(o) \/ HcaComplete(o)
  \/ PollerStep
  \/ Shutdown

Spec == Init /\ [][Next]_vars

(* Fairness.  The io_context is being run (again after a handler threw),   *)
(* so the poller moves whenever it can and immediate completions run; the  *)
(* HCA completes every posted operation, by success, error or flush.       *)
FairSpec ==
  /\ Spec
  /\ WF_vars(PollerStep)
  /\ \A o \in Ops : WF_vars(HcaComplete(o)) /\ WF_vars(CompleteImmediate(o))
-----------------------------------------------------------------------------
(* Properties. *)

Cqe == [op : Ops, status : WcStatus, len : 0..Size]

\* Every variable keeps its type.
TypeOK ==
  /\ bound \subseteq QPs
  /\ started \in BOOLEAN
  /\ ppc \in {"off", "notify", "poll", "start", "armed", "renotify",
              "perform_poll", "posted", "thrown", "down"}
  /\ batches \in 0..MaxBatches
  /\ completed \in Seq(Ops)
  /\ cq \in Seq(Cqe)
  /\ notify \in BOOLEAN /\ edge \in BOOLEAN
  /\ chan \in Nat
  /\ phase \in [Ops -> {"none", "immediate", "posted", "cqe", "done",
                        "destroyed", "leaked"}]
  /\ class \in [Ops -> Class]
  /\ ec \in [Ops -> Code]
  /\ bytes \in [Ops -> 0..Size]
  /\ reported \in Seq(Ops) /\ reaped \in Seq(Ops)
  /\ throws \in 0..MaxThrow
  /\ nfails \in 0..MaxNotifyFail
  /\ pfails \in 0..MaxPollFail

\* Completions are neither lost, duplicated nor reordered between the CQ, the
\* poller's queue and the handlers, whatever batch limits, re-arming, native
\* failures and throwing handlers do.
ReapedInOrder ==
  ppc # "down" => reported = reaped \o completed \o OpsOf(cq)

\* No lost wake-up: a poller that waits on the channel while a completion
\* sits on the CQ has a readiness pending (post-before-notify race), as long
\* as the native calls succeed.
WaitingIsWoken ==
  ppc = "armed" /\ cq # <<>> /\ nfails = 0 /\ pfails = 0 => edge

\* Every posted operation's handler runs, unless the io_context is shut down.
\* The poller has no way back from a handler that throws or from a native
\* call that fails, so these are the exceptions.
PostedCompletes ==
  \A o \in Ops :
    (phase[o] = "posted")
      ~> (phase[o] = "done" \/ ppc = "down" \/ throws + nfails + pfails > 0)
=============================================================================
