---------------------------- MODULE NdCompletion ----------------------------
(***************************************************************************)
(* The event mode of the NetworkDirect data plane: nd_io_completion_service*)
(* with the one poller that asks the shared CQ for a notification, polls   *)
(* it when the IOCP reports one, dispatches, and asks again.               *)
(*                                                                         *)
(* Unlike its ibv twin the poller does not look at the CQ after it asked   *)
(* for the notification, keeps the drained operations in a local queue     *)
(* that a throwing handler destroys, and treats a failed Notify as a       *)
(* wake-up.  That Notify reports completions already on the CQ is a        *)
(* promise of the provider (external) the code depends on: Latched.        *)
(***************************************************************************)
EXTENDS VerbsOps

CONSTANTS
  Ops,           \* operations
  QPs,           \* event-mode queue pairs of this io_context
  Batch,         \* wc_buf_.size()
  MaxBatches,    \* max_batches_per_turn (4 in the code)
  Size,          \* the size of an operation's buffers
  Latched,       \* Notify completes at once when the CQ is not empty
  MaxThrow,      \* bound: handlers that throw
  MaxNotifyFail  \* bound: failures of Notify

ASSUME BatchAssumption == Batch \in Nat \ {0} /\ MaxBatches \in Nat \ {0}
ASSUME SizeAssumption == Size \in Nat /\ Latched \in BOOLEAN
ASSUME FaultAssumption == MaxThrow \in Nat /\ MaxNotifyFail \in Nat

VARIABLES
  bound,     \* queue pairs bound to the shared CQ
  started,   \* poller_started_
  ppc,       \* where the poller is
  batches,   \* batches polled in this turn
  ops,       \* the local queue of poll_and_dispatch
  cq,        \* completions on the CQ
  pending,   \* a Notify is outstanding
  phase, class, ec, bytes,
  reported,  \* history: operations in the order their results appeared
  reaped,    \* history: operations in the order they were dispatched
  throws, nfails

opvars == <<phase, class, ec, bytes>>
vars   == <<bound, started, ppc, batches, ops, cq, pending, opvars, reported,
            reaped, throws, nfails>>

OpsOf(s) == [i \in 1..Len(s) |-> s[i].op]
InSeq(o, s) == \E i \in 1..Len(s) : s[i] = o

Init ==
  /\ bound = {} /\ started = FALSE
  /\ ppc = "off" /\ batches = 0 /\ ops = <<>>
  /\ cq = <<>> /\ pending = FALSE
  /\ phase = [o \in Ops |-> "none"]
  /\ class = [o \in Ops |-> "inbound"]
  /\ ec = [o \in Ops |-> "ok"]
  /\ bytes = [o \in Ops |-> 0]
  /\ reported = <<>> /\ reaped = <<>>
  /\ throws = 0 /\ nfails = 0
-----------------------------------------------------------------------------
\* bind(io_context): the first one starts the poller.
Bind(q) ==
  /\ ppc # "down"
  /\ q \notin bound
  /\ bound' = bound \cup {q}
  /\ started' = TRUE
  /\ ppc' = IF started THEN ppc ELSE "notify"
  /\ UNCHANGED <<batches, ops, cq, pending, opvars, reported, reaped, throws, nfails>>

\* async_send, _recv, _write, _read: do_post_* and finish_event.
Submit(o) ==
  /\ ppc # "down"
  /\ bound # {}
  /\ phase[o] = "none"
  /\ \E c \in Class, outcome \in PostOutcome :
       /\ class' = [class EXCEPT ![o] = c]
       /\ ec' = [ec EXCEPT ![o] = PostCode(outcome)]
       /\ bytes' = [bytes EXCEPT ![o] = PostBytes(c, outcome, Size)]
       /\ phase' = [phase EXCEPT ![o] =
                      IF Immediate(outcome) THEN "immediate" ELSE "posted"]
  /\ UNCHANGED <<bound, started, ppc, batches, ops, cq, pending, reported,
                 reaped, throws, nfails>>

\* do_complete of the operation: its handler gets the code and the count.
RunHandler(o) ==
  /\ phase' = [phase EXCEPT ![o] = "done"]
  /\ bytes' = [bytes EXCEPT ![o] = ReportedBytes(class[o], ec[o], bytes[o])]

\* nd_complete_op: an immediate completion, from the scheduler's queue.
CompleteImmediate(o) ==
  /\ ppc # "down"
  /\ phase[o] = "immediate"
  /\ RunHandler(o)
  /\ UNCHANGED <<bound, started, ppc, batches, ops, cq, pending, class, ec,
                 reported, reaped, throws, nfails>>

\* The adapter (external) completes a posted operation; an outstanding Notify
\* is satisfied and its IOCP packet wakes the poller.
NicComplete(o) ==
  /\ phase[o] = "posted"
  /\ phase' = [phase EXCEPT ![o] = "cqe"]
  /\ \E s \in WcStatus, len \in 0..Size :
       cq' = Append(cq, [op |-> o, status |-> s, len |-> len])
  /\ reported' = Append(reported, o)
  /\ pending' = FALSE
  /\ ppc' = IF pending THEN "poll" ELSE ppc
  /\ UNCHANGED <<bound, started, batches, ops, class, ec, bytes, reaped, throws,
                 nfails>>
-----------------------------------------------------------------------------
\* Seeded fault: a failed Notify is left without a completion.
NotifyFailsTo == "off"

\* Where the poller goes when Notify fails: on_completion queues it again.
AfterNotifyFail == "poll"

\* arm_poller: Notify pends, completes at once, or fails.
ArmPoller ==
  /\ ppc = "notify"
  /\ batches' = 0
  /\ \/ /\ IF Latched /\ cq # <<>> THEN ppc' = "poll" /\ pending' = FALSE
                                   ELSE ppc' = "wait" /\ pending' = TRUE
        /\ UNCHANGED nfails
     \/ /\ nfails < MaxNotifyFail
        /\ nfails' = nfails + 1
        /\ ppc' = AfterNotifyFail
        /\ UNCHANGED pending
  /\ UNCHANGED <<bound, started, ops, cq, opvars, reported, reaped, throws>>

Taken == IF Len(cq) < Batch THEN Len(cq) ELSE Batch

\* The loop condition of poll_and_dispatch.
MoreBatches(n) == n = Batch /\ batches + 1 < MaxBatches

\* completion_status_to_error.
StatusCode(status) == CASE status = "success" -> "ok"
                        [] status = "flush"   -> "operation_aborted"
                        [] OTHER              -> "nd_status"

\* poll_and_dispatch, one batch of GetResults; resolve_wc stamps each one.
PollBatch ==
  LET n == Taken
      hit == {cq[i].op : i \in 1..n}
      wc(o) == cq[CHOOSE i \in 1..n : cq[i].op = o]
  IN
  /\ ppc = "poll"
  /\ ops' = ops \o OpsOf(SubSeq(cq, 1, n))
  /\ cq' = SubSeq(cq, n + 1, Len(cq))
  /\ ec' = [o \in Ops |-> IF o \in hit THEN StatusCode(wc(o).status) ELSE ec[o]]
  /\ bytes' = [o \in Ops |-> IF o \in hit
                 THEN WcBytes(class[o], bytes[o], wc(o).status, wc(o).len)
                 ELSE bytes[o]]
  /\ batches' = batches + 1
  /\ ppc' = IF MoreBatches(n) THEN "poll" ELSE "dispatch"
  /\ UNCHANGED <<bound, started, pending, phase, class, reported, reaped, throws,
                 nfails>>

\* Seeded fault: the local queue is emptied after its first operation.
DispatchFirst ==
  /\ ppc = "dispatch"
  /\ ops # <<>>
  /\ RunHandler(Head(ops))
  /\ reaped' = Append(reaped, Head(ops))
  /\ ops' = <<>>
  /\ UNCHANGED <<bound, started, ppc, batches, cq, pending, class, ec, reported,
                 throws, nfails>>

\* The next handler of the local queue.
Dispatch ==
  /\ ppc = "dispatch"
  /\ ops # <<>>
  /\ RunHandler(Head(ops))
  /\ reaped' = Append(reaped, Head(ops))
  /\ ops' = Tail(ops)
  /\ UNCHANGED <<bound, started, ppc, batches, cq, pending, class, ec, reported,
                 throws, nfails>>

\* The next handler throws out of run(): the local queue destroys the other
\* operations and arm_poller is not reached.
DispatchThrows ==
  /\ ppc = "dispatch"
  /\ ops # <<>>
  /\ throws < MaxThrow
  /\ throws' = throws + 1
  /\ phase' = [o \in Ops |-> IF o = Head(ops) THEN "done"
                             ELSE IF InSeq(o, ops) THEN "destroyed" ELSE phase[o]]
  /\ bytes' = [bytes EXCEPT ![Head(ops)] =
                 ReportedBytes(class[Head(ops)], ec[Head(ops)], @)]
  /\ reaped' = Append(reaped, Head(ops))
  /\ ops' = <<>>
  /\ ppc' = "thrown"
  /\ UNCHANGED <<bound, started, batches, cq, pending, class, ec, reported, nfails>>

\* Everything dispatched: ask for the next notification.
Rearm ==
  /\ ppc = "dispatch"
  /\ ops = <<>>
  /\ ppc' = "notify"
  /\ UNCHANGED <<bound, started, batches, ops, cq, pending, opvars, reported,
                 reaped, throws, nfails>>

\* shutdown(), no thread running the io_context.
Shutdown ==
  /\ ppc \in {"off", "wait", "thrown"} \/ (ppc = "poll" /\ batches = 0)
  /\ ppc' = "down"
  /\ cq' = <<>>
  /\ pending' = FALSE
  /\ phase' = [o \in Ops |->
       CASE phase[o] = "immediate" -> "destroyed"
         [] phase[o] \in {"posted", "cqe"} -> "leaked"
         [] OTHER -> phase[o]]
  /\ UNCHANGED <<bound, started, batches, ops, class, ec, bytes, reported, reaped,
                 throws, nfails>>

PollerStep == ArmPoller \/ PollBatch \/ Dispatch \/ Rearm

Next ==
  \/ \E q \in QPs : Bind(q)
  \/ \E o \in Ops : Submit(o) \/ CompleteImmediate(o) \/ NicComplete(o)
  \/ PollerStep \/ DispatchThrows
  \/ Shutdown

Spec == Init /\ [][Next]_vars

(* Fairness: the io_context is run and the adapter completes what is posted. *)
FairSpec ==
  /\ Spec
  /\ WF_vars(PollerStep)
  /\ \A o \in Ops : WF_vars(NicComplete(o)) /\ WF_vars(CompleteImmediate(o))
-----------------------------------------------------------------------------
(* Properties. *)

Cqe == [op : Ops, status : WcStatus, len : 0..Size]

\* Every variable keeps its type.
TypeOK ==
  /\ bound \subseteq QPs /\ started \in BOOLEAN
  /\ ppc \in {"off", "notify", "wait", "poll", "dispatch", "thrown", "down"}
  /\ batches \in 0..MaxBatches
  /\ ops \in Seq(Ops) /\ cq \in Seq(Cqe)
  /\ pending \in BOOLEAN
  /\ phase \in [Ops -> {"none", "immediate", "posted", "cqe", "done",
                        "destroyed", "leaked"}]
  /\ class \in [Ops -> Class] /\ bytes \in [Ops -> 0..Size]
  /\ ec \in [Ops -> Code \cup {"nd_status"}]
  /\ reported \in Seq(Ops) /\ reaped \in Seq(Ops)
  /\ throws \in 0..MaxThrow /\ nfails \in 0..MaxNotifyFail

\* Results are neither lost, duplicated nor reordered between the CQ, the
\* poller and the handlers, as long as no handler throws.
ReapedInOrder ==
  throws = 0 /\ ppc # "down" => reported = reaped \o ops \o OpsOf(cq)

\* Every posted operation's handler runs, unless the io_context is shut down:
\* also across failed Notify calls.  A handler that throws is the exception.
PostedCompletes ==
  \A o \in Ops :
    (phase[o] = "posted") ~> (phase[o] = "done" \/ ppc = "down" \/ throws > 0)
=============================================================================
