------------------------------- MODULE PollCq -------------------------------
(***************************************************************************)
(* The poll mode of the data plane: ibv_completion_queue, which the user   *)
(* drives with poll() and poll_one(), and its ready queue for operations   *)
(* that complete without a CQE.  nd_completion_queue makes the same calls  *)
(* in the same order; its native poll cannot fail (MaxPollFail = 0).       *)
(*                                                                         *)
(* Actors.  One thread polls; handlers run inside its calls and may call   *)
(* poll() or poll_one() again, up to MaxDepth nested calls.  Any thread    *)
(* posts operations.  The HCA completes them at any moment.                *)
(***************************************************************************)
EXTENDS VerbsOps

CONSTANTS
  Ops,         \* operations
  Batch,       \* wc_buf_.size()
  Size,        \* the size of an operation's buffers
  MaxDepth,    \* bound: poll calls in progress, one inside the other
  NestedPoll,  \* whether a handler may call poll() too, or only poll_one()
  MaxThrow,    \* bound: handlers that throw
  MaxPollFail  \* bound: negative returns of ibv_poll_cq

ASSUME BatchAssumption == Batch \in Nat \ {0}
ASSUME BoundAssumption ==
  /\ MaxDepth \in Nat \ {0} /\ MaxThrow \in Nat /\ MaxPollFail \in Nat
  /\ Size \in Nat /\ NestedPoll \in BOOLEAN

VARIABLES
  ready,    \* ready_, under mutex_
  wc_buf,   \* the entries of wc_buf_ ever written; every poll() shares it
  frames,   \* the poll calls in progress, innermost last
  cq,       \* completions on the native CQ
  phase,    \* where each operation is
  class, ec, bytes,
  runs,     \* how often complete() was called on each operation
  throws, pfails

opvars   == <<phase, class, ec, bytes, runs>>
pollvars == <<ready, wc_buf, frames, cq, opvars, throws, pfails>>

Frame(at, local, n, i) == [at |-> at, local |-> local, n |-> n, i |-> i,
                           handler |-> FALSE]
Depth == Len(frames)
Top   == frames[Depth]
SetTop(f) == frames' = [frames EXCEPT ![Depth] = f]
Pop       == frames' = SubSeq(frames, 1, Depth - 1)

PollInit ==
  /\ ready = <<>>
  /\ wc_buf = <<>>
  /\ frames = <<>>
  /\ cq = <<>>
  /\ phase = [o \in Ops |-> "none"]
  /\ class = [o \in Ops |-> "inbound"]
  /\ ec = [o \in Ops |-> "ok"]
  /\ bytes = [o \in Ops |-> 0]
  /\ runs = [o \in Ops |-> 0]
  /\ throws = 0 /\ pfails = 0
-----------------------------------------------------------------------------
\* async_*_static: do_post_* and finish_poll, which pushes an immediate
\* completion on the ready queue.
Submit(o) ==
  /\ phase[o] = "none"
  /\ \E c \in Class, outcome \in PostOutcome :
       /\ class' = [class EXCEPT ![o] = c]
       /\ ec' = [ec EXCEPT ![o] = PostCode(outcome)]
       /\ bytes' = [bytes EXCEPT ![o] = PostBytes(c, outcome, Size)]
       /\ phase' = [phase EXCEPT ![o] =
                      IF Immediate(outcome) THEN "ready" ELSE "posted"]
       /\ ready' = IF Immediate(outcome) THEN Append(ready, o) ELSE ready
  /\ UNCHANGED <<wc_buf, frames, cq, runs, throws, pfails>>

\* The HCA (external).
HcaComplete(o) ==
  /\ phase[o] = "posted"
  /\ phase' = [phase EXCEPT ![o] = "cqe"]
  /\ \E s \in WcStatus, len \in 0..Size :
       cq' = Append(cq, [op |-> o, status |-> s, len |-> len])
  /\ UNCHANGED <<ready, wc_buf, frames, class, ec, bytes, runs, throws, pfails>>
-----------------------------------------------------------------------------
(* Calls, from the polling thread or from a handler it is running. *)

CanCall == Depth < MaxDepth /\ (Depth > 0 => Top.handler)
CanPoll == CanCall /\ (Depth > 0 => NestedPoll)

\* Seeded fault: poll() works on ready_ itself and leaves it as it is.
CallPollShares ==
  /\ CanPoll
  /\ frames' = Append(frames, Frame("ready", ready, 0, 0))
  /\ UNCHANGED <<ready, wc_buf, cq, opvars, throws, pfails>>

\* poll(): drain_ready moves the whole ready queue out under the lock.
CallPoll ==
  /\ CanPoll
  /\ frames' = Append(frames, Frame("ready", ready, 0, 0))
  /\ ready' = <<>>
  /\ UNCHANGED <<wc_buf, cq, opvars, throws, pfails>>

\* complete(): the handler gets the code and the byte count.
RunHandler(o, code, count) ==
  /\ phase' = [phase EXCEPT ![o] = "done"]
  /\ runs' = [runs EXCEPT ![o] = @ + 1]
  /\ ec' = [ec EXCEPT ![o] = code]
  /\ bytes' = [bytes EXCEPT ![o] = ReportedBytes(class[o], code, count)]

\* dispatch: resolve_verbs_op stamps the operation, then completes it.
RunCompletion(wc) ==
  RunHandler(wc.op,
             IF wc.status = "success" THEN ec[wc.op] ELSE WcCode(wc.status),
             WcBytes(class[wc.op], bytes[wc.op], wc.status, wc.len))

\* poll_one(): the first ready operation, else one CQE into a local.
CallPollOne ==
  /\ CanCall
  /\ \/ /\ ready # <<>>
        /\ ready' = Tail(ready)
        /\ RunHandler(Head(ready), ec[Head(ready)], bytes[Head(ready)])
        /\ frames' = Append(frames, [Frame("one", <<>>, 0, 0) EXCEPT !.handler = TRUE])
        /\ UNCHANGED cq
     \/ /\ ready = <<>> /\ cq # <<>>
        /\ cq' = Tail(cq)
        /\ RunCompletion(Head(cq))
        /\ frames' = Append(frames, [Frame("one", <<>>, 0, 0) EXCEPT !.handler = TRUE])
        /\ UNCHANGED ready
  /\ UNCHANGED <<wc_buf, class, throws, pfails>>

Active(at) == Depth > 0 /\ Top.at = at /\ ~Top.handler

\* drain_ready: the next operation moved out.
DrainReady ==
  /\ Active("ready")
  /\ IF Top.local = <<>>
       THEN /\ SetTop([Top EXCEPT !.at = "poll"])
            /\ UNCHANGED <<phase, ec, bytes, runs>>
       ELSE LET o == Head(Top.local) IN
            /\ RunHandler(o, ec[o], bytes[o])
            /\ SetTop([Top EXCEPT !.local = Tail(@), !.handler = TRUE])
  /\ UNCHANGED <<ready, wc_buf, cq, class, throws, pfails>>

\* ibv_poll_cq into wc_buf_; an empty CQ ends poll().
PollBatch ==
  LET n == IF Len(cq) < Batch THEN Len(cq) ELSE Batch IN
  /\ Active("poll")
  /\ wc_buf' = SubSeq(cq, 1, n) \o SubSeq(wc_buf, n + 1, Len(wc_buf))
  /\ cq' = SubSeq(cq, n + 1, Len(cq))
  /\ IF n = 0 THEN Pop
     ELSE SetTop([Top EXCEPT !.at = "batch", !.n = n, !.i = 1])
  /\ UNCHANGED <<ready, opvars, throws, pfails>>

\* ibv_poll_cq fails: poll() ends with EIO; the CQEs stay on the CQ.
PollFail ==
  /\ Active("poll")
  /\ pfails < MaxPollFail
  /\ pfails' = pfails + 1
  /\ Pop
  /\ UNCHANGED <<ready, wc_buf, cq, opvars, throws>>

\* Seeded fault: the loop skips the last completion of a full batch.
LastOfBatch(n) == n - (n \div Batch)

\* The completions of the batch that the loop visits.
BatchEnd(n) == n

\* dispatch(wc_buf_[i]), or the batch is finished: poll again.
DispatchBatch ==
  /\ Active("batch")
  /\ IF Top.i > BatchEnd(Top.n)
       THEN /\ SetTop([Top EXCEPT !.at = "poll"])
            /\ UNCHANGED <<phase, ec, bytes, runs>>
       ELSE /\ RunCompletion(wc_buf[Top.i])
            /\ SetTop([Top EXCEPT !.i = @ + 1, !.handler = TRUE])
  /\ UNCHANGED <<ready, wc_buf, cq, class, throws, pfails>>

\* The handler returns; poll_one() returns with it.
HandlerReturns ==
  /\ Depth > 0 /\ Top.handler
  /\ IF Top.at = "one" THEN Pop ELSE SetTop([Top EXCEPT !.handler = FALSE])
  /\ UNCHANGED <<ready, wc_buf, cq, opvars, throws, pfails>>

\* The handler throws out of every call in progress: the local queues destroy
\* their operations, the rest of wc_buf_ is forgotten.
HandlerThrows ==
  /\ Depth > 0 /\ Top.handler
  /\ throws < MaxThrow
  /\ throws' = throws + 1
  /\ frames' = <<>>
  /\ phase' = [o \in Ops |->
       IF \E f \in 1..Depth : \E i \in 1..Len(frames[f].local) : frames[f].local[i] = o
         THEN "destroyed" ELSE phase[o]]
  /\ UNCHANGED <<ready, wc_buf, cq, class, ec, bytes, runs, pfails>>

PollerStep ==
  \/ DrainReady \/ PollBatch \/ PollFail \/ DispatchBatch \/ HandlerReturns

PollNext ==
  \/ \E o \in Ops : Submit(o) \/ HcaComplete(o)
  \/ CallPoll \/ CallPollOne
  \/ PollerStep \/ HandlerThrows

PollSpec == PollInit /\ [][PollNext]_pollvars

(* Fairness.  A call in progress runs on, the user keeps calling poll(),   *)
(* and the HCA completes what was posted.                                  *)
FairSpec == /\ PollSpec
            /\ WF_pollvars(PollerStep)
            /\ WF_pollvars(CallPoll)
            /\ \A o \in Ops : WF_pollvars(HcaComplete(o))
-----------------------------------------------------------------------------
(* Properties. *)

\* Every variable keeps its type, and every call but the innermost is inside
\* the handler it runs, as a poll_one() in progress always is.
TypeOK ==
  /\ ready \in Seq(Ops)
  /\ Len(wc_buf) <= Batch /\ \A i \in 1..Len(wc_buf) : wc_buf[i].op \in Ops
  /\ Depth <= MaxDepth
  /\ \A f \in 1..Depth : f < Depth \/ Top.at = "one" => frames[f].handler
  /\ phase \in [Ops -> {"none", "ready", "posted", "cqe", "done", "destroyed"}]
  /\ class \in [Ops -> Class] /\ ec \in [Ops -> Code]
  /\ bytes \in [Ops -> 0..Size]
  /\ runs \in [Ops -> Nat]

\* complete() frees the operation, so it may be called once only: no mix of
\* poll(), poll_one() and the ready queue completes an operation twice.
CompletedOnce == \A o \in Ops : runs[o] <= 1

InSeq(o, s) == \E i \in 1..Len(s) : s[i] = o
InCqes(o, s) == \E i \in 1..Len(s) : s[i].op = o

\* An operation that completed natively or on the ready queue can still be
\* reached by some poll: it is on the CQ, in the ready queue, or in the part
\* of the batch or local queue that a call in progress has yet to visit.
StillReachable ==
  \A o \in Ops : phase[o] \in {"ready", "cqe"} =>
    \/ InSeq(o, ready) \/ InCqes(o, cq)
    \/ \E f \in 1..Depth :
         \/ InSeq(o, frames[f].local)
         \/ /\ frames[f].at = "batch"
            /\ \E i \in frames[f].i..frames[f].n : wc_buf[i].op = o

\* As long as no handler throws, poll() loses nothing: the batches, the ready
\* queue that handlers refill and the early end on a failed ibv_poll_cq
\* leave every completion to this call or to the next one.
NothingStranded == throws = 0 => StillReachable

\* A user that keeps polling sees every posted operation complete, unless a
\* handler throws out of poll().
PostedCompletes ==
  \A o \in Ops :
    (phase[o] \in {"posted", "ready"}) ~> (phase[o] = "done" \/ throws > 0)
=============================================================================
