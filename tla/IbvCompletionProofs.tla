------------------------ MODULE IbvCompletionProofs -------------------------
(***************************************************************************)
(* The poller of the ibv event mode loses, repeats and reorders nothing    *)
(* and misses no wake-up, for any number of operations and queue pairs,    *)
(* any batch size and any bound on failures.                               *)
(***************************************************************************)
EXTENDS IbvCompletion, SequenceTheorems, TLAPS

(* The operations of a sequence of CQEs. *)
LEMMA OpsOfType ==
  ASSUME NEW s \in Seq(Cqe)
  PROVE  /\ OpsOf(s) \in Seq(Ops)
         /\ Len(OpsOf(s)) = Len(s)
         /\ \A i \in 1..Len(s) : OpsOf(s)[i] = s[i].op
<1>1. Len(s) \in Nat /\ \A i \in 1..Len(s) : s[i] \in Cqe
  OBVIOUS
<1>2. OpsOf(s) \in [1..Len(s) -> Ops]
  BY <1>1 DEF OpsOf, Cqe
<1>3. OpsOf(s) \in Seq(Ops)
  BY <1>1, <1>2, SeqDef
<1> QED
  BY <1>1, <1>2, <1>3 DEF OpsOf

LEMMA OpsOfAppend ==
  ASSUME NEW s \in Seq(Cqe), NEW c \in Cqe
  PROVE  OpsOf(Append(s, c)) = Append(OpsOf(s), c.op)
<1>1. /\ Append(s, c) \in Seq(Cqe) /\ Len(Append(s, c)) = Len(s) + 1
      /\ \A i \in 1..Len(s) : Append(s, c)[i] = s[i]
      /\ Append(s, c)[Len(s) + 1] = c
      /\ Len(s) \in Nat /\ c.op \in Ops
  BY AppendProperties DEF Cqe
<1>2. /\ OpsOf(s) \in Seq(Ops) /\ Len(OpsOf(s)) = Len(s)
      /\ \A i \in 1..Len(s) : OpsOf(s)[i] = s[i].op
  BY OpsOfType
<1>3. /\ OpsOf(Append(s, c)) \in Seq(Ops)
      /\ Len(OpsOf(Append(s, c))) = Len(s) + 1
      /\ \A i \in 1..(Len(s) + 1) : OpsOf(Append(s, c))[i] = Append(s, c)[i].op
  BY <1>1, OpsOfType
<1>4. /\ Append(OpsOf(s), c.op) \in Seq(Ops)
      /\ Len(Append(OpsOf(s), c.op)) = Len(s) + 1
      /\ \A i \in 1..Len(s) : Append(OpsOf(s), c.op)[i] = s[i].op
      /\ Append(OpsOf(s), c.op)[Len(s) + 1] = c.op
  BY <1>1, <1>2, AppendProperties
<1>5. \A i \in 1..(Len(s) + 1) : OpsOf(Append(s, c))[i] = Append(OpsOf(s), c.op)[i]
  BY <1>1, <1>3, <1>4
<1> QED
  BY <1>3, <1>4, <1>5, SeqEqual

LEMMA OpsOfSplit ==
  ASSUME NEW s \in Seq(Cqe), NEW n \in 0..Len(s)
  PROVE  /\ SubSeq(s, 1, n) \in Seq(Cqe) /\ SubSeq(s, n + 1, Len(s)) \in Seq(Cqe)
         /\ OpsOf(s) = OpsOf(SubSeq(s, 1, n)) \o OpsOf(SubSeq(s, n + 1, Len(s)))
<1> DEFINE a == SubSeq(s, 1, n)
           b == SubSeq(s, n + 1, Len(s))
<1>1. Len(s) \in Nat /\ n \in Nat /\ \A i \in 1..Len(s) : s[i] \in Cqe
  OBVIOUS
<1>2. /\ a \in Seq(Cqe) /\ Len(a) = n
      /\ \A i \in 1..n : a[i] = s[i]
  BY <1>1, SubSeqProperties
<1>3. /\ b \in Seq(Cqe) /\ Len(b) = Len(s) - n
      /\ \A i \in 1..(Len(s) - n) : b[i] = s[n + i]
  BY <1>1, SubSeqProperties
<1> HIDE DEF a, b
<1>4. /\ OpsOf(a) \in Seq(Ops) /\ Len(OpsOf(a)) = n
      /\ \A i \in 1..n : OpsOf(a)[i] = s[i].op
  BY <1>2, OpsOfType
<1>5. /\ OpsOf(b) \in Seq(Ops) /\ Len(OpsOf(b)) = Len(s) - n
      /\ \A i \in 1..(Len(s) - n) : OpsOf(b)[i] = s[n + i].op
  BY <1>3, OpsOfType
<1>6. /\ OpsOf(a) \o OpsOf(b) \in Seq(Ops)
      /\ Len(OpsOf(a) \o OpsOf(b)) = Len(s)
      /\ \A i \in 1..Len(s) : (OpsOf(a) \o OpsOf(b))[i] = s[i].op
  <2>1. /\ OpsOf(a) \o OpsOf(b) \in Seq(Ops)
        /\ Len(OpsOf(a) \o OpsOf(b)) = n + (Len(s) - n)
        /\ \A i \in 1..(n + (Len(s) - n)) : (OpsOf(a) \o OpsOf(b))[i] =
              IF i <= n THEN OpsOf(a)[i] ELSE OpsOf(b)[i - n]
    BY <1>4, <1>5, ConcatProperties
  <2>2. n + (Len(s) - n) = Len(s)
    BY <1>1
  <2>3. ASSUME NEW i \in 1..Len(s) PROVE (OpsOf(a) \o OpsOf(b))[i] = s[i].op
    <3>1. CASE i <= n
      BY <1>4, <2>1, <2>2, <3>1
    <3>2. CASE ~(i <= n)
      <4>1. i - n \in 1..(Len(s) - n) /\ n + (i - n) = i
        BY <1>1, <3>2
      <4> QED BY <1>5, <2>1, <2>2, <3>2, <4>1
    <3> QED BY <3>1, <3>2
  <2> QED BY <2>1, <2>2, <2>3
<1>7. /\ OpsOf(s) \in Seq(Ops) /\ Len(OpsOf(s)) = Len(s)
      /\ \A i \in 1..Len(s) : OpsOf(s)[i] = s[i].op
  BY OpsOfType
<1>8. OpsOf(s) = OpsOf(a) \o OpsOf(b)
  BY <1>6, <1>7, SeqEqual
<1> QED
  BY <1>2, <1>3, <1>8 DEF a, b

LEMMA OpsAssociative ==
  ASSUME NEW s \in Seq(Ops), NEW t \in Seq(Ops), NEW u \in Seq(Ops)
  PROVE  (s \o t) \o u = s \o (t \o u)
BY ConcatAssociative

LEMMA OpsAppendRight ==
  ASSUME NEW s \in Seq(Ops), NEW t \in Seq(Ops), NEW o \in Ops
  PROVE  Append(s \o t, o) = s \o Append(t, o)
<1>1. <<o>> \in Seq(Ops) /\ s \o t \in Seq(Ops)
  BY ConcatProperties
<1>2. Append(s \o t, o) = (s \o t) \o <<o>> /\ Append(t, o) = t \o <<o>>
  BY <1>1, AppendIsConcat
<1>3. (s \o t) \o <<o>> = s \o (t \o <<o>>)
  BY <1>1, OpsAssociative
<1> QED
  BY <1>2, <1>3

LEMMA OpsMoveHead ==
  ASSUME NEW s \in Seq(Ops), NEW t \in Seq(Ops), NEW o \in Ops
  PROVE  s \o (<<o>> \o t) = Append(s, o) \o t
<1>1. <<o>> \in Seq(Ops)
  OBVIOUS
<1>2. Append(s, o) = s \o <<o>>
  BY AppendIsConcat
<1>3. (s \o <<o>>) \o t = s \o (<<o>> \o t)
  BY <1>1, OpsAssociative
<1> QED
  BY <1>2, <1>3
-----------------------------------------------------------------------------
(* Types. *)

\* The turn of a poller that polls, or is about to, has a batch left.
TurnHasBatch ==
  ppc \in {"poll", "perform_poll", "renotify"} => batches < MaxBatches

Types == TypeOK /\ TurnHasBatch

LEMMA InitTypes == Init => Types
<1> SUFFICES ASSUME Init PROVE Types
  OBVIOUS
<1>1. /\ completed \in Seq(Ops) /\ cq \in Seq(Cqe)
      /\ reported \in Seq(Ops) /\ reaped \in Seq(Ops)
  BY EmptySeq DEF Init
<1>2. /\ phase \in [Ops -> {"none", "immediate", "posted", "cqe", "done",
                           "destroyed", "leaked"}]
      /\ class \in [Ops -> Class] /\ ec \in [Ops -> Code]
      /\ bytes \in [Ops -> 0..Size]
  BY SizeAssumption DEF Init, Class, Code
<1>3. /\ batches \in 0..MaxBatches /\ chan \in Nat /\ throws \in 0..MaxThrow
      /\ nfails \in 0..MaxNotifyFail /\ pfails \in 0..MaxPollFail
  BY BatchAssumption, FaultAssumption DEF Init
<1>4. /\ bound \subseteq QPs /\ started \in BOOLEAN /\ ppc = "off"
      /\ notify \in BOOLEAN /\ edge \in BOOLEAN
  BY DEF Init
<1> QED
  BY <1>1, <1>2, <1>3, <1>4 DEF Types, TypeOK, TurnHasBatch

\* What one ibv_poll_cq takes.
LEMMA TakenProperties ==
  ASSUME cq \in Seq(Cqe)
  PROVE  /\ Taken \in 0..Len(cq)
         /\ Taken = 0 => cq = <<>>
<1>1. Len(cq) \in Nat /\ (Len(cq) = 0 => cq = <<>>)
  BY EmptySeq
<1> QED
  BY <1>1, BatchAssumption DEF Taken

(* Every step keeps the types. *)
LEMMA TypeStep == Types /\ [Next]_vars => Types'
<1> SUFFICES ASSUME Types, [Next]_vars PROVE Types'
  OBVIOUS
<1> USE SizeAssumption, BatchAssumption, FaultAssumption
        DEF Types, TypeOK, TurnHasBatch
<1>1. ASSUME NEW q \in QPs, Bind(q) PROVE Types'
  BY <1>1 DEF Bind, native, opvars, faults
<1>2. ASSUME NEW o \in Ops, Submit(o) PROVE Types'
  <2>1. \A c \in Class, x \in PostOutcome :
          PostCode(x) \in Code /\ PostBytes(c, x, Size) \in 0..Size
    BY DEF PostOutcome, PostCode, Code, PostBytes
  <2> QED
    BY <1>2, <2>1 DEF Submit, native, faults
<1>3. ASSUME NEW o \in Ops, CompleteImmediate(o) PROVE Types'
  <2>1. ReportedBytes(class[o], ec[o], bytes[o]) \in 0..Size
    BY DEF ReportedBytes
  <2> QED
    BY <1>3, <2>1 DEF CompleteImmediate, RunHandler, native, faults
<1>4. ASSUME NEW o \in Ops, HcaComplete(o) PROVE Types'
  <2>1. /\ cq' \in Seq(Cqe) /\ reported' \in Seq(Ops)
    BY <1>4, AppendProperties DEF HcaComplete, Cqe
  <2>2. notify' \in BOOLEAN /\ edge' \in BOOLEAN
    BY <1>4 DEF HcaComplete
  <2>3. chan' \in Nat
    BY <1>4 DEF HcaComplete
  <2>4. phase' \in [Ops -> {"none", "immediate", "posted", "cqe", "done",
                            "destroyed", "leaked"}]
    BY <1>4 DEF HcaComplete
  <2>5. UNCHANGED <<bound, started, ppc, batches, completed, class, ec, bytes,
                    reaped, throws, nfails, pfails>>
    BY <1>4 DEF HcaComplete, faults
  <2> QED
    BY <2>1, <2>2, <2>3, <2>4, <2>5
<1>5. ASSUME ArmNotify PROVE Types'
  <2>1. notify' \in BOOLEAN
    BY <1>5, Zenon DEF ArmNotify, ReqNotify
  <2>2. nfails' \in 0..MaxNotifyFail
    BY <1>5 DEF ArmNotify, ReqNotify
  <2>3. /\ ppc' = "poll" /\ batches' = 0
        /\ UNCHANGED <<bound, started, completed, cq, chan, edge, phase, class,
                       ec, bytes, reported, reaped, throws, pfails>>
    BY <1>5 DEF ArmNotify, opvars
  <2> QED
    BY <2>1, <2>2, <2>3
<1>6. ASSUME PollBatch PROVE Types'
  <2> DEFINE n == Taken
             hit == {cq[i].op : i \in 1..n}
             wc(o) == cq[CHOOSE i \in 1..n : cq[i].op = o]
  <2>1. n \in 0..Len(cq) /\ Len(cq) \in Nat
    BY TakenProperties
  <2>2. /\ SubSeq(cq, 1, n) \in Seq(Cqe) /\ SubSeq(cq, n + 1, Len(cq)) \in Seq(Cqe)
    BY <2>1, OpsOfSplit
  <2>3. completed' \in Seq(Ops) /\ cq' \in Seq(Cqe)
    <3>1. OpsOf(SubSeq(cq, 1, n)) \in Seq(Ops)
      BY <2>2, OpsOfType
    <3> QED BY <1>6, <2>2, <3>1, ConcatProperties DEF PollBatch
  <2>4. ec' \in [Ops -> Code]
    BY <1>6 DEF PollBatch, WcCode, Code
  <2>5. ASSUME NEW o \in Ops, o \in hit PROVE wc(o).len \in 0..Size
    <3>1. PICK i \in 1..n : cq[i].op = o
      BY <2>5
    <3>2. (CHOOSE j \in 1..n : cq[j].op = o) \in 1..n
      BY <3>1
    <3>3. wc(o) \in Cqe
      BY <2>1, <3>2
    <3> QED BY <3>3 DEF Cqe
  <2>6. bytes' \in [Ops -> 0..Size]
    <3>1. bytes' = [o \in Ops |-> IF o \in hit
                     THEN WcBytes(class[o], bytes[o], wc(o).status, wc(o).len)
                     ELSE bytes[o]]
      BY <1>6 DEF PollBatch
    <3> HIDE DEF hit, wc
    <3>2. ASSUME NEW o \in Ops, o \in hit
          PROVE  WcBytes(class[o], bytes[o], wc(o).status, wc(o).len) \in 0..Size
      BY <2>5, <3>2 DEF WcBytes
    <3> QED BY <3>1, <3>2
  <2>7. /\ batches' = batches + 1 /\ ppc \in {"poll", "perform_poll"}
        /\ ppc' = IF MoreBatches(n) THEN ppc ELSE AfterPoll(completed' # <<>>)
        /\ UNCHANGED <<bound, started, notify, chan, edge, phase, class, reported,
                       reaped, throws, nfails, pfails>>
    BY <1>6 DEF PollBatch, faults
  <2>8. batches' \in 0..MaxBatches /\ TurnHasBatch'
    BY <2>7 DEF MoreBatches, AfterPoll
  <2>9. ppc' \in {"poll", "perform_poll", "posted", "start", "armed"}
    BY <2>7 DEF AfterPoll
  <2> QED
    BY <2>3, <2>4, <2>6, <2>7, <2>8, <2>9
<1>7. ASSUME PollFail PROVE Types'
  BY <1>7 DEF PollFail, AfterPoll, native, opvars, faults
<1>8. ASSUME StartOp PROVE Types'
  BY <1>8 DEF StartOp, native, opvars, faults
<1>9. ASSUME Perform PROVE Types'
  <2>1. ppc' \in {"renotify", "perform_poll"} /\ chan' \in Nat
    BY <1>9 DEF Perform
  <2>2. /\ edge' = FALSE /\ batches' = 0
        /\ UNCHANGED <<bound, started, completed, cq, notify, phase, class, ec,
                       bytes, reported, reaped, throws, nfails, pfails>>
    BY <1>9 DEF Perform, opvars, faults
  <2>3. batches' \in 0..MaxBatches /\ TurnHasBatch'
    BY <2>2
  <2> QED
    BY <2>1, <2>2, <2>3
<1>10. ASSUME Renotify PROVE Types'
  <2>1. notify' \in BOOLEAN
    BY <1>10, Zenon DEF Renotify, ReqNotify
  <2>2. nfails' \in 0..MaxNotifyFail
    BY <1>10 DEF Renotify, ReqNotify
  <2>3. /\ ppc = "renotify" /\ ppc' = "perform_poll"
        /\ UNCHANGED <<bound, started, batches, completed, cq, chan, edge, phase,
                       class, ec, bytes, reported, reaped, throws, pfails>>
    BY <1>10 DEF Renotify, opvars
  <2> QED
    BY <2>1, <2>2, <2>3
<1>11. ASSUME Dispatch PROVE Types'
  <2>1. Head(completed) \in Ops /\ Tail(completed) \in Seq(Ops)
    BY <1>11, HeadTailProperties DEF Dispatch
  <2>2. reaped' \in Seq(Ops)
    BY <1>11, <2>1, AppendProperties DEF Dispatch
  <2>3. ReportedBytes(class[Head(completed)], ec[Head(completed)], bytes[Head(completed)]) \in 0..Size
    BY <2>1 DEF ReportedBytes
  <2>4. /\ completed' \in Seq(Ops) /\ bytes' \in [Ops -> 0..Size]
        /\ phase' \in [Ops -> {"none", "immediate", "posted", "cqe", "done",
                               "destroyed", "leaked"}]
    BY <1>11, <2>1, <2>3 DEF Dispatch, RunHandler
  <2>5. ppc' \in {"posted", "thrown"} /\ throws' \in 0..MaxThrow
    BY <1>11 DEF Dispatch
  <2>6. UNCHANGED <<bound, started, batches, cq, notify, chan, edge, class, ec,
                    reported, nfails, pfails>>
    BY <1>11 DEF Dispatch, native
  <2> QED
    BY <2>2, <2>4, <2>5, <2>6
<1>12. ASSUME Rearm PROVE Types'
  BY <1>12 DEF Rearm, native, opvars, faults
<1>13. ASSUME Shutdown PROVE Types'
  <2>1. completed' \in Seq(Ops) /\ cq' \in Seq(Cqe)
    BY <1>13, EmptySeq DEF Shutdown
  <2> QED
    BY <1>13, <2>1 DEF Shutdown, faults
<1>14. CASE UNCHANGED vars
  BY <1>14 DEF vars, native, opvars, faults
<1> QED
  BY <1>1, <1>2, <1>3, <1>4, <1>5, <1>6, <1>7, <1>8, <1>9, <1>10, <1>11,
     <1>12, <1>13, <1>14 DEF Next, PollerStep

\* Every variable of the event mode keeps its type, and a turn of the poller
\* never exceeds its batches.
THEOREM IbvTypeCorrect == Spec => []TypeOK
<1>1. Types => TypeOK
  BY DEF Types
<1> QED
  BY InitTypes, TypeStep, <1>1, PTL DEF Spec
-----------------------------------------------------------------------------
(* Order. *)

Ordered == Types /\ ReapedInOrder

LEMMA InitOrdered == Init => Ordered
<1> SUFFICES ASSUME Init PROVE ReapedInOrder
  BY InitTypes DEF Ordered
<1>1. cq \in Seq(Cqe) /\ Len(cq) = 0
  BY EmptySeq DEF Init
<1>2. OpsOf(cq) \in Seq(Ops) /\ Len(OpsOf(cq)) = 0
  BY <1>1, OpsOfType
<1>3. OpsOf(cq) = <<>>
  BY <1>2, EmptySeq
<1> QED
  BY <1>3 DEF Init, ReapedInOrder

(* Every step keeps it: an operation moves from one queue to the next. *)
LEMMA OrderedStep == Ordered /\ [Next]_vars => Ordered'
<1> SUFFICES ASSUME Types, ReapedInOrder, [Next]_vars PROVE ReapedInOrder'
  BY TypeStep DEF Ordered
<1> USE DEF Types, TypeOK
<1>1. ASSUME NEW q \in QPs, Bind(q) PROVE ReapedInOrder'
  BY <1>1 DEF Bind, native, opvars, faults, ReapedInOrder
<1>2. ASSUME NEW o \in Ops, Submit(o) PROVE ReapedInOrder'
  BY <1>2 DEF Submit, native, opvars, faults, ReapedInOrder
<1>3. ASSUME NEW o \in Ops, CompleteImmediate(o) PROVE ReapedInOrder'
  BY <1>3 DEF CompleteImmediate, RunHandler, native, opvars, faults, ReapedInOrder
<1>4. ASSUME NEW o \in Ops, HcaComplete(o) PROVE ReapedInOrder'
  <2>1. CASE ppc = "down"
    BY <1>4, <2>1 DEF HcaComplete, ReapedInOrder
  <2>2. CASE ppc # "down"
    <3>1. PICK c \in Cqe : c.op = o /\ cq' = Append(cq, c)
      BY <1>4 DEF HcaComplete, Cqe
    <3>2. OpsOf(cq') = Append(OpsOf(cq), o)
      BY <3>1, OpsOfAppend
    <3>3. /\ OpsOf(cq) \in Seq(Ops) /\ reaped \o completed \in Seq(Ops)
      BY OpsOfType, ConcatProperties
    <3>4. reported' = Append(reported, o) /\ UNCHANGED <<ppc, reaped, completed>>
      BY <1>4 DEF HcaComplete
    <3>5. reported = (reaped \o completed) \o OpsOf(cq)
      BY <2>2 DEF ReapedInOrder
    <3>6. Append((reaped \o completed) \o OpsOf(cq), o)
            = (reaped \o completed) \o Append(OpsOf(cq), o)
      BY <3>3, OpsAppendRight
    <3> QED BY <3>2, <3>4, <3>5, <3>6 DEF ReapedInOrder
  <2> QED BY <2>1, <2>2
<1>5. ASSUME ArmNotify PROVE ReapedInOrder'
  BY <1>5 DEF ArmNotify, ReqNotify, native, opvars, faults, ReapedInOrder
<1>6. ASSUME PollBatch PROVE ReapedInOrder'
  <2> DEFINE a == OpsOf(SubSeq(cq, 1, Taken))
             b == OpsOf(SubSeq(cq, Taken + 1, Len(cq)))
  <2>1. /\ ppc # "down" /\ UNCHANGED <<reported, reaped>>
        /\ completed' = completed \o a /\ OpsOf(cq') = b
    BY <1>6 DEF PollBatch
  <2>2. a \in Seq(Ops) /\ b \in Seq(Ops) /\ OpsOf(cq) = a \o b
    BY TakenProperties, OpsOfSplit, OpsOfType
  <2>3. reported = (reaped \o completed) \o (a \o b)
    BY <2>1, <2>2 DEF ReapedInOrder
  <2> HIDE DEF a, b
  <2>4. (reaped \o completed) \o (a \o b) = ((reaped \o completed) \o a) \o b
    <3>1. reaped \o completed \in Seq(Ops)
      BY ConcatProperties
    <3> QED BY <2>2, <3>1, OpsAssociative
  <2>5. (reaped \o completed) \o a = reaped \o (completed \o a)
    BY <2>2, OpsAssociative
  <2> QED BY <2>1, <2>3, <2>4, <2>5 DEF ReapedInOrder
<1>7. ASSUME PollFail PROVE ReapedInOrder'
  BY <1>7 DEF PollFail, AfterPoll, native, opvars, faults, ReapedInOrder
<1>8. ASSUME StartOp PROVE ReapedInOrder'
  BY <1>8 DEF StartOp, native, opvars, faults, ReapedInOrder
<1>9. ASSUME Perform PROVE ReapedInOrder'
  BY <1>9 DEF Perform, native, opvars, faults, ReapedInOrder
<1>10. ASSUME Renotify PROVE ReapedInOrder'
  BY <1>10 DEF Renotify, ReqNotify, native, opvars, faults, ReapedInOrder
<1>11. ASSUME Dispatch PROVE ReapedInOrder'
  <2> DEFINE h == Head(completed)
             t == Tail(completed)
  <2>1. /\ ppc # "down" /\ completed # <<>> /\ UNCHANGED <<reported, cq>>
        /\ reaped' = Append(reaped, h) /\ completed' = t
    BY <1>11 DEF Dispatch, native
  <2>2. h \in Ops /\ t \in Seq(Ops)
    BY <2>1, HeadTailProperties
  <2>3. reaped \o completed = Append(reaped, h) \o t
    <3>1. completed = <<h>> \o t
      BY <2>1
    <3> HIDE DEF h, t
    <3>2. reaped \o (<<h>> \o t) = Append(reaped, h) \o t
      BY <2>2, OpsMoveHead
    <3> QED BY <3>1, <3>2
  <2> QED BY <2>1, <2>3 DEF ReapedInOrder
<1>12. ASSUME Rearm PROVE ReapedInOrder'
  BY <1>12 DEF Rearm, native, opvars, faults, ReapedInOrder
<1>13. ASSUME Shutdown PROVE ReapedInOrder'
  BY <1>13 DEF Shutdown, native, opvars, faults, ReapedInOrder
<1>14. CASE UNCHANGED vars
  BY <1>14 DEF vars, native, opvars, faults, ReapedInOrder
<1> QED
  BY <1>1, <1>2, <1>3, <1>4, <1>5, <1>6, <1>7, <1>8, <1>9, <1>10, <1>11,
     <1>12, <1>13, <1>14 DEF Next, PollerStep

\* Completions are neither lost, duplicated nor reordered between the CQ, the
\* queue of the poller and the handlers, whatever batch limits, re-arming,
\* failures of native calls and throwing handlers do.
THEOREM CompletionsInOrder == Spec => []ReapedInOrder
<1>1. Ordered => ReapedInOrder
  BY DEF Ordered
<1> QED
  BY InitOrdered, OrderedStep, <1>1, PTL DEF Spec
-----------------------------------------------------------------------------
(* No lost wake-up. *)

\* As long as ibv_req_notify_cq and ibv_poll_cq succeed, a poller on its way to
\* the wait has a notification coming: requested and not used up, or on the
\* channel, or reported by epoll; and once it waits with nothing pending, the
\* CQ is empty.
WakeAhead ==
  nfails = 0 /\ pfails = 0 =>
    /\ ppc = "poll" => notify \/ chan > 0
    /\ ppc = "start" => chan > 0 \/ (notify /\ cq = <<>>)
    /\ ppc = "armed" => edge \/ (notify /\ cq = <<>>)
    /\ ppc = "perform_poll" => notify \/ edge

\* A readiness is reported for an event that is still on the channel.
EdgeHasEvent == edge => chan > 0

WakeInv == Types /\ WakeAhead /\ EdgeHasEvent

LEMMA InitWake == Init => WakeInv
BY InitTypes DEF Init, WakeInv, WakeAhead, EdgeHasEvent

(* Every step keeps it. *)
LEMMA WakeStep == WakeInv /\ [Next]_vars => WakeInv'
<1> SUFFICES ASSUME Types, WakeAhead, EdgeHasEvent, [Next]_vars
             PROVE  WakeAhead' /\ EdgeHasEvent'
  BY TypeStep DEF WakeInv
<1> DEFINE Goal == WakeAhead' /\ EdgeHasEvent'
<1> USE DEF Types, TypeOK, WakeAhead, EdgeHasEvent
<1>1. ASSUME NEW q \in QPs, Bind(q) PROVE Goal
  BY <1>1 DEF Bind, native, opvars, faults
<1>2. ASSUME NEW o \in Ops, Submit(o) PROVE Goal
  BY <1>2 DEF Submit, native, opvars, faults
<1>3. ASSUME NEW o \in Ops, CompleteImmediate(o) PROVE Goal
  BY <1>3 DEF CompleteImmediate, RunHandler, native, opvars, faults
<1>4. ASSUME NEW o \in Ops, HcaComplete(o) PROVE Goal
  BY <1>4 DEF HcaComplete, native, opvars, faults
<1>5. ASSUME ArmNotify PROVE Goal
  BY <1>5 DEF ArmNotify, ReqNotify, native, opvars, faults
<1>6. ASSUME PollBatch PROVE Goal
  <2>1. /\ ppc \in {"poll", "perform_poll"}
        /\ ppc' = IF MoreBatches(Taken) THEN ppc ELSE AfterPoll(completed' # <<>>)
        /\ UNCHANGED <<notify, chan, edge, nfails, pfails>>
        /\ completed' = completed \o OpsOf(SubSeq(cq, 1, Taken))
        /\ cq' = SubSeq(cq, Taken + 1, Len(cq))
    BY <1>6 DEF PollBatch, faults
  <2>2. completed' = <<>> => cq' = <<>>
    <3> SUFFICES ASSUME completed' = <<>> PROVE cq' = <<>>
      OBVIOUS
    <3>1. /\ SubSeq(cq, 1, Taken) \in Seq(Cqe)
          /\ OpsOf(SubSeq(cq, 1, Taken)) \in Seq(Ops)
          /\ Len(OpsOf(SubSeq(cq, 1, Taken))) = Len(SubSeq(cq, 1, Taken))
      BY TakenProperties, OpsOfSplit, OpsOfType
    <3>2. OpsOf(SubSeq(cq, 1, Taken)) = <<>>
      BY <2>1, <3>1, ConcatEqualIffEmpty
    <3>3. Len(SubSeq(cq, 1, Taken)) = Taken
      <4>1. Taken \in 0..Len(cq) /\ Len(cq) \in Nat
        BY TakenProperties
      <4> QED BY <4>1, SubSeqProperties
    <3>4. Taken = 0
      BY <3>1, <3>2, <3>3
    <3>5. cq = <<>>
      BY <3>4, TakenProperties
    <3> QED BY <2>1, <3>4, <3>5, SubSeqEmpty
  <2>3. ppc' \in {"start", "armed"} => completed' = <<>>
    BY <2>1 DEF AfterPoll
  <2>4. /\ ppc' = "poll" => ppc = "poll"
        /\ ppc' = "start" => ppc = "poll"
        /\ ppc' \in {"armed", "perform_poll"} => ppc = "perform_poll"
    BY <2>1 DEF AfterPoll
  <2> QED
    BY <2>1, <2>2, <2>3, <2>4
<1>7. ASSUME PollFail PROVE Goal
  BY <1>7 DEF PollFail, native
<1>8. ASSUME StartOp PROVE Goal
  BY <1>8 DEF StartOp, native, opvars, faults
<1>9. ASSUME Perform PROVE Goal
  BY <1>9 DEF Perform, native, opvars, faults
<1>10. ASSUME Renotify PROVE Goal
  BY <1>10 DEF Renotify, ReqNotify, native, opvars, faults
<1>11. ASSUME Dispatch PROVE Goal
  BY <1>11 DEF Dispatch, RunHandler, native, opvars, faults
<1>12. ASSUME Rearm PROVE Goal
  BY <1>12 DEF Rearm, native, opvars, faults
<1>13. ASSUME Shutdown PROVE Goal
  BY <1>13 DEF Shutdown, native, opvars, faults
<1>14. CASE UNCHANGED vars
  BY <1>14 DEF vars, native, opvars, faults
<1> QED
  BY <1>1, <1>2, <1>3, <1>4, <1>5, <1>6, <1>7, <1>8, <1>9, <1>10, <1>11,
     <1>12, <1>13, <1>14 DEF Next, PollerStep

\* No lost wake-up: a poller that waits on the channel while a completion sits
\* on the CQ has a readiness pending, at whatever moment the HCA completed the
\* operation, as long as the native calls of the poller succeed.
THEOREM NoLostWakeup == Spec => []WaitingIsWoken
<1>1. WakeInv => WaitingIsWoken
  BY DEF WakeInv, WakeAhead, WaitingIsWoken
<1> QED
  BY InitWake, WakeStep, <1>1, PTL DEF Spec
-----------------------------------------------------------------------------
(* Each handler once. *)

\* No operation is dispatched twice: complete() frees it.
DispatchedOnce == \A i, j \in 1..Len(reaped) : reaped[i] = reaped[j] => i = j

\* An operation is reported once, from the moment it was posted on.
ReportedOnce ==
  /\ \A i, j \in 1..Len(reported) : reported[i] = reported[j] => i = j
  /\ \A i \in 1..Len(reported) :
       phase[reported[i]] \notin {"none", "immediate", "posted"}

OnceInv == Ordered /\ DispatchedOnce /\ ReportedOnce

LEMMA InitOnce == Init => OnceInv
<1> SUFFICES ASSUME Init PROVE DispatchedOnce /\ ReportedOnce
  BY InitOrdered DEF OnceInv
<1>1. Len(reaped) = 0 /\ Len(reported) = 0
  BY EmptySeq DEF Init
<1> QED
  BY <1>1 DEF DispatchedOnce, ReportedOnce

(* Every step keeps it: what is dispatched next was reported later. *)
LEMMA OnceStep == OnceInv /\ [Next]_vars => OnceInv'
<1> SUFFICES ASSUME Ordered, DispatchedOnce, ReportedOnce, [Next]_vars
             PROVE  DispatchedOnce' /\ ReportedOnce'
  BY OrderedStep DEF OnceInv
<1>0. TypeOK
  BY DEF Ordered, Types
<1> DEFINE Goal == DispatchedOnce' /\ ReportedOnce'
<1> USE <1>0 DEF TypeOK, DispatchedOnce, ReportedOnce
<1>1. ASSUME NEW q \in QPs, Bind(q) PROVE Goal
  BY <1>1 DEF Bind, native, opvars, faults
<1>2. ASSUME NEW o \in Ops, Submit(o) PROVE Goal
  <2>1. /\ UNCHANGED <<reported, reaped>> /\ phase[o] = "none"
        /\ \A p \in Ops : p # o => phase'[p] = phase[p]
    BY <1>2 DEF Submit
  <2>2. \A i \in 1..Len(reported) : reported[i] \in Ops
    OBVIOUS
  <2> QED
    BY <2>1, <2>2
<1>3. ASSUME NEW o \in Ops, CompleteImmediate(o) PROVE Goal
  <2>1. /\ UNCHANGED <<reported, reaped>>
        /\ phase' = [phase EXCEPT ![o] = "done"]
    BY <1>3 DEF CompleteImmediate, RunHandler
  <2>2. \A i \in 1..Len(reported) : reported[i] \in Ops
    OBVIOUS
  <2> QED
    BY <2>1, <2>2
<1>4. ASSUME NEW o \in Ops, HcaComplete(o) PROVE Goal
  <2>1. /\ reported' \in Seq(Ops) /\ Len(reported') = Len(reported) + 1
        /\ \A i \in 1..Len(reported) : reported'[i] = reported[i]
        /\ reported'[Len(reported) + 1] = o
        /\ Len(reported) \in Nat /\ \A i \in 1..Len(reported) : reported[i] \in Ops
    BY <1>4, AppendProperties DEF HcaComplete
  <2>2. /\ phase[o] = "posted" /\ phase' = [phase EXCEPT ![o] = "cqe"]
        /\ UNCHANGED reaped
    BY <1>4 DEF HcaComplete
  <2>3. \A i \in 1..Len(reported) : reported[i] # o
    BY <2>2
  <2>4. \A i \in 1..Len(reported') : i = Len(reported) + 1 \/ i \in 1..Len(reported)
    BY <2>1
  <2>5. ASSUME NEW i \in 1..Len(reported'), NEW j \in 1..Len(reported'),
               reported'[i] = reported'[j]
        PROVE  i = j
    <3>1. CASE i \in 1..Len(reported) /\ j \in 1..Len(reported)
      <4>1. reported[i] = reported[j]
        BY <2>1, <2>5, <3>1
      <4> QED BY <3>1, <4>1
    <3>2. CASE i = Len(reported) + 1 \/ j = Len(reported) + 1
      BY <2>1, <2>3, <2>4, <2>5, <3>2
    <3> QED BY <2>4, <3>1, <3>2
  <2>6. ASSUME NEW i \in 1..Len(reported')
        PROVE  phase'[reported'[i]] \notin {"none", "immediate", "posted"}
    <3>1. CASE i = Len(reported) + 1
      BY <2>1, <2>2, <3>1
    <3>2. CASE i \in 1..Len(reported)
      BY <2>1, <2>2, <2>3, <3>2
    <3> QED BY <2>4, <3>1, <3>2
  <2>7. DispatchedOnce'
    BY <2>2
  <2> QED
    BY <2>5, <2>6, <2>7
<1>5. ASSUME ArmNotify PROVE Goal
  BY <1>5 DEF ArmNotify, ReqNotify, native, opvars, faults
<1>6. ASSUME PollBatch PROVE Goal
  BY <1>6 DEF PollBatch
<1>7. ASSUME PollFail PROVE Goal
  BY <1>7 DEF PollFail, AfterPoll, native, opvars, faults
<1>8. ASSUME StartOp PROVE Goal
  BY <1>8 DEF StartOp, native, opvars, faults
<1>9. ASSUME Perform PROVE Goal
  BY <1>9 DEF Perform, native, opvars, faults
<1>10. ASSUME Renotify PROVE Goal
  BY <1>10 DEF Renotify, ReqNotify, native, opvars, faults
<1>11. ASSUME Dispatch PROVE Goal
  <2> DEFINE h == Head(completed)
             k == Len(reaped)
  <2>1. /\ ppc # "down" /\ completed # <<>> /\ UNCHANGED reported
        /\ reaped' = Append(reaped, h) /\ phase' = [phase EXCEPT ![h] = "done"]
    BY <1>11 DEF Dispatch, RunHandler
  <2>2. /\ h \in Ops /\ h = completed[1]
        /\ k \in Nat /\ Len(completed) \in Nat \ {0} /\ Len(OpsOf(cq)) \in Nat
        /\ OpsOf(cq) \in Seq(Ops)
    BY <2>1, HeadTailProperties, EmptySeq, OpsOfType
  <2>3. /\ Len(reported) = k + Len(completed) + Len(OpsOf(cq))
        /\ \A i \in 1..k : reported[i] = reaped[i]
        /\ reported[k + 1] = h
    <3>1. /\ reaped \o completed \in Seq(Ops)
          /\ Len(reaped \o completed) = k + Len(completed)
          /\ \A i \in 1..(k + Len(completed)) : (reaped \o completed)[i] =
               IF i <= k THEN reaped[i] ELSE completed[i - k]
      BY ConcatProperties
    <3>2. reported = (reaped \o completed) \o OpsOf(cq)
      BY <2>1 DEF Ordered, ReapedInOrder
    <3>3. /\ Len(reported) = k + Len(completed) + Len(OpsOf(cq))
          /\ \A i \in 1..(k + Len(completed)) : reported[i] = (reaped \o completed)[i]
      BY <2>2, <3>1, <3>2, ConcatProperties
    <3>4. k + 1 \in 1..(k + Len(completed)) /\ (k + 1) - k = 1 /\ ~(k + 1 <= k)
      BY <2>2
    <3>5. \A i \in 1..k : i \in 1..(k + Len(completed)) /\ i <= k
      BY <2>2
    <3>6. ASSUME NEW i \in 1..k PROVE reported[i] = reaped[i]
      <4>1. reported[i] = (reaped \o completed)[i]
        BY <3>3, <3>5
      <4> QED BY <3>1, <3>5, <4>1
    <3>7. reported[k + 1] = h
      <4>1. reported[k + 1] = (reaped \o completed)[k + 1]
        BY <3>3, <3>4
      <4>2. (reaped \o completed)[k + 1] = completed[1]
        BY <3>1, <3>4
      <4> QED BY <2>2, <4>1, <4>2
    <3> QED BY <3>3, <3>6, <3>7
  <2>4. ASSUME NEW i \in 1..k PROVE reaped[i] # h
    <3> DEFINE c == Len(completed)
               d == Len(OpsOf(cq))
    <3>0. /\ k \in Nat /\ c \in Nat \ {0} /\ d \in Nat /\ i \in 1..k
          /\ Len(reported) = k + c + d
      BY <2>2, <2>3
    <3> HIDE DEF k, c, d
    <3>1. i \in 1..Len(reported) /\ k + 1 \in 1..Len(reported) /\ i # k + 1
      BY <3>0
    <3>2. reported[i] # reported[k + 1]
      BY <3>1
    <3> QED BY <2>3, <3>2
  <2>5. /\ Len(reaped') = k + 1 /\ \A i \in 1..k : reaped'[i] = reaped[i]
        /\ reaped'[k + 1] = h
    BY <2>1, <2>2, AppendProperties
  <2>6. ASSUME NEW i \in 1..Len(reaped'), NEW j \in 1..Len(reaped'),
               reaped'[i] = reaped'[j]
        PROVE  i = j
    <3>1. (i \in 1..k \/ i = k + 1) /\ (j \in 1..k \/ j = k + 1)
      BY <2>2, <2>5
    <3>2. CASE i \in 1..k /\ j \in 1..k
      <4>1. reaped[i] = reaped[j]
        BY <2>5, <2>6, <3>2
      <4> QED BY <3>2, <4>1
    <3>3. CASE i = k + 1 \/ j = k + 1
      BY <2>4, <2>5, <2>6, <3>1, <3>3
    <3> QED BY <3>1, <3>2, <3>3
  <2>7. ReportedOnce'
    <3>1. ASSUME NEW i \in 1..Len(reported')
          PROVE  phase'[reported'[i]] \notin {"none", "immediate", "posted"}
      <4>1. reported'[i] = reported[i] /\ i \in 1..Len(reported) /\ reported[i] \in Ops
        BY <2>1
      <4>2. phase[reported[i]] \notin {"none", "immediate", "posted"}
        BY <4>1
      <4> QED BY <2>1, <2>2, <4>1, <4>2
    <3> QED BY <2>1, <3>1
  <2> QED
    BY <2>6, <2>7
<1>12. ASSUME Rearm PROVE Goal
  BY <1>12 DEF Rearm, native, opvars, faults
<1>13. ASSUME Shutdown PROVE Goal
  <2>1. UNCHANGED <<reported, reaped>>
    BY <1>13 DEF Shutdown
  <2>2. \A p \in Ops : phase[p] \notin {"none", "immediate", "posted"} =>
                         phase'[p] \notin {"none", "immediate", "posted"}
    BY <1>13 DEF Shutdown
  <2>3. \A i \in 1..Len(reported) : reported[i] \in Ops
    OBVIOUS
  <2> QED
    BY <2>1, <2>2, <2>3
<1>14. CASE UNCHANGED vars
  BY <1>14 DEF vars, native, opvars, faults
<1> QED
  BY <1>1, <1>2, <1>3, <1>4, <1>5, <1>6, <1>7, <1>8, <1>9, <1>10, <1>11,
     <1>12, <1>13, <1>14 DEF Next, PollerStep

\* The poller calls complete() on an operation at most once.
THEOREM HandlersRunOnce == Spec => []DispatchedOnce
<1>1. OnceInv => DispatchedOnce
  BY DEF OnceInv
<1> QED
  BY InitOnce, OnceStep, <1>1, PTL DEF Spec
=============================================================================
