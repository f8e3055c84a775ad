------------------------- MODULE NdCompletionProofs -------------------------
(***************************************************************************)
(* The poller of the NetworkDirect event mode: order, single dispatch and  *)
(* no lost wake-up, for any number of operations and queue pairs, any      *)
(* batch size and any bound on failures.                                   *)
(***************************************************************************)
EXTENDS NdCompletion, SequenceTheorems, TLAPS

(* The operations of a sequence of CQEs. *)
LEMMA OpsOfType ==
  ASSUME NEW s \in Seq(Cqe)
  PROVE  /\ OpsOf(s) \in Seq(Ops)
         /\ Len(OpsOf(s)) = Len(s)
         /\ \A i \in 1..Len(s) : OpsOf(s)[i] = s[i].op
<1>1. Len(s) \in Nat /\ \A i \in 1..Len(s) : s[i] \in Cqe
  OBVIOUS
<1>2. OpsOf(s) \in [1..Len(s) -> Ops]
  BY <1>1 DEF OpsOf, Cqe
<1>3. OpsOf(s) \in Seq(Ops)
  BY <1>1, <1>2, SeqDef
<1> QED
  BY <1>1, <1>2, <1>3 DEF OpsOf

LEMMA OpsOfAppend ==
  ASSUME NEW s \in Seq(Cqe), NEW c \in Cqe
  PROVE  OpsOf(Append(s, c)) = Append(OpsOf(s), c.op)
<1>1. /\ Append(s, c) \in Seq(Cqe) /\ Len(Append(s, c)) = Len(s) + 1
      /\ \A i \in 1..Len(s) : Append(s, c)[i] = s[i]
      /\ Append(s, c)[Len(s) + 1] = c
      /\ Len(s) \in Nat /\ c.op \in Ops
  BY AppendProperties DEF Cqe
<1>2. /\ OpsOf(s) \in Seq(Ops) /\ Len(OpsOf(s)) = Len(s)
      /\ \A i \in 1..Len(s) : OpsOf(s)[i] = s[i].op
  BY OpsOfType
<1>3. /\ OpsOf(Append(s, c)) \in Seq(Ops)
      /\ Len(OpsOf(Append(s, c))) = Len(s) + 1
      /\ \A i \in 1..(Len(s) + 1) : OpsOf(Append(s, c))[i] = Append(s, c)[i].op
  BY <1>1, OpsOfType
<1>4. /\ Append(OpsOf(s), c.op) \in Seq(Ops)
      /\ Len(Append(OpsOf(s), c.op)) = Len(s) + 1
      /\ \A i \in 1..Len(s) : Append(OpsOf(s), c.op)[i] = s[i].op
      /\ Append(OpsOf(s), c.op)[Len(s) + 1] = c.op
  BY <1>1, <1>2, AppendProperties
<1>5. \A i \in 1..(Len(s) + 1) : OpsOf(Append(s, c))[i] = Append(OpsOf(s), c.op)[i]
  BY <1>1, <1>3, <1>4
<1> QED
  BY <1>3, <1>4, <1>5, SeqEqual

LEMMA OpsOfSplit ==
  ASSUME NEW s \in Seq(Cqe), NEW n \in 0..Len(s)
  PROVE  /\ SubSeq(s, 1, n) \in Seq(Cqe) /\ SubSeq(s, n + 1, Len(s)) \in Seq(Cqe)
         /\ OpsOf(s) = OpsOf(SubSeq(s, 1, n)) \o OpsOf(SubSeq(s, n + 1, Len(s)))
<1> DEFINE a == SubSeq(s, 1, n)
           b == SubSeq(s, n + 1, Len(s))
<1>1. Len(s) \in Nat /\ n \in Nat /\ \A i \in 1..Len(s) : s[i] \in Cqe
  OBVIOUS
<1>2. /\ a \in Seq(Cqe) /\ Len(a) = n
      /\ \A i \in 1..n : a[i] = s[i]
  BY <1>1, SubSeqProperties
<1>3. /\ b \in Seq(Cqe) /\ Len(b) = Len(s) - n
      /\ \A i \in 1..(Len(s) - n) : b[i] = s[n + i]
  BY <1>1, SubSeqProperties
<1> HIDE DEF a, b
<1>4. /\ OpsOf(a) \in Seq(Ops) /\ Len(OpsOf(a)) = n
      /\ \A i \in 1..n : OpsOf(a)[i] = s[i].op
  BY <1>2, OpsOfType
<1>5. /\ OpsOf(b) \in Seq(Ops) /\ Len(OpsOf(b)) = Len(s) - n
      /\ \A i \in 1..(Len(s) - n) : OpsOf(b)[i] = s[n + i].op
  BY <1>3, OpsOfType
<1>6. /\ OpsOf(a) \o OpsOf(b) \in Seq(Ops)
      /\ Len(OpsOf(a) \o OpsOf(b)) = Len(s)
      /\ \A i \in 1..Len(s) : (OpsOf(a) \o OpsOf(b))[i] = s[i].op
  <2>1. /\ OpsOf(a) \o OpsOf(b) \in Seq(Ops)
        /\ Len(OpsOf(a) \o OpsOf(b)) = n + (Len(s) - n)
        /\ \A i \in 1..(n + (Len(s) - n)) : (OpsOf(a) \o OpsOf(b))[i] =
              IF i <= n THEN OpsOf(a)[i] ELSE OpsOf(b)[i - n]
    BY <1>4, <1>5, ConcatProperties
  <2>2. n + (Len(s) - n) = Len(s)
    BY <1>1
  <2>3. ASSUME NEW i \in 1..Len(s) PROVE (OpsOf(a) \o OpsOf(b))[i] = s[i].op
    <3>1. CASE i <= n
      BY <1>4, <2>1, <2>2, <3>1
    <3>2. CASE ~(i <= n)
      <4>1. i - n \in 1..(Len(s) - n) /\ n + (i - n) = i
        BY <1>1, <3>2
      <4> QED BY <1>5, <2>1, <2>2, <3>2, <4>1
    <3> QED BY <3>1, <3>2
  <2> QED BY <2>1, <2>2, <2>3
<1>7. /\ OpsOf(s) \in Seq(Ops) /\ Len(OpsOf(s)) = Len(s)
      /\ \A i \in 1..Len(s) : OpsOf(s)[i] = s[i].op
  BY OpsOfType
<1>8. OpsOf(s) = OpsOf(a) \o OpsOf(b)
  BY <1>6, <1>7, SeqEqual
<1> QED
  BY <1>2, <1>3, <1>8 DEF a, b

LEMMA OpsAssociative ==
  ASSUME NEW s \in Seq(Ops), NEW t \in Seq(Ops), NEW u \in Seq(Ops)
  PROVE  (s \o t) \o u = s \o (t \o u)
BY ConcatAssociative

LEMMA OpsAppendRight ==
  ASSUME NEW s \in Seq(Ops), NEW t \in Seq(Ops), NEW o \in Ops
  PROVE  Append(s \o t, o) = s \o Append(t, o)
<1>1. <<o>> \in Seq(Ops) /\ s \o t \in Seq(Ops)
  BY ConcatProperties
<1>2. Append(s \o t, o) = (s \o t) \o <<o>> /\ Append(t, o) = t \o <<o>>
  BY <1>1, AppendIsConcat
<1>3. (s \o t) \o <<o>> = s \o (t \o <<o>>)
  BY <1>1, OpsAssociative
<1> QED
  BY <1>2, <1>3

LEMMA OpsMoveHead ==
  ASSUME NEW s \in Seq(Ops), NEW t \in Seq(Ops), NEW o \in Ops
  PROVE  s \o (<<o>> \o t) = Append(s, o) \o t
<1>1. <<o>> \in Seq(Ops)
  OBVIOUS
<1>2. Append(s, o) = s \o <<o>>
  BY AppendIsConcat
<1>3. (s \o <<o>>) \o t = s \o (<<o>> \o t)
  BY <1>1, OpsAssociative
<1> QED
  BY <1>2, <1>3
-----------------------------------------------------------------------------
(* Types. *)

\* Where the poller is in its turn: one that polls has a batch left, a Notify
\* is outstanding exactly while it waits, and a handler that threw was the
\* last thing it did.
TurnState ==
  /\ ppc = "poll" => batches < MaxBatches
  /\ ppc = "wait" => batches = 0
  /\ pending <=> ppc = "wait"
  /\ ~started => ppc \in {"off", "down"}
  /\ ppc \notin {"thrown", "down"} => throws = 0

Types == TypeOK /\ TurnState

LEMMA InitTypes == Init => Types
<1> SUFFICES ASSUME Init PROVE Types
  OBVIOUS
<1>1. /\ ops \in Seq(Ops) /\ cq \in Seq(Cqe)
      /\ reported \in Seq(Ops) /\ reaped \in Seq(Ops)
  BY EmptySeq DEF Init
<1>2. /\ phase \in [Ops -> {"none", "immediate", "posted", "cqe", "done",
                           "destroyed", "leaked"}]
      /\ class \in [Ops -> Class] /\ ec \in [Ops -> Code \cup {"nd_status"}]
      /\ bytes \in [Ops -> 0..Size]
  BY SizeAssumption DEF Init, Class, Code
<1>3. /\ batches \in 0..MaxBatches /\ throws \in 0..MaxThrow /\ throws = 0
      /\ nfails \in 0..MaxNotifyFail
  BY BatchAssumption, FaultAssumption DEF Init
<1>4. /\ bound \subseteq QPs /\ started \in BOOLEAN /\ ppc = "off"
      /\ pending = FALSE
  BY DEF Init
<1> QED
  BY <1>1, <1>2, <1>3, <1>4 DEF Types, TypeOK, TurnState

\* What one GetResults takes.
LEMMA TakenProperties ==
  ASSUME cq \in Seq(Cqe)
  PROVE  Taken \in 0..Len(cq)
<1>1. Len(cq) \in Nat
  OBVIOUS
<1> QED
  BY <1>1, BatchAssumption DEF Taken

(* Every step keeps the types. *)
LEMMA TypeStep == Types /\ [Next]_vars => Types'
<1> SUFFICES ASSUME Types, [Next]_vars PROVE Types'
  OBVIOUS
<1> USE SizeAssumption, BatchAssumption, FaultAssumption
        DEF Types, TypeOK, TurnState
<1>1. ASSUME NEW q \in QPs, Bind(q) PROVE Types'
  <2>1. /\ ppc # "down" /\ bound' = bound \cup {q} /\ started' = TRUE
        /\ ppc' = IF started THEN ppc ELSE "notify"
        /\ UNCHANGED <<batches, ops, cq, pending, phase, class, ec, bytes,
                       reported, reaped, throws, nfails>>
    BY <1>1 DEF Bind, opvars
  <2>2. /\ ppc' = ppc \/ (ppc = "off" /\ ppc' = "notify")
    BY <2>1
  <2> QED
    BY <2>1, <2>2
<1>2. ASSUME NEW o \in Ops, Submit(o) PROVE Types'
  <2>1. \A c \in Class, x \in PostOutcome :
          PostCode(x) \in Code /\ PostBytes(c, x, Size) \in 0..Size
    BY DEF PostOutcome, PostCode, Code, PostBytes
  <2>2. /\ class' \in [Ops -> Class] /\ ec' \in [Ops -> Code \cup {"nd_status"}]
        /\ bytes' \in [Ops -> 0..Size]
        /\ phase' \in [Ops -> {"none", "immediate", "posted", "cqe", "done",
                               "destroyed", "leaked"}]
    BY <1>2, <2>1 DEF Submit
  <2> QED
    BY <1>2, <2>2 DEF Submit
<1>3. ASSUME NEW o \in Ops, CompleteImmediate(o) PROVE Types'
  <2>1. ReportedBytes(class[o], ec[o], bytes[o]) \in 0..Size
    BY DEF ReportedBytes
  <2>2. /\ bytes' \in [Ops -> 0..Size]
        /\ phase' \in [Ops -> {"none", "immediate", "posted", "cqe", "done",
                               "destroyed", "leaked"}]
    BY <1>3, <2>1 DEF CompleteImmediate, RunHandler
  <2> QED
    BY <1>3, <2>2 DEF CompleteImmediate
<1>4. ASSUME NEW o \in Ops, NicComplete(o) PROVE Types'
  <2>1. cq' \in Seq(Cqe) /\ reported' \in Seq(Ops)
    BY <1>4, AppendProperties DEF NicComplete, Cqe
  <2>2. /\ pending' = FALSE /\ ppc' = IF pending THEN "poll" ELSE ppc
        /\ UNCHANGED <<bound, started, batches, ops, class, ec, bytes, reaped,
                       throws, nfails>>
    BY <1>4 DEF NicComplete
  <2>3. phase' \in [Ops -> {"none", "immediate", "posted", "cqe", "done",
                            "destroyed", "leaked"}]
    BY <1>4 DEF NicComplete
  <2>4. TurnState'
    <3>1. CASE pending
      <4>1. ppc' = "poll" /\ ppc = "wait" /\ batches = 0
        BY <2>2, <3>1
      <4> QED BY <2>2, <4>1
    <3>2. CASE ~pending
      BY <2>2, <3>2
    <3> QED BY <3>1, <3>2
  <2>5. ppc' \in {"off", "notify", "wait", "poll", "dispatch", "thrown", "down"}
    BY <2>2
  <2> QED
    BY <2>1, <2>2, <2>3, <2>4, <2>5
<1>5. ASSUME ArmPoller PROVE Types'
  <2>1. /\ ppc = "notify" /\ batches' = 0
        /\ UNCHANGED <<bound, started, ops, cq, phase, class, ec, bytes, reported,
                       reaped, throws>>
    BY <1>5 DEF ArmPoller, opvars
  <2>2. \/ ppc' = "poll" /\ pending' = FALSE
        \/ ppc' = "wait" /\ pending' = TRUE
    BY <1>5 DEF ArmPoller, AfterNotifyFail
  <2>3. nfails' \in 0..MaxNotifyFail
    BY <1>5 DEF ArmPoller
  <2>4. TurnState' /\ batches' \in 0..MaxBatches
    BY <2>1, <2>2
  <2> QED
    BY <2>1, <2>2, <2>3, <2>4
<1>6. ASSUME PollBatch PROVE Types'
  <2> DEFINE n == Taken
             hit == {cq[i].op : i \in 1..n}
             wc(o) == cq[CHOOSE i \in 1..n : cq[i].op = o]
  <2>1. n \in 0..Len(cq) /\ Len(cq) \in Nat
    BY TakenProperties
  <2>2. SubSeq(cq, 1, n) \in Seq(Cqe) /\ SubSeq(cq, n + 1, Len(cq)) \in Seq(Cqe)
    BY <2>1, OpsOfSplit
  <2>3. ops' \in Seq(Ops) /\ cq' \in Seq(Cqe)
    <3>1. OpsOf(SubSeq(cq, 1, n)) \in Seq(Ops)
      BY <2>2, OpsOfType
    <3> QED BY <1>6, <2>2, <3>1, ConcatProperties DEF PollBatch
  <2>4. ec' \in [Ops -> Code \cup {"nd_status"}]
    <3>1. ec' = [o \in Ops |-> IF o \in hit THEN StatusCode(wc(o).status) ELSE ec[o]]
      BY <1>6 DEF PollBatch
    <3> HIDE DEF hit, wc
    <3>2. \A o \in Ops : StatusCode(wc(o).status) \in Code \cup {"nd_status"}
      BY DEF StatusCode, Code
    <3> QED BY <3>1, <3>2
  <2>5. ASSUME NEW o \in Ops, o \in hit PROVE wc(o).len \in 0..Size
    <3>1. PICK i \in 1..n : cq[i].op = o
      BY <2>5
    <3>2. (CHOOSE j \in 1..n : cq[j].op = o) \in 1..n
      BY <3>1
    <3>3. wc(o) \in Cqe
      BY <2>1, <3>2
    <3> QED BY <3>3 DEF Cqe
  <2>6. bytes' \in [Ops -> 0..Size]
    <3>1. bytes' = [o \in Ops |-> IF o \in hit
                     THEN WcBytes(class[o], bytes[o], wc(o).status, wc(o).len)
                     ELSE bytes[o]]
      BY <1>6 DEF PollBatch
    <3> HIDE DEF hit, wc
    <3>2. ASSUME NEW o \in Ops, o \in hit
          PROVE  WcBytes(class[o], bytes[o], wc(o).status, wc(o).len) \in 0..Size
      BY <2>5, <3>2 DEF WcBytes
    <3> QED BY <3>1, <3>2
  <2>7. /\ batches' = batches + 1 /\ ppc = "poll"
        /\ ppc' = IF MoreBatches(n) THEN "poll" ELSE "dispatch"
        /\ UNCHANGED <<bound, started, pending, phase, class, reported, reaped,
                       throws, nfails>>
    BY <1>6 DEF PollBatch
  <2>8. batches' \in 0..MaxBatches /\ (ppc' = "poll" => batches' < MaxBatches)
    BY <2>7 DEF MoreBatches
  <2>9. ppc' \in {"poll", "dispatch"}
    BY <2>7
  <2>10. TurnState'
    BY <2>7, <2>8, <2>9
  <2> QED
    BY <2>3, <2>4, <2>6, <2>7, <2>8, <2>9, <2>10
<1>7. ASSUME Dispatch PROVE Types'
  <2>1. Head(ops) \in Ops /\ Tail(ops) \in Seq(Ops)
    BY <1>7, HeadTailProperties DEF Dispatch
  <2>2. reaped' \in Seq(Ops)
    BY <1>7, <2>1, AppendProperties DEF Dispatch
  <2>3. ReportedBytes(class[Head(ops)], ec[Head(ops)], bytes[Head(ops)]) \in 0..Size
    BY <2>1 DEF ReportedBytes
  <2>4. /\ ops' \in Seq(Ops) /\ bytes' \in [Ops -> 0..Size]
        /\ phase' \in [Ops -> {"none", "immediate", "posted", "cqe", "done",
                               "destroyed", "leaked"}]
    BY <1>7, <2>1, <2>3 DEF Dispatch, RunHandler
  <2>5. UNCHANGED <<bound, started, ppc, batches, cq, pending, class, ec, reported,
                    throws, nfails>>
    BY <1>7 DEF Dispatch
  <2> QED
    BY <2>2, <2>4, <2>5
<1>8. ASSUME DispatchThrows PROVE Types'
  <2>1. Head(ops) \in Ops
    BY <1>8, HeadTailProperties DEF DispatchThrows
  <2>2. reaped' \in Seq(Ops) /\ ops' \in Seq(Ops)
    BY <1>8, <2>1, AppendProperties, EmptySeq DEF DispatchThrows
  <2>3. ReportedBytes(class[Head(ops)], ec[Head(ops)], bytes[Head(ops)]) \in 0..Size
    BY <2>1 DEF ReportedBytes
  <2>4. bytes' \in [Ops -> 0..Size]
    BY <1>8, <2>1, <2>3 DEF DispatchThrows
  <2>5. phase' \in [Ops -> {"none", "immediate", "posted", "cqe", "done",
                            "destroyed", "leaked"}]
    BY <1>8 DEF DispatchThrows
  <2>6. throws' \in 0..MaxThrow
    BY <1>8 DEF DispatchThrows
  <2>7. /\ ppc = "dispatch" /\ ppc' = "thrown"
        /\ UNCHANGED <<bound, started, batches, cq, pending, class, ec, reported, nfails>>
    BY <1>8 DEF DispatchThrows
  <2> QED
    BY <2>2, <2>4, <2>5, <2>6, <2>7
<1>9. ASSUME Rearm PROVE Types'
  BY <1>9 DEF Rearm, opvars
<1>10. ASSUME Shutdown PROVE Types'
  <2>1. cq' \in Seq(Cqe)
    BY <1>10, EmptySeq DEF Shutdown
  <2>2. phase' \in [Ops -> {"none", "immediate", "posted", "cqe", "done",
                            "destroyed", "leaked"}]
    BY <1>10 DEF Shutdown
  <2>3. /\ ppc' = "down" /\ pending' = FALSE
        /\ UNCHANGED <<bound, started, batches, ops, class, ec, bytes, reported,
                       reaped, throws, nfails>>
    BY <1>10 DEF Shutdown
  <2> QED
    BY <2>1, <2>2, <2>3
<1>11. CASE UNCHANGED vars
  BY <1>11 DEF vars, opvars
<1> HIDE DEF Types
<1> QED
  BY <1>1, <1>2, <1>3, <1>4, <1>5, <1>6, <1>7, <1>8, <1>9, <1>10, <1>11
     DEF Next, PollerStep

\* Every variable of the event mode keeps its type, and a turn of the poller
\* never exceeds its batches.
THEOREM NdCompletionTypeCorrect == Spec => []TypeOK
<1>1. Types => TypeOK
  BY DEF Types
<1> QED
  BY InitTypes, TypeStep, <1>1, PTL DEF Spec
-----------------------------------------------------------------------------
(* Order. *)

Ordered == Types /\ ReapedInOrder

LEMMA InitOrdered == Init => Ordered
<1> SUFFICES ASSUME Init PROVE ReapedInOrder
  BY InitTypes DEF Ordered
<1>1. cq \in Seq(Cqe) /\ Len(cq) = 0
  BY EmptySeq DEF Init
<1>2. OpsOf(cq) \in Seq(Ops) /\ Len(OpsOf(cq)) = 0
  BY <1>1, OpsOfType
<1>3. OpsOf(cq) = <<>>
  BY <1>2, EmptySeq
<1> QED
  BY <1>3 DEF Init, ReapedInOrder

(* Every step keeps it: an operation moves from one queue to the next. *)
LEMMA OrderedStep == Ordered /\ [Next]_vars => Ordered'
<1> SUFFICES ASSUME Types, ReapedInOrder, [Next]_vars PROVE ReapedInOrder'
  BY TypeStep DEF Ordered
<1>0. /\ cq \in Seq(Cqe) /\ ops \in Seq(Ops) /\ reported \in Seq(Ops)
      /\ reaped \in Seq(Ops) /\ throws \in Nat
  BY FaultAssumption DEF Types, TypeOK
<1>1. ASSUME NEW q \in QPs, Bind(q) PROVE ReapedInOrder'
  BY <1>1 DEF Bind, ReapedInOrder
<1>2. ASSUME NEW o \in Ops, Submit(o) PROVE ReapedInOrder'
  BY <1>2 DEF Submit, ReapedInOrder
<1>3. ASSUME NEW o \in Ops, CompleteImmediate(o) PROVE ReapedInOrder'
  BY <1>3 DEF CompleteImmediate, ReapedInOrder
<1>4. ASSUME NEW o \in Ops, NicComplete(o) PROVE ReapedInOrder'
  <2>1. SUFFICES ASSUME throws = 0, ppc # "down"
                 PROVE  reported' = reaped' \o ops' \o OpsOf(cq')
    <3>1. UNCHANGED throws /\ (ppc = "down" => ppc' = "down")
      BY <1>4 DEF NicComplete, Types, TurnState
    <3> QED BY <3>1 DEF ReapedInOrder
  <2>2. PICK c \in Cqe : c.op = o /\ cq' = Append(cq, c)
    BY <1>4 DEF NicComplete, Cqe
  <2>3. OpsOf(cq') = Append(OpsOf(cq), o)
    BY <1>0, <2>2, OpsOfAppend
  <2>4. OpsOf(cq) \in Seq(Ops) /\ reaped \o ops \in Seq(Ops)
    BY <1>0, OpsOfType, ConcatProperties
  <2>5. reported' = Append(reported, o) /\ UNCHANGED <<reaped, ops>>
    BY <1>4 DEF NicComplete
  <2>6. reported = (reaped \o ops) \o OpsOf(cq)
    BY <2>1 DEF ReapedInOrder
  <2>7. Append((reaped \o ops) \o OpsOf(cq), o) = (reaped \o ops) \o Append(OpsOf(cq), o)
    BY <2>4, OpsAppendRight
  <2> QED
    BY <2>3, <2>5, <2>6, <2>7
<1>5. ASSUME ArmPoller PROVE ReapedInOrder'
  <2>1. /\ ppc = "notify" /\ UNCHANGED <<ops, cq, reported, reaped, throws>>
    BY <1>5 DEF ArmPoller
  <2> QED
    BY <2>1 DEF ReapedInOrder
<1>6. ASSUME PollBatch PROVE ReapedInOrder'
  <2> DEFINE a == OpsOf(SubSeq(cq, 1, Taken))
             b == OpsOf(SubSeq(cq, Taken + 1, Len(cq)))
  <2>1. /\ ppc = "poll" /\ UNCHANGED <<reported, reaped, throws>>
        /\ ops' = ops \o a /\ OpsOf(cq') = b
    BY <1>6 DEF PollBatch
  <2>2. a \in Seq(Ops) /\ b \in Seq(Ops) /\ OpsOf(cq) = a \o b
    BY <1>0, TakenProperties, OpsOfSplit, OpsOfType
  <2> HIDE DEF a, b
  <2>3. (reaped \o ops) \o (a \o b) = ((reaped \o ops) \o a) \o b
    <3>1. reaped \o ops \in Seq(Ops)
      BY <1>0, ConcatProperties
    <3> QED BY <2>2, <3>1, OpsAssociative
  <2>4. (reaped \o ops) \o a = reaped \o (ops \o a)
    BY <1>0, <2>2, OpsAssociative
  <2> QED
    BY <2>1, <2>2, <2>3, <2>4 DEF ReapedInOrder
<1>7. ASSUME Dispatch PROVE ReapedInOrder'
  <2> DEFINE h == Head(ops)
             t == Tail(ops)
  <2>1. /\ ops # <<>> /\ UNCHANGED <<reported, cq, throws, ppc>>
        /\ reaped' = Append(reaped, h) /\ ops' = t
    BY <1>7 DEF Dispatch
  <2>2. h \in Ops /\ t \in Seq(Ops) /\ ops = <<h>> \o t
    BY <1>0, <2>1, HeadTailProperties
  <2> HIDE DEF h, t
  <2>3. reaped \o (<<h>> \o t) = Append(reaped, h) \o t
    BY <1>0, <2>2, OpsMoveHead
  <2> QED
    BY <2>1, <2>2, <2>3 DEF ReapedInOrder
<1>8. ASSUME DispatchThrows PROVE ReapedInOrder'
  <2>1. throws' = throws + 1
    BY <1>8 DEF DispatchThrows
  <2> QED
    BY <1>0, <2>1 DEF ReapedInOrder
<1>9. ASSUME Rearm PROVE ReapedInOrder'
  BY <1>9 DEF Rearm, ReapedInOrder
<1>10. ASSUME Shutdown PROVE ReapedInOrder'
  BY <1>10 DEF Shutdown, ReapedInOrder
<1>11. CASE UNCHANGED vars
  BY <1>11 DEF vars, opvars, ReapedInOrder
<1> QED
  BY <1>1, <1>2, <1>3, <1>4, <1>5, <1>6, <1>7, <1>8, <1>9, <1>10, <1>11
     DEF Next, PollerStep

\* Results are neither lost, duplicated nor reordered between the CQ, the local
\* queue of poll_and_dispatch and the handlers, whatever batch limits, re-arming
\* and failures of Notify do, as long as no handler throws.
THEOREM ResultsInOrder == Spec => []ReapedInOrder
<1>1. Ordered => ReapedInOrder
  BY DEF Ordered
<1> QED
  BY InitOrdered, OrderedStep, <1>1, PTL DEF Spec
-----------------------------------------------------------------------------
(* No lost wake-up. *)

\* A poller that waits has a Notify outstanding and nothing on the CQ, given the
\* promise of the provider that Notify reports what is there already.
WaitsOnEmptyCq == Latched /\ ppc = "wait" => pending /\ cq = <<>>

WakeInv == Types /\ WaitsOnEmptyCq

LEMMA InitWake == Init => WakeInv
<1> SUFFICES ASSUME Init PROVE WaitsOnEmptyCq
  BY InitTypes DEF WakeInv
<1> QED
  BY DEF Init, WaitsOnEmptyCq

LEMMA WakeStep == WakeInv /\ [Next]_vars => WakeInv'
<1> SUFFICES ASSUME Types, WaitsOnEmptyCq, [Next]_vars PROVE WaitsOnEmptyCq'
  BY TypeStep DEF WakeInv
<1> USE DEF WaitsOnEmptyCq
<1>1. ASSUME NEW q \in QPs, Bind(q) PROVE WaitsOnEmptyCq'
  BY <1>1 DEF Bind
<1>2. ASSUME NEW o \in Ops, Submit(o) PROVE WaitsOnEmptyCq'
  BY <1>2 DEF Submit
<1>3. ASSUME NEW o \in Ops, CompleteImmediate(o) PROVE WaitsOnEmptyCq'
  BY <1>3 DEF CompleteImmediate
<1>4. ASSUME NEW o \in Ops, NicComplete(o) PROVE WaitsOnEmptyCq'
  <2>1. ppc' # "wait"
    BY <1>4 DEF NicComplete, Types, TurnState
  <2> QED
    BY <2>1
<1>5. ASSUME ArmPoller PROVE WaitsOnEmptyCq'
  <2>1. UNCHANGED cq
    BY <1>5 DEF ArmPoller
  <2>2. ppc' = "poll" \/ (ppc' = "wait" /\ pending' = TRUE /\ ~(Latched /\ cq # <<>>))
    BY <1>5 DEF ArmPoller, AfterNotifyFail
  <2> QED
    BY <2>1, <2>2
<1>6. ASSUME PollBatch PROVE WaitsOnEmptyCq'
  <2>1. ppc' \in {"poll", "dispatch"}
    BY <1>6 DEF PollBatch
  <2> QED
    BY <2>1
<1>7. ASSUME Dispatch PROVE WaitsOnEmptyCq'
  BY <1>7 DEF Dispatch
<1>8. ASSUME DispatchThrows PROVE WaitsOnEmptyCq'
  <2>1. ppc' = "thrown"
    BY <1>8 DEF DispatchThrows
  <2> QED
    BY <2>1
<1>9. ASSUME Rearm PROVE WaitsOnEmptyCq'
  BY <1>9 DEF Rearm
<1>10. ASSUME Shutdown PROVE WaitsOnEmptyCq'
  <2>1. ppc' = "down"
    BY <1>10 DEF Shutdown
  <2> QED
    BY <2>1
<1>11. CASE UNCHANGED vars
  BY <1>11 DEF vars
<1> HIDE DEF WaitsOnEmptyCq
<1> QED
  BY <1>1, <1>2, <1>3, <1>4, <1>5, <1>6, <1>7, <1>8, <1>9, <1>10, <1>11
     DEF Next, PollerStep

\* No lost wake-up: when the poller of the shared CQ waits, its Notify is
\* outstanding and the CQ is empty, at whatever moment the adapter completed
\* the operations, provided Notify reports completions that are already there.
THEOREM NotifyMissesNothing == Spec => []WaitsOnEmptyCq
<1>1. WakeInv => WaitsOnEmptyCq
  BY DEF WakeInv
<1> QED
  BY InitWake, WakeStep, <1>1, PTL DEF Spec
-----------------------------------------------------------------------------
(* Each handler once. *)

\* No operation is dispatched twice: complete() frees it.
DispatchedOnce == \A i, j \in 1..Len(reaped) : reaped[i] = reaped[j] => i = j

\* An operation is reported once, from the moment it was posted on.
ReportedOnce ==
  /\ \A i, j \in 1..Len(reported) : reported[i] = reported[j] => i = j
  /\ \A i \in 1..Len(reported) :
       phase[reported[i]] \notin {"none", "immediate", "posted"}

OnceInv == Ordered /\ DispatchedOnce /\ ReportedOnce

LEMMA InitOnce == Init => OnceInv
<1> SUFFICES ASSUME Init PROVE DispatchedOnce /\ ReportedOnce
  BY InitOrdered DEF OnceInv
<1>1. Len(reaped) = 0 /\ Len(reported) = 0
  BY EmptySeq DEF Init
<1> QED
  BY <1>1 DEF DispatchedOnce, ReportedOnce

\* An operation that was reported stays so when its phase moves on.
LEMMA ReportedKept ==
  ASSUME Types, ReportedOnce, UNCHANGED reported,
         \A p \in Ops : phase[p] \notin {"none", "immediate", "posted"} =>
                         phase'[p] \notin {"none", "immediate", "posted"}
  PROVE  ReportedOnce'
<1>1. \A i \in 1..Len(reported) : reported[i] \in Ops
  BY DEF Types, TypeOK
<1> QED
  BY <1>1 DEF ReportedOnce

\* The operation at the head of the queue was not dispatched before: what is
\* dispatched next was reported later.
LEMMA HeadIsNew ==
  ASSUME Ordered, DispatchedOnce, ReportedOnce, ppc = "dispatch", ops # <<>>,
         reaped' = Append(reaped, Head(ops))
  PROVE  DispatchedOnce'
<1> DEFINE h == Head(ops)
           k == Len(reaped)
           c == Len(ops)
           d == Len(OpsOf(cq))
<1>0. /\ cq \in Seq(Cqe) /\ ops \in Seq(Ops) /\ reported \in Seq(Ops)
      /\ reaped \in Seq(Ops)
  BY DEF Ordered, Types, TypeOK
<1>1. /\ h \in Ops /\ h = ops[1] /\ OpsOf(cq) \in Seq(Ops)
      /\ k \in Nat /\ c \in Nat \ {0} /\ d \in Nat
  BY <1>0, HeadTailProperties, EmptySeq, OpsOfType
<1>2. reported = (reaped \o ops) \o OpsOf(cq)
  BY DEF Ordered, Types, TurnState, ReapedInOrder
<1>3. /\ reaped \o ops \in Seq(Ops) /\ Len(reaped \o ops) = k + c
      /\ \A i \in 1..(k + c) : (reaped \o ops)[i] =
           IF i <= k THEN reaped[i] ELSE ops[i - k]
  BY <1>0, ConcatProperties
<1>4. /\ Len(reported) = k + c + d
      /\ \A i \in 1..(k + c) : reported[i] = (reaped \o ops)[i]
  <2> DEFINE m == reaped \o ops
  <2>1. /\ Len(m \o OpsOf(cq)) = Len(m) + d
        /\ \A i \in 1..(Len(m) + d) : (m \o OpsOf(cq))[i] =
             IF i <= Len(m) THEN m[i] ELSE OpsOf(cq)[i - Len(m)]
    BY <1>1, <1>3, ConcatProperties
  <2>2. \A i \in 1..(k + c) : i \in 1..(k + c + d) /\ i <= k + c
    BY <1>1
  <2> HIDE DEF d, k, c
  <2> QED
    BY <1>2, <1>3, <2>1, <2>2
<1>5. /\ Len(reaped') = k + 1 /\ reaped'[k + 1] = h
      /\ \A i \in 1..k : reaped'[i] = reaped[i]
  BY <1>0, <1>1, AppendProperties
<1> HIDE DEF h, k, c, d
<1>6. /\ k + 1 \in 1..(k + c) /\ (k + 1) - k = 1 /\ ~(k + 1 <= k)
      /\ \A i \in 1..k : i \in 1..(k + c) /\ i <= k
      /\ \A i \in 1..(k + c) : i \in 1..(k + c + d)
  BY <1>1
<1>7. reported[k + 1] = h
  <2>1. reported[k + 1] = (reaped \o ops)[k + 1]
    BY <1>4, <1>6
  <2>2. (reaped \o ops)[k + 1] = ops[1]
    BY <1>3, <1>6
  <2> QED
    BY <1>1, <2>1, <2>2
<1>8. ASSUME NEW i \in 1..k PROVE reaped[i] # h
  <2>1. reported[i] = (reaped \o ops)[i]
    BY <1>4, <1>6
  <2>2. (reaped \o ops)[i] = reaped[i]
    BY <1>3, <1>6
  <2>3. i \in 1..Len(reported) /\ k + 1 \in 1..Len(reported)
    BY <1>4, <1>6
  <2>4. i # k + 1
    BY <1>1
  <2>5. reported[i] # reported[k + 1]
    BY <2>3, <2>4 DEF ReportedOnce
  <2> QED
    BY <1>7, <2>1, <2>2, <2>5
<1>9. ASSUME NEW i \in 1..Len(reaped'), NEW j \in 1..Len(reaped'),
             reaped'[i] = reaped'[j]
      PROVE  i = j
  <2>1. (i \in 1..k \/ i = k + 1) /\ (j \in 1..k \/ j = k + 1)
    BY <1>1, <1>5
  <2>2. CASE i \in 1..k /\ j \in 1..k
    <3>1. reaped[i] = reaped[j]
      BY <1>5, <1>9, <2>2
    <3> QED BY <2>2, <3>1 DEF DispatchedOnce, k
  <2>3. CASE i = k + 1 \/ j = k + 1
    BY <1>5, <1>8, <1>9, <2>1, <2>3
  <2> QED
    BY <2>1, <2>2, <2>3
<1> QED
  BY <1>9 DEF DispatchedOnce

(* Every step keeps it. *)
LEMMA OnceStep == OnceInv /\ [Next]_vars => OnceInv'
<1> SUFFICES ASSUME Ordered, DispatchedOnce, ReportedOnce, [Next]_vars
             PROVE  DispatchedOnce' /\ ReportedOnce'
  BY OrderedStep DEF OnceInv
<1>0. Types /\ TypeOK
  BY DEF Ordered, Types
<1> DEFINE Goal == DispatchedOnce' /\ ReportedOnce'
           Late == {"none", "immediate", "posted"}
<1>a. ASSUME UNCHANGED <<reported, reaped>>,
             \A p \in Ops : phase[p] \notin Late => phase'[p] \notin Late
      PROVE  Goal
  <2>1. ReportedOnce'
    BY <1>0, <1>a, ReportedKept
  <2>2. DispatchedOnce'
    BY <1>a DEF DispatchedOnce
  <2> QED
    BY <2>1, <2>2
<1>1. ASSUME NEW q \in QPs, Bind(q) PROVE Goal
  BY <1>1, <1>a DEF Bind, opvars
<1>2. ASSUME NEW o \in Ops, Submit(o) PROVE Goal
  <2>1. /\ UNCHANGED <<reported, reaped>> /\ phase[o] = "none"
        /\ \A p \in Ops : p # o => phase'[p] = phase[p]
    BY <1>0, <1>2 DEF Submit, TypeOK
  <2> QED
    BY <1>a, <2>1
<1>3. ASSUME NEW o \in Ops, CompleteImmediate(o) PROVE Goal
  <2>1. /\ UNCHANGED <<reported, reaped>> /\ phase' = [phase EXCEPT ![o] = "done"]
    BY <1>3 DEF CompleteImmediate, RunHandler
  <2>2. \A p \in Ops : phase[p] \notin Late => phase'[p] \notin Late
    BY <1>0, <2>1 DEF TypeOK
  <2> QED
    BY <1>a, <2>1, <2>2
<1>4. ASSUME NEW o \in Ops, NicComplete(o) PROVE Goal
  <2>1. /\ reported' \in Seq(Ops) /\ Len(reported') = Len(reported) + 1
        /\ \A i \in 1..Len(reported) : reported'[i] = reported[i]
        /\ reported'[Len(reported) + 1] = o
        /\ Len(reported) \in Nat /\ \A i \in 1..Len(reported) : reported[i] \in Ops
    BY <1>0, <1>4, AppendProperties DEF NicComplete, TypeOK
  <2>2. /\ phase[o] = "posted" /\ phase' = [phase EXCEPT ![o] = "cqe"]
        /\ UNCHANGED reaped
    BY <1>4 DEF NicComplete
  <2>3. \A i \in 1..Len(reported) : reported[i] # o
    BY <2>2 DEF ReportedOnce
  <2>4. \A i \in 1..Len(reported') : i = Len(reported) + 1 \/ i \in 1..Len(reported)
    BY <2>1
  <2>5. ASSUME NEW i \in 1..Len(reported'), NEW j \in 1..Len(reported'),
               reported'[i] = reported'[j]
        PROVE  i = j
    <3>1. CASE i \in 1..Len(reported) /\ j \in 1..Len(reported)
      <4>1. reported[i] = reported[j]
        BY <2>1, <2>5, <3>1
      <4> QED BY <3>1, <4>1 DEF ReportedOnce
    <3>2. CASE i = Len(reported) + 1 \/ j = Len(reported) + 1
      BY <2>1, <2>3, <2>4, <2>5, <3>2
    <3> QED BY <2>4, <3>1, <3>2
  <2>6. ASSUME NEW i \in 1..Len(reported') PROVE phase'[reported'[i]] \notin Late
    <3>1. CASE i = Len(reported) + 1
      BY <1>0, <2>1, <2>2, <3>1 DEF TypeOK
    <3>2. CASE i \in 1..Len(reported)
      <4>1. phase'[reported'[i]] = phase[reported[i]]
        BY <1>0, <2>1, <2>2, <2>3, <3>2 DEF TypeOK
      <4> QED BY <3>2, <4>1 DEF ReportedOnce
    <3> QED BY <2>4, <3>1, <3>2
  <2>7. DispatchedOnce'
    BY <2>2 DEF DispatchedOnce
  <2> QED
    BY <2>5, <2>6, <2>7 DEF ReportedOnce
<1>5. ASSUME ArmPoller PROVE Goal
  BY <1>5, <1>a DEF ArmPoller, opvars
<1>6. ASSUME PollBatch PROVE Goal
  BY <1>6, <1>a DEF PollBatch
<1>7. ASSUME Dispatch PROVE Goal
  <2>1. /\ ppc = "dispatch" /\ ops # <<>> /\ UNCHANGED reported
        /\ reaped' = Append(reaped, Head(ops))
        /\ phase' = [phase EXCEPT ![Head(ops)] = "done"]
    BY <1>7 DEF Dispatch, RunHandler
  <2>2. DispatchedOnce'
    BY <2>1, HeadIsNew
  <2>3. \A p \in Ops : phase[p] \notin Late => phase'[p] \notin Late
    BY <1>0, <2>1 DEF TypeOK
  <2>4. ReportedOnce'
    BY <1>0, <2>1, <2>3, ReportedKept
  <2> QED
    BY <2>2, <2>4
<1>8. ASSUME DispatchThrows PROVE Goal
  <2>1. /\ ppc = "dispatch" /\ ops # <<>> /\ UNCHANGED reported
        /\ reaped' = Append(reaped, Head(ops))
    BY <1>8 DEF DispatchThrows
  <2>2. DispatchedOnce'
    BY <2>1, HeadIsNew
  <2>3. \A p \in Ops : phase[p] \notin Late => phase'[p] \notin Late
    BY <1>8 DEF DispatchThrows
  <2>4. ReportedOnce'
    BY <1>0, <2>1, <2>3, ReportedKept
  <2> QED
    BY <2>2, <2>4
<1>9. ASSUME Rearm PROVE Goal
  BY <1>9, <1>a DEF Rearm, opvars
<1>10. ASSUME Shutdown PROVE Goal
  <2>1. UNCHANGED <<reported, reaped>>
    BY <1>10 DEF Shutdown
  <2>2. \A p \in Ops : phase[p] \notin Late => phase'[p] \notin Late
    BY <1>10 DEF Shutdown
  <2> QED
    BY <1>a, <2>1, <2>2
<1>11. CASE UNCHANGED vars
  BY <1>11, <1>a DEF vars, opvars
<1> QED
  BY <1>1, <1>2, <1>3, <1>4, <1>5, <1>6, <1>7, <1>8, <1>9, <1>10, <1>11
     DEF Next, PollerStep

\* The poller calls complete() on an operation at most once, also when a handler
\* throws and the local queue destroys what is left.
THEOREM NdHandlersRunOnce == Spec => []DispatchedOnce
<1>1. OnceInv => DispatchedOnce
  BY DEF OnceInv
<1> QED
  BY InitOnce, OnceStep, <1>1, PTL DEF Spec
=============================================================================
