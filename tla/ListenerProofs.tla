---------------------------- MODULE ListenerProofs --------------------------
(***************************************************************************)
(* Proofs about the listener of both backends, for any number of           *)
(* operations, requests and connectors: every request has exactly one      *)
(* owner, and the handlers account for what became of it.                  *)
(***************************************************************************)
EXTENDS Listener, SequenceTheorems, TLAPS

(* The inductive invariant. *)

\* The nd listener has no descriptor at the reactor, and its queue holds
\* connection requests only.
BackendAgrees ==
  backend = "nd" => /\ rpc = "idle" /\ edge = FALSE
                    /\ \A i \in 1..Len(events) : events[i] \in Children

\* An operation is queued once, exactly while it waits: armed, or on nd also
\* while the initiating call has not returned.
QueueAgrees ==
  /\ \A i, j \in 1..Len(rq) : rq[i] = rq[j] => i = j
  /\ \A o \in GetOps :
       (\E i \in 1..Len(rq) : rq[i] = o)
         <=> (phase[o] = "armed" \/ (backend = "nd" /\ phase[o] = "start"))

\* A waiting operation owns no request, an operation owns one at most, and the
\* connector of the return form exists from the handler on.
HandleAgrees ==
  \A o \in GetOps :
    /\ phase[o] \in {"none", "start", "armed"} => holder[o] = {}
    /\ \A c, d \in holder[o] : c = d
    /\ phase[o] # "done" => conn[o] = None

\* The three owners of a request: the listener's queue, an operation, a
\* connector.
QueuedOnce ==
  /\ \A c \in Children :
       child[c] = "queued" <=> \E i \in 1..Len(events) : events[i] = c
  /\ \A i, j \in 1..Len(events) :
       events[i] \in Children /\ events[i] = events[j] => i = j
HeldOnce ==
  /\ \A c \in Children : child[c] = "held" <=> \E o \in GetOps : c \in holder[o]
  /\ \A o, p \in GetOps : \A c \in holder[o] : c \in holder[p] => o = p
TakenOnce ==
  /\ \A c \in Children :
       child[c] = "connector" <=> \E x \in GetOps \cup Fills : conn[x] = c
  /\ \A x, y \in GetOps \cup Fills :
       conn[x] \in Children /\ conn[x] = conn[y] => x = y

\* A request that nothing owns lost its event channel.
LeakHasCause == \A c \in Children : child[c] = "leaked" => left.chan < MaxChan

ListenerInv ==
  /\ FlagsOK /\ ValuesOK
  /\ BackendAgrees /\ QueueAgrees /\ HandleAgrees
  /\ QueuedOnce /\ HeldOnce /\ TakenOnce /\ LeakHasCause

LEMMA InitInv == Init => ListenerInv
<1> SUFFICES ASSUME Init
             PROVE  ListenerInv
  OBVIOUS
<1> USE DEF Init, ServiceInit, IbvInit
<1>1. FlagsOK
  BY DEF FlagsOK
<1>2. ValuesOK
  <2>1. left \in [move : 0..MaxMove, other : 0..MaxOther, chan : 0..MaxChan,
                  fault : 0..MaxFault]
    BY BoundAssumption
  <2>2. QED
    BY <2>1 DEF ValuesOK
<1>3. BackendAgrees /\ QueueAgrees
  BY DEF BackendAgrees, QueueAgrees
<1>4. HandleAgrees /\ HeldOnce
  BY DEF HandleAgrees, HeldOnce
<1>5. QueuedOnce /\ LeakHasCause
  BY DEF QueuedOnce, LeakHasCause
<1>6. TakenOnce
  BY OtherAssumption DEF TakenOnce
<1>7. QED
  BY <1>1, <1>2, <1>3, <1>4, <1>5, <1>6 DEF ListenerInv
-----------------------------------------------------------------------------
(* What the operations on the queues do. *)

(* Spending a bound keeps its type; the one of the channels only shrinks. *)
LEMMA SpendType ==
  ASSUME ValuesOK, NEW b \in {"move", "other", "chan", "fault"}, Spend(b)
  PROVE  /\ left' \in [move : 0..MaxMove, other : 0..MaxOther,
                       chan : 0..MaxChan, fault : 0..MaxFault]
         /\ left'.chan <= left.chan
         /\ b = "chan" => left'.chan < MaxChan
<1>1. /\ left \in [move : 0..MaxMove, other : 0..MaxOther,
                   chan : 0..MaxChan, fault : 0..MaxFault]
      /\ left[b] > 0 /\ left' = [left EXCEPT ![b] = left[b] - 1]
  BY DEF ValuesOK, Spend
<1>2. MaxMove \in Nat /\ MaxOther \in Nat /\ MaxChan \in Nat /\ MaxFault \in Nat
  BY BoundAssumption
<1>3. CASE b = "move"
  BY <1>1, <1>2, <1>3
<1>4. CASE b = "other"
  BY <1>1, <1>2, <1>4
<1>5. CASE b = "chan"
  BY <1>1, <1>2, <1>5
<1>6. CASE b = "fault"
  BY <1>1, <1>2, <1>6
<1>7. QED
  BY <1>3, <1>4, <1>5, <1>6

(* The head leaves a sequence. *)
LEMMA TailElements ==
  ASSUME NEW S, NEW s \in Seq(S), s # <<>>
  PROVE  /\ Head(s) \in S /\ Head(s) = s[1] /\ 1 \in 1..Len(s)
         /\ Tail(s) \in Seq(S)
         /\ Len(Tail(s)) = Len(s) - 1 /\ Len(s) \in Nat
         /\ \A i \in 1..Len(Tail(s)) : Tail(s)[i] = s[i + 1] /\ i + 1 \in 1..Len(s)
         /\ \A i \in 1..Len(s) : i = 1 \/ (i - 1 \in 1..Len(Tail(s))
                                           /\ s[i] = Tail(s)[i - 1])
<1>1. /\ Head(s) \in S /\ Head(s) = s[1] /\ 1 \in 1..Len(s)
      /\ Tail(s) \in Seq(S) /\ Len(Tail(s)) = Len(s) - 1 /\ Len(s) \in Nat
  OBVIOUS
<1>2. \A i \in 1..Len(Tail(s)) : Tail(s)[i] = s[i + 1] /\ i + 1 \in 1..Len(s)
  BY <1>1
<1>3. ASSUME NEW i \in 1..Len(s), i # 1
      PROVE  i - 1 \in 1..Len(Tail(s)) /\ s[i] = Tail(s)[i - 1]
  <2>1. i - 1 \in 1..Len(Tail(s)) /\ (i - 1) + 1 = i
    BY <1>1, <1>3
  <2>2. QED BY <1>2, <2>1
<1>4. QED
  BY <1>1, <1>2, <1>3

(* An element is added at the end of a sequence. *)
LEMMA AppendElements ==
  ASSUME NEW S, NEW s \in Seq(S), NEW e \in S
  PROVE  /\ Append(s, e) \in Seq(S)
         /\ Len(Append(s, e)) = Len(s) + 1 /\ Len(s) \in Nat
         /\ \A i \in 1..Len(s) : Append(s, e)[i] = s[i] /\ i \in 1..(Len(s) + 1)
         /\ Append(s, e)[Len(s) + 1] = e /\ Len(s) + 1 \in 1..(Len(s) + 1)
         /\ \A i \in 1..(Len(s) + 1) : i = Len(s) + 1 \/ i \in 1..Len(s)
OBVIOUS

(* The first operation is done waiting. *)
LEMMA QueueTail ==
  ASSUME ValuesOK, QueueAgrees, rq # <<>>, rq' = Tail(rq), UNCHANGED backend,
         phase'[Head(rq)] \in {"early", "posted"},
         \A x \in GetOps \ {Head(rq)} : phase'[x] = phase[x]
  PROVE  QueueAgrees'
<1>1. rq \in Seq(GetOps)
  BY DEF ValuesOK
<1>2. \A i, j \in 1..Len(rq') : rq'[i] = rq'[j] => i = j
  <2> SUFFICES ASSUME NEW i \in 1..Len(rq'), NEW j \in 1..Len(rq'), rq'[i] = rq'[j]
               PROVE  i = j
    OBVIOUS
  <2>1. /\ i \in Int /\ j \in Int
        /\ i + 1 \in 1..Len(rq) /\ j + 1 \in 1..Len(rq)
        /\ rq[i + 1] = rq[j + 1]
    BY <1>1, TailElements
  <2>2. i + 1 = j + 1
    BY <2>1 DEF QueueAgrees
  <2>3. QED BY <2>1, <2>2
<1>3. ASSUME NEW o \in GetOps
      PROVE  (\E i \in 1..Len(rq') : rq'[i] = o)
               <=> o # Head(rq) /\ \E i \in 1..Len(rq) : rq[i] = o
  <2>1. ASSUME NEW i \in 1..Len(rq'), rq'[i] = o
        PROVE  o # Head(rq) /\ \E k \in 1..Len(rq) : rq[k] = o
    <3>1. /\ i \in Int /\ i >= 1 /\ i + 1 \in 1..Len(rq) /\ rq[i + 1] = o
          /\ Head(rq) = rq[1] /\ 1 \in 1..Len(rq)
      BY <1>1, <2>1, TailElements
    <3>2. i + 1 # 1
      BY <3>1
    <3>3. QED BY <3>1, <3>2 DEF QueueAgrees
  <2>2. ASSUME NEW i \in 1..Len(rq), rq[i] = o, o # Head(rq)
        PROVE  \E k \in 1..Len(rq') : rq'[k] = o
    BY <1>1, <2>2, TailElements
  <2>3. QED BY <2>1, <2>2
<1>4. Head(rq) \in GetOps
  BY <1>1, TailElements
<1>5. QED
  BY <1>2, <1>3, <1>4 DEF QueueAgrees

(* One operation, anywhere in the queue, is done waiting. *)
LEMMA QueueUnqueue ==
  ASSUME ValuesOK, QueueAgrees, NEW o \in GetOps, Unqueue(o), UNCHANGED backend,
         phase'[o] \in {"early", "posted"},
         \A x \in GetOps \ {o} : phase'[x] = phase[x]
  PROVE  QueueAgrees'
<1>1. rq \in Seq(GetOps) /\ Len(rq) \in Nat
  BY DEF ValuesOK
<1>2. PICK k \in 1..Len(rq) :
        /\ rq[k] = o
        /\ rq' = [j \in 1..(Len(rq) - 1) |-> IF j < k THEN rq[j] ELSE rq[j + 1]]
  BY DEF Unqueue
<1>3. Len(rq') = Len(rq) - 1
  BY <1>1, <1>2
<1>4. \A i \in 1..Len(rq') :
        rq'[i] = rq[IF i < k THEN i ELSE i + 1]
          /\ (IF i < k THEN i ELSE i + 1) \in (1..Len(rq)) \ {k}
  BY <1>1, <1>2, <1>3
<1>5. \A i, j \in 1..Len(rq') : rq'[i] = rq'[j] => i = j
  <2> SUFFICES ASSUME NEW i \in 1..Len(rq'), NEW j \in 1..Len(rq'), rq'[i] = rq'[j]
               PROVE  i = j
    OBVIOUS
  <2>1. (IF i < k THEN i ELSE i + 1) = (IF j < k THEN j ELSE j + 1)
    BY <1>4 DEF QueueAgrees
  <2>2. QED BY <1>1, <2>1
<1>6. ASSUME NEW x \in GetOps
      PROVE  (\E i \in 1..Len(rq') : rq'[i] = x)
               <=> x # o /\ \E i \in 1..Len(rq) : rq[i] = x
  <2>1. ASSUME NEW i \in 1..Len(rq'), rq'[i] = x
        PROVE  x # o /\ \E n \in 1..Len(rq) : rq[n] = x
    BY <1>2, <1>4, <2>1 DEF QueueAgrees
  <2>2. ASSUME NEW i \in 1..Len(rq), rq[i] = x, x # o
        PROVE  \E n \in 1..Len(rq') : rq'[n] = x
    <3>1. CASE i < k
      BY <1>1, <1>2, <1>3, <2>2, <3>1
    <3>2. CASE ~(i < k)
      <4>1. i - 1 \in 1..Len(rq') /\ ~(i - 1 < k) /\ (i - 1) + 1 = i
        BY <1>1, <1>2, <1>3, <2>2, <3>2
      <4>2. QED BY <1>4, <2>2, <4>1
    <3>3. QED BY <3>1, <3>2
  <2>3. QED BY <2>1, <2>2
<1>7. QED
  BY <1>5, <1>6 DEF QueueAgrees

(* An operation starts to wait. *)
LEMMA QueueAppend ==
  ASSUME ValuesOK, QueueAgrees, NEW o \in GetOps, rq' = Append(rq, o),
         UNCHANGED backend, ~\E i \in 1..Len(rq) : rq[i] = o,
         phase'[o] = "armed" \/ (backend = "nd" /\ phase'[o] = "start"),
         \A x \in GetOps \ {o} : phase'[x] = phase[x]
  PROVE  QueueAgrees'
<1>1. rq \in Seq(GetOps)
  BY DEF ValuesOK
<1>2. \A i, j \in 1..Len(rq') : rq'[i] = rq'[j] => i = j
  BY <1>1, AppendElements DEF QueueAgrees
<1>3. ASSUME NEW x \in GetOps
      PROVE  (\E i \in 1..Len(rq') : rq'[i] = x)
               <=> x = o \/ \E i \in 1..Len(rq) : rq[i] = x
  BY <1>1, AppendElements
<1>4. QED
  BY <1>2, <1>3 DEF QueueAgrees

(* Every waiting operation is aborted. *)
LEMMA QueueAbort ==
  ASSUME ValuesOK, QueueAgrees, AbortAll, UNCHANGED backend
  PROVE  QueueAgrees'
<1>1. /\ rq' = <<>>
      /\ \A o \in GetOps : phase'[o] = IF \E i \in 1..Len(rq) : rq[i] = o
                                        THEN Ended(o) ELSE phase[o]
  BY DEF AbortAll, EndAborted, Queued
<1>2. \A o \in GetOps : Ended(o) \in {"early", "posted"}
  BY DEF Ended
<1>3. Len(rq') = 0
  BY <1>1
<1>4. QED
  BY <1>1, <1>2, <1>3 DEF QueueAgrees

(* The first request leaves the listener's queue. *)
LEMMA EventsTail ==
  ASSUME ValuesOK, QueuedOnce, events # <<>>, events' = Tail(events),
         \A c \in Children :
           child'[c] = "queued" <=> child[c] = "queued" /\ c # Head(events)
  PROVE  QueuedOnce'
<1>1. events \in Seq(Children \cup {Other})
  BY DEF ValuesOK
<1>2. ASSUME NEW i \in 1..Len(events'), NEW j \in 1..Len(events'),
             events'[i] \in Children, events'[i] = events'[j]
      PROVE  i = j
  <2>1. /\ i \in Int /\ j \in Int
        /\ i + 1 \in 1..Len(events) /\ j + 1 \in 1..Len(events)
        /\ events[i + 1] = events[j + 1] /\ events[i + 1] \in Children
    BY <1>1, <1>2, TailElements
  <2>2. i + 1 = j + 1
    BY <2>1 DEF QueuedOnce
  <2>3. QED BY <2>1, <2>2
<1>3. ASSUME NEW c \in Children
      PROVE  (\E i \in 1..Len(events') : events'[i] = c)
               <=> c # Head(events) /\ \E i \in 1..Len(events) : events[i] = c
  <2>1. ASSUME NEW i \in 1..Len(events'), events'[i] = c
        PROVE  c # Head(events) /\ \E k \in 1..Len(events) : events[k] = c
    <3>1. /\ i \in Int /\ i >= 1 /\ i + 1 \in 1..Len(events) /\ events[i + 1] = c
          /\ Head(events) = events[1] /\ 1 \in 1..Len(events)
      BY <1>1, <2>1, TailElements
    <3>2. i + 1 # 1
      BY <3>1
    <3>3. QED BY <3>1, <3>2 DEF QueuedOnce
  <2>2. ASSUME NEW i \in 1..Len(events), events[i] = c, c # Head(events)
        PROVE  \E k \in 1..Len(events') : events'[k] = c
    BY <1>1, <2>2, TailElements
  <2>3. QED BY <2>1, <2>2
<1>4. QED
  BY <1>2, <1>3 DEF QueuedOnce

(* Something arrives at the listener. *)
LEMMA EventsAppend ==
  ASSUME ValuesOK, QueuedOnce, NEW e \in Children \cup {Other},
         events' = Append(events, e),
         e \in Children => child[e] # "queued",
         \A c \in Children :
           child'[c] = "queued" <=> child[c] = "queued" \/ c = e
  PROVE  QueuedOnce'
<1>1. events \in Seq(Children \cup {Other})
  BY DEF ValuesOK
<1>2. ASSUME NEW i \in 1..Len(events'), NEW j \in 1..Len(events'),
             events'[i] \in Children, events'[i] = events'[j]
      PROVE  i = j
  BY <1>1, <1>2, AppendElements DEF QueuedOnce
<1>3. ASSUME NEW c \in Children
      PROVE  (\E i \in 1..Len(events') : events'[i] = c)
               <=> c = e \/ \E i \in 1..Len(events) : events[i] = c
  BY <1>1, AppendElements
<1>4. QED
  BY <1>2, <1>3 DEF QueuedOnce

(* The first request, taken by an operation that owned none. *)
LEMMA Take ==
  ASSUME ValuesOK, HandleAgrees, QueuedOnce, HeldOnce, TakenOnce,
         NEW o \in GetOps, events # <<>>, Head(events) \in Children,
         phase[o] \in {"none", "start", "armed"},
         events' = Tail(events), UNCHANGED conn,
         child' = [child EXCEPT ![Head(events)] = "held"],
         holder' = [holder EXCEPT ![o] = {Head(events)}]
  PROVE  QueuedOnce' /\ HeldOnce' /\ TakenOnce'
<1> DEFINE c == Head(events)
<1>1. child[c] = "queued"
  BY TailElements DEF ValuesOK, QueuedOnce
<1>2. /\ child'[c] = "held"
      /\ \A d \in Children \ {c} : child'[d] = child[d]
      /\ holder'[o] = {c} /\ holder[o] = {}
      /\ \A p \in GetOps \ {o} : holder'[p] = holder[p]
  BY DEF ValuesOK, HandleAgrees
<1> HIDE DEF c
<1>3. c \in Children
  BY DEF c
<1>4. HeldOnce'
  BY <1>1, <1>2, <1>3 DEF HeldOnce
<1>5. TakenOnce'
  BY <1>1, <1>2, <1>3 DEF TakenOnce
<1>6. QueuedOnce'
  BY <1>1, <1>2, <1>3, EventsTail DEF c
<1>7. QED
  BY <1>4, <1>5, <1>6

(* The flags stay Boolean. *)
LEMMA FlagsStep ==
  FlagsOK /\ [Next]_vars => FlagsOK'
<1> SUFFICES ASSUME FlagsOK, [Next]_vars
             PROVE  FlagsOK'
  OBVIOUS
<1>1. ASSUME Open PROVE FlagsOK'
  BY <1>1 DEF Open, OpenListener, reactor, FlagsOK
<1>2. ASSUME Move PROVE FlagsOK'
  BY <1>2 DEF Move, MoveListener, Spend, reactor, FlagsOK
<1>3. ASSUME Bind PROVE FlagsOK'
  BY <1>3 DEF Bind, BindListener, reactor, FlagsOK
<1>4. ASSUME Listen PROVE FlagsOK'
  BY <1>4 DEF Listen, ListenListener, reactor, FlagsOK
<1>5. ASSUME Cancel PROVE FlagsOK'
  BY <1>5 DEF Cancel, listener, reactor, FlagsOK
<1>6. ASSUME Destroy PROVE FlagsOK'
  BY <1>6 DEF Destroy, DestroyListener, AbortAll, EndAborted, Ended, Queued,
     FlagsOK
<1>7. ASSUME OtherEvent PROVE FlagsOK'
  BY <1>7 DEF OtherEvent, Spend, listener, FlagsOK
<1>8. ASSUME PerformIo PROVE FlagsOK'
  BY <1>8 DEF PerformIo, service, listener, FlagsOK
<1>9. ASSUME PerformIoEnd PROVE FlagsOK'
  BY <1>9 DEF PerformIoEnd, service, listener, FlagsOK
<1>10. ASSUME NEW o \in GetOps, TakeOther(o) PROVE FlagsOK'
  BY <1>10 DEF TakeOther, listener, reactor, FlagsOK
<1>11. ASSUME NEW o \in GetOps, TakeRequest(o) PROVE FlagsOK'
  BY <1>11 DEF TakeRequest, Spend, listener, reactor, FlagsOK
<1>12. ASSUME NEW c \in Children, ConnectRequest(c) PROVE FlagsOK'
  BY <1>12 DEF ConnectRequest, Arrive, listener, FlagsOK
<1>13. ASSUME NEW o \in GetOps, GetConnectionRequest(o) PROVE FlagsOK'
  BY <1>13 DEF GetConnectionRequest, Initiate, listener, reactor, FlagsOK
<1>14. ASSUME NEW o \in GetOps, StartOp(o) PROVE FlagsOK'
  BY <1>14 DEF StartOp, listener, FlagsOK
<1>15. ASSUME NEW o \in GetOps, CancelByKey(o) PROVE FlagsOK'
  BY <1>15 DEF CancelByKey, listener, reactor, FlagsOK
<1>16. ASSUME NEW o \in GetOps, GetEventError(o) PROVE FlagsOK'
  BY <1>16 DEF GetEventError, Spend, listener, reactor, FlagsOK
<1>17. ASSUME NEW o \in GetOps, Complete(o) PROVE FlagsOK'
  BY <1>17 DEF Complete, Deliver, listener, reactor, FlagsOK
<1>18. ASSUME NdOpen, UNCHANGED reactor PROVE FlagsOK'
  BY <1>18 DEF NdOpen, OpenListener, reactor, FlagsOK
<1>19. ASSUME NdMove, UNCHANGED reactor PROVE FlagsOK'
  BY <1>19 DEF NdMove, MoveListener, Spend, reactor, FlagsOK
<1>20. ASSUME NdBind, UNCHANGED reactor PROVE FlagsOK'
  BY <1>20 DEF NdBind, BindListener, reactor, FlagsOK
<1>21. ASSUME NdListen, UNCHANGED reactor PROVE FlagsOK'
  BY <1>21 DEF NdListen, ListenListener, reactor, FlagsOK
<1>22. ASSUME NdCancel, UNCHANGED reactor PROVE FlagsOK'
  BY <1>22 DEF NdCancel, listener, reactor, FlagsOK
<1>23. ASSUME NdDestroy, UNCHANGED reactor PROVE FlagsOK'
  BY <1>23 DEF NdDestroy, DestroyListener, reactor, FlagsOK
<1>24. ASSUME NdMatch, UNCHANGED reactor PROVE FlagsOK'
  BY <1>24 DEF NdMatch, NdEnd, listener, reactor, FlagsOK
<1>25. ASSUME NEW c \in Children, NdArrive(c), UNCHANGED reactor
       PROVE  FlagsOK'
  BY <1>25 DEF NdArrive, Arrive, listener, reactor, FlagsOK
<1>26. ASSUME NEW o \in GetOps, NdGetConnectionRequest(o), UNCHANGED reactor
   PROVE FlagsOK'
  BY <1>26 DEF NdGetConnectionRequest, Initiate, Spend, listener, reactor,
     FlagsOK
<1>27. ASSUME NEW o \in GetOps, NdOnPending(o), UNCHANGED reactor
       PROVE  FlagsOK'
  BY <1>27 DEF NdOnPending, listener, reactor, FlagsOK
<1>28. ASSUME NEW o \in GetOps, NdPendingFails(o), UNCHANGED reactor
       PROVE  FlagsOK'
  BY <1>28 DEF NdPendingFails, NdEnd, Spend, listener, reactor, FlagsOK
<1>29. ASSUME NEW o \in GetOps, NdCancelByKey(o), UNCHANGED reactor
       PROVE  FlagsOK'
  BY <1>29 DEF NdCancelByKey, listener, reactor, FlagsOK
<1>30. ASSUME NEW o \in GetOps, NdComplete(o), UNCHANGED reactor
       PROVE  FlagsOK'
  BY <1>30 DEF NdComplete, Deliver, listener, reactor, FlagsOK
<1>31. CASE UNCHANGED vars
  BY <1>31 DEF vars, service, listener, reactor, FlagsOK
<1>32. QED
  BY <1>1, <1>2, <1>3, <1>4, <1>5, <1>6, <1>7, <1>8, <1>9, <1>10, <1>11,
     <1>12, <1>13, <1>14, <1>15, <1>16, <1>17, <1>18, <1>19, <1>20, <1>21,
     <1>22, <1>23, <1>24, <1>25, <1>26, <1>27, <1>28, <1>29, <1>30, <1>31 DEF
     Next, IbvNext, NdNext, ReactorStep

(* The connector of an operation takes one of its requests, or none. *)
LEMMA DeliverValues ==
  ASSUME ValuesOK, NEW o \in GetOps, Deliver(o)
  PROVE  /\ phase' \in [GetOps -> {"none", "start", "early", "armed", "posted", "done"}]
         /\ ec' \in [GetOps -> {"none", "ok", "error", "aborted",
                                "connection_aborted", "invalid_handle",
                                "already_open"}]
         /\ holder' \in [GetOps -> SUBSET Children]
         /\ child' \in [Children -> {"none", "queued", "held", "connector",
                                     "dropped", "destroyed", "leaked"}]
         /\ conn' \in [GetOps \cup Fills -> Children \cup {None}]
<1>1. PICK e \in Codes(o) :
        /\ ec' = [ec EXCEPT ![o] = e]
        /\ child' = [c \in Children |->
                       IF c \notin holder[o] THEN child[c]
                       ELSE IF e = "ok" THEN "connector" ELSE "destroyed"]
        /\ conn' = IF e # "ok" \/ holder[o] = {} THEN conn
                   ELSE [conn EXCEPT ![Connector(o)] = CHOOSE c \in holder[o] : TRUE]
  BY DEF Deliver
<1>2. /\ phase' = [phase EXCEPT ![o] = "done"]
      /\ holder' = [holder EXCEPT ![o] = {}]
  BY DEF Deliver
<1>3. e \in {"none", "ok", "error", "aborted", "connection_aborted",
             "invalid_handle", "already_open"}
  BY <1>1 DEF Codes, Assigned, ValuesOK
<1>4. Connector(o) \in GetOps \cup Fills
  BY DEF Connector, ValuesOK
<1>5. holder[o] # {} => (CHOOSE c \in holder[o] : TRUE) \in Children
  BY DEF ValuesOK
<1>6. QED
  BY <1>1, <1>2, <1>3, <1>4, <1>5 DEF ValuesOK

(* The other variables keep their types. *)
LEMMA ValuesStep ==
  BackendAgrees /\ ValuesOK /\ [Next]_vars => ValuesOK'
<1> SUFFICES ASSUME BackendAgrees, ValuesOK, [Next]_vars
             PROVE  ValuesOK'
  OBVIOUS
<1>1. ASSUME Open PROVE ValuesOK'
  BY <1>1 DEF Open, OpenListener, reactor, ValuesOK
<1>2. ASSUME Move PROVE ValuesOK'
  <2>1. left' \in [move : 0..MaxMove, other : 0..MaxOther, chan : 0..MaxChan,
                   fault : 0..MaxFault]
    BY <1>2, SpendType DEF Move, MoveListener
  <2>2. QED
    BY <1>2, <2>1 DEF Move, MoveListener, reactor, ValuesOK
<1>3. ASSUME Bind PROVE ValuesOK'
  BY <1>3 DEF Bind, BindListener, reactor, ValuesOK
<1>4. ASSUME Listen PROVE ValuesOK'
  BY <1>4 DEF Listen, ListenListener, reactor, ValuesOK
<1>5. ASSUME Cancel PROVE ValuesOK'
  BY <1>5 DEF Cancel, AbortAll, EndAborted, Ended, Queued, listener, reactor,
     ValuesOK
<1>6. ASSUME Destroy PROVE ValuesOK'
  BY <1>6 DEF Destroy, DestroyListener, AbortAll, EndAborted, Ended, Queued,
     ValuesOK
<1>7. ASSUME OtherEvent PROVE ValuesOK'
  <2>1. left' \in [move : 0..MaxMove, other : 0..MaxOther, chan : 0..MaxChan,
                   fault : 0..MaxFault]
    BY <1>7, SpendType DEF OtherEvent
  <2>2. QED
    BY <1>7, <2>1 DEF OtherEvent, listener, ValuesOK
<1>8. ASSUME PerformIo PROVE ValuesOK'
  BY <1>8 DEF PerformIo, service, listener, ValuesOK
<1>9. ASSUME PerformIoEnd PROVE ValuesOK'
  BY <1>9 DEF PerformIoEnd, service, listener, ValuesOK
<1>10. ASSUME NEW o \in GetOps, TakeOther(o) PROVE ValuesOK'
  BY <1>10 DEF TakeOther, Front, Retire, listener, reactor, ValuesOK
<1>11. ASSUME NEW o \in GetOps, TakeRequest(o) PROVE ValuesOK'
  <2>1. /\ events # <<>> /\ rq # <<>> /\ Head(events) # Other
        /\ events \in Seq(Children \cup {Other}) /\ rq \in Seq(GetOps)
    BY <1>11 DEF TakeRequest, Front, ValuesOK
  <2>2. /\ Head(events) \in Children
        /\ events' \in Seq(Children \cup {Other}) /\ Tail(rq) \in Seq(GetOps)
    BY <1>11, <2>1, TailElements DEF TakeRequest
  <2>3. left' \in [move : 0..MaxMove, other : 0..MaxOther, chan : 0..MaxChan,
                   fault : 0..MaxFault]
    <3>1. CASE UNCHANGED left
      BY <3>1 DEF ValuesOK
    <3>2. CASE Spend("fault") \/ Spend("chan")
      BY <3>2, SpendType
    <3>3. QED
      BY <1>11, <3>1, <3>2 DEF TakeRequest
  <2>4. /\ phase' = [phase EXCEPT ![o] = "posted"]
        /\ \E code \in {"ok", "error"} : ec' = [ec EXCEPT ![o] = code]
        /\ rq' = Tail(rq)
        /\ \E x \in {"held", "leaked"} : child' = [child EXCEPT ![Head(events)] = x]
        /\ holder' = [holder EXCEPT ![o] = {Head(events)}] \/ holder' = holder
    BY <1>11 DEF TakeRequest, Retire
  <2>5. /\ phase' \in [GetOps -> {"none", "start", "early", "armed", "posted", "done"}]
        /\ ec' \in [GetOps -> {"none", "ok", "error", "aborted",
                               "connection_aborted", "invalid_handle",
                               "already_open"}]
    BY <2>4 DEF ValuesOK
  <2>6. /\ child' \in [Children -> {"none", "queued", "held", "connector",
                                    "dropped", "destroyed", "leaked"}]
        /\ holder' \in [GetOps -> SUBSET Children]
    <3>1. PICK c \in Children : c = Head(events)
      BY <2>2
    <3>2. /\ \E x \in {"held", "leaked"} : child' = [child EXCEPT ![c] = x]
          /\ holder' = [holder EXCEPT ![o] = {c}] \/ holder' = holder
      BY <2>4, <3>1
    <3>3. /\ child \in [Children -> {"none", "queued", "held", "connector",
                                     "dropped", "destroyed", "leaked"}]
          /\ holder \in [GetOps -> SUBSET Children]
      BY DEF ValuesOK
    <3>4. QED
      BY <3>2, <3>3
  <2>7. UNCHANGED <<backend, life, bind_endpoint, bound_to, rpc, form, conn, moved>>
    BY <1>11 DEF TakeRequest, listener, reactor
  <2>8. QED
    BY <2>2, <2>3, <2>4, <2>5, <2>6, <2>7 DEF ValuesOK
<1>12. ASSUME NEW c \in Children, ConnectRequest(c) PROVE ValuesOK'
  BY <1>12 DEF ConnectRequest, Arrive, listener, ValuesOK
<1>13. ASSUME NEW o \in GetOps, GetConnectionRequest(o) PROVE ValuesOK'
  <2>1. PICK f \in Fills \cup {None} : form' = [form EXCEPT ![o] = f]
    BY <1>13 DEF GetConnectionRequest, Initiate
  <2>2. /\ \E p \in {"start", "posted"} : phase' = [phase EXCEPT ![o] = p]
        /\ \E e \in {"none", "invalid_handle"} : ec' = [ec EXCEPT ![o] = e]
    BY <1>13 DEF GetConnectionRequest, Initiate
  <2>3. QED
    BY <1>13, <2>1, <2>2 DEF GetConnectionRequest, listener, reactor, ValuesOK
<1>14. ASSUME NEW o \in GetOps, StartOp(o) PROVE ValuesOK'
  BY <1>14 DEF StartOp, listener, ValuesOK
<1>15. ASSUME NEW o \in GetOps, CancelByKey(o) PROVE ValuesOK'
  BY <1>15 DEF CancelByKey, AbortOne, Unqueue, EndAborted, Ended, listener,
     reactor, ValuesOK
<1>16. ASSUME NEW o \in GetOps, GetEventError(o) PROVE ValuesOK'
  <2>1. left' \in [move : 0..MaxMove, other : 0..MaxOther, chan : 0..MaxChan,
                   fault : 0..MaxFault]
    BY <1>16, SpendType DEF GetEventError
  <2>2. QED
    BY <1>16, <2>1 DEF GetEventError, Front, Retire, listener, reactor, ValuesOK
<1>17. ASSUME NEW o \in GetOps, Complete(o) PROVE ValuesOK'
  <2>1. Deliver(o) /\ UNCHANGED reactor
    BY <1>17 DEF Complete
  <2>2. QED
    BY <2>1, DeliverValues DEF Deliver, listener, reactor, ValuesOK
<1>18. ASSUME NdOpen, UNCHANGED reactor PROVE ValuesOK'
  BY <1>18 DEF NdOpen, OpenListener, reactor, ValuesOK
<1>19. ASSUME NdMove, UNCHANGED reactor PROVE ValuesOK'
  <2>1. left' \in [move : 0..MaxMove, other : 0..MaxOther, chan : 0..MaxChan,
                   fault : 0..MaxFault]
    BY <1>19, SpendType DEF NdMove, MoveListener
  <2>2. QED
    BY <1>19, <2>1 DEF NdMove, MoveListener, reactor, ValuesOK
<1>20. ASSUME NdBind, UNCHANGED reactor PROVE ValuesOK'
  BY <1>20 DEF NdBind, BindListener, reactor, ValuesOK
<1>21. ASSUME NdListen, UNCHANGED reactor PROVE ValuesOK'
  BY <1>21 DEF NdListen, ListenListener, reactor, ValuesOK
<1>22. ASSUME NdCancel, UNCHANGED reactor PROVE ValuesOK'
  BY <1>22 DEF NdCancel, AbortAll, EndAborted, Ended, Queued, listener,
     reactor, ValuesOK
<1>23. ASSUME NdDestroy, UNCHANGED reactor PROVE ValuesOK'
  BY <1>23 DEF NdDestroy, DestroyListener, AbortAll, EndAborted, Ended,
     Queued, reactor, ValuesOK
<1>24. ASSUME NdMatch, UNCHANGED reactor PROVE ValuesOK'
  <2>1. /\ events # <<>> /\ rq # <<>> /\ backend = "nd"
        /\ events \in Seq(Children \cup {Other}) /\ rq \in Seq(GetOps)
    BY <1>24 DEF NdMatch, ValuesOK
  <2>2. /\ Head(events) \in Children /\ Head(rq) \in GetOps
        /\ events' \in Seq(Children \cup {Other}) /\ rq' \in Seq(GetOps)
    BY <1>24, <2>1, TailElements DEF NdMatch, BackendAgrees
  <2>3. QED
    BY <1>24, <2>2 DEF NdMatch, NdEnd, Ended, listener, reactor, ValuesOK
<1>25. ASSUME NEW c \in Children, NdArrive(c), UNCHANGED reactor
       PROVE  ValuesOK'
  BY <1>25 DEF NdArrive, Arrive, listener, reactor, ValuesOK
<1>26. ASSUME NEW o \in GetOps, NdGetConnectionRequest(o), UNCHANGED reactor
   PROVE ValuesOK'
  <2>1. PICK f \in Fills \cup {None} : form' = [form EXCEPT ![o] = f]
    BY <1>26 DEF NdGetConnectionRequest, Initiate
  <2>2. /\ \E p \in {"start", "posted"} : phase' = [phase EXCEPT ![o] = p]
        /\ \E e \in {"none", "invalid_handle", "error", "ok"} :
             ec' = [ec EXCEPT ![o] = e]
    BY <1>26 DEF NdGetConnectionRequest, Initiate
  <2>3. left' \in [move : 0..MaxMove, other : 0..MaxOther, chan : 0..MaxChan,
                   fault : 0..MaxFault]
    <3>1. CASE UNCHANGED left
      BY <3>1 DEF ValuesOK
    <3>2. CASE Spend("fault")
      BY <3>2, SpendType
    <3>3. QED
      BY <1>26, <3>1, <3>2 DEF NdGetConnectionRequest
  <2>4. rq' = rq \/ rq' = Append(rq, o)
    BY <1>26 DEF NdGetConnectionRequest
  <2>5. rq' \in Seq(GetOps)
    <3>1. rq \in Seq(GetOps)
      BY DEF ValuesOK
    <3>2. CASE rq' = rq
      BY <3>1, <3>2
    <3>3. CASE rq' = Append(rq, o)
      BY <3>1, <3>3, AppendElements
    <3>4. QED
      BY <2>4, <3>2, <3>3
  <2>6. /\ events' \in Seq(Children \cup {Other})
        /\ child' \in [Children -> {"none", "queued", "held", "connector",
                                    "dropped", "destroyed", "leaked"}]
        /\ holder' \in [GetOps -> SUBSET Children]
    <3>1. CASE UNCHANGED <<events, child, holder>>
      BY <3>1 DEF ValuesOK
    <3>2. CASE /\ events # <<>> /\ backend = "nd"
               /\ events' = Tail(events)
               /\ child' = [child EXCEPT ![Head(events)] = "held"]
               /\ holder' = [holder EXCEPT ![o] = {Head(events)}]
      <4>1. Head(events) \in Children /\ events' \in Seq(Children \cup {Other})
        BY <3>2, TailElements DEF BackendAgrees, ValuesOK
      <4>2. QED
        BY <3>2, <4>1 DEF ValuesOK
    <3>3. QED
      BY <1>26, <3>1, <3>2 DEF NdGetConnectionRequest
  <2>7. UNCHANGED <<backend, life, bind_endpoint, bound_to, rpc, conn, moved>>
    BY <1>26 DEF NdGetConnectionRequest, listener, reactor
  <2>8. /\ form' \in [GetOps -> Fills \cup {None}]
        /\ phase' \in [GetOps -> {"none", "start", "early", "armed", "posted", "done"}]
        /\ ec' \in [GetOps -> {"none", "ok", "error", "aborted",
                               "connection_aborted", "invalid_handle",
                               "already_open"}]
    BY <2>1, <2>2 DEF ValuesOK
  <2>9. QED
    BY <2>3, <2>5, <2>6, <2>7, <2>8 DEF ValuesOK
<1>27. ASSUME NEW o \in GetOps, NdOnPending(o), UNCHANGED reactor
       PROVE  ValuesOK'
  BY <1>27 DEF NdOnPending, listener, reactor, ValuesOK
<1>28. ASSUME NEW o \in GetOps, NdPendingFails(o), UNCHANGED reactor
       PROVE  ValuesOK'
  <2>1. left' \in [move : 0..MaxMove, other : 0..MaxOther, chan : 0..MaxChan,
                   fault : 0..MaxFault]
    BY <1>28, SpendType DEF NdPendingFails
  <2>2. rq' \in Seq(GetOps)
    BY <1>28 DEF NdPendingFails, Unqueue, ValuesOK
  <2>3. /\ phase' \in [GetOps -> {"none", "start", "early", "armed", "posted", "done"}]
        /\ ec' \in [GetOps -> {"none", "ok", "error", "aborted",
                               "connection_aborted", "invalid_handle",
                               "already_open"}]
        /\ holder' \in [GetOps -> SUBSET Children]
    BY <1>28 DEF NdPendingFails, NdEnd, Ended, ValuesOK
  <2>4. UNCHANGED child
    BY <1>28 DEF NdPendingFails, NdEnd, ValuesOK
  <2>5. UNCHANGED <<backend, life, bind_endpoint, bound_to, rpc, events, form, conn,
                    moved>>
    BY <1>28 DEF NdPendingFails, listener, reactor
  <2>6. QED
    BY <2>1, <2>2, <2>3, <2>4, <2>5 DEF ValuesOK
<1>29. ASSUME NEW o \in GetOps, NdCancelByKey(o), UNCHANGED reactor
       PROVE  ValuesOK'
  BY <1>29 DEF NdCancelByKey, AbortOne, Unqueue, EndAborted, Ended, Queued,
     listener, reactor, ValuesOK
<1>30. ASSUME NEW o \in GetOps, NdComplete(o), UNCHANGED reactor
       PROVE  ValuesOK'
  <2>1. Deliver(o) /\ UNCHANGED reactor
    BY <1>30 DEF NdComplete
  <2>2. QED
    BY <2>1, DeliverValues DEF Deliver, listener, reactor, ValuesOK
<1>31. CASE UNCHANGED vars
  BY <1>31 DEF vars, service, listener, reactor, ValuesOK
<1>32. QED
  BY <1>1, <1>2, <1>3, <1>4, <1>5, <1>6, <1>7, <1>8, <1>9, <1>10, <1>11,
     <1>12, <1>13, <1>14, <1>15, <1>16, <1>17, <1>18, <1>19, <1>20, <1>21,
     <1>22, <1>23, <1>24, <1>25, <1>26, <1>27, <1>28, <1>29, <1>30, <1>31 DEF
     Next, IbvNext, NdNext, ReactorStep

(* The reactor serves the ibv listener only. *)
LEMMA BackendStep ==
  ValuesOK /\ BackendAgrees /\ [Next]_vars => BackendAgrees'
<1> SUFFICES ASSUME ValuesOK, BackendAgrees, [Next]_vars
             PROVE  BackendAgrees'
  OBVIOUS
<1>1. ASSUME Open PROVE BackendAgrees'
  BY <1>1 DEF Open, OpenListener, reactor, BackendAgrees
<1>2. ASSUME Move PROVE BackendAgrees'
  BY <1>2 DEF Move, MoveListener, Spend, reactor, BackendAgrees
<1>3. ASSUME Bind PROVE BackendAgrees'
  BY <1>3 DEF Bind, BindListener, reactor, BackendAgrees
<1>4. ASSUME Listen PROVE BackendAgrees'
  BY <1>4 DEF Listen, ListenListener, reactor, BackendAgrees
<1>5. ASSUME Cancel PROVE BackendAgrees'
  BY <1>5 DEF Cancel, listener, reactor, BackendAgrees
<1>6. ASSUME Destroy PROVE BackendAgrees'
  BY <1>6 DEF Destroy, DestroyListener, AbortAll, EndAborted, Ended, Queued,
     BackendAgrees, ValuesOK
<1>7. ASSUME OtherEvent PROVE BackendAgrees'
  BY <1>7 DEF OtherEvent, Spend, listener, BackendAgrees, ValuesOK
<1>8. ASSUME PerformIo PROVE BackendAgrees'
  BY <1>8 DEF PerformIo, service, listener, BackendAgrees, ValuesOK
<1>9. ASSUME PerformIoEnd PROVE BackendAgrees'
  BY <1>9 DEF PerformIoEnd, service, listener, BackendAgrees, ValuesOK
<1>10. ASSUME NEW o \in GetOps, TakeOther(o) PROVE BackendAgrees'
  BY <1>10 DEF TakeOther, Front, Retire, listener, reactor, BackendAgrees,
     ValuesOK
<1>11. ASSUME NEW o \in GetOps, TakeRequest(o) PROVE BackendAgrees'
  BY <1>11 DEF TakeRequest, Front, Retire, Spend, listener, reactor,
     BackendAgrees, ValuesOK
<1>12. ASSUME NEW c \in Children, ConnectRequest(c) PROVE BackendAgrees'
  BY <1>12 DEF ConnectRequest, Arrive, listener, BackendAgrees, ValuesOK
<1>13. ASSUME NEW o \in GetOps, GetConnectionRequest(o) PROVE BackendAgrees'
  BY <1>13 DEF GetConnectionRequest, Initiate, listener, reactor,
     BackendAgrees
<1>14. ASSUME NEW o \in GetOps, StartOp(o) PROVE BackendAgrees'
  BY <1>14 DEF StartOp, listener, BackendAgrees, ValuesOK
<1>15. ASSUME NEW o \in GetOps, CancelByKey(o) PROVE BackendAgrees'
  BY <1>15 DEF CancelByKey, listener, reactor, BackendAgrees
<1>16. ASSUME NEW o \in GetOps, GetEventError(o) PROVE BackendAgrees'
  BY <1>16 DEF GetEventError, Spend, listener, reactor, BackendAgrees
<1>17. ASSUME NEW o \in GetOps, Complete(o) PROVE BackendAgrees'
  BY <1>17 DEF Complete, Deliver, listener, reactor, BackendAgrees
<1>18. ASSUME NdOpen, UNCHANGED reactor PROVE BackendAgrees'
  BY <1>18 DEF NdOpen, OpenListener, reactor, BackendAgrees
<1>19. ASSUME NdMove, UNCHANGED reactor PROVE BackendAgrees'
  BY <1>19 DEF NdMove, MoveListener, Spend, reactor, BackendAgrees
<1>20. ASSUME NdBind, UNCHANGED reactor PROVE BackendAgrees'
  BY <1>20 DEF NdBind, BindListener, reactor, BackendAgrees
<1>21. ASSUME NdListen, UNCHANGED reactor PROVE BackendAgrees'
  BY <1>21 DEF NdListen, ListenListener, reactor, BackendAgrees
<1>22. ASSUME NdCancel, UNCHANGED reactor PROVE BackendAgrees'
  BY <1>22 DEF NdCancel, listener, reactor, BackendAgrees
<1>23. ASSUME NdDestroy, UNCHANGED reactor PROVE BackendAgrees'
  BY <1>23 DEF NdDestroy, DestroyListener, AbortAll, EndAborted, Ended,
     Queued, reactor, BackendAgrees, ValuesOK
<1>24. ASSUME NdMatch, UNCHANGED reactor PROVE BackendAgrees'
  BY <1>24 DEF NdMatch, NdEnd, Ended, listener, reactor, BackendAgrees,
     ValuesOK
<1>25. ASSUME NEW c \in Children, NdArrive(c), UNCHANGED reactor
       PROVE  BackendAgrees'
  BY <1>25 DEF NdArrive, Arrive, listener, reactor, BackendAgrees, ValuesOK
<1>26. ASSUME NEW o \in GetOps, NdGetConnectionRequest(o), UNCHANGED reactor
   PROVE BackendAgrees'
  <2>1. UNCHANGED events \/ (events # <<>> /\ events' = Tail(events))
    BY <1>26 DEF NdGetConnectionRequest
  <2>2. events \in Seq(Children \cup {Other})
    BY DEF ValuesOK
  <2>3. UNCHANGED <<backend, rpc, edge>>
    BY <1>26 DEF NdGetConnectionRequest, listener, reactor
  <2>4. CASE UNCHANGED events
    BY <2>3, <2>4 DEF BackendAgrees
  <2>5. CASE events # <<>> /\ events' = Tail(events)
    BY <2>2, <2>3, <2>5, TailElements DEF BackendAgrees
  <2>6. QED
    BY <2>1, <2>4, <2>5
<1>27. ASSUME NEW o \in GetOps, NdOnPending(o), UNCHANGED reactor
       PROVE  BackendAgrees'
  BY <1>27 DEF NdOnPending, listener, reactor, BackendAgrees
<1>28. ASSUME NEW o \in GetOps, NdPendingFails(o), UNCHANGED reactor
       PROVE  BackendAgrees'
  BY <1>28 DEF NdPendingFails, NdEnd, Spend, listener, reactor, BackendAgrees
<1>29. ASSUME NEW o \in GetOps, NdCancelByKey(o), UNCHANGED reactor
       PROVE  BackendAgrees'
  BY <1>29 DEF NdCancelByKey, listener, reactor, BackendAgrees
<1>30. ASSUME NEW o \in GetOps, NdComplete(o), UNCHANGED reactor
       PROVE  BackendAgrees'
  BY <1>30 DEF NdComplete, Deliver, listener, reactor, BackendAgrees
<1>31. CASE UNCHANGED vars
  BY <1>31 DEF vars, service, listener, reactor, BackendAgrees
<1>32. QED
  BY <1>1, <1>2, <1>3, <1>4, <1>5, <1>6, <1>7, <1>8, <1>9, <1>10, <1>11,
     <1>12, <1>13, <1>14, <1>15, <1>16, <1>17, <1>18, <1>19, <1>20, <1>21,
     <1>22, <1>23, <1>24, <1>25, <1>26, <1>27, <1>28, <1>29, <1>30, <1>31 DEF
     Next, IbvNext, NdNext, ReactorStep

(* An operation is queued exactly while it waits. *)
LEMMA QueueStep ==
  ValuesOK /\ BackendAgrees /\ QueueAgrees /\ [Next]_vars => QueueAgrees'
<1> SUFFICES ASSUME ValuesOK, BackendAgrees, QueueAgrees, [Next]_vars
             PROVE  QueueAgrees'
  OBVIOUS
<1>1. ASSUME Open PROVE QueueAgrees'
  BY <1>1 DEF Open, OpenListener, reactor, QueueAgrees
<1>2. ASSUME Move PROVE QueueAgrees'
  BY <1>2 DEF Move, MoveListener, Spend, reactor, QueueAgrees
<1>3. ASSUME Bind PROVE QueueAgrees'
  BY <1>3 DEF Bind, BindListener, reactor, QueueAgrees
<1>4. ASSUME Listen PROVE QueueAgrees'
  BY <1>4 DEF Listen, ListenListener, reactor, QueueAgrees
<1>5. ASSUME Cancel PROVE QueueAgrees'
  BY <1>5, QueueAbort DEF Cancel, listener
<1>6. ASSUME Destroy PROVE QueueAgrees'
  BY <1>6, QueueAbort DEF Destroy, DestroyListener
<1>7. ASSUME OtherEvent PROVE QueueAgrees'
  BY <1>7 DEF OtherEvent, Spend, listener, QueueAgrees
<1>8. ASSUME PerformIo PROVE QueueAgrees'
  BY <1>8 DEF PerformIo, service, listener, QueueAgrees
<1>9. ASSUME PerformIoEnd PROVE QueueAgrees'
  BY <1>9 DEF PerformIoEnd, service, listener, QueueAgrees
<1>10. ASSUME NEW o \in GetOps, TakeOther(o) PROVE QueueAgrees'
  <2>1. /\ rq # <<>> /\ Head(rq) = o /\ rq' = Tail(rq) /\ UNCHANGED backend
        /\ phase' = [phase EXCEPT ![o] = "posted"]
    BY <1>10 DEF TakeOther, Front, Retire, listener
  <2>2. QED
    BY <2>1, QueueTail DEF ValuesOK
<1>11. ASSUME NEW o \in GetOps, TakeRequest(o) PROVE QueueAgrees'
  <2>1. /\ rq # <<>> /\ Head(rq) = o /\ rq' = Tail(rq) /\ UNCHANGED backend
        /\ phase' = [phase EXCEPT ![o] = "posted"]
    BY <1>11 DEF TakeRequest, Front, Retire, listener
  <2>2. QED
    BY <2>1, QueueTail DEF ValuesOK
<1>12. ASSUME NEW c \in Children, ConnectRequest(c) PROVE QueueAgrees'
  BY <1>12 DEF ConnectRequest, Arrive, listener, QueueAgrees
<1>13. ASSUME NEW o \in GetOps, GetConnectionRequest(o) PROVE QueueAgrees'
  BY <1>13 DEF GetConnectionRequest, Initiate, listener, reactor, QueueAgrees,
     ValuesOK, BackendAgrees
<1>14. ASSUME NEW o \in GetOps, StartOp(o) PROVE QueueAgrees'
  <2>1. /\ backend = "ibv" /\ phase[o] = "start" /\ rq' = Append(rq, o)
        /\ phase' = [phase EXCEPT ![o] = "armed"] /\ UNCHANGED backend
    BY <1>14 DEF StartOp, listener
  <2>2. ~\E i \in 1..Len(rq) : rq[i] = o
    BY <2>1 DEF QueueAgrees
  <2>3. QED
    BY <2>1, <2>2, QueueAppend DEF ValuesOK
<1>15. ASSUME NEW o \in GetOps, CancelByKey(o) PROVE QueueAgrees'
  <2>1. /\ Unqueue(o) /\ UNCHANGED backend
        /\ phase'[o] \in {"early", "posted"}
        /\ \A x \in GetOps \ {o} : phase'[x] = phase[x]
    BY <1>15 DEF CancelByKey, AbortOne, EndAborted, Ended, listener
  <2>2. QED
    BY <2>1, QueueUnqueue
<1>16. ASSUME NEW o \in GetOps, GetEventError(o) PROVE QueueAgrees'
  <2>1. /\ rq # <<>> /\ Head(rq) = o /\ rq' = Tail(rq) /\ UNCHANGED backend
        /\ phase' = [phase EXCEPT ![o] = "posted"]
    BY <1>16 DEF GetEventError, Front, Retire, listener
  <2>2. QED
    BY <2>1, QueueTail DEF ValuesOK
<1>17. ASSUME NEW o \in GetOps, Complete(o) PROVE QueueAgrees'
  BY <1>17 DEF Complete, Deliver, Codes, Assigned, Connector, listener,
     reactor, QueueAgrees, ValuesOK, BackendAgrees
<1>18. ASSUME NdOpen, UNCHANGED reactor PROVE QueueAgrees'
  BY <1>18 DEF NdOpen, OpenListener, reactor, QueueAgrees
<1>19. ASSUME NdMove, UNCHANGED reactor PROVE QueueAgrees'
  BY <1>19 DEF NdMove, MoveListener, Spend, reactor, QueueAgrees
<1>20. ASSUME NdBind, UNCHANGED reactor PROVE QueueAgrees'
  BY <1>20 DEF NdBind, BindListener, reactor, QueueAgrees
<1>21. ASSUME NdListen, UNCHANGED reactor PROVE QueueAgrees'
  BY <1>21 DEF NdListen, ListenListener, reactor, QueueAgrees
<1>22. ASSUME NdCancel, UNCHANGED reactor PROVE QueueAgrees'
  BY <1>22, QueueAbort DEF NdCancel, listener
<1>23. ASSUME NdDestroy, UNCHANGED reactor PROVE QueueAgrees'
  BY <1>23, QueueAbort DEF NdDestroy, DestroyListener
<1>24. ASSUME NdMatch, UNCHANGED reactor PROVE QueueAgrees'
  <2>1. /\ rq # <<>> /\ rq' = Tail(rq) /\ UNCHANGED backend
        /\ phase' = [phase EXCEPT ![Head(rq)] = Ended(Head(rq))]
    BY <1>24 DEF NdMatch, NdEnd, listener
  <2>2. Head(rq) \in GetOps
    BY <2>1, TailElements DEF ValuesOK
  <2>3. QED
    BY <2>1, <2>2, QueueTail DEF Ended, ValuesOK
<1>25. ASSUME NEW c \in Children, NdArrive(c), UNCHANGED reactor
       PROVE  QueueAgrees'
  BY <1>25 DEF NdArrive, Arrive, listener, reactor, QueueAgrees
<1>26. ASSUME NEW o \in GetOps, NdGetConnectionRequest(o), UNCHANGED reactor
   PROVE QueueAgrees'
  <2>1. /\ backend = "nd" /\ phase[o] = "none" /\ UNCHANGED backend
        /\ ~\E i \in 1..Len(rq) : rq[i] = o
    BY <1>26 DEF NdGetConnectionRequest, Initiate, listener, QueueAgrees
  <2>2. CASE rq' = Append(rq, o) /\ phase' = [phase EXCEPT ![o] = "start"]
    BY <2>1, <2>2, QueueAppend DEF ValuesOK
  <2>3. CASE UNCHANGED rq /\ phase' = [phase EXCEPT ![o] = "posted"]
    BY <2>1, <2>3 DEF QueueAgrees, ValuesOK
  <2>4. QED
    BY <1>26, <2>2, <2>3 DEF NdGetConnectionRequest, Initiate
<1>27. ASSUME NEW o \in GetOps, NdOnPending(o), UNCHANGED reactor
       PROVE  QueueAgrees'
  BY <1>27 DEF NdOnPending, listener, reactor, QueueAgrees, ValuesOK,
     BackendAgrees
<1>28. ASSUME NEW o \in GetOps, NdPendingFails(o), UNCHANGED reactor
       PROVE  QueueAgrees'
  <2>1. /\ Unqueue(o) /\ UNCHANGED backend
        /\ phase'[o] \in {"early", "posted"}
        /\ \A x \in GetOps \ {o} : phase'[x] = phase[x]
    BY <1>28 DEF NdPendingFails, NdEnd, Ended, listener, ValuesOK
  <2>2. QED
    BY <2>1, QueueUnqueue
<1>29. ASSUME NEW o \in GetOps, NdCancelByKey(o), UNCHANGED reactor
       PROVE  QueueAgrees'
  <2>1. /\ Unqueue(o) /\ UNCHANGED backend
        /\ phase'[o] \in {"early", "posted"}
        /\ \A x \in GetOps \ {o} : phase'[x] = phase[x]
    BY <1>29 DEF NdCancelByKey, AbortOne, EndAborted, Ended, listener
  <2>2. QED
    BY <2>1, QueueUnqueue
<1>30. ASSUME NEW o \in GetOps, NdComplete(o), UNCHANGED reactor
       PROVE  QueueAgrees'
  BY <1>30 DEF NdComplete, Deliver, Codes, Assigned, Connector, listener,
     reactor, QueueAgrees, ValuesOK, BackendAgrees
<1>31. CASE UNCHANGED vars
  BY <1>31 DEF vars, service, listener, reactor, QueueAgrees
<1>32. QED
  BY <1>1, <1>2, <1>3, <1>4, <1>5, <1>6, <1>7, <1>8, <1>9, <1>10, <1>11,
     <1>12, <1>13, <1>14, <1>15, <1>16, <1>17, <1>18, <1>19, <1>20, <1>21,
     <1>22, <1>23, <1>24, <1>25, <1>26, <1>27, <1>28, <1>29, <1>30, <1>31 DEF
     Next, IbvNext, NdNext, ReactorStep

(* A waiting operation owns nothing. *)
LEMMA HandleStep ==
  ValuesOK /\ BackendAgrees /\ QueueAgrees /\ HandleAgrees /\ [Next]_vars =>
     HandleAgrees'
<1> SUFFICES ASSUME ValuesOK, BackendAgrees, QueueAgrees, HandleAgrees,
                    [Next]_vars
             PROVE  HandleAgrees'
  OBVIOUS
<1>1. ASSUME Open PROVE HandleAgrees'
  BY <1>1 DEF Open, OpenListener, reactor, HandleAgrees
<1>2. ASSUME Move PROVE HandleAgrees'
  BY <1>2 DEF Move, MoveListener, Spend, reactor, HandleAgrees
<1>3. ASSUME Bind PROVE HandleAgrees'
  BY <1>3 DEF Bind, BindListener, reactor, HandleAgrees
<1>4. ASSUME Listen PROVE HandleAgrees'
  BY <1>4 DEF Listen, ListenListener, reactor, HandleAgrees
<1>5. ASSUME Cancel PROVE HandleAgrees'
  BY <1>5 DEF Cancel, AbortAll, EndAborted, Ended, Queued, listener, reactor,
     HandleAgrees, ValuesOK, BackendAgrees, QueueAgrees
<1>6. ASSUME Destroy PROVE HandleAgrees'
  BY <1>6 DEF Destroy, DestroyListener, AbortAll, EndAborted, Ended, Queued,
     HandleAgrees, ValuesOK, BackendAgrees, QueueAgrees
<1>7. ASSUME OtherEvent PROVE HandleAgrees'
  BY <1>7 DEF OtherEvent, Spend, listener, HandleAgrees
<1>8. ASSUME PerformIo PROVE HandleAgrees'
  BY <1>8 DEF PerformIo, service, listener, HandleAgrees
<1>9. ASSUME PerformIoEnd PROVE HandleAgrees'
  BY <1>9 DEF PerformIoEnd, service, listener, HandleAgrees
<1>10. ASSUME NEW o \in GetOps, TakeOther(o) PROVE HandleAgrees'
  BY <1>10 DEF TakeOther, Front, Retire, listener, reactor, HandleAgrees,
     ValuesOK, BackendAgrees, QueueAgrees
<1>11. ASSUME NEW o \in GetOps, TakeRequest(o) PROVE HandleAgrees'
  <2>1. /\ phase' = [phase EXCEPT ![o] = "posted"] /\ UNCHANGED conn
        /\ holder' = [holder EXCEPT ![o] = {Head(events)}] \/ UNCHANGED holder
    BY <1>11 DEF TakeRequest, Retire
  <2>2. phase[o] # "done"
    BY <1>11, TailElements DEF TakeRequest, Front, QueueAgrees, ValuesOK
  <2>3. /\ phase'[o] = "posted" /\ conn' = conn
        /\ \A p \in GetOps \ {o} : phase'[p] = phase[p] /\ holder'[p] = holder[p]
        /\ holder'[o] = {Head(events)} \/ holder'[o] = holder[o]
    BY <2>1 DEF ValuesOK
  <2>4. \A c, d \in holder'[o] : c = d
    BY <2>3 DEF HandleAgrees
  <2>5. QED
    BY <2>2, <2>3, <2>4 DEF HandleAgrees
<1>12. ASSUME NEW c \in Children, ConnectRequest(c) PROVE HandleAgrees'
  BY <1>12 DEF ConnectRequest, Arrive, listener, HandleAgrees
<1>13. ASSUME NEW o \in GetOps, GetConnectionRequest(o) PROVE HandleAgrees'
  BY <1>13 DEF GetConnectionRequest, Initiate, listener, reactor,
     HandleAgrees, ValuesOK, BackendAgrees, QueueAgrees
<1>14. ASSUME NEW o \in GetOps, StartOp(o) PROVE HandleAgrees'
  BY <1>14 DEF StartOp, listener, HandleAgrees, ValuesOK, BackendAgrees,
     QueueAgrees
<1>15. ASSUME NEW o \in GetOps, CancelByKey(o) PROVE HandleAgrees'
  BY <1>15 DEF CancelByKey, AbortOne, Unqueue, EndAborted, Ended, listener,
     reactor, HandleAgrees, ValuesOK, BackendAgrees, QueueAgrees
<1>16. ASSUME NEW o \in GetOps, GetEventError(o) PROVE HandleAgrees'
  BY <1>16 DEF GetEventError, Front, Retire, Spend, listener, reactor,
     HandleAgrees, ValuesOK, BackendAgrees, QueueAgrees
<1>17. ASSUME NEW o \in GetOps, Complete(o) PROVE HandleAgrees'
  <2>1. Deliver(o)
    BY <1>17 DEF Complete
  <2>2. /\ phase' = [phase EXCEPT ![o] = "done"]
        /\ holder' = [holder EXCEPT ![o] = {}]
        /\ \A x \in GetOps \ {o} : conn'[x] = conn[x]
    <3>1. Connector(o) \in {o} \cup Fills
      BY DEF Connector, ValuesOK
    <3>2. QED
      BY <2>1, <3>1, ConnectorAssumption DEF Deliver, ValuesOK
  <2>3. QED
    BY <2>2 DEF HandleAgrees, ValuesOK
<1>18. ASSUME NdOpen, UNCHANGED reactor PROVE HandleAgrees'
  BY <1>18 DEF NdOpen, OpenListener, reactor, HandleAgrees
<1>19. ASSUME NdMove, UNCHANGED reactor PROVE HandleAgrees'
  BY <1>19 DEF NdMove, MoveListener, Spend, reactor, HandleAgrees
<1>20. ASSUME NdBind, UNCHANGED reactor PROVE HandleAgrees'
  BY <1>20 DEF NdBind, BindListener, reactor, HandleAgrees
<1>21. ASSUME NdListen, UNCHANGED reactor PROVE HandleAgrees'
  BY <1>21 DEF NdListen, ListenListener, reactor, HandleAgrees
<1>22. ASSUME NdCancel, UNCHANGED reactor PROVE HandleAgrees'
  BY <1>22 DEF NdCancel, AbortAll, EndAborted, Ended, Queued, listener,
     reactor, HandleAgrees, ValuesOK, BackendAgrees, QueueAgrees
<1>23. ASSUME NdDestroy, UNCHANGED reactor PROVE HandleAgrees'
  BY <1>23 DEF NdDestroy, DestroyListener, AbortAll, EndAborted, Ended,
     Queued, reactor, HandleAgrees, ValuesOK, BackendAgrees, QueueAgrees
<1>24. ASSUME NdMatch, UNCHANGED reactor PROVE HandleAgrees'
  BY <1>24 DEF NdMatch, NdEnd, Ended, listener, reactor, HandleAgrees,
     ValuesOK, BackendAgrees, QueueAgrees
<1>25. ASSUME NEW c \in Children, NdArrive(c), UNCHANGED reactor
       PROVE  HandleAgrees'
  BY <1>25 DEF NdArrive, Arrive, listener, reactor, HandleAgrees
<1>26. ASSUME NEW o \in GetOps, NdGetConnectionRequest(o), UNCHANGED reactor
   PROVE HandleAgrees'
  <2>1. /\ phase[o] = "none" /\ UNCHANGED conn
        /\ \/ phase' = [phase EXCEPT ![o] = "start"] /\ UNCHANGED holder
           \/ phase' = [phase EXCEPT ![o] = "posted"] /\ UNCHANGED holder
           \/ /\ phase' = [phase EXCEPT ![o] = "posted"]
              /\ holder' = [holder EXCEPT ![o] = {Head(events)}]
    BY <1>26 DEF NdGetConnectionRequest, Initiate
  <2>2. QED
    BY <2>1 DEF HandleAgrees, ValuesOK
<1>27. ASSUME NEW o \in GetOps, NdOnPending(o), UNCHANGED reactor
       PROVE  HandleAgrees'
  BY <1>27 DEF NdOnPending, listener, reactor, HandleAgrees, ValuesOK,
     BackendAgrees, QueueAgrees
<1>28. ASSUME NEW o \in GetOps, NdPendingFails(o), UNCHANGED reactor
       PROVE  HandleAgrees'
  BY <1>28 DEF NdPendingFails, Unqueue, NdEnd, Ended, Spend, Queued, listener,
     reactor, HandleAgrees, ValuesOK, BackendAgrees, QueueAgrees
<1>29. ASSUME NEW o \in GetOps, NdCancelByKey(o), UNCHANGED reactor
       PROVE  HandleAgrees'
  BY <1>29 DEF NdCancelByKey, AbortOne, Unqueue, EndAborted, Ended, Queued,
     listener, reactor, HandleAgrees, ValuesOK, BackendAgrees, QueueAgrees
<1>30. ASSUME NEW o \in GetOps, NdComplete(o), UNCHANGED reactor
       PROVE  HandleAgrees'
  <2>1. Deliver(o)
    BY <1>30 DEF NdComplete
  <2>2. /\ phase' = [phase EXCEPT ![o] = "done"]
        /\ holder' = [holder EXCEPT ![o] = {}]
        /\ \A x \in GetOps \ {o} : conn'[x] = conn[x]
    <3>1. Connector(o) \in {o} \cup Fills
      BY DEF Connector, ValuesOK
    <3>2. QED
      BY <2>1, <3>1, ConnectorAssumption DEF Deliver, ValuesOK
  <2>3. QED
    BY <2>2 DEF HandleAgrees, ValuesOK
<1>31. CASE UNCHANGED vars
  BY <1>31 DEF vars, service, listener, reactor, HandleAgrees
<1>32. QED
  BY <1>1, <1>2, <1>3, <1>4, <1>5, <1>6, <1>7, <1>8, <1>9, <1>10, <1>11,
     <1>12, <1>13, <1>14, <1>15, <1>16, <1>17, <1>18, <1>19, <1>20, <1>21,
     <1>22, <1>23, <1>24, <1>25, <1>26, <1>27, <1>28, <1>29, <1>30, <1>31 DEF
     Next, IbvNext, NdNext, ReactorStep

(* A completion leaves the queue alone and moves on only what it held. *)
LEMMA DeliverQueued ==
  ASSUME ValuesOK, QueuedOnce, HeldOnce, NEW o \in GetOps, Deliver(o)
  PROVE  QueuedOnce'
<1>1. events' = events
  BY DEF Deliver
<1>2. \A c \in Children : IF c \in holder[o] THEN child'[c] \in {"connector", "destroyed"}
                          ELSE child'[c] = child[c]
  BY DEF Deliver
<1>3. \A c \in holder[o] : child[c] = "held"
  BY DEF HeldOnce, ValuesOK
<1>4. \A c \in Children : child'[c] = "queued" <=> child[c] = "queued"
  BY <1>2, <1>3
<1>5. QED
  BY <1>1, <1>4 DEF QueuedOnce

(* A request is in the queue once. *)
LEMMA QueuedStep ==
  ValuesOK /\ BackendAgrees /\ QueueAgrees /\ HandleAgrees /\ QueuedOnce /\
     HeldOnce /\ TakenOnce /\ [Next]_vars => QueuedOnce'
<1> SUFFICES ASSUME ValuesOK, BackendAgrees, QueueAgrees, HandleAgrees,
                    QueuedOnce, HeldOnce, TakenOnce, [Next]_vars
             PROVE  QueuedOnce'
  OBVIOUS
<1>1. ASSUME Open PROVE QueuedOnce'
  BY <1>1 DEF Open, OpenListener, reactor, QueuedOnce
<1>2. ASSUME Move PROVE QueuedOnce'
  BY <1>2 DEF Move, MoveListener, Spend, reactor, QueuedOnce
<1>3. ASSUME Bind PROVE QueuedOnce'
  BY <1>3 DEF Bind, BindListener, reactor, QueuedOnce
<1>4. ASSUME Listen PROVE QueuedOnce'
  BY <1>4 DEF Listen, ListenListener, reactor, QueuedOnce
<1>5. ASSUME Cancel PROVE QueuedOnce'
  BY <1>5 DEF Cancel, listener, reactor, QueuedOnce
<1>6. ASSUME Destroy PROVE QueuedOnce'
  BY <1>6 DEF Destroy, DestroyListener, AbortAll, EndAborted, Ended, Queued,
     QueuedOnce, ValuesOK, BackendAgrees, HeldOnce
<1>7. ASSUME OtherEvent PROVE QueuedOnce'
  BY <1>7, OtherAssumption, EventsAppend DEF OtherEvent
<1>8. ASSUME PerformIo PROVE QueuedOnce'
  BY <1>8 DEF PerformIo, service, listener, QueuedOnce
<1>9. ASSUME PerformIoEnd PROVE QueuedOnce'
  BY <1>9 DEF PerformIoEnd, service, listener, QueuedOnce
<1>10. ASSUME NEW o \in GetOps, TakeOther(o) PROVE QueuedOnce'
  BY <1>10, OtherAssumption, EventsTail DEF TakeOther
<1>11. ASSUME NEW o \in GetOps, TakeRequest(o) PROVE QueuedOnce'
  <2>1. /\ events # <<>> /\ rq # <<>> /\ Head(events) # Other /\ Head(rq) = o
        /\ events' = Tail(events) /\ rpc = "loop" /\ UNCHANGED conn
        /\ events \in Seq(Children \cup {Other}) /\ rq \in Seq(GetOps)
    BY <1>11 DEF TakeRequest, Front, ValuesOK
  <2>2. Head(events) \in Children /\ phase[o] \in {"start", "armed"}
    BY <2>1, TailElements DEF QueueAgrees
  <2>3. CASE /\ child' = [child EXCEPT ![Head(events)] = "held"]
             /\ holder' = [holder EXCEPT ![o] = {Head(events)}]
    BY <2>1, <2>2, <2>3, Take
  <2>4. CASE /\ child' = [child EXCEPT ![Head(events)] = "leaked"]
             /\ UNCHANGED holder
    <3>1. child[Head(events)] = "queued"
      BY <2>1, <2>2, TailElements DEF QueuedOnce
    <3>2. QED
      BY <2>1, <2>2, <2>4, <3>1, EventsTail DEF QueuedOnce, ValuesOK
  <2>5. QED
    BY <1>11, <2>3, <2>4 DEF TakeRequest
<1>12. ASSUME NEW c \in Children, ConnectRequest(c) PROVE QueuedOnce'
  BY <1>12, EventsAppend DEF ConnectRequest, Arrive, ValuesOK
<1>13. ASSUME NEW o \in GetOps, GetConnectionRequest(o) PROVE QueuedOnce'
  BY <1>13 DEF GetConnectionRequest, Initiate, listener, reactor, QueuedOnce
<1>14. ASSUME NEW o \in GetOps, StartOp(o) PROVE QueuedOnce'
  BY <1>14 DEF StartOp, listener, QueuedOnce
<1>15. ASSUME NEW o \in GetOps, CancelByKey(o) PROVE QueuedOnce'
  BY <1>15 DEF CancelByKey, listener, reactor, QueuedOnce
<1>16. ASSUME NEW o \in GetOps, GetEventError(o) PROVE QueuedOnce'
  BY <1>16 DEF GetEventError, Spend, listener, reactor, QueuedOnce
<1>17. ASSUME NEW o \in GetOps, Complete(o) PROVE QueuedOnce'
  BY <1>17, DeliverQueued DEF Complete
<1>18. ASSUME NdOpen, UNCHANGED reactor PROVE QueuedOnce'
  BY <1>18 DEF NdOpen, OpenListener, reactor, QueuedOnce
<1>19. ASSUME NdMove, UNCHANGED reactor PROVE QueuedOnce'
  BY <1>19 DEF NdMove, MoveListener, Spend, reactor, QueuedOnce
<1>20. ASSUME NdBind, UNCHANGED reactor PROVE QueuedOnce'
  BY <1>20 DEF NdBind, BindListener, reactor, QueuedOnce
<1>21. ASSUME NdListen, UNCHANGED reactor PROVE QueuedOnce'
  BY <1>21 DEF NdListen, ListenListener, reactor, QueuedOnce
<1>22. ASSUME NdCancel, UNCHANGED reactor PROVE QueuedOnce'
  BY <1>22 DEF NdCancel, listener, reactor, QueuedOnce
<1>23. ASSUME NdDestroy, UNCHANGED reactor PROVE QueuedOnce'
  BY <1>23 DEF NdDestroy, DestroyListener, AbortAll, EndAborted, Ended,
     Queued, reactor, QueuedOnce, ValuesOK, BackendAgrees, HeldOnce
<1>24. ASSUME NdMatch, UNCHANGED reactor PROVE QueuedOnce'
  <2>1. /\ events # <<>> /\ rq # <<>> /\ backend = "nd"
        /\ events \in Seq(Children \cup {Other}) /\ rq \in Seq(GetOps)
    BY <1>24 DEF NdMatch, ValuesOK
  <2>2. /\ Head(events) \in Children /\ Head(rq) \in GetOps
        /\ phase[Head(rq)] \in {"start", "armed"}
    BY <2>1, TailElements DEF BackendAgrees, QueueAgrees
  <2>3. /\ events' = Tail(events) /\ UNCHANGED conn
        /\ child' = [child EXCEPT ![Head(events)] = "held"]
        /\ holder' = [holder EXCEPT ![Head(rq)] = {Head(events)}]
    BY <1>24 DEF NdMatch, NdEnd, ValuesOK
  <2>4. QED
    BY <2>1, <2>2, <2>3, Take
<1>25. ASSUME NEW c \in Children, NdArrive(c), UNCHANGED reactor
       PROVE  QueuedOnce'
  BY <1>25, EventsAppend DEF NdArrive, Arrive, ValuesOK
<1>26. ASSUME NEW o \in GetOps, NdGetConnectionRequest(o), UNCHANGED reactor
   PROVE QueuedOnce'
  <2>1. CASE UNCHANGED <<events, child, holder>>
    BY <1>26, <2>1 DEF NdGetConnectionRequest, QueuedOnce
  <2>2. CASE /\ events # <<>> /\ backend = "nd" /\ phase[o] = "none"
             /\ events' = Tail(events) /\ UNCHANGED conn
             /\ child' = [child EXCEPT ![Head(events)] = "held"]
             /\ holder' = [holder EXCEPT ![o] = {Head(events)}]
    <3>1. Head(events) \in Children
      BY <2>2, TailElements DEF BackendAgrees, ValuesOK
    <3>2. QED
      BY <2>2, <3>1, Take
  <2>3. QED
    BY <1>26, <2>1, <2>2 DEF NdGetConnectionRequest, Initiate
<1>27. ASSUME NEW o \in GetOps, NdOnPending(o), UNCHANGED reactor
       PROVE  QueuedOnce'
  BY <1>27 DEF NdOnPending, listener, reactor, QueuedOnce
<1>28. ASSUME NEW o \in GetOps, NdPendingFails(o), UNCHANGED reactor
       PROVE  QueuedOnce'
  BY <1>28 DEF NdPendingFails, Unqueue, NdEnd, Ended, Spend, Queued, listener,
     reactor, QueuedOnce, ValuesOK, BackendAgrees, HeldOnce
<1>29. ASSUME NEW o \in GetOps, NdCancelByKey(o), UNCHANGED reactor
       PROVE  QueuedOnce'
  BY <1>29 DEF NdCancelByKey, listener, reactor, QueuedOnce
<1>30. ASSUME NEW o \in GetOps, NdComplete(o), UNCHANGED reactor
       PROVE  QueuedOnce'
  BY <1>30, DeliverQueued DEF NdComplete
<1>31. CASE UNCHANGED vars
  BY <1>31 DEF vars, service, listener, reactor, QueuedOnce
<1>32. QED
  BY <1>1, <1>2, <1>3, <1>4, <1>5, <1>6, <1>7, <1>8, <1>9, <1>10, <1>11,
     <1>12, <1>13, <1>14, <1>15, <1>16, <1>17, <1>18, <1>19, <1>20, <1>21,
     <1>22, <1>23, <1>24, <1>25, <1>26, <1>27, <1>28, <1>29, <1>30, <1>31 DEF
     Next, IbvNext, NdNext, ReactorStep

(* A completion leaves its operation without a request. *)
LEMMA DeliverHeld ==
  ASSUME ValuesOK, HeldOnce, NEW o \in GetOps, Deliver(o)
  PROVE  HeldOnce'
<1>1. /\ holder'[o] = {}
      /\ \A p \in GetOps \ {o} : holder'[p] = holder[p]
  BY DEF Deliver, ValuesOK
<1>2. \A c \in Children : IF c \in holder[o] THEN child'[c] \in {"connector", "destroyed"}
                          ELSE child'[c] = child[c]
  BY DEF Deliver
<1>3. \A c \in holder[o] : c \in Children
  BY DEF ValuesOK
<1>4. QED
  BY <1>1, <1>2, <1>3 DEF HeldOnce

(* A request is owned by one operation. *)
LEMMA HeldStep ==
  ValuesOK /\ BackendAgrees /\ QueueAgrees /\ HandleAgrees /\ QueuedOnce /\
     HeldOnce /\ TakenOnce /\ [Next]_vars => HeldOnce'
<1> SUFFICES ASSUME ValuesOK, BackendAgrees, QueueAgrees, HandleAgrees,
                    QueuedOnce, HeldOnce, TakenOnce, [Next]_vars
             PROVE  HeldOnce'
  OBVIOUS
<1>1. ASSUME Open PROVE HeldOnce'
  BY <1>1 DEF Open, OpenListener, reactor, HeldOnce
<1>2. ASSUME Move PROVE HeldOnce'
  BY <1>2 DEF Move, MoveListener, Spend, reactor, HeldOnce
<1>3. ASSUME Bind PROVE HeldOnce'
  BY <1>3 DEF Bind, BindListener, reactor, HeldOnce
<1>4. ASSUME Listen PROVE HeldOnce'
  BY <1>4 DEF Listen, ListenListener, reactor, HeldOnce
<1>5. ASSUME Cancel PROVE HeldOnce'
  BY <1>5 DEF Cancel, listener, reactor, HeldOnce
<1>6. ASSUME Destroy PROVE HeldOnce'
  BY <1>6 DEF Destroy, DestroyListener, AbortAll, EndAborted, Ended, Queued,
     HeldOnce, ValuesOK, BackendAgrees, QueueAgrees, HandleAgrees, QueuedOnce
<1>7. ASSUME OtherEvent PROVE HeldOnce'
  BY <1>7 DEF OtherEvent, Spend, listener, HeldOnce
<1>8. ASSUME PerformIo PROVE HeldOnce'
  BY <1>8 DEF PerformIo, service, listener, HeldOnce
<1>9. ASSUME PerformIoEnd PROVE HeldOnce'
  BY <1>9 DEF PerformIoEnd, service, listener, HeldOnce
<1>10. ASSUME NEW o \in GetOps, TakeOther(o) PROVE HeldOnce'
  BY <1>10 DEF TakeOther, listener, reactor, HeldOnce
<1>11. ASSUME NEW o \in GetOps, TakeRequest(o) PROVE HeldOnce'
  <2>1. /\ events # <<>> /\ rq # <<>> /\ Head(events) # Other /\ Head(rq) = o
        /\ events' = Tail(events) /\ rpc = "loop" /\ UNCHANGED conn
        /\ events \in Seq(Children \cup {Other}) /\ rq \in Seq(GetOps)
    BY <1>11 DEF TakeRequest, Front, ValuesOK
  <2>2. Head(events) \in Children /\ phase[o] \in {"start", "armed"}
    BY <2>1, TailElements DEF QueueAgrees
  <2>3. CASE /\ child' = [child EXCEPT ![Head(events)] = "held"]
             /\ holder' = [holder EXCEPT ![o] = {Head(events)}]
    BY <2>1, <2>2, <2>3, Take
  <2>4. CASE /\ child' = [child EXCEPT ![Head(events)] = "leaked"]
             /\ UNCHANGED holder
    <3>1. child[Head(events)] = "queued"
      BY <2>1, <2>2, TailElements DEF QueuedOnce
    <3>2. QED
      BY <2>1, <2>2, <2>4, <3>1 DEF HeldOnce, ValuesOK
  <2>5. QED
    BY <1>11, <2>3, <2>4 DEF TakeRequest
<1>12. ASSUME NEW c \in Children, ConnectRequest(c) PROVE HeldOnce'
  BY <1>12 DEF ConnectRequest, Arrive, listener, HeldOnce, ValuesOK,
     BackendAgrees, QueueAgrees, HandleAgrees, QueuedOnce
<1>13. ASSUME NEW o \in GetOps, GetConnectionRequest(o) PROVE HeldOnce'
  BY <1>13 DEF GetConnectionRequest, Initiate, listener, reactor, HeldOnce
<1>14. ASSUME NEW o \in GetOps, StartOp(o) PROVE HeldOnce'
  BY <1>14 DEF StartOp, listener, HeldOnce
<1>15. ASSUME NEW o \in GetOps, CancelByKey(o) PROVE HeldOnce'
  BY <1>15 DEF CancelByKey, listener, reactor, HeldOnce
<1>16. ASSUME NEW o \in GetOps, GetEventError(o) PROVE HeldOnce'
  BY <1>16 DEF GetEventError, Spend, listener, reactor, HeldOnce
<1>17. ASSUME NEW o \in GetOps, Complete(o) PROVE HeldOnce'
  BY <1>17, DeliverHeld DEF Complete
<1>18. ASSUME NdOpen, UNCHANGED reactor PROVE HeldOnce'
  BY <1>18 DEF NdOpen, OpenListener, reactor, HeldOnce
<1>19. ASSUME NdMove, UNCHANGED reactor PROVE HeldOnce'
  BY <1>19 DEF NdMove, MoveListener, Spend, reactor, HeldOnce
<1>20. ASSUME NdBind, UNCHANGED reactor PROVE HeldOnce'
  BY <1>20 DEF NdBind, BindListener, reactor, HeldOnce
<1>21. ASSUME NdListen, UNCHANGED reactor PROVE HeldOnce'
  BY <1>21 DEF NdListen, ListenListener, reactor, HeldOnce
<1>22. ASSUME NdCancel, UNCHANGED reactor PROVE HeldOnce'
  BY <1>22 DEF NdCancel, listener, reactor, HeldOnce
<1>23. ASSUME NdDestroy, UNCHANGED reactor PROVE HeldOnce'
  BY <1>23 DEF NdDestroy, DestroyListener, AbortAll, EndAborted, Ended,
     Queued, reactor, HeldOnce, ValuesOK, BackendAgrees, QueueAgrees,
     HandleAgrees, QueuedOnce
<1>24. ASSUME NdMatch, UNCHANGED reactor PROVE HeldOnce'
  <2>1. /\ events # <<>> /\ rq # <<>> /\ backend = "nd"
        /\ events \in Seq(Children \cup {Other}) /\ rq \in Seq(GetOps)
    BY <1>24 DEF NdMatch, ValuesOK
  <2>2. /\ Head(events) \in Children /\ Head(rq) \in GetOps
        /\ phase[Head(rq)] \in {"start", "armed"}
    BY <2>1, TailElements DEF BackendAgrees, QueueAgrees
  <2>3. /\ events' = Tail(events) /\ UNCHANGED conn
        /\ child' = [child EXCEPT ![Head(events)] = "held"]
        /\ holder' = [holder EXCEPT ![Head(rq)] = {Head(events)}]
    BY <1>24 DEF NdMatch, NdEnd, ValuesOK
  <2>4. QED
    BY <2>1, <2>2, <2>3, Take
<1>25. ASSUME NEW c \in Children, NdArrive(c), UNCHANGED reactor
       PROVE  HeldOnce'
  BY <1>25 DEF NdArrive, Arrive, listener, reactor, HeldOnce, ValuesOK,
     BackendAgrees, QueueAgrees, HandleAgrees, QueuedOnce
<1>26. ASSUME NEW o \in GetOps, NdGetConnectionRequest(o), UNCHANGED reactor
   PROVE HeldOnce'
  <2>1. CASE UNCHANGED <<events, child, holder>>
    BY <1>26, <2>1 DEF NdGetConnectionRequest, HeldOnce
  <2>2. CASE /\ events # <<>> /\ backend = "nd" /\ phase[o] = "none"
             /\ events' = Tail(events) /\ UNCHANGED conn
             /\ child' = [child EXCEPT ![Head(events)] = "held"]
             /\ holder' = [holder EXCEPT ![o] = {Head(events)}]
    <3>1. Head(events) \in Children
      BY <2>2, TailElements DEF BackendAgrees, ValuesOK
    <3>2. QED
      BY <2>2, <3>1, Take
  <2>3. QED
    BY <1>26, <2>1, <2>2 DEF NdGetConnectionRequest, Initiate
<1>27. ASSUME NEW o \in GetOps, NdOnPending(o), UNCHANGED reactor
       PROVE  HeldOnce'
  BY <1>27 DEF NdOnPending, listener, reactor, HeldOnce
<1>28. ASSUME NEW o \in GetOps, NdPendingFails(o), UNCHANGED reactor
       PROVE  HeldOnce'
  BY <1>28 DEF NdPendingFails, Unqueue, NdEnd, Ended, Spend, Queued, listener,
     reactor, HeldOnce, ValuesOK, BackendAgrees, QueueAgrees, HandleAgrees,
     QueuedOnce
<1>29. ASSUME NEW o \in GetOps, NdCancelByKey(o), UNCHANGED reactor
       PROVE  HeldOnce'
  BY <1>29 DEF NdCancelByKey, listener, reactor, HeldOnce
<1>30. ASSUME NEW o \in GetOps, NdComplete(o), UNCHANGED reactor
       PROVE  HeldOnce'
  BY <1>30, DeliverHeld DEF NdComplete
<1>31. CASE UNCHANGED vars
  BY <1>31 DEF vars, service, listener, reactor, HeldOnce
<1>32. QED
  BY <1>1, <1>2, <1>3, <1>4, <1>5, <1>6, <1>7, <1>8, <1>9, <1>10, <1>11,
     <1>12, <1>13, <1>14, <1>15, <1>16, <1>17, <1>18, <1>19, <1>20, <1>21,
     <1>22, <1>23, <1>24, <1>25, <1>26, <1>27, <1>28, <1>29, <1>30, <1>31 DEF
     Next, IbvNext, NdNext, ReactorStep

(* A connector takes the request of an operation only if it has none. *)
LEMMA DeliverTaken ==
  ASSUME ValuesOK, HandleAgrees, HeldOnce, TakenOnce, NEW o \in GetOps, Deliver(o)
  PROVE  TakenOnce'
<1>1. PICK e \in Codes(o) :
        /\ child' = [c \in Children |->
                       IF c \notin holder[o] THEN child[c]
                       ELSE IF e = "ok" THEN "connector" ELSE "destroyed"]
        /\ conn' = IF e # "ok" \/ holder[o] = {} THEN conn
                   ELSE [conn EXCEPT ![Connector(o)] = CHOOSE c \in holder[o] : TRUE]
  BY DEF Deliver
<1>2. \A c \in holder[o] : c \in Children /\ child[c] = "held"
  BY DEF ValuesOK, HeldOnce
<1>3. CASE e # "ok" \/ holder[o] = {}
  BY <1>1, <1>2, <1>3 DEF TakenOnce
<1>4. CASE e = "ok" /\ holder[o] # {}
  <2>1. PICK c \in holder[o] : conn' = [conn EXCEPT ![Connector(o)] = c]
    BY <1>1, <1>4
  <2>2. holder[o] = {c} /\ c \in Children /\ child[c] = "held"
    BY <1>2, <2>1 DEF HandleAgrees
  <2>3. phase[o] = "posted"
    BY DEF Deliver
  <2>4. Connector(o) \in GetOps \cup Fills /\ conn[Connector(o)] = None
    BY <1>1, <1>4, <2>3 DEF Connector, Codes, Assigned, HandleAgrees, ValuesOK
  <2>5. /\ conn'[Connector(o)] = c
        /\ \A x \in (GetOps \cup Fills) \ {Connector(o)} : conn'[x] = conn[x]
        /\ child'[c] = "connector"
        /\ \A d \in Children \ {c} : child'[d] = child[d]
    BY <1>1, <1>4, <2>1, <2>2, <2>4 DEF ValuesOK
  <2>6. \A x \in GetOps \cup Fills : conn[x] # c
    BY <2>2 DEF TakenOnce
  <2>7. QED
    BY <2>2, <2>4, <2>5, <2>6, OtherAssumption DEF TakenOnce
<1>5. QED
  BY <1>3, <1>4

(* A request is owned by one connector. *)
LEMMA TakenStep ==
  ValuesOK /\ BackendAgrees /\ QueueAgrees /\ HandleAgrees /\ QueuedOnce /\
     HeldOnce /\ TakenOnce /\ [Next]_vars => TakenOnce'
<1> SUFFICES ASSUME ValuesOK, BackendAgrees, QueueAgrees, HandleAgrees,
                    QueuedOnce, HeldOnce, TakenOnce, [Next]_vars
             PROVE  TakenOnce'
  OBVIOUS
<1>1. ASSUME Open PROVE TakenOnce'
  BY <1>1 DEF Open, OpenListener, reactor, TakenOnce
<1>2. ASSUME Move PROVE TakenOnce'
  BY <1>2 DEF Move, MoveListener, Spend, reactor, TakenOnce
<1>3. ASSUME Bind PROVE TakenOnce'
  BY <1>3 DEF Bind, BindListener, reactor, TakenOnce
<1>4. ASSUME Listen PROVE TakenOnce'
  BY <1>4 DEF Listen, ListenListener, reactor, TakenOnce
<1>5. ASSUME Cancel PROVE TakenOnce'
  BY <1>5 DEF Cancel, listener, reactor, TakenOnce
<1>6. ASSUME Destroy PROVE TakenOnce'
  BY <1>6 DEF Destroy, DestroyListener, AbortAll, EndAborted, Ended, Queued,
     TakenOnce, ValuesOK, BackendAgrees, QueueAgrees, HandleAgrees,
     QueuedOnce, HeldOnce
<1>7. ASSUME OtherEvent PROVE TakenOnce'
  BY <1>7 DEF OtherEvent, Spend, listener, TakenOnce
<1>8. ASSUME PerformIo PROVE TakenOnce'
  BY <1>8 DEF PerformIo, service, listener, TakenOnce
<1>9. ASSUME PerformIoEnd PROVE TakenOnce'
  BY <1>9 DEF PerformIoEnd, service, listener, TakenOnce
<1>10. ASSUME NEW o \in GetOps, TakeOther(o) PROVE TakenOnce'
  BY <1>10 DEF TakeOther, listener, reactor, TakenOnce
<1>11. ASSUME NEW o \in GetOps, TakeRequest(o) PROVE TakenOnce'
  <2>1. /\ events # <<>> /\ rq # <<>> /\ Head(events) # Other /\ Head(rq) = o
        /\ events' = Tail(events) /\ rpc = "loop" /\ UNCHANGED conn
        /\ events \in Seq(Children \cup {Other}) /\ rq \in Seq(GetOps)
    BY <1>11 DEF TakeRequest, Front, ValuesOK
  <2>2. Head(events) \in Children /\ phase[o] \in {"start", "armed"}
    BY <2>1, TailElements DEF QueueAgrees
  <2>3. CASE /\ child' = [child EXCEPT ![Head(events)] = "held"]
             /\ holder' = [holder EXCEPT ![o] = {Head(events)}]
    BY <2>1, <2>2, <2>3, Take
  <2>4. CASE /\ child' = [child EXCEPT ![Head(events)] = "leaked"]
             /\ UNCHANGED holder
    <3>1. child[Head(events)] = "queued"
      BY <2>1, <2>2, TailElements DEF QueuedOnce
    <3>2. QED
      BY <2>1, <2>2, <2>4, <3>1 DEF TakenOnce, ValuesOK
  <2>5. QED
    BY <1>11, <2>3, <2>4 DEF TakeRequest
<1>12. ASSUME NEW c \in Children, ConnectRequest(c) PROVE TakenOnce'
  BY <1>12 DEF ConnectRequest, Arrive, listener, TakenOnce, ValuesOK,
     BackendAgrees, QueueAgrees, HandleAgrees, QueuedOnce, HeldOnce
<1>13. ASSUME NEW o \in GetOps, GetConnectionRequest(o) PROVE TakenOnce'
  BY <1>13 DEF GetConnectionRequest, Initiate, listener, reactor, TakenOnce
<1>14. ASSUME NEW o \in GetOps, StartOp(o) PROVE TakenOnce'
  BY <1>14 DEF StartOp, listener, TakenOnce
<1>15. ASSUME NEW o \in GetOps, CancelByKey(o) PROVE TakenOnce'
  BY <1>15 DEF CancelByKey, listener, reactor, TakenOnce
<1>16. ASSUME NEW o \in GetOps, GetEventError(o) PROVE TakenOnce'
  BY <1>16 DEF GetEventError, Spend, listener, reactor, TakenOnce
<1>17. ASSUME NEW o \in GetOps, Complete(o) PROVE TakenOnce'
  BY <1>17, DeliverTaken DEF Complete
<1>18. ASSUME NdOpen, UNCHANGED reactor PROVE TakenOnce'
  BY <1>18 DEF NdOpen, OpenListener, reactor, TakenOnce
<1>19. ASSUME NdMove, UNCHANGED reactor PROVE TakenOnce'
  BY <1>19 DEF NdMove, MoveListener, Spend, reactor, TakenOnce
<1>20. ASSUME NdBind, UNCHANGED reactor PROVE TakenOnce'
  BY <1>20 DEF NdBind, BindListener, reactor, TakenOnce
<1>21. ASSUME NdListen, UNCHANGED reactor PROVE TakenOnce'
  BY <1>21 DEF NdListen, ListenListener, reactor, TakenOnce
<1>22. ASSUME NdCancel, UNCHANGED reactor PROVE TakenOnce'
  BY <1>22 DEF NdCancel, listener, reactor, TakenOnce
<1>23. ASSUME NdDestroy, UNCHANGED reactor PROVE TakenOnce'
  BY <1>23 DEF NdDestroy, DestroyListener, AbortAll, EndAborted, Ended,
     Queued, reactor, TakenOnce, ValuesOK, BackendAgrees, QueueAgrees,
     HandleAgrees, QueuedOnce, HeldOnce
<1>24. ASSUME NdMatch, UNCHANGED reactor PROVE TakenOnce'
  <2>1. /\ events # <<>> /\ rq # <<>> /\ backend = "nd"
        /\ events \in Seq(Children \cup {Other}) /\ rq \in Seq(GetOps)
    BY <1>24 DEF NdMatch, ValuesOK
  <2>2. /\ Head(events) \in Children /\ Head(rq) \in GetOps
        /\ phase[Head(rq)] \in {"start", "armed"}
    BY <2>1, TailElements DEF BackendAgrees, QueueAgrees
  <2>3. /\ events' = Tail(events) /\ UNCHANGED conn
        /\ child' = [child EXCEPT ![Head(events)] = "held"]
        /\ holder' = [holder EXCEPT ![Head(rq)] = {Head(events)}]
    BY <1>24 DEF NdMatch, NdEnd, ValuesOK
  <2>4. QED
    BY <2>1, <2>2, <2>3, Take
<1>25. ASSUME NEW c \in Children, NdArrive(c), UNCHANGED reactor
       PROVE  TakenOnce'
  BY <1>25 DEF NdArrive, Arrive, listener, reactor, TakenOnce, ValuesOK,
     BackendAgrees, QueueAgrees, HandleAgrees, QueuedOnce, HeldOnce
<1>26. ASSUME NEW o \in GetOps, NdGetConnectionRequest(o), UNCHANGED reactor
   PROVE TakenOnce'
  <2>1. CASE UNCHANGED <<events, child, holder>>
    BY <1>26, <2>1 DEF NdGetConnectionRequest, TakenOnce
  <2>2. CASE /\ events # <<>> /\ backend = "nd" /\ phase[o] = "none"
             /\ events' = Tail(events) /\ UNCHANGED conn
             /\ child' = [child EXCEPT ![Head(events)] = "held"]
             /\ holder' = [holder EXCEPT ![o] = {Head(events)}]
    <3>1. Head(events) \in Children
      BY <2>2, TailElements DEF BackendAgrees, ValuesOK
    <3>2. QED
      BY <2>2, <3>1, Take
  <2>3. QED
    BY <1>26, <2>1, <2>2 DEF NdGetConnectionRequest, Initiate
<1>27. ASSUME NEW o \in GetOps, NdOnPending(o), UNCHANGED reactor
       PROVE  TakenOnce'
  BY <1>27 DEF NdOnPending, listener, reactor, TakenOnce
<1>28. ASSUME NEW o \in GetOps, NdPendingFails(o), UNCHANGED reactor
       PROVE  TakenOnce'
  BY <1>28 DEF NdPendingFails, Unqueue, NdEnd, Ended, Spend, Queued, listener,
     reactor, TakenOnce, ValuesOK, BackendAgrees, QueueAgrees, HandleAgrees,
     QueuedOnce, HeldOnce
<1>29. ASSUME NEW o \in GetOps, NdCancelByKey(o), UNCHANGED reactor
       PROVE  TakenOnce'
  BY <1>29 DEF NdCancelByKey, listener, reactor, TakenOnce
<1>30. ASSUME NEW o \in GetOps, NdComplete(o), UNCHANGED reactor
       PROVE  TakenOnce'
  BY <1>30, DeliverTaken DEF NdComplete
<1>31. CASE UNCHANGED vars
  BY <1>31 DEF vars, service, listener, reactor, TakenOnce
<1>32. QED
  BY <1>1, <1>2, <1>3, <1>4, <1>5, <1>6, <1>7, <1>8, <1>9, <1>10, <1>11,
     <1>12, <1>13, <1>14, <1>15, <1>16, <1>17, <1>18, <1>19, <1>20, <1>21,
     <1>22, <1>23, <1>24, <1>25, <1>26, <1>27, <1>28, <1>29, <1>30, <1>31 DEF
     Next, IbvNext, NdNext, ReactorStep

(* A leak is paid for. *)
LEMMA LeakStep ==
  ValuesOK /\ LeakHasCause /\ [Next]_vars => LeakHasCause'
<1> SUFFICES ASSUME ValuesOK, LeakHasCause, [Next]_vars
             PROVE  LeakHasCause'
  OBVIOUS
<1>1. ASSUME Open PROVE LeakHasCause'
  BY <1>1 DEF Open, OpenListener, reactor, LeakHasCause
<1>2. ASSUME Move PROVE LeakHasCause'
  BY <1>2 DEF Move, MoveListener, Spend, reactor, LeakHasCause, ValuesOK
<1>3. ASSUME Bind PROVE LeakHasCause'
  BY <1>3 DEF Bind, BindListener, reactor, LeakHasCause
<1>4. ASSUME Listen PROVE LeakHasCause'
  BY <1>4 DEF Listen, ListenListener, reactor, LeakHasCause
<1>5. ASSUME Cancel PROVE LeakHasCause'
  BY <1>5 DEF Cancel, listener, reactor, LeakHasCause
<1>6. ASSUME Destroy PROVE LeakHasCause'
  BY <1>6 DEF Destroy, DestroyListener, AbortAll, EndAborted, Ended, Queued,
     LeakHasCause, ValuesOK
<1>7. ASSUME OtherEvent PROVE LeakHasCause'
  BY <1>7 DEF OtherEvent, Spend, listener, LeakHasCause, ValuesOK
<1>8. ASSUME PerformIo PROVE LeakHasCause'
  BY <1>8 DEF PerformIo, service, listener, LeakHasCause
<1>9. ASSUME PerformIoEnd PROVE LeakHasCause'
  BY <1>9 DEF PerformIoEnd, service, listener, LeakHasCause
<1>10. ASSUME NEW o \in GetOps, TakeOther(o) PROVE LeakHasCause'
  BY <1>10 DEF TakeOther, listener, reactor, LeakHasCause
<1>11. ASSUME NEW o \in GetOps, TakeRequest(o) PROVE LeakHasCause'
  <2>1. Head(events) \in Children
    BY <1>11, TailElements DEF TakeRequest, ValuesOK
  <2>2. CASE /\ child' = [child EXCEPT ![Head(events)] = "leaked"]
             /\ Spend("chan")
    <3>1. left'.chan < MaxChan
      BY <2>2, SpendType
    <3>2. QED
      BY <3>1 DEF LeakHasCause
  <2>3. CASE /\ child' = [child EXCEPT ![Head(events)] = "held"]
             /\ UNCHANGED left \/ Spend("fault")
    <3>1. left'.chan = left.chan
      BY <2>3 DEF Spend, ValuesOK
    <3>2. QED
      BY <2>1, <2>3, <3>1 DEF LeakHasCause, ValuesOK
  <2>4. QED
    BY <1>11, <2>2, <2>3 DEF TakeRequest
<1>12. ASSUME NEW c \in Children, ConnectRequest(c) PROVE LeakHasCause'
  BY <1>12 DEF ConnectRequest, Arrive, listener, LeakHasCause, ValuesOK
<1>13. ASSUME NEW o \in GetOps, GetConnectionRequest(o) PROVE LeakHasCause'
  BY <1>13 DEF GetConnectionRequest, Initiate, listener, reactor, LeakHasCause
<1>14. ASSUME NEW o \in GetOps, StartOp(o) PROVE LeakHasCause'
  BY <1>14 DEF StartOp, listener, LeakHasCause
<1>15. ASSUME NEW o \in GetOps, CancelByKey(o) PROVE LeakHasCause'
  BY <1>15 DEF CancelByKey, listener, reactor, LeakHasCause
<1>16. ASSUME NEW o \in GetOps, GetEventError(o) PROVE LeakHasCause'
  BY <1>16 DEF GetEventError, Front, Retire, Spend, listener, reactor,
     LeakHasCause, ValuesOK
<1>17. ASSUME NEW o \in GetOps, Complete(o) PROVE LeakHasCause'
  BY <1>17 DEF Complete, Deliver, Codes, Assigned, Connector, listener,
     reactor, LeakHasCause, ValuesOK
<1>18. ASSUME NdOpen, UNCHANGED reactor PROVE LeakHasCause'
  BY <1>18 DEF NdOpen, OpenListener, reactor, LeakHasCause
<1>19. ASSUME NdMove, UNCHANGED reactor PROVE LeakHasCause'
  BY <1>19 DEF NdMove, MoveListener, Spend, reactor, LeakHasCause, ValuesOK
<1>20. ASSUME NdBind, UNCHANGED reactor PROVE LeakHasCause'
  BY <1>20 DEF NdBind, BindListener, reactor, LeakHasCause
<1>21. ASSUME NdListen, UNCHANGED reactor PROVE LeakHasCause'
  BY <1>21 DEF NdListen, ListenListener, reactor, LeakHasCause
<1>22. ASSUME NdCancel, UNCHANGED reactor PROVE LeakHasCause'
  BY <1>22 DEF NdCancel, listener, reactor, LeakHasCause
<1>23. ASSUME NdDestroy, UNCHANGED reactor PROVE LeakHasCause'
  BY <1>23 DEF NdDestroy, DestroyListener, AbortAll, EndAborted, Ended,
     Queued, reactor, LeakHasCause, ValuesOK
<1>24. ASSUME NdMatch, UNCHANGED reactor PROVE LeakHasCause'
  BY <1>24 DEF NdMatch, NdEnd, Ended, listener, reactor, LeakHasCause,
     ValuesOK
<1>25. ASSUME NEW c \in Children, NdArrive(c), UNCHANGED reactor
       PROVE  LeakHasCause'
  BY <1>25 DEF NdArrive, Arrive, listener, reactor, LeakHasCause, ValuesOK
<1>26. ASSUME NEW o \in GetOps, NdGetConnectionRequest(o), UNCHANGED reactor
   PROVE LeakHasCause'
  BY <1>26 DEF NdGetConnectionRequest, Initiate, Spend, listener, reactor,
     LeakHasCause, ValuesOK
<1>27. ASSUME NEW o \in GetOps, NdOnPending(o), UNCHANGED reactor
       PROVE  LeakHasCause'
  BY <1>27 DEF NdOnPending, listener, reactor, LeakHasCause
<1>28. ASSUME NEW o \in GetOps, NdPendingFails(o), UNCHANGED reactor
       PROVE  LeakHasCause'
  BY <1>28 DEF NdPendingFails, Unqueue, NdEnd, Ended, Spend, Queued, listener,
     reactor, LeakHasCause, ValuesOK
<1>29. ASSUME NEW o \in GetOps, NdCancelByKey(o), UNCHANGED reactor
       PROVE  LeakHasCause'
  BY <1>29 DEF NdCancelByKey, listener, reactor, LeakHasCause
<1>30. ASSUME NEW o \in GetOps, NdComplete(o), UNCHANGED reactor
       PROVE  LeakHasCause'
  BY <1>30 DEF NdComplete, Deliver, Codes, Assigned, Connector, listener,
     reactor, LeakHasCause, ValuesOK
<1>31. CASE UNCHANGED vars
  BY <1>31 DEF vars, service, listener, reactor, LeakHasCause
<1>32. QED
  BY <1>1, <1>2, <1>3, <1>4, <1>5, <1>6, <1>7, <1>8, <1>9, <1>10, <1>11,
     <1>12, <1>13, <1>14, <1>15, <1>16, <1>17, <1>18, <1>19, <1>20, <1>21,
     <1>22, <1>23, <1>24, <1>25, <1>26, <1>27, <1>28, <1>29, <1>30, <1>31 DEF
     Next, IbvNext, NdNext, ReactorStep

-----------------------------------------------------------------------------
(* The inductive invariant holds in every reachable state. *)
LEMMA Invariant == Spec => []ListenerInv
<1>1. ListenerInv /\ [Next]_vars => ListenerInv'
  <2> SUFFICES ASSUME ListenerInv, [Next]_vars PROVE ListenerInv'
    OBVIOUS
  <2>1. /\ FlagsOK /\ ValuesOK /\ BackendAgrees /\ QueueAgrees /\ HandleAgrees
        /\ QueuedOnce /\ HeldOnce /\ TakenOnce /\ LeakHasCause
    BY DEF ListenerInv
  <2>2. FlagsOK' /\ ValuesOK' /\ BackendAgrees'
    BY <2>1, FlagsStep, ValuesStep, BackendStep
  <2>3. QueueAgrees' /\ HandleAgrees'
    BY <2>1, QueueStep, HandleStep
  <2>4. QueuedOnce' /\ HeldOnce' /\ TakenOnce' /\ LeakHasCause'
    BY <2>1, QueuedStep, HeldStep, TakenStep, LeakStep
  <2>5. QED
    BY <2>2, <2>3, <2>4 DEF ListenerInv
<1>2. QED
  BY InitInv, <1>1, PTL DEF Spec

(* Every variable keeps its type, and an operation waits at the listener   *)
(* once, exactly while it is armed or its initiating call runs: neither a  *)
(* cancellation, nor a move, nor the destructor loses or doubles it.       *)
THEOREM ListenerTypeCorrect == Spec => []TypeOK
<1>1. ListenerInv => TypeOK
  <2> SUFFICES ASSUME ListenerInv PROVE TypeOK
    OBVIOUS
  <2>1. \A o \in GetOps : o \in Queued <=> \E i \in 1..Len(rq) : rq[i] = o
    BY DEF Queued
  <2>2. QED
    BY <2>1 DEF ListenerInv, QueueAgrees, TypeOK
<1>2. QED
  BY <1>1, Invariant, PTL

(* Every connection request has exactly one owner on its way from the       *)
(* listener's queue through an operation to a connector, whichever of       *)
(* cancel(), a cancellation slot, the destructor, a failing native call or  *)
(* a connector that is open already gets in between; only the failure of    *)
(* rdma_create_event_channel leaves it without one.                         *)
THEOREM RequestsOwnedOnce == Spec => []OneOwner
<1>1. ASSUME ListenerInv, NEW c \in Children
      PROVE  LET queued == {i \in 1..Len(events) : events[i] = c}
                 ops == {o \in GetOps : c \in holder[o]}
                 conns == {x \in GetOps \cup Fills : conn[x] = c}
             IN
             /\ (child[c] = "queued") <=> (\E i \in queued : queued = {i})
             /\ (child[c] = "held") <=> (\E o \in ops : ops = {o})
             /\ (child[c] = "connector") <=> (\E x \in conns : conns = {x})
             /\ child[c] # "queued" => queued = {}
             /\ child[c] # "held" => ops = {}
             /\ child[c] # "connector" => conns = {}
             /\ child[c] = "leaked" => left.chan < MaxChan
  <2> DEFINE queued == {i \in 1..Len(events) : events[i] = c}
             ops == {o \in GetOps : c \in holder[o]}
             conns == {x \in GetOps \cup Fills : conn[x] = c}
  <2>1. /\ (child[c] = "queued") <=> (\E i \in queued : queued = {i})
        /\ child[c] # "queued" => queued = {}
    BY <1>1 DEF ListenerInv, QueuedOnce
  <2>2. /\ (child[c] = "held") <=> (\E o \in ops : ops = {o})
        /\ child[c] # "held" => ops = {}
    BY <1>1 DEF ListenerInv, HeldOnce
  <2>3. /\ (child[c] = "connector") <=> (\E x \in conns : conns = {x})
        /\ child[c] # "connector" => conns = {}
    BY <1>1 DEF ListenerInv, TakenOnce
  <2>4. child[c] = "leaked" => left.chan < MaxChan
    BY <1>1 DEF ListenerInv, LeakHasCause
  <2>5. QED
    BY <2>1, <2>2, <2>3, <2>4
<1>2. ListenerInv => OneOwner
  BY <1>1 DEF OneOwner
<1>3. QED
  BY <1>2, Invariant, PTL
-----------------------------------------------------------------------------
(* The handlers account for the requests. *)

\* An operation has no code before it ends.
WaitingHasNoCode ==
  \A o \in GetOps : phase[o] \in {"none", "start", "armed"} => ec[o] = "none"

\* The requests that are lost, or will be when the operation that holds them
\* completes.  Each is on the account of an operation that fails: of its
\* holder, while it has one.
Gone == Lost \cup {c \in Children : \E o \in GetOps : c \in holder[o] /\ ec[o] # "ok"}
Blamed ==
  \E by \in [Gone -> Failed] :
    /\ \A c, d \in Gone : by[c] = by[d] => c = d
    /\ \A c \in Gone : \A o \in GetOps : c \in holder[o] => by[c] = o

Account == WinsAgree /\ WaitingHasNoCode /\ Blamed

LEMMA InitAccount == Init => Account
<1> SUFFICES ASSUME Init PROVE Account
  OBVIOUS
<1> USE DEF Init, ServiceInit
<1>1. WinsAgree
  BY DEF WinsAgree, Won
<1>2. WaitingHasNoCode
  BY DEF WaitingHasNoCode
<1>3. Gone = {}
  BY DEF Gone, Lost
<1>4. [c \in Gone |-> Gone] \in [Gone -> Failed]
  BY <1>3
<1>5. Blamed
  BY <1>3, <1>4 DEF Blamed
<1>6. QED
  BY <1>1, <1>2, <1>5 DEF Account

(* At most one more request is on the account, of an operation that did not *)
(* fail before.                                                             *)
LEMMA BlameStep ==
  ASSUME Blamed, NEW o, Failed \subseteq Failed',
         \A c, d \in Gone' \ Gone : c = d,
         Gone' \subseteq Gone \/ o \in Failed' \ Failed,
         \A c \in Gone' : \A p \in GetOps :
           c \in holder'[p] => IF c \in Gone THEN c \in holder[p] ELSE p = o
  PROVE  Blamed'
<1>1. PICK by \in [Gone -> Failed] :
        /\ \A c, d \in Gone : by[c] = by[d] => c = d
        /\ \A c \in Gone : \A p \in GetOps : c \in holder[p] => by[c] = p
  BY DEF Blamed
<1> DEFINE new == [c \in Gone' |-> IF c \in Gone THEN by[c] ELSE o]
<1>2. new \in [Gone' -> Failed']
  BY <1>1
<1>3. \A c, d \in Gone' : new[c] = new[d] => c = d
  BY <1>1
<1>4. \A c \in Gone' : \A p \in GetOps : c \in holder'[p] => new[c] = p
  BY <1>1
<1> HIDE DEF new
<1>5. \E f \in [Gone' -> Failed'] :
        /\ \A c, d \in Gone' : f[c] = f[d] => c = d
        /\ \A c \in Gone' : \A p \in GetOps : c \in holder'[p] => f[c] = p
  BY <1>2, <1>3, <1>4
<1>6. QED
  BY <1>5 DEF Blamed

\* A step that runs no handler, and one that takes no request either.
NoHandler ==
  /\ conn' = conn
  /\ \A p \in GetOps : phase'[p] = "done" <=> phase[p] = "done"
  /\ \A p \in GetOps : phase[p] = "done" => ec'[p] = ec[p] /\ form'[p] = form[p]
  /\ \A p \in GetOps : phase'[p] \in {"none", "start", "armed"} => ec'[p] = "none"
Calm ==
  /\ holder' = holder
  /\ \A p \in GetOps : ec'[p] = ec[p] \/ (ec[p] = "none" /\ holder[p] = {})
  /\ \A c \in Children : child'[c] \in {"destroyed", "leaked"} => child'[c] = child[c]

LEMMA NoHandlerStep ==
  ASSUME WinsAgree, NoHandler
  PROVE  WinsAgree' /\ WaitingHasNoCode'
<1>1. Won' = Won
  BY DEF NoHandler, Won
<1>2. \A p \in Won : Connector(p)' = Connector(p)
  BY DEF NoHandler, Won, Connector
<1>3. conn' = conn
  BY DEF NoHandler
<1>4. WinsAgree'
  BY <1>1, <1>2, <1>3 DEF WinsAgree
<1>5. QED
  BY <1>4 DEF NoHandler, WaitingHasNoCode

LEMMA CalmStep ==
  ASSUME Account, NoHandler, Calm
  PROVE  Account'
<1>1. WinsAgree' /\ WaitingHasNoCode'
  BY NoHandlerStep DEF Account
<1>2. Failed \subseteq Failed'
  BY DEF Calm, Failed
<1>3. Gone' \subseteq Gone
  <2>1. Lost' \subseteq Lost
    BY DEF Calm, Lost
  <2>2. QED
    BY <2>1 DEF Calm, Gone
<1>4. \A c \in Gone' : \A p \in GetOps : c \in holder'[p] => c \in holder[p]
  BY DEF Calm
<1>5. Blamed
  BY DEF Account
<1>6. Blamed'
  BY <1>2, <1>3, <1>4, <1>5, BlameStep
<1>7. QED
  BY <1>1, <1>6 DEF Account

(* The first request is taken by an operation that waited: it succeeds, or *)
(* fails with the request on its account.                                   *)
LEMMA TakeStep ==
  ASSUME ValuesOK, HandleAgrees, QueuedOnce, HeldOnce, Account,
         NEW o \in GetOps, events # <<>>, Head(events) \in Children,
         phase[o] \in {"none", "start", "armed"}, NoHandler,
         \A p \in GetOps \ {o} : ec'[p] = ec[p] /\ holder'[p] = holder[p],
         holder'[o] \subseteq {Head(events)}, ec'[o] # "none",
         \A c \in Children \ {Head(events)} : child'[c] = child[c],
         ec'[o] = "ok" => child'[Head(events)] = "held"
  PROVE  Account'
<1> DEFINE c == Head(events)
<1>1. child[c] = "queued"
  BY TailElements DEF ValuesOK, QueuedOnce
<1>2. holder[o] = {} /\ ec[o] = "none"
  BY DEF HandleAgrees, Account, WaitingHasNoCode
<1> HIDE DEF c
<1>3. c \notin Gone /\ \A p \in GetOps : c \notin holder[p]
  <2>1. c \in Children
    BY DEF c
  <2>2. QED
    BY <1>1, <2>1 DEF Gone, Lost, HeldOnce
<1>4. Failed \subseteq Failed' /\ o \notin Failed
  BY <1>2 DEF Failed
<1>5. Gone' \subseteq Gone \cup {c}
  BY <1>2 DEF Gone, Lost, c
<1>6. Gone' \subseteq Gone \/ o \in Failed'
  <2>1. CASE ec'[o] = "ok"
    <3>1. c \notin Gone'
      BY <1>3, <2>1 DEF Gone, Lost, c
    <3>2. QED
      BY <1>5, <3>1
  <2>2. CASE ec'[o] # "ok"
    BY <2>2 DEF Failed
  <2>3. QED
    BY <2>1, <2>2
<1>7. \A d \in Gone' : \A p \in GetOps :
        d \in holder'[p] => IF d \in Gone THEN d \in holder[p] ELSE p = o
  BY <1>3, <1>5 DEF c
<1>8. Blamed
  BY DEF Account
<1>9. Blamed'
  BY <1>3, <1>4, <1>5, <1>6, <1>7, <1>8, BlameStep
<1>10. WinsAgree' /\ WaitingHasNoCode'
  BY NoHandlerStep DEF Account
<1>11. QED
  BY <1>9, <1>10 DEF Account

(* A completion hands the request to the connector and succeeds, or         *)
(* releases it and fails, or brings the error the operation ended with.     *)
LEMMA DeliverStep ==
  ASSUME ValuesOK, HandleAgrees, HeldOnce, Account, NEW o \in GetOps, Deliver(o)
  PROVE  Account'
<1>1. PICK e \in Codes(o) :
        /\ ec' = [ec EXCEPT ![o] = e]
        /\ child' = [c \in Children |->
                       IF c \notin holder[o] THEN child[c]
                       ELSE IF e = "ok" THEN "connector" ELSE "destroyed"]
        /\ conn' = IF e # "ok" \/ holder[o] = {} THEN conn
                   ELSE [conn EXCEPT ![Connector(o)] = CHOOSE c \in holder[o] : TRUE]
  BY DEF Deliver
<1>2. /\ phase[o] = "posted" /\ phase' = [phase EXCEPT ![o] = "done"]
      /\ holder' = [holder EXCEPT ![o] = {}] /\ form' = form
  BY DEF Deliver
<1>3. /\ phase'[o] = "done" /\ ec'[o] = e /\ holder'[o] = {}
      /\ \A p \in GetOps \ {o} :
           phase'[p] = phase[p] /\ ec'[p] = ec[p] /\ holder'[p] = holder[p]
  BY <1>1, <1>2 DEF ValuesOK
<1>4. /\ \A c \in holder[o] : child[c] = "held"
      /\ \A c, d \in holder[o] : c = d
      /\ \A c \in Children \ holder[o] : child'[c] = child[c]
  BY <1>1 DEF HeldOnce, HandleAgrees, ValuesOK
<1>5. WaitingHasNoCode'
  BY <1>3 DEF Account, WaitingHasNoCode
<1>6. \A p \in GetOps : Connector(p)' = Connector(p) /\ Connector(p) \in GetOps \cup Fills
  BY <1>2 DEF Connector, ValuesOK
<1>7. WinsAgree'
  <2>1. CASE e # "ok"
    <3>1. Won' = Won
      BY <1>2, <1>3, <2>1 DEF Won
    <3>2. conn' = conn
      BY <1>1, <2>1
    <3>3. QED
      BY <1>6, <3>1, <3>2 DEF Account, WinsAgree, Won
  <2>2. CASE e = "ok"
    <3>1. ec[o] = "ok" /\ e \in Assigned(o)
      BY <1>1, <2>2 DEF Codes
    <3>2. holder[o] # {} /\ conn[Connector(o)] = None
      BY <1>2, <2>2, <3>1 DEF Assigned, Connector, HandleAgrees
    <3>3. PICK c \in holder[o] : conn' = [conn EXCEPT ![Connector(o)] = c]
      BY <1>1, <2>2, <3>2
    <3>4. c # None
      BY <3>3, OtherAssumption DEF ValuesOK
    <3>5. /\ conn'[Connector(o)] = c
          /\ \A x \in (GetOps \cup Fills) \ {Connector(o)} : conn'[x] = conn[x]
      BY <1>6, <3>3 DEF ValuesOK
    <3>6. Won' = Won \cup {o}
      BY <1>2, <1>3, <2>2 DEF Won
    <3>7. \A p \in Won : p \in GetOps /\ Connector(p) # Connector(o)
      BY <3>2 DEF Account, WinsAgree, Won
    <3>8. \A p \in Won' : conn'[Connector(p)] # None
      BY <1>6, <3>4, <3>5, <3>6, <3>7 DEF Account, WinsAgree
    <3>9. \A p, q \in Won' : Connector(p) = Connector(q) => p = q
      BY <3>6, <3>7 DEF Account, WinsAgree
    <3>10. \A x \in GetOps \cup Fills : conn'[x] # None =>
             \E p \in Won' : Connector(p) = x
      BY <3>5, <3>6 DEF Account, WinsAgree
    <3>11. Won' \subseteq GetOps
      BY DEF Won
    <3>12. QED
      BY <1>6, <3>8, <3>9, <3>10, <3>11 DEF WinsAgree
  <2>3. QED
    BY <2>1, <2>2
<1>8. Failed \subseteq Failed'
  BY <1>1, <1>3 DEF Failed, Codes
<1>9. \A p \in GetOps : holder'[p] \subseteq holder[p]
  BY <1>3
<1>10. Gone' \subseteq Gone \cup holder[o]
  BY <1>3, <1>4 DEF Gone, Lost
<1>11. Gone' \subseteq Gone \/ o \in Failed' \ Failed
  <2>1. CASE ec[o] # "ok"
    BY <1>10, <2>1 DEF Gone, ValuesOK
  <2>2. CASE ec[o] = "ok" /\ e # "ok"
    <3>1. e # "none"
      BY <1>1, <2>2 DEF Codes, Assigned
    <3>2. QED
      BY <1>3, <2>2, <3>1 DEF Failed
  <2>3. CASE ec[o] = "ok" /\ e = "ok"
    <3>1. \A c \in holder[o] : child'[c] = "connector"
      BY <1>1, <2>3 DEF ValuesOK
    <3>2. \A c \in holder[o] : \A p \in GetOps : c \notin holder'[p]
      BY <1>3 DEF HeldOnce
    <3>3. \A c \in holder[o] : c \notin Gone'
      BY <3>1, <3>2 DEF Gone, Lost
    <3>4. QED
      BY <1>10, <3>3
  <2>4. QED
    BY <2>1, <2>2, <2>3
<1>12. \A c \in holder[o] : \A p \in GetOps : c \notin holder'[p]
  BY <1>3 DEF HeldOnce
<1>13. \A c \in Gone' : \A p \in GetOps :
         c \in holder'[p] => IF c \in Gone THEN c \in holder[p] ELSE p = o
  BY <1>9, <1>10, <1>12
<1>14. \A c, d \in Gone' \ Gone : c = d
  BY <1>4, <1>10
<1>15. Blamed
  BY DEF Account
<1>16. Blamed'
  BY <1>8, <1>11, <1>13, <1>14, <1>15, BlameStep
<1>17. QED
  BY <1>5, <1>7, <1>16 DEF Account

(* Every step keeps the account. *)
LEMMA AccountStep == ListenerInv /\ Account /\ [Next]_vars => Account'
<1> SUFFICES ASSUME ListenerInv, Account, [Next]_vars
             PROVE  Account'
  OBVIOUS
<1> ValuesOK /\ BackendAgrees /\ QueueAgrees /\ HandleAgrees
  BY DEF ListenerInv
<1> QueuedOnce /\ HeldOnce
  BY DEF ListenerInv
<1>1. ASSUME Open PROVE Account'
  BY <1>1, CalmStep DEF Open, OpenListener, NoHandler, Calm, ValuesOK,
     HandleAgrees, Account, WaitingHasNoCode
<1>2. ASSUME Move PROVE Account'
  BY <1>2, CalmStep DEF Move, MoveListener, Spend, NoHandler, Calm, ValuesOK,
     HandleAgrees, Account, WaitingHasNoCode
<1>3. ASSUME Bind PROVE Account'
  BY <1>3, CalmStep DEF Bind, BindListener, NoHandler, Calm, ValuesOK,
     HandleAgrees, Account, WaitingHasNoCode
<1>4. ASSUME Listen PROVE Account'
  BY <1>4, CalmStep DEF Listen, ListenListener, NoHandler, Calm, ValuesOK,
     HandleAgrees, Account, WaitingHasNoCode
<1>5. ASSUME Cancel PROVE Account'
  <2>1. \A p \in Queued : p \in GetOps /\ phase[p] \in {"armed", "start"}
    BY DEF Queued, QueueAgrees, ValuesOK
  <2>2. NoHandler
    BY <1>5, <2>1 DEF Cancel, AbortAll, EndAborted, Ended, NoHandler, Account,
       WaitingHasNoCode, ValuesOK
  <2>3. Calm
    BY <1>5, <2>1 DEF Cancel, AbortAll, EndAborted, Ended, Calm, HandleAgrees,
       Account, WaitingHasNoCode, ValuesOK
  <2>4. QED
    BY <2>2, <2>3, CalmStep
<1>6. ASSUME Destroy PROVE Account'
  <2>1. \A p \in Queued : p \in GetOps /\ phase[p] \in {"armed", "start"}
    BY DEF Queued, QueueAgrees, ValuesOK
  <2>2. NoHandler
    BY <1>6, <2>1 DEF Destroy, DestroyListener, AbortAll, EndAborted, Ended,
       NoHandler, Account, WaitingHasNoCode, ValuesOK
  <2>3. Calm
    BY <1>6, <2>1 DEF Destroy, DestroyListener, AbortAll, EndAborted, Ended,
       Calm, HandleAgrees, Account, WaitingHasNoCode, ValuesOK
  <2>4. QED
    BY <2>2, <2>3, CalmStep
<1>7. ASSUME OtherEvent PROVE Account'
  BY <1>7, CalmStep DEF OtherEvent, Spend, listener, NoHandler, Calm,
     ValuesOK, HandleAgrees, Account, WaitingHasNoCode
<1>8. ASSUME PerformIo PROVE Account'
  BY <1>8, CalmStep DEF PerformIo, service, listener, NoHandler, Calm,
     ValuesOK, HandleAgrees, Account, WaitingHasNoCode
<1>9. ASSUME PerformIoEnd PROVE Account'
  BY <1>9, CalmStep DEF PerformIoEnd, service, listener, NoHandler, Calm,
     ValuesOK, HandleAgrees, Account, WaitingHasNoCode
<1>10. ASSUME NEW o \in GetOps, TakeOther(o) PROVE Account'
  <2>1. phase[o] \in {"armed", "start"}
    BY <1>10, TailElements DEF TakeOther, Front, QueueAgrees, ValuesOK
  <2>2. NoHandler
    BY <1>10, <2>1 DEF TakeOther, Front, Retire, NoHandler, Account,
       WaitingHasNoCode, ValuesOK
  <2>3. Calm
    BY <1>10, <2>1 DEF TakeOther, Front, Retire, Calm, HandleAgrees, Account,
       WaitingHasNoCode, ValuesOK
  <2>4. QED
    BY <2>2, <2>3, CalmStep
<1>11. ASSUME NEW o \in GetOps, TakeRequest(o) PROVE Account'
  <2>1. /\ events # <<>> /\ rq # <<>> /\ Head(events) # Other /\ Head(rq) = o
        /\ events \in Seq(Children \cup {Other}) /\ rq \in Seq(GetOps)
    BY <1>11 DEF TakeRequest, Front, ValuesOK
  <2>2. Head(events) \in Children /\ phase[o] \in {"start", "armed"}
    BY <2>1, TailElements DEF QueueAgrees
  <2>3. /\ phase' = [phase EXCEPT ![o] = "posted"]
        /\ conn' = conn /\ form' = form
        /\ ec' = [ec EXCEPT ![o] = "ok"] \/ ec' = [ec EXCEPT ![o] = "error"]
    BY <1>11 DEF TakeRequest, Retire
  <2>4. NoHandler
    BY <2>2, <2>3 DEF NoHandler, Account, WaitingHasNoCode, ValuesOK
  <2>5. CASE /\ child' = [child EXCEPT ![Head(events)] = "held"]
             /\ holder' = [holder EXCEPT ![o] = {Head(events)}]
    BY <2>1, <2>2, <2>3, <2>4, <2>5, TakeStep DEF ValuesOK
  <2>6. CASE /\ child' = [child EXCEPT ![Head(events)] = "leaked"]
             /\ UNCHANGED holder /\ ec' = [ec EXCEPT ![o] = "error"]
    <3>1. holder[o] = {}
      BY <2>2 DEF HandleAgrees
    <3>2. QED
      BY <2>1, <2>2, <2>4, <2>6, <3>1, TakeStep DEF ValuesOK
  <2>7. QED
    BY <1>11, <2>5, <2>6 DEF TakeRequest, Retire
<1>12. ASSUME NEW c \in Children, ConnectRequest(c) PROVE Account'
  BY <1>12, CalmStep DEF ConnectRequest, Arrive, NoHandler, Calm, ValuesOK,
     HandleAgrees, Account, WaitingHasNoCode
<1>13. ASSUME NEW o \in GetOps, GetConnectionRequest(o) PROVE Account'
  BY <1>13, CalmStep DEF GetConnectionRequest, Initiate, NoHandler, Calm,
     ValuesOK, HandleAgrees, Account, WaitingHasNoCode
<1>14. ASSUME NEW o \in GetOps, StartOp(o) PROVE Account'
  BY <1>14, CalmStep DEF StartOp, NoHandler, Calm, ValuesOK, HandleAgrees,
     Account, WaitingHasNoCode
<1>15. ASSUME NEW o \in GetOps, CancelByKey(o) PROVE Account'
  <2>1. phase[o] \in {"armed", "start"}
    BY <1>15 DEF CancelByKey, Queued, QueueAgrees, ValuesOK
  <2>2. NoHandler
    BY <1>15, <2>1 DEF CancelByKey, AbortOne, EndAborted, Ended, NoHandler,
       Account, WaitingHasNoCode, ValuesOK
  <2>3. Calm
    BY <1>15, <2>1 DEF CancelByKey, AbortOne, EndAborted, Ended, Calm,
       HandleAgrees, Account, WaitingHasNoCode, ValuesOK
  <2>4. QED
    BY <2>2, <2>3, CalmStep
<1>16. ASSUME NEW o \in GetOps, GetEventError(o) PROVE Account'
  <2>1. phase[o] \in {"armed", "start"}
    BY <1>16, TailElements DEF GetEventError, Front, QueueAgrees, ValuesOK
  <2>2. NoHandler
    BY <1>16, <2>1 DEF GetEventError, Front, Retire, NoHandler, Account,
       WaitingHasNoCode, ValuesOK
  <2>3. Calm
    BY <1>16, <2>1 DEF GetEventError, Front, Retire, Calm, HandleAgrees,
       Account, WaitingHasNoCode, ValuesOK
  <2>4. QED
    BY <2>2, <2>3, CalmStep
<1>17. ASSUME NEW o \in GetOps, Complete(o) PROVE Account'
  BY <1>17, DeliverStep DEF Complete
<1>18. ASSUME NdOpen, UNCHANGED reactor PROVE Account'
  BY <1>18, CalmStep DEF NdOpen, OpenListener, NoHandler, Calm, ValuesOK,
     HandleAgrees, Account, WaitingHasNoCode
<1>19. ASSUME NdMove, UNCHANGED reactor PROVE Account'
  BY <1>19, CalmStep DEF NdMove, MoveListener, Spend, NoHandler, Calm,
     ValuesOK, HandleAgrees, Account, WaitingHasNoCode
<1>20. ASSUME NdBind, UNCHANGED reactor PROVE Account'
  BY <1>20, CalmStep DEF NdBind, BindListener, NoHandler, Calm, ValuesOK,
     HandleAgrees, Account, WaitingHasNoCode
<1>21. ASSUME NdListen, UNCHANGED reactor PROVE Account'
  BY <1>21, CalmStep DEF NdListen, ListenListener, NoHandler, Calm, ValuesOK,
     HandleAgrees, Account, WaitingHasNoCode
<1>22. ASSUME NdCancel, UNCHANGED reactor PROVE Account'
  <2>1. \A p \in Queued : p \in GetOps /\ phase[p] \in {"armed", "start"}
    BY DEF Queued, QueueAgrees, ValuesOK
  <2>2. NoHandler
    BY <1>22, <2>1 DEF NdCancel, AbortAll, EndAborted, Ended, NoHandler,
       Account, WaitingHasNoCode, ValuesOK
  <2>3. Calm
    BY <1>22, <2>1 DEF NdCancel, AbortAll, EndAborted, Ended, Calm,
       HandleAgrees, Account, WaitingHasNoCode, ValuesOK
  <2>4. QED
    BY <2>2, <2>3, CalmStep
<1>23. ASSUME NdDestroy, UNCHANGED reactor PROVE Account'
  <2>1. \A p \in Queued : p \in GetOps /\ phase[p] \in {"armed", "start"}
    BY DEF Queued, QueueAgrees, ValuesOK
  <2>2. NoHandler
    BY <1>23, <2>1 DEF NdDestroy, DestroyListener, AbortAll, EndAborted,
       Ended, NoHandler, Account, WaitingHasNoCode, ValuesOK
  <2>3. Calm
    BY <1>23, <2>1 DEF NdDestroy, DestroyListener, AbortAll, EndAborted,
       Ended, Calm, HandleAgrees, Account, WaitingHasNoCode, ValuesOK
  <2>4. QED
    BY <2>2, <2>3, CalmStep
<1>24. ASSUME NdMatch, UNCHANGED reactor PROVE Account'
  <2>1. /\ events # <<>> /\ rq # <<>> /\ backend = "nd"
        /\ events \in Seq(Children \cup {Other}) /\ rq \in Seq(GetOps)
    BY <1>24 DEF NdMatch, ValuesOK
  <2>2. /\ Head(events) \in Children /\ Head(rq) \in GetOps
        /\ phase[Head(rq)] \in {"start", "armed"}
    BY <2>1, TailElements DEF BackendAgrees, QueueAgrees
  <2>3. /\ conn' = conn /\ form' = form
        /\ ec' = [ec EXCEPT ![Head(rq)] = "ok"]
        /\ child' = [child EXCEPT ![Head(events)] = "held"]
        /\ holder' = [holder EXCEPT ![Head(rq)] = {Head(events)}]
    BY <1>24 DEF NdMatch, NdEnd, ValuesOK
  <2>4. /\ phase'[Head(rq)] \in {"early", "posted"}
        /\ \A p \in GetOps \ {Head(rq)} : phase'[p] = phase[p]
    BY <1>24, <2>2 DEF NdMatch, NdEnd, Ended, ValuesOK
  <2>5. NoHandler
    BY <2>2, <2>3, <2>4 DEF NoHandler, Account, WaitingHasNoCode, ValuesOK
  <2>6. QED
    BY <2>1, <2>2, <2>3, <2>5, TakeStep DEF ValuesOK
<1>25. ASSUME NEW c \in Children, NdArrive(c), UNCHANGED reactor
       PROVE  Account'
  BY <1>25, CalmStep DEF NdArrive, Arrive, NoHandler, Calm, ValuesOK,
     HandleAgrees, Account, WaitingHasNoCode
<1>26. ASSUME NEW o \in GetOps, NdGetConnectionRequest(o), UNCHANGED reactor
       PROVE  Account'
  <2>1. NoHandler
    <3>1. /\ phase[o] = "none" /\ conn' = conn
          /\ \E f \in Fills \cup {None} : form' = [form EXCEPT ![o] = f]
          /\ \/ phase' = [phase EXCEPT ![o] = "start"] /\ ec' = [ec EXCEPT ![o] = "none"]
             \/ /\ phase' = [phase EXCEPT ![o] = "posted"]
                /\ \E e \in {"invalid_handle", "error", "ok"} : ec' = [ec EXCEPT ![o] = e]
      BY <1>26 DEF NdGetConnectionRequest, Initiate
    <3>2. QED
      BY <3>1 DEF NoHandler, Account, WaitingHasNoCode, ValuesOK
  <2>2. CASE UNCHANGED <<child, holder>>
    <3>1. Calm
      BY <1>26, <2>2 DEF NdGetConnectionRequest, Initiate, Calm, HandleAgrees,
         Account, WaitingHasNoCode, ValuesOK
    <3>2. QED
      BY <2>1, <3>1, CalmStep
  <2>3. CASE /\ events # <<>> /\ backend = "nd" /\ phase[o] = "none"
             /\ ec' = [ec EXCEPT ![o] = "ok"]
             /\ child' = [child EXCEPT ![Head(events)] = "held"]
             /\ holder' = [holder EXCEPT ![o] = {Head(events)}]
    <3>1. Head(events) \in Children
      BY <2>3, TailElements DEF BackendAgrees, ValuesOK
    <3>2. QED
      BY <2>1, <2>3, <3>1, TakeStep DEF ValuesOK
  <2>4. QED
    BY <1>26, <2>2, <2>3 DEF NdGetConnectionRequest, Initiate
<1>27. ASSUME NEW o \in GetOps, NdOnPending(o), UNCHANGED reactor
       PROVE  Account'
  BY <1>27, CalmStep DEF NdOnPending, NoHandler, Calm, ValuesOK, HandleAgrees,
     Account, WaitingHasNoCode
<1>28. ASSUME NEW o \in GetOps, NdPendingFails(o), UNCHANGED reactor
       PROVE  Account'
  <2>1. phase[o] \in {"armed", "start"}
    BY <1>28 DEF NdPendingFails, Queued, QueueAgrees, ValuesOK
  <2>2. NoHandler
    BY <1>28, <2>1 DEF NdPendingFails, NdEnd, Ended, Queued, NoHandler,
       Account, WaitingHasNoCode, ValuesOK
  <2>3. Calm
    BY <1>28, <2>1 DEF NdPendingFails, NdEnd, Ended, Queued, Calm,
       HandleAgrees, Account, WaitingHasNoCode, ValuesOK
  <2>4. QED
    BY <2>2, <2>3, CalmStep
<1>29. ASSUME NEW o \in GetOps, NdCancelByKey(o), UNCHANGED reactor
       PROVE  Account'
  <2>1. phase[o] \in {"armed", "start"}
    BY <1>29 DEF NdCancelByKey, Queued, QueueAgrees, ValuesOK
  <2>2. NoHandler
    BY <1>29, <2>1 DEF NdCancelByKey, AbortOne, EndAborted, Ended, Queued,
       NoHandler, Account, WaitingHasNoCode, ValuesOK
  <2>3. Calm
    BY <1>29, <2>1 DEF NdCancelByKey, AbortOne, EndAborted, Ended, Queued,
       Calm, HandleAgrees, Account, WaitingHasNoCode, ValuesOK
  <2>4. QED
    BY <2>2, <2>3, CalmStep
<1>30. ASSUME NEW o \in GetOps, NdComplete(o), UNCHANGED reactor
       PROVE  Account'
  BY <1>30, DeliverStep DEF NdComplete
<1>31. CASE UNCHANGED vars
  BY <1>31, CalmStep DEF vars, service, listener, NoHandler, Calm, Account,
     WaitingHasNoCode
<1>32. QED
  BY <1>1, <1>2, <1>3, <1>4, <1>5, <1>6, <1>7, <1>8, <1>9, <1>10, <1>11,
     <1>12, <1>13, <1>14, <1>15, <1>16, <1>17, <1>18, <1>19, <1>20, <1>21,
     <1>22, <1>23, <1>24, <1>25, <1>26, <1>27, <1>28, <1>29, <1>30, <1>31 DEF
     Next, IbvNext, NdNext, ReactorStep

(* The handlers account for the requests that left the listener's queue: a  *)
(* handler told of success has a connector with a request of its own, and    *)
(* for every request that was lost on the way, the one that leaks when its   *)
(* event channel cannot be created included, an operation of its own         *)
(* reports an error.                                                         *)
THEOREM HandlersAccountForRequests == Spec => []HandlersAccount
<1>1. ASSUME Account PROVE HandlersAccount
  <2>1. PICK by \in [Gone -> Failed] : \A c, d \in Gone : by[c] = by[d] => c = d
    BY <1>1 DEF Account, Blamed
  <2>2. Lost \subseteq Gone
    BY DEF Gone
  <2> DEFINE own == [c \in Lost |-> by[c]]
  <2>3. own \in [Lost -> Failed] /\ \A c, d \in Lost : own[c] = own[d] => c = d
    BY <2>1, <2>2
  <2> HIDE DEF own
  <2>4. \E f \in [Lost -> Failed] : \A c, d \in Lost : f[c] = f[d] => c = d
    BY <2>3
  <2>5. QED
    BY <1>1, <2>4 DEF Account, HandlersAccount
<1>2. QED
  BY <1>1, InitAccount, AccountStep, Invariant, PTL DEF Spec

=============================================================================
