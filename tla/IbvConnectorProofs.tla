------------------------- MODULE IbvConnectorProofs -------------------------
(***************************************************************************)
(* Proofs that the teardown protocol of IbvConnector is correct for any    *)
(* number of disconnecting threads, operations and watchers.               *)
(***************************************************************************)
EXTENDS IbvConnectorRefinement, SequenceTheorems, TLAPS

(* Removing one entry of the reactor queue leaves a queue of the rest. *)
LEMMA WithoutType ==
  ASSUME NEW S, NEW s \in Seq(S), NEW i \in 1..Len(s)
  PROVE  /\ Without(s, i) \in Seq(S)
         /\ Len(Without(s, i)) = Len(s) - 1
         /\ \A j \in 1..(Len(s) - 1) :
              Without(s, i)[j] = IF j < i THEN s[j] ELSE s[j + 1]
<1>1. Len(s) \in Nat /\ Len(s) - 1 \in Nat /\ \A j \in 1..Len(s) : s[j] \in S
  OBVIOUS
<1>2. Without(s, i) \in [1..(Len(s) - 1) -> S]
  BY <1>1 DEF Without
<1>3. Without(s, i) \in Seq(S)
  BY <1>1, <1>2, SeqDef
<1>4. QED
  BY <1>1, <1>2, <1>3 DEF Without

(* The initial state satisfies the invariant. *)
LEMMA InitInv == Init => IndInv
<1> SUFFICES ASSUME Init PROVE IndInv
  OBVIOUS
<1>1. FlagsOK
  BY DEF Init, FlagsOK
<1>2. ValuesOK
  BY BoundsAreNat DEF Init, ValuesOK, Ops, Phase, ConnCode, WatchCode,
     ConnectState, PreEst, PostEst, Event
<1>3. QueueConsistent /\ OneShot /\ StageAgrees /\ PerformAgrees
  BY DEF Init, QueueConsistent, OneShot, StageAgrees, PerformAgrees, Started,
     InFlight, Ops
<1>4. ConnectedWasWon /\ EstablishedOnce /\ TeardownHasCause
  BY DEF Init, ConnectedWasWon, EstablishedOnce, TeardownHasCause,
     DutyThreads, PostEst, Ops
<1>5. EstablishedAccounted
  BY DEF Init, EstablishedAccounted
<1>6. QED
  BY <1>1, <1>2, <1>3, <1>4, <1>5 DEF IndInv, TypeOK

(* Booleans stay Booleans. *)
LEMMA FlagsStep == FlagsOK /\ [Next]_vars => FlagsOK'
<1> SUFFICES ASSUME FlagsOK, [Next]_vars PROVE FlagsOK'
  OBVIOUS
<1>1. ASSUME Open PROVE FlagsOK'
  BY <1>1 DEF Open, opvars, reactor, threads, aux, FlagsOK
<1>2. ASSUME Assign PROVE FlagsOK'
  BY <1>2 DEF Assign, opvars, reactor, threads, aux, FlagsOK
<1>3. ASSUME StoreIdle PROVE FlagsOK'
  BY <1>3 DEF StoreIdle, opvars, reactor, threads, cmvars, aux, FlagsOK
<1>4. ASSUME NEW o \in ConnOps, Reject(o) PROVE FlagsOK'
BY <1>4 DEF Reject, Post, CanInitiate, Initiating, connector, reactor,
       threads, cmvars, aux, FlagsOK
<1>5. ASSUME NEW o \in ConnOps, AsyncConnect(o) PROVE FlagsOK'
BY <1>5 DEF AsyncConnect, Post, CanInitiate, Initiating, reactor, threads,
       aux, FlagsOK
<1>6. ASSUME NEW o \in ConnOps, ConnectCas(o) PROVE FlagsOK'
  BY <1>6 DEF ConnectCas, Post, reactor, threads, cmvars, aux, FlagsOK
<1>7. ASSUME NEW o \in ConnOps, AsyncAccept(o) PROVE FlagsOK'
BY <1>7 DEF AsyncAccept, CanInitiate, Initiating, connector, reactor, threads,
       cmvars, aux, FlagsOK
<1>8. ASSUME NEW o \in ConnOps, AcceptCas(o) PROVE FlagsOK'
  BY <1>8 DEF AcceptCas, Post, reactor, threads, cmvars, aux, FlagsOK
<1>9. ASSUME NEW o \in ConnOps, AcceptCall(o) PROVE FlagsOK'
  BY <1>9 DEF AcceptCall, Post, reactor, threads, aux, FlagsOK
<1>10. ASSUME NEW w \in Watchers, AsyncWaitDisconnect(w) PROVE FlagsOK'
BY <1>10 DEF AsyncWaitDisconnect, Post, CanInitiate, connector, reactor,
       threads, cmvars, aux, FlagsOK
<1>11. ASSUME NEW o \in Ops, StartOp(o) PROVE FlagsOK'
  BY <1>11 DEF StartOp, connector, threads, cmvars, aux, FlagsOK
<1>12. ASSUME NEW t \in Threads, DisconnectClaim(t) PROVE FlagsOK'
  BY <1>12 DEF DisconnectClaim, is_open, opvars, reactor, cmvars, aux, FlagsOK
<1>13. ASSUME NEW t \in Threads, DisconnectCancel(t) PROVE FlagsOK'
BY <1>13 DEF DisconnectCancel, AbortQueued, AfterCancel, connector, cmvars,
       aux, FlagsOK
<1>14. ASSUME NEW t \in Threads, DisconnectRdma(t) PROVE FlagsOK'
BY <1>14 DEF DisconnectRdma, RdmaDisconnect, connector, opvars, reactor, aux,
       FlagsOK
<1>15. ASSUME NEW o \in Ops, CancelByKey(o) PROVE FlagsOK'
BY <1>15 DEF CancelByKey, Post, Without, connector, threads, cmvars, aux,
       FlagsOK
<1>16. ASSUME NEW o \in Ops, Complete(o) PROVE FlagsOK'
  BY <1>16 DEF Complete, StoresClosed, reactor, threads, cmvars, FlagsOK
<1>17. ASSUME PerformIo PROVE FlagsOK'
  BY <1>17 DEF PerformIo, connector, opvars, threads, cmvars, aux, FlagsOK
<1>18. ASSUME PerformIoEnd PROVE FlagsOK'
  BY <1>18 DEF PerformIoEnd, connector, opvars, threads, cmvars, aux, FlagsOK
<1>19. ASSUME NEW o \in Ops, GetEventError(o) PROVE FlagsOK'
BY <1>19 DEF GetEventError, Front, Retire, Post, connector, threads, cmvars,
       FlagsOK
<1>20. ASSUME NEW o \in ConnOps, ProcessResolve(o) PROVE FlagsOK'
BY <1>20 DEF ProcessResolve, TakeEvent, Front, Advance, Retire, Post, threads,
       aux, FlagsOK
<1>21. ASSUME NEW o \in ConnOps, ResolveRoute(o) PROVE FlagsOK'
  BY <1>21 DEF ResolveRoute, Front, connector, threads, aux, FlagsOK
<1>22. ASSUME NEW o \in ConnOps, RdmaConnect(o) PROVE FlagsOK'
  BY <1>22 DEF RdmaConnect, Front, connector, threads, aux, FlagsOK
<1>23. ASSUME NEW o \in ConnOps, ClaimClosed(o) PROVE FlagsOK'
  BY <1>23 DEF ClaimClosed, Front, Retire, Post, threads, cmvars, aux, FlagsOK
<1>24. ASSUME NEW o \in ConnOps, ProcessConnect(o) PROVE FlagsOK'
BY <1>24 DEF ProcessConnect, TakeEvent, Front, Arbitrate, opvars, threads,
       aux, FlagsOK
<1>25. ASSUME NEW o \in ConnOps, ModifyQp(o) PROVE FlagsOK'
BY <1>25 DEF ModifyQp, Front, Retire, Post, connector, threads, cmvars, aux,
       FlagsOK
<1>26. ASSUME NEW o \in ConnOps, SecondActorTeardown(o) PROVE FlagsOK'
BY <1>26 DEF SecondActorTeardown, Front, Retire, Post, RdmaDisconnect,
       connector, threads, aux, FlagsOK
<1>27. ASSUME NEW w \in Watchers, ProcessWatch(w) PROVE FlagsOK'
BY <1>27 DEF ProcessWatch, TakeEvent, Front, Retire, Post, threads, aux,
       FlagsOK
<1>28. ASSUME CloseDeregister PROVE FlagsOK'
BY <1>28 DEF CloseDeregister, AbortQueued, Initiating, threads, cmvars, aux,
       FlagsOK
<1>29. ASSUME DrainCmEvent PROVE FlagsOK'
BY <1>29 DEF DrainCmEvent, RdmaDisconnect, connector, opvars, reactor,
       threads, aux, FlagsOK
<1>30. ASSUME CloseDestroy PROVE FlagsOK'
  BY <1>30 DEF CloseDestroy, opvars, reactor, threads, FlagsOK
<1>31. ASSUME CmAnswer PROVE FlagsOK'
  BY <1>31 DEF CmAnswer, Report, connector, opvars, threads, aux, FlagsOK
<1>32. ASSUME PeerDisconnect PROVE FlagsOK'
BY <1>32 DEF PeerDisconnect, Report, connector, opvars, threads, aux, FlagsOK
<1>33. ASSUME CmExtra PROVE FlagsOK'
  BY <1>33 DEF CmExtra, connector, opvars, threads, FlagsOK
<1>34. CASE UNCHANGED vars
  BY <1>34 DEF vars, connector, opvars, reactor, threads, cmvars, aux, FlagsOK
<1>35. QED
BY <1>1, <1>2, <1>3, <1>4, <1>5, <1>6, <1>7, <1>8, <1>9, <1>10, <1>11, <1>12,
       <1>13, <1>14, <1>15, <1>16, <1>17, <1>18, <1>19, <1>20, <1>21, <1>22,
       <1>23, <1>24, <1>25, <1>26, <1>27, <1>28, <1>29, <1>30, <1>31, <1>32,
       <1>33, <1>34 DEF Next, Initiate, Disconnect, Perform, Close

(* The other variables keep their types. *)
LEMMA ValuesStep == ValuesOK /\ [Next]_vars => ValuesOK'
<1> SUFFICES ASSUME ValuesOK, [Next]_vars PROVE ValuesOK'
  OBVIOUS
<1>1. ASSUME Open PROVE ValuesOK'
BY <1>1, BoundsAreNat, OpsDisjoint DEF Open, opvars, reactor, threads, aux,
       ValuesOK, Ops, Phase, ConnCode, WatchCode, ConnectState, PreEst,
       PostEst, Event
<1>2. ASSUME Assign PROVE ValuesOK'
BY <1>2, BoundsAreNat, OpsDisjoint DEF Assign, opvars, reactor, threads, aux,
       ValuesOK, Ops, Phase, ConnCode, WatchCode, ConnectState, PreEst,
       PostEst, Event
<1>3. ASSUME StoreIdle PROVE ValuesOK'
BY <1>3, BoundsAreNat, OpsDisjoint DEF StoreIdle, opvars, reactor, threads,
       cmvars, aux, ValuesOK, Ops, Phase, ConnCode, WatchCode, ConnectState,
       PreEst, PostEst, Event
<1>4. ASSUME NEW o \in ConnOps, Reject(o) PROVE ValuesOK'
BY <1>4, BoundsAreNat, OpsDisjoint DEF Reject, Post, CanInitiate, Initiating,
       connector, reactor, threads, cmvars, aux, ValuesOK, Ops, Phase,
       ConnCode, WatchCode, ConnectState, PreEst, PostEst, Event
<1>5. ASSUME NEW o \in ConnOps, AsyncConnect(o) PROVE ValuesOK'
BY <1>5, BoundsAreNat, OpsDisjoint DEF AsyncConnect, Post, CanInitiate,
       Initiating, reactor, threads, aux, ValuesOK, Ops, Phase, ConnCode,
       WatchCode, ConnectState, PreEst, PostEst, Event
<1>6. ASSUME NEW o \in ConnOps, ConnectCas(o) PROVE ValuesOK'
BY <1>6, BoundsAreNat, OpsDisjoint DEF ConnectCas, Post, reactor, threads,
       cmvars, aux, ValuesOK, Ops, Phase, ConnCode, WatchCode, ConnectState,
       PreEst, PostEst, Event
<1>7. ASSUME NEW o \in ConnOps, AsyncAccept(o) PROVE ValuesOK'
BY <1>7, BoundsAreNat, OpsDisjoint DEF AsyncAccept, CanInitiate, Initiating,
       connector, reactor, threads, cmvars, aux, ValuesOK, Ops, Phase,
       ConnCode, WatchCode, ConnectState, PreEst, PostEst, Event
<1>8. ASSUME NEW o \in ConnOps, AcceptCas(o) PROVE ValuesOK'
  <2>1. CASE connect_state = "idle"
    BY <1>8, <2>1 DEF AcceptCas, reactor, threads, cmvars, aux, ValuesOK, Ops,
       Phase, ConnectState
  <2>2. CASE connect_state # "idle"
BY <1>8, <2>2, OpsDisjoint DEF AcceptCas, Post, reactor, threads, cmvars, aux,
       ValuesOK, Ops, Phase, ConnCode, WatchCode
  <2>3. QED BY <2>1, <2>2
<1>9. ASSUME NEW o \in ConnOps, AcceptCall(o) PROVE ValuesOK'
BY <1>9, BoundsAreNat, OpsDisjoint DEF AcceptCall, Post, reactor, threads,
       aux, ValuesOK, Ops, Phase, ConnCode, WatchCode, ConnectState, PreEst,
       PostEst, Event
<1>10. ASSUME NEW w \in Watchers, AsyncWaitDisconnect(w) PROVE ValuesOK'
BY <1>10, BoundsAreNat, OpsDisjoint DEF AsyncWaitDisconnect, Post,
       CanInitiate, connector, reactor, threads, cmvars, aux, ValuesOK, Ops,
       Phase, ConnCode, WatchCode, ConnectState, PreEst, PostEst, Event
<1>11. ASSUME NEW o \in Ops, StartOp(o) PROVE ValuesOK'
BY <1>11, BoundsAreNat, OpsDisjoint DEF StartOp, connector, threads, cmvars,
       aux, ValuesOK, Ops, Phase, ConnCode, WatchCode, ConnectState, PreEst,
       PostEst, Event
<1>12. ASSUME NEW t \in Threads, DisconnectClaim(t) PROVE ValuesOK'
BY <1>12, BoundsAreNat, OpsDisjoint DEF DisconnectClaim, is_open, opvars,
       reactor, cmvars, aux, ValuesOK, Ops, Phase, ConnCode, WatchCode,
       ConnectState, PreEst, PostEst, Event
<1>13. ASSUME NEW t \in Threads, DisconnectCancel(t) PROVE ValuesOK'
BY <1>13, BoundsAreNat, OpsDisjoint DEF DisconnectCancel, AbortQueued,
       AfterCancel, connector, cmvars, aux, ValuesOK, Ops, Phase, ConnCode,
       WatchCode, ConnectState, PreEst, PostEst, Event
<1>14. ASSUME NEW t \in Threads, DisconnectRdma(t) PROVE ValuesOK'
BY <1>14, BoundsAreNat, OpsDisjoint DEF DisconnectRdma, RdmaDisconnect,
       connector, opvars, reactor, aux, ValuesOK, Ops, Phase, ConnCode,
       WatchCode, ConnectState, PreEst, PostEst, Event
<1>15. ASSUME NEW o \in Ops, CancelByKey(o) PROVE ValuesOK'
  <2>1. rq' \in Seq(Ops)
    BY <1>15, WithoutType DEF CancelByKey, ValuesOK
  <2>2. QED
BY <1>15, <2>1, OpsDisjoint DEF CancelByKey, Post, connector, threads, cmvars,
         aux,
       ValuesOK, Ops, Phase, ConnCode, WatchCode
<1>16. ASSUME NEW o \in Ops, Complete(o) PROVE ValuesOK'
BY <1>16, BoundsAreNat, OpsDisjoint DEF Complete, StoresClosed, reactor,
       threads, cmvars, ValuesOK, Ops, Phase, ConnCode, WatchCode,
       ConnectState, PreEst, PostEst, Event
<1>17. ASSUME PerformIo PROVE ValuesOK'
BY <1>17, BoundsAreNat, OpsDisjoint DEF PerformIo, connector, opvars, threads,
       cmvars, aux, ValuesOK, Ops, Phase, ConnCode, WatchCode, ConnectState,
       PreEst, PostEst, Event
<1>18. ASSUME PerformIoEnd PROVE ValuesOK'
BY <1>18, BoundsAreNat, OpsDisjoint DEF PerformIoEnd, connector, opvars,
       threads, cmvars, aux, ValuesOK, Ops, Phase, ConnCode, WatchCode,
       ConnectState, PreEst, PostEst, Event
<1>19. ASSUME NEW o \in Ops, GetEventError(o) PROVE ValuesOK'
BY <1>19, BoundsAreNat, OpsDisjoint DEF GetEventError, Front, Retire, Post,
       connector, threads, cmvars, ValuesOK, Ops, Phase, ConnCode, WatchCode,
       ConnectState, PreEst, PostEst, Event
<1>20. ASSUME NEW o \in ConnOps, ProcessResolve(o) PROVE ValuesOK'
  <2>1. Tail(rq) \in Seq(Ops) /\ events' \in Seq(Event) /\ o \in Ops
    BY <1>20 DEF ProcessResolve, TakeEvent, Front, ValuesOK, Ops
  <2>2. /\ phase' = phase \/ phase' = [phase EXCEPT ![o] = "posted"]
        /\ ec' = ec \/ ec' = [ec EXCEPT ![o] = "aborted"]
        /\ rq' = rq \/ rq' = Tail(rq)
        /\ connect_state' \in {connect_state, "addr_route", "connecting"}
        /\ rpc' \in {"loop", "resolve_route", "rdma_connect", "claim"}
    BY <1>20 DEF ProcessResolve, Advance, Retire, Post
  <2>3. phase' \in [Ops -> Phase]
    BY <2>1, <2>2 DEF ValuesOK, Phase
  <2>4. /\ ec' \in [Ops -> ConnCode \cup WatchCode]
        /\ \A x \in Watchers : ec'[x] \in WatchCode
    BY <2>1, <2>2, OpsDisjoint DEF ValuesOK, ConnCode, WatchCode, Ops
  <2>5. QED
BY <1>20, <2>1, <2>2, <2>3, <2>4 DEF ProcessResolve, TakeEvent, threads, aux,
       ValuesOK, ConnectState
<1>21. ASSUME NEW o \in ConnOps, ResolveRoute(o) PROVE ValuesOK'
BY <1>21, SMTT(30), BoundsAreNat, OpsDisjoint DEF ResolveRoute, Front, connector,
       threads, aux, ValuesOK, Ops, Phase, ConnCode, WatchCode, ConnectState,
       PreEst, PostEst, Event
<1>22. ASSUME NEW o \in ConnOps, RdmaConnect(o) PROVE ValuesOK'
BY <1>22, SMTT(30), BoundsAreNat, OpsDisjoint DEF RdmaConnect, Front, connector,
       threads, aux, ValuesOK, Ops, Phase, ConnCode, WatchCode, ConnectState,
       PreEst, PostEst, Event
<1>23. ASSUME NEW o \in ConnOps, ClaimClosed(o) PROVE ValuesOK'
BY <1>23, BoundsAreNat, OpsDisjoint DEF ClaimClosed, Front, Retire, Post,
       threads, cmvars, aux, ValuesOK, Ops, Phase, ConnCode, WatchCode,
       ConnectState, PreEst, PostEst, Event
<1>24. ASSUME NEW o \in ConnOps, ProcessConnect(o) PROVE ValuesOK'
BY <1>24, BoundsAreNat, OpsDisjoint DEF ProcessConnect, TakeEvent, Front,
       Arbitrate, opvars, threads, aux, ValuesOK, Ops, Phase, ConnCode,
       WatchCode, ConnectState, PreEst, PostEst, Event
<1>25. ASSUME NEW o \in ConnOps, ModifyQp(o) PROVE ValuesOK'
BY <1>25, BoundsAreNat, OpsDisjoint DEF ModifyQp, Front, Retire, Post,
       connector, threads, cmvars, aux, ValuesOK, Ops, Phase, ConnCode,
       WatchCode, ConnectState, PreEst, PostEst, Event
<1>26. ASSUME NEW o \in ConnOps, SecondActorTeardown(o) PROVE ValuesOK'
BY <1>26, BoundsAreNat, OpsDisjoint DEF SecondActorTeardown, Front, Retire,
       Post, RdmaDisconnect, connector, threads, aux, ValuesOK, Ops, Phase,
       ConnCode, WatchCode, ConnectState, PreEst, PostEst, Event
<1>27. ASSUME NEW w \in Watchers, ProcessWatch(w) PROVE ValuesOK'
  <2>1. Tail(rq) \in Seq(Ops) /\ events' \in Seq(Event) /\ w \in Ops
    BY <1>27 DEF ProcessWatch, TakeEvent, Front, ValuesOK, Ops
  <2>2. /\ phase' = phase \/ phase' = [phase EXCEPT ![w] = "posted"]
        /\ \/ ec' = ec
           \/ \E c \in {"disconnected", "device_removed"} : ec' = [ec EXCEPT ![w] = c]
        /\ rq' = rq \/ rq' = Tail(rq)
        /\ rpc' \in {"idle", "loop"}
    BY <1>27 DEF ProcessWatch, Retire, Post
  <2>3. phase' \in [Ops -> Phase]
    BY <2>1, <2>2 DEF ValuesOK, Phase
  <2>4. /\ ec' \in [Ops -> ConnCode \cup WatchCode]
        /\ \A x \in Watchers : ec'[x] \in WatchCode
    <3>1. CASE ec' = ec
      BY <3>1 DEF ValuesOK
    <3>2. ASSUME NEW c \in {"disconnected", "device_removed"},
                 ec' = [ec EXCEPT ![w] = c]
          PROVE  /\ ec' \in [Ops -> ConnCode \cup WatchCode]
                 /\ \A x \in Watchers : ec'[x] \in WatchCode
      <4>1. c \in WatchCode
        BY <3>2 DEF WatchCode
      <4> QED BY <2>1, <3>2, <4>1 DEF ValuesOK, Ops
    <3> QED BY <2>2, <3>1, <3>2
  <2>5. QED
    BY <1>27, <2>1, <2>2, <2>3, <2>4 DEF ProcessWatch, TakeEvent, threads, aux,
       ValuesOK
<1>28. ASSUME CloseDeregister PROVE ValuesOK'
BY <1>28, BoundsAreNat, OpsDisjoint DEF CloseDeregister, AbortQueued,
       Initiating, threads, cmvars, aux, ValuesOK, Ops, Phase, ConnCode,
       WatchCode, ConnectState, PreEst, PostEst, Event
<1>29. ASSUME DrainCmEvent PROVE ValuesOK'
BY <1>29, BoundsAreNat, OpsDisjoint DEF DrainCmEvent, RdmaDisconnect,
       connector, opvars, reactor, threads, aux, ValuesOK, Ops, Phase,
       ConnCode, WatchCode, ConnectState, PreEst, PostEst, Event
<1>30. ASSUME CloseDestroy PROVE ValuesOK'
BY <1>30, BoundsAreNat, OpsDisjoint DEF CloseDestroy, opvars, reactor,
       threads, ValuesOK, Ops, Phase, ConnCode, WatchCode, ConnectState,
       PreEst, PostEst, Event
<1>31. ASSUME CmAnswer PROVE ValuesOK'
  <2>1. ASSUME NEW from, NEW e \in Event, NEW to \in PreEst \cup PostEst,
               Report(from, e, to)
        PROVE  ValuesOK'
    BY <2>1 DEF Report, connector, opvars, threads, aux, ValuesOK
  <2>2. QED
    BY <1>31, <2>1 DEF CmAnswer, Event, PreEst, PostEst
<1>32. ASSUME PeerDisconnect PROVE ValuesOK'
BY <1>32, BoundsAreNat, OpsDisjoint DEF PeerDisconnect, Report, connector,
       opvars, threads, aux, ValuesOK, Ops, Phase, ConnCode, WatchCode,
       ConnectState, PreEst, PostEst, Event
<1>33. ASSUME CmExtra PROVE ValuesOK'
BY <1>33, BoundsAreNat, OpsDisjoint DEF CmExtra, connector, opvars, threads,
       ValuesOK, Ops, Phase, ConnCode, WatchCode, ConnectState, PreEst,
       PostEst, Event
<1>34. CASE UNCHANGED vars
BY <1>34 DEF vars, connector, opvars, reactor, threads, cmvars, aux, ValuesOK,
       Ops, Phase, ConnCode, WatchCode, ConnectState, PreEst, PostEst, Event
<1>35. QED
BY <1>1, <1>2, <1>3, <1>4, <1>5, <1>6, <1>7, <1>8, <1>9, <1>10, <1>11, <1>12,
       <1>13, <1>14, <1>15, <1>16, <1>17, <1>18, <1>19, <1>20, <1>21, <1>22,
       <1>23, <1>24, <1>25, <1>26, <1>27, <1>28, <1>29, <1>30, <1>31, <1>32,
       <1>33, <1>34 DEF Next, Initiate, Disconnect, Perform, Close

(* Type correctness of the connector (listed property TypeOK). *)
THEOREM TypeCorrect == Spec => []TypeOK
<1>1. Init => TypeOK
  BY InitInv DEF IndInv
<1>2. TypeOK /\ [Next]_vars => TypeOK'
  BY FlagsStep, ValuesStep DEF TypeOK
<1>3. QED
  BY <1>1, <1>2, PTL DEF Spec

(* Retiring the front operation keeps the queue consistent. *)
LEMMA RetireQueue ==
  ASSUME ValuesOK, QueueConsistent, NEW o \in Ops, NEW code,
         Front(o), Retire(o, code)
  PROVE  QueueConsistent'
<1>1. /\ rq \in Seq(Ops) /\ rq # <<>> /\ rq[1] = o
      /\ Len(rq) \in Nat /\ Len(rq) >= 1
  BY DEF ValuesOK, Front
<1>2. /\ Len(rq') = Len(rq) - 1
      /\ \A i \in 1..(Len(rq) - 1) : rq'[i] = rq[i + 1]
  BY <1>1 DEF Retire
<1>3. \A x \in Ops : (\E i \in 1..Len(rq') : rq'[i] = x)
                       <=> x # o /\ \E i \in 1..Len(rq) : rq[i] = x
  <2>1. \A i \in 1..Len(rq') : rq'[i] # o
    BY <1>1, <1>2 DEF QueueConsistent
  <2>2. ASSUME NEW x \in Ops, x # o, NEW i \in 1..Len(rq), rq[i] = x
        PROVE  \E j \in 1..Len(rq') : rq'[j] = x
    <3>1. i - 1 \in 1..Len(rq') /\ rq'[i - 1] = x
      BY <1>1, <1>2, <2>2
    <3>2. QED BY <3>1
  <2>3. ASSUME NEW x \in Ops, NEW i \in 1..Len(rq'), rq'[i] = x
        PROVE  \E j \in 1..Len(rq) : rq[j] = x
    <3>1. i + 1 \in 1..Len(rq) /\ rq[i + 1] = x
      BY <1>1, <1>2, <2>3
    <3>2. QED BY <3>1
  <2>4. QED BY <2>1, <2>2, <2>3
<1>4. \A i, j \in 1..Len(rq') : rq'[i] = rq'[j] => i = j
  BY <1>1, <1>2 DEF QueueConsistent
<1>5. \A x \in Ops : phase'[x] = IF x = o THEN "posted" ELSE phase[x]
  BY DEF Retire, Post, ValuesOK
<1>6. QED
  BY <1>3, <1>4, <1>5 DEF QueueConsistent

(* Aborting the queue leaves it empty and nobody armed. *)
LEMMA AbortQueue ==
  ASSUME QueueConsistent, AbortQueued
  PROVE  QueueConsistent'
  BY DEF QueueConsistent, AbortQueued

(* The reactor queue holds each armed operation once. *)
LEMMA QueueStep ==
  /\ ValuesOK /\ QueueConsistent
  /\ [Next]_vars
  => QueueConsistent'
<1> SUFFICES ASSUME ValuesOK, QueueConsistent, [Next]_vars
             PROVE  QueueConsistent'
  OBVIOUS
<1>1. ASSUME Open PROVE QueueConsistent'
BY <1>1 DEF Open, opvars, reactor, threads, aux, QueueConsistent, ValuesOK,
       Ops
<1>2. ASSUME Assign PROVE QueueConsistent'
BY <1>2 DEF Assign, opvars, reactor, threads, aux, QueueConsistent, ValuesOK,
       Ops
<1>3. ASSUME StoreIdle PROVE QueueConsistent'
BY <1>3 DEF StoreIdle, opvars, reactor, threads, cmvars, aux, QueueConsistent,
       ValuesOK, Ops
<1>4. ASSUME NEW o \in ConnOps, Reject(o) PROVE QueueConsistent'
BY <1>4 DEF Reject, Post, CanInitiate, Initiating, connector, reactor,
       threads, cmvars, aux, QueueConsistent, ValuesOK, Ops
<1>5. ASSUME NEW o \in ConnOps, AsyncConnect(o) PROVE QueueConsistent'
BY <1>5 DEF AsyncConnect, Post, CanInitiate, Initiating, reactor, threads,
       aux, QueueConsistent, ValuesOK, Ops
<1>6. ASSUME NEW o \in ConnOps, ConnectCas(o) PROVE QueueConsistent'
BY <1>6 DEF ConnectCas, Post, reactor, threads, cmvars, aux, QueueConsistent,
       ValuesOK, Ops
<1>7. ASSUME NEW o \in ConnOps, AsyncAccept(o) PROVE QueueConsistent'
BY <1>7 DEF AsyncAccept, CanInitiate, Initiating, connector, reactor, threads,
       cmvars, aux, QueueConsistent, ValuesOK, Ops
<1>8. ASSUME NEW o \in ConnOps, AcceptCas(o) PROVE QueueConsistent'
BY <1>8 DEF AcceptCas, Post, reactor, threads, cmvars, aux, QueueConsistent,
       ValuesOK, Ops
<1>9. ASSUME NEW o \in ConnOps, AcceptCall(o) PROVE QueueConsistent'
  <2>1. \E p \in {"start", "posted"} : phase' = [phase EXCEPT ![o] = p]
    BY <1>9 DEF AcceptCall, Post
  <2>2. QED
    BY <1>9, <2>1 DEF AcceptCall, reactor, QueueConsistent, ValuesOK, Ops
<1>10. ASSUME NEW w \in Watchers, AsyncWaitDisconnect(w) PROVE QueueConsistent'
BY <1>10 DEF AsyncWaitDisconnect, Post, CanInitiate, connector, reactor,
       threads, cmvars, aux, QueueConsistent, ValuesOK, Ops
<1>11. ASSUME NEW o \in Ops, StartOp(o) PROVE QueueConsistent'
BY <1>11 DEF StartOp, connector, threads, cmvars, aux, QueueConsistent,
       ValuesOK, Ops
<1>12. ASSUME NEW t \in Threads, DisconnectClaim(t) PROVE QueueConsistent'
BY <1>12 DEF DisconnectClaim, is_open, opvars, reactor, cmvars, aux,
       QueueConsistent, ValuesOK, Ops
<1>13. ASSUME NEW t \in Threads, DisconnectCancel(t) PROVE QueueConsistent'
  BY <1>13, AbortQueue DEF DisconnectCancel
<1>14. ASSUME NEW t \in Threads, DisconnectRdma(t) PROVE QueueConsistent'
BY <1>14 DEF DisconnectRdma, RdmaDisconnect, connector, opvars, reactor, aux,
       QueueConsistent, ValuesOK, Ops
<1>15. ASSUME NEW o \in Ops, CancelByKey(o) PROVE QueueConsistent'
  <2>1. PICK k \in 1..Len(rq) : rq[k] = o /\ rq' = Without(rq, k)
    BY <1>15 DEF CancelByKey
  <2>2. /\ rq \in Seq(Ops) /\ Len(rq) \in Nat /\ Len(rq') = Len(rq) - 1
        /\ \A j \in 1..(Len(rq) - 1) : rq'[j] = IF j < k THEN rq[j] ELSE rq[j + 1]
    BY <2>1, WithoutType DEF ValuesOK
  <2>3. \A x \in Ops : phase'[x] = IF x = o THEN "posted" ELSE phase[x]
    BY <1>15 DEF CancelByKey, Post, ValuesOK
  <2>4. \A i, j \in 1..Len(rq') : rq'[i] = rq'[j] => i = j
    BY <2>2 DEF QueueConsistent
  <2>5. \A i \in 1..Len(rq') : rq'[i] # o
    BY <2>1, <2>2 DEF QueueConsistent
  <2>6. ASSUME NEW x \in Ops, x # o, NEW i \in 1..Len(rq), rq[i] = x
        PROVE  \E j \in 1..Len(rq') : rq'[j] = x
    <3>1. CASE i < k
      <4>1. i \in 1..Len(rq') /\ rq'[i] = x
        BY <2>1, <2>2, <2>6, <3>1
      <4>2. QED BY <4>1
    <3>2. CASE i > k
      <4>1. i - 1 \in 1..Len(rq') /\ rq'[i - 1] = x
        BY <2>1, <2>2, <2>6, <3>2
      <4>2. QED BY <4>1
    <3>3. QED BY <2>1, <2>6, <3>1, <3>2
  <2>7. ASSUME NEW i \in 1..Len(rq') PROVE \E j \in 1..Len(rq) : rq[j] = rq'[i]
    <3>1. i \in 1..Len(rq) /\ i + 1 \in 1..Len(rq)
      BY <2>2
    <3>2. rq'[i] = rq[i] \/ rq'[i] = rq[i + 1]
      BY <2>2
    <3>3. QED BY <3>1, <3>2
  <2>8. ASSUME NEW x \in Ops
        PROVE  phase'[x] = "armed" <=> \E j \in 1..Len(rq') : rq'[j] = x
    <3>1. CASE x = o
      BY <2>3, <2>5, <3>1
    <3>2. CASE x # o
      <4>1. phase[x] = "armed" <=> \E j \in 1..Len(rq) : rq[j] = x
        BY DEF QueueConsistent
      <4>2. QED BY <2>3, <2>6, <2>7, <3>2, <4>1
    <3>3. QED BY <3>1, <3>2
  <2>9. QED
    BY <2>4, <2>8 DEF QueueConsistent
<1>16. ASSUME NEW o \in Ops, Complete(o) PROVE QueueConsistent'
BY <1>16 DEF Complete, StoresClosed, reactor, threads, cmvars,
       QueueConsistent, ValuesOK, Ops
<1>17. ASSUME PerformIo PROVE QueueConsistent'
BY <1>17 DEF PerformIo, connector, opvars, threads, cmvars, aux,
       QueueConsistent, ValuesOK, Ops
<1>18. ASSUME PerformIoEnd PROVE QueueConsistent'
BY <1>18 DEF PerformIoEnd, connector, opvars, threads, cmvars, aux,
       QueueConsistent, ValuesOK, Ops
<1>19. ASSUME NEW o \in Ops, GetEventError(o) PROVE QueueConsistent'
  BY <1>19, RetireQueue DEF GetEventError
<1>20. ASSUME NEW o \in ConnOps, ProcessResolve(o) PROVE QueueConsistent'
  <2>1. o \in Ops /\ Front(o)
    BY <1>20 DEF ProcessResolve, TakeEvent, Ops
  <2>2. CASE UNCHANGED <<rq, phase>>
    BY <2>2 DEF QueueConsistent
  <2>3. CASE Retire(o, "aborted")
    BY <2>1, <2>3, RetireQueue
  <2>4. QED BY <1>20, <2>2, <2>3 DEF ProcessResolve, Advance
<1>21. ASSUME NEW o \in ConnOps, ResolveRoute(o) PROVE QueueConsistent'
BY <1>21 DEF ResolveRoute, Front, connector, threads, aux, QueueConsistent,
       ValuesOK, Ops
<1>22. ASSUME NEW o \in ConnOps, RdmaConnect(o) PROVE QueueConsistent'
BY <1>22 DEF RdmaConnect, Front, connector, threads, aux, QueueConsistent,
       ValuesOK, Ops
<1>23. ASSUME NEW o \in ConnOps, ClaimClosed(o) PROVE QueueConsistent'
  <2>1. o \in Ops /\ Front(o) /\ \E c \in {"aborted", "error"} : Retire(o, c)
    BY <1>23 DEF ClaimClosed, Ops
  <2>2. QED BY <2>1, RetireQueue
<1>24. ASSUME NEW o \in ConnOps, ProcessConnect(o) PROVE QueueConsistent'
BY <1>24 DEF ProcessConnect, TakeEvent, Front, Arbitrate, opvars, threads,
       aux, QueueConsistent, ValuesOK, Ops
<1>25. ASSUME NEW o \in ConnOps, ModifyQp(o) PROVE QueueConsistent'
  <2>1. o \in Ops /\ Front(o) /\ \E c \in {"ok", "modify_failed"} : Retire(o, c)
    BY <1>25 DEF ModifyQp, Ops
  <2>2. QED BY <2>1, RetireQueue
<1>26. ASSUME NEW o \in ConnOps, SecondActorTeardown(o) PROVE QueueConsistent'
  BY <1>26, RetireQueue DEF SecondActorTeardown, Ops
<1>27. ASSUME NEW w \in Watchers, ProcessWatch(w) PROVE QueueConsistent'
  <2>1. w \in Ops /\ Front(w)
    BY <1>27 DEF ProcessWatch, TakeEvent, Ops
  <2>2. CASE UNCHANGED <<rq, phase>>
    BY <2>2 DEF QueueConsistent
  <2>3. CASE \E c \in {"disconnected", "device_removed"} : Retire(w, c)
    BY <2>1, <2>3, RetireQueue
  <2>4. QED BY <1>27, <2>2, <2>3 DEF ProcessWatch
<1>28. ASSUME CloseDeregister PROVE QueueConsistent'
  BY <1>28, AbortQueue DEF CloseDeregister
<1>29. ASSUME DrainCmEvent PROVE QueueConsistent'
BY <1>29 DEF DrainCmEvent, RdmaDisconnect, connector, opvars, reactor,
       threads, aux, QueueConsistent, ValuesOK, Ops
<1>30. ASSUME CloseDestroy PROVE QueueConsistent'
BY <1>30 DEF CloseDestroy, opvars, reactor, threads, QueueConsistent,
       ValuesOK, Ops
<1>31. ASSUME CmAnswer PROVE QueueConsistent'
BY <1>31 DEF CmAnswer, Report, connector, opvars, threads, aux,
       QueueConsistent, ValuesOK, Ops
<1>32. ASSUME PeerDisconnect PROVE QueueConsistent'
BY <1>32 DEF PeerDisconnect, Report, connector, opvars, threads, aux,
       QueueConsistent, ValuesOK, Ops
<1>33. ASSUME CmExtra PROVE QueueConsistent'
BY <1>33 DEF CmExtra, connector, opvars, threads, QueueConsistent, ValuesOK,
       Ops
<1>34. CASE UNCHANGED vars
BY <1>34 DEF vars, connector, opvars, reactor, threads, cmvars, aux,
       QueueConsistent, ValuesOK, Ops
<1>35. QED
BY <1>1, <1>2, <1>3, <1>4, <1>5, <1>6, <1>7, <1>8, <1>9, <1>10, <1>11, <1>12,
       <1>13, <1>14, <1>15, <1>16, <1>17, <1>18, <1>19, <1>20, <1>21, <1>22,
       <1>23, <1>24, <1>25, <1>26, <1>27, <1>28, <1>29, <1>30, <1>31, <1>32,
       <1>33, <1>34 DEF Next, Initiate, Disconnect, Perform, Close

(* The operation at the front of the queue is armed. *)
LEMMA FrontArmed ==
  ASSUME ValuesOK, QueueConsistent, NEW o \in Ops, Front(o)
  PROVE  phase[o] = "armed"
<1>1. 1 \in 1..Len(rq) /\ rq[1] = o
  BY DEF ValuesOK, Front
<1>2. QED BY <1>1 DEF QueueConsistent

(* Posting an armed operation keeps the connector one-shot. *)
LEMMA PostOneShot ==
  ASSUME ValuesOK, OneShot, NEW o \in Ops, phase[o] = "armed",
         phase' = [phase EXCEPT ![o] = "posted"],
         life \notin {"unopened", "opening"}, life' = life, stage' = stage,
         connect_state' = connect_state \/ connect_state' = "closed"
  PROVE  OneShot'
<1>1. \A x \in ConnOps : x \in Ops /\ (Started(x)' <=> Started(x))
  BY DEF Started, ValuesOK, Ops
<1>2. QED
  BY <1>1 DEF OneShot, ValuesOK, InFlight, Started

(* An operation is armed only on an open connector. *)
LEMMA ArmedIsOpen ==
  ASSUME OneShot, NEW o \in ConnOps, phase[o] = "armed"
  PROVE  life \notin {"unopened", "opening"}
  BY DEF OneShot

(* AbortQueued posts exactly the armed operations. *)
LEMMA AbortEffect ==
  ASSUME ValuesOK, QueueConsistent, AbortQueued
  PROVE  \A x \in Ops :
           /\ phase'[x] = IF phase[x] = "armed" THEN "posted" ELSE phase[x]
           /\ ec'[x] = IF phase[x] = "armed" THEN "aborted" ELSE ec[x]
  BY DEF AbortQueued, QueueConsistent

(* The connector stays one-shot. *)
LEMMA OneShotStep ==
  /\ ValuesOK /\ QueueConsistent /\ OneShot /\ StageAgrees
  /\ PerformAgrees /\ ConnectedWasWon
  /\ [Next]_vars
  => OneShot'
<1> SUFFICES ASSUME ValuesOK, QueueConsistent, OneShot,
                   StageAgrees, PerformAgrees, ConnectedWasWon, [Next]_vars
             PROVE  OneShot'
  OBVIOUS
<1>1. ASSUME Open PROVE OneShot'
BY <1>1 DEF Open, opvars, reactor, threads, aux, OneShot, ValuesOK, Ops,
       InFlight, Started, StageAgrees
<1>2. ASSUME Assign PROVE OneShot'
BY <1>2 DEF Assign, opvars, reactor, threads, aux, OneShot, ValuesOK, Ops,
       InFlight, Started, StageAgrees
<1>3. ASSUME StoreIdle PROVE OneShot'
BY <1>3 DEF StoreIdle, opvars, reactor, threads, cmvars, aux, OneShot,
       ValuesOK, Ops, InFlight, Started, StageAgrees
<1>4. ASSUME NEW o \in ConnOps, Reject(o) PROVE OneShot'
BY <1>4 DEF Reject, Post, CanInitiate, Initiating, connector, reactor,
       threads, cmvars, aux, OneShot, ValuesOK, Ops, InFlight, Started,
       StageAgrees
<1>5. ASSUME NEW o \in ConnOps, AsyncConnect(o) PROVE OneShot'
BY <1>5 DEF AsyncConnect, Post, CanInitiate, Initiating, reactor, threads,
       aux, OneShot, ValuesOK, Ops, InFlight, Started, StageAgrees
<1>6. ASSUME NEW o \in ConnOps, ConnectCas(o) PROVE OneShot'
BY <1>6 DEF ConnectCas, Post, reactor, threads, cmvars, aux, OneShot,
       ValuesOK, Ops, InFlight, Started, StageAgrees
<1>7. ASSUME NEW o \in ConnOps, AsyncAccept(o) PROVE OneShot'
BY <1>7 DEF AsyncAccept, CanInitiate, Initiating, connector, reactor, threads,
       cmvars, aux, OneShot, ValuesOK, Ops, InFlight, Started, StageAgrees
<1>8. ASSUME NEW o \in ConnOps, AcceptCas(o) PROVE OneShot'
  <2>1. o \in Ops /\ UNCHANGED <<life, rpc>> /\ life \notin {"unopened", "opening"}
    BY <1>8 DEF AcceptCas, OneShot, reactor, Ops
  <2>2. CASE connect_state = "idle"
    <3>1. \A x \in ConnOps : /\ phase'[x] = IF x = o THEN "accept_call" ELSE phase[x]
                             /\ stage'[x] = IF x = o THEN "accept" ELSE stage[x]
      BY <1>8, <2>2 DEF AcceptCas, ValuesOK, Ops
    <3>2. connect_state' = "connecting"
      BY <1>8, <2>2 DEF AcceptCas
    <3>3. Started(o)
      BY <1>8 DEF AcceptCas, Started
    <3>4. QED BY <2>1, <3>1, <3>2, <3>3 DEF OneShot, Started
  <2>3. CASE connect_state # "idle"
    <3>1. \A x \in ConnOps : phase'[x] = IF x = o THEN "posted" ELSE phase[x]
      BY <1>8, <2>3 DEF AcceptCas, Post, ValuesOK, Ops
    <3>2. UNCHANGED <<connect_state, stage>>
      BY <1>8, <2>3 DEF AcceptCas
    <3>3. QED BY <2>1, <2>3, <3>1, <3>2 DEF OneShot, Started
  <2>4. QED BY <2>2, <2>3
<1>9. ASSUME NEW o \in ConnOps, AcceptCall(o) PROVE OneShot'
BY <1>9 DEF AcceptCall, Post, reactor, threads, aux, OneShot, ValuesOK, Ops,
       InFlight, Started, StageAgrees
<1>10. ASSUME NEW w \in Watchers, AsyncWaitDisconnect(w) PROVE OneShot'
BY <1>10 DEF AsyncWaitDisconnect, Post, CanInitiate, connector, reactor,
       threads, cmvars, aux, OneShot, ValuesOK, Ops, InFlight, Started,
       StageAgrees
<1>11. ASSUME NEW o \in Ops, StartOp(o) PROVE OneShot'
BY <1>11 DEF StartOp, connector, threads, cmvars, aux, OneShot, ValuesOK, Ops,
       InFlight, Started, StageAgrees
<1>12. ASSUME NEW t \in Threads, DisconnectClaim(t) PROVE OneShot'
BY <1>12 DEF DisconnectClaim, is_open, opvars, reactor, cmvars, aux, OneShot,
       ValuesOK, Ops, InFlight, Started, StageAgrees
<1>13. ASSUME NEW t \in Threads, DisconnectCancel(t) PROVE OneShot'
  <2>1. \A x \in Ops : /\ phase'[x] = IF phase[x] = "armed" THEN "posted" ELSE phase[x]
                      /\ ec'[x] = IF phase[x] = "armed" THEN "aborted" ELSE ec[x]
    BY <1>13, AbortEffect DEF DisconnectCancel
  <2>2. \A x \in ConnOps : x \in Ops
    BY DEF Ops
  <2>3. QED
    BY <1>13, <2>1, <2>2 DEF DisconnectCancel, connector, OneShot, Started
<1>14. ASSUME NEW t \in Threads, DisconnectRdma(t) PROVE OneShot'
BY <1>14 DEF DisconnectRdma, RdmaDisconnect, connector, opvars, reactor, aux,
       OneShot, ValuesOK, Ops, InFlight, Started, StageAgrees
<1>15. ASSUME NEW o \in Ops, CancelByKey(o) PROVE OneShot'
  <2>1. phase[o] = "armed"
    BY <1>15 DEF CancelByKey, QueueConsistent
  <2>2. /\ life' = life /\ stage' = stage /\ connect_state' = connect_state
        /\ rpc' = rpc /\ phase' = [phase EXCEPT ![o] = "posted"]
        /\ ec' = [ec EXCEPT ![o] = "aborted"]
    BY <1>15 DEF CancelByKey, Post, connector
  <2>3. CASE o \in ConnOps
    BY <2>1, <2>2, <2>3, ArmedIsOpen, PostOneShot
  <2>4. CASE o \notin ConnOps
    <3>1. \A x \in ConnOps : phase'[x] = phase[x] /\ ec'[x] = ec[x]
      BY <2>2, <2>4 DEF ValuesOK, Ops
    <3>2. QED BY <2>2, <3>1 DEF OneShot, Started
  <2>5. QED BY <2>3, <2>4
<1>16. ASSUME NEW o \in Ops, Complete(o) PROVE OneShot'
BY <1>16 DEF Complete, StoresClosed, reactor, threads, cmvars, OneShot,
       ValuesOK, Ops, InFlight, Started, StageAgrees
<1>17. ASSUME PerformIo PROVE OneShot'
BY <1>17 DEF PerformIo, connector, opvars, threads, cmvars, aux, OneShot,
       ValuesOK, Ops, InFlight, Started, StageAgrees
<1>18. ASSUME PerformIoEnd PROVE OneShot'
BY <1>18 DEF PerformIoEnd, connector, opvars, threads, cmvars, aux, OneShot,
       ValuesOK, Ops, InFlight, Started, StageAgrees
<1>19. ASSUME NEW o \in Ops, GetEventError(o) PROVE OneShot'
  <2>1. /\ o \in Ops /\ phase[o] = "armed" /\ life' = life /\ stage' = stage
        /\ phase' = [phase EXCEPT ![o] = "posted"]
        /\ connect_state' = connect_state \/ connect_state' = "closed"
        /\ life \notin {"unopened", "opening"}
BY <1>19, FrontArmed DEF GetEventError, Retire, Post, connector, OneShot, Ops
  <2>2. QED BY <2>1, PostOneShot
<1>20. ASSUME NEW o \in ConnOps, ProcessResolve(o) PROVE OneShot'
  <2>1. /\ o \in Ops /\ phase[o] = "armed" /\ life' = life /\ stage' = stage
        /\ stage[o] # "none" /\ life \notin {"unopened", "opening"}
    BY <1>20, FrontArmed DEF ProcessResolve, TakeEvent, OneShot, Ops
  <2>2. CASE Retire(o, "aborted") /\ UNCHANGED connect_state
    BY <2>1, <2>2, PostOneShot DEF Retire, Post
  <2>3. CASE /\ UNCHANGED <<rq, phase, ec>>
             /\ connect_state' \in {connect_state, "addr_route", "connecting"}
    BY <2>1, <2>3 DEF OneShot, Started
  <2>4. QED BY <1>20, <2>2, <2>3 DEF ProcessResolve, Advance
<1>21. ASSUME NEW o \in ConnOps, ResolveRoute(o) PROVE OneShot'
  <2>1. /\ stage[o] # "none" /\ life \notin {"unopened", "opening"}
        /\ UNCHANGED <<life, connect_state, phase, ec>>
    BY <1>21 DEF ResolveRoute, Front, PerformAgrees, OneShot, connector
  <2>2. \A x \in ConnOps : stage'[x] # "none" <=> stage[x] # "none"
    BY <1>21, <2>1 DEF ResolveRoute, ValuesOK
  <2>3. QED BY <2>1, <2>2 DEF OneShot, Started
<1>22. ASSUME NEW o \in ConnOps, RdmaConnect(o) PROVE OneShot'
  <2>1. /\ stage[o] # "none" /\ life \notin {"unopened", "opening"}
        /\ UNCHANGED <<life, connect_state, phase, ec>>
    BY <1>22 DEF RdmaConnect, Front, PerformAgrees, OneShot, connector
  <2>2. \A x \in ConnOps : stage'[x] # "none" <=> stage[x] # "none"
    BY <1>22, <2>1 DEF RdmaConnect, ValuesOK
  <2>3. QED BY <2>1, <2>2 DEF OneShot, Started
<1>23. ASSUME NEW o \in ConnOps, ClaimClosed(o) PROVE OneShot'
BY <1>23 DEF ClaimClosed, Front, Retire, Post, threads, cmvars, aux, OneShot,
       ValuesOK, Ops, InFlight, Started, StageAgrees
<1>24. ASSUME NEW o \in ConnOps, ProcessConnect(o) PROVE OneShot'
BY <1>24 DEF ProcessConnect, TakeEvent, Front, Arbitrate, opvars, threads,
       aux, OneShot, ValuesOK, Ops, InFlight, Started, StageAgrees
<1>25. ASSUME NEW o \in ConnOps, ModifyQp(o) PROVE OneShot'
  <2>1. /\ o \in Ops /\ phase[o] = "armed" /\ life' = life /\ stage' = stage
        /\ phase' = [phase EXCEPT ![o] = "posted"]
        /\ connect_state' = connect_state \/ connect_state' = "closed"
        /\ life \notin {"unopened", "opening"}
    BY <1>25, FrontArmed DEF ModifyQp, Retire, Post, connector, OneShot, Ops
  <2>2. QED BY <2>1, PostOneShot
<1>26. ASSUME NEW o \in ConnOps, SecondActorTeardown(o) PROVE OneShot'
  <2>1. /\ o \in Ops /\ phase[o] = "armed" /\ life' = life /\ stage' = stage
        /\ phase' = [phase EXCEPT ![o] = "posted"]
        /\ connect_state' = connect_state \/ connect_state' = "closed"
        /\ life \notin {"unopened", "opening"}
BY <1>26, FrontArmed DEF SecondActorTeardown, Retire, Post, connector,
         OneShot, Ops
  <2>2. QED BY <2>1, PostOneShot
<1>27. ASSUME NEW w \in Watchers, ProcessWatch(w) PROVE OneShot'
  <2>1. /\ w \in Ops /\ phase[w] = "armed" /\ life' = life /\ stage' = stage
        /\ connect_state' = connect_state /\ life \notin {"unopened", "opening"}
    BY <1>27, FrontArmed DEF ProcessWatch, TakeEvent, OneShot, Ops
  <2>2. CASE phase' = [phase EXCEPT ![w] = "posted"]
    BY <2>1, <2>2, PostOneShot
  <2>3. CASE phase' = phase /\ ec' = ec
    BY <2>1, <2>3 DEF OneShot, Started
  <2>4. QED BY <1>27, <2>2, <2>3 DEF ProcessWatch, Retire, Post
<1>28. ASSUME CloseDeregister PROVE OneShot'
BY <1>28 DEF CloseDeregister, AbortQueued, Initiating, threads, cmvars, aux,
       OneShot, ValuesOK, Ops, InFlight, Started, StageAgrees
<1>29. ASSUME DrainCmEvent PROVE OneShot'
BY <1>29 DEF DrainCmEvent, RdmaDisconnect, connector, opvars, reactor,
       threads, aux, OneShot, ValuesOK, Ops, InFlight, Started, StageAgrees
<1>30. ASSUME CloseDestroy PROVE OneShot'
BY <1>30 DEF CloseDestroy, opvars, reactor, threads, OneShot, ValuesOK, Ops,
       InFlight, Started, StageAgrees
<1>31. ASSUME CmAnswer PROVE OneShot'
BY <1>31 DEF CmAnswer, Report, connector, opvars, threads, aux, OneShot,
       ValuesOK, Ops, InFlight, Started, StageAgrees
<1>32. ASSUME PeerDisconnect PROVE OneShot'
BY <1>32 DEF PeerDisconnect, Report, connector, opvars, threads, aux, OneShot,
       ValuesOK, Ops, InFlight, Started, StageAgrees
<1>33. ASSUME CmExtra PROVE OneShot'
BY <1>33 DEF CmExtra, connector, opvars, threads, OneShot, ValuesOK, Ops,
       InFlight, Started, StageAgrees
<1>34. CASE UNCHANGED vars
BY <1>34 DEF vars, connector, opvars, reactor, threads, cmvars, aux, OneShot,
       ValuesOK, Ops, InFlight, Started, StageAgrees
<1>35. QED
BY <1>1, <1>2, <1>3, <1>4, <1>5, <1>6, <1>7, <1>8, <1>9, <1>10, <1>11, <1>12,
       <1>13, <1>14, <1>15, <1>16, <1>17, <1>18, <1>19, <1>20, <1>21, <1>22,
       <1>23, <1>24, <1>25, <1>26, <1>27, <1>28, <1>29, <1>30, <1>31, <1>32,
       <1>33, <1>34 DEF Next, Initiate, Disconnect, Perform, Close

(* Stages keep agreeing with the cm_id. *)
LEMMA StageStep ==
  /\ ValuesOK /\ QueueConsistent /\ OneShot /\ StageAgrees
  /\ PerformAgrees /\ ConnectedWasWon
  /\ [Next]_vars
  => StageAgrees'
<1> SUFFICES ASSUME ValuesOK, QueueConsistent, OneShot,
                   StageAgrees, PerformAgrees, ConnectedWasWon, [Next]_vars
             PROVE  StageAgrees'
  OBVIOUS
<1>1. ASSUME Open PROVE StageAgrees'
BY <1>1 DEF Open, opvars, reactor, threads, aux, StageAgrees, OneShot,
       PerformAgrees, PostEst, PreEst, ValuesOK, Ops, InFlight, Started
<1>2. ASSUME Assign PROVE StageAgrees'
BY <1>2 DEF Assign, opvars, reactor, threads, aux, StageAgrees, OneShot,
       PerformAgrees, PostEst, PreEst, ValuesOK, Ops, InFlight, Started
<1>3. ASSUME StoreIdle PROVE StageAgrees'
BY <1>3 DEF StoreIdle, opvars, reactor, threads, cmvars, aux, StageAgrees,
       OneShot, PerformAgrees, PostEst, PreEst, ValuesOK, Ops, InFlight,
       Started
<1>4. ASSUME NEW o \in ConnOps, Reject(o) PROVE StageAgrees'
BY <1>4 DEF Reject, Post, CanInitiate, Initiating, connector, reactor,
       threads, cmvars, aux, StageAgrees, OneShot, PerformAgrees, PostEst,
       PreEst, ValuesOK, Ops, InFlight, Started
<1>5. ASSUME NEW o \in ConnOps, AsyncConnect(o) PROVE StageAgrees'
BY <1>5 DEF AsyncConnect, Post, CanInitiate, Initiating, reactor, threads,
       aux, StageAgrees, OneShot, PerformAgrees, PostEst, PreEst, ValuesOK,
       Ops, InFlight, Started
<1>6. ASSUME NEW o \in ConnOps, ConnectCas(o) PROVE StageAgrees'
BY <1>6 DEF ConnectCas, Post, reactor, threads, cmvars, aux, StageAgrees,
       OneShot, PerformAgrees, PostEst, PreEst, ValuesOK, Ops, InFlight,
       Started
<1>7. ASSUME NEW o \in ConnOps, AsyncAccept(o) PROVE StageAgrees'
BY <1>7 DEF AsyncAccept, CanInitiate, Initiating, connector, reactor, threads,
       cmvars, aux, StageAgrees, OneShot, PerformAgrees, PostEst, PreEst,
       ValuesOK, Ops, InFlight, Started
<1>8. ASSUME NEW o \in ConnOps, AcceptCas(o) PROVE StageAgrees'
BY <1>8 DEF AcceptCas, Post, reactor, threads, cmvars, aux, StageAgrees,
       OneShot, PerformAgrees, PostEst, PreEst, ValuesOK, Ops, InFlight,
       Started
<1>9. ASSUME NEW o \in ConnOps, AcceptCall(o) PROVE StageAgrees'
BY <1>9 DEF AcceptCall, Post, reactor, threads, aux, StageAgrees, OneShot,
       PerformAgrees, PostEst, PreEst, ValuesOK, Ops, InFlight, Started
<1>10. ASSUME NEW w \in Watchers, AsyncWaitDisconnect(w) PROVE StageAgrees'
  <2>1. UNCHANGED <<stage, cm, connect_state>> /\ w \in Ops
    BY <1>10 DEF AsyncWaitDisconnect, connector, cmvars, Ops
  <2>2. \A x \in ConnOps : phase'[x] = phase[x]
    BY <1>10, OpsDisjoint DEF AsyncWaitDisconnect, Post, ValuesOK, Ops
  <2>3. QED BY <2>1, <2>2 DEF StageAgrees
<1>11. ASSUME NEW o \in Ops, StartOp(o) PROVE StageAgrees'
BY <1>11 DEF StartOp, connector, threads, cmvars, aux, StageAgrees, OneShot,
       PerformAgrees, PostEst, PreEst, ValuesOK, Ops, InFlight, Started
<1>12. ASSUME NEW t \in Threads, DisconnectClaim(t) PROVE StageAgrees'
BY <1>12 DEF DisconnectClaim, is_open, opvars, reactor, cmvars, aux,
       StageAgrees, OneShot, PerformAgrees, PostEst, PreEst, ValuesOK, Ops,
       InFlight, Started
<1>13. ASSUME NEW t \in Threads, DisconnectCancel(t) PROVE StageAgrees'
BY <1>13 DEF DisconnectCancel, AbortQueued, AfterCancel, connector, cmvars,
       aux, StageAgrees, OneShot, PerformAgrees, PostEst, PreEst, ValuesOK,
       Ops, InFlight, Started
<1>14. ASSUME NEW t \in Threads, DisconnectRdma(t) PROVE StageAgrees'
BY <1>14 DEF DisconnectRdma, RdmaDisconnect, connector, opvars, reactor, aux,
       StageAgrees, OneShot, PerformAgrees, PostEst, PreEst, ValuesOK, Ops,
       InFlight, Started
<1>15. ASSUME NEW o \in Ops, CancelByKey(o) PROVE StageAgrees'
BY <1>15 DEF CancelByKey, Post, Without, connector, threads, cmvars, aux,
       StageAgrees, OneShot, PerformAgrees, PostEst, PreEst, ValuesOK, Ops,
       InFlight, Started
<1>16. ASSUME NEW o \in Ops, Complete(o) PROVE StageAgrees'
BY <1>16 DEF Complete, StoresClosed, reactor, threads, cmvars, StageAgrees,
       OneShot, PerformAgrees, PostEst, PreEst, ValuesOK, Ops, InFlight,
       Started
<1>17. ASSUME PerformIo PROVE StageAgrees'
BY <1>17 DEF PerformIo, connector, opvars, threads, cmvars, aux, StageAgrees,
       OneShot, PerformAgrees, PostEst, PreEst, ValuesOK, Ops, InFlight,
       Started
<1>18. ASSUME PerformIoEnd PROVE StageAgrees'
BY <1>18 DEF PerformIoEnd, connector, opvars, threads, cmvars, aux,
       StageAgrees, OneShot, PerformAgrees, PostEst, PreEst, ValuesOK, Ops,
       InFlight, Started
<1>19. ASSUME NEW o \in Ops, GetEventError(o) PROVE StageAgrees'
BY <1>19 DEF GetEventError, Front, Retire, Post, connector, threads, cmvars,
       StageAgrees, OneShot, PerformAgrees, PostEst, PreEst, ValuesOK, Ops,
       InFlight, Started
<1>20. ASSUME NEW o \in ConnOps, ProcessResolve(o) PROVE StageAgrees'
BY <1>20 DEF ProcessResolve, TakeEvent, Front, Advance, Retire, Post, threads,
       aux, StageAgrees, OneShot, PerformAgrees, PostEst, PreEst, ValuesOK,
       Ops, InFlight, Started
<1>21. ASSUME NEW o \in ConnOps, ResolveRoute(o) PROVE StageAgrees'
  <2>1. /\ stage[o] = "addr_resolve" /\ connect_state \in {"addr_route", "closed"}
        /\ UNCHANGED <<phase, connect_state>>
    BY <1>21 DEF ResolveRoute, Front, PerformAgrees, connector
  <2>2. phase[o] = "armed"
    BY <1>21, FrontArmed DEF ResolveRoute, Ops
  <2>3. CASE cm' = cm /\ stage' = stage
    BY <2>1, <2>3 DEF StageAgrees
  <2>4. CASE cm' = "routing" /\ stage' = [stage EXCEPT ![o] = "addr_route"]
    <3>1. \A x \in ConnOps : x # o => stage[x] = "none"
      BY <2>1 DEF OneShot, Started
    <3>2. QED BY <2>1, <2>2, <2>4, <3>1 DEF StageAgrees, ValuesOK, Ops
  <2>5. QED BY <1>21, <2>3, <2>4 DEF ResolveRoute
<1>22. ASSUME NEW o \in ConnOps, RdmaConnect(o) PROVE StageAgrees'
BY <1>22 DEF RdmaConnect, Front, connector, threads, aux, StageAgrees,
       OneShot, PerformAgrees, PostEst, PreEst, ValuesOK, Ops, InFlight,
       Started
<1>23. ASSUME NEW o \in ConnOps, ClaimClosed(o) PROVE StageAgrees'
BY <1>23 DEF ClaimClosed, Front, Retire, Post, threads, cmvars, aux,
       StageAgrees, OneShot, PerformAgrees, PostEst, PreEst, ValuesOK, Ops,
       InFlight, Started
<1>24. ASSUME NEW o \in ConnOps, ProcessConnect(o) PROVE StageAgrees'
BY <1>24 DEF ProcessConnect, TakeEvent, Front, Arbitrate, opvars, threads,
       aux, StageAgrees, OneShot, PerformAgrees, PostEst, PreEst, ValuesOK,
       Ops, InFlight, Started
<1>25. ASSUME NEW o \in ConnOps, ModifyQp(o) PROVE StageAgrees'
BY <1>25 DEF ModifyQp, Front, Retire, Post, connector, threads, cmvars, aux,
       StageAgrees, OneShot, PerformAgrees, PostEst, PreEst, ValuesOK, Ops,
       InFlight, Started
<1>26. ASSUME NEW o \in ConnOps, SecondActorTeardown(o) PROVE StageAgrees'
BY <1>26 DEF SecondActorTeardown, Front, Retire, Post, RdmaDisconnect,
       connector, threads, aux, StageAgrees, OneShot, PerformAgrees, PostEst,
       PreEst, ValuesOK, Ops, InFlight, Started
<1>27. ASSUME NEW w \in Watchers, ProcessWatch(w) PROVE StageAgrees'
BY <1>27 DEF ProcessWatch, TakeEvent, Front, Retire, Post, threads, aux,
       StageAgrees, OneShot, PerformAgrees, PostEst, PreEst, ValuesOK, Ops,
       InFlight, Started
<1>28. ASSUME CloseDeregister PROVE StageAgrees'
BY <1>28 DEF CloseDeregister, AbortQueued, Initiating, threads, cmvars, aux,
       StageAgrees, OneShot, PerformAgrees, PostEst, PreEst, ValuesOK, Ops,
       InFlight, Started
<1>29. ASSUME DrainCmEvent PROVE StageAgrees'
BY <1>29 DEF DrainCmEvent, RdmaDisconnect, connector, opvars, reactor,
       threads, aux, StageAgrees, OneShot, PerformAgrees, PostEst, PreEst,
       ValuesOK, Ops, InFlight, Started
<1>30. ASSUME CloseDestroy PROVE StageAgrees'
BY <1>30 DEF CloseDestroy, opvars, reactor, threads, StageAgrees, OneShot,
       PerformAgrees, PostEst, PreEst, ValuesOK, Ops, InFlight, Started
<1>31. ASSUME CmAnswer PROVE StageAgrees'
BY <1>31 DEF CmAnswer, Report, connector, opvars, threads, aux, StageAgrees,
       OneShot, PerformAgrees, PostEst, PreEst, ValuesOK, Ops, InFlight,
       Started
<1>32. ASSUME PeerDisconnect PROVE StageAgrees'
BY <1>32 DEF PeerDisconnect, Report, connector, opvars, threads, aux,
       StageAgrees, OneShot, PerformAgrees, PostEst, PreEst, ValuesOK, Ops,
       InFlight, Started
<1>33. ASSUME CmExtra PROVE StageAgrees'
BY <1>33 DEF CmExtra, connector, opvars, threads, StageAgrees, OneShot,
       PerformAgrees, PostEst, PreEst, ValuesOK, Ops, InFlight, Started
<1>34. CASE UNCHANGED vars
BY <1>34 DEF vars, connector, opvars, reactor, threads, cmvars, aux,
       StageAgrees, OneShot, PerformAgrees, PostEst, PreEst, ValuesOK, Ops,
       InFlight, Started
<1>35. QED
BY <1>1, <1>2, <1>3, <1>4, <1>5, <1>6, <1>7, <1>8, <1>9, <1>10, <1>11, <1>12,
       <1>13, <1>14, <1>15, <1>16, <1>17, <1>18, <1>19, <1>20, <1>21, <1>22,
       <1>23, <1>24, <1>25, <1>26, <1>27, <1>28, <1>29, <1>30, <1>31, <1>32,
       <1>33, <1>34 DEF Next, Initiate, Disconnect, Perform, Close

(* perform_io keeps agreeing with the front. *)
LEMMA PerformStep ==
  /\ ValuesOK /\ QueueConsistent /\ OneShot /\ StageAgrees
  /\ PerformAgrees /\ ConnectedWasWon
  /\ [Next]_vars
  => PerformAgrees'
<1> SUFFICES ASSUME ValuesOK, QueueConsistent, OneShot,
                   StageAgrees, PerformAgrees, ConnectedWasWon, [Next]_vars
             PROVE  PerformAgrees'
  OBVIOUS
<1>1. ASSUME Open PROVE PerformAgrees'
BY <1>1 DEF Open, opvars, reactor, threads, aux, PerformAgrees, OneShot,
       StageAgrees, ValuesOK, Ops, InFlight, Started
<1>2. ASSUME Assign PROVE PerformAgrees'
BY <1>2 DEF Assign, opvars, reactor, threads, aux, PerformAgrees, OneShot,
       StageAgrees, ValuesOK, Ops, InFlight, Started
<1>3. ASSUME StoreIdle PROVE PerformAgrees'
BY <1>3 DEF StoreIdle, opvars, reactor, threads, cmvars, aux, PerformAgrees,
       OneShot, StageAgrees, ValuesOK, Ops, InFlight, Started
<1>4. ASSUME NEW o \in ConnOps, Reject(o) PROVE PerformAgrees'
BY <1>4 DEF Reject, Post, CanInitiate, Initiating, connector, reactor,
       threads, cmvars, aux, PerformAgrees, OneShot, StageAgrees, ValuesOK,
       Ops, InFlight, Started
<1>5. ASSUME NEW o \in ConnOps, AsyncConnect(o) PROVE PerformAgrees'
BY <1>5 DEF AsyncConnect, Post, CanInitiate, Initiating, reactor, threads,
       aux, PerformAgrees, OneShot, StageAgrees, ValuesOK, Ops, InFlight,
       Started
<1>6. ASSUME NEW o \in ConnOps, ConnectCas(o) PROVE PerformAgrees'
BY <1>6 DEF ConnectCas, Post, reactor, threads, cmvars, aux, PerformAgrees,
       OneShot, StageAgrees, ValuesOK, Ops, InFlight, Started
<1>7. ASSUME NEW o \in ConnOps, AsyncAccept(o) PROVE PerformAgrees'
BY <1>7 DEF AsyncAccept, CanInitiate, Initiating, connector, reactor, threads,
       cmvars, aux, PerformAgrees, OneShot, StageAgrees, ValuesOK, Ops,
       InFlight, Started
<1>8. ASSUME NEW o \in ConnOps, AcceptCas(o) PROVE PerformAgrees'
BY <1>8 DEF AcceptCas, Post, reactor, threads, cmvars, aux, PerformAgrees,
       OneShot, StageAgrees, ValuesOK, Ops, InFlight, Started
<1>9. ASSUME NEW o \in ConnOps, AcceptCall(o) PROVE PerformAgrees'
BY <1>9 DEF AcceptCall, Post, reactor, threads, aux, PerformAgrees, OneShot,
       StageAgrees, ValuesOK, Ops, InFlight, Started
<1>10. ASSUME NEW w \in Watchers, AsyncWaitDisconnect(w) PROVE PerformAgrees'
BY <1>10 DEF AsyncWaitDisconnect, Post, CanInitiate, connector, reactor,
       threads, cmvars, aux, PerformAgrees, OneShot, StageAgrees, ValuesOK,
       Ops, InFlight, Started
<1>11. ASSUME NEW o \in Ops, StartOp(o) PROVE PerformAgrees'
BY <1>11 DEF StartOp, connector, threads, cmvars, aux, PerformAgrees, OneShot,
       StageAgrees, ValuesOK, Ops, InFlight, Started
<1>12. ASSUME NEW t \in Threads, DisconnectClaim(t) PROVE PerformAgrees'
BY <1>12 DEF DisconnectClaim, is_open, opvars, reactor, cmvars, aux,
       PerformAgrees, OneShot, StageAgrees, ValuesOK, Ops, InFlight, Started
<1>13. ASSUME NEW t \in Threads, DisconnectCancel(t) PROVE PerformAgrees'
BY <1>13 DEF DisconnectCancel, AbortQueued, AfterCancel, connector, cmvars,
       aux, PerformAgrees, OneShot, StageAgrees, ValuesOK, Ops, InFlight,
       Started
<1>14. ASSUME NEW t \in Threads, DisconnectRdma(t) PROVE PerformAgrees'
BY <1>14 DEF DisconnectRdma, RdmaDisconnect, connector, opvars, reactor, aux,
       PerformAgrees, OneShot, StageAgrees, ValuesOK, Ops, InFlight, Started
<1>15. ASSUME NEW o \in Ops, CancelByKey(o) PROVE PerformAgrees'
BY <1>15 DEF CancelByKey, Post, Without, connector, threads, cmvars, aux,
       PerformAgrees, OneShot, StageAgrees, ValuesOK, Ops, InFlight, Started
<1>16. ASSUME NEW o \in Ops, Complete(o) PROVE PerformAgrees'
BY <1>16 DEF Complete, StoresClosed, reactor, threads, cmvars, PerformAgrees,
       OneShot, StageAgrees, ValuesOK, Ops, InFlight, Started
<1>17. ASSUME PerformIo PROVE PerformAgrees'
BY <1>17 DEF PerformIo, connector, opvars, threads, cmvars, aux,
       PerformAgrees, OneShot, StageAgrees, ValuesOK, Ops, InFlight, Started
<1>18. ASSUME PerformIoEnd PROVE PerformAgrees'
BY <1>18 DEF PerformIoEnd, connector, opvars, threads, cmvars, aux,
       PerformAgrees, OneShot, StageAgrees, ValuesOK, Ops, InFlight, Started
<1>19. ASSUME NEW o \in Ops, GetEventError(o) PROVE PerformAgrees'
BY <1>19 DEF GetEventError, Front, Retire, Post, connector, threads, cmvars,
       PerformAgrees, OneShot, StageAgrees, ValuesOK, Ops, InFlight, Started
<1>20. ASSUME NEW o \in ConnOps, ProcessResolve(o) PROVE PerformAgrees'
BY <1>20 DEF ProcessResolve, TakeEvent, Front, Advance, Retire, Post, threads,
       aux, PerformAgrees, OneShot, StageAgrees, ValuesOK, Ops, InFlight,
       Started
<1>21. ASSUME NEW o \in ConnOps, ResolveRoute(o) PROVE PerformAgrees'
BY <1>21 DEF ResolveRoute, Front, connector, threads, aux, PerformAgrees,
       OneShot, StageAgrees, ValuesOK, Ops, InFlight, Started
<1>22. ASSUME NEW o \in ConnOps, RdmaConnect(o) PROVE PerformAgrees'
BY <1>22 DEF RdmaConnect, Front, connector, threads, aux, PerformAgrees,
       OneShot, StageAgrees, ValuesOK, Ops, InFlight, Started
<1>23. ASSUME NEW o \in ConnOps, ClaimClosed(o) PROVE PerformAgrees'
BY <1>23 DEF ClaimClosed, Front, Retire, Post, threads, cmvars, aux,
       PerformAgrees, OneShot, StageAgrees, ValuesOK, Ops, InFlight, Started
<1>24. ASSUME NEW o \in ConnOps, ProcessConnect(o) PROVE PerformAgrees'
BY <1>24 DEF ProcessConnect, TakeEvent, Front, Arbitrate, opvars, threads,
       aux, PerformAgrees, OneShot, StageAgrees, ValuesOK, Ops, InFlight,
       Started
<1>25. ASSUME NEW o \in ConnOps, ModifyQp(o) PROVE PerformAgrees'
BY <1>25 DEF ModifyQp, Front, Retire, Post, connector, threads, cmvars, aux,
       PerformAgrees, OneShot, StageAgrees, ValuesOK, Ops, InFlight, Started
<1>26. ASSUME NEW o \in ConnOps, SecondActorTeardown(o) PROVE PerformAgrees'
BY <1>26 DEF SecondActorTeardown, Front, Retire, Post, RdmaDisconnect,
       connector, threads, aux, PerformAgrees, OneShot, StageAgrees, ValuesOK,
       Ops, InFlight, Started
<1>27. ASSUME NEW w \in Watchers, ProcessWatch(w) PROVE PerformAgrees'
BY <1>27 DEF ProcessWatch, TakeEvent, Front, Retire, Post, threads, aux,
       PerformAgrees, OneShot, StageAgrees, ValuesOK, Ops, InFlight, Started
<1>28. ASSUME CloseDeregister PROVE PerformAgrees'
BY <1>28 DEF CloseDeregister, AbortQueued, Initiating, threads, cmvars, aux,
       PerformAgrees, OneShot, StageAgrees, ValuesOK, Ops, InFlight, Started
<1>29. ASSUME DrainCmEvent PROVE PerformAgrees'
BY <1>29 DEF DrainCmEvent, RdmaDisconnect, connector, opvars, reactor,
       threads, aux, PerformAgrees, OneShot, StageAgrees, ValuesOK, Ops,
       InFlight, Started
<1>30. ASSUME CloseDestroy PROVE PerformAgrees'
BY <1>30 DEF CloseDestroy, opvars, reactor, threads, PerformAgrees, OneShot,
       StageAgrees, ValuesOK, Ops, InFlight, Started
<1>31. ASSUME CmAnswer PROVE PerformAgrees'
BY <1>31 DEF CmAnswer, Report, connector, opvars, threads, aux, PerformAgrees,
       OneShot, StageAgrees, ValuesOK, Ops, InFlight, Started
<1>32. ASSUME PeerDisconnect PROVE PerformAgrees'
BY <1>32 DEF PeerDisconnect, Report, connector, opvars, threads, aux,
       PerformAgrees, OneShot, StageAgrees, ValuesOK, Ops, InFlight, Started
<1>33. ASSUME CmExtra PROVE PerformAgrees'
BY <1>33 DEF CmExtra, connector, opvars, threads, PerformAgrees, OneShot,
       StageAgrees, ValuesOK, Ops, InFlight, Started
<1>34. CASE UNCHANGED vars
BY <1>34 DEF vars, connector, opvars, reactor, threads, cmvars, aux,
       PerformAgrees, OneShot, StageAgrees, ValuesOK, Ops, InFlight, Started
<1>35. QED
BY <1>1, <1>2, <1>3, <1>4, <1>5, <1>6, <1>7, <1>8, <1>9, <1>10, <1>11, <1>12,
       <1>13, <1>14, <1>15, <1>16, <1>17, <1>18, <1>19, <1>20, <1>21, <1>22,
       <1>23, <1>24, <1>25, <1>26, <1>27, <1>28, <1>29, <1>30, <1>31, <1>32,
       <1>33, <1>34 DEF Next, Initiate, Disconnect, Perform, Close

(* A live connection stays won. *)
LEMMA ConnectedStep ==
  /\ ValuesOK /\ QueueConsistent /\ OneShot /\ StageAgrees
  /\ PerformAgrees /\ ConnectedWasWon
  /\ [Next]_vars
  => ConnectedWasWon'
<1> SUFFICES ASSUME ValuesOK, QueueConsistent, OneShot,
                   StageAgrees, PerformAgrees, ConnectedWasWon, [Next]_vars
             PROVE  ConnectedWasWon'
  OBVIOUS
<1>1. ASSUME Open PROVE ConnectedWasWon'
BY <1>1 DEF Open, opvars, reactor, threads, aux, ConnectedWasWon, OneShot,
       StageAgrees, PerformAgrees, QueueConsistent, ValuesOK, Ops, InFlight,
       Started
<1>2. ASSUME Assign PROVE ConnectedWasWon'
BY <1>2 DEF Assign, opvars, reactor, threads, aux, ConnectedWasWon, OneShot,
       StageAgrees, PerformAgrees, QueueConsistent, ValuesOK, Ops, InFlight,
       Started
<1>3. ASSUME StoreIdle PROVE ConnectedWasWon'
BY <1>3 DEF StoreIdle, opvars, reactor, threads, cmvars, aux, ConnectedWasWon,
       OneShot, StageAgrees, PerformAgrees, QueueConsistent, ValuesOK, Ops,
       InFlight, Started
<1>4. ASSUME NEW o \in ConnOps, Reject(o) PROVE ConnectedWasWon'
BY <1>4 DEF Reject, Post, CanInitiate, Initiating, connector, reactor,
       threads, cmvars, aux, ConnectedWasWon, OneShot, StageAgrees,
       PerformAgrees, QueueConsistent, ValuesOK, Ops, InFlight, Started
<1>5. ASSUME NEW o \in ConnOps, AsyncConnect(o) PROVE ConnectedWasWon'
BY <1>5 DEF AsyncConnect, Post, CanInitiate, Initiating, reactor, threads,
       aux, ConnectedWasWon, OneShot, StageAgrees, PerformAgrees,
       QueueConsistent, ValuesOK, Ops, InFlight, Started
<1>6. ASSUME NEW o \in ConnOps, ConnectCas(o) PROVE ConnectedWasWon'
  <2>1. o \in Ops /\ UNCHANGED <<stage, rpc>>
    BY <1>6 DEF ConnectCas, reactor, Ops
  <2>2. stage[o] = "addr_resolve" /\ ec[o] # "aborted"
    BY <1>6 DEF ConnectCas, StageAgrees, ConnectedWasWon
  <2>3. CASE connect_state = "idle"
    <3>1. connect_state' = "addr_resolve" /\ ec' = ec
          /\ \A x \in ConnOps : x # o => phase'[x] = phase[x]
      BY <1>6, <2>3 DEF ConnectCas, ValuesOK, Ops
    <3>2. rpc # "modify_qp"
      BY <2>3 DEF ConnectedWasWon
    <3>3. QED BY <2>1, <2>2, <2>3, <3>1, <3>2 DEF ConnectedWasWon
  <2>4. CASE connect_state # "idle"
    <3>1. connect_state' = connect_state /\ Post(o, "aborted")
      BY <1>6, <2>4 DEF ConnectCas
    <3>a. \A x \in ConnOps : /\ phase'[x] = IF x = o THEN "posted" ELSE phase[x]
                             /\ ec'[x] = IF x = o THEN "aborted" ELSE ec[x]
      BY <3>1 DEF Post, ValuesOK, Ops
    <3>2. QED BY <1>6, <2>1, <2>2, <3>1, <3>a DEF ConnectCas, ConnectedWasWon
  <2>5. QED BY <2>3, <2>4
<1>7. ASSUME NEW o \in ConnOps, AsyncAccept(o) PROVE ConnectedWasWon'
BY <1>7 DEF AsyncAccept, CanInitiate, Initiating, connector, reactor, threads,
       cmvars, aux, ConnectedWasWon, OneShot, StageAgrees, PerformAgrees,
       QueueConsistent, ValuesOK, Ops, InFlight, Started
<1>8. ASSUME NEW o \in ConnOps, AcceptCas(o) PROVE ConnectedWasWon'
  <2>1. o \in Ops /\ UNCHANGED rpc /\ phase[o] = "accept_cas"
    BY <1>8 DEF AcceptCas, reactor, Ops
  <2>2. stage[o] = "none" /\ ec[o] # "aborted"
    BY <2>1 DEF StageAgrees, ConnectedWasWon
  <2>3. CASE connect_state = "idle"
    <3>1. connect_state' = "connecting" /\ ec' = ec
          /\ \A x \in ConnOps : x # o => phase'[x] = phase[x] /\ stage'[x] = stage[x]
      BY <1>8, <2>3 DEF AcceptCas, ValuesOK, Ops
    <3>2. rpc # "modify_qp"
      BY <2>3 DEF ConnectedWasWon
    <3>3. QED BY <2>1, <2>2, <2>3, <3>1, <3>2 DEF ConnectedWasWon
  <2>4. CASE connect_state # "idle"
    <3>1. connect_state' = connect_state /\ stage' = stage /\ Post(o, "aborted")
      BY <1>8, <2>4 DEF AcceptCas
    <3>a. \A x \in ConnOps : /\ phase'[x] = IF x = o THEN "posted" ELSE phase[x]
                             /\ ec'[x] = IF x = o THEN "aborted" ELSE ec[x]
      BY <3>1 DEF Post, ValuesOK, Ops
    <3>2. \A x \in ConnOps : stage[x] = "none"
      BY <2>1, <2>2 DEF OneShot, Started
    <3>3. connect_state = "closed"
      BY <2>4, <3>2 DEF OneShot, ValuesOK, ConnectState, InFlight
    <3>4. QED BY <2>1, <2>2, <3>1, <3>3, <3>a DEF ConnectedWasWon
  <2>5. QED BY <2>3, <2>4
<1>9. ASSUME NEW o \in ConnOps, AcceptCall(o) PROVE ConnectedWasWon'
BY <1>9 DEF AcceptCall, Post, reactor, threads, aux, ConnectedWasWon, OneShot,
       StageAgrees, PerformAgrees, QueueConsistent, ValuesOK, Ops, InFlight,
       Started
<1>10. ASSUME NEW w \in Watchers, AsyncWaitDisconnect(w) PROVE ConnectedWasWon'
BY <1>10, SMTT(30) DEF AsyncWaitDisconnect, Post, CanInitiate, connector, reactor,
       threads, cmvars, aux, ConnectedWasWon, OneShot, StageAgrees,
       PerformAgrees, QueueConsistent, ValuesOK, Ops, InFlight, Started
<1>11. ASSUME NEW o \in Ops, StartOp(o) PROVE ConnectedWasWon'
BY <1>11 DEF StartOp, connector, threads, cmvars, aux, ConnectedWasWon,
       OneShot, StageAgrees, PerformAgrees, QueueConsistent, ValuesOK, Ops,
       InFlight, Started
<1>12. ASSUME NEW t \in Threads, DisconnectClaim(t) PROVE ConnectedWasWon'
BY <1>12 DEF DisconnectClaim, is_open, opvars, reactor, cmvars, aux,
       ConnectedWasWon, OneShot, StageAgrees, PerformAgrees, QueueConsistent,
       ValuesOK, Ops, InFlight, Started
<1>13. ASSUME NEW t \in Threads, DisconnectCancel(t) PROVE ConnectedWasWon'
  <2>1. \A x \in Ops : /\ phase'[x] = IF phase[x] = "armed" THEN "posted" ELSE phase[x]
                      /\ ec'[x] = IF phase[x] = "armed" THEN "aborted" ELSE ec[x]
    BY <1>13, AbortEffect DEF DisconnectCancel
  <2>2. \A x \in ConnOps : x \in Ops
    BY DEF Ops
  <2>3. UNCHANGED <<connect_state, stage, rpc>> /\ rpc = "idle"
    BY <1>13 DEF DisconnectCancel, connector
  <2>4. ASSUME connect_state = "connected", rpc # "modify_qp"
        PROVE  \A x \in ConnOps : phase[x] # "armed"
    BY <2>4 DEF ConnectedWasWon, OneShot, Started, StageAgrees
  <2>5. \A x \in ConnOps : phase[x] = "armed" => stage[x] # "none"
    BY DEF StageAgrees
  <2>6. QED
    BY <2>1, <2>2, <2>3, <2>4, <2>5 DEF ConnectedWasWon
<1>14. ASSUME NEW t \in Threads, DisconnectRdma(t) PROVE ConnectedWasWon'
BY <1>14 DEF DisconnectRdma, RdmaDisconnect, connector, opvars, reactor, aux,
       ConnectedWasWon, OneShot, StageAgrees, PerformAgrees, QueueConsistent,
       ValuesOK, Ops, InFlight, Started
<1>15. ASSUME NEW o \in Ops, CancelByKey(o) PROVE ConnectedWasWon'
  <2>1. phase[o] = "armed" /\ rpc = "idle" /\ UNCHANGED <<connect_state, stage, rpc>>
    BY <1>15 DEF CancelByKey, QueueConsistent, connector
  <2>2. \A x \in Ops : /\ phase'[x] = IF x = o THEN "posted" ELSE phase[x]
                      /\ ec'[x] = IF x = o THEN "aborted" ELSE ec[x]
    BY <1>15 DEF CancelByKey, Post, ValuesOK
  <2>3. \A x \in ConnOps : x \in Ops
    BY DEF Ops
  <2>4. ASSUME connect_state = "connected", rpc # "modify_qp"
        PROVE  \A x \in ConnOps : phase[x] # "armed"
    BY <2>4 DEF ConnectedWasWon, OneShot, Started, StageAgrees
  <2>5. \A x \in ConnOps : phase[x] = "armed" => stage[x] # "none"
    BY DEF StageAgrees
  <2>6. QED
    BY <2>1, <2>2, <2>3, <2>4, <2>5 DEF ConnectedWasWon
<1>16. ASSUME NEW o \in Ops, Complete(o) PROVE ConnectedWasWon'
BY <1>16 DEF Complete, StoresClosed, reactor, threads, cmvars,
       ConnectedWasWon, OneShot, StageAgrees, PerformAgrees, QueueConsistent,
       ValuesOK, Ops, InFlight, Started
<1>17. ASSUME PerformIo PROVE ConnectedWasWon'
BY <1>17 DEF PerformIo, connector, opvars, threads, cmvars, aux,
       ConnectedWasWon, OneShot, StageAgrees, PerformAgrees, QueueConsistent,
       ValuesOK, Ops, InFlight, Started
<1>18. ASSUME PerformIoEnd PROVE ConnectedWasWon'
BY <1>18 DEF PerformIoEnd, connector, opvars, threads, cmvars, aux,
       ConnectedWasWon, OneShot, StageAgrees, PerformAgrees, QueueConsistent,
       ValuesOK, Ops, InFlight, Started
<1>19. ASSUME NEW o \in Ops, GetEventError(o) PROVE ConnectedWasWon'
BY <1>19 DEF GetEventError, Front, Retire, Post, connector, threads, cmvars,
       ConnectedWasWon, OneShot, StageAgrees, PerformAgrees, QueueConsistent,
       ValuesOK, Ops, InFlight, Started
<1>20. ASSUME NEW o \in ConnOps, ProcessResolve(o) PROVE ConnectedWasWon'
BY <1>20, SMTT(30) DEF ProcessResolve, TakeEvent, Front, Advance, Retire, Post, threads,
       aux, ConnectedWasWon, OneShot, StageAgrees, PerformAgrees,
       QueueConsistent, ValuesOK, Ops, InFlight, Started
<1>21. ASSUME NEW o \in ConnOps, ResolveRoute(o) PROVE ConnectedWasWon'
BY <1>21 DEF ResolveRoute, Front, connector, threads, aux, ConnectedWasWon,
       OneShot, StageAgrees, PerformAgrees, QueueConsistent, ValuesOK, Ops,
       InFlight, Started
<1>22. ASSUME NEW o \in ConnOps, RdmaConnect(o) PROVE ConnectedWasWon'
BY <1>22 DEF RdmaConnect, Front, connector, threads, aux, ConnectedWasWon,
       OneShot, StageAgrees, PerformAgrees, QueueConsistent, ValuesOK, Ops,
       InFlight, Started
<1>23. ASSUME NEW o \in ConnOps, ClaimClosed(o) PROVE ConnectedWasWon'
BY <1>23 DEF ClaimClosed, Front, Retire, Post, threads, cmvars, aux,
       ConnectedWasWon, OneShot, StageAgrees, PerformAgrees, QueueConsistent,
       ValuesOK, Ops, InFlight, Started
<1>24. ASSUME NEW o \in ConnOps, ProcessConnect(o) PROVE ConnectedWasWon'
BY <1>24 DEF ProcessConnect, TakeEvent, Front, Arbitrate, opvars, threads,
       aux, ConnectedWasWon, OneShot, StageAgrees, PerformAgrees,
       QueueConsistent, ValuesOK, Ops, InFlight, Started
<1>25. ASSUME NEW o \in ConnOps, ModifyQp(o) PROVE ConnectedWasWon'
BY <1>25 DEF ModifyQp, Front, Retire, Post, connector, threads, cmvars, aux,
       ConnectedWasWon, OneShot, StageAgrees, PerformAgrees, QueueConsistent,
       ValuesOK, Ops, InFlight, Started
<1>26. ASSUME NEW o \in ConnOps, SecondActorTeardown(o) PROVE ConnectedWasWon'
  <2>1. phase[o] = "armed" /\ o \in Ops /\ rpc' = "loop"
        /\ UNCHANGED <<connect_state, stage>>
    BY <1>26, FrontArmed DEF SecondActorTeardown, Retire, connector, Ops
  <2>2. \A x \in Ops : /\ phase'[x] = IF x = o THEN "posted" ELSE phase[x]
                      /\ ec'[x] = IF x = o THEN "aborted" ELSE ec[x]
    BY <1>26 DEF SecondActorTeardown, Retire, Post, ValuesOK
  <2>3. \A x \in ConnOps : x \in Ops
    BY DEF Ops
  <2>4. ASSUME connect_state = "connected", rpc # "modify_qp"
        PROVE  \A x \in ConnOps : phase[x] # "armed"
    BY <2>4 DEF ConnectedWasWon, OneShot, Started, StageAgrees
  <2>5. \A x \in ConnOps : phase[x] = "armed" => stage[x] # "none"
    BY DEF StageAgrees
  <2>6. rpc # "modify_qp"
    BY <1>26 DEF SecondActorTeardown
  <2>7. QED
    BY <2>1, <2>2, <2>3, <2>4, <2>5, <2>6 DEF ConnectedWasWon
<1>27. ASSUME NEW w \in Watchers, ProcessWatch(w) PROVE ConnectedWasWon'
  <2>1. /\ UNCHANGED <<connect_state, stage>> /\ rpc = "loop"
        /\ rpc' \in {"loop", "idle"} /\ w \in Ops
    BY <1>27 DEF ProcessWatch, TakeEvent, Retire, Ops
  <2>2. \A x \in ConnOps : phase'[x] = phase[x] /\ ec'[x] = ec[x]
    BY <1>27, OpsDisjoint DEF ProcessWatch, Retire, Post, ValuesOK, Ops
  <2>3. QED BY <2>1, <2>2 DEF ConnectedWasWon
<1>28. ASSUME CloseDeregister PROVE ConnectedWasWon'
  <2>1. \A x \in Ops : /\ phase'[x] = IF phase[x] = "armed" THEN "posted" ELSE phase[x]
                      /\ ec'[x] = IF phase[x] = "armed" THEN "aborted" ELSE ec[x]
    BY <1>28, AbortEffect DEF CloseDeregister
  <2>2. \A x \in ConnOps : x \in Ops
    BY DEF Ops
  <2>3. UNCHANGED <<connect_state, stage, rpc>> /\ rpc = "idle"
    BY <1>28 DEF CloseDeregister, connector
  <2>4. ASSUME connect_state = "connected", rpc # "modify_qp"
        PROVE  \A x \in ConnOps : phase[x] # "armed"
    BY <2>4 DEF ConnectedWasWon, OneShot, Started, StageAgrees
  <2>5. \A x \in ConnOps : phase[x] = "armed" => stage[x] # "none"
    BY DEF StageAgrees
  <2>6. QED
    BY <2>1, <2>2, <2>3, <2>4, <2>5 DEF ConnectedWasWon
<1>29. ASSUME DrainCmEvent PROVE ConnectedWasWon'
BY <1>29 DEF DrainCmEvent, RdmaDisconnect, connector, opvars, reactor,
       threads, aux, ConnectedWasWon, OneShot, StageAgrees, PerformAgrees,
       QueueConsistent, ValuesOK, Ops, InFlight, Started
<1>30. ASSUME CloseDestroy PROVE ConnectedWasWon'
BY <1>30 DEF CloseDestroy, opvars, reactor, threads, ConnectedWasWon, OneShot,
       StageAgrees, PerformAgrees, QueueConsistent, ValuesOK, Ops, InFlight,
       Started
<1>31. ASSUME CmAnswer PROVE ConnectedWasWon'
  <2>1. UNCHANGED <<connect_state, stage, phase, ec, rpc>>
    BY <1>31 DEF CmAnswer, Report, connector, opvars
  <2>2. QED BY <2>1 DEF ConnectedWasWon
<1>32. ASSUME PeerDisconnect PROVE ConnectedWasWon'
BY <1>32 DEF PeerDisconnect, Report, connector, opvars, threads, aux,
       ConnectedWasWon, OneShot, StageAgrees, PerformAgrees, QueueConsistent,
       ValuesOK, Ops, InFlight, Started
<1>33. ASSUME CmExtra PROVE ConnectedWasWon'
BY <1>33 DEF CmExtra, connector, opvars, threads, ConnectedWasWon, OneShot,
       StageAgrees, PerformAgrees, QueueConsistent, ValuesOK, Ops, InFlight,
       Started
<1>34. CASE UNCHANGED vars
BY <1>34 DEF vars, connector, opvars, reactor, threads, cmvars, aux,
       ConnectedWasWon, OneShot, StageAgrees, PerformAgrees, QueueConsistent,
       ValuesOK, Ops, InFlight, Started
<1>35. QED
BY <1>1, <1>2, <1>3, <1>4, <1>5, <1>6, <1>7, <1>8, <1>9, <1>10, <1>11, <1>12,
       <1>13, <1>14, <1>15, <1>16, <1>17, <1>18, <1>19, <1>20, <1>21, <1>22,
       <1>23, <1>24, <1>25, <1>26, <1>27, <1>28, <1>29, <1>30, <1>31, <1>32,
       <1>33, <1>34 DEF Next, Initiate, Disconnect, Perform, Close

(* Taking an event keeps ESTABLISHED unique. *)
LEMMA TakeKeeps ==
  ASSUME ValuesOK, OneShot, EstablishedOnce, NEW o, TakeEvent(o),
         stage' = stage
  PROVE  EstablishedOnce'
<1>1. /\ events \in Seq(Event) /\ events # <<>> /\ Len(events) \in Nat
      /\ Len(events) >= 1 /\ Head(events) = events[1]
  BY DEF TakeEvent, ValuesOK
<1>2. /\ Len(events') = Len(events) - 1
      /\ \A i \in 1..Len(events') : /\ events'[i] = events[i + 1]
                                    /\ i + 1 \in 1..Len(events)
  BY <1>1 DEF TakeEvent
<1>3. UNCHANGED <<life, cm>> /\ life \notin {"unopened", "opening"}
  BY DEF TakeEvent, OneShot
<1>4. CASE events[1] = "ESTABLISHED"
  <2>1. cm \in PostEst /\ \A i \in 1..Len(events') : events'[i] # "ESTABLISHED"
    BY <1>1, <1>2, <1>4 DEF EstablishedOnce
  <2>2. QED
    BY <1>3, <2>1 DEF EstablishedOnce
<1>5. CASE events[1] # "ESTABLISHED"
  <2>1. consumed' = consumed
    BY <1>1, <1>5 DEF TakeEvent
  <2>2. \A i, j \in 1..Len(events') :
          events'[i] = "ESTABLISHED" /\ events'[j] = "ESTABLISHED" => i = j
    BY <1>2 DEF EstablishedOnce
  <2>3. QED
    BY <1>2, <1>3, <2>1, <2>2 DEF EstablishedOnce
<1>6. QED BY <1>4, <1>5

(* While the connection is live, the one operation that got past the guards *)
(* is the one that won it: it is the modify_qp in progress, or it has left  *)
(* the queue with a code other than operation_aborted.                      *)
LEMMA ConnectedOp ==
  ASSUME ValuesOK, QueueConsistent, OneShot, PerformAgrees, ConnectedWasWon,
         connect_state = "connected", NEW o \in ConnOps, stage[o] # "none"
  PROVE  \/ rpc = "modify_qp" /\ phase[o] = "armed"
         \/ phase[o] \in {"posted", "done"} /\ ec[o] \in {"ok", "modify_failed"}
<1>1. CASE rpc = "modify_qp"
  <2>1. rq # <<>> /\ Head(rq) \in ConnOps /\ stage[Head(rq)] # "none"
    BY <1>1 DEF PerformAgrees
  <2>2. Head(rq) = o
    BY <2>1 DEF OneShot, Started
  <2>3. 1 \in 1..Len(rq) /\ rq[1] = o /\ o \in Ops
    BY <2>1, <2>2 DEF ValuesOK, Ops
  <2>4. QED BY <1>1, <2>3 DEF QueueConsistent
<1>2. CASE rpc # "modify_qp"
  BY <1>2 DEF ConnectedWasWon, OneShot, Started
<1>3. QED BY <1>1, <1>2

(* ESTABLISHED stays unique. *)
LEMMA EstablishedStep ==
  /\ ValuesOK /\ QueueConsistent /\ OneShot /\ StageAgrees
  /\ PerformAgrees /\ EstablishedOnce
  /\ [Next]_vars
  => EstablishedOnce'
<1> SUFFICES ASSUME ValuesOK, QueueConsistent, OneShot,
                   StageAgrees, PerformAgrees, EstablishedOnce, [Next]_vars
             PROVE  EstablishedOnce'
  OBVIOUS
<1>1. ASSUME Open PROVE EstablishedOnce'
BY <1>1 DEF Open, opvars, reactor, threads, aux, EstablishedOnce, ValuesOK,
       OneShot, StageAgrees, PerformAgrees, PreEst, PostEst
<1>2. ASSUME Assign PROVE EstablishedOnce'
BY <1>2 DEF Assign, opvars, reactor, threads, aux, EstablishedOnce, ValuesOK,
       OneShot, StageAgrees, PerformAgrees, PreEst, PostEst
<1>3. ASSUME StoreIdle PROVE EstablishedOnce'
BY <1>3 DEF StoreIdle, opvars, reactor, threads, cmvars, aux, EstablishedOnce,
       ValuesOK, OneShot, StageAgrees, PerformAgrees, PreEst, PostEst
<1>4. ASSUME NEW o \in ConnOps, Reject(o) PROVE EstablishedOnce'
BY <1>4 DEF Reject, Post, CanInitiate, Initiating, connector, reactor,
       threads, cmvars, aux, EstablishedOnce, ValuesOK, OneShot, StageAgrees,
       PerformAgrees, PreEst, PostEst
<1>5. ASSUME NEW o \in ConnOps, AsyncConnect(o) PROVE EstablishedOnce'
BY <1>5 DEF AsyncConnect, Post, CanInitiate, Initiating, reactor, threads,
       aux, EstablishedOnce, ValuesOK, OneShot, StageAgrees, PerformAgrees,
       PreEst, PostEst
<1>6. ASSUME NEW o \in ConnOps, ConnectCas(o) PROVE EstablishedOnce'
BY <1>6 DEF ConnectCas, Post, reactor, threads, cmvars, aux, EstablishedOnce,
       ValuesOK, OneShot, StageAgrees, PerformAgrees, PreEst, PostEst
<1>7. ASSUME NEW o \in ConnOps, AsyncAccept(o) PROVE EstablishedOnce'
BY <1>7 DEF AsyncAccept, CanInitiate, Initiating, connector, reactor, threads,
       cmvars, aux, EstablishedOnce, ValuesOK, OneShot, StageAgrees,
       PerformAgrees, PreEst, PostEst
<1>8. ASSUME NEW o \in ConnOps, AcceptCas(o) PROVE EstablishedOnce'
BY <1>8 DEF AcceptCas, Post, reactor, threads, cmvars, aux, EstablishedOnce,
       ValuesOK, OneShot, StageAgrees, PerformAgrees, PreEst, PostEst
<1>9. ASSUME NEW o \in ConnOps, AcceptCall(o) PROVE EstablishedOnce'
BY <1>9 DEF AcceptCall, Post, reactor, threads, aux, EstablishedOnce,
       ValuesOK, OneShot, StageAgrees, PerformAgrees, PreEst, PostEst
<1>10. ASSUME NEW w \in Watchers, AsyncWaitDisconnect(w) PROVE EstablishedOnce'
BY <1>10 DEF AsyncWaitDisconnect, Post, CanInitiate, connector, reactor,
       threads, cmvars, aux, EstablishedOnce, ValuesOK, OneShot, StageAgrees,
       PerformAgrees, PreEst, PostEst
<1>11. ASSUME NEW o \in Ops, StartOp(o) PROVE EstablishedOnce'
BY <1>11 DEF StartOp, connector, threads, cmvars, aux, EstablishedOnce,
       ValuesOK, OneShot, StageAgrees, PerformAgrees, PreEst, PostEst
<1>12. ASSUME NEW t \in Threads, DisconnectClaim(t) PROVE EstablishedOnce'
BY <1>12 DEF DisconnectClaim, is_open, opvars, reactor, cmvars, aux,
       EstablishedOnce, ValuesOK, OneShot, StageAgrees, PerformAgrees, PreEst,
       PostEst
<1>13. ASSUME NEW t \in Threads, DisconnectCancel(t) PROVE EstablishedOnce'
BY <1>13 DEF DisconnectCancel, AbortQueued, AfterCancel, connector, cmvars,
       aux, EstablishedOnce, ValuesOK, OneShot, StageAgrees, PerformAgrees,
       PreEst, PostEst
<1>14. ASSUME NEW t \in Threads, DisconnectRdma(t) PROVE EstablishedOnce'
BY <1>14 DEF DisconnectRdma, RdmaDisconnect, connector, opvars, reactor, aux,
       EstablishedOnce, ValuesOK, OneShot, StageAgrees, PerformAgrees, PreEst,
       PostEst
<1>15. ASSUME NEW o \in Ops, CancelByKey(o) PROVE EstablishedOnce'
BY <1>15 DEF CancelByKey, Post, Without, connector, threads, cmvars, aux,
       EstablishedOnce, ValuesOK, OneShot, StageAgrees, PerformAgrees, PreEst,
       PostEst
<1>16. ASSUME NEW o \in Ops, Complete(o) PROVE EstablishedOnce'
BY <1>16 DEF Complete, StoresClosed, reactor, threads, cmvars,
       EstablishedOnce, ValuesOK, OneShot, StageAgrees, PerformAgrees, PreEst,
       PostEst
<1>17. ASSUME PerformIo PROVE EstablishedOnce'
BY <1>17 DEF PerformIo, connector, opvars, threads, cmvars, aux,
       EstablishedOnce, ValuesOK, OneShot, StageAgrees, PerformAgrees, PreEst,
       PostEst
<1>18. ASSUME PerformIoEnd PROVE EstablishedOnce'
BY <1>18 DEF PerformIoEnd, connector, opvars, threads, cmvars, aux,
       EstablishedOnce, ValuesOK, OneShot, StageAgrees, PerformAgrees, PreEst,
       PostEst
<1>19. ASSUME NEW o \in Ops, GetEventError(o) PROVE EstablishedOnce'
BY <1>19 DEF GetEventError, Front, Retire, Post, connector, threads, cmvars,
       EstablishedOnce, ValuesOK, OneShot, StageAgrees, PerformAgrees, PreEst,
       PostEst
<1>20. ASSUME NEW o \in ConnOps, ProcessResolve(o) PROVE EstablishedOnce'
  BY <1>20, TakeKeeps DEF ProcessResolve
<1>21. ASSUME NEW o \in ConnOps, ResolveRoute(o) PROVE EstablishedOnce'
BY <1>21 DEF ResolveRoute, Front, connector, threads, aux, EstablishedOnce,
       ValuesOK, OneShot, StageAgrees, PerformAgrees, PreEst, PostEst
<1>22. ASSUME NEW o \in ConnOps, RdmaConnect(o) PROVE EstablishedOnce'
BY <1>22 DEF RdmaConnect, Front, connector, threads, aux, EstablishedOnce,
       ValuesOK, OneShot, StageAgrees, PerformAgrees, PreEst, PostEst
<1>23. ASSUME NEW o \in ConnOps, ClaimClosed(o) PROVE EstablishedOnce'
BY <1>23 DEF ClaimClosed, Front, Retire, Post, threads, cmvars, aux,
       EstablishedOnce, ValuesOK, OneShot, StageAgrees, PerformAgrees, PreEst,
       PostEst
<1>24. ASSUME NEW o \in ConnOps, ProcessConnect(o) PROVE EstablishedOnce'
  BY <1>24, TakeKeeps DEF ProcessConnect, opvars
<1>25. ASSUME NEW o \in ConnOps, ModifyQp(o) PROVE EstablishedOnce'
BY <1>25 DEF ModifyQp, Front, Retire, Post, connector, threads, cmvars, aux,
       EstablishedOnce, ValuesOK, OneShot, StageAgrees, PerformAgrees, PreEst,
       PostEst
<1>26. ASSUME NEW o \in ConnOps, SecondActorTeardown(o) PROVE EstablishedOnce'
BY <1>26 DEF SecondActorTeardown, Front, Retire, Post, RdmaDisconnect,
       connector, threads, aux, EstablishedOnce, ValuesOK, OneShot,
       StageAgrees, PerformAgrees, PreEst, PostEst
<1>27. ASSUME NEW w \in Watchers, ProcessWatch(w) PROVE EstablishedOnce'
  BY <1>27, TakeKeeps DEF ProcessWatch
<1>28. ASSUME CloseDeregister PROVE EstablishedOnce'
BY <1>28 DEF CloseDeregister, AbortQueued, Initiating, threads, cmvars, aux,
       EstablishedOnce, ValuesOK, OneShot, StageAgrees, PerformAgrees, PreEst,
       PostEst
<1>29. ASSUME DrainCmEvent PROVE EstablishedOnce'
BY <1>29 DEF DrainCmEvent, RdmaDisconnect, connector, opvars, reactor,
       threads, aux, EstablishedOnce, ValuesOK, OneShot, StageAgrees,
       PerformAgrees, PreEst, PostEst
<1>30. ASSUME CloseDestroy PROVE EstablishedOnce'
BY <1>30 DEF CloseDestroy, opvars, reactor, threads, EstablishedOnce,
       ValuesOK, OneShot, StageAgrees, PerformAgrees, PreEst, PostEst
<1>31. ASSUME CmAnswer PROVE EstablishedOnce'
  <2>1. CASE Report("connecting", "ESTABLISHED", "established")
    BY <2>1 DEF Report, connector, opvars, EstablishedOnce, ValuesOK,
       PreEst, PostEst
  <2>2. ASSUME NEW from, NEW e \in Event \ {"ESTABLISHED"}, NEW to,
               Report(from, e, to), from \in PostEst => to \in PostEst,
               from # "none",
               to \in {"connecting"} \cup PostEst => from \in PostEst
        PROVE  EstablishedOnce'
    BY <2>2 DEF Report, connector, opvars, EstablishedOnce, ValuesOK
  <2>3. QED
    BY <1>31, <2>1, <2>2 DEF CmAnswer, Event, PostEst
<1>32. ASSUME PeerDisconnect PROVE EstablishedOnce'
BY <1>32 DEF PeerDisconnect, Report, connector, opvars, threads, aux,
       EstablishedOnce, ValuesOK, OneShot, StageAgrees, PerformAgrees, PreEst,
       PostEst
<1>33. ASSUME CmExtra PROVE EstablishedOnce'
BY <1>33 DEF CmExtra, connector, opvars, threads, EstablishedOnce, ValuesOK,
       OneShot, StageAgrees, PerformAgrees, PreEst, PostEst
<1>34. CASE UNCHANGED vars
BY <1>34 DEF vars, connector, opvars, reactor, threads, cmvars, aux,
       EstablishedOnce, ValuesOK, OneShot, StageAgrees, PerformAgrees, PreEst,
       PostEst
<1>35. QED
BY <1>1, <1>2, <1>3, <1>4, <1>5, <1>6, <1>7, <1>8, <1>9, <1>10, <1>11, <1>12,
       <1>13, <1>14, <1>15, <1>16, <1>17, <1>18, <1>19, <1>20, <1>21, <1>22,
       <1>23, <1>24, <1>25, <1>26, <1>27, <1>28, <1>29, <1>30, <1>31, <1>32,
       <1>33, <1>34 DEF Next, Initiate, Disconnect, Perform, Close

(* Every teardown keeps its cause. *)
LEMMA TeardownStep ==
  /\ ValuesOK /\ QueueConsistent /\ OneShot /\ StageAgrees
  /\ PerformAgrees /\ ConnectedWasWon /\ EstablishedOnce
  /\ TeardownHasCause /\ EstablishedAccounted
  /\ [Next]_vars
  => TeardownHasCause'
<1> SUFFICES ASSUME ValuesOK, QueueConsistent, OneShot,
                   StageAgrees, PerformAgrees, ConnectedWasWon,
                   EstablishedOnce, TeardownHasCause, EstablishedAccounted,
                   [Next]_vars
             PROVE  TeardownHasCause'
  OBVIOUS
<1>1. ASSUME Open PROVE TeardownHasCause'
BY <1>1 DEF Open, opvars, reactor, threads, aux, TeardownHasCause,
       DutyThreads, EstablishedOnce, ValuesOK, ConnectState, StageAgrees
<1>2. ASSUME Assign PROVE TeardownHasCause'
BY <1>2 DEF Assign, opvars, reactor, threads, aux, TeardownHasCause,
       DutyThreads, EstablishedOnce, ValuesOK, ConnectState, StageAgrees
<1>3. ASSUME StoreIdle PROVE TeardownHasCause'
BY <1>3 DEF StoreIdle, opvars, reactor, threads, cmvars, aux,
       TeardownHasCause, DutyThreads, EstablishedOnce, ValuesOK, ConnectState,
       StageAgrees
<1>4. ASSUME NEW o \in ConnOps, Reject(o) PROVE TeardownHasCause'
BY <1>4 DEF Reject, Post, CanInitiate, Initiating, connector, reactor,
       threads, cmvars, aux, TeardownHasCause, DutyThreads, EstablishedOnce,
       ValuesOK, ConnectState, StageAgrees
<1>5. ASSUME NEW o \in ConnOps, AsyncConnect(o) PROVE TeardownHasCause'
BY <1>5 DEF AsyncConnect, Post, CanInitiate, Initiating, reactor, threads,
       aux, TeardownHasCause, DutyThreads, EstablishedOnce, ValuesOK,
       ConnectState, StageAgrees
<1>6. ASSUME NEW o \in ConnOps, ConnectCas(o) PROVE TeardownHasCause'
BY <1>6 DEF ConnectCas, Post, reactor, threads, cmvars, aux, TeardownHasCause,
       DutyThreads, EstablishedOnce, ValuesOK, ConnectState, StageAgrees
<1>7. ASSUME NEW o \in ConnOps, AsyncAccept(o) PROVE TeardownHasCause'
BY <1>7 DEF AsyncAccept, CanInitiate, Initiating, connector, reactor, threads,
       cmvars, aux, TeardownHasCause, DutyThreads, EstablishedOnce, ValuesOK,
       ConnectState, StageAgrees
<1>8. ASSUME NEW o \in ConnOps, AcceptCas(o) PROVE TeardownHasCause'
BY <1>8 DEF AcceptCas, Post, reactor, threads, cmvars, aux, TeardownHasCause,
       DutyThreads, EstablishedOnce, ValuesOK, ConnectState, StageAgrees
<1>9. ASSUME NEW o \in ConnOps, AcceptCall(o) PROVE TeardownHasCause'
BY <1>9 DEF AcceptCall, Post, reactor, threads, aux, TeardownHasCause,
       DutyThreads, EstablishedOnce, ValuesOK, ConnectState, StageAgrees
<1>10. ASSUME NEW w \in Watchers, AsyncWaitDisconnect(w) PROVE TeardownHasCause'
BY <1>10 DEF AsyncWaitDisconnect, Post, CanInitiate, connector, reactor,
       threads, cmvars, aux, TeardownHasCause, DutyThreads, EstablishedOnce,
       ValuesOK, ConnectState, StageAgrees
<1>11. ASSUME NEW o \in Ops, StartOp(o) PROVE TeardownHasCause'
BY <1>11 DEF StartOp, connector, threads, cmvars, aux, TeardownHasCause,
       DutyThreads, EstablishedOnce, ValuesOK, ConnectState, StageAgrees
<1>12. ASSUME NEW t \in Threads, DisconnectClaim(t) PROVE TeardownHasCause'
BY <1>12 DEF DisconnectClaim, is_open, opvars, reactor, cmvars, aux,
       TeardownHasCause, DutyThreads, EstablishedOnce, ValuesOK, ConnectState,
       StageAgrees
<1>13. ASSUME NEW t \in Threads, DisconnectCancel(t) PROVE TeardownHasCause'
BY <1>13 DEF DisconnectCancel, AbortQueued, AfterCancel, connector, cmvars,
       aux, TeardownHasCause, DutyThreads, EstablishedOnce, ValuesOK,
       ConnectState, StageAgrees
<1>14. ASSUME NEW t \in Threads, DisconnectRdma(t) PROVE TeardownHasCause'
BY <1>14 DEF DisconnectRdma, RdmaDisconnect, connector, opvars, reactor, aux,
       TeardownHasCause, DutyThreads, EstablishedOnce, ValuesOK, ConnectState,
       StageAgrees
<1>15. ASSUME NEW o \in Ops, CancelByKey(o) PROVE TeardownHasCause'
BY <1>15 DEF CancelByKey, Post, Without, connector, threads, cmvars, aux,
       TeardownHasCause, DutyThreads, EstablishedOnce, ValuesOK, ConnectState,
       StageAgrees
<1>16. ASSUME NEW o \in Ops, Complete(o) PROVE TeardownHasCause'
BY <1>16 DEF Complete, StoresClosed, reactor, threads, cmvars,
       TeardownHasCause, DutyThreads, EstablishedOnce, ValuesOK, ConnectState,
       StageAgrees
<1>17. ASSUME PerformIo PROVE TeardownHasCause'
BY <1>17 DEF PerformIo, connector, opvars, threads, cmvars, aux,
       TeardownHasCause, DutyThreads, EstablishedOnce, ValuesOK, ConnectState,
       StageAgrees
<1>18. ASSUME PerformIoEnd PROVE TeardownHasCause'
BY <1>18 DEF PerformIoEnd, connector, opvars, threads, cmvars, aux,
       TeardownHasCause, DutyThreads, EstablishedOnce, ValuesOK, ConnectState,
       StageAgrees
<1>19. ASSUME NEW o \in Ops, GetEventError(o) PROVE TeardownHasCause'
BY <1>19 DEF GetEventError, Front, Retire, Post, connector, threads, cmvars,
       TeardownHasCause, DutyThreads, EstablishedOnce, ValuesOK, ConnectState,
       StageAgrees
<1>20. ASSUME NEW o \in ConnOps, ProcessResolve(o) PROVE TeardownHasCause'
BY <1>20 DEF ProcessResolve, TakeEvent, Front, Advance, Retire, Post, threads,
       aux, TeardownHasCause, DutyThreads, EstablishedOnce, ValuesOK,
       ConnectState, StageAgrees
<1>21. ASSUME NEW o \in ConnOps, ResolveRoute(o) PROVE TeardownHasCause'
BY <1>21 DEF ResolveRoute, Front, connector, threads, aux, TeardownHasCause,
       DutyThreads, EstablishedOnce, ValuesOK, ConnectState, StageAgrees
<1>22. ASSUME NEW o \in ConnOps, RdmaConnect(o) PROVE TeardownHasCause'
BY <1>22 DEF RdmaConnect, Front, connector, threads, aux, TeardownHasCause,
       DutyThreads, EstablishedOnce, ValuesOK, ConnectState, StageAgrees
<1>23. ASSUME NEW o \in ConnOps, ClaimClosed(o) PROVE TeardownHasCause'
BY <1>23 DEF ClaimClosed, Front, Retire, Post, threads, cmvars, aux,
       TeardownHasCause, DutyThreads, EstablishedOnce, ValuesOK, ConnectState,
       StageAgrees
<1>24. ASSUME NEW o \in ConnOps, ProcessConnect(o) PROVE TeardownHasCause'
  <2>1. /\ rpc = "loop" /\ events # <<>> /\ events \in Seq(Event)
        /\ UNCHANGED <<discs, pc, old>>
    BY <1>24 DEF ProcessConnect, TakeEvent, ValuesOK, threads
  <2>2. connect_state \in {"connecting", "connected", "closed"}
    BY <1>24 DEF ProcessConnect, StageAgrees
  <2>3. CASE Head(events) = "ESTABLISHED"
    <3>1. consumed = "none" /\ discs = 0 /\ DutyThreads = {}
          /\ connect_state # "connected"
      BY <2>1, <2>3 DEF EstablishedOnce, TeardownHasCause
    <3>2. consumed' = "op" /\ Arbitrate /\ DutyThreads' = DutyThreads
BY <1>24, <2>1, <2>3, OpsDisjoint DEF ProcessConnect, TakeEvent, DutyThreads
    <3>3. QED
      BY <2>1, <2>2, <3>1, <3>2 DEF Arbitrate, TeardownHasCause
  <2>4. CASE Head(events) # "ESTABLISHED"
    <3>1. UNCHANGED <<consumed, connect_state>> /\ rpc' = "claim"
      BY <1>24, <2>4 DEF ProcessConnect, TakeEvent
    <3>2. QED
      BY <2>1, <3>1 DEF TeardownHasCause, DutyThreads
  <2>5. QED BY <2>3, <2>4
<1>25. ASSUME NEW o \in ConnOps, ModifyQp(o) PROVE TeardownHasCause'
BY <1>25 DEF ModifyQp, Front, Retire, Post, connector, threads, cmvars, aux,
       TeardownHasCause, DutyThreads, EstablishedOnce, ValuesOK, ConnectState,
       StageAgrees
<1>26. ASSUME NEW o \in ConnOps, SecondActorTeardown(o) PROVE TeardownHasCause'
BY <1>26 DEF SecondActorTeardown, Front, Retire, Post, RdmaDisconnect,
       connector, threads, aux, TeardownHasCause, DutyThreads,
       EstablishedOnce, ValuesOK, ConnectState, StageAgrees
<1>27. ASSUME NEW w \in Watchers, ProcessWatch(w) PROVE TeardownHasCause'
BY <1>27 DEF ProcessWatch, TakeEvent, Front, Retire, Post, threads, aux,
       TeardownHasCause, DutyThreads, EstablishedOnce, ValuesOK, ConnectState,
       StageAgrees
<1>28. ASSUME CloseDeregister PROVE TeardownHasCause'
BY <1>28 DEF CloseDeregister, AbortQueued, Initiating, threads, cmvars, aux,
       TeardownHasCause, DutyThreads, EstablishedOnce, ValuesOK, ConnectState,
       StageAgrees
<1>29. ASSUME DrainCmEvent PROVE TeardownHasCause'
BY <1>29 DEF DrainCmEvent, RdmaDisconnect, connector, opvars, reactor,
       threads, aux, TeardownHasCause, DutyThreads, EstablishedOnce, ValuesOK,
       ConnectState, StageAgrees
<1>30. ASSUME CloseDestroy PROVE TeardownHasCause'
BY <1>30 DEF CloseDestroy, opvars, reactor, threads, TeardownHasCause,
       DutyThreads, EstablishedOnce, ValuesOK, ConnectState, StageAgrees
<1>31. ASSUME CmAnswer PROVE TeardownHasCause'
BY <1>31 DEF CmAnswer, Report, connector, opvars, threads, aux,
       TeardownHasCause, DutyThreads, EstablishedOnce, ValuesOK, ConnectState,
       StageAgrees
<1>32. ASSUME PeerDisconnect PROVE TeardownHasCause'
BY <1>32 DEF PeerDisconnect, Report, connector, opvars, threads, aux,
       TeardownHasCause, DutyThreads, EstablishedOnce, ValuesOK, ConnectState,
       StageAgrees
<1>33. ASSUME CmExtra PROVE TeardownHasCause'
BY <1>33 DEF CmExtra, connector, opvars, threads, TeardownHasCause,
       DutyThreads, EstablishedOnce, ValuesOK, ConnectState, StageAgrees
<1>34. CASE UNCHANGED vars
BY <1>34 DEF vars, connector, opvars, reactor, threads, cmvars, aux,
       TeardownHasCause, DutyThreads, EstablishedOnce, ValuesOK, ConnectState,
       StageAgrees
<1>35. QED
BY <1>1, <1>2, <1>3, <1>4, <1>5, <1>6, <1>7, <1>8, <1>9, <1>10, <1>11, <1>12,
       <1>13, <1>14, <1>15, <1>16, <1>17, <1>18, <1>19, <1>20, <1>21, <1>22,
       <1>23, <1>24, <1>25, <1>26, <1>27, <1>28, <1>29, <1>30, <1>31, <1>32,
       <1>33, <1>34 DEF Next, Initiate, Disconnect, Perform, Close

(* The teardown stays accounted for. *)
LEMMA AccountedStep ==
  /\ ValuesOK /\ QueueConsistent /\ OneShot /\ StageAgrees
  /\ PerformAgrees /\ ConnectedWasWon /\ EstablishedOnce
  /\ TeardownHasCause /\ EstablishedAccounted
  /\ [Next]_vars
  => EstablishedAccounted'
<1> SUFFICES ASSUME ValuesOK, QueueConsistent, OneShot,
                   StageAgrees, PerformAgrees, ConnectedWasWon,
                   EstablishedOnce, TeardownHasCause, EstablishedAccounted,
                   [Next]_vars
             PROVE  EstablishedAccounted'
  OBVIOUS
<1>1. ASSUME Open PROVE EstablishedAccounted'
BY <1>1 DEF Open, opvars, reactor, threads, aux, EstablishedAccounted,
       TeardownHasCause, NobodyOwes, OneOwes, DutyThreads, ValuesOK
<1>2. ASSUME Assign PROVE EstablishedAccounted'
BY <1>2 DEF Assign, opvars, reactor, threads, aux, EstablishedAccounted,
       TeardownHasCause, NobodyOwes, OneOwes, DutyThreads, ValuesOK
<1>3. ASSUME StoreIdle PROVE EstablishedAccounted'
  <2>1. consumed = "none" /\ consumed' = consumed
    BY <1>3 DEF StoreIdle, EstablishedOnce, cmvars
  <2>2. QED BY <2>1 DEF EstablishedAccounted
<1>4. ASSUME NEW o \in ConnOps, Reject(o) PROVE EstablishedAccounted'
BY <1>4 DEF Reject, Post, CanInitiate, Initiating, connector, reactor,
       threads, cmvars, aux, EstablishedAccounted, TeardownHasCause,
       NobodyOwes, OneOwes, DutyThreads, ValuesOK
<1>5. ASSUME NEW o \in ConnOps, AsyncConnect(o) PROVE EstablishedAccounted'
BY <1>5 DEF AsyncConnect, Post, CanInitiate, Initiating, reactor, threads,
       aux, EstablishedAccounted, TeardownHasCause, NobodyOwes, OneOwes,
       DutyThreads, ValuesOK
<1>6. ASSUME NEW o \in ConnOps, ConnectCas(o) PROVE EstablishedAccounted'
BY <1>6 DEF ConnectCas, Post, reactor, threads, cmvars, aux,
       EstablishedAccounted, TeardownHasCause, NobodyOwes, OneOwes,
       DutyThreads, ValuesOK
<1>7. ASSUME NEW o \in ConnOps, AsyncAccept(o) PROVE EstablishedAccounted'
BY <1>7 DEF AsyncAccept, CanInitiate, Initiating, connector, reactor, threads,
       cmvars, aux, EstablishedAccounted, TeardownHasCause, NobodyOwes,
       OneOwes, DutyThreads, ValuesOK
<1>8. ASSUME NEW o \in ConnOps, AcceptCas(o) PROVE EstablishedAccounted'
BY <1>8 DEF AcceptCas, Post, reactor, threads, cmvars, aux,
       EstablishedAccounted, TeardownHasCause, NobodyOwes, OneOwes,
       DutyThreads, ValuesOK
<1>9. ASSUME NEW o \in ConnOps, AcceptCall(o) PROVE EstablishedAccounted'
  <2>1. phase[o] = "accept_call" /\ stage[o] = "accept"
    BY <1>9 DEF AcceptCall, StageAgrees
  <2>2. connect_state # "connected"
    BY <2>1, ConnectedOp
  <2>3. /\ connect_state' \in {connect_state, "closed"}
        /\ UNCHANGED <<discs, consumed, pc, old, rpc>>
    BY <1>9 DEF AcceptCall, threads, reactor
  <2>4. QED
    BY <2>2, <2>3 DEF EstablishedAccounted, NobodyOwes, OneOwes, DutyThreads
<1>10. ASSUME NEW w \in Watchers, AsyncWaitDisconnect(w) PROVE EstablishedAccounted'
BY <1>10 DEF AsyncWaitDisconnect, Post, CanInitiate, connector, reactor,
       threads, cmvars, aux, EstablishedAccounted, TeardownHasCause,
       NobodyOwes, OneOwes, DutyThreads, ValuesOK
<1>11. ASSUME NEW o \in Ops, StartOp(o) PROVE EstablishedAccounted'
BY <1>11 DEF StartOp, connector, threads, cmvars, aux, EstablishedAccounted,
       TeardownHasCause, NobodyOwes, OneOwes, DutyThreads, ValuesOK
<1>12. ASSUME NEW t \in Threads, DisconnectClaim(t) PROVE EstablishedAccounted'
BY <1>12 DEF DisconnectClaim, is_open, opvars, reactor, cmvars, aux,
       EstablishedAccounted, TeardownHasCause, NobodyOwes, OneOwes,
       DutyThreads, ValuesOK
<1>13. ASSUME NEW t \in Threads, DisconnectCancel(t) PROVE EstablishedAccounted'
  <2>1. UNCHANGED <<connect_state, discs, consumed, rpc, old>>
    BY <1>13 DEF DisconnectCancel, connector, cmvars
  <2>2. /\ pc[t] = "cancel"
        /\ \A x \in Threads : pc'[x] = IF x # t THEN pc[x]
                               ELSE IF old[t] = "connected" THEN "rdma" ELSE "idle"
    BY <1>13 DEF DisconnectCancel, AfterCancel, ValuesOK
  <2>3. DutyThreads' = DutyThreads
    BY <2>1, <2>2 DEF DutyThreads
  <2>4. QED
    BY <2>1, <2>3 DEF EstablishedAccounted, NobodyOwes, OneOwes
<1>14. ASSUME NEW t \in Threads, DisconnectRdma(t) PROVE EstablishedAccounted'
BY <1>14 DEF DisconnectRdma, RdmaDisconnect, connector, opvars, reactor, aux,
       EstablishedAccounted, TeardownHasCause, NobodyOwes, OneOwes,
       DutyThreads, ValuesOK
<1>15. ASSUME NEW o \in Ops, CancelByKey(o) PROVE EstablishedAccounted'
BY <1>15 DEF CancelByKey, Post, Without, connector, threads, cmvars, aux,
       EstablishedAccounted, TeardownHasCause, NobodyOwes, OneOwes,
       DutyThreads, ValuesOK
<1>16. ASSUME NEW o \in Ops, Complete(o) PROVE EstablishedAccounted'
  <2>1. /\ phase[o] = "posted"
        /\ UNCHANGED <<discs, consumed, pc, old, rpc>>
    BY <1>16 DEF Complete, threads, cmvars, reactor
  <2>2. CASE connect_state' = connect_state
    BY <2>1, <2>2 DEF EstablishedAccounted, NobodyOwes, OneOwes, DutyThreads
  <2>3. CASE StoresClosed(o) /\ connect_state' = "closed"
    <3>1. o \in ConnOps /\ ec[o] = "aborted"
      BY <2>3 DEF StoresClosed
    <3>2. connect_state # "connected"
      BY <2>1, <3>1, ConnectedOp DEF ConnectedWasWon
    <3>3. QED
      BY <2>1, <2>3, <3>2 DEF EstablishedAccounted, NobodyOwes, OneOwes,
         DutyThreads
  <2>4. QED BY <1>16, <2>2, <2>3 DEF Complete
<1>17. ASSUME PerformIo PROVE EstablishedAccounted'
BY <1>17 DEF PerformIo, connector, opvars, threads, cmvars, aux,
       EstablishedAccounted, TeardownHasCause, NobodyOwes, OneOwes,
       DutyThreads, ValuesOK
<1>18. ASSUME PerformIoEnd PROVE EstablishedAccounted'
BY <1>18 DEF PerformIoEnd, connector, opvars, threads, cmvars, aux,
       EstablishedAccounted, TeardownHasCause, NobodyOwes, OneOwes,
       DutyThreads, ValuesOK
<1>19. ASSUME NEW o \in Ops, GetEventError(o) PROVE EstablishedAccounted'
BY <1>19 DEF GetEventError, Front, Retire, Post, connector, threads, cmvars,
       EstablishedAccounted, TeardownHasCause, NobodyOwes, OneOwes,
       DutyThreads, ValuesOK
<1>20. ASSUME NEW o \in ConnOps, ProcessResolve(o) PROVE EstablishedAccounted'
  <2>1. cm \notin PostEst /\ events # <<>> /\ events \in Seq(Event)
    BY <1>20 DEF ProcessResolve, TakeEvent, StageAgrees, PostEst, ValuesOK
  <2>2. Head(events) # "ESTABLISHED" /\ consumed = "none"
    BY <2>1 DEF EstablishedOnce
  <2>3. QED
    BY <1>20, <2>2 DEF ProcessResolve, TakeEvent, EstablishedAccounted
<1>21. ASSUME NEW o \in ConnOps, ResolveRoute(o) PROVE EstablishedAccounted'
BY <1>21 DEF ResolveRoute, Front, connector, threads, aux,
       EstablishedAccounted, TeardownHasCause, NobodyOwes, OneOwes,
       DutyThreads, ValuesOK
<1>22. ASSUME NEW o \in ConnOps, RdmaConnect(o) PROVE EstablishedAccounted'
BY <1>22 DEF RdmaConnect, Front, connector, threads, aux,
       EstablishedAccounted, TeardownHasCause, NobodyOwes, OneOwes,
       DutyThreads, ValuesOK
<1>23. ASSUME NEW o \in ConnOps, ClaimClosed(o) PROVE EstablishedAccounted'
  <2>1. rpc = "claim" /\ o \in Ops /\ phase[o] = "armed" /\ stage[o] # "none"
    BY <1>23, FrontArmed DEF ClaimClosed, StageAgrees, Ops
  <2>2. connect_state # "connected"
    BY <2>1, ConnectedOp
  <2>3. /\ connect_state' = "closed" /\ rpc' = "loop"
        /\ UNCHANGED <<discs, consumed, pc, old>>
    BY <1>23 DEF ClaimClosed, Retire, threads, cmvars
  <2>4. QED
    BY <2>1, <2>2, <2>3 DEF EstablishedAccounted, NobodyOwes, OneOwes,
       DutyThreads
<1>24. ASSUME NEW o \in ConnOps, ProcessConnect(o) PROVE EstablishedAccounted'
  <2>1. /\ rpc = "loop" /\ events # <<>> /\ events \in Seq(Event)
        /\ UNCHANGED <<discs, pc, old>>
    BY <1>24 DEF ProcessConnect, TakeEvent, ValuesOK, threads
  <2>2. connect_state \in {"connecting", "connected", "closed"}
    BY <1>24 DEF ProcessConnect, StageAgrees
  <2>3. CASE Head(events) = "ESTABLISHED"
    <3>1. consumed = "none" /\ discs = 0 /\ DutyThreads = {}
          /\ connect_state # "connected"
      BY <2>1, <2>3 DEF EstablishedOnce, TeardownHasCause
    <3>2. consumed' = "op" /\ Arbitrate /\ DutyThreads' = DutyThreads
BY <1>24, <2>1, <2>3, OpsDisjoint DEF ProcessConnect, TakeEvent, DutyThreads
    <3>3. QED
      BY <2>1, <2>2, <3>1, <3>2 DEF Arbitrate, EstablishedAccounted,
         NobodyOwes, OneOwes
  <2>4. CASE Head(events) # "ESTABLISHED"
    <3>1. UNCHANGED <<consumed, connect_state>> /\ rpc' = "claim"
      BY <1>24, <2>4 DEF ProcessConnect, TakeEvent
    <3>2. QED
      BY <2>1, <3>1 DEF EstablishedAccounted, NobodyOwes, OneOwes, DutyThreads
  <2>5. QED BY <2>3, <2>4
<1>25. ASSUME NEW o \in ConnOps, ModifyQp(o) PROVE EstablishedAccounted'
BY <1>25 DEF ModifyQp, Front, Retire, Post, connector, threads, cmvars, aux,
       EstablishedAccounted, TeardownHasCause, NobodyOwes, OneOwes,
       DutyThreads, ValuesOK
<1>26. ASSUME NEW o \in ConnOps, SecondActorTeardown(o) PROVE EstablishedAccounted'
BY <1>26 DEF SecondActorTeardown, Front, Retire, Post, RdmaDisconnect,
       connector, threads, aux, EstablishedAccounted, TeardownHasCause,
       NobodyOwes, OneOwes, DutyThreads, ValuesOK
<1>27. ASSUME NEW w \in Watchers, ProcessWatch(w) PROVE EstablishedAccounted'
BY <1>27 DEF ProcessWatch, TakeEvent, Front, Retire, Post, threads, aux,
       EstablishedAccounted, TeardownHasCause, NobodyOwes, OneOwes,
       DutyThreads, ValuesOK
<1>28. ASSUME CloseDeregister PROVE EstablishedAccounted'
BY <1>28 DEF CloseDeregister, AbortQueued, Initiating, threads, cmvars, aux,
       EstablishedAccounted, TeardownHasCause, NobodyOwes, OneOwes,
       DutyThreads, ValuesOK
<1>29. ASSUME DrainCmEvent PROVE EstablishedAccounted'
BY <1>29 DEF DrainCmEvent, RdmaDisconnect, connector, opvars, reactor,
       threads, aux, EstablishedAccounted, TeardownHasCause, NobodyOwes,
       OneOwes, DutyThreads, ValuesOK
<1>30. ASSUME CloseDestroy PROVE EstablishedAccounted'
BY <1>30 DEF CloseDestroy, opvars, reactor, threads, EstablishedAccounted,
       TeardownHasCause, NobodyOwes, OneOwes, DutyThreads, ValuesOK
<1>31. ASSUME CmAnswer PROVE EstablishedAccounted'
  <2>1. UNCHANGED <<connect_state, discs, consumed, rpc, pc, old>>
    BY <1>31 DEF CmAnswer, Report, connector, threads
  <2>2. QED
    BY <2>1 DEF EstablishedAccounted, NobodyOwes, OneOwes, DutyThreads
<1>32. ASSUME PeerDisconnect PROVE EstablishedAccounted'
BY <1>32 DEF PeerDisconnect, Report, connector, opvars, threads, aux,
       EstablishedAccounted, TeardownHasCause, NobodyOwes, OneOwes,
       DutyThreads, ValuesOK
<1>33. ASSUME CmExtra PROVE EstablishedAccounted'
BY <1>33 DEF CmExtra, connector, opvars, threads, EstablishedAccounted,
       TeardownHasCause, NobodyOwes, OneOwes, DutyThreads, ValuesOK
<1>34. CASE UNCHANGED vars
BY <1>34 DEF vars, connector, opvars, reactor, threads, cmvars, aux,
       EstablishedAccounted, TeardownHasCause, NobodyOwes, OneOwes,
       DutyThreads, ValuesOK
<1>35. QED
BY <1>1, <1>2, <1>3, <1>4, <1>5, <1>6, <1>7, <1>8, <1>9, <1>10, <1>11, <1>12,
       <1>13, <1>14, <1>15, <1>16, <1>17, <1>18, <1>19, <1>20, <1>21, <1>22,
       <1>23, <1>24, <1>25, <1>26, <1>27, <1>28, <1>29, <1>30, <1>31, <1>32,
       <1>33, <1>34 DEF Next, Initiate, Disconnect, Perform, Close

(* What TeardownOnlyEstablished, ConnectedLeftByDisconnect and              *)
(* ClosedIsTerminal say of one step.                                       *)
CalledWhenUp == discs' # discs => cm \in PostEst
ClaimedByThread ==
  connect_state = "connected" /\ connect_state' # "connected"
    => \E t \in Threads : pc[t] = "idle" /\ pc'[t] = "cancel"
StaysClosed ==
  connect_state = "closed" /\ life # "opening" => connect_state' = "closed"

(* rdma_disconnect is called only when the connection came up. *)
LEMMA TeardownWitness ==
  /\ ValuesOK /\ EstablishedOnce /\ TeardownHasCause
  /\ [Next]_vars
  => CalledWhenUp
<1> SUFFICES ASSUME ValuesOK, EstablishedOnce, TeardownHasCause,
                   [Next]_vars
             PROVE  CalledWhenUp
  OBVIOUS
<1>1. ASSUME Open PROVE CalledWhenUp
BY <1>1 DEF Open, opvars, reactor, threads, aux, CalledWhenUp,
       EstablishedOnce, TeardownHasCause, DutyThreads, ValuesOK
<1>2. ASSUME Assign PROVE CalledWhenUp
BY <1>2 DEF Assign, opvars, reactor, threads, aux, CalledWhenUp,
       EstablishedOnce, TeardownHasCause, DutyThreads, ValuesOK
<1>3. ASSUME StoreIdle PROVE CalledWhenUp
BY <1>3 DEF StoreIdle, opvars, reactor, threads, cmvars, aux, CalledWhenUp,
       EstablishedOnce, TeardownHasCause, DutyThreads, ValuesOK
<1>4. ASSUME NEW o \in ConnOps, Reject(o) PROVE CalledWhenUp
BY <1>4 DEF Reject, Post, CanInitiate, Initiating, connector, reactor,
       threads, cmvars, aux, CalledWhenUp, EstablishedOnce, TeardownHasCause,
       DutyThreads, ValuesOK
<1>5. ASSUME NEW o \in ConnOps, AsyncConnect(o) PROVE CalledWhenUp
BY <1>5 DEF AsyncConnect, Post, CanInitiate, Initiating, reactor, threads,
       aux, CalledWhenUp, EstablishedOnce, TeardownHasCause, DutyThreads,
       ValuesOK
<1>6. ASSUME NEW o \in ConnOps, ConnectCas(o) PROVE CalledWhenUp
BY <1>6 DEF ConnectCas, Post, reactor, threads, cmvars, aux, CalledWhenUp,
       EstablishedOnce, TeardownHasCause, DutyThreads, ValuesOK
<1>7. ASSUME NEW o \in ConnOps, AsyncAccept(o) PROVE CalledWhenUp
BY <1>7 DEF AsyncAccept, CanInitiate, Initiating, connector, reactor, threads,
       cmvars, aux, CalledWhenUp, EstablishedOnce, TeardownHasCause,
       DutyThreads, ValuesOK
<1>8. ASSUME NEW o \in ConnOps, AcceptCas(o) PROVE CalledWhenUp
BY <1>8 DEF AcceptCas, Post, reactor, threads, cmvars, aux, CalledWhenUp,
       EstablishedOnce, TeardownHasCause, DutyThreads, ValuesOK
<1>9. ASSUME NEW o \in ConnOps, AcceptCall(o) PROVE CalledWhenUp
BY <1>9 DEF AcceptCall, Post, reactor, threads, aux, CalledWhenUp,
       EstablishedOnce, TeardownHasCause, DutyThreads, ValuesOK
<1>10. ASSUME NEW w \in Watchers, AsyncWaitDisconnect(w) PROVE CalledWhenUp
BY <1>10 DEF AsyncWaitDisconnect, Post, CanInitiate, connector, reactor,
       threads, cmvars, aux, CalledWhenUp, EstablishedOnce, TeardownHasCause,
       DutyThreads, ValuesOK
<1>11. ASSUME NEW o \in Ops, StartOp(o) PROVE CalledWhenUp
BY <1>11 DEF StartOp, connector, threads, cmvars, aux, CalledWhenUp,
       EstablishedOnce, TeardownHasCause, DutyThreads, ValuesOK
<1>12. ASSUME NEW t \in Threads, DisconnectClaim(t) PROVE CalledWhenUp
BY <1>12 DEF DisconnectClaim, is_open, opvars, reactor, cmvars, aux,
       CalledWhenUp, EstablishedOnce, TeardownHasCause, DutyThreads, ValuesOK
<1>13. ASSUME NEW t \in Threads, DisconnectCancel(t) PROVE CalledWhenUp
BY <1>13 DEF DisconnectCancel, AbortQueued, AfterCancel, connector, cmvars,
       aux, CalledWhenUp, EstablishedOnce, TeardownHasCause, DutyThreads,
       ValuesOK
<1>14. ASSUME NEW t \in Threads, DisconnectRdma(t) PROVE CalledWhenUp
BY <1>14 DEF DisconnectRdma, RdmaDisconnect, connector, opvars, reactor, aux,
       CalledWhenUp, EstablishedOnce, TeardownHasCause, DutyThreads, ValuesOK
<1>15. ASSUME NEW o \in Ops, CancelByKey(o) PROVE CalledWhenUp
BY <1>15 DEF CancelByKey, Post, Without, connector, threads, cmvars, aux,
       CalledWhenUp, EstablishedOnce, TeardownHasCause, DutyThreads, ValuesOK
<1>16. ASSUME NEW o \in Ops, Complete(o) PROVE CalledWhenUp
BY <1>16 DEF Complete, StoresClosed, reactor, threads, cmvars, CalledWhenUp,
       EstablishedOnce, TeardownHasCause, DutyThreads, ValuesOK
<1>17. ASSUME PerformIo PROVE CalledWhenUp
BY <1>17 DEF PerformIo, connector, opvars, threads, cmvars, aux, CalledWhenUp,
       EstablishedOnce, TeardownHasCause, DutyThreads, ValuesOK
<1>18. ASSUME PerformIoEnd PROVE CalledWhenUp
BY <1>18 DEF PerformIoEnd, connector, opvars, threads, cmvars, aux,
       CalledWhenUp, EstablishedOnce, TeardownHasCause, DutyThreads, ValuesOK
<1>19. ASSUME NEW o \in Ops, GetEventError(o) PROVE CalledWhenUp
BY <1>19 DEF GetEventError, Front, Retire, Post, connector, threads, cmvars,
       CalledWhenUp, EstablishedOnce, TeardownHasCause, DutyThreads, ValuesOK
<1>20. ASSUME NEW o \in ConnOps, ProcessResolve(o) PROVE CalledWhenUp
BY <1>20 DEF ProcessResolve, TakeEvent, Front, Advance, Retire, Post, threads,
       aux, CalledWhenUp, EstablishedOnce, TeardownHasCause, DutyThreads,
       ValuesOK
<1>21. ASSUME NEW o \in ConnOps, ResolveRoute(o) PROVE CalledWhenUp
BY <1>21 DEF ResolveRoute, Front, connector, threads, aux, CalledWhenUp,
       EstablishedOnce, TeardownHasCause, DutyThreads, ValuesOK
<1>22. ASSUME NEW o \in ConnOps, RdmaConnect(o) PROVE CalledWhenUp
BY <1>22 DEF RdmaConnect, Front, connector, threads, aux, CalledWhenUp,
       EstablishedOnce, TeardownHasCause, DutyThreads, ValuesOK
<1>23. ASSUME NEW o \in ConnOps, ClaimClosed(o) PROVE CalledWhenUp
BY <1>23 DEF ClaimClosed, Front, Retire, Post, threads, cmvars, aux,
       CalledWhenUp, EstablishedOnce, TeardownHasCause, DutyThreads, ValuesOK
<1>24. ASSUME NEW o \in ConnOps, ProcessConnect(o) PROVE CalledWhenUp
BY <1>24 DEF ProcessConnect, TakeEvent, Front, Arbitrate, opvars, threads,
       aux, CalledWhenUp, EstablishedOnce, TeardownHasCause, DutyThreads,
       ValuesOK
<1>25. ASSUME NEW o \in ConnOps, ModifyQp(o) PROVE CalledWhenUp
BY <1>25 DEF ModifyQp, Front, Retire, Post, connector, threads, cmvars, aux,
       CalledWhenUp, EstablishedOnce, TeardownHasCause, DutyThreads, ValuesOK
<1>26. ASSUME NEW o \in ConnOps, SecondActorTeardown(o) PROVE CalledWhenUp
BY <1>26 DEF SecondActorTeardown, Front, Retire, Post, RdmaDisconnect,
       connector, threads, aux, CalledWhenUp, EstablishedOnce,
       TeardownHasCause, DutyThreads, ValuesOK
<1>27. ASSUME NEW w \in Watchers, ProcessWatch(w) PROVE CalledWhenUp
BY <1>27 DEF ProcessWatch, TakeEvent, Front, Retire, Post, threads, aux,
       CalledWhenUp, EstablishedOnce, TeardownHasCause, DutyThreads, ValuesOK
<1>28. ASSUME CloseDeregister PROVE CalledWhenUp
BY <1>28 DEF CloseDeregister, AbortQueued, Initiating, threads, cmvars, aux,
       CalledWhenUp, EstablishedOnce, TeardownHasCause, DutyThreads, ValuesOK
<1>29. ASSUME DrainCmEvent PROVE CalledWhenUp
BY <1>29 DEF DrainCmEvent, RdmaDisconnect, connector, opvars, reactor,
       threads, aux, CalledWhenUp, EstablishedOnce, TeardownHasCause,
       DutyThreads, ValuesOK
<1>30. ASSUME CloseDestroy PROVE CalledWhenUp
BY <1>30 DEF CloseDestroy, opvars, reactor, threads, CalledWhenUp,
       EstablishedOnce, TeardownHasCause, DutyThreads, ValuesOK
<1>31. ASSUME CmAnswer PROVE CalledWhenUp
BY <1>31 DEF CmAnswer, Report, connector, opvars, threads, aux, CalledWhenUp,
       EstablishedOnce, TeardownHasCause, DutyThreads, ValuesOK
<1>32. ASSUME PeerDisconnect PROVE CalledWhenUp
BY <1>32 DEF PeerDisconnect, Report, connector, opvars, threads, aux,
       CalledWhenUp, EstablishedOnce, TeardownHasCause, DutyThreads, ValuesOK
<1>33. ASSUME CmExtra PROVE CalledWhenUp
BY <1>33 DEF CmExtra, connector, opvars, threads, CalledWhenUp,
       EstablishedOnce, TeardownHasCause, DutyThreads, ValuesOK
<1>34. CASE UNCHANGED vars
BY <1>34 DEF vars, connector, opvars, reactor, threads, cmvars, aux,
       CalledWhenUp, EstablishedOnce, TeardownHasCause, DutyThreads, ValuesOK
<1>35. QED
BY <1>1, <1>2, <1>3, <1>4, <1>5, <1>6, <1>7, <1>8, <1>9, <1>10, <1>11, <1>12,
       <1>13, <1>14, <1>15, <1>16, <1>17, <1>18, <1>19, <1>20, <1>21, <1>22,
       <1>23, <1>24, <1>25, <1>26, <1>27, <1>28, <1>29, <1>30, <1>31, <1>32,
       <1>33, <1>34 DEF Next, Initiate, Disconnect, Perform, Close

(* Only a thread entering disconnect() ends a live connection. *)
LEMMA LeftWitness ==
  /\ ValuesOK /\ QueueConsistent /\ OneShot /\ StageAgrees
  /\ PerformAgrees /\ ConnectedWasWon
  /\ [Next]_vars
  => ClaimedByThread
<1> SUFFICES ASSUME ValuesOK, QueueConsistent, OneShot,
                   StageAgrees, PerformAgrees, ConnectedWasWon, [Next]_vars
             PROVE  ClaimedByThread
  OBVIOUS
<1>1. ASSUME Open PROVE ClaimedByThread
  BY <1>1 DEF Open, opvars, reactor, threads, aux, ClaimedByThread
<1>2. ASSUME Assign PROVE ClaimedByThread
  BY <1>2 DEF Assign, opvars, reactor, threads, aux, ClaimedByThread
<1>3. ASSUME StoreIdle PROVE ClaimedByThread
  BY <1>3 DEF StoreIdle, OneShot, InFlight, ClaimedByThread
<1>4. ASSUME NEW o \in ConnOps, Reject(o) PROVE ClaimedByThread
BY <1>4 DEF Reject, Post, CanInitiate, Initiating, connector, reactor,
       threads, cmvars, aux, ClaimedByThread
<1>5. ASSUME NEW o \in ConnOps, AsyncConnect(o) PROVE ClaimedByThread
BY <1>5 DEF AsyncConnect, Post, CanInitiate, Initiating, reactor, threads,
       aux, ClaimedByThread
<1>6. ASSUME NEW o \in ConnOps, ConnectCas(o) PROVE ClaimedByThread
  BY <1>6 DEF ConnectCas, Post, reactor, threads, cmvars, aux, ClaimedByThread
<1>7. ASSUME NEW o \in ConnOps, AsyncAccept(o) PROVE ClaimedByThread
BY <1>7 DEF AsyncAccept, CanInitiate, Initiating, connector, reactor, threads,
       cmvars, aux, ClaimedByThread
<1>8. ASSUME NEW o \in ConnOps, AcceptCas(o) PROVE ClaimedByThread
  BY <1>8 DEF AcceptCas, Post, reactor, threads, cmvars, aux, ClaimedByThread
<1>9. ASSUME NEW o \in ConnOps, AcceptCall(o) PROVE ClaimedByThread
  <2>1. phase[o] = "accept_call" /\ stage[o] = "accept"
    BY <1>9 DEF AcceptCall, StageAgrees
  <2>2. QED BY <2>1, ConnectedOp DEF ClaimedByThread
<1>10. ASSUME NEW w \in Watchers, AsyncWaitDisconnect(w) PROVE ClaimedByThread
BY <1>10 DEF AsyncWaitDisconnect, Post, CanInitiate, connector, reactor,
       threads, cmvars, aux, ClaimedByThread
<1>11. ASSUME NEW o \in Ops, StartOp(o) PROVE ClaimedByThread
  BY <1>11 DEF StartOp, connector, threads, cmvars, aux, ClaimedByThread
<1>12. ASSUME NEW t \in Threads, DisconnectClaim(t) PROVE ClaimedByThread
  BY <1>12 DEF DisconnectClaim, ValuesOK, ClaimedByThread
<1>13. ASSUME NEW t \in Threads, DisconnectCancel(t) PROVE ClaimedByThread
BY <1>13 DEF DisconnectCancel, AbortQueued, AfterCancel, connector, cmvars,
       aux, ClaimedByThread
<1>14. ASSUME NEW t \in Threads, DisconnectRdma(t) PROVE ClaimedByThread
BY <1>14 DEF DisconnectRdma, RdmaDisconnect, connector, opvars, reactor, aux,
       ClaimedByThread
<1>15. ASSUME NEW o \in Ops, CancelByKey(o) PROVE ClaimedByThread
BY <1>15 DEF CancelByKey, Post, Without, connector, threads, cmvars, aux,
       ClaimedByThread
<1>16. ASSUME NEW o \in Ops, Complete(o) PROVE ClaimedByThread
  <2>1. phase[o] = "posted"
    BY <1>16 DEF Complete
  <2>2. CASE connect_state' = connect_state
    BY <2>2 DEF ClaimedByThread
  <2>3. CASE StoresClosed(o)
    BY <2>1, <2>3, ConnectedOp DEF StoresClosed, ConnectedWasWon,
       ClaimedByThread
  <2>4. QED BY <1>16, <2>2, <2>3 DEF Complete
<1>17. ASSUME PerformIo PROVE ClaimedByThread
BY <1>17 DEF PerformIo, connector, opvars, threads, cmvars, aux,
       ClaimedByThread
<1>18. ASSUME PerformIoEnd PROVE ClaimedByThread
BY <1>18 DEF PerformIoEnd, connector, opvars, threads, cmvars, aux,
       ClaimedByThread
<1>19. ASSUME NEW o \in Ops, GetEventError(o) PROVE ClaimedByThread
BY <1>19 DEF GetEventError, Front, Retire, Post, connector, threads, cmvars,
       ClaimedByThread
<1>20. ASSUME NEW o \in ConnOps, ProcessResolve(o) PROVE ClaimedByThread
BY <1>20 DEF ProcessResolve, TakeEvent, Front, Advance, Retire, Post, threads,
       aux, ClaimedByThread
<1>21. ASSUME NEW o \in ConnOps, ResolveRoute(o) PROVE ClaimedByThread
  BY <1>21 DEF ResolveRoute, Front, connector, threads, aux, ClaimedByThread
<1>22. ASSUME NEW o \in ConnOps, RdmaConnect(o) PROVE ClaimedByThread
  BY <1>22 DEF RdmaConnect, Front, connector, threads, aux, ClaimedByThread
<1>23. ASSUME NEW o \in ConnOps, ClaimClosed(o) PROVE ClaimedByThread
  <2>1. rpc = "claim" /\ o \in Ops /\ phase[o] = "armed" /\ stage[o] # "none"
    BY <1>23, FrontArmed DEF ClaimClosed, StageAgrees, Ops
  <2>2. QED BY <2>1, ConnectedOp DEF ClaimedByThread
<1>24. ASSUME NEW o \in ConnOps, ProcessConnect(o) PROVE ClaimedByThread
BY <1>24 DEF ProcessConnect, TakeEvent, Front, Arbitrate, opvars, threads,
       aux, ClaimedByThread
<1>25. ASSUME NEW o \in ConnOps, ModifyQp(o) PROVE ClaimedByThread
BY <1>25 DEF ModifyQp, Front, Retire, Post, connector, threads, cmvars, aux,
       ClaimedByThread
<1>26. ASSUME NEW o \in ConnOps, SecondActorTeardown(o) PROVE ClaimedByThread
BY <1>26 DEF SecondActorTeardown, Front, Retire, Post, RdmaDisconnect,
       connector, threads, aux, ClaimedByThread
<1>27. ASSUME NEW w \in Watchers, ProcessWatch(w) PROVE ClaimedByThread
BY <1>27 DEF ProcessWatch, TakeEvent, Front, Retire, Post, threads, aux,
       ClaimedByThread
<1>28. ASSUME CloseDeregister PROVE ClaimedByThread
BY <1>28 DEF CloseDeregister, AbortQueued, Initiating, threads, cmvars, aux,
       ClaimedByThread
<1>29. ASSUME DrainCmEvent PROVE ClaimedByThread
BY <1>29 DEF DrainCmEvent, RdmaDisconnect, connector, opvars, reactor,
       threads, aux, ClaimedByThread
<1>30. ASSUME CloseDestroy PROVE ClaimedByThread
  BY <1>30 DEF CloseDestroy, opvars, reactor, threads, ClaimedByThread
<1>31. ASSUME CmAnswer PROVE ClaimedByThread
BY <1>31 DEF CmAnswer, Report, connector, opvars, threads, aux,
       ClaimedByThread
<1>32. ASSUME PeerDisconnect PROVE ClaimedByThread
BY <1>32 DEF PeerDisconnect, Report, connector, opvars, threads, aux,
       ClaimedByThread
<1>33. ASSUME CmExtra PROVE ClaimedByThread
  BY <1>33 DEF CmExtra, connector, opvars, threads, ClaimedByThread
<1>34. CASE UNCHANGED vars
BY <1>34 DEF vars, connector, opvars, reactor, threads, cmvars, aux,
       ClaimedByThread
<1>35. QED
BY <1>1, <1>2, <1>3, <1>4, <1>5, <1>6, <1>7, <1>8, <1>9, <1>10, <1>11, <1>12,
       <1>13, <1>14, <1>15, <1>16, <1>17, <1>18, <1>19, <1>20, <1>21, <1>22,
       <1>23, <1>24, <1>25, <1>26, <1>27, <1>28, <1>29, <1>30, <1>31, <1>32,
       <1>33, <1>34 DEF Next, Initiate, Disconnect, Perform, Close

(* No step revives a closed connector once it is opened. *)
LEMMA ClosedStays == ValuesOK /\ [Next]_vars => StaysClosed
<1> SUFFICES ASSUME ValuesOK, [Next]_vars PROVE StaysClosed
  OBVIOUS
<1>1. ASSUME Open PROVE StaysClosed
  BY <1>1 DEF Open, opvars, reactor, threads, aux, StaysClosed, ValuesOK
<1>2. ASSUME Assign PROVE StaysClosed
  BY <1>2 DEF Assign, opvars, reactor, threads, aux, StaysClosed, ValuesOK
<1>3. ASSUME StoreIdle PROVE StaysClosed
BY <1>3 DEF StoreIdle, opvars, reactor, threads, cmvars, aux, StaysClosed,
       ValuesOK
<1>4. ASSUME NEW o \in ConnOps, Reject(o) PROVE StaysClosed
BY <1>4 DEF Reject, Post, CanInitiate, Initiating, connector, reactor,
       threads, cmvars, aux, StaysClosed, ValuesOK
<1>5. ASSUME NEW o \in ConnOps, AsyncConnect(o) PROVE StaysClosed
BY <1>5 DEF AsyncConnect, Post, CanInitiate, Initiating, reactor, threads,
       aux, StaysClosed, ValuesOK
<1>6. ASSUME NEW o \in ConnOps, ConnectCas(o) PROVE StaysClosed
BY <1>6 DEF ConnectCas, Post, reactor, threads, cmvars, aux, StaysClosed,
       ValuesOK
<1>7. ASSUME NEW o \in ConnOps, AsyncAccept(o) PROVE StaysClosed
BY <1>7 DEF AsyncAccept, CanInitiate, Initiating, connector, reactor, threads,
       cmvars, aux, StaysClosed, ValuesOK
<1>8. ASSUME NEW o \in ConnOps, AcceptCas(o) PROVE StaysClosed
BY <1>8 DEF AcceptCas, Post, reactor, threads, cmvars, aux, StaysClosed,
       ValuesOK
<1>9. ASSUME NEW o \in ConnOps, AcceptCall(o) PROVE StaysClosed
  BY <1>9 DEF AcceptCall, Post, reactor, threads, aux, StaysClosed, ValuesOK
<1>10. ASSUME NEW w \in Watchers, AsyncWaitDisconnect(w) PROVE StaysClosed
BY <1>10 DEF AsyncWaitDisconnect, Post, CanInitiate, connector, reactor,
       threads, cmvars, aux, StaysClosed, ValuesOK
<1>11. ASSUME NEW o \in Ops, StartOp(o) PROVE StaysClosed
  BY <1>11 DEF StartOp, connector, threads, cmvars, aux, StaysClosed, ValuesOK
<1>12. ASSUME NEW t \in Threads, DisconnectClaim(t) PROVE StaysClosed
BY <1>12 DEF DisconnectClaim, is_open, opvars, reactor, cmvars, aux,
       StaysClosed, ValuesOK
<1>13. ASSUME NEW t \in Threads, DisconnectCancel(t) PROVE StaysClosed
BY <1>13 DEF DisconnectCancel, AbortQueued, AfterCancel, connector, cmvars,
       aux, StaysClosed, ValuesOK
<1>14. ASSUME NEW t \in Threads, DisconnectRdma(t) PROVE StaysClosed
BY <1>14 DEF DisconnectRdma, RdmaDisconnect, connector, opvars, reactor, aux,
       StaysClosed, ValuesOK
<1>15. ASSUME NEW o \in Ops, CancelByKey(o) PROVE StaysClosed
BY <1>15 DEF CancelByKey, Post, Without, connector, threads, cmvars, aux,
       StaysClosed, ValuesOK
<1>16. ASSUME NEW o \in Ops, Complete(o) PROVE StaysClosed
BY <1>16 DEF Complete, StoresClosed, reactor, threads, cmvars, StaysClosed,
       ValuesOK
<1>17. ASSUME PerformIo PROVE StaysClosed
BY <1>17 DEF PerformIo, connector, opvars, threads, cmvars, aux, StaysClosed,
       ValuesOK
<1>18. ASSUME PerformIoEnd PROVE StaysClosed
BY <1>18 DEF PerformIoEnd, connector, opvars, threads, cmvars, aux,
       StaysClosed, ValuesOK
<1>19. ASSUME NEW o \in Ops, GetEventError(o) PROVE StaysClosed
BY <1>19 DEF GetEventError, Front, Retire, Post, connector, threads, cmvars,
       StaysClosed, ValuesOK
<1>20. ASSUME NEW o \in ConnOps, ProcessResolve(o) PROVE StaysClosed
BY <1>20 DEF ProcessResolve, TakeEvent, Front, Advance, Retire, Post, threads,
       aux, StaysClosed, ValuesOK
<1>21. ASSUME NEW o \in ConnOps, ResolveRoute(o) PROVE StaysClosed
BY <1>21 DEF ResolveRoute, Front, connector, threads, aux, StaysClosed,
       ValuesOK
<1>22. ASSUME NEW o \in ConnOps, RdmaConnect(o) PROVE StaysClosed
BY <1>22 DEF RdmaConnect, Front, connector, threads, aux, StaysClosed,
       ValuesOK
<1>23. ASSUME NEW o \in ConnOps, ClaimClosed(o) PROVE StaysClosed
BY <1>23 DEF ClaimClosed, Front, Retire, Post, threads, cmvars, aux,
       StaysClosed, ValuesOK
<1>24. ASSUME NEW o \in ConnOps, ProcessConnect(o) PROVE StaysClosed
BY <1>24 DEF ProcessConnect, TakeEvent, Front, Arbitrate, opvars, threads,
       aux, StaysClosed, ValuesOK
<1>25. ASSUME NEW o \in ConnOps, ModifyQp(o) PROVE StaysClosed
BY <1>25 DEF ModifyQp, Front, Retire, Post, connector, threads, cmvars, aux,
       StaysClosed, ValuesOK
<1>26. ASSUME NEW o \in ConnOps, SecondActorTeardown(o) PROVE StaysClosed
BY <1>26 DEF SecondActorTeardown, Front, Retire, Post, RdmaDisconnect,
       connector, threads, aux, StaysClosed, ValuesOK
<1>27. ASSUME NEW w \in Watchers, ProcessWatch(w) PROVE StaysClosed
BY <1>27 DEF ProcessWatch, TakeEvent, Front, Retire, Post, threads, aux,
       StaysClosed, ValuesOK
<1>28. ASSUME CloseDeregister PROVE StaysClosed
BY <1>28 DEF CloseDeregister, AbortQueued, Initiating, threads, cmvars, aux,
       StaysClosed, ValuesOK
<1>29. ASSUME DrainCmEvent PROVE StaysClosed
BY <1>29 DEF DrainCmEvent, RdmaDisconnect, connector, opvars, reactor,
       threads, aux, StaysClosed, ValuesOK
<1>30. ASSUME CloseDestroy PROVE StaysClosed
  BY <1>30 DEF CloseDestroy, opvars, reactor, threads, StaysClosed, ValuesOK
<1>31. ASSUME CmAnswer PROVE StaysClosed
BY <1>31 DEF CmAnswer, Report, connector, opvars, threads, aux, StaysClosed,
       ValuesOK
<1>32. ASSUME PeerDisconnect PROVE StaysClosed
BY <1>32 DEF PeerDisconnect, Report, connector, opvars, threads, aux,
       StaysClosed, ValuesOK
<1>33. ASSUME CmExtra PROVE StaysClosed
  BY <1>33 DEF CmExtra, connector, opvars, threads, StaysClosed, ValuesOK
<1>34. CASE UNCHANGED vars
BY <1>34 DEF vars, connector, opvars, reactor, threads, cmvars, aux,
       StaysClosed, ValuesOK
<1>35. QED
BY <1>1, <1>2, <1>3, <1>4, <1>5, <1>6, <1>7, <1>8, <1>9, <1>10, <1>11, <1>12,
       <1>13, <1>14, <1>15, <1>16, <1>17, <1>18, <1>19, <1>20, <1>21, <1>22,
       <1>23, <1>24, <1>25, <1>26, <1>27, <1>28, <1>29, <1>30, <1>31, <1>32,
       <1>33, <1>34 DEF Next, Initiate, Disconnect, Perform, Close

(* A completed abort leaves the connector terminal. *)
LEMMA AbortedStep ==
  /\ ValuesOK /\ QueueConsistent /\ OneShot /\ ConnectedWasWon
  /\ AbortedIsTerminal
  /\ [Next]_vars
  => AbortedIsTerminal'
<1> SUFFICES ASSUME ValuesOK, QueueConsistent, OneShot,
                   ConnectedWasWon, AbortedIsTerminal, [Next]_vars
             PROVE  AbortedIsTerminal'
  OBVIOUS
<1>1. ASSUME Open PROVE AbortedIsTerminal'
BY <1>1 DEF Open, opvars, reactor, threads, aux, AbortedIsTerminal, OneShot,
       ValuesOK, Ops
<1>2. ASSUME Assign PROVE AbortedIsTerminal'
BY <1>2 DEF Assign, opvars, reactor, threads, aux, AbortedIsTerminal, OneShot,
       ValuesOK, Ops
<1>3. ASSUME StoreIdle PROVE AbortedIsTerminal'
BY <1>3 DEF StoreIdle, opvars, reactor, threads, cmvars, aux,
       AbortedIsTerminal, OneShot, ValuesOK, Ops
<1>4. ASSUME NEW o \in ConnOps, Reject(o) PROVE AbortedIsTerminal'
BY <1>4 DEF Reject, Post, CanInitiate, Initiating, connector, reactor,
       threads, cmvars, aux, AbortedIsTerminal, OneShot, ValuesOK, Ops
<1>5. ASSUME NEW o \in ConnOps, AsyncConnect(o) PROVE AbortedIsTerminal'
BY <1>5 DEF AsyncConnect, Post, CanInitiate, Initiating, reactor, threads,
       aux, AbortedIsTerminal, OneShot, ValuesOK, Ops
<1>6. ASSUME NEW o \in ConnOps, ConnectCas(o) PROVE AbortedIsTerminal'
BY <1>6 DEF ConnectCas, Post, reactor, threads, cmvars, aux,
       AbortedIsTerminal, OneShot, ValuesOK, Ops
<1>7. ASSUME NEW o \in ConnOps, AsyncAccept(o) PROVE AbortedIsTerminal'
BY <1>7 DEF AsyncAccept, CanInitiate, Initiating, connector, reactor, threads,
       cmvars, aux, AbortedIsTerminal, OneShot, ValuesOK, Ops
<1>8. ASSUME NEW o \in ConnOps, AcceptCas(o) PROVE AbortedIsTerminal'
BY <1>8 DEF AcceptCas, Post, reactor, threads, cmvars, aux, AbortedIsTerminal,
       OneShot, ValuesOK, Ops
<1>9. ASSUME NEW o \in ConnOps, AcceptCall(o) PROVE AbortedIsTerminal'
BY <1>9 DEF AcceptCall, Post, reactor, threads, aux, AbortedIsTerminal,
       OneShot, ValuesOK, Ops
<1>10. ASSUME NEW w \in Watchers, AsyncWaitDisconnect(w) PROVE AbortedIsTerminal'
BY <1>10 DEF AsyncWaitDisconnect, Post, CanInitiate, connector, reactor,
       threads, cmvars, aux, AbortedIsTerminal, OneShot, ValuesOK, Ops
<1>11. ASSUME NEW o \in Ops, StartOp(o) PROVE AbortedIsTerminal'
BY <1>11 DEF StartOp, connector, threads, cmvars, aux, AbortedIsTerminal,
       OneShot, ValuesOK, Ops
<1>12. ASSUME NEW t \in Threads, DisconnectClaim(t) PROVE AbortedIsTerminal'
BY <1>12 DEF DisconnectClaim, is_open, opvars, reactor, cmvars, aux,
       AbortedIsTerminal, OneShot, ValuesOK, Ops
<1>13. ASSUME NEW t \in Threads, DisconnectCancel(t) PROVE AbortedIsTerminal'
BY <1>13 DEF DisconnectCancel, AbortQueued, AfterCancel, connector, cmvars,
       aux, AbortedIsTerminal, OneShot, ValuesOK, Ops
<1>14. ASSUME NEW t \in Threads, DisconnectRdma(t) PROVE AbortedIsTerminal'
BY <1>14 DEF DisconnectRdma, RdmaDisconnect, connector, opvars, reactor, aux,
       AbortedIsTerminal, OneShot, ValuesOK, Ops
<1>15. ASSUME NEW o \in Ops, CancelByKey(o) PROVE AbortedIsTerminal'
BY <1>15 DEF CancelByKey, Post, Without, connector, threads, cmvars, aux,
       AbortedIsTerminal, OneShot, ValuesOK, Ops
<1>16. ASSUME NEW o \in Ops, Complete(o) PROVE AbortedIsTerminal'
BY <1>16 DEF Complete, StoresClosed, reactor, threads, cmvars,
       AbortedIsTerminal, OneShot, ValuesOK, Ops
<1>17. ASSUME PerformIo PROVE AbortedIsTerminal'
BY <1>17 DEF PerformIo, connector, opvars, threads, cmvars, aux,
       AbortedIsTerminal, OneShot, ValuesOK, Ops
<1>18. ASSUME PerformIoEnd PROVE AbortedIsTerminal'
BY <1>18 DEF PerformIoEnd, connector, opvars, threads, cmvars, aux,
       AbortedIsTerminal, OneShot, ValuesOK, Ops
<1>19. ASSUME NEW o \in Ops, GetEventError(o) PROVE AbortedIsTerminal'
BY <1>19 DEF GetEventError, Front, Retire, Post, connector, threads, cmvars,
       AbortedIsTerminal, OneShot, ValuesOK, Ops
<1>20. ASSUME NEW o \in ConnOps, ProcessResolve(o) PROVE AbortedIsTerminal'
BY <1>20 DEF ProcessResolve, TakeEvent, Front, Advance, Retire, Post, threads,
       aux, AbortedIsTerminal, OneShot, ValuesOK, Ops
<1>21. ASSUME NEW o \in ConnOps, ResolveRoute(o) PROVE AbortedIsTerminal'
BY <1>21 DEF ResolveRoute, Front, connector, threads, aux, AbortedIsTerminal,
       OneShot, ValuesOK, Ops
<1>22. ASSUME NEW o \in ConnOps, RdmaConnect(o) PROVE AbortedIsTerminal'
BY <1>22 DEF RdmaConnect, Front, connector, threads, aux, AbortedIsTerminal,
       OneShot, ValuesOK, Ops
<1>23. ASSUME NEW o \in ConnOps, ClaimClosed(o) PROVE AbortedIsTerminal'
BY <1>23 DEF ClaimClosed, Front, Retire, Post, threads, cmvars, aux,
       AbortedIsTerminal, OneShot, ValuesOK, Ops
<1>24. ASSUME NEW o \in ConnOps, ProcessConnect(o) PROVE AbortedIsTerminal'
BY <1>24 DEF ProcessConnect, TakeEvent, Front, Arbitrate, opvars, threads,
       aux, AbortedIsTerminal, OneShot, ValuesOK, Ops
<1>25. ASSUME NEW o \in ConnOps, ModifyQp(o) PROVE AbortedIsTerminal'
BY <1>25 DEF ModifyQp, Front, Retire, Post, connector, threads, cmvars, aux,
       AbortedIsTerminal, OneShot, ValuesOK, Ops
<1>26. ASSUME NEW o \in ConnOps, SecondActorTeardown(o) PROVE AbortedIsTerminal'
BY <1>26 DEF SecondActorTeardown, Front, Retire, Post, RdmaDisconnect,
       connector, threads, aux, AbortedIsTerminal, OneShot, ValuesOK, Ops
<1>27. ASSUME NEW w \in Watchers, ProcessWatch(w) PROVE AbortedIsTerminal'
BY <1>27 DEF ProcessWatch, TakeEvent, Front, Retire, Post, threads, aux,
       AbortedIsTerminal, OneShot, ValuesOK, Ops
<1>28. ASSUME CloseDeregister PROVE AbortedIsTerminal'
BY <1>28 DEF CloseDeregister, AbortQueued, Initiating, threads, cmvars, aux,
       AbortedIsTerminal, OneShot, ValuesOK, Ops
<1>29. ASSUME DrainCmEvent PROVE AbortedIsTerminal'
BY <1>29 DEF DrainCmEvent, RdmaDisconnect, connector, opvars, reactor,
       threads, aux, AbortedIsTerminal, OneShot, ValuesOK, Ops
<1>30. ASSUME CloseDestroy PROVE AbortedIsTerminal'
BY <1>30 DEF CloseDestroy, opvars, reactor, threads, AbortedIsTerminal,
       OneShot, ValuesOK, Ops
<1>31. ASSUME CmAnswer PROVE AbortedIsTerminal'
BY <1>31 DEF CmAnswer, Report, connector, opvars, threads, aux,
       AbortedIsTerminal, OneShot, ValuesOK, Ops
<1>32. ASSUME PeerDisconnect PROVE AbortedIsTerminal'
BY <1>32 DEF PeerDisconnect, Report, connector, opvars, threads, aux,
       AbortedIsTerminal, OneShot, ValuesOK, Ops
<1>33. ASSUME CmExtra PROVE AbortedIsTerminal'
BY <1>33 DEF CmExtra, connector, opvars, threads, AbortedIsTerminal, OneShot,
       ValuesOK, Ops
<1>34. CASE UNCHANGED vars
BY <1>34 DEF vars, connector, opvars, reactor, threads, cmvars, aux,
       AbortedIsTerminal, OneShot, ValuesOK, Ops
<1>35. QED
BY <1>1, <1>2, <1>3, <1>4, <1>5, <1>6, <1>7, <1>8, <1>9, <1>10, <1>11, <1>12,
       <1>13, <1>14, <1>15, <1>16, <1>17, <1>18, <1>19, <1>20, <1>21, <1>22,
       <1>23, <1>24, <1>25, <1>26, <1>27, <1>28, <1>29, <1>30, <1>31, <1>32,
       <1>33, <1>34 DEF Next, Initiate, Disconnect, Perform, Close

(* The destructor runs alone: once the descriptor is deregistered, no       *)
(* perform_io is executing for it and no thread is inside disconnect().     *)
ClosingIsQuiet ==
  life \in {"closing", "destroyed"} =>
    rpc = "idle" /\ \A t \in Threads : pc[t] = "idle"

(* Nothing starts beside the destructor. *)
LEMMA QuietStep == ValuesOK /\ ClosingIsQuiet /\ [Next]_vars => ClosingIsQuiet'
<1> SUFFICES ASSUME ValuesOK, ClosingIsQuiet, [Next]_vars
             PROVE  ClosingIsQuiet'
  OBVIOUS
<1>1. ASSUME Open PROVE ClosingIsQuiet'
BY <1>1 DEF Open, opvars, reactor, threads, aux, ClosingIsQuiet, ValuesOK
<1>2. ASSUME Assign PROVE ClosingIsQuiet'
BY <1>2 DEF Assign, opvars, reactor, threads, aux, ClosingIsQuiet, ValuesOK
<1>3. ASSUME StoreIdle PROVE ClosingIsQuiet'
BY <1>3 DEF StoreIdle, opvars, reactor, threads, cmvars, aux, ClosingIsQuiet,
       ValuesOK
<1>4. ASSUME NEW o \in ConnOps, Reject(o) PROVE ClosingIsQuiet'
BY <1>4 DEF Reject, Post, CanInitiate, Initiating, connector, reactor,
       threads, cmvars, aux, ClosingIsQuiet, ValuesOK
<1>5. ASSUME NEW o \in ConnOps, AsyncConnect(o) PROVE ClosingIsQuiet'
BY <1>5 DEF AsyncConnect, Post, CanInitiate, Initiating, reactor, threads,
       aux, ClosingIsQuiet, ValuesOK
<1>6. ASSUME NEW o \in ConnOps, ConnectCas(o) PROVE ClosingIsQuiet'
BY <1>6 DEF ConnectCas, Post, reactor, threads, cmvars, aux, ClosingIsQuiet,
       ValuesOK
<1>7. ASSUME NEW o \in ConnOps, AsyncAccept(o) PROVE ClosingIsQuiet'
BY <1>7 DEF AsyncAccept, CanInitiate, Initiating, connector, reactor, threads,
       cmvars, aux, ClosingIsQuiet, ValuesOK
<1>8. ASSUME NEW o \in ConnOps, AcceptCas(o) PROVE ClosingIsQuiet'
BY <1>8 DEF AcceptCas, Post, reactor, threads, cmvars, aux, ClosingIsQuiet,
       ValuesOK
<1>9. ASSUME NEW o \in ConnOps, AcceptCall(o) PROVE ClosingIsQuiet'
BY <1>9 DEF AcceptCall, Post, reactor, threads, aux, ClosingIsQuiet, ValuesOK
<1>10. ASSUME NEW w \in Watchers, AsyncWaitDisconnect(w) PROVE ClosingIsQuiet'
BY <1>10 DEF AsyncWaitDisconnect, Post, CanInitiate, connector, reactor,
       threads, cmvars, aux, ClosingIsQuiet, ValuesOK
<1>11. ASSUME NEW o \in Ops, StartOp(o) PROVE ClosingIsQuiet'
BY <1>11 DEF StartOp, connector, threads, cmvars, aux, ClosingIsQuiet,
       ValuesOK
<1>12. ASSUME NEW t \in Threads, DisconnectClaim(t) PROVE ClosingIsQuiet'
BY <1>12 DEF DisconnectClaim, is_open, opvars, reactor, cmvars, aux,
       ClosingIsQuiet, ValuesOK
<1>13. ASSUME NEW t \in Threads, DisconnectCancel(t) PROVE ClosingIsQuiet'
BY <1>13 DEF DisconnectCancel, AbortQueued, AfterCancel, connector, cmvars,
       aux, ClosingIsQuiet, ValuesOK
<1>14. ASSUME NEW t \in Threads, DisconnectRdma(t) PROVE ClosingIsQuiet'
BY <1>14 DEF DisconnectRdma, RdmaDisconnect, connector, opvars, reactor, aux,
       ClosingIsQuiet, ValuesOK
<1>15. ASSUME NEW o \in Ops, CancelByKey(o) PROVE ClosingIsQuiet'
BY <1>15 DEF CancelByKey, Post, Without, connector, threads, cmvars, aux,
       ClosingIsQuiet, ValuesOK
<1>16. ASSUME NEW o \in Ops, Complete(o) PROVE ClosingIsQuiet'
BY <1>16 DEF Complete, StoresClosed, reactor, threads, cmvars, ClosingIsQuiet,
       ValuesOK
<1>17. ASSUME PerformIo PROVE ClosingIsQuiet'
BY <1>17 DEF PerformIo, connector, opvars, threads, cmvars, aux,
       ClosingIsQuiet, ValuesOK
<1>18. ASSUME PerformIoEnd PROVE ClosingIsQuiet'
BY <1>18 DEF PerformIoEnd, connector, opvars, threads, cmvars, aux,
       ClosingIsQuiet, ValuesOK
<1>19. ASSUME NEW o \in Ops, GetEventError(o) PROVE ClosingIsQuiet'
BY <1>19 DEF GetEventError, Front, Retire, Post, connector, threads, cmvars,
       ClosingIsQuiet, ValuesOK
<1>20. ASSUME NEW o \in ConnOps, ProcessResolve(o) PROVE ClosingIsQuiet'
BY <1>20 DEF ProcessResolve, TakeEvent, Front, Advance, Retire, Post, threads,
       aux, ClosingIsQuiet, ValuesOK
<1>21. ASSUME NEW o \in ConnOps, ResolveRoute(o) PROVE ClosingIsQuiet'
BY <1>21 DEF ResolveRoute, Front, connector, threads, aux, ClosingIsQuiet,
       ValuesOK
<1>22. ASSUME NEW o \in ConnOps, RdmaConnect(o) PROVE ClosingIsQuiet'
BY <1>22 DEF RdmaConnect, Front, connector, threads, aux, ClosingIsQuiet,
       ValuesOK
<1>23. ASSUME NEW o \in ConnOps, ClaimClosed(o) PROVE ClosingIsQuiet'
BY <1>23 DEF ClaimClosed, Front, Retire, Post, threads, cmvars, aux,
       ClosingIsQuiet, ValuesOK
<1>24. ASSUME NEW o \in ConnOps, ProcessConnect(o) PROVE ClosingIsQuiet'
BY <1>24 DEF ProcessConnect, TakeEvent, Front, Arbitrate, opvars, threads,
       aux, ClosingIsQuiet, ValuesOK
<1>25. ASSUME NEW o \in ConnOps, ModifyQp(o) PROVE ClosingIsQuiet'
BY <1>25 DEF ModifyQp, Front, Retire, Post, connector, threads, cmvars, aux,
       ClosingIsQuiet, ValuesOK
<1>26. ASSUME NEW o \in ConnOps, SecondActorTeardown(o) PROVE ClosingIsQuiet'
BY <1>26 DEF SecondActorTeardown, Front, Retire, Post, RdmaDisconnect,
       connector, threads, aux, ClosingIsQuiet, ValuesOK
<1>27. ASSUME NEW w \in Watchers, ProcessWatch(w) PROVE ClosingIsQuiet'
BY <1>27 DEF ProcessWatch, TakeEvent, Front, Retire, Post, threads, aux,
       ClosingIsQuiet, ValuesOK
<1>28. ASSUME CloseDeregister PROVE ClosingIsQuiet'
BY <1>28 DEF CloseDeregister, AbortQueued, Initiating, threads, cmvars, aux,
       ClosingIsQuiet, ValuesOK
<1>29. ASSUME DrainCmEvent PROVE ClosingIsQuiet'
BY <1>29 DEF DrainCmEvent, RdmaDisconnect, connector, opvars, reactor,
       threads, aux, ClosingIsQuiet, ValuesOK
<1>30. ASSUME CloseDestroy PROVE ClosingIsQuiet'
BY <1>30 DEF CloseDestroy, opvars, reactor, threads, ClosingIsQuiet, ValuesOK
<1>31. ASSUME CmAnswer PROVE ClosingIsQuiet'
BY <1>31 DEF CmAnswer, Report, connector, opvars, threads, aux,
       ClosingIsQuiet, ValuesOK
<1>32. ASSUME PeerDisconnect PROVE ClosingIsQuiet'
BY <1>32 DEF PeerDisconnect, Report, connector, opvars, threads, aux,
       ClosingIsQuiet, ValuesOK
<1>33. ASSUME CmExtra PROVE ClosingIsQuiet'
BY <1>33 DEF CmExtra, connector, opvars, threads, ClosingIsQuiet, ValuesOK
<1>34. CASE UNCHANGED vars
BY <1>34 DEF vars, connector, opvars, reactor, threads, cmvars, aux,
       ClosingIsQuiet, ValuesOK
<1>35. QED
BY <1>1, <1>2, <1>3, <1>4, <1>5, <1>6, <1>7, <1>8, <1>9, <1>10, <1>11, <1>12,
       <1>13, <1>14, <1>15, <1>16, <1>17, <1>18, <1>19, <1>20, <1>21, <1>22,
       <1>23, <1>24, <1>25, <1>26, <1>27, <1>28, <1>29, <1>30, <1>31, <1>32,
       <1>33, <1>34 DEF Next, Initiate, Disconnect, Perform, Close

(* A step of the connector, as the contract sees it. *)
ContractStep == C!Next \/ UNCHANGED C!contract

(* Every step is a step of the contract or a stutter. *)
LEMMA RefineStep ==
  /\ ValuesOK /\ QueueConsistent /\ OneShot /\ StageAgrees
  /\ PerformAgrees /\ ConnectedWasWon /\ EstablishedOnce
  /\ TeardownHasCause /\ EstablishedAccounted
  /\ [Next]_vars
  => ContractStep
<1> SUFFICES ASSUME ValuesOK, QueueConsistent, OneShot,
                   StageAgrees, PerformAgrees, ConnectedWasWon,
                   EstablishedOnce, TeardownHasCause, EstablishedAccounted,
                   [Next]_vars
             PROVE  ContractStep
  OBVIOUS
<1>1. ASSUME Open PROVE ContractStep
BY <1>1 DEF Open, opvars, reactor, threads, aux, ContractStep, ContractState,
       InFlight, ValuesOK, ConnectState, C!Next, C!contract, C!Start,
       C!Establish, C!Close, C!Teardown, C!Abandon
<1>2. ASSUME Assign PROVE ContractStep
BY <1>2 DEF Assign, opvars, reactor, threads, aux, ContractStep,
       ContractState, InFlight, ValuesOK, ConnectState, C!Next, C!contract,
       C!Start, C!Establish, C!Close, C!Teardown, C!Abandon
<1>3. ASSUME StoreIdle PROVE ContractStep
BY <1>3 DEF StoreIdle, opvars, reactor, threads, cmvars, aux, ContractStep,
       ContractState, InFlight, ValuesOK, ConnectState, C!Next, C!contract,
       C!Start, C!Establish, C!Close, C!Teardown, C!Abandon
<1>4. ASSUME NEW o \in ConnOps, Reject(o) PROVE ContractStep
BY <1>4 DEF Reject, Post, CanInitiate, Initiating, connector, reactor,
       threads, cmvars, aux, ContractStep, ContractState, InFlight, ValuesOK,
       ConnectState, C!Next, C!contract, C!Start, C!Establish, C!Close,
       C!Teardown, C!Abandon
<1>5. ASSUME NEW o \in ConnOps, AsyncConnect(o) PROVE ContractStep
BY <1>5 DEF AsyncConnect, Post, CanInitiate, Initiating, reactor, threads,
       aux, ContractStep, ContractState, InFlight, ValuesOK, ConnectState,
       C!Next, C!contract, C!Start, C!Establish, C!Close, C!Teardown,
       C!Abandon
<1>6. ASSUME NEW o \in ConnOps, ConnectCas(o) PROVE ContractStep
BY <1>6 DEF ConnectCas, Post, reactor, threads, cmvars, aux, ContractStep,
       ContractState, InFlight, ValuesOK, ConnectState, C!Next, C!contract,
       C!Start, C!Establish, C!Close, C!Teardown, C!Abandon
<1>7. ASSUME NEW o \in ConnOps, AsyncAccept(o) PROVE ContractStep
BY <1>7 DEF AsyncAccept, CanInitiate, Initiating, connector, reactor, threads,
       cmvars, aux, ContractStep, ContractState, InFlight, ValuesOK,
       ConnectState, C!Next, C!contract, C!Start, C!Establish, C!Close,
       C!Teardown, C!Abandon
<1>8. ASSUME NEW o \in ConnOps, AcceptCas(o) PROVE ContractStep
BY <1>8 DEF AcceptCas, Post, reactor, threads, cmvars, aux, ContractStep,
       ContractState, InFlight, ValuesOK, ConnectState, C!Next, C!contract,
       C!Start, C!Establish, C!Close, C!Teardown, C!Abandon
<1>9. ASSUME NEW o \in ConnOps, AcceptCall(o) PROVE ContractStep
BY <1>9 DEF AcceptCall, Post, reactor, threads, aux, ContractStep,
       ContractState, InFlight, ValuesOK, ConnectState, C!Next, C!contract,
       C!Start, C!Establish, C!Close, C!Teardown, C!Abandon
<1>10. ASSUME NEW w \in Watchers, AsyncWaitDisconnect(w) PROVE ContractStep
BY <1>10 DEF AsyncWaitDisconnect, Post, CanInitiate, connector, reactor,
       threads, cmvars, aux, ContractStep, ContractState, InFlight, ValuesOK,
       ConnectState, C!Next, C!contract, C!Start, C!Establish, C!Close,
       C!Teardown, C!Abandon
<1>11. ASSUME NEW o \in Ops, StartOp(o) PROVE ContractStep
BY <1>11 DEF StartOp, connector, threads, cmvars, aux, ContractStep,
       ContractState, InFlight, ValuesOK, ConnectState, C!Next, C!contract,
       C!Start, C!Establish, C!Close, C!Teardown, C!Abandon
<1>12. ASSUME NEW t \in Threads, DisconnectClaim(t) PROVE ContractStep
BY <1>12 DEF DisconnectClaim, is_open, opvars, reactor, cmvars, aux,
       ContractStep, ContractState, InFlight, ValuesOK, ConnectState, C!Next,
       C!contract, C!Start, C!Establish, C!Close, C!Teardown, C!Abandon
<1>13. ASSUME NEW t \in Threads, DisconnectCancel(t) PROVE ContractStep
BY <1>13 DEF DisconnectCancel, AbortQueued, AfterCancel, connector, cmvars,
       aux, ContractStep, ContractState, InFlight, ValuesOK, ConnectState,
       C!Next, C!contract, C!Start, C!Establish, C!Close, C!Teardown,
       C!Abandon
<1>14. ASSUME NEW t \in Threads, DisconnectRdma(t) PROVE ContractStep
  <2>1. t \in DutyThreads /\ consumed = "op"
    BY <1>14 DEF DisconnectRdma, TeardownHasCause, DutyThreads
  <2>2. connect_state = "closed" /\ discs = 0
    BY <2>1 DEF EstablishedAccounted, NobodyOwes
  <2>3. ContractState = "closed" /\ ContractState' = "closed" /\ discs' = 1
    BY <1>14, <2>1, <2>2 DEF DisconnectRdma, RdmaDisconnect, connector,
       ContractState, InFlight, EstablishedOnce
  <2>4. QED
    BY <2>2, <2>3 DEF ContractStep, C!Next, C!Teardown
<1>15. ASSUME NEW o \in Ops, CancelByKey(o) PROVE ContractStep
BY <1>15 DEF CancelByKey, Post, Without, connector, threads, cmvars, aux,
       ContractStep, ContractState, InFlight, ValuesOK, ConnectState, C!Next,
       C!contract, C!Start, C!Establish, C!Close, C!Teardown, C!Abandon
<1>16. ASSUME NEW o \in Ops, Complete(o) PROVE ContractStep
BY <1>16 DEF Complete, StoresClosed, reactor, threads, cmvars, ContractStep,
       ContractState, InFlight, ValuesOK, ConnectState, C!Next, C!contract,
       C!Start, C!Establish, C!Close, C!Teardown, C!Abandon
<1>17. ASSUME PerformIo PROVE ContractStep
BY <1>17 DEF PerformIo, connector, opvars, threads, cmvars, aux, ContractStep,
       ContractState, InFlight, ValuesOK, ConnectState, C!Next, C!contract,
       C!Start, C!Establish, C!Close, C!Teardown, C!Abandon
<1>18. ASSUME PerformIoEnd PROVE ContractStep
BY <1>18 DEF PerformIoEnd, connector, opvars, threads, cmvars, aux,
       ContractStep, ContractState, InFlight, ValuesOK, ConnectState, C!Next,
       C!contract, C!Start, C!Establish, C!Close, C!Teardown, C!Abandon
<1>19. ASSUME NEW o \in Ops, GetEventError(o) PROVE ContractStep
BY <1>19 DEF GetEventError, Front, Retire, Post, connector, threads, cmvars,
       ContractStep, ContractState, InFlight, ValuesOK, ConnectState, C!Next,
       C!contract, C!Start, C!Establish, C!Close, C!Teardown, C!Abandon
<1>20. ASSUME NEW o \in ConnOps, ProcessResolve(o) PROVE ContractStep
BY <1>20 DEF ProcessResolve, TakeEvent, Front, Advance, Retire, Post, threads,
       aux, ContractStep, ContractState, InFlight, ValuesOK, ConnectState,
       C!Next, C!contract, C!Start, C!Establish, C!Close, C!Teardown,
       C!Abandon
<1>21. ASSUME NEW o \in ConnOps, ResolveRoute(o) PROVE ContractStep
BY <1>21 DEF ResolveRoute, Front, connector, threads, aux, ContractStep,
       ContractState, InFlight, ValuesOK, ConnectState, C!Next, C!contract,
       C!Start, C!Establish, C!Close, C!Teardown, C!Abandon
<1>22. ASSUME NEW o \in ConnOps, RdmaConnect(o) PROVE ContractStep
BY <1>22 DEF RdmaConnect, Front, connector, threads, aux, ContractStep,
       ContractState, InFlight, ValuesOK, ConnectState, C!Next, C!contract,
       C!Start, C!Establish, C!Close, C!Teardown, C!Abandon
<1>23. ASSUME NEW o \in ConnOps, ClaimClosed(o) PROVE ContractStep
BY <1>23 DEF ClaimClosed, Front, Retire, Post, threads, cmvars, aux,
       ContractStep, ContractState, InFlight, ValuesOK, ConnectState, C!Next,
       C!contract, C!Start, C!Establish, C!Close, C!Teardown, C!Abandon
<1>24. ASSUME NEW o \in ConnOps, ProcessConnect(o) PROVE ContractStep
BY <1>24 DEF ProcessConnect, TakeEvent, Front, Arbitrate, opvars, threads,
       aux, ContractStep, ContractState, InFlight, ValuesOK, ConnectState,
       C!Next, C!contract, C!Start, C!Establish, C!Close, C!Teardown,
       C!Abandon
<1>25. ASSUME NEW o \in ConnOps, ModifyQp(o) PROVE ContractStep
BY <1>25 DEF ModifyQp, Front, Retire, Post, connector, threads, cmvars, aux,
       ContractStep, ContractState, InFlight, ValuesOK, ConnectState, C!Next,
       C!contract, C!Start, C!Establish, C!Close, C!Teardown, C!Abandon
<1>26. ASSUME NEW o \in ConnOps, SecondActorTeardown(o) PROVE ContractStep
  <2>1. rpc = "teardown" /\ consumed = "op"
    BY <1>26 DEF SecondActorTeardown, TeardownHasCause
  <2>2. connect_state = "closed" /\ discs = 0
    BY <2>1 DEF EstablishedAccounted, NobodyOwes
  <2>3. ContractState = "closed" /\ ContractState' = "closed" /\ discs' = 1
    BY <1>26, <2>1, <2>2 DEF SecondActorTeardown, RdmaDisconnect, connector,
       ContractState, InFlight, EstablishedOnce
  <2>4. QED
    BY <2>2, <2>3 DEF ContractStep, C!Next, C!Teardown
<1>27. ASSUME NEW w \in Watchers, ProcessWatch(w) PROVE ContractStep
BY <1>27 DEF ProcessWatch, TakeEvent, Front, Retire, Post, threads, aux,
       ContractStep, ContractState, InFlight, ValuesOK, ConnectState, C!Next,
       C!contract, C!Start, C!Establish, C!Close, C!Teardown, C!Abandon
<1>28. ASSUME CloseDeregister PROVE ContractStep
  <2>1. /\ discs' = discs /\ connect_state' = connect_state
        /\ life' = "closing" /\ life \in {"unopened", "open"}
    BY <1>28 DEF CloseDeregister, cmvars
  <2>2. CASE life = "open"
    BY <2>1, <2>2 DEF ContractStep, C!contract, ContractState
  <2>3. CASE life = "unopened"
    <3>1. connect_state \in {"idle", "closed"}
      BY <2>3 DEF OneShot, ValuesOK, ConnectState, InFlight
    <3>2. QED
BY <2>1, <2>3, <3>1 DEF ContractStep, C!contract, ContractState, InFlight,
         C!Next, C!Close
  <2>4. QED BY <2>1, <2>2, <2>3
<1>29. ASSUME DrainCmEvent PROVE ContractStep
  <2>1. /\ life = "closing" /\ events # <<>> /\ events \in Seq(Event)
        /\ UNCHANGED <<life, connect_state>>
    BY <1>29 DEF DrainCmEvent, connector, ValuesOK
  <2>2. ContractState' = ContractState
    BY <2>1 DEF ContractState
  <2>3. CASE Head(events) # "ESTABLISHED"
    BY <1>29, <2>2, <2>3 DEF DrainCmEvent, ContractStep, C!contract
  <2>4. CASE Head(events) = "ESTABLISHED"
    <3>1. cm \in PostEst /\ consumed = "none" /\ discs = 0
      BY <2>1, <2>4 DEF EstablishedOnce, TeardownHasCause
    <3>2. connect_state \in {"connecting", "closed"}
      BY <3>1 DEF EstablishedOnce, StageAgrees, TeardownHasCause
    <3>3. ContractState \in {"inflight", "closed"} /\ discs' = 1
      BY <1>29, <2>1, <2>4, <3>1, <3>2 DEF DrainCmEvent, RdmaDisconnect,
         ContractState, InFlight
    <3>4. QED
      BY <2>2, <3>1, <3>3 DEF ContractStep, C!Next, C!Teardown, C!Abandon
  <2>5. QED BY <2>3, <2>4
<1>30. ASSUME CloseDestroy PROVE ContractStep
BY <1>30 DEF CloseDestroy, opvars, reactor, threads, ContractStep,
       ContractState, InFlight, ValuesOK, ConnectState, C!Next, C!contract,
       C!Start, C!Establish, C!Close, C!Teardown, C!Abandon
<1>31. ASSUME CmAnswer PROVE ContractStep
BY <1>31 DEF CmAnswer, Report, connector, opvars, threads, aux, ContractStep,
       ContractState, InFlight, ValuesOK, ConnectState, C!Next, C!contract,
       C!Start, C!Establish, C!Close, C!Teardown, C!Abandon
<1>32. ASSUME PeerDisconnect PROVE ContractStep
BY <1>32 DEF PeerDisconnect, Report, connector, opvars, threads, aux,
       ContractStep, ContractState, InFlight, ValuesOK, ConnectState, C!Next,
       C!contract, C!Start, C!Establish, C!Close, C!Teardown, C!Abandon
<1>33. ASSUME CmExtra PROVE ContractStep
BY <1>33 DEF CmExtra, connector, opvars, threads, ContractStep, ContractState,
       InFlight, ValuesOK, ConnectState, C!Next, C!contract, C!Start,
       C!Establish, C!Close, C!Teardown, C!Abandon
<1>34. CASE UNCHANGED vars
BY <1>34 DEF vars, connector, opvars, reactor, threads, cmvars, aux,
       ContractStep, ContractState, InFlight, ValuesOK, ConnectState, C!Next,
       C!contract, C!Start, C!Establish, C!Close, C!Teardown, C!Abandon
<1>35. QED
BY <1>1, <1>2, <1>3, <1>4, <1>5, <1>6, <1>7, <1>8, <1>9, <1>10, <1>11, <1>12,
       <1>13, <1>14, <1>15, <1>16, <1>17, <1>18, <1>19, <1>20, <1>21, <1>22,
       <1>23, <1>24, <1>25, <1>26, <1>27, <1>28, <1>29, <1>30, <1>31, <1>32,
       <1>33, <1>34 DEF Next, Initiate, Disconnect, Perform, Close

(* The queue invariant alone is inductive over the types: an operation is  *)
(* in the reactor queue exactly while armed, so it completes exactly once.  *)
THEOREM QueueIsConsistent == Spec => []QueueConsistent
<1>1. Init => ValuesOK /\ QueueConsistent
  BY InitInv DEF IndInv, TypeOK
<1>2. ValuesOK /\ QueueConsistent /\ [Next]_vars => (ValuesOK /\ QueueConsistent)'
  BY ValuesStep, QueueStep
<1>3. QED
  BY <1>1, <1>2, PTL DEF Spec

(* The inductive invariant holds in every reachable state. *)
THEOREM IndInvariant == Spec => []IndInv
<1>1. IndInv /\ [Next]_vars => IndInv'
  <2> SUFFICES ASSUME IndInv, [Next]_vars PROVE IndInv'
    OBVIOUS
  <2>1. /\ FlagsOK /\ ValuesOK /\ QueueConsistent
        /\ OneShot /\ StageAgrees /\ PerformAgrees /\ ConnectedWasWon
        /\ EstablishedOnce /\ TeardownHasCause /\ EstablishedAccounted
    BY DEF IndInv, TypeOK
  <2>2. FlagsOK' /\ ValuesOK' /\ QueueConsistent'
    BY <2>1, FlagsStep, ValuesStep, QueueStep
  <2>3. OneShot' /\ StageAgrees' /\ PerformAgrees' /\ ConnectedWasWon'
    BY <2>1, OneShotStep, StageStep, PerformStep, ConnectedStep
  <2>4. EstablishedOnce' /\ TeardownHasCause' /\ EstablishedAccounted'
    BY <2>1, EstablishedStep, TeardownStep, AccountedStep
  <2>5. QED
    BY <2>2, <2>3, <2>4 DEF IndInv, TypeOK
<1>2. QED
  BY InitInv, <1>1, PTL DEF Spec

(* "Whoever acts second performs the one rdma_disconnect": between the CAS *)
(* of disconnect() and the CAS of the operation that takes ESTABLISHED, a  *)
(* closed connection has exactly one actor that owes the teardown, or has  *)
(* been torn down once.                                                    *)
THEOREM TeardownAccounted == Spec => []EstablishedAccounted
<1>1. IndInv => EstablishedAccounted
  BY DEF IndInv
<1>2. QED
  BY <1>1, IndInvariant, PTL

(* rdma_disconnect is called at most once, for any number of threads in    *)
(* disconnect(), operations and a racing destructor.                       *)
THEOREM TeardownOnce == Spec => []OneTeardown
<1>1. IndInv => OneTeardown
  BY DEF IndInv, TypeOK, ValuesOK, EstablishedAccounted, TeardownHasCause,
     OneTeardown
<1>2. QED
  BY <1>1, IndInvariant, PTL

(* rdma_disconnect is never called on a cm_id that was never connected:    *)
(* neither by disconnect(), nor by the operation, nor by the drain.        *)
THEOREM TeardownWasUp == Spec => TeardownOnlyEstablished
<1>1. IndInv /\ [Next]_vars => [CalledWhenUp]_vars
  BY TeardownWitness DEF IndInv, TypeOK
<1>2. QED
  BY <1>1, IndInvariant, PTL DEF Spec, TeardownOnlyEstablished, CalledWhenUp

(* A live connection is left only through a disconnect() call: the abort   *)
(* store of do_complete, claim_closed and a failed accept never hit it.    *)
THEOREM LiveLeftByDisconnect == Spec => ConnectedLeftByDisconnect
<1>1. IndInv /\ [Next]_vars => [ClaimedByThread]_vars
  BY LeftWitness DEF IndInv, TypeOK
<1>2. QED
  BY <1>1, IndInvariant, PTL
     DEF Spec, ConnectedLeftByDisconnect, ClaimedByThread

(* An opened connector that is closed stays closed. *)
THEOREM ClosedStaysClosed == Spec => ClosedIsTerminal
<1>1. TypeOK /\ [Next]_vars => [StaysClosed]_vars
  BY ClosedStays DEF TypeOK
<1>2. QED
  BY <1>1, TypeCorrect, PTL DEF Spec, ClosedIsTerminal, StaysClosed

(* Once the handler of an aborted connect or accept has run, the connector *)
(* is closed.                                                              *)
THEOREM AbortTerminates == Spec => []AbortedIsTerminal
<1>1. Init => AbortedIsTerminal
  BY DEF Init, AbortedIsTerminal, Ops
<1>2. IndInv /\ AbortedIsTerminal /\ [Next]_vars => AbortedIsTerminal'
  BY AbortedStep DEF IndInv, TypeOK
<1>3. QED
  BY <1>1, <1>2, IndInvariant, PTL DEF Spec

(* A connector closed after its connection came up is destroyed only after *)
(* its one rdma_disconnect, whether the operation, a disconnect() or the     *)
(* drain of the destructor took ESTABLISHED: the destructor runs when nobody *)
(* is left who could still owe the teardown.                                 *)
THEOREM DestroyIsGraceful == Spec => []NoAbruptDestroy
<1>1. Init => ClosingIsQuiet
  BY DEF Init, ClosingIsQuiet
<1>2. IndInv /\ ClosingIsQuiet /\ [Next]_vars => ClosingIsQuiet'
  BY QuietStep DEF IndInv, TypeOK
<1>3. ASSUME IndInv, ClosingIsQuiet PROVE NoAbruptDestroy
  <2> SUFFICES ASSUME life = "destroyed", connect_state = "closed",
                      consumed \in {"op", "drain"}
               PROVE  discs = 1
    BY DEF NoAbruptDestroy
  <2>1. CASE consumed = "drain"
    BY <1>3, <2>1 DEF IndInv, TeardownHasCause
  <2>2. CASE consumed = "op"
    <3>1. rpc # "teardown" /\ DutyThreads = {}
      BY <1>3 DEF ClosingIsQuiet, DutyThreads
    <3>2. QED
      BY <1>3, <2>2, <3>1 DEF IndInv, EstablishedAccounted, OneOwes
  <2>3. QED BY <2>1, <2>2
<1>4. QED
  BY <1>1, <1>2, <1>3, IndInvariant, PTL DEF Spec

(* The connector implements the teardown contract: its user sees a single-use *)
(* connector whose close is final and whose teardown happens at most once.    *)
THEOREM ImplementsContract == Spec => MeetsContract
<1>1. Init => C!Init
  BY DEF Init, C!Init, ContractState
<1>2. IndInv /\ [Next]_vars => [C!Next]_(C!contract)
  BY RefineStep DEF IndInv, TypeOK, ContractStep
<1>3. QED
  BY <1>1, <1>2, IndInvariant, PTL DEF Spec, MeetsContract, C!Spec

=============================================================================
