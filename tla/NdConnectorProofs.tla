------------------------- MODULE NdConnectorProofs --------------------------
(***************************************************************************)
(* The native Disconnect of an nd connector is issued at most once, and a  *)
(* watcher is aborted only by whom it should be, for any number of         *)
(* threads, operations and watchers.                                       *)
(***************************************************************************)
EXTENDS NdConnector, TLAPS

(* Types. *)
LEMMA InitTypes == Init => TypeOK
<1> SUFFICES ASSUME Init PROVE TypeOK
  OBVIOUS
<1>1. /\ life \in {"unopened", "open", "destroyed"} \cup Opening
      /\ connect_state \in ConnectState
      /\ peer_closed \in BOOLEAN /\ stale \in BOOLEAN
  BY DEF Init, ConnectState, Opening
<1>2. /\ phase \in [Ops -> Phase] /\ ec \in [Ops -> Code]
      /\ \A w \in Watchers : phase[w] = "done" => ec[w] # "ok"
      /\ slot \in [Ops -> {"none", "due", "armed", "fired"}]
      /\ stage \in [ConnOps -> {"none", "connecting", "connected", "accept"}]
  BY DEF Init, Phase, Code, Ops
<1>3. /\ pc \in [Threads -> {"idle", "latch", "cancel", "native"}]
      /\ old \in [Threads -> ConnectState]
      /\ nd \in {"none", "connecting", "answered", "completing", "up",
                 "disconnecting", "down", "failed", "gone"}
      /\ discs \in Nat
  BY DEF Init, ConnectState
<1> QED BY <1>1, <1>2, <1>3 DEF TypeOK

(* Every step keeps the types. *)
LEMMA TypeStep == TypeOK /\ [Next]_vars => TypeOK'
<1> SUFFICES ASSUME TypeOK, [Next]_vars PROVE TypeOK'
  OBVIOUS
<1> USE OpsDisjoint DEF TypeOK, Ops, Phase, Code, ConnectState, Opening
<1>1. ASSUME Open PROVE TypeOK'
  BY <1>1 DEF Open, Publish, connector, opvars, threads
<1>2. ASSUME Destroy PROVE TypeOK'
  BY <1>2 DEF Destroy, connector, opvars, threads
<1>3. ASSUME NEW o \in ConnOps, RejectConnect(o) PROVE TypeOK'
  BY <1>3 DEF RejectConnect, CanInitiate, Queue, connector, opvars, threads
<1>4. ASSUME NEW o \in ConnOps, RejectAccept(o) PROVE TypeOK'
  BY <1>4 DEF RejectAccept, CanInitiate, Queue, connector, opvars, threads
<1>5. ASSUME NEW o \in ConnOps, NEW how \in {"connecting", "accept"}, Start(o, how)
      PROVE  TypeOK'
  BY <1>5 DEF Start, CanInitiate, connector, opvars, threads
<1>6. ASSUME NEW o \in ConnOps, StartCas(o) PROVE TypeOK'
  BY <1>6 DEF StartCas, Queue, connector, opvars, threads
<1>7. ASSUME NEW o \in ConnOps, StartCall(o) PROVE TypeOK'
  BY <1>7 DEF StartCall, Queue, connector, opvars, threads
<1>8. ASSUME NEW o \in ConnOps, Finish(o) PROVE TypeOK'
  BY <1>8 DEF Finish, Queue, connector, opvars, threads
<1>9. ASSUME NEW o \in ConnOps, CompleteConnect(o) PROVE TypeOK'
  BY <1>9 DEF CompleteConnect, StoreState, Finished, connector, opvars,
     threads
<1>10. ASSUME NEW o \in ConnOps, CompleteConnectReleased(o) PROVE TypeOK'
  BY <1>10 DEF CompleteConnectReleased, Finished, connector, opvars, threads
<1>11. ASSUME NEW o \in ConnOps, MarkConnected(o) PROVE TypeOK'
  <2>1. /\ phase' = [phase EXCEPT ![o] = "done"]
        /\ \E c \in {"ok", "aborted"} : ec' = [ec EXCEPT ![o] = c]
        /\ connect_state' \in {connect_state, "connected", "closed"}
        /\ stale' \in {stale, TRUE}
    BY <1>11 DEF MarkConnected, StoreState, Finished
  <2>2. o \in Ops /\ o \notin Watchers
    OBVIOUS
  <2>3. /\ phase' \in [Ops -> Phase] /\ ec' \in [Ops -> Code]
        /\ \A w \in Watchers : phase'[w] = phase[w] /\ ec'[w] = ec[w]
    BY <2>1, <2>2
  <2>4. connect_state' \in ConnectState /\ stale' \in BOOLEAN
    BY <2>1
  <2>5. UNCHANGED <<life, peer_closed, stage, slot, pc, old, nd, discs>>
    BY <1>11 DEF MarkConnected, threads
  <2> QED
    BY <2>3, <2>4, <2>5
<1>12. ASSUME NEW o \in ConnOps, FailCompletion(o) PROVE TypeOK'
  BY <1>12 DEF FailCompletion, StoreState, Finished, connector, opvars,
     threads
<1>13. ASSUME NEW o \in ConnOps, AcceptCompletion(o) PROVE TypeOK'
  BY <1>13 DEF AcceptCompletion, StoreState, Finished, connector, opvars,
     threads
<1>14. ASSUME NEW w \in Watchers, AsyncWaitDisconnect(w) PROVE TypeOK'
  BY <1>14 DEF AsyncWaitDisconnect, CanInitiate, Queue, connector, opvars,
     threads
<1>15. ASSUME NEW w \in Watchers, NotifyDisconnect(w) PROVE TypeOK'
  BY <1>15 DEF NotifyDisconnect, Queue, connector, opvars, threads
<1>16. ASSUME NEW w \in Watchers, FinishNotify(w) PROVE TypeOK'
  BY <1>16 DEF FinishNotify, Queue, connector, opvars, threads
<1>17. ASSUME NEW w \in Watchers, WatchCompletion(w) PROVE TypeOK'
  BY <1>17 DEF WatchCompletion, Finished, connector, opvars, threads
<1>18. ASSUME NEW o \in Ops, ArmSlot(o) PROVE TypeOK'
  BY <1>18 DEF ArmSlot, connector, opvars, threads
<1>19. ASSUME NEW o \in Ops, FireSlot(o) PROVE TypeOK'
  BY <1>19 DEF FireSlot, CancelIoEx, connector, opvars, threads
<1>20. ASSUME NEW t \in Threads, DisconnectClaim(t) PROVE TypeOK'
  BY <1>20 DEF DisconnectClaim, Published, AfterClaim, connector, opvars, threads
<1>21. ASSUME NEW t \in Threads, DisconnectLatch(t) PROVE TypeOK'
  BY <1>21 DEF DisconnectLatch, connector, opvars, threads
<1>22. ASSUME NEW t \in Threads, DisconnectCancel(t) PROVE TypeOK'
  BY <1>22 DEF DisconnectCancel, CancelIoEx, AfterCancel, connector, opvars,
     threads
<1>23. ASSUME NEW t \in Threads, DisconnectNative(t) PROVE TypeOK'
  BY <1>23 DEF DisconnectNative, connector, opvars, threads
<1>24. ASSUME PeerDisconnect PROVE TypeOK'
  BY <1>24 DEF PeerDisconnect, connector, opvars, threads
<1>25. ASSUME DisconnectCompletes PROVE TypeOK'
  BY <1>25 DEF DisconnectCompletes, connector, opvars, threads
<1>26. CASE UNCHANGED vars
  BY <1>26 DEF vars, connector, opvars, threads
<1>27. ASSUME Register PROVE TypeOK'
  BY <1>27 DEF Register, connector, opvars, threads
<1>28. ASSUME Assign PROVE TypeOK'
  BY <1>28 DEF Assign, Publish, connector, opvars, threads
<1>29. ASSUME AssignIdle PROVE TypeOK'
  BY <1>29 DEF AssignIdle, connector, opvars, threads
<1>30. ASSUME AssignReset PROVE TypeOK'
  BY <1>30 DEF AssignReset, connector, opvars, threads
<1> HIDE DEF TypeOK, Phase, Code, ConnectState
<1> QED
  BY <1>1, <1>2, <1>3, <1>4, <1>5, <1>6, <1>7, <1>8, <1>9, <1>10, <1>11,
     <1>12, <1>13, <1>14, <1>15, <1>16, <1>17, <1>18, <1>19, <1>20, <1>21,
     <1>22, <1>23, <1>24, <1>25, <1>26, <1>27, <1>28, <1>29, <1>30 DEF Next, Initiate, ConnCompletion,
     Disconnect

\* Every variable of the connector keeps its type, and no watcher finishes
\* with success.
THEOREM NdTypeCorrect == Spec => []TypeOK
BY InitTypes, TypeStep, PTL DEF Spec
-----------------------------------------------------------------------------
(* Before the connector is open. *)

\* Until open() or assign() has returned, whatever an operation or a thread
\* does is over at once: operations are refused, and a disconnect() that got
\* past its guard found idle.  So the stores of assign() undo nothing else.
QuietBeforeOpen ==
  life \notin {"open", "destroyed"} =>
    /\ connect_state \in {"idle", "closed"}
    /\ \A t \in Threads : pc[t] # "idle" => pc[t] = "latch" /\ old[t] = "idle"
    /\ \A o \in Ops : /\ phase[o] \in {"none", "queued", "done"}
                      /\ phase[o] # "none" => ec[o] \in {"rejected", "disconnected"}
    /\ discs = 0

QuietInv == TypeOK /\ QuietBeforeOpen

LEMMA InitQuiet == Init => QuietInv
BY InitTypes DEF Init, QuietInv, QuietBeforeOpen

(* Every step keeps it. *)
LEMMA QuietStep == QuietInv /\ [Next]_vars => QuietInv'
<1> SUFFICES ASSUME TypeOK, QuietBeforeOpen, [Next]_vars
             PROVE  QuietBeforeOpen'
  BY TypeStep DEF QuietInv
<1> DEFINE Goal == QuietBeforeOpen'
<1> USE OpsDisjoint DEF TypeOK, Ops, Phase, Code, ConnectState, Opening,
        QuietBeforeOpen
<1>1. ASSUME Open PROVE Goal
  BY <1>1 DEF Open, Publish, connector, opvars, threads
<1>2. ASSUME Destroy PROVE Goal
  BY <1>2 DEF Destroy, connector, opvars, threads
<1>3. ASSUME NEW o \in ConnOps, RejectConnect(o) PROVE Goal
  BY <1>3 DEF RejectConnect, CanInitiate, Queue, connector, opvars, threads
<1>4. ASSUME NEW o \in ConnOps, RejectAccept(o) PROVE Goal
  BY <1>4 DEF RejectAccept, CanInitiate, Queue, connector, opvars, threads
<1>5. ASSUME NEW o \in ConnOps, NEW how \in {"connecting", "accept"}, Start(o, how)
      PROVE  Goal
  BY <1>5 DEF Start, CanInitiate, connector, opvars, threads
<1>6. ASSUME NEW o \in ConnOps, StartCas(o) PROVE Goal
  <2>1. life \in {"open", "destroyed"}
    BY <1>6 DEF StartCas
  <2>2. life' = life
    BY <1>6 DEF StartCas, connector
  <2> QED BY <2>1, <2>2
<1>7. ASSUME NEW o \in ConnOps, StartCall(o) PROVE Goal
  <2>1. life \in {"open", "destroyed"}
    BY <1>7 DEF StartCall
  <2>2. life' = life
    BY <1>7 DEF StartCall, connector
  <2> QED BY <2>1, <2>2
<1>8. ASSUME NEW o \in ConnOps, Finish(o) PROVE Goal
  <2>1. life \in {"open", "destroyed"}
    BY <1>8 DEF Finish
  <2>2. life' = life
    BY <1>8 DEF Finish, connector
  <2> QED BY <2>1, <2>2
<1>9. ASSUME NEW o \in ConnOps, CompleteConnect(o) PROVE Goal
  BY <1>9 DEF CompleteConnect, StoreState, Finished, connector, opvars,
     threads
<1>10. ASSUME NEW o \in ConnOps, CompleteConnectReleased(o) PROVE Goal
  BY <1>10 DEF CompleteConnectReleased, Finished, connector, opvars, threads
<1>11. ASSUME NEW o \in ConnOps, MarkConnected(o) PROVE Goal
  <2>1. life \in {"open", "destroyed"}
    BY <1>11 DEF MarkConnected
  <2>2. life' = life
    BY <1>11 DEF MarkConnected, connector
  <2> QED BY <2>1, <2>2
<1>12. ASSUME NEW o \in ConnOps, FailCompletion(o) PROVE Goal
  BY <1>12 DEF FailCompletion, StoreState, Finished, connector, opvars,
     threads
<1>13. ASSUME NEW o \in ConnOps, AcceptCompletion(o) PROVE Goal
  BY <1>13 DEF AcceptCompletion, StoreState, Finished, connector, opvars,
     threads
<1>14. ASSUME NEW w \in Watchers, AsyncWaitDisconnect(w) PROVE Goal
  <2>1. UNCHANGED <<life, connect_state, peer_closed, pc, old, discs>>
    BY <1>14 DEF AsyncWaitDisconnect, connector, threads
  <2>2. CASE life \in {"open", "destroyed"}
    BY <2>1, <2>2
  <2>3. CASE life = "unopened"
    <3>1. \E c \in {"rejected", "disconnected"} :
            /\ phase' = [phase EXCEPT ![w] = "queued"]
            /\ ec' = [ec EXCEPT ![w] = c]
      BY <1>14, <2>3 DEF AsyncWaitDisconnect, Queue
    <3> QED BY <2>1, <2>3, <3>1
  <2>4. life \notin Opening
    BY <1>14 DEF AsyncWaitDisconnect, CanInitiate, Initiating
  <2> QED BY <2>2, <2>3, <2>4
<1>15. ASSUME NEW w \in Watchers, NotifyDisconnect(w) PROVE Goal
  <2>1. life \in {"open", "destroyed"}
    BY <1>15 DEF NotifyDisconnect
  <2>2. life' = life
    BY <1>15 DEF NotifyDisconnect, connector
  <2> QED BY <2>1, <2>2
<1>16. ASSUME NEW w \in Watchers, FinishNotify(w) PROVE Goal
  <2>1. life \in {"open", "destroyed"}
    BY <1>16 DEF FinishNotify
  <2>2. life' = life
    BY <1>16 DEF FinishNotify, connector
  <2> QED BY <2>1, <2>2
<1>17. ASSUME NEW w \in Watchers, WatchCompletion(w) PROVE Goal
  BY <1>17 DEF WatchCompletion, Finished, connector, opvars, threads
<1>18. ASSUME NEW o \in Ops, ArmSlot(o) PROVE Goal
  BY <1>18 DEF ArmSlot, connector, opvars, threads
<1>19. ASSUME NEW o \in Ops, FireSlot(o) PROVE Goal
  BY <1>19 DEF FireSlot, CancelIoEx, connector, opvars, threads
<1>20. ASSUME NEW t \in Threads, DisconnectClaim(t) PROVE Goal
  BY <1>20 DEF DisconnectClaim, Published, AfterClaim, connector, opvars, threads
<1>21. ASSUME NEW t \in Threads, DisconnectLatch(t) PROVE Goal
  BY <1>21 DEF DisconnectLatch, connector, opvars, threads
<1>22. ASSUME NEW t \in Threads, DisconnectCancel(t) PROVE Goal
  BY <1>22 DEF DisconnectCancel, CancelIoEx, AfterCancel, connector, opvars,
     threads
<1>23. ASSUME NEW t \in Threads, DisconnectNative(t) PROVE Goal
  BY <1>23 DEF DisconnectNative, connector, opvars, threads
<1>24. ASSUME PeerDisconnect PROVE Goal
  BY <1>24 DEF PeerDisconnect, connector, opvars, threads
<1>25. ASSUME DisconnectCompletes PROVE Goal
  BY <1>25 DEF DisconnectCompletes, connector, opvars, threads
<1>26. CASE UNCHANGED vars
  BY <1>26 DEF vars, connector, opvars, threads
<1>27. ASSUME Register PROVE Goal
  BY <1>27 DEF Register, connector, opvars, threads
<1>28. ASSUME Assign PROVE Goal
  BY <1>28 DEF Assign, Publish, connector, opvars, threads
<1>29. ASSUME AssignIdle PROVE Goal
  BY <1>29 DEF AssignIdle, connector, opvars, threads
<1>30. ASSUME AssignReset PROVE Goal
  BY <1>30 DEF AssignReset, connector, opvars, threads
<1> HIDE DEF TypeOK, Phase, Code, ConnectState, Opening, QuietBeforeOpen
<1> QED
  BY <1>1, <1>2, <1>3, <1>4, <1>5, <1>6, <1>7, <1>8, <1>9, <1>10, <1>11,
     <1>12, <1>13, <1>14, <1>15, <1>16, <1>17, <1>18, <1>19, <1>20, <1>21,
     <1>22, <1>23, <1>24, <1>25, <1>26, <1>27, <1>28, <1>29, <1>30 DEF Next, Initiate, ConnCompletion,
     Disconnect
-----------------------------------------------------------------------------
(* At most one Disconnect. *)

\* An operation that won the compare-exchange of StartCas and may still store
\* connected.
MayConnect(o) ==
  \/ phase[o] \in {"call", "pending", "mark"}
  \/ phase[o] = "queued" /\ ec[o] = "ok"

\* A thread inside disconnect() that found connected and has yet to issue the
\* native Disconnect.
Owes(t) == pc[t] # "idle" /\ old[t] = "connected"

\* Only one operation ever wins: nothing stores idle again.
OneWinner ==
  /\ \A o, p \in ConnOps : MayConnect(o) /\ MayConnect(p) => o = p
  /\ connect_state = "idle" => \A o \in ConnOps : ~MayConnect(o)

\* The right to disconnect is in one place: with the operation that may still
\* store connected, in the state, with one thread, or spent.
OneRight ==
  /\ \A o \in ConnOps : MayConnect(o) =>
       /\ connect_state # "connected"
       /\ discs = 0
       /\ \A t \in Threads : ~Owes(t)
  /\ connect_state \in {"idle", "connected"} =>
       discs = 0 /\ \A t \in Threads : ~Owes(t)
  /\ \A t \in Threads : pc[t] = "native" => Owes(t)
  /\ \A t \in Threads : Owes(t) => discs = 0
  /\ \A t, u \in Threads : Owes(t) /\ Owes(u) => t = u
  /\ discs <= 1

DisconnectInv == QuietInv /\ OneWinner /\ OneRight

LEMMA InitDisconnect == Init => DisconnectInv
BY InitQuiet DEF Init, DisconnectInv, OneWinner, OneRight, MayConnect, Owes, Ops

(* Every step keeps it: the right moves on, or is given up. *)
LEMMA DisconnectStep == DisconnectInv /\ [Next]_vars => DisconnectInv'
<1> SUFFICES ASSUME TypeOK, QuietBeforeOpen, OneWinner, OneRight, [Next]_vars
             PROVE  OneWinner' /\ OneRight'
  BY QuietStep DEF DisconnectInv, QuietInv
<1> DEFINE Goal == OneWinner' /\ OneRight'
<1> USE OpsDisjoint DEF TypeOK, Ops, Phase, Code, ConnectState, OneWinner,
        OneRight, MayConnect, Owes
<1>1. ASSUME Open PROVE Goal
  BY <1>1 DEF Open, Publish, connector, opvars, threads
<1>2. ASSUME Destroy PROVE Goal
  BY <1>2 DEF Destroy, connector, opvars, threads
<1>3. ASSUME NEW o \in ConnOps, RejectConnect(o) PROVE Goal
  BY <1>3 DEF RejectConnect, CanInitiate, Queue, connector, opvars, threads
<1>4. ASSUME NEW o \in ConnOps, RejectAccept(o) PROVE Goal
  BY <1>4 DEF RejectAccept, CanInitiate, Queue, connector, opvars, threads
<1>5. ASSUME NEW o \in ConnOps, NEW how \in {"connecting", "accept"}, Start(o, how)
      PROVE  Goal
  BY <1>5 DEF Start, CanInitiate, connector, opvars, threads
<1>6. ASSUME NEW o \in ConnOps, StartCas(o) PROVE Goal
  BY <1>6 DEF StartCas, Queue, connector, opvars, threads
<1>7. ASSUME NEW o \in ConnOps, StartCall(o) PROVE Goal
  BY <1>7 DEF StartCall, Queue, connector, opvars, threads
<1>8. ASSUME NEW o \in ConnOps, Finish(o) PROVE Goal
  BY <1>8 DEF Finish, Queue, connector, opvars, threads
<1>9. ASSUME NEW o \in ConnOps, CompleteConnect(o) PROVE Goal
  BY <1>9 DEF CompleteConnect, StoreState, Finished, connector, opvars,
     threads
<1>10. ASSUME NEW o \in ConnOps, CompleteConnectReleased(o) PROVE Goal
  BY <1>10 DEF CompleteConnectReleased, Finished, connector, opvars, threads
<1>11. ASSUME NEW o \in ConnOps, MarkConnected(o) PROVE Goal
  BY <1>11 DEF MarkConnected, StoreState, Finished, connector, opvars, threads
<1>12. ASSUME NEW o \in ConnOps, FailCompletion(o) PROVE Goal
  BY <1>12 DEF FailCompletion, StoreState, Finished, connector, opvars,
     threads
<1>13. ASSUME NEW o \in ConnOps, AcceptCompletion(o) PROVE Goal
  BY <1>13 DEF AcceptCompletion, StoreState, Finished, connector, opvars,
     threads
<1>14. ASSUME NEW w \in Watchers, AsyncWaitDisconnect(w) PROVE Goal
  BY <1>14 DEF AsyncWaitDisconnect, CanInitiate, Queue, connector, opvars,
     threads
<1>15. ASSUME NEW w \in Watchers, NotifyDisconnect(w) PROVE Goal
  BY <1>15 DEF NotifyDisconnect, Queue, connector, opvars, threads
<1>16. ASSUME NEW w \in Watchers, FinishNotify(w) PROVE Goal
  BY <1>16 DEF FinishNotify, Queue, connector, opvars, threads
<1>17. ASSUME NEW w \in Watchers, WatchCompletion(w) PROVE Goal
  BY <1>17 DEF WatchCompletion, Finished, connector, opvars, threads
<1>18. ASSUME NEW o \in Ops, ArmSlot(o) PROVE Goal
  BY <1>18 DEF ArmSlot, connector, opvars, threads
<1>19. ASSUME NEW o \in Ops, FireSlot(o) PROVE Goal
  BY <1>19 DEF FireSlot, CancelIoEx, connector, opvars, threads
<1>20. ASSUME NEW t \in Threads, DisconnectClaim(t) PROVE Goal
  BY <1>20 DEF DisconnectClaim, Published, AfterClaim, connector, opvars, threads
<1>21. ASSUME NEW t \in Threads, DisconnectLatch(t) PROVE Goal
  BY <1>21 DEF DisconnectLatch, connector, opvars, threads
<1>22. ASSUME NEW t \in Threads, DisconnectCancel(t) PROVE Goal
  BY <1>22 DEF DisconnectCancel, CancelIoEx, AfterCancel, connector, opvars,
     threads
<1>23. ASSUME NEW t \in Threads, DisconnectNative(t) PROVE Goal
  <2>1. /\ pc[t] = "native" /\ discs' = discs + 1
        /\ pc' = [pc EXCEPT ![t] = "idle"]
        /\ UNCHANGED <<life, connect_state, peer_closed, phase, ec, old>>
    BY <1>23 DEF DisconnectNative, connector, opvars
  <2>2. Owes(t)
    BY <2>1
  <2> QED
    BY <2>1, <2>2
<1>24. ASSUME PeerDisconnect PROVE Goal
  BY <1>24 DEF PeerDisconnect, connector, opvars, threads
<1>25. ASSUME DisconnectCompletes PROVE Goal
  BY <1>25 DEF DisconnectCompletes, connector, opvars, threads
<1>26. CASE UNCHANGED vars
  BY <1>26 DEF vars, connector, opvars, threads
<1>27. ASSUME Register PROVE Goal
  BY <1>27 DEF Register, connector, opvars, threads
<1>28. ASSUME Assign PROVE Goal
  BY <1>28 DEF Assign, Publish, connector, opvars, threads
<1>29. ASSUME AssignIdle PROVE Goal
  <2>1. /\ connect_state' = "idle"
        /\ UNCHANGED <<phase, ec, pc, old, discs>>
    BY <1>29 DEF AssignIdle, opvars, threads
  <2>2. /\ discs = 0
        /\ \A t \in Threads : pc[t] # "idle" => pc[t] = "latch" /\ old[t] = "idle"
        /\ \A o \in Ops : /\ phase[o] \in {"none", "queued", "done"}
                          /\ phase[o] # "none" => ec[o] \in {"rejected", "disconnected"}
    BY <1>29 DEF AssignIdle, QuietBeforeOpen
  <2>3. \A o \in ConnOps : ~MayConnect(o)
    BY <2>2
  <2>4. \A t \in Threads : ~Owes(t) /\ pc[t] # "native"
    BY <2>2
  <2>5. /\ \A o \in ConnOps : ~MayConnect(o)'
        /\ \A t \in Threads : ~Owes(t)' /\ pc'[t] # "native"
    BY <2>1, <2>3, <2>4
  <2> HIDE DEF MayConnect, Owes
  <2>6. OneWinner'
    BY <2>5
  <2>7. OneRight'
    BY <2>1, <2>2, <2>5
  <2> QED BY <2>6, <2>7
<1>30. ASSUME AssignReset PROVE Goal
  BY <1>30 DEF AssignReset, QuietBeforeOpen, connector, opvars, threads
<1> HIDE DEF TypeOK, Phase, Code, ConnectState, OneWinner, OneRight,
         MayConnect, Owes
<1> QED
  BY <1>1, <1>2, <1>3, <1>4, <1>5, <1>6, <1>7, <1>8, <1>9, <1>10, <1>11,
     <1>12, <1>13, <1>14, <1>15, <1>16, <1>17, <1>18, <1>19, <1>20, <1>21,
     <1>22, <1>23, <1>24, <1>25, <1>26, <1>27, <1>28, <1>29, <1>30 DEF Next, Initiate, ConnCompletion,
     Disconnect

\* However many threads call disconnect() and however the stores of operations
\* interleave with them: IND2Connector::Disconnect is called at most once.
THEOREM DisconnectOnce == Spec => []OneDisconnect
<1>1. DisconnectInv => OneDisconnect
  BY DEF DisconnectInv, OneRight, OneDisconnect
<1> QED
  BY InitDisconnect, DisconnectStep, <1>1, PTL DEF Spec
-----------------------------------------------------------------------------
(* Aborted watchers. *)

\* A thread that cancels has latched peer_closed_.  The result of a watcher
\* that was cancelled is queued with its cause: its slot, the destructor, or
\* disconnect(), whose latch the completion will find.
LatchedFirst == \A t \in Threads : pc[t] = "cancel" => peer_closed
AbortHasCause ==
  \A w \in Watchers :
    phase[w] \in {"queued", "done"} /\ ec[w] = "aborted" =>
      \/ slot[w] = "fired" \/ life = "destroyed"
      \/ phase[w] = "queued" /\ peer_closed

WatchInv == QuietInv /\ LatchedFirst /\ AbortHasCause

LEMMA InitWatch == Init => WatchInv
BY InitQuiet DEF Init, WatchInv, LatchedFirst, AbortHasCause, Ops

(* Every step keeps it. *)
LEMMA WatchStep == WatchInv /\ [Next]_vars => WatchInv'
<1> SUFFICES ASSUME TypeOK, QuietBeforeOpen, LatchedFirst, AbortHasCause,
                    [Next]_vars
             PROVE  LatchedFirst' /\ AbortHasCause'
  BY QuietStep DEF WatchInv, QuietInv
<1> DEFINE Goal == LatchedFirst' /\ AbortHasCause'
<1> USE OpsDisjoint DEF TypeOK, Ops, Phase, Code, LatchedFirst, AbortHasCause
<1>1. ASSUME Open PROVE Goal
  BY <1>1 DEF Open, Publish, connector, opvars, threads
<1>2. ASSUME Destroy PROVE Goal
  BY <1>2 DEF Destroy, connector, opvars, threads
<1>3. ASSUME NEW o \in ConnOps, RejectConnect(o) PROVE Goal
  BY <1>3 DEF RejectConnect, CanInitiate, Queue, connector, opvars, threads
<1>4. ASSUME NEW o \in ConnOps, RejectAccept(o) PROVE Goal
  BY <1>4 DEF RejectAccept, CanInitiate, Queue, connector, opvars, threads
<1>5. ASSUME NEW o \in ConnOps, NEW how \in {"connecting", "accept"}, Start(o, how)
      PROVE  Goal
  BY <1>5 DEF Start, CanInitiate, connector, opvars, threads
<1>6. ASSUME NEW o \in ConnOps, StartCas(o) PROVE Goal
  BY <1>6 DEF StartCas, Queue, connector, opvars, threads
<1>7. ASSUME NEW o \in ConnOps, StartCall(o) PROVE Goal
  BY <1>7 DEF StartCall, Queue, connector, opvars, threads
<1>8. ASSUME NEW o \in ConnOps, Finish(o) PROVE Goal
  BY <1>8 DEF Finish, Queue, connector, opvars, threads
<1>9. ASSUME NEW o \in ConnOps, CompleteConnect(o) PROVE Goal
  BY <1>9 DEF CompleteConnect, StoreState, Finished, connector, opvars,
     threads
<1>10. ASSUME NEW o \in ConnOps, CompleteConnectReleased(o) PROVE Goal
  BY <1>10 DEF CompleteConnectReleased, Finished, connector, opvars, threads
<1>11. ASSUME NEW o \in ConnOps, MarkConnected(o) PROVE Goal
  BY <1>11 DEF MarkConnected, StoreState, Finished, connector, opvars, threads
<1>12. ASSUME NEW o \in ConnOps, FailCompletion(o) PROVE Goal
  BY <1>12 DEF FailCompletion, StoreState, Finished, connector, opvars,
     threads
<1>13. ASSUME NEW o \in ConnOps, AcceptCompletion(o) PROVE Goal
  BY <1>13 DEF AcceptCompletion, StoreState, Finished, connector, opvars,
     threads
<1>14. ASSUME NEW w \in Watchers, AsyncWaitDisconnect(w) PROVE Goal
  BY <1>14 DEF AsyncWaitDisconnect, CanInitiate, Queue, connector, opvars,
     threads
<1>15. ASSUME NEW w \in Watchers, NotifyDisconnect(w) PROVE Goal
  BY <1>15 DEF NotifyDisconnect, Queue, connector, opvars, threads
<1>16. ASSUME NEW w \in Watchers, FinishNotify(w) PROVE Goal
  BY <1>16 DEF FinishNotify, Queue, connector, opvars, threads
<1>17. ASSUME NEW w \in Watchers, WatchCompletion(w) PROVE Goal
  BY <1>17 DEF WatchCompletion, Finished, connector, opvars, threads
<1>18. ASSUME NEW o \in Ops, ArmSlot(o) PROVE Goal
  BY <1>18 DEF ArmSlot, connector, opvars, threads
<1>19. ASSUME NEW o \in Ops, FireSlot(o) PROVE Goal
  BY <1>19 DEF FireSlot, CancelIoEx, connector, opvars, threads
<1>20. ASSUME NEW t \in Threads, DisconnectClaim(t) PROVE Goal
  BY <1>20 DEF DisconnectClaim, Published, AfterClaim, connector, opvars, threads
<1>21. ASSUME NEW t \in Threads, DisconnectLatch(t) PROVE Goal
  BY <1>21 DEF DisconnectLatch, connector, opvars, threads
<1>22. ASSUME NEW t \in Threads, DisconnectCancel(t) PROVE Goal
  BY <1>22 DEF DisconnectCancel, CancelIoEx, AfterCancel, connector, opvars,
     threads
<1>23. ASSUME NEW t \in Threads, DisconnectNative(t) PROVE Goal
  BY <1>23 DEF DisconnectNative, connector, opvars, threads
<1>24. ASSUME PeerDisconnect PROVE Goal
  BY <1>24 DEF PeerDisconnect, connector, opvars, threads
<1>25. ASSUME DisconnectCompletes PROVE Goal
  BY <1>25 DEF DisconnectCompletes, connector, opvars, threads
<1>26. CASE UNCHANGED vars
  BY <1>26 DEF vars, connector, opvars, threads
<1>27. ASSUME Register PROVE Goal
  BY <1>27 DEF Register, connector, opvars, threads
<1>28. ASSUME Assign PROVE Goal
  BY <1>28 DEF Assign, Publish, connector, opvars, threads
<1>29. ASSUME AssignIdle PROVE Goal
  BY <1>29 DEF AssignIdle, QuietBeforeOpen, connector, opvars, threads
<1>30. ASSUME AssignReset PROVE Goal
  BY <1>30 DEF AssignReset, QuietBeforeOpen, connector, opvars, threads
<1> HIDE DEF TypeOK, Phase, Code, LatchedFirst, AbortHasCause
<1> QED
  BY <1>1, <1>2, <1>3, <1>4, <1>5, <1>6, <1>7, <1>8, <1>9, <1>10, <1>11,
     <1>12, <1>13, <1>14, <1>15, <1>16, <1>17, <1>18, <1>19, <1>20, <1>21,
     <1>22, <1>23, <1>24, <1>25, <1>26, <1>27, <1>28, <1>29, <1>30 DEF Next, Initiate, ConnCompletion,
     Disconnect

\* A watcher hears operation_aborted only when its own slot was fired or the
\* connector was destroyed: one that disconnect() cancels finds peer_closed_
\* latched, and reports disconnected.
THEOREM WatcherAbortIsOwn == Spec => []AbortedWatcherWasCancelled
<1>1. WatchInv => AbortedWatcherWasCancelled
  BY DEF WatchInv, AbortHasCause, AbortedWatcherWasCancelled
<1> QED
  BY InitWatch, WatchStep, <1>1, PTL DEF Spec
=============================================================================
