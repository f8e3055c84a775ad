----------------------- MODULE IbvConnectorRefinement -----------------------
(***************************************************************************)
(* The ibv connector implements TeardownContract.                          *)
(***************************************************************************)
EXTENDS IbvConnector

\* The refinement mapping.  Until open() or assign() has returned, the user
\* has no connector to start or close yet.
ContractState ==
  IF life \in {"unopened", "opening"} \/ connect_state = "idle" THEN "fresh"
  ELSE IF connect_state \in InFlight THEN "inflight"
  ELSE IF connect_state = "connected" THEN "live"
  ELSE "closed"

C == INSTANCE TeardownContract WITH state <- ContractState, torn <- discs

\* Every behaviour of the ibv connector is a behaviour of the contract: no
\* race between disconnect(), the operation, cancellation and the destructor
\* shows the user more than start, establish, one close and one teardown.
MeetsContract == C!Spec
=============================================================================
