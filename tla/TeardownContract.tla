-------------------------- MODULE TeardownContract --------------------------
(***************************************************************************)
(* What a connector promises its user, whatever the backend (README,       *)
(* "Cancellation"): it is single-use; disconnect() may be called at any    *)
(* moment and is final; a connection that came up is torn down at most     *)
(* once, and only after the connector was closed.                          *)
(***************************************************************************)
EXTENDS Naturals

VARIABLES
  state,    \* what the user can tell of the connector
  torn      \* teardowns of the native connection

contract == <<state, torn>>

Init == state = "fresh" /\ torn = 0

\* async_connect / async_accept got past its guards.
Start == state = "fresh" /\ state' = "inflight" /\ UNCHANGED torn

\* The connection came up and nobody had disconnected.
Establish == state = "inflight" /\ state' = "live" /\ UNCHANGED torn

\* disconnect(), a failure or a cancellation: final.
Close == state # "closed" /\ state' = "closed" /\ UNCHANGED torn

\* The one teardown of the native connection.
Teardown == state = "closed" /\ torn = 0 /\ torn' = 1 /\ UNCHANGED state

\* A destructor that meets an unprocessed ESTABLISHED tears down a connector
\* that was never closed explicitly.
Abandon == state = "inflight" /\ torn = 0 /\ torn' = 1 /\ UNCHANGED state

Next == Start \/ Establish \/ Close \/ Teardown \/ Abandon

Spec == Init /\ [][Next]_contract
=============================================================================
