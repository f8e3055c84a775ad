--------------------------- MODULE ServiceObjects ---------------------------
(***************************************************************************)
(* The I/O objects (connectors and listeners) of a program and the         *)
(* services that keep them: the intrusive list of implementations of       *)
(* ibv_service_base and nd_service_base, and construct, move_construct,    *)
(* move_assign, destroy, open and shutdown of the services built on them.  *)
(*                                                                         *)
(* An implementation_type is known by its address.  Every list operation   *)
(* runs under the mutex of its service, so it is one step.                 *)
(*                                                                         *)
(* Abstracted: the native handle (cm_id and channel, or IND2 object and    *)
(* overlapped file) is one value, which has been used once its connect or  *)
(* accept was issued or it was disconnected; connect_state_ is idle or     *)
(* not; a failing open() releases what it made and leaves the object as it *)
(* was.  Objects are moved with no operation in flight.                    *)
(***************************************************************************)
EXTENDS Naturals, FiniteSets

CONSTANTS
  Impls,      \* addresses an implementation_type can be at
  Services,   \* one service for each io_context
  Natives,    \* native handles
  Null,       \* the null pointer
  CrossMove   \* may an object be move-assigned across io_contexts?

ASSUME NullAssumption == Null \notin Impls \cup Services \cup Natives
ASSUME FiniteAssumption == IsFiniteSet(Impls)
ASSUME CrossMoveAssumption == CrossMove \in BOOLEAN

VARIABLES
  backend,  \* "ibv" or "nd"
  svc,      \* io_object_impl::service_, Null where no object is
  down,     \* services that were shut down
  links,    \* impl_list_ of each service, next_ and prev_ of each address
  native,   \* the handle an implementation holds
  state,    \* connect_state_: "idle" or "used"
  handle    \* "none", "fresh", "used", "closed": the handle itself

vars == <<backend, svc, down, links, native, state, handle>>

Init ==
  /\ backend \in {"ibv", "nd"}
  /\ svc = [i \in Impls |-> Null]
  /\ down = {}
  /\ links = [head |-> [s \in Services |-> Null],
              next |-> [i \in Impls |-> Null],
              prev |-> [i \in Impls |-> Null]]
  /\ native = [i \in Impls |-> Null]
  /\ state = [i \in Impls |-> "idle"]
  /\ handle = [n \in Natives |-> "none"]
-----------------------------------------------------------------------------
(* The list. *)

\* do_insert: at the front.
DoInsert(l, s, i) ==
  LET h == l.head[s] IN
  [head |-> [l.head EXCEPT ![s] = i],
   next |-> [l.next EXCEPT ![i] = h],
   prev |-> [x \in Impls |-> CASE x = h -> i
                               [] x = i -> Null
                               [] OTHER -> l.prev[x]]]

\* Seeded fault: the successor keeps its link to the removed element.
DoRemoveForward(l, s, i) ==
  [head |-> [l.head EXCEPT ![s] = IF @ = i THEN l.next[i] ELSE @],
   next |-> [x \in Impls |-> CASE x = i -> Null
                               [] x = l.prev[i] -> l.next[i]
                               [] OTHER -> l.next[x]],
   prev |-> [l.prev EXCEPT ![i] = Null]]

\* do_remove: only the head of the service it is called on is looked at.
DoRemove(l, s, i) ==
  [head |-> [l.head EXCEPT ![s] = IF @ = i THEN l.next[i] ELSE @],
   next |-> [x \in Impls |-> CASE x = i -> Null
                               [] x = l.prev[i] -> l.next[i]
                               [] OTHER -> l.next[x]],
   prev |-> [x \in Impls |-> CASE x = i -> Null
                               [] x = l.next[i] -> l.prev[i]
                               [] OTHER -> l.prev[x]]]

\* The addresses base_shutdown visits: impl_list_ and then next_ after next_.
\* The last place is Null unless the links form a cycle.
Walk(s) ==
  LET at[k \in 0..Cardinality(Impls)] ==
        IF k = 0 THEN links.head[s]
        ELSE IF at[k - 1] = Null THEN Null ELSE links.next[at[k - 1]]
  IN at

Listed(s) == {i \in Impls : \E k \in 0..Cardinality(Impls) : Walk(s)[k] = i}
-----------------------------------------------------------------------------
(* The services. *)

Live(i) == svc[i] # Null /\ svc[i] \notin down

\* The handles these implementations hold are closed.
Closing(is) ==
  [n \in Natives |-> IF \E i \in is : native[i] = n THEN "closed" ELSE handle[n]]

Construct(i, s) ==
  /\ svc[i] = Null /\ s \notin down
  /\ svc' = [svc EXCEPT ![i] = s]
  /\ links' = DoInsert(links, s, i)
  /\ native' = [native EXCEPT ![i] = Null]
  /\ state' = [state EXCEPT ![i] = "idle"]
  /\ UNCHANGED <<backend, down, handle>>

\* The handle leaves j for i; what i held was closed before.
HandOver(i, j) == [native EXCEPT ![i] = native[j], ![j] = Null]

\* Seeded fault: the new object starts in the state of a constructed one.
CarryStateIdle(i, j) == [state EXCEPT ![i] = "idle"]

\* connect_state_ is copied; the source keeps its own.
CarryState(i, j) == [state EXCEPT ![i] = state[j]]

\* move_construct: the object is new at i, and j stays an object; also after
\* shutdown, by the handlers that own objects.
MoveConstruct(i, j) ==
  /\ svc[i] = Null /\ svc[j] # Null
  /\ svc' = [svc EXCEPT ![i] = svc[j]]
  /\ links' = DoInsert(links, svc[j], i)
  /\ native' = HandOver(i, j)
  /\ state' = CarryState(i, j)
  /\ UNCHANGED <<backend, down, handle>>

\* move_assign runs on the service of i, whatever the service of j; then
\* io_object_impl (external) makes the service of j that of i.  ibv leaves i
\* in its list, nd takes it out and puts it at the front.
MoveAssign(i, j) ==
  /\ i # j /\ svc[i] # Null /\ svc[j] # Null
  /\ svc[i] = svc[j] \/ CrossMove
  /\ handle' = Closing({i})
  /\ links' = IF backend = "ibv" THEN links
              ELSE DoInsert(DoRemove(links, svc[i], i), svc[i], i)
  /\ native' = HandOver(i, j)
  /\ state' = CarryState(i, j)
  /\ svc' = [svc EXCEPT ![i] = svc[j]]
  /\ UNCHANGED <<backend, down>>

\* destroy closes the handle and unlinks the object; also after shutdown,
\* when the io_context destroys the handlers that own objects.
Destroy(i) ==
  /\ svc[i] # Null
  /\ handle' = Closing({i})
  /\ links' = DoRemove(links, svc[i], i)
  /\ native' = [native EXCEPT ![i] = Null]
  /\ svc' = [svc EXCEPT ![i] = Null]
  /\ UNCHANGED <<backend, down, state>>

\* open() and assign() of the ibv connector, and assign() of the nd one, store
\* idle; open() of the nd connector leaves the state as it is.
Open(i, n) ==
  /\ Live(i)
  /\ native[i] = Null
  /\ handle[n] = "none"
  /\ handle' = [handle EXCEPT ![n] = "fresh"]
  /\ native' = [native EXCEPT ![i] = n]
  /\ \/ state' = [state EXCEPT ![i] = "idle"]
     \/ backend = "nd" /\ UNCHANGED state
  /\ UNCHANGED <<backend, svc, down, links>>

\* A connect, an accept or a disconnect(): only a connector that is idle
\* passes the guard of the first two.
Use(i) ==
  /\ Live(i)
  /\ native[i] # Null
  /\ state[i] = "idle"
  /\ state' = [state EXCEPT ![i] = "used"]
  /\ handle' = [handle EXCEPT ![native[i]] = "used"]
  /\ UNCHANGED <<backend, svc, down, links, native>>

\* Seeded fault: shutdown stops at the first element.
VisitedFirst(s) == {i \in Impls : links.head[s] = i}

Visited(s) == Listed(s)

\* shutdown closes the handle of every object in the list.
Shutdown(s) ==
  /\ s \notin down
  /\ down' = down \cup {s}
  /\ handle' = Closing(Visited(s))
  /\ native' = [i \in Impls |-> IF i \in Visited(s) THEN Null ELSE native[i]]
  /\ UNCHANGED <<backend, svc, links, state>>

Next ==
  \/ \E i \in Impls, s \in Services : Construct(i, s)
  \/ \E i, j \in Impls : MoveConstruct(i, j) \/ MoveAssign(i, j)
  \/ \E i \in Impls : Destroy(i) \/ Use(i)
  \/ \E i \in Impls, n \in Natives : Open(i, n)
  \/ \E s \in Services : Shutdown(s)

Spec == Init /\ [][Next]_vars
-----------------------------------------------------------------------------
(* Properties. *)

\* Every variable keeps its type, and only an object holds a handle.
TypeOK ==
  /\ backend \in {"ibv", "nd"}
  /\ svc \in [Impls -> Services \cup {Null}]
  /\ down \subseteq Services
  /\ links \in [head : [Services -> Impls \cup {Null}],
                next : [Impls -> Impls \cup {Null}],
                prev : [Impls -> Impls \cup {Null}]]
  /\ native \in [Impls -> Natives \cup {Null}]
  /\ state \in [Impls -> {"idle", "used"}]
  /\ handle \in [Natives -> {"none", "fresh", "used", "closed"}]
  /\ \A i \in Impls : svc[i] = Null => native[i] = Null

\* The list of a service is "an intrusive list of live implementations": it
\* holds the objects of that service and no other, each once, and every prev_
\* undoes a next_, whatever was constructed, moved and destroyed in between.
ListsAreExact ==
  \A s \in Services :
    /\ Walk(s)[Cardinality(Impls)] = Null
    /\ Listed(s) = {i \in Impls : svc[i] = s}
    /\ \A i \in Listed(s) :
         links.prev[i] = IF links.head[s] = i THEN Null
                         ELSE CHOOSE p \in Listed(s) : links.next[p] = i

\* A native handle that is open has exactly one object, one that is closed has
\* none: nothing is leaked by a move onto an open object or by destroy, and
\* nothing is held twice.
HeldOnce ==
  \A n \in Natives :
    LET holders == {i \in Impls : native[i] = n} IN
    /\ handle[n] \in {"fresh", "used"} => \E i \in holders : holders = {i}
    /\ handle[n] \in {"none", "closed"} => holders = {}

\* Every open native handle has exactly one object, and that object is of a
\* service that is up: shutdown reaches every object of its service, so that
\* the handlers destroyed after it find nothing to close.
OneHolder ==
  HeldOnce /\ \A i \in Impls : svc[i] \in down => native[i] = Null

\* connect_state_ follows the handle through moves: a handle that was used is
\* never in a connector that counts as fresh (connectors are one-shot), and on
\* ibv a fresh handle is never in one that counts as used.
StateFollowsHandle ==
  \A i \in Impls : native[i] # Null =>
    /\ handle[native[i]] = "used" => state[i] = "used"
    /\ backend = "ibv" /\ handle[native[i]] = "fresh" => state[i] = "idle"

\* The same on both backends, which nd is to mirror: a connector that is
\* opened may be connected.  Refuted on nd, where open() of an object that was
\* moved from leaves the state of the connection it gave away.
OpenIsFresh ==
  \A i \in Impls :
    native[i] # Null /\ handle[native[i]] = "fresh" => state[i] = "idle"
=============================================================================
