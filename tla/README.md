# A verification project for rdma_on_asio

`rdma_on_asio` adds RDMA objects (connector, listener, queue pair, completion
queue) to asio, with one backend for Linux (`ibv`: rdma_cm and verbs on the
epoll reactor) and one for Windows (`nd`: NetworkDirect 2 on an I/O completion
port). This directory holds TLA+ models of the parts whose correctness depends
on the order of events, the TLC configurations that check them on small
instances, and TLAPS proofs for instances of any size: about both connectors,
all three completion services, the listener, queue pairs, the scatter/gather
list with the memory regions its buffers come from, the lifetime of objects and
their native handles, and device discovery and registration. Every safety
property that a run checks and that holds is also a theorem.
Paths below are relative to `include/rdma/` unless they start with `docs/` or
`tests/`.

## Inventory

| Component | State | Operations | Interacts with | Hard because |
|---|---|---|---|---|
| ibv connector (`ibv/detail/ibv_service_connector.hpp`, `ibv_op_connect`, `ibv_op_accept`, `ibv_op_wait_disconnect`) | cm_id, event channel, atomic `connect_state_`, atomic `peer_closed_` | open, assign, async_connect, async_accept, async_wait_disconnect, disconnect, destroy, per-operation cancellation | epoll reactor (edge-triggered, one operation queue per descriptor), rdma_cm (events), any user thread | disconnect() from any thread races ESTABLISHED; exactly one of the two has to call rdma_disconnect; a cancelled operation, a queued completion and the destructor come late |
| nd connector (`nd/detail/nd_service_connector.hpp`, `nd_op_*`) | IND2Connector, overlapped handle, `connect_state_`, `peer_closed_` | the same | IOCP, ND2 provider, CancelIoEx | completions carry the stages; stores instead of compare-exchange in places; CancelIoEx by operation address |
| ibv event completion (`ibv/detail/ibv_service_io_completion.*`) | shared CQ, completion channel, one self-rearming poller | ensure_poller_started, arm, poll, dispatch, shutdown | HCA, reactor, queue pairs on any thread | the race between the last poll and the request for notification; batch limits; failures of native calls; throwing handlers |
| nd event completion (`nd/detail/nd_service_io_completion.*`) | CQ, one poller as an OVERLAPPED | the same over Notify | NIC, IOCP | never polls after arming; failing Notify |
| poll-mode completion queue (`ibv/ibv_completion_queue.hpp`, `ibv/impl/ibv_completion_queue.ipp`, `nd/impl/nd_completion_queue.ipp`) | CQ, `wc_buf_`, `ready_` | poll, poll_one, push_ready | user thread, handlers run inside poll | handlers that poll, post or throw while a batch is half dispatched |
| verbs operations (`detail/rdma_verbs_op.hpp`, `rdma_op_*.hpp`, `*_service_verbs.hpp`) | error code, byte count | do_post_*, resolve, do_complete | both completion modes | the count is recorded before the post can fail |
| scatter/gather list (`detail/small_sglist.hpp`, `ibv/ibv_buffer.hpp`) | inline array, heap block, size | reserve, resize, append, build_native_sglist | do_post_* | reuse after a spill; 32-bit length arithmetic |
| listener (`ibv/detail/ibv_service_listener.hpp`, `ibv_op_get_connection_request.hpp`, `nd/detail/nd_service_listener.hpp`, `nd_op_get_connection_request.hpp`, `*_listener.hpp`) | listening id or IND2Listener, channel or file, endpoint | open, bind, listen, cancel, move, destroy, async_get_connection into a new connector or one of the caller's | reactor or IOCP, rdma_cm or provider, connector | an incoming request changes owner over several native calls that may fail, and again in the handler adapter; the connector to fill may be in use |
| queue pair objects (`ibv/ibv_queue_pair.hpp`, `nd/nd_queue_pair.hpp`, the create_qp path of `*_connector.hpp` and `*_service_verbs.hpp`) | completion queue, native queue pair | construct, bind, move, destroy; connect, accept and move-accept with it | connector (owner on ibv, borrower on nd), completion services | on ibv a callback fills in an object at an address captured earlier; on nd the object may go while the connector borrows from it |
| object lifetime (`*_service_base.hpp`, the services of connectors and listeners) | intrusive list of implementations, the native handle and state of each | construct, move_construct, move_assign, destroy, open, shutdown | io_context shutdown | moves relink and hand over in several places; shutdown finds objects only through the list |
| memory regions (`detail/mr_range.hpp`, `rdma_buffer.hpp`, `*_mr.hpp`) | registration, address, length | slice by offset and by address, remote_addr, buffer() | scatter/gather list | unsigned arithmetic at the ends of the region and of the address space; a region that was moved away keeps address and length |
| devices (`nd/detail/impl/nd_device_impl.ipp`, `ibv/detail/impl/ibv_device_impl.ipp`, `*_config_derive.ipp`, `*_use_device.ipp`, `*_service_device.hpp`) | devices with their addresses, the registered device and configuration of an io_context | discovery, get_first_available_device, use_device, shutdown | native enumeration, completion services | lazy pipelines that repeat native calls whose answers may change; grouping after an unstable sort; use_device failing half-way |
| native wrappers, error categories | | | | see "Not modelled" |

## Modules

Order of work, most important behaviour first; the last column says what a
module's state and actions stand for.

| Module | Models | State and actions |
|---|---|---|
| `IbvConnector` | ibv connector | `connect_state`, `peer_closed`: the atomics. `rq`, `rpc`, `edge`: the reactor's queue for the descriptor, what `perform_io` is executing, and the pending edge. `events`, `cm`: the channel and the connection as rdma_cm sees it. `phase`, `stage`, `ec` per operation; `pc`, `old` per thread inside disconnect(). One action per atomic step: each CAS, each native call and each reactor callback is a step of its own, so that every thread may run in between. |
| `TeardownContract` | what a connector promises | fresh, in flight, live, closed; one teardown of a live connection |
| `IbvConnectorRefinement` | the refinement mapping | `ContractState` |
| `IbvConnectorProofs` | the theorems | |
| `NdConnector` | nd connector | the same shape; `phase` is where the OVERLAPPED is, `slot` the cancellation slot, `nd` the native connection; open() and assign() are a step per store, so that disconnect() may come in between |
| `NdConnectorProofs` | the theorems about it | |
| `VerbsOps` | code and byte count of a data-plane operation | operators shared by the three modules below |
| `IbvCompletion` | ibv event mode | `ppc`: where the poller is; `cq`, `notify`, `chan`, `edge`: the CQ, its armed flag, the channel and epoll |
| `IbvCompletionProofs` | the theorems about it | |
| `NdCompletion` | nd event mode | the same with `pending` for the outstanding Notify |
| `NdCompletionProofs` | the theorems about it | |
| `PollCq` | poll mode | `frames`: the stack of poll()/poll_one() calls in progress, `wc_buf`, `ready`; nd is the same without the failing native poll |
| `MemoryRegion` | ranges and slices of a region | operators over words of `SizeMod` values, with the wrapping subtraction and addition of the code |
| `SmallSglist` | the list and the builder, on slices of a region | `inline`, `heap`, `data`, `size`; one build is several steps; `region` may be moved away between them |
| `DataPlaneProofs` | the theorems about the list, the regions and poll mode | |
| `ListenerService` | what the listeners share | `child`, `holder`, `conn`: who owns an incoming request, or how it was lost; `Deliver`: the adapters that put it in a connector and run the handler |
| `IbvListener`, `NdListener` | the machinery of a backend | ibv: `events`, `edge`, `rq` as in `IbvConnector`. nd: the provider matches requests with waiting operations; a completion travels through the IOCP |
| `Listener` | a listener of either backend | composes the two |
| `ListenerProofs` | the theorems about it | |
| `QueuePair` | queue pair objects | `qp`: the object in each variable or operation, `cm_qp`: the queue pair of a connector, `native`: whether it is live; an operation is resolving, started, posted, done |
| `QueuePairProofs` | the theorems about it | |
| `ServiceObjects` | lists, handles and states of I/O objects | `links`: head, next and prev pointers; `svc`, `native`, `state`: the object at each address |
| `DeviceService` | what both backends share of device registration | `build`: the backend; `device`, `effective`, `cq`, `cq_handle`: the two services of an io_context; `call`, `ec`: the use_device in progress and the result of the last one; `Retry`: the constructor that threw runs again |
| `NdDevice`, `IbvDevice` | discovery, selection and use_device of a backend | `pc` is where the constructor of the device manager is; one action per native enumeration, per element the pipeline tests and per element it stores, and later which of the native calls of initialize() is next, each with its roll-back |
| `DeviceSetup` | a program's start on either backend | composes the two |
| `ServicesProofs` | the theorems about `ServiceObjects` and `DeviceSetup` | |
| `MC*` | the instances TLC checks | symmetry sets |

Definitions named after a C++ function model it; the comment over a definition
says which part. The operators called "Seeded fault" are plausible bugs that no
specification uses; each shows that a property can fail.

The epoll reactor, rdma_cm, the HCA, the IOCP and the ND2 provider are not in
this repository. They are modelled from how the code uses them: an
edge-triggered descriptor whose readiness is consumed by one `perform_io`,
which runs the queue front to back until an operation is not done;
`cancel_ops` that moves the whole queue to the scheduler; events and
completions that appear at any moment.

## Runs

| Run | Instance | Shows |
|---|---|---|
| `ibv_connector_safety` | 2 threads, 2 connect/accept operations, 1 watcher, 1 stray event, 1 native failure; threads and operations symmetric | `EstablishedAccounted`, `OneTeardown`: whoever acts second tears the connection down, once (that it came up before is theorem `TeardownWasUp`). `ClosedIsTerminal`, `ConnectedLeftByDisconnect`, `AbortedIsTerminal`: no late store revives or clobbers. `NoAbruptDestroy`: the destructor's drain finds an ESTABLISHED nobody saw. `IndInv`: the invariant of the proof. `MeetsContract`: the refinement. |
| `ibv_connector_live` | 1 thread, 1 operation, 1 watcher, no stray event, 1 failure | `ClosedOpCompletes`, `WatcherNotified` |
| `nd_connector_teardown` | 2 threads, 2 operations, 1 watcher; a native Disconnect is pending, done at once or fails | `OneDisconnect`, `AbortedWatcherWasCancelled`, `ClosedOpCompletes`. `WatcherNotified`: a watcher that a disconnect() cancels, or whose connection ends, hears of it; after a failing Disconnect the connection stays up and the watcher rightly waits on |
| `nd_connector_revive` (violation) | 1 thread, 1 operation, 1 watcher | `ClosedIsTerminal` fails for accept |
| `ibv_event` | 2 operations, 2 queue pairs, batches of 1, 2 batches a turn, one of each failure | `ReapedInOrder`, `WaitingIsWoken`, `PostedCompletes` |
| `nd_event` | the same | `ReapedInOrder`, `PostedCompletes` |
| `poll_cq` | 2 operations, batch 2, calls nested to depth 2, one throw, one failing poll | `CompletedOnce`, `NothingStranded`, `PostedCompletes` |
| `sglist_build` | inline count 2, sequences up to 5 slices of a region of 5 bytes at address 1, two builds with reserve and resize around them; slices by offset and by address inside the region, at its ends, past them and wrapping around, before and after the region is moved away | `InBounds`. `VerdictIsRight`: the error code against a reference over the whole sequence, and that of the single-buffer path. `FreshListHoldsBuffers`: a list that had not allocated holds the buffers in order. `PostedInRegion`: nothing is posted that is not memory of the region |
| `listener` | both backends, 2 operations of either form, 2 clients, 1 connector of the caller, 1 other event, 1 move, 1 failing channel creation, 1 other native failure | `OneOwner`: a request has one owner at every step of its hand-over. `HandlersAccount`: the handlers told of success and the connectors with a request match one to one, and each request lost after it left the queue (released, refused by assign(), or leaked when its channel cannot be made) has an operation of its own that reports an error. `RequestIsTaken`, `DestroyedOpsComplete`: liveness |
| `service_objects` | both backends, 4 addresses, 2 io_contexts, 3 native handles, moves within an io_context, also after its shutdown | `ListsAreExact`: the lists hold exactly the live objects. `OneHolder`: an open handle has one object, of a service that is up. `StateFollowsHandle`: a used handle never is in a connector that counts as fresh |
| `queue_pair` | both backends, 2 queue pairs, 2 connectors, 2 operations, 3 native queue pairs; symmetric (860 thousand states) | `OneOwner`: a live native queue pair has one owner. `PendingHasItsQp`: an operation in flight has its queue pair. `HandlerGetsReadyQp`: success means the handler can post, an error that it is given an empty object |
| `device_setup` | 2 adapters, 6 addresses (both families, one of another family, one too long), lists of up to 3, 2 protocols, configuration values 0 to 2 | `OneDevicePerAdapter`: the grouping against a reference, whatever order. `AddressesAreOwn`, `SelectionIsUsable`. `RegistrationIsWhole`: wherever use_device fails, its roll-backs leave neither CQ nor channel, and no later call is refused on their account |

### Bounds

Every bound is a constant. `MaxBatches` is 4 in the code and 2 here, with a
batch of 1: two completions already reach the limit, which is the only thing
the code tests. `InlineCount` is 8 in the code and 2 here; five buffers spill
and then double. The 32-bit length and `size_t` are `MaxOp = 3` and
`SizeMod = 8`: sums reach the limit, pass it by one and wrap. One failure of
each native call suffices for a property that has to survive it; two
operations and two threads suffice for a race (the proofs cover any number, of
both and of watchers, queue pairs, requests, buffers and batches). Three addresses of two adapters are the
shortest list whose groups an unsorted order splits; the values 0 to 2 are "not
set" and, for one of the two adapters or the other, below, at and above a capability. Four addresses and two
services give a list with a first, a middle and a last element and a second
list beside it; the region of five bytes in an address space of eight has
room below, above and for a range that wraps. Two connectors, two queue pairs
and two operations let each be swapped under the other. Stray CM events are bounded by `MaxExtra`. Type
invariants are stated with the properties of a module and left out of the listed
runs (`IndInv` contains that of `IbvConnector`); they hold on the same instances. Deadlock is not
checked: a system whose user has nothing left to do may stop.

### Fairness

`FairSpec` of a module asks only for what the code or its environment
guarantees: a thread inside a library function returns, the io_context is
being run (so queued completions, the reactor and the poller move), rdma_cm and
the provider answer every request, the hardware completes every posted
operation with success, error or flush. The nd provider completes a Disconnect
that it took; one that fails is not tried again, by the code or in the model. For the listener: an initiating call
returns, and the nd provider hands a queued request to an operation that waits
for it. Users are under no obligation: calls
to disconnect(), cancellation and destruction are unfair, except in `PollCq`,
whose promise is to a user who keeps calling poll(). A native failure is never
fair.

## Proofs

`IbvConnectorProofs` proves, for any sets of threads, operations and watchers
and any bounds on stray events and failures:

| Theorem | States |
|---|---|
| `TypeCorrect`, `QueueIsConsistent` | types; an operation is in the reactor queue exactly while armed, once |
| `IndInvariant` | `Spec => []IndInv` |
| `TeardownAccounted`, `TeardownOnce`, `TeardownWasUp` | the teardown is owed by exactly one actor, issued at most once, only after ESTABLISHED |
| `ClosedStaysClosed`, `LiveLeftByDisconnect`, `AbortTerminates` | no late store revives, clobbers or forgets |
| `DestroyIsGraceful` | a closed connector that came up is destroyed after its rdma_disconnect |
| `ImplementsContract` | `Spec => C!Spec`, the refinement of `TeardownContract` |

`EstablishedAccounted` is not inductive: that the compare-exchange of
`Arbitrate` settles the race relies on there being one started operation
(`OneShot`), on its stage agreeing with the state (`StageAgrees`,
`PerformAgrees`), on ESTABLISHED being reported and consumed once
(`EstablishedOnce`) and on every duty having a cause (`TeardownHasCause`);
`ConnectedWasWon` gives that an aborted operation never was the winner, which
is why its late store of `closed` is harmless. `IndInv` is their conjunction;
`TypeOK` is part of it, and
TLC checks it in `ibv_connector_safety`. The proof has a lemma per action and
one step per conjunct the action touches. `DestroyIsGraceful` adds
`ClosingIsQuiet`: once the destructor has deregistered the descriptor, nobody is
in `perform_io` or in disconnect(), so no actor is left that
`EstablishedAccounted` could name as owing the teardown. The assumptions are
that `ConnOps` and `Watchers` are disjoint (`OpsDisjoint`) and that the bounds
are naturals.

`NdConnectorProofs` proves, for any sets of threads, operations and watchers:

| Theorem | States |
|---|---|
| `NdTypeCorrect` | types |
| `DisconnectOnce` | `Spec => []OneDisconnect` |
| `WatcherAbortIsOwn` | `Spec => []AbortedWatcherWasCancelled` |

Accept and connect store `connected` where a compare-exchange would be needed to
keep `closed` (run `nd_connector_revive`), yet Disconnect is issued once. The
reason is `DisconnectInv`: one operation at most won the compare-exchange out of
`idle` (`OneWinner`), and the right to disconnect is in one place
(`OneRight`): with that operation while it may still store, in the state
`connected`, with the one thread that exchanged it for `closed`, or spent.
`WatchInv` says that a thread latches `peer_closed_` before it cancels and that
a cancelled result is queued together with its cause, so that a watcher finds
the latch when disconnect() was that cause. `QuietBeforeOpen` covers the window
in which `connector_` is set and open() or assign() has not returned: operations
are refused and a disconnect() finds `idle`, so the store of `idle` by assign()
cannot give the right to disconnect a second time. The only assumption is
`OpsDisjoint`.

`IbvCompletionProofs` and `NdCompletionProofs` prove, for any sets of operations
and queue pairs, any batch size and number of batches and any number of
failures and throwing handlers:

| Theorem | States |
|---|---|
| `IbvTypeCorrect`, `NdCompletionTypeCorrect` | types |
| `CompletionsInOrder`, `ResultsInOrder` | `Spec => []ReapedInOrder`: what was reported is what was dispatched, what is in the batch and what is on the CQ, in this order (nd: as long as no handler throws) |
| `NoLostWakeup` (ibv) | `Spec => []WaitingIsWoken` |
| `NotifyMissesNothing` (nd) | a poller that waits has a Notify outstanding and an empty CQ, if Notify reports what is there already (`Latched`) |
| `HandlersRunOnce`, `NdHandlersRunOnce` | no operation is dispatched twice, also where a handler throws in the middle of a batch |

`WaitingIsWoken` follows the notification from the request to epoll
(`WakeAhead`): while the poller polls again it is requested or on the channel,
when the poller is about to wait it is on the channel or requested with nothing
left on the CQ. That the poll after the request finds what came before it is
what makes this inductive. `DispatchedOnce` rests on the order and on
`ReportedOnce`, a completion that was reported is not posted any more. The
assumptions are `BatchAssumption`, `SizeAssumption` and `FaultAssumption`
(positive limits, natural bounds).

`ListenerProofs` proves, for both backends and any sets of operations, requests
and connectors:

| Theorem | States |
|---|---|
| `ListenerTypeCorrect` | types |
| `RequestsOwnedOnce` | `Spec => []OneOwner` |
| `HandlersAccountForRequests` | `Spec => []HandlersAccount` |

`OneOwner` counts owners; `ListenerInv` has it pointwise, per kind of owner
(`QueuedOnce`, `HeldOnce`, `TakenOnce`), and adds what a hand-over relies on: an
operation is queued exactly while it waits, once (`QueueAgrees`), a waiting
operation holds nothing and the connector of the return form does not exist
before its handler (`HandleAgrees`), the nd listener has no descriptor
(`BackendAgrees`), and a request without an owner lost its channel
(`LeakHasCause`). For `HandlersAccount` a request counts as gone as soon as the
operation that holds it has failed, before its handler adapter lets go of it
(`Gone`), and `Blamed` is the assignment of such requests to failed operations,
no two to one. An operation takes one request and fails once, which
`WaitingHasNoCode` gives: until then it has no code, so it answers for no other
request (`BlameStep`). Success needs assign(), which takes one request only, hence
`WinsAgree`. The assumptions are that requests, operations and connectors
are told apart from each other and from `None` and `Other`, and natural bounds.

`QueuePairProofs` proves, for both backends and any sets of queue pairs,
connectors, operations and native queue pairs:

| Theorem | States |
|---|---|
| `QpTypeCorrect` | types |
| `OwnedOnce` | `Spec => []OneOwner` |
| `InFlightHasItsQp` | `Spec => []PendingHasItsQp` |
| `SuccessMeansReady` | `Spec => HandlerGetsReadyQp` |

`OwnerInv` says who owns on which backend (`IbvOwners`, `NdOwners`), that no two
objects point at one native queue pair and none outlives it (`Objects`), that a
connector is given to one operation (`OneUser`), that only a move-accept brings
its own queue pair (`OpShape`), and that a queue pair given to two operations
does not count as left alone (`OneGiven`, `GivenHolds`). The theorem that
create_qp on ibv cannot replace a live queue pair comes from `OpShape`: while
the address is being resolved the connector has none. The assumptions are
`NoneAssumption` and `SlotAssumption` (names are distinct).

`ServicesProofs` proves, for any sets of addresses, services and native
handles (`ServiceObjects`):

| Theorem | States |
|---|---|
| `ServicesTypeCorrect` | types, and only an object holds a handle |
| `HandlesHeldOnce` | `Spec => []HeldOnce`: an open handle is held by exactly one object, a closed one by none |
| `StateGoesWithHandle` | `Spec => []StateFollowsHandle` |
| `ListsExact` | `Spec => []ListsAreExact`, if objects are moved within their io_context |
| `OneHolderEach` | `Spec => []OneHolder`, if objects are moved within their io_context |

`HeldOnce` needs that only objects hold a handle (else constructing one would
overwrite it) and is proved from its pointwise form, `HolderInv`;
`StateFollowsHandle` is inductive together with it. These hold also when objects
are moved across io_contexts. The lists are different: with `CrossMove = TRUE`
`ListsAreExact` is false (claims without a run, below), so the last two theorems
have the hypothesis `CrossMove = FALSE`.

`ListsAreExact` speaks of the walk that base_shutdown does, and no step of the
code does that walk except shutdown. `ListInv` therefore says what the list
operations keep, `WellLinked`: neighbours are linked both ways and are of one
service, the element without a predecessor is the head, and the elements can be
numbered so that the numbers fall along `next_` (no cycle). `InsertKeeps` and
`RemoveKeeps` show it of do_insert and do_remove, whatever list they are applied
to. From it follows by induction that the walk is the list: it stays in its
service (`WalkStays`), it ends within as many steps as there are addresses
(`WalkEnds`, by cardinality: it meets no element twice), and it reaches every
element (`WalkReaches`: of those it missed, the one numbered highest would have
a predecessor that was visited). `OneHolder` follows: shutdown closes what the walk visits, which is all
that the service has.

For any finite set of addresses, any adapters, capabilities and configurations,
and both backends (`DeviceSetup`):

| Theorem | States |
|---|---|
| `SetupInvariant` | `SetupSpec => []SetupInv` |
| `DevicesPerAdapter` | `SetupSpec => []OneDevicePerAdapter` |
| `AddressesOwn` | `SetupSpec => []AddressesAreOwn` |
| `SelectionUsable` | `SetupSpec => []SelectionIsUsable` |
| `RegistrationWhole` | `SetupSpec => []RegistrationIsWhole` |

The grouping is the lemma `ChunksAreGroups`: chunk_by compares neighbours only,
and gives each adapter one group with all its addresses because sort_by left
equal AdapterIds next to each other, in whatever order. `SetupInv` carries that
to the devices: what is left to group (`ChunkList`) is of adapters that the list
under construction does not have (`Ahead`, `Positions`), every entry of a list
is null or a device with an address of its own (`DeviceLists`), and an ibv
device found has no address yet (`FoundDevices`). Since a stored nd device comes
from a second evaluation of open_device, an entry may be null or differ from the
one tested; the theorems hold of what is stored. `SelectionUsable` needs of the
state only that the lists are such: a field that is not set passes the check of
the selection as 0 and that of use_device by its own disjunct, and they agree
because capabilities are naturals. `RegistrationWhole` rests on `Registration`,
which follows a use_device through initialize(): the handle or channel is there
after the first native call, the CQ after the second, both only until a later
call fails or the device is registered. The assumptions: an address has one
AdapterId, a natural (`AddrAssumption`), a field is of one kind and has a
positive default (`ConfigAssumption`), natural bounds.

`DataPlaneProofs` proves, for any width of `size_t` (`SizeMod`), any inline
capacity, any limit on entries and any sequence of buffers, builds, reserve()
and resize() (`MemoryRegion`, `SmallSglist`):

| Theorem | States |
|---|---|
| `ContainsIsExact`, `OffsetIsExact` | the comparisons of `mr_range.hpp`, which subtract in wrapping arithmetic, decide what the sums decide in unbounded arithmetic |
| `SliceIsInside` | a slice by offset is memory of a registered region or empty, and the memory asked for if the region contains it |
| `SliceAtIsInside` | a slice by address is exactly the memory asked for if the region is registered and contains it, and empty otherwise |
| `ListInBounds` | `Spec => []InBounds` |
| `FreshBuildIsFaithful` | `Spec => []FreshListHoldsBuffers` |
| `PostsOnlyTheRegion` | `Spec => []PostedInRegion` |
| `TotalNeverWraps` | every addition to the running total is exact and fits the length field |
| `SingleIsRight` | the path for one buffer agrees with the reference |
| `BuilderVerdictIsRight` | `Spec => []VerdictIsRight` |

`SglistInv` says that where `data_` points follows from the size and that the
heap block is as long as its capacity (`Storage`), that the list has one entry
per buffer taken (`Counted`), that a list that began without a heap block holds
this build's entries and has no block while it fits inline (`Fresh`), and that
every non-empty buffer of the sequence lies in the region as it is
(`FromRegion`). `Fresh` fails for a list that is reused after a spill, see
`ListHoldsBuffers` below. The assumptions are what registration gives, a region
that is not at address 0 and does not wrap around the address space
(`RegionAssumption`), that the length field is no wider than `size_t`
(`WidthAssumption`) and that the inputs are words and naturals.

`VerdictIsRight` compares what a loop with early exits decides with a reference
over the whole sequence. `Progress` says what the loop knows: it took a prefix
within the limit, its total is the sum of that prefix and fits, and the flag is
whether the sum is 0. `Verdict` is the property at the end; the lemmas about
`Sum` (it grows with the prefix, and is 0 exactly if every length is) are by
induction.

For the poll-mode completion queue (`PollCq`), any set of operations, any depth
of nested calls, any batch size and any number of throwing handlers and failing
polls:

| Theorem | States |
|---|---|
| `PollInvariant` | `PollSpec => []PollInv` |
| `PollTypeCorrect` | types |
| `PollCompletesOnce` | `PollSpec => []CompletedOnce` |
| `PollStrandsNothing` | `PollSpec => []NothingStranded` |

They assume `NestedPoll => Batch = 1`: handlers call poll_one() but not poll(),
or `wc_buf_` has one entry. Without it both properties are false (claims without
a run, below): the inner poll() overwrites the entries that the outer one has
yet to visit. With one entry the outer call has nothing left in the buffer when
its handler runs, and the proof shows that poll() inside poll() is then safe.
`PollInv` says that `wc_buf_` belongs to one call (`OneBatch`), that an
operation is in one place, once (`ReadyOnce`, `CqeOnce`), that this place agrees
with its phase (`PhaseAgrees`), how calls nest (`FramesNest`), and that the
handler ran exactly if the operation is done (`RunsCounted`).

Only model-checked:

* every liveness property (`ClosedOpCompletes`, `WatcherNotified`,
  `PostedCompletes`, `RequestIsTaken`, `DestroyedOpsComplete`): fairness and
  ENABLED are outside the prover.

Induction is done on sets of naturals: `LeastElement` and `SetInduction`, from
the library's `WFMin`, take a set and not an operator, which the provers can
instantiate. The models use recursive functions and no recursive operators, and
sort and group by what the result has to satisfy, so that every theorem is in
reach of them.

## Findings

The violation run states what a comment of the repository says.

* `nd_connector_revive`: accept stores `connected` where the comment says CAS.

Claims without a run. The modules also state the following as definitions that
no listed run checks; TLC refutes each on the smallest instance given, and the
checked properties state what does hold.

| Claim | Instance | What happens |
|---|---|---|
| `IbvConnector!DisconnectIsFinal` | 1 thread, 1 operation | open() stores `idle` after publishing the id; a disconnect() in between is forgotten (`ibv/detail/ibv_service_connector.hpp:145`) |
| `IbvConnector!WatcherNotified` with a stray event | 1 watcher, `MaxExtra = 1`, fair | the watcher takes one event per edge; one ahead of DISCONNECTED leaves it armed for ever (`ibv/detail/impl/ibv_op_wait_disconnect.ipp:40`) |
| `IbvConnector!WatcherNotified` with two watchers | 2 watchers, no stray event, fair | the first watcher takes the one DISCONNECTED, the second stays armed for ever (the same line) |
| `IbvConnector!NoDanglingStore` | 1 thread, 1 operation | an aborted operation's completion stores through a raw pointer into a destroyed connector (`ibv/detail/ibv_op_connect.hpp:156`) |
| `NoAbruptDestroy` without its exception | 1 watcher | a watcher swallows ESTABLISHED before the drain |
| `NdConnector!ConnectedLeftByDisconnect` | 2 operations | a rejected second connect stores `closed` over the live connection (`nd/detail/nd_op_connect.hpp:94`) |
| `NdConnector!RacedConnectTornDown` | 1 thread, 1 operation, fair | disconnect() between Connect and CompleteConnect: nobody issues Disconnect (`nd/detail/impl/nd_op_connect.ipp:68`) |
| `NdConnector!WatcherHearsDisconnect` | 1 thread, 1 operation, 1 watcher, fair | a watcher armed after the CancelIoEx of disconnect() waits for ever if the native Disconnect fails: the connector is `closed`, the connection up, and Disconnect is not tried again (`nd/detail/nd_service_connector.hpp:371`) |
| `NdConnector!NoStaleUse` | 1 operation | a queued completion stores into a destroyed connector |
| `PostedCompletes` without its exceptions, both event modes | 1 throw, or 1 failing notify or poll | a handler that throws skips the re-arm; a failed ibv_req_notify_cq or ibv_poll_cq is taken for success |
| `PollCq!StillReachable` | 1 throw, or `NestedPoll = TRUE`, `Batch = 2` with 4 operations | the rest of the batch is forgotten, or overwritten by the inner poll() (`ibv/impl/ibv_completion_queue.ipp:45`) |
| `PollCq!CompletedOnce` | `NestedPoll = TRUE`, `Batch = 2`, 4 operations | the outer poll() goes on with entries of the inner batch, which were dispatched before |
| `SmallSglist!SpillIsHonest` | an empty build | `uses_heap()` compares two null pointers |
| `Listener!NoChildLeaked` | `MaxChan = 1`, ibv | no owner when the channel of the child cannot be made |
| `Listener!BindsWhatWasOpened` | `MaxMove = 1`, ibv | moving loses `bind_endpoint_` |
| `SmallSglist!ListHoldsBuffers` | two builds | a list reused after a spill: the kept heap block is switched to without copying (`detail/small_sglist.hpp:83`; the plan says "Change heap spill behavior to keep capacity when the same object is reused.", `docs/plans/sge_list_performance_refactor_plan.md:368`) |
| `ServiceObjects!ListsAreExact`, `OneHolder` with `CrossMove = TRUE` | 2 io_contexts | move assignment takes the service of the source and leaves the object in the list of its old one, so a shutdown misses or repeats it (`ibv/detail/ibv_service_base.hpp:13` says "an intrusive list of live implementations") |
| `ServiceObjects!OpenIsFresh` | nd, 2 objects | open() of a connector that was moved from does not reset `connect_state_` (`nd/detail/nd_service_connector.hpp:430`) |
| `QueuePair!BoundHasNative` | nd, 1 queue pair | bind() notes the completion queue before create_qp, which may fail (`nd/nd_queue_pair.hpp:94`); the post path takes bound for created (`nd/detail/nd_service_verbs.hpp:63`) |
| `DeviceSetup!OpenedOnce` | that of `device_setup` | `transform \| filter \| to<vector>` evaluates `open_device` twice for an adapter it keeps and stores the second (`nd/detail/impl/nd_device_impl.ipp:529`; the comment at line 587 says "one OpenAdapter / one PD") |
| `DeviceSetup!NothingNull` | that of `device_setup` | a provider or device that fails when it is evaluated the second time is stored behind the filter; discovery dereferences the provider (`nd/detail/impl/nd_device_impl.ipp:568`) |

## Not modelled

* Moving a connector with operations in flight (`ServiceObjects` moves objects
  that are idle, `Listener` also one whose operations wait): the operation keeps
  pointers into the old object, and what they reach is undefined.
* Registration and deregistration of memory regions: one native call each. The
  nd move assignment releases the region it overwrites without Deregister.
* Native wrappers, error categories and text: one native call and a conversion
  each; they appear as outcomes of the actions that use them.
* CQ overrun (the CQ is unbounded in the models; an overrun is a device event
  the code does not handle), memory leaked by shutdown with operations posted,
  contents of buffers.
