---------------------------- MODULE DeviceService ---------------------------
(***************************************************************************)
(* What the two backends share on the way to a usable io_context: the      *)
(* devices that discovery leaves, a configuration as its fields, and the   *)
(* pair of services (device registration, completion queue) that           *)
(* use_device fills.  The backend is chosen when the program is built;     *)
(* here, in the initial state.                                             *)
(*                                                                         *)
(* Abstracted: names and native handles; an address is its family and the  *)
(* adapter it leads to.                                                    *)
(***************************************************************************)
EXTENDS Naturals, SequencesExt

CONSTANTS
  Addrs,         \* local addresses
  Family,        \* "v4", "v6", "other", or "oversize": too long to store
  AdapterOf,     \* the adapter (AdapterId, ibv_context) of an address
  Bounded,       \* fields with a capability and a default (cqe_, max_send_wr_...)
  CapOnly,       \* fields whose default is the capability (inbound_read_limit_...)
  Inline,        \* max_inline_data_, which only nd has a capability for
  Free,          \* fields with a default only (cq_poll_batch_)
  Cap,           \* the capability of an adapter for a field
  Default,       \* default_cqe, default_max_send_wr, ...
  MaxConfig,     \* bound: the values a user configures, 0 for "not set"
  MaxList,       \* bound: addresses in one list
  None

Adapters == {AdapterOf[a] : a \in Addrs}
Fields   == Bounded \cup CapOnly \cup Free \cup {Inline}
Configs  == [Fields -> 0..MaxConfig]

ASSUME AddrAssumption ==
  /\ Family \in [Addrs -> {"v4", "v6", "other", "oversize"}]
  /\ AdapterOf \in [Addrs -> Nat]
  /\ IsFiniteSet(Addrs) /\ None \notin Addrs \cup Nat
ASSUME ConfigAssumption ==
  /\ Cap \in [Adapters -> [Bounded \cup CapOnly \cup {Inline} -> Nat]]
  /\ Default \in [Bounded \cup Free -> Nat \ {0}]
  /\ Inline \notin Bounded \cup CapOnly \cup Free
  /\ Free \cap (Bounded \cup CapOnly) = {}
ASSUME ListAssumption == MaxConfig \in Nat /\ MaxList \in Nat

VARIABLES
  build,       \* "ibv" or "nd"
  pc,          \* where the constructor of the device manager is
  devices,     \* devices_: a sequence for each provider (ibv has one)
  registered, device, effective,  \* *_device_service of an io_context
  cq, cq_handle, \* *_io_completion_service: cq_; cq_handle_ or comp_channel_
  call,        \* locals of the use_device that is running: device, effective
  ec           \* the error_code of the last use_device on the io_context

context == <<registered, device, effective, cq, cq_handle, call, ec>>

NoDevice == [adapter |-> None, v4 |-> None, v6 |-> None]
NoConfig == [f \in Fields |-> 0]
NoCall   == [device |-> NoDevice, effective |-> NoConfig]

ServiceInit ==
  /\ build \in {"ibv", "nd"}
  /\ pc = "start"
  /\ devices = <<>>
  /\ registered = FALSE /\ device = NoDevice /\ effective = NoConfig
  /\ cq = FALSE /\ cq_handle = FALSE
  /\ call = NoCall /\ ec = "none"
-----------------------------------------------------------------------------
\* The lists of addresses a native query can return.
AddrLists(from) == {s \in SeqOf(from, MaxList) : IsInjective(s)}

\* The first element of a sequence that is in a set.
FirstIn(s, S, none) ==
  IF \E i \in 1..Len(s) : s[i] \in S
    THEN s[CHOOSE i \in 1..Len(s) : s[i] \in S /\ \A j \in 1..(i - 1) : s[j] \notin S]
    ELSE none

\* The sequence that lists the numbers of a set upwards (the only element).
Upwards(S) ==
  {t \in SetToSeqs(S) : \A i, j \in 1..Len(t) : i < j => t[i] < t[j]}

\* The devices of all providers.
AllDevices == UNION {ToSet(devices[p]) : p \in 1..Len(devices)}

\* Of the devices that fit, the first of the first provider that has one.
FirstDevice(fit) ==
  FirstIn([p \in 1..Len(devices) |-> FirstIn(devices[p], fit, NoDevice)], fit, NoDevice)

Smaller(m, n) == IF m < n THEN m ELSE n

\* The constructor threw: the next instance() of the function-local static
\* runs it again.
Retry ==
  /\ pc = "failed"
  /\ pc' = "start"
  /\ UNCHANGED <<build, devices, context>>

\* The part of use_device and initialize() before the first native call: the
\* guards that refuse it, or the locals for the rest.
StartUse(refusal, d, config) ==
  /\ ec' = refusal
  /\ IF refusal = "none"
       THEN pc' = "create_handle" /\ call' = [device |-> d, effective |-> config]
       ELSE UNCHANGED <<pc, call>>
  /\ UNCHANGED <<registered, device, effective, cq, cq_handle>>

\* initialize() goes on to its next native call.
Proceed(next) ==
  /\ pc' = next
  /\ UNCHANGED <<registered, device, effective, call, ec>>

\* initialize() returned with an error, and so does use_device.
UseFails ==
  /\ pc' = "ready"
  /\ ec' = "error"
  /\ call' = NoCall
  /\ UNCHANGED <<registered, device, effective>>

\* initialize() returned without an error: register_device, the last step.
RegisterDevice ==
  /\ pc' = "ready"
  /\ ec' = "ok"
  /\ call' = NoCall
  /\ registered' = TRUE
  /\ device' = call.device
  /\ effective' = call.effective

\* shutdown() of both services; what follows is another io_context.
ShutdownServices ==
  /\ pc = "ready"
  /\ registered
  /\ registered' = FALSE /\ device' = NoDevice /\ effective' = NoConfig
  /\ cq' = FALSE /\ cq_handle' = FALSE
  /\ ec' = "none"
  /\ UNCHANGED <<build, pc, devices, call>>
=============================================================================
