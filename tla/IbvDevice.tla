------------------------------ MODULE IbvDevice -----------------------------
(***************************************************************************)
(* Device discovery and registration of the ibv backend: the constructor   *)
(* of ibv_device_manager_t (the contexts of librdmacm, then the local      *)
(* addresses that bind to them), the selection of a device, and use_device.*)
(* One thread runs all of it; every native call may fail.                  *)
(***************************************************************************)
EXTENDS DeviceService

VARIABLE found   \* devices: those of get_devices before they have addresses

IbvInit == found = <<>>
-----------------------------------------------------------------------------
\* create_device of each context allocates a protection domain and queries the
\* device; those it fails for are skipped, so that any of them may be left.
CreateDevices(contexts) == [i \in 1..Len(contexts) |-> [NoDevice EXCEPT !.adapter = contexts[i]]]

\* rdma_get_devices finds nothing, or an array of contexts.
GetDevices ==
  /\ pc = "start"
  /\ \/ pc' = "failed" /\ UNCHANGED found
     \/ /\ pc' = "attach"
        /\ \E usable \in SetToAllKPermutations(Adapters) : found' = CreateDevices(usable)
  /\ UNCHANGED <<devices, context>>

\* attach_device_address: of the addresses that are attached to a device the
\* first of each family is kept, and one that has none of them is without.
AttachAddress(d, list, mine) ==
  [d EXCEPT !.v4 = FirstIn(list, {a \in mine : Family[a] = "v4"}, None),
            !.v6 = FirstIn(list, {a \in mine : Family[a] = "v6"}, None)]

\* is_candidate_local_address: a family with a sockaddr_size.  An interface
\* that is down or a loopback is one of those that do not bind.
Candidates == {a \in Addrs : Family[a] \in {"v4", "v6"}}

\* attach_local_addresses: each address goes to the device whose context
\* rdma_bind_addr gives for it.
AttachLocal(list, bindable) ==
  [i \in 1..Len(found) |->
     AttachAddress(found[i], list, {a \in bindable : AdapterOf[a] = found[i].adapter})]

\* Seeded fault: a device is kept whether it has an address or not.
HasLocalAddressAlways(d) == TRUE

HasLocalAddress(d) == ~(d.v4 = None /\ d.v6 = None)

\* The devices with an address, in their order.
Addressable(ds) ==
  {[k \in 1..Len(order) |-> ds[order[k]]] :
     order \in Upwards({i \in 1..Len(ds) : HasLocalAddress(ds[i])})}

\* getifaddrs fails and the constructor throws, or the devices that got an
\* address remain; none at all throws, too.
AttachAddresses ==
  /\ pc = "attach"
  /\ found' = <<>>
  /\ \/ pc' = "failed" /\ UNCHANGED devices
     \/ \E list \in AddrLists(Addrs) : \E bindable \in SUBSET (ToSet(list) \cap Candidates) :
          \E kept \in Addressable(AttachLocal(list, bindable)) :
            IF kept = <<>> THEN pc' = "failed" /\ UNCHANGED devices
                           ELSE pc' = "ready" /\ devices' = <<kept>>
  /\ UNCHANGED context
-----------------------------------------------------------------------------
(* Selection and registration. *)

IbvLimited == Bounded \cup CapOnly

\* is_config_compatible: max_inline_data_ has no capability.
IbvCompatible(config, d) ==
  \A f \in IbvLimited : config[f] = 0 \/ config[f] <= Cap[d.adapter][f]

\* get_first_available_device.
IbvFirstAvailable(config) ==
  FirstDevice({d \in AllDevices : IbvCompatible(config, d)})

\* derive_effective_config: max_inline_data_ stays as it is.
IbvEffective(config, d) ==
  LET derived(f) == IF f \in Bounded THEN Smaller(Cap[d.adapter][f], Default[f])
                    ELSE IF f \in CapOnly THEN Cap[d.adapter][f]
                    ELSE IF f \in Free THEN Default[f] ELSE 0
  IN [f \in Fields |-> IF config[f] = 0 THEN derived(f) ELSE config[f]]

\* The guards of use_device(io, device, config, ec), then that of initialize().
IbvRefusal(d, config) ==
  IF registered THEN "already_registered"
  ELSE IF d = NoDevice THEN "invalid_device"
  ELSE IF ~IbvCompatible(config, d) THEN "invalid_config"
  ELSE IF cq THEN "already_registered" ELSE "none"

IbvUseDevice(d, config) ==
  /\ pc = "ready"
  /\ LET refusal == IbvRefusal(d, config)
     IN StartUse(refusal, d, IF refusal = "none" THEN IbvEffective(config, d) ELSE NoConfig)

\* comp_channel_.reset(create_comp_channel(...)).
IbvCreateChannel ==
  /\ pc = "create_handle"
  /\ \/ cq_handle' = TRUE /\ Proceed("create_cq")
     \/ cq_handle' = FALSE /\ UseFails
  /\ UNCHANGED cq

\* cq_.reset(create_cq(...)); on an error the channel goes, too.
IbvCreateCq ==
  /\ pc = "create_cq"
  /\ \/ cq' = TRUE /\ UNCHANGED cq_handle /\ Proceed("register")
     \/ cq' = FALSE /\ cq_handle' = FALSE /\ UseFails

\* Seeded fault: a descriptor the reactor refuses leaves the CQ behind.
RegisterDescriptorKeepsCq ==
  /\ pc = "register"
  /\ \/ UNCHANGED <<cq, cq_handle>> /\ RegisterDevice
     \/ UNCHANGED cq /\ cq_handle' = FALSE /\ UseFails

\* register_descriptor; on an error the CQ and its channel go.
RegisterDescriptor ==
  /\ pc = "register"
  /\ \/ UNCHANGED <<cq, cq_handle>> /\ RegisterDevice
     \/ cq' = FALSE /\ cq_handle' = FALSE /\ UseFails

\* The native calls of ibv_io_completion_service::initialize.
IbvInitialize ==
  /\ build = "ibv"
  /\ IbvCreateChannel \/ IbvCreateCq \/ RegisterDescriptor
  /\ UNCHANGED <<build, devices, found>>

IbvDiscover ==
  /\ build = "ibv"
  /\ GetDevices \/ AttachAddresses
  /\ UNCHANGED build
=============================================================================
