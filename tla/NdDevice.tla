------------------------------ MODULE NdDevice ------------------------------
(***************************************************************************)
(* Device discovery and registration of the nd backend: the constructor of *)
(* nd_device_manager_t (providers, their address lists, one device for     *)
(* each adapter), the selection of a device by its capabilities, and       *)
(* use_device.                                                             *)
(*                                                                         *)
(* One thread runs all of it.  The native calls may answer differently     *)
(* each time they are made, and the lazy pipeline transform | filter makes *)
(* them twice: once when the filter looks at an element and again when the *)
(* accepted element is copied.                                             *)
(*                                                                         *)
(* Abstracted: paths, GUIDs and modules, and the extra counting pass of    *)
(* the vector constructor in get_providers.                                *)
(***************************************************************************)
EXTENDS DeviceService

CONSTANT MaxProtos   \* bound: NetworkDirect protocols of the Winsock catalog

ASSUME ProtoAssumption == MaxProtos \in Nat

VARIABLES
  protos,     \* protocols of the catalog still to look at
  providers,  \* providers_: whether each one has its provider_ interface
  cur,        \* the provider open_adapters is at
  resolved,   \* addresses of that provider that ResolveAddress knows
  chunks,     \* the same, grouped
  opens       \* history: calls of OpenAdapter for the chunk last looked at

pipeline == <<protos, providers, cur, resolved, chunks, opens>>

NdInit ==
  /\ protos = 0
  /\ providers = <<>>
  /\ cur = 1
  /\ resolved = {}
  /\ chunks = <<>>
  /\ opens = 0
-----------------------------------------------------------------------------
(* Providers. *)

\* nd_global_t: WSAStartup and NdStartup; a failure throws.
Startup ==
  /\ pc = "start"
  /\ pc' \in {"enumerate", "failed"}
  /\ UNCHANGED <<pipeline, devices, context>>

\* enumerate_protos: the catalog entries that is_valid_proto keeps.
EnumerateProtos ==
  /\ pc = "enumerate"
  /\ \/ pc' = "failed" /\ UNCHANGED protos
     \/ pc' = "test_provider" /\ protos' \in 0..MaxProtos
  /\ UNCHANGED <<providers, cur, resolved, chunks, devices, opens, context>>

\* The path, the module, its entry points, the class factory and the
\* provider: whether all of them could be had.
CreateProvider == BOOLEAN

\* The filter of get_providers looks at the next protocol's provider.
TestProvider ==
  /\ pc = "test_provider"
  /\ protos > 0
  /\ \E ok \in CreateProvider :
       /\ pc' = IF ok THEN "store_provider" ELSE pc
       /\ protos' = IF ok THEN protos ELSE protos - 1
  /\ UNCHANGED <<providers, cur, resolved, chunks, devices, opens, context>>

\* The accepted element is copied: it is created once more.
StoreProvider ==
  /\ pc = "store_provider"
  /\ \E ok \in CreateProvider : providers' = Append(providers, ok)
  /\ protos' = protos - 1
  /\ pc' = "test_provider"
  /\ UNCHANGED <<cur, resolved, chunks, devices, opens, context>>

\* No provider at all is an error, which the throwing overload raises.
ProvidersDone ==
  /\ pc = "test_provider"
  /\ protos = 0
  /\ pc' = IF providers = <<>> THEN "failed" ELSE "discover"
  /\ UNCHANGED <<pipeline, devices, context>>
-----------------------------------------------------------------------------
(* The pipeline of discover_provider_devices. *)

\* copy_socket_address_list leaves out what does not fit a sockaddr_storage.
Storable == {a \in Addrs : Family[a] # "oversize"}

\* is_supported_addr_family.
Supported(as) == {a \in as : Family[a] \in {"v4", "v6"}}

\* Seeded fault: the sort is left out.
SortByNothing(as) == SetToSeqs(as)

\* sort_by: std::ranges::sort on the AdapterId, which is not stable.
SortBy(as) ==
  {t \in SetToSeqs(as) :
     \A i, j \in 1..Len(t) : i < j => AdapterOf[t[i]] <= AdapterOf[t[j]]}

\* A new chunk starts when the element before has another AdapterId.
ChunkStarts(s) ==
  {k \in 1..Len(s) : k = 1 \/ AdapterOf[s[k - 1]] # AdapterOf[s[k]]}

\* chunk_by: each chunk goes on until the next one starts.
ChunkBy(s) ==
  {[i \in 1..Len(from) |->
      SubSeq(s, from[i], IF i = Len(from) THEN Len(s) ELSE from[i + 1] - 1)] :
     from \in Upwards(ChunkStarts(s))}

\* enumerate_addr_list of the next provider fails (it has no devices), or
\* filter_map keeps the supported addresses that ResolveAddress knows.  A
\* provider without its interface is dereferenced.
DiscoverProvider ==
  /\ pc = "discover"
  /\ cur <= Len(providers)
  /\ IF ~providers[cur]
       THEN pc' = "crashed" /\ UNCHANGED <<cur, resolved, chunks, devices>>
       ELSE \/ /\ devices' = Append(devices, <<>>)
               /\ cur' = cur + 1
               /\ UNCHANGED <<pc, resolved, chunks>>
            \/ \E list \in AddrLists(Storable) :
                 \E known \in SUBSET Supported(ToSet(list)) : \E sorted \in SortBy(known) :
                   /\ resolved' = known
                   /\ chunks' \in ChunkBy(sorted)
                   /\ devices' = Append(devices, <<>>)
                   /\ pc' = "test_device"
                   /\ UNCHANGED cur
  /\ UNCHANGED <<protos, providers, opens, context>>
-----------------------------------------------------------------------------
(* Devices. *)

\* attach_device_addresses: the first address of each family.
Attach(id, s) ==
  LET first(f) == FirstIn(s, {a \in ToSet(s) : Family[a] = f}, None)
  IN [adapter |-> id, v4 |-> first("v4"), v6 |-> first("v6")]

\* create_device: OpenAdapter, Query, the name and the overlapped file of the
\* protection domain; whether all of them could be had.
CreateDevice == BOOLEAN

\* query_adapter_addr_list: the adapter's own addresses; an error is taken
\* for an empty list.
AdapterLists(id) == AddrLists({a \in Storable : AdapterOf[a] = id})

\* open_device: adapter-owned addresses, those of the provider where there are
\* none, and no device without an address.
OpenDevice(chunk) ==
  LET id == AdapterOf[Head(chunk)]
      opened == {Attach(id, IF own = <<>> THEN chunk ELSE own) : own \in AdapterLists(id)}
  IN {IF ok /\ ~(d.v4 = None /\ d.v6 = None) THEN d ELSE NoDevice :
        ok \in CreateDevice, d \in opened}

\* The last filter of the pipeline opens the chunk's device to look at it.
TestDevice ==
  /\ pc = "test_device"
  /\ chunks # <<>>
  /\ \E d \in OpenDevice(Head(chunks)) :
       IF d = NoDevice THEN chunks' = Tail(chunks) /\ UNCHANGED pc
                       ELSE pc' = "store_device" /\ UNCHANGED chunks
  /\ opens' = 1
  /\ UNCHANGED <<protos, providers, cur, resolved, devices, context>>

\* to<std::vector> copies the accepted element: it is opened once more.
StoreDevice ==
  /\ pc = "store_device"
  /\ \E d \in OpenDevice(Head(chunks)) :
       devices' = [devices EXCEPT ![cur] = Append(@, d)]
  /\ chunks' = Tail(chunks)
  /\ opens' = opens + 1
  /\ pc' = "test_device"
  /\ UNCHANGED <<protos, providers, cur, resolved, context>>

DevicesDone ==
  /\ pc = "test_device"
  /\ chunks = <<>>
  /\ resolved' = {}
  /\ cur' = cur + 1
  /\ opens' = 0
  /\ pc' = "discover"
  /\ UNCHANGED <<protos, providers, chunks, devices, context>>

\* The constructor returns.
ManagerReady ==
  /\ pc = "discover"
  /\ cur > Len(providers)
  /\ pc' = "ready"
  /\ UNCHANGED <<pipeline, devices, context>>
-----------------------------------------------------------------------------
(* Selection and registration. *)

NdLimited == Bounded \cup CapOnly \cup {Inline}

\* Seeded fault: the capabilities are compared off by one.
IsValidAdapterOffByOne(d, config) ==
  d # NoDevice /\ \A f \in NdLimited : config[f] <= Cap[d.adapter][f] + 1

\* is_valid_adapter(adapter, config).
IsValidAdapter(d, config) ==
  d # NoDevice /\ \A f \in NdLimited : config[f] <= Cap[d.adapter][f]

\* get_first_available_device: providers in order, devices in order.
NdFirstAvailable(config) ==
  FirstDevice({d \in AllDevices : IsValidAdapter(d, config)})

\* is_config_compatible.
NdCompatible(config, d) ==
  \A f \in NdLimited : config[f] = 0 \/ config[f] <= Cap[d.adapter][f]

\* derive_effective_config: a field that is not set gets its default.
NdEffective(config, d) ==
  LET derived(f) == IF f \in Bounded THEN Smaller(Cap[d.adapter][f], Default[f])
                    ELSE IF f \in Free THEN Default[f] ELSE Cap[d.adapter][f]
  IN [f \in Fields |-> IF config[f] = 0 THEN derived(f) ELSE config[f]]

\* The guards of use_device(io, device, config, ec), then that of initialize().
NdRefusal(d, config) ==
  IF registered THEN "already_registered"
  ELSE IF d = NoDevice THEN "invalid_device"
  ELSE IF ~NdCompatible(config, d) THEN "invalid_config"
  ELSE IF cq THEN "already_registered" ELSE "none"

NdUseDevice(d, config) ==
  /\ pc = "ready"
  /\ LET refusal == NdRefusal(d, config)
     IN StartUse(refusal, d, IF refusal = "none" THEN NdEffective(config, d) ELSE NoConfig)

\* create_overlapped_file; cq_handle_ takes it only without an error.
NdCreateFile ==
  /\ pc = "create_handle"
  /\ \/ cq_handle' = TRUE /\ Proceed("create_cq")
     \/ UNCHANGED cq_handle /\ UseFails
  /\ UNCHANGED cq

\* cq_.Attach(create_cq(...)); on an error the handle goes.
NdCreateCq ==
  /\ pc = "create_cq"
  /\ \/ cq' = TRUE /\ UNCHANGED cq_handle /\ Proceed("register")
     \/ cq' = FALSE /\ cq_handle' = FALSE /\ UseFails

\* register_handle; on an error the CQ and its handle go.
RegisterHandle ==
  /\ pc = "register"
  /\ \/ UNCHANGED <<cq, cq_handle>> /\ RegisterDevice
     \/ cq' = FALSE /\ cq_handle' = FALSE /\ UseFails

\* The native calls of nd_io_completion_service::initialize.
NdInitialize ==
  /\ build = "nd"
  /\ NdCreateFile \/ NdCreateCq \/ RegisterHandle
  /\ UNCHANGED <<build, devices, pipeline>>

NdDiscover ==
  /\ build = "nd"
  /\ \/ Startup \/ EnumerateProtos \/ TestProvider \/ StoreProvider \/ ProvidersDone
     \/ DiscoverProvider \/ TestDevice \/ StoreDevice \/ DevicesDone \/ ManagerReady
  /\ UNCHANGED build
=============================================================================
