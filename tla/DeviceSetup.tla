----------------------------- MODULE DeviceSetup ----------------------------
(***************************************************************************)
(* The portable part of a program's start on either backend: discovery,    *)
(* rdma_device_manager_t::get_first_available_device and use_device.       *)
(***************************************************************************)
EXTENDS NdDevice, IbvDevice

setupvars == <<build, pc, devices, context, pipeline, found>>

SetupInit == ServiceInit /\ NdInit /\ IbvInit

\* The device is any that the program found, not only the one it asked for, or
\* the null pointer get_first_available_device returns when none fits.
UseDevice ==
  /\ \E d \in AllDevices \cup {NoDevice} : \E c \in Configs :
       \/ build = "nd" /\ NdUseDevice(d, c)
       \/ build = "ibv" /\ IbvUseDevice(d, c)
  /\ UNCHANGED <<build, devices, pipeline, found>>

Initialize ==
  \/ NdInitialize /\ UNCHANGED found
  \/ IbvInitialize /\ UNCHANGED pipeline

SetupNext ==
  \/ NdDiscover /\ UNCHANGED found
  \/ IbvDiscover /\ UNCHANGED pipeline
  \/ Retry /\ UNCHANGED <<pipeline, found>>
  \/ UseDevice \/ Initialize
  \/ ShutdownServices /\ UNCHANGED <<pipeline, found>>

SetupSpec == SetupInit /\ [][SetupNext]_setupvars
-----------------------------------------------------------------------------
(* Properties. *)

Found == {d \in AllDevices : d # NoDevice}
Limited == IF build = "nd" THEN NdLimited ELSE IbvLimited

\* An adapter yields one device: every nd group holds all the addresses the
\* provider resolved to its AdapterId, whatever order they were listed in and
\* the sort left them in, and no two devices of a list share their adapter.
OneDevicePerAdapter ==
  /\ \A i \in 1..Len(chunks) :
       ToSet(chunks[i]) = {a \in resolved : AdapterOf[a] = AdapterOf[Head(chunks[i])]}
  /\ \A p \in 1..Len(devices) : \A i, j \in 1..Len(devices[p]) :
       i # j /\ devices[p][i] # NoDevice
         => devices[p][i].adapter # devices[p][j].adapter

\* A device has an address to bind to, and what get_v4_address and
\* get_v6_address return is of that family and leads to that adapter, whether
\* it came from the adapter's own list, from the provider's or from the
\* interfaces of the host.
AddressesAreOwn ==
  \A d \in Found :
    /\ ~(d.v4 = None /\ d.v6 = None)
    /\ d.v4 # None => Family[d.v4] = "v4" /\ AdapterOf[d.v4] = d.adapter
    /\ d.v6 # None => Family[d.v6] = "v6" /\ AdapterOf[d.v6] = d.adapter

\* The device get_first_available_device(config) selects is one that
\* use_device accepts with the same config, and the selection misses none:
\* the two checks of the capabilities agree.
SelectionIsUsable ==
  pc = "ready" =>
    \A c \in Configs :
      LET accepts(e) == IF build = "nd" THEN NdCompatible(c, e) ELSE IbvCompatible(c, e)
          d == IF build = "nd" THEN NdFirstAvailable(c) ELSE IbvFirstAvailable(c)
          usable == {e \in Found : accepts(e)}
      IN IF d = NoDevice THEN usable = {} ELSE d \in usable

\* A registered io_context has its CQ, its channel or handle and a
\* configuration the adapter supports in every field.  A use_device that failed
\* at any of its native calls leaves neither behind, so that no later call is
\* refused as already registered unless the io_context is.
RegistrationIsWhole ==
  /\ registered => /\ cq /\ cq_handle /\ device \in Found
                   /\ \A f \in Limited : effective[f] <= Cap[device.adapter][f]
                   /\ \A f \in Free : effective[f] > 0
  /\ pc = "ready" /\ ~registered => ~cq /\ ~cq_handle
  /\ ec = "already_registered" => registered

\* What the plan of the dual-family devices decides for nd: an adapter is
\* opened once.
OpenedOnce == opens <= 1

\* What the filters of the nd pipelines are for: no device and no provider is
\* null.
NothingNull == pc # "crashed" /\ NoDevice \notin AllDevices
=============================================================================
