----------------------------- MODULE VmShutdown -----------------------------
(***************************************************************************)
(* The VM lifecycle of VmLifecycle composed with the virtio MMIO transport *)
(* of VirtioMmio. The two meet at the vCPU threads: a guest MMIO write     *)
(* runs on a vCPU thread the CPU manager started, and Vm::shutdown ends    *)
(* with cpu_manager.shutdown(), which joins every vCPU thread. A vCPU      *)
(* thread blocked in barrier.wait() inside VmOps::mmio_write is not at a   *)
(* point where it can see the exit request, so the join waits until the    *)
(* activation worker releases that barrier.                                *)
(*                                                                         *)
(* The CPU manager is not part of this code. Its shutdown is modelled as   *)
(* what the spec requires of it: signal every vCPU thread to exit, then    *)
(* join each one.                                                          *)
(***************************************************************************)
EXTENDS Naturals, Sequences

CONSTANTS
    Fallible, MaxHandlers,
    Vcpus, NumQueues, QueueMaxSize, GuestWrites, ResetSupported,
    ActivateMayFail, MaxActivations, ShmRegions

VARIABLES
    state, cpus, devices, clock, signals, handlers, origin, started, snap,
    hung,
    features_select, acked_features_select, queue_select, driver_status,
    shm_region_select, queues, virtio_interrupt, device_activated,
    interrupt_status, pending, activate_evt, barrier, vcpu, worker, batch,
    dev,
    joining   \* Vm::shutdown is blocked in cpu_manager.shutdown()'s joins

L == INSTANCE VmLifecycle
M == INSTANCE VirtioMmio

lvars == <<state, cpus, devices, clock, signals, handlers, origin, started,
          snap, hung>>
mvars == <<features_select, acked_features_select, queue_select,
          driver_status, shm_region_select, queues, virtio_interrupt,
          device_activated, interrupt_status, pending, activate_evt, barrier,
          vcpu, worker, batch, dev>>
allvars == <<lvars, mvars, joining>>

\* Some vCPU thread waits on an activation barrier.
BlockedVcpu == \E c \in Vcpus : vcpu[c].st = "wait"

Init == L!Init /\ M!Init /\ joining = FALSE

\* A guest MMIO write needs a vCPU thread in the guest; once shutdown has
\* signalled the vCPUs, none re-enters the guest.
GuestWrite ==
    /\ cpus = "running" /\ ~joining
    /\ \E c \in Vcpus, w \in GuestWrites : M!Write(c, w)
    /\ UNCHANGED <<lvars, joining>>

\* The transport's other threads run whatever the control thread does.
TransportStep ==
    /\ \/ M!Worker
       \/ \E c \in Vcpus : M!VcpuRelease(c)
       \/ \E bit \in {M!INTERRUPT_STATUS_USED_RING,
                      M!INTERRUPT_STATUS_CONFIG_CHANGED} : M!Trigger(bit)
    /\ UNCHANGED <<lvars, joining>>

\* Every API call but shutdown, made while the control thread is free.
ApiCall ==
    /\ ~joining
    /\ L!Boot \/ L!Pause \/ L!Resume \/ L!Snapshot \/ L!Restore
    /\ UNCHANGED <<mvars, joining>>

\* Vm::shutdown returning early: device_manager.resume() or
\* cpu_manager.shutdown() failed.
ShutdownFails ==
    /\ ~joining /\ L!Shutdown /\ cpus' = cpus
    /\ UNCHANGED <<mvars, joining>>

\* Vm::shutdown up to the joins: valid_transition, the signal handle
\* closed, device_manager.resume(), then cpu_manager.shutdown() signals
\* the vCPU threads and starts joining them.
CpuShutdown ==
    /\ ~joining /\ L!Api /\ L!valid_transition(state, "Shutdown")
    /\ signals' = FALSE /\ handlers' = L!ClosedHandlers
    /\ devices' = "running"
    /\ joining' = TRUE
    /\ UNCHANGED <<state, cpus, clock, origin, started, snap, hung, mvars>>

\* The vCPU joins return once no vCPU thread is blocked on a barrier; then
\* Vm::shutdown joins self.threads and records Shutdown, as in VmLifecycle.
VcpusJoined ==
    /\ joining /\ ~BlockedVcpu
    /\ joining' = FALSE /\ cpus' = "stopped" /\ signals' = FALSE
    /\ \/ ~L!AllClosed(handlers) /\ hung' = TRUE /\ UNCHANGED <<state, handlers>>
       \/ L!AllClosed(handlers) /\ handlers' = <<>> /\ state' = "Shutdown"
          /\ UNCHANGED hung
    /\ UNCHANGED <<devices, clock, origin, started, snap, mvars>>

Next ==
    \/ GuestWrite \/ TransportStep \/ ApiCall
    \/ ShutdownFails \/ CpuShutdown \/ VcpusJoined

\* The worker, a released vCPU and the control thread blocked in its joins
\* are OS threads.
Spec ==
    /\ Init /\ [][Next]_allvars
    /\ WF_allvars(M!Worker /\ UNCHANGED <<lvars, joining>>)
    /\ \A c \in Vcpus : WF_allvars(M!VcpuRelease(c) /\ UNCHANGED <<lvars, joining>>)
    /\ WF_allvars(VcpusJoined)

-----------------------------------------------------------------------------
(* Properties.                                                             *)

\* device_activated, which BusDevice::write reads to choose between
\* activation and reset, agrees with whether the backing device is live,
\* whatever API calls the control thread makes meanwhile.
ActivatedAgreesWithDevice == device_activated = dev.active

\* Once Vm::shutdown has reached cpu_manager.shutdown(), its joins of the
\* vCPU threads return: no vCPU thread stays blocked in VmOps::mmio_write
\* on an activation barrier that is never released.
ShutdownReturns == joining ~> ~joining

====
