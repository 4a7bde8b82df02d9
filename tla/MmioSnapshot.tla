---------------------------- MODULE MmioSnapshot ----------------------------
(***************************************************************************)
(* Snapshot and restore of the virtio MMIO transport (Snapshottable for    *)
(* VirtioMmioDevice in virtio-devices/src/transport/mmio.rs), composed     *)
(* with the transport and its threads of VirtioMmio. The VM is paused      *)
(* (vCPUs and device threads stop; the VMM's activation worker does not),  *)
(* a snapshot of the transport and of the device's acked features is       *)
(* taken, and a new VMM process restores it: a fresh transport and a fresh *)
(* backing device, the snapshot applied by set_state, then the device      *)
(* activated when restore() finds it was activated and driver-ready.       *)
(***************************************************************************)
EXTENDS VirtioMmio

CONSTANTS
    MaxRestores,  \* bound on the restores in a behaviour
    MaxRequests   \* bound on the requests the guest puts on the ring

VARIABLES
    paused,   \* the VM is paused (vm.rs Pausable for Vm)
    snap,     \* the last snapshot taken, or NoSnapshot
    restores, \* restores done so far (bounded by MaxRestores)
    ring,     \* guest memory of queue RingQ: avail idx, used idx, used entries
    tq,       \* the transport's cursors of queue RingQ: next_avail, next_used
    dq,       \* the cursors of the device's clone of queue RingQ
    inflight, \* requests the device popped and has not completed, in order
    memsnap   \* guest memory of the ring in the last snapshot

rvars == <<ring, tq, dq, inflight, memsnap>>
svars == <<vars, paused, snap, restores, rvars>>

(* The ring of one queue. Request k is the k-th descriptor chain the guest *)
(* made available (avail slot k - 1); the device pops chains at its        *)
(* next_avail and writes their ids to the used slot at its next_used, then *)
(* stores next_used + 1 as the used idx. MaxRequests is below the queue    *)
(* size, so no index wraps.                                                *)
RingQ == 0
Cursors0 == [next_avail |-> 0, next_used |-> 0]
Ring0 == [avail |-> 0, used |-> 0, entries |-> [k \in 0..MaxRequests - 1 |-> 0]]

NoSnapshot == [none |-> TRUE]

\* VirtioMmioDeviceState as built by state(), with the device's own
\* snapshotted state (its acked features) alongside.
state ==
    [device_activated |-> device_activated,
     features_select |-> features_select,
     acked_features_select |-> acked_features_select,
     queue_select |-> queue_select,
     interrupt_status |-> interrupt_status,
     driver_status |-> driver_status,
     shm_region_select |-> shm_region_select,
     queues |-> queues,
     acked |-> dev.acked]

SInit ==
    /\ Init
    /\ paused = FALSE
    /\ snap = NoSnapshot
    /\ restores = 0
    /\ ring = Ring0 /\ memsnap = Ring0
    /\ tq = Cursors0 /\ dq = Cursors0 /\ inflight = <<>>

\* The guest driver makes request avail + 1 available once DRIVER_OK is set.
GuestPost ==
    /\ is_driver_ready(driver_status) /\ ring.avail < MaxRequests
    /\ ring' = [ring EXCEPT !.avail = @ + 1]
    /\ UNCHANGED <<tq, dq, inflight, memsnap>>

\* The device pops the chain at its next_avail (Queue::iter).
DevicePop ==
    /\ dev.active /\ RingQ \in dev.queues
    /\ dq.next_avail < ring.avail
    /\ inflight' = Append(inflight, dq.next_avail + 1)
    /\ dq' = [dq EXCEPT !.next_avail = @ + 1]
    /\ UNCHANGED <<ring, tq, memsnap>>

\* The device completes its oldest popped chain (Queue::add_used): the id
\* into the used slot at next_used, then the used idx.
DeviceComplete ==
    /\ dev.active /\ inflight /= <<>>
    /\ ring' = [ring EXCEPT !.entries[dq.next_used] = Head(inflight),
                            !.used = dq.next_used + 1]
    /\ dq' = [dq EXCEPT !.next_used = @ + 1]
    /\ inflight' = Tail(inflight)
    /\ UNCHANGED <<tq, memsnap>>

\* The ring's part of a register write: reset() drops the device's queues
\* and Queue::reset zeroes the transport's cursors; the driver then sets
\* up fresh rings.
RingOnWrite ==
    IF device_activated /\ ~device_activated'
    THEN /\ ring' = Ring0 /\ tq' = Cursors0 /\ dq' = Cursors0
         /\ inflight' = <<>> /\ UNCHANGED memsnap
    ELSE UNCHANGED rvars

\* The ring's part of a worker step: the activator carries clones of the
\* transport's queues, cursors included, to the device.
RingOnWorker ==
    /\ dq' = IF dev'.active /\ ~dev.active THEN tq ELSE dq
    /\ UNCHANGED <<ring, tq, inflight, memsnap>>

\* Guest and device threads run only while the VM is not paused.
RunStep ==
    /\ ~paused
    /\ \/ \E c \in Vcpus, w \in GuestWrites : Write(c, w) /\ RingOnWrite
       \/ \E bit \in {INTERRUPT_STATUS_USED_RING,
                      INTERRUPT_STATUS_CONFIG_CHANGED} :
             Trigger(bit) /\ UNCHANGED rvars
       \/ (GuestPost \/ DevicePop \/ DeviceComplete) /\ UNCHANGED vars
    /\ UNCHANGED <<paused, snap, restores>>

\* A vCPU blocked on a barrier and the activation worker are not stopped
\* by a pause.
VmmStep ==
    /\ \/ \E c \in Vcpus : VcpuRelease(c) /\ UNCHANGED rvars
       \/ Worker /\ RingOnWorker
    /\ UNCHANGED <<paused, snap, restores>>

Pause ==
    /\ ~paused
    /\ paused' = TRUE
    /\ UNCHANGED <<vars, snap, restores, rvars>>

Resume ==
    /\ paused
    /\ paused' = FALSE
    /\ UNCHANGED <<vars, snap, restores, rvars>>

\* Snapshottable::snapshot: refused by Vm::snapshot unless the VM is paused.
TakeSnapshot ==
    /\ paused
    /\ snap' = state
    /\ memsnap' = ring
    /\ UNCHANGED <<vars, paused, restores, ring, tq, dq, inflight>>

\* Mutant: next_avail is restored, next_used is left at Queue::new's 0.
RestoreCursors_no_used ==
    tq' = [next_avail |-> ring'.used, next_used |-> 0]

\* set_state's loop tail: next_avail and next_used both set to the used
\* idx read from the restored guest memory.
RestoreCursors ==
    tq' = [next_avail |-> ring'.used, next_used |-> ring'.used]

\* Mutant: set_state forgets shm_region_select.
set_state_no_shm(s) ==
    /\ device_activated' = s.device_activated
    /\ features_select' = s.features_select
    /\ acked_features_select' = s.acked_features_select
    /\ queue_select' = s.queue_select
    /\ interrupt_status' = s.interrupt_status
    /\ driver_status' = s.driver_status
    /\ queues' = [i \in QIdx |-> [QueueInit EXCEPT !.size = s.queues[i].size,
                                                  !.ready = s.queues[i].ready,
                                                  !.addr = s.queues[i].addr]]
    /\ RestoreCursors
    /\ shm_region_select' = 0

\* set_state: every scalar field, device_activated included, and each
\* queue's size, ready bit and ring addresses (max_size is not restored),
\* and its cursors re-read from the used ring.
set_state(s) ==
    /\ device_activated' = s.device_activated
    /\ features_select' = s.features_select
    /\ acked_features_select' = s.acked_features_select
    /\ queue_select' = s.queue_select
    /\ interrupt_status' = s.interrupt_status
    /\ driver_status' = s.driver_status
    /\ queues' = [i \in QIdx |-> [QueueInit EXCEPT !.size = s.queues[i].size,
                                                  !.ready = s.queues[i].ready,
                                                  !.addr = s.queues[i].addr]]
    /\ RestoreCursors
    /\ shm_region_select' = s.shm_region_select

\* The new VMM process: a fresh transport (holding the adapter) and a fresh
\* device whose own restore brings back its acked features; no activator,
\* barrier, blocked thread or popped request survives. The memory manager
\* restores guest memory, and so the ring, before the devices.
FreshProcess(s) ==
    /\ pending' = <<>> /\ batch' = <<>> /\ activate_evt' = 0
    /\ barrier' = <<>>
    /\ vcpu' = [c \in Vcpus |-> [st |-> "idle", b |-> NoBarrier]]
    /\ worker' = [st |-> "idle", b |-> NoBarrier]
    /\ ring' = memsnap /\ inflight' = <<>> /\ UNCHANGED memsnap

\* Whether restore() activates: device_activated && is_driver_ready().
RestoreActivates(s) == s.device_activated /\ is_driver_ready(s.driver_status)

\* Mutant: restore() restores the flag but never activates the device.
Restore_no_activate ==
    /\ paused /\ snap /= NoSnapshot /\ restores < MaxRestores
    /\ restores' = restores + 1
    /\ FreshProcess(snap) /\ set_state(snap)
    /\ virtio_interrupt' = TRUE
    /\ dev' = [active |-> FALSE, interrupt |-> FALSE, queues |-> {},
               acked |-> snap.acked]
    /\ dq' = Cursors0
    /\ UNCHANGED <<paused, snap>>

\* Mutant: the restore-time activation leaves a copy of the adapter behind.
Restore_keep_adapter ==
    /\ paused /\ snap /= NoSnapshot /\ restores < MaxRestores
    /\ restores' = restores + 1
    /\ FreshProcess(snap) /\ set_state(snap)
    /\ virtio_interrupt' = TRUE
    /\ LET act == RestoreActivates(snap) IN
       /\ dev' = [active |-> act, interrupt |-> act,
                  queues |-> IF act THEN {i \in QIdx : snap.queues[i].ready}
                                    ELSE {},
                  acked |-> snap.acked]
       /\ dq' = IF act THEN tq' ELSE Cursors0
    /\ UNCHANGED <<paused, snap>>

\* restore() in a new VMM process: set_state, then, if the restored
\* transport is activated and driver-ready, activate() runs
\* prepare_activator(None).activate() on the device, which takes the
\* transport's adapter. The VM stays paused until Resume.
Restore ==
    /\ paused /\ snap /= NoSnapshot /\ restores < MaxRestores
    /\ restores' = restores + 1
    /\ FreshProcess(snap) /\ set_state(snap)
    /\ LET act == RestoreActivates(snap) IN
       /\ virtio_interrupt' = ~act
       /\ dev' = [active |-> act, interrupt |-> act,
                  queues |-> IF act THEN {i \in QIdx : snap.queues[i].ready}
                                    ELSE {},
                  acked |-> snap.acked]
       /\ dq' = IF act THEN tq' ELSE Cursors0
    /\ UNCHANGED <<paused, snap>>

SNext ==
    \/ RunStep
    \/ VmmStep
    \/ Pause \/ Resume \/ TakeSnapshot \/ Restore

\* As in VirtioMmio; the orchestrator that paused the VM resumes it.
SSpec ==
    /\ SInit /\ [][SNext]_svars
    /\ WF_svars(Worker /\ RingOnWorker /\ UNCHANGED <<paused, snap, restores>>)
    /\ \A c \in Vcpus : WF_svars(VcpuRelease(c)
                                  /\ UNCHANGED <<paused, snap, restores, rvars>>)
    /\ WF_svars(Resume)

-----------------------------------------------------------------------------
(* Properties.                                                             *)

\* Across pauses, snapshots taken with requests in flight, restores into a
\* new process, resets and re-activations, the used ring the guest reads
\* holds requests 1, 2, ... in order, each once: set_state's cursors make
\* the restored device redo exactly the requests not yet in the used ring.
UsedRingExact == \A k \in 0..ring.used - 1 : ring.entries[k] = k + 1

\* Snapshot, restore, snapshot is a fixed point: right after restore() the
\* transport's state() is the snapshot it was restored from.
SnapshotRoundTrip ==
    [][Restore => state' = snap]_svars

\* Once the driver has set DRIVER_OK and the VM runs, the backing device
\* is eventually activated (or the driver moves the status on).
DriverOkLeadsToActivation ==
    (is_driver_ready(driver_status) /\ ~device_activated)
        ~> (device_activated \/ ~is_driver_ready(driver_status))

====
