----------------------------- MODULE VirtioMmio -----------------------------
(***************************************************************************)
(* The virtio MMIO transport of virtio-devices/src/transport/mmio.rs and   *)
(* the threads around it:                                                  *)
(*  - vCPU threads, each dispatching guest MMIO writes to the transport    *)
(*    (BusDevice::write, serialised by the bus's device mutex) and then    *)
(*    blocking on the barrier the write may return (VmOps::mmio_write in   *)
(*    vmm/src/vm.rs);                                                      *)
(*  - the VMM activation worker, which drains pending_activations when     *)
(*    activate_evt fires and runs VirtioMmioDeviceActivator::activate;     *)
(*  - the backing virtio device, which receives the interrupt adapter and  *)
(*    the ready queues on activate(), hands the adapter back on reset(),   *)
(*    and raises interrupts through VirtioInterruptIntx::trigger.          *)
(* Register values are numbers; guest physical addresses and the values   *)
(* the guest writes come from the small set GuestWrites.                   *)
(***************************************************************************)
EXTENDS Integers, Sequences, FiniteSets, TLC

CONSTANTS
    Vcpus,            \* vCPU threads that issue MMIO writes
    NumQueues,        \* queue_max_sizes().len() of the backing device
    QueueMaxSize,     \* the max size each queue declares
    GuestWrites,      \* accesses a guest may issue: [off, len, val]
    ResetSupported,   \* does the backing device's reset() return Some
    ActivateMayFail,  \* may the backing device's activate() return Err
    MaxActivations,   \* bound on the activators (barriers) created in a run
    ShmRegions        \* get_shm_regions(): [present, addr, regions : Seq([offset, len])],
                      \* each u64 as [hi, lo] (see AddU64)

ASSUME /\ NumQueues \in Nat /\ QueueMaxSize \in 1..65535
       /\ ResetSupported \in BOOLEAN /\ ActivateMayFail \in BOOLEAN
       /\ MaxActivations \in Nat

QIdx == 0..(NumQueues - 1)

\* Status bits of the virtio device status register.
DEVICE_INIT        == 0
DEVICE_ACKNOWLEDGE == 1
DEVICE_DRIVER      == 2
DEVICE_DRIVER_OK   == 4
DEVICE_FEATURES_OK == 8
DEVICE_FAILED      == 128

\* interrupt_status holds a usize; it is kept as the set of its set bits.
INTERRUPT_STATUS_USED_RING      == 0   \* bit 0, value 0x1
INTERRUPT_STATUS_CONFIG_CHANGED == 1   \* bit 1, value 0x2

\* The set bits of a register value, from bit i upwards.
RECURSIVE BitsFrom(_, _)
BitsFrom(v, i) ==
    IF v = 0 THEN {}
    ELSE (IF v % 2 = 1 THEN {i} ELSE {}) \cup BitsFrom(v \div 2, i + 1)

Bits(v) == BitsFrom(v, 0)

NoBarrier == 0   \* the activator's barrier is None

Rings == {"desc", "avail", "used"}

\* The queue registers that set one half of a ring address: off -> <<ring, half>>.
AddrRegs == (\h80 :> <<"desc", 1>>)  @@ (\h84 :> <<"desc", 2>>)
         @@ (\h90 :> <<"avail", 1>>) @@ (\h94 :> <<"avail", 2>>)
         @@ (\hA0 :> <<"used", 1>>)  @@ (\hA4 :> <<"used", 2>>)

\* Queue::new(max_size) and Queue::reset: not ready, full size, zero rings.
QueueInit == [size |-> QueueMaxSize, ready |-> FALSE,
              addr |-> [r \in Rings |-> <<0, 0>>]]

VARIABLES
    features_select, acked_features_select, queue_select, driver_status,
    shm_region_select,
    queues,            \* [QIdx -> queue record]
    virtio_interrupt,  \* TRUE iff the transport holds Some(adapter)
    device_activated,  \* the shared AtomicBool
    interrupt_status,  \* the shared AtomicUsize, as a set of bits
    pending,           \* pending_activations: Seq of activator records
    activate_evt,      \* the activate EventFd counter
    barrier,           \* barrier[b]: parties that have called wait on barrier b
    vcpu,              \* [Vcpus -> [st : {"idle", "wait"}, b : barrier id]]
    worker,            \* activation worker: [st, b]
    batch,             \* activators the worker drained and has yet to run
    dev                \* backing device: [active, interrupt, queues, acked]

transport == <<features_select, acked_features_select, queue_select,
               driver_status, shm_region_select, queues, virtio_interrupt>>
vars == <<transport, device_activated, interrupt_status, pending,
          activate_evt, barrier, vcpu, worker, batch, dev>>

Activator == [queues : SUBSET QIdx, interrupt : BOOLEAN,
              barrier : 0..MaxActivations]

TypeOK ==
    /\ queues \in [QIdx -> [size : 0..65535, ready : BOOLEAN,
                            addr : [Rings -> Seq(Nat)]]]
    /\ queue_select \in Nat /\ driver_status \in Nat
    /\ virtio_interrupt \in BOOLEAN /\ device_activated \in BOOLEAN
    /\ interrupt_status \subseteq 0..1
    /\ pending \in Seq(Activator) /\ batch \in Seq(Activator)
    /\ barrier \in Seq(0..2) /\ Len(barrier) <= MaxActivations
    /\ vcpu \in [Vcpus -> [st : {"idle", "wait"}, b : 0..MaxActivations]]
    /\ worker \in [st : {"idle", "run", "arrive", "wait", "dead"}, b : 0..MaxActivations]
    /\ dev \in [active : BOOLEAN, interrupt : BOOLEAN, queues : SUBSET QIdx,
                acked : SUBSET (0..63)]

Init ==
    /\ features_select = 0 /\ acked_features_select = 0 /\ queue_select = 0
    /\ driver_status = DEVICE_INIT /\ shm_region_select = 0
    /\ queues = [i \in QIdx |-> QueueInit]
    /\ virtio_interrupt = TRUE
    /\ device_activated = FALSE
    /\ interrupt_status = {}
    /\ pending = <<>> /\ batch = <<>>
    /\ activate_evt = 0
    /\ barrier = <<>>
    /\ vcpu = [c \in Vcpus |-> [st |-> "idle", b |-> NoBarrier]]
    /\ worker = [st |-> "idle", b |-> NoBarrier]
    /\ dev = [active |-> FALSE, interrupt |-> FALSE, queues |-> {},
              acked |-> {}]

-----------------------------------------------------------------------------
(* The init state machine's two derived predicates.                        *)

is_driver_ready(ds) ==
    /\ ds = DEVICE_ACKNOWLEDGE + DEVICE_DRIVER + DEVICE_DRIVER_OK
            + DEVICE_FEATURES_OK
    /\ (ds \div DEVICE_FAILED) % 2 = 0

is_driver_init(ds) == ds = DEVICE_INIT

needs_activation(ds) == ~device_activated /\ is_driver_ready(ds)

(* Register decoding of BusDevice::write: a 4-byte access to the control   *)
(* window sets the register at its offset; anything else leaves it alone.  *)

IsCtl(w) == w.off \in 0..\hFF /\ w.len = 4

Reg(w, off, old) == IF IsCtl(w) /\ w.off = off THEN w.val ELSE old

\* One of the with_queue_mut writes, applied to the selected queue.
QueueWrite(q, off, v) ==
    CASE off = \h38 -> [q EXCEPT !.size = v % 2^16]
      [] off = \h44 -> [q EXCEPT !.ready = (v = 1)]
      [] off \in DOMAIN AddrRegs ->
             [q EXCEPT !.addr[AddrRegs[off][1]][AddrRegs[off][2]] = v]
      [] OTHER -> q

\* with_queue_mut: the write is dropped when queue_select is out of range.
with_queue_mut(w) ==
    IF IsCtl(w) /\ queue_select \in QIdx
    THEN [queues EXCEPT ![queue_select] = QueueWrite(@, w.off, w.val)]
    ELSE queues

\* 0x20: ack_features((v as u64) << (acked_features_select * 32)) if the
\* page is 0 or 1; the device accumulates the acked bits.
AckFeatures(w) ==
    IF IsCtl(w) /\ w.off = \h20 /\ acked_features_select < 2
    THEN dev.acked \cup {i + 32 * acked_features_select : i \in Bits(w.val)}
    ELSE dev.acked

\* prepare_activator: the ready queues, the adapter taken out of the
\* transport, and the barrier.
prepare_activator(qs, b) ==
    [queues |-> {i \in QIdx : qs[i].ready}, interrupt |-> virtio_interrupt,
     barrier |-> b]

-----------------------------------------------------------------------------
(* BusDevice::write by vCPU c, under the device mutex: decode the access  *)
(* (DecodeRegs sets the registers the code's tail never touches), then     *)
(* take at most one of the two transitions the code checks after the match.*)

DecodeRegs(w) ==
    /\ features_select' = Reg(w, \h14, features_select)
    /\ acked_features_select' = Reg(w, \h24, acked_features_select)
    /\ shm_region_select' = Reg(w, \hAC, shm_region_select)
    /\ interrupt_status' = IF IsCtl(w) /\ w.off = \h64
                           THEN interrupt_status \ Bits(w.val)
                           ELSE interrupt_status

\* The registers the tail may override, as the match left them.
Decoded(w) ==
    /\ driver_status' = Reg(w, \h70, driver_status)
    /\ queues' = with_queue_mut(w)
    /\ queue_select' = Reg(w, \h30, queue_select)
    /\ dev' = [dev EXCEPT !.acked = AckFeatures(w)]

\* Mutant: prepare_activator clones the adapter instead of take()-ing it.
WriteActivate_clone_adapter(c, w) ==
    /\ needs_activation(Reg(w, \h70, driver_status))
    /\ Len(barrier) < MaxActivations
    /\ Decoded(w)
    /\ LET b == Len(barrier) + 1 IN
       /\ pending' = Append(pending, prepare_activator(with_queue_mut(w), b))
       /\ barrier' = Append(barrier, 1)
       /\ vcpu' = [vcpu EXCEPT ![c] = [st |-> "wait", b |-> b]]
    /\ activate_evt' = activate_evt + 1
    /\ UNCHANGED <<virtio_interrupt, device_activated>>

\* Mutant: the activation check ignores device_activated.
WriteActivate_ignore_flag(c, w) ==
    /\ is_driver_ready(Reg(w, \h70, driver_status))
    /\ Len(barrier) < MaxActivations
    /\ Decoded(w)
    /\ LET b == Len(barrier) + 1 IN
       /\ pending' = Append(pending, prepare_activator(with_queue_mut(w), b))
       /\ barrier' = Append(barrier, 1)
       /\ vcpu' = [vcpu EXCEPT ![c] = [st |-> "wait", b |-> b]]
    /\ activate_evt' = activate_evt + 1
    /\ virtio_interrupt' = FALSE
    /\ UNCHANGED device_activated

\* needs_activation(): queue an activator, write activate_evt and return
\* the barrier, on which the vCPU then waits (VmOps::mmio_write).
WriteActivate(c, w) ==
    /\ needs_activation(Reg(w, \h70, driver_status))
    /\ Len(barrier) < MaxActivations
    /\ Decoded(w)
    /\ LET b == Len(barrier) + 1 IN
       /\ pending' = Append(pending, prepare_activator(with_queue_mut(w), b))
       /\ barrier' = Append(barrier, 1)
       /\ vcpu' = [vcpu EXCEPT ![c] = [st |-> "wait", b |-> b]]
    /\ activate_evt' = activate_evt + 1
    /\ virtio_interrupt' = FALSE
    /\ UNCHANGED device_activated

\* Mutant: the reset path forgets to clear device_activated.
WriteReset_keep_flag(w) ==
    /\ device_activated /\ is_driver_init(Reg(w, \h70, driver_status))
    /\ ResetSupported
    /\ driver_status' = DEVICE_INIT
    /\ virtio_interrupt' = dev.interrupt
    /\ queues' = [i \in QIdx |-> QueueInit]
    /\ queue_select' = 0
    /\ dev' = [active |-> FALSE, interrupt |-> FALSE, queues |-> {},
               acked |-> AckFeatures(w)]
    /\ UNCHANGED <<device_activated, pending, activate_evt, barrier, vcpu>>

\* The driver reset an activated device and reset() returned its adapter:
\* reinstall it, clear device_activated, reset every queue, zero queue_select.
WriteReset(w) ==
    /\ device_activated /\ is_driver_init(Reg(w, \h70, driver_status))
    /\ ResetSupported
    /\ driver_status' = DEVICE_INIT
    /\ virtio_interrupt' = dev.interrupt
    /\ device_activated' = FALSE
    /\ queues' = [i \in QIdx |-> QueueInit]
    /\ queue_select' = 0
    /\ dev' = [active |-> FALSE, interrupt |-> FALSE, queues |-> {},
               acked |-> AckFeatures(w)]
    /\ UNCHANGED <<pending, activate_evt, barrier, vcpu>>

\* Mutant: device_activated is cleared even when reset() returned None.
WriteResetUnsupported_clear_flag(w) ==
    /\ device_activated /\ is_driver_init(Reg(w, \h70, driver_status))
    /\ ~ResetSupported
    /\ driver_status' = DEVICE_FAILED
    /\ device_activated' = FALSE
    /\ queues' = with_queue_mut(w)
    /\ queue_select' = Reg(w, \h30, queue_select)
    /\ dev' = [dev EXCEPT !.acked = AckFeatures(w)]
    /\ UNCHANGED <<virtio_interrupt, pending, activate_evt, barrier, vcpu>>

\* reset() returned None: driver_status is overwritten with DEVICE_FAILED.
WriteResetUnsupported(w) ==
    /\ device_activated /\ is_driver_init(Reg(w, \h70, driver_status))
    /\ ~ResetSupported
    /\ driver_status' = DEVICE_FAILED
    /\ queues' = with_queue_mut(w)
    /\ queue_select' = Reg(w, \h30, queue_select)
    /\ dev' = [dev EXCEPT !.acked = AckFeatures(w)]
    /\ UNCHANGED <<virtio_interrupt, device_activated, pending, activate_evt,
                   barrier, vcpu>>

\* Neither transition applies: the write returns None.
WritePlain(w) ==
    /\ ~needs_activation(Reg(w, \h70, driver_status))
    /\ ~(device_activated /\ is_driver_init(Reg(w, \h70, driver_status)))
    /\ Decoded(w)
    /\ UNCHANGED <<virtio_interrupt, device_activated, pending, activate_evt,
                   barrier, vcpu>>

Write(c, w) ==
    /\ vcpu[c].st = "idle"
    /\ DecodeRegs(w)
    /\ \/ WriteActivate(c, w)
       \/ WriteReset(w)
       \/ WriteResetUnsupported(w)
       \/ WritePlain(w)
    /\ UNCHANGED <<worker, batch>>

\* The vCPU blocked in VmOps::mmio_write leaves barrier.wait() once both
\* parties have arrived.
VcpuRelease(c) ==
    /\ vcpu[c].st = "wait"
    /\ barrier[vcpu[c].b] = 2
    /\ vcpu' = [vcpu EXCEPT ![c] = [st |-> "idle", b |-> NoBarrier]]
    /\ UNCHANGED <<transport, device_activated, interrupt_status, pending,
                   activate_evt, barrier, worker, batch, dev>>

-----------------------------------------------------------------------------
(* The activation worker: woken by activate_evt it drains                   *)
(* pending_activations under its mutex, then runs each activator.           *)

WorkerDrain ==
    /\ worker.st = "idle"
    /\ activate_evt > 0
    /\ activate_evt' = 0
    /\ batch' = pending
    /\ pending' = <<>>
    /\ worker' = [worker EXCEPT !.st = "run"]
    /\ UNCHANGED <<transport, device_activated, interrupt_status, barrier,
                   vcpu, dev>>

\* Mutant: the activator drops the barrier without waiting on it.
ActivatorActivate_no_wait ==
    /\ worker.st = "run"
    /\ batch /= <<>>
    /\ LET a == Head(batch) IN
       \/ /\ ~a.interrupt
          /\ worker' = [worker EXCEPT !.st = "dead"]
          /\ UNCHANGED <<batch, device_activated, dev>>
       \/ /\ a.interrupt
          /\ dev' = [dev EXCEPT !.active = TRUE, !.interrupt = TRUE,
                                !.queues = a.queues]
          /\ device_activated' = TRUE
          /\ batch' = Tail(batch)
          /\ UNCHANGED worker
       \/ /\ a.interrupt /\ ActivateMayFail
          /\ batch' = Tail(batch)
          /\ UNCHANGED <<dev, device_activated, worker>>
    /\ UNCHANGED <<transport, interrupt_status, pending, activate_evt, vcpu,
                   barrier>>

\* VirtioMmioDeviceActivator::activate on the head of the batch. The device
\* mutex is taken first; interrupt.take().unwrap() on None panics the worker
\* with that mutex held. On Ok the device holds the adapter and the queues,
\* and device_activated is stored; an activator with a barrier then goes on
\* to barrier.wait(). On Err the adapter passed to activate() is dropped and
\* the function returns through `?` before the barrier.
ActivatorActivate ==
    /\ worker.st = "run"
    /\ batch /= <<>>
    /\ LET a == Head(batch) IN
       \/ /\ ~a.interrupt
          /\ worker' = [worker EXCEPT !.st = "dead"]
          /\ UNCHANGED <<batch, device_activated, dev>>
       \/ /\ a.interrupt
          /\ dev' = [dev EXCEPT !.active = TRUE, !.interrupt = TRUE,
                                !.queues = a.queues]
          /\ device_activated' = TRUE
          /\ batch' = Tail(batch)
          /\ worker' = IF a.barrier /= NoBarrier
                       THEN [st |-> "arrive", b |-> a.barrier] ELSE worker
       \/ /\ a.interrupt /\ ActivateMayFail
          /\ batch' = Tail(batch)
          /\ UNCHANGED <<dev, device_activated, worker>>
    /\ UNCHANGED <<transport, interrupt_status, pending, activate_evt, vcpu,
                   barrier>>

\* barrier.wait() in the activator, after the store of device_activated:
\* the worker arrives as the barrier's second party.
ActivatorWait ==
    /\ worker.st = "arrive"
    /\ barrier' = [barrier EXCEPT ![worker.b] = @ + 1]
    /\ worker' = [worker EXCEPT !.st = "wait"]
    /\ UNCHANGED <<transport, device_activated, interrupt_status, pending,
                   activate_evt, vcpu, batch, dev>>

WorkerRelease ==
    /\ worker.st = "wait"
    /\ barrier[worker.b] = 2
    /\ worker' = [st |-> "run", b |-> NoBarrier]
    /\ UNCHANGED <<transport, device_activated, interrupt_status, pending,
                   activate_evt, barrier, vcpu, batch, dev>>

WorkerDone ==
    /\ worker.st = "run"
    /\ batch = <<>>
    /\ worker' = [worker EXCEPT !.st = "idle"]
    /\ UNCHANGED <<transport, device_activated, interrupt_status, pending,
                   activate_evt, barrier, vcpu, batch, dev>>

-----------------------------------------------------------------------------
(* VirtioInterruptIntx::trigger, called by the device's worker threads     *)
(* through the adapter they were given: OR the kind's bit into             *)
(* interrupt_status, then fire the interrupt sink (not modelled).          *)
Trigger(bit) ==
    /\ dev.active /\ dev.interrupt
    /\ interrupt_status' = interrupt_status \cup {bit}
    /\ UNCHANGED <<transport, device_activated, pending, activate_evt,
                   barrier, vcpu, worker, batch, dev>>

-----------------------------------------------------------------------------
(* BusDevice::read by a vCPU, under the bus's device mutex. It changes no  *)
(* state; its outcome is the data written back, no data at all, or a panic *)
(* of the vCPU thread. Values the backing device supplies are kept as      *)
(* symbols.                                                                *)

MMIO_MAGIC_VALUE == \h74726976
MMIO_VERSION == 2
VENDOR_ID == 0

NoData == [r |-> "none"]
Data(v) == [r |-> "data", v |-> v]
ReadPanics == [r |-> "panic"]

\* with_queue: f of the selected queue, or dflt when queue_select is out
\* of range.
with_queue(f(_), dflt) ==
    IF queue_select \in QIdx THEN f(queues[queue_select]) ELSE dflt

\* A u64 is kept as its two u32 halves, [hi, lo]. TLC's integers are 32-bit,
\* so a half has U32Bits bits here instead of 32; the carry is kept.
U32Bits == 16
U32 == 2^U32Bits
U64Max == [hi |-> U32 - 1, lo |-> U32 - 1]   \* !0 as u64
AddU64(a, b) ==
    [hi |-> (a.hi + b.hi + (a.lo + b.lo) \div U32) % U32,
     lo |-> (a.lo + b.lo) % U32]

\* The four shared-memory registers for a region at offset o of length l:
\* `as u32` is the low half and `>> 32` the high one; any other offset in
\* 0xb0..=0xbc logs an error and reads 0.
ShmField(off, o, l) ==
    CASE off = \hB0 -> Data(l.lo)
      [] off = \hB4 -> Data(l.hi)
      [] off = \hB8 -> Data(o.lo)
      [] off = \hBC -> Data(o.hi)
      [] OTHER      -> Data(0)

\* 0xb0..=0xbc: the selected region, or (0, !0) when the device has no
\* regions or shm_region_select > region_list.len(). A selector equal to
\* the length passes that check and region_list[len] is out of bounds.
ShmRead(off) ==
    LET n   == Len(ShmRegions.regions)
        sel == shm_region_select
    IN  IF ShmRegions.present /\ ~(sel > n)
        THEN IF sel < n
             THEN LET reg == ShmRegions.regions[sel + 1]
                  IN  ShmField(off, AddU64(reg.offset, ShmRegions.addr), reg.len)
             ELSE ReadPanics
        ELSE ShmField(off, [hi |-> 0, lo |-> 0], U64Max)

\* 0x10: page features_select of the device's 64-bit features, and 0 for
\* a page past the second, where the shift by features_select * 32 would
\* overflow.
FeaturesRead ==
    Data(IF features_select < 2 THEN <<"features", features_select>> ELSE 0)

\* A 4-byte read of the control window, decoded by offset.
ControlRead(off) ==
    CASE off = \h00 -> Data(MMIO_MAGIC_VALUE)
      [] off = \h04 -> Data(MMIO_VERSION)
      [] off = \h08 -> Data(<<"device_type">>)
      [] off = \h0C -> Data(VENDOR_ID)
      [] off = \h10 -> FeaturesRead
      [] off = \h34 -> Data(with_queue(LAMBDA q : QueueMaxSize, 0))
      [] off = \h44 -> Data(with_queue(LAMBDA q : IF q.ready THEN 1 ELSE 0, 0))
      [] off = \h60 -> Data(IF interrupt_status = {} THEN 0
                            ELSE CHOOSE v \in 1..3 : Bits(v) = interrupt_status)
      [] off = \h70 -> Data(driver_status)
      [] off = \hFC -> Data(0)   \* config_generation, never written
      [] off \in \hB0..\hBC -> ShmRead(off)
      [] OTHER -> NoData          \* unknown register: warn, data untouched

\* BusDevice::read of len bytes at off.
read(off, len) ==
    CASE off \in 0..\hFF /\ len = 4 -> ControlRead(off)
      [] off \in \h100..\hFFF -> Data(<<"config", off - \h100>>)
      [] OTHER -> NoData

Worker == WorkerDrain \/ ActivatorActivate \/ ActivatorWait \/ WorkerRelease
          \/ WorkerDone

Next ==
    \/ \E c \in Vcpus, w \in GuestWrites : Write(c, w)
    \/ \E c \in Vcpus : VcpuRelease(c)
    \/ Worker
    \/ \E bit \in {INTERRUPT_STATUS_USED_RING,
                   INTERRUPT_STATUS_CONFIG_CHANGED} : Trigger(bit)

\* The worker thread and a vCPU woken by its barrier are scheduled by the
\* OS; the guest and the device's own threads need not act.
Spec == Init /\ [][Next]_vars
             /\ WF_vars(Worker) /\ \A c \in Vcpus : WF_vars(VcpuRelease(c))

-----------------------------------------------------------------------------
(* Properties.                                                             *)

\* The parties holding the interrupt adapter made in VirtioMmioDevice::new.
AdapterHolders ==
    (IF virtio_interrupt THEN {<<"transport", 0>>} ELSE {})
    \cup {<<"pending", i>> : i \in {j \in DOMAIN pending : pending[j].interrupt}}
    \cup {<<"batch", i>> : i \in {j \in DOMAIN batch : batch[j].interrupt}}
    \cup (IF dev.interrupt THEN {<<"device", 0>>} ELSE {})

\* The interrupt adapter has exactly one owner at every moment: the
\* transport until prepare_activator takes it, the activator until the
\* worker passes it to the device's activate(), the device until reset()
\* returns it. Two owners mean two activators or a copy; none means the
\* next activation's interrupt.take().unwrap() panics.
InterruptAdapterConserved == Cardinality(AdapterHolders) = 1

\* Every activator queued by BusDevice::write, or drained by the worker and
\* not yet run, carries the adapter, so VirtioMmioDeviceActivator::activate
\* cannot panic on interrupt.take().unwrap() with the device mutex held.
ActivatorsCarryInterrupt ==
    /\ \A i \in DOMAIN pending : pending[i].interrupt
    /\ \A i \in DOMAIN batch : batch[i].interrupt
    /\ worker.st /= "dead"

\* The transport's device_activated flag, which decides both activation and
\* reset in BusDevice::write, agrees with whether the backing device is live.
ActivatedAgreesWithDevice == device_activated = dev.active

\* The activation phase the transport's state stands for: active once
\* device_activated is stored, requested while a vCPU waits on the barrier
\* of its DRIVER_OK write, inactive otherwise.
ActivationPhase ==
    IF device_activated THEN "active"
    ELSE IF \E c \in Vcpus : vcpu[c].st = "wait" THEN "requested"
    ELSE "inactive"

Activation == INSTANCE VirtioActivation
                  WITH phase <- ActivationPhase,
                       blocked <- {c \in Vcpus : vcpu[c].st = "wait"}

\* The write path, the activator, the worker and the barrier together
\* implement the abstract activation protocol, its liveness included:
\* every DRIVER_OK write is followed by activation, then the vCPU's
\* release, and no step re-activates an active device.
ImplementsActivation == Activation!Spec

\* A guest read of any control register, whatever the selectors hold, is
\* answered or ignored: BusDevice::read never panics the vCPU thread (a
\* panic there also poisons the device mutexes it holds).
ReadsNeverPanic == \A o \in 0..63 : read(4 * o, 4).r /= "panic"

\* A vCPU blocked on an activation barrier in VmOps::mmio_write is
\* eventually released: the worker always reaches barrier.wait().
BlockedVcpuReleased ==
    \A c \in Vcpus : vcpu[c].st = "wait" ~> vcpu[c].st = "idle"

====
