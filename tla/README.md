# TLA+ models of the virtio MMIO transport, the VM lifecycle and the FDT editor

This directory holds TLA+ models of four source files:

- `src/virtio-devices/src/transport/mmio.rs`
- `src/virtio-devices/src/transport/mod.rs`
- `src/vmm/src/vm.rs`
- `src/arch/src/aarch64/fdt_edit.rs`

It also holds the TLC configurations that check these models. `PROJECT.json` lists:

- every component;
- every run, with the properties it checks;
- the mutant that each property of a passing run must catch;
- the source lines behind each definition;
- the findings;
- the hazards the code is exposed to.

## The system and how its parts interact

**Virtio MMIO transport** (`mmio.rs`). A guest drives a virtio device through a register window.

- **Threads.**
  - vCPU threads dispatch guest MMIO writes to `BusDevice::write`. The bus's device mutex serialises these writes.
  - The activation worker runs the queued activators.
  - The backing device's threads raise interrupts.
- **Activation hand-off.**
  1. The guest writes `DRIVER_OK` (status 0x0f).
  2. `needs_activation()` holds, so `prepare_activator` moves the interrupt adapter and the ready queues into an activator record.
  3. The activator is pushed to `pending_activations`, `activate_evt` is written, and a two-party `Barrier` is returned.
  4. The vCPU blocks on that barrier in `VmOps::mmio_write` (`vm.rs`).
  5. The worker drains the queue and runs `VirtioMmioDeviceActivator::activate`. This calls the device's `activate`, sets `device_activated`, and waits on the barrier.
- **Reset.** Writing status 0 to an activated device calls `reset()`, which hands the interrupt adapter back.
- **Shared state.** `interrupt_status` and `device_activated` are atomics shared with the device threads.

**Snapshot and restore** (`Snapshottable for VirtioMmioDevice`).

- `state()` captures the transport's registers and queues.
- `restore()` runs on a fresh transport in a new VMM process. It applies `set_state`, then activates the device when the snapshot was activated and driver-ready.

**VM lifecycle** (`vm.rs`).

- The VMM's control thread calls `boot`, `pause`, `resume`, `shutdown`, `snapshot` and `restore` one at a time.
- `VmState::valid_transition` gates each of them.
- Each operation is a chain of fallible calls into the CPU manager, the device manager and the OS. An error returns early and leaves the earlier calls' effects in place.
- `setup_signal_handler` spawns a thread per call. `shutdown` closes the newest handle and joins every thread.

**Device hot-plug and resize** (`vm.rs`).

- The VMM's API calls `add_device`, `add_user_device`, `add_disk`, `add_fs`, `add_pmem`, `add_net`, `add_vsock`, `remove_device`, `resize` and `resize_zone`.
- Each one changes two stores: the live devices and sizes held by the device, CPU and memory managers, and the `VmConfig` a reboot rebuilds the VM from.
- Each one is a chain of fallible calls. An error returns early and leaves what the earlier calls did.

**Migration memory transfer** (`vm.rs`).

- `send_memory_regions` on the source writes every range of a `MemoryRangeTable` into the migration socket, and `receive_memory_regions` on the destination reads the same ranges into guest memory.
- Each loops on `write_to` / `read_from` until a range's offset reaches its length, since a call may move fewer bytes than asked for.
- When `send_memory_regions` fails, the migration code that called it drops the socket, and the destination reads end of stream.

**FDT editing** (`fdt_edit.rs`).

- Pure helpers over a `DeviceTree`: look up a node or its parent, edit a property in place, or re-emit the tree through an `FdtWriter` with or without an edit.
- `modify_prop_regs` builds a `reg` value with `create_vector_for_reg`.

**Not modelled:** `transport/mod.rs` only wires queue eventfds to `base + 0x50` and has no state.

## Modules

| Module | Models | State | Actions / operators |
|---|---|---|---|
| `VirtioMmio` | the transport's write path, the activator and its barrier, the worker, the interrupt adapter, and `VmOps::mmio_write`'s wait | the registers, `queues`, `virtio_interrupt` (whether the transport holds the adapter), `device_activated`, `interrupt_status` (as a set of bits), `pending`, `activate_evt`, barrier arrival counts, the vCPU and worker states, and the backing device | `Write(c, w)` = `BusDevice::write` for one access, split into `WriteActivate`, `WriteReset`, `WriteResetUnsupported` and `WritePlain` by the tail of the handler; `VcpuRelease`; the worker's `WorkerDrain`, `ActivatorActivate` (`activate()` and the store of `device_activated` on success; the early return on error; or the panic on a missing adapter), `ActivatorWait` (the worker's arrival at the barrier, after the store), `WorkerRelease` and `WorkerDone`; `Trigger`; the read path as the operator `read(off, len)` |
| `MmioSnapshot` | `Snapshottable` for the transport, composed with `VirtioMmio`, and the ring of one queue | adds `paused`, `snap`, a restore counter, and the ring: the guest's avail and used idx and used entries (`ring`), the transport's and the device's cursors (`tq`, `dq`), the popped requests (`inflight`), and the ring in the last snapshot (`memsnap`) | `Pause`, `Resume`, `TakeSnapshot`, and `Restore` (`set_state`, its cursors included, and `restore()` into a fresh process); `GuestPost`, `DevicePop`, `DeviceComplete`; a reset drops the ring and an activation hands the transport's cursors to the device |
| `VmShutdown` | `VmLifecycle` and `VirtioMmio` composed at the vCPU threads; the lifecycle's passing run is checked in this composition | the variables of both, and `joining` (shutdown waits in `cpu_manager.shutdown()`'s joins) | guest writes only on running vCPUs; `CpuShutdown` and `VcpusJoined` split `Vm::shutdown` at the vCPU joins, which wait while a vCPU is blocked on a barrier |
| `MemoryTransfer` | `send_memory_regions` and `receive_memory_regions` | `snd` and `rcv` (range index, offset and the step of each loop), `stream` (the bytes in the socket, named by their source address), `open` (the source's end), `dst` (the destination's guest memory) | `SendWrite`, `SendFails`, `SendCheck`; `RecvData`, `RecvEof`, `RecvFails`, `RecvCheck`; `LoopCheck` is the shared `offset == range.length` tail |
| `VmLifecycle` | `VmState`, `valid_transition`, and the lifecycle operations of `Vm` | `state`, the vCPU and device thread states, `saved_clock`, `signals`, `threads` (each handler closed or not), whether the first operation has run, the last snapshot's thread state, and `hung` | `Boot`, `Pause`, `Resume`, `Shutdown`, `Snapshot`, `Restore`, each with a disjunct per early return |
| `VirtioActivation` | the activation protocol, abstractly | `phase` (inactive, requested, active) and the set of blocked vCPUs | `Request(c)`, `Activate`, `Release(c)`, `Reset`, with weak fairness on activation and release |
| `VmHotplug` | the hot-plug and resize calls of `Vm` | `config` (each `VmConfig` device list as a set of ids), `dm` (the device manager's kind for each id), `res` (live and recorded vCPUs, memory, balloon and zone sizes, and the hot-plug method), and the last `reply` | `AddToList(k, id)` for each device list, `add_vsock`, `remove_device`, `resize` (three stages chained with `Then`), `resize_zone` |
| `FdtEdit` | `fdt_edit.rs` | `tree` | one action, `EditFdtTree`; `find_node`, `find_parent`, `copy_from_fdt_tree`, `edit_fdt_tree_with_writer` and `create_vector_for_reg` as RECURSIVE operators, checked against reference definitions (`Preorder`, `ParentOf`, `RegBytes`) |

### Abstractions in the modules

- **Read values.** The values that the backing device supplies (features, config space) are symbols. A u64 is kept as `[hi, lo]` halves of `U32Bits = 16` bits with the carry, because TLC's integers are 32-bit.
- **Hot-plug managers.** The device, CPU and memory managers are not under `src/`. `VmHotplug` assumes:
  - the device manager refuses an id already in use and the removal of an unknown id;
  - the device manager has a balloon exactly when the config has one;
  - `memory_manager.resize` returns a new region only for ACPI growth, and ACPI memory only grows;
  - a virtio-mem target is a request: the guest may or may not carry it out, so the live size after an Ok is either;
  - `MemSizes` are not below boot memory.
- **Register values** are numbers. Guest writes come from a small set of `[off, len, val]` records (`GuestWrites`).
- **Queue size** is reduced to u16 (`% 2^16`) as the code does.
- **Ring addresses** are kept as their written halves.
- **FDT values** are byte sequences with the most significant byte first, so `to_be()` on a little-endian host is a byte reversal, as in the code.
- **The worker's drain loop** belongs to the device manager, which is not under `src/`. It is modelled from spec section 5 and marked `spec_modelled`.
- **The CPU and device managers** are not under `src/`. `VmLifecycle` keeps only the run state their pause, resume and shutdown leave the threads in. Whether they fail is the constant `Fallible`.
- **The VMM around `Vm`** (its `lib.rs`) is also not under `src/`. The model assumes the following of it:
  - `boot` is the first operation after `Vm::new`;
  - `restore` is the first operation after `new_from_snapshot`;
  - the VMM keeps a `Vm` whose first operation failed, and may call `boot` on it again;
  - the VMM drops a `Vm` once it is shut down;
  - what `create_boot_vcpus` does when the vCPUs already exist is the CPU manager's, so the model lets it fail or go on.

## Runs

| Run | Config | Result | What it shows |
|---|---|---|---|
| `activation_cycle` | `MC_VirtioMmio_cycle.cfg` | pass | One vCPU with a device whose reset works. Through activate, reset and re-activate cycles: there is exactly one owner of the interrupt adapter (`InterruptAdapterConserved`); `device_activated` equals the device's liveness (`ActivatedAgreesWithDevice`); a blocked vCPU is eventually released (`BlockedVcpuReleased`); and the transport refines `VirtioActivation` (`ImplementsActivation`), whose `Release` needs an active device, so a vCPU is let go only after the activator stored `device_activated`, which the code does at mmio.rs:100 before `barrier.wait()`. |
| `second_activator` | `MC_VirtioMmio_twovcpus.cfg` | violation | A second vCPU's write during a pending activation queues an activator with no adapter, and the worker panics. |
| `shutdown_blocked_vcpu` | `MC_VmShutdown_actfail.cfg` | violation | A failing `activate()` returns before `barrier.wait()`, so the vCPU blocks forever. A later `Vm::shutdown` then never returns from joining it (`ShutdownReturns`). With an `activate()` that cannot fail, the same model satisfies the property. The model runs the activation worker as a thread of its own; if it is the VMM's control thread (its loop is in `lib.rs`, outside `src/`), that thread cannot be the one that shuts down, but the vCPU still never leaves `barrier.wait()`. |
| `snapshot_roundtrip` | `MC_MmioSnapshot_roundtrip.cfg` | pass | Snapshot then restore reproduces `state()`, and adapter ownership and the activation flag stay consistent. Snapshots may be taken with requests popped and not completed. After any restore the used ring the guest reads holds requests 1, 2, ... in order, each once (`UsedRingExact`). |
| `restore_failed_status` | `MC_MmioSnapshot_failedstatus.cfg` | violation | A snapshot taken at status 0x8f restores `device_activated = true` on a device that was never activated. |
| `vm_transport_any_failure` | `MC_VmShutdown_all.cfg` | pass | The lifecycle and the transport together: every lifecycle call fallible, and two vCPUs racing writes to a device whose `activate()` may fail and whose `reset()` is unsupported. `device_activated` never disagrees with the device, and FAILED is set without dropping the flag (`ActivatedAgreesWithDevice`). |
| `resume_half_done` | `MC_VmLifecycle_resume.cfg` | violation | `resume()` failing after `cpu_manager.resume()` leaves the state Paused with vCPUs running, and `snapshot()` accepts it. |
| `fdt_lookup_edit` | `MC_FdtEdit_lookup.cfg` | pass | On every reachable tree, `find_node` returns the first node in document order and `find_parent` returns the real parent. The writer-based edit agrees with the in-place edit for uniquely named non-root nodes. |
| `mmio_shm_select_panic` | `MC_VirtioMmio_shm.cfg` | violation | With one shared-memory region, the guest writes selector 1 and reads 0xb0. The `>` check at mmio.rs:394 lets 1 through, and `region_list[1]` panics the vCPU thread. |
| `hotplug_any_failure` | `MC_VmHotplug_all.cfg` | pass | With every call fallible, the config lists always name exactly the live devices (`RebootRecreatesLiveDevices`), while resize and resize_zone run and fail at every stage. |
| `hotplug_remove_fs` | `MC_VmHotplug_fs.cfg` | violation | `add_fs` then `remove_device` leaves the id in `config.fs`, so a reboot re-creates the removed device. |
| `migration_receive_eof` | `MC_MemoryTransfer_eof.cfg` | violation | The source's `write_to` fails part-way through the transfer and the socket is dropped. The destination's `read_from` then returns 0 at end of stream, the offset never moves, and `receive_memory_regions` loops forever (`ReceiveReturns`). With a source that cannot fail, the same model satisfies the property. |

Every property of a passing run has a mutant in `PROJECT.json`: a plausible bug in the mapped code that TLC catches under the run's own configuration. Examples:

- cloning the adapter into the activator;
- keeping `device_activated` on reset;
- skipping the barrier wait;
- `set_state` forgetting `shm_region_select`;
- restore without activation;
- an unsupported reset that clears `device_activated` while setting FAILED;
- a breadth-first `find_node`;
- `find_parent` returning the node itself;
- little-endian cells;
- activating on DRIVER_OK whether or not `needs_activation()` holds;
- updating the config before the device manager's add;
- `set_state` restoring `next_avail` but not `next_used`.

## Bounds and why they suffice

- **`VirtioMmio` queues.** `NumQueues = 2` and `QueueMaxSize = 4`, so one queue can be ready and the other not, and the u16 truncation of a size write (65538 becomes 2) shows.
- **`VirtioMmio` activations.** `MaxActivations = 3` bounds the barriers created in a run. This is enough for activate, reset and re-activate, and for a second activator queued behind a first.
- **`VirtioMmio` vCPUs.** One vCPU for the sequential questions. Two vCPUs for the races.
- **`VirtioMmio` writes.** The write alphabet covers:
  - status 0, 11, 15 and 0x8f;
  - queue select in range and out of range;
  - ready, size, and one half of an address;
  - the interrupt ack;
  - the feature and shm selectors;
  - an unknown offset, a bad width, and the config window.
- **`MmioSnapshot`.** `MaxRestores = 1`, with one queue in the round-trip run to keep it within minutes. One restore is enough, because the fixed-point property compares the first restore with its snapshot.
- **The ring.** `MaxRequests = 2`: a snapshot can hold one completed and one popped request, so the restored device has to redo one and keep the other.
- **`VmShutdown`, violation run.** One vCPU, one queue, and a driver that sets DRIVER_OK, enables the queue and resets. No lifecycle call fails, so the only path to a hang is the barrier.
- **`VmShutdown`, passing run.** Two vCPUs, two queues and `MaxActivations = 3`, with status writes, a queue enable, an interrupt ack and a config-window access. Every lifecycle call may fail. This is the transport's race configuration and the lifecycle's all-failures configuration at once (about 226,000 states).
- **`MemoryTransfer`.** Two ranges, of two bytes and one. A two-byte range can be moved in one call or in two, and a failure can fall inside a range or between ranges.
- **`VmLifecycle`.** `MaxHandlers = 2`: a boot that fails after `setup_signal_handler` and is retried spawns a second handler thread, and the bound lets that happen once.

  `Fallible` is every call in the passing run (checked in `VmShutdown`), and only resume's calls in the violation run.
- **`FdtEdit`.**
  - Two trees of four and five nodes. The second has a repeated node name and a repeated property key.
  - Two cell values and three u64 values: zero, a low-only value, and a value with a high word.

- **`VmHotplug`.** Two ids and six device lists (fs only in its own run). Every call is fallible. Two vCPU counts, two memory sizes, both hot-plug methods and an optional balloon. One NUMA zone. These bounds make each partial failure reachable, and a retry after it.

## Refinement

`VirtioActivation` is what the activation hand-off promises. `VirtioMmio` defines `Activation == INSTANCE VirtioActivation WITH phase <- ActivationPhase, blocked <- ...`, where:

- the phase is active while `device_activated` holds;
- the phase is requested while some vCPU waits on a barrier;
- otherwise it is inactive.

`activation_cycle` checks `Activation!Spec`, fairness included, as a PROPERTY.

## Fairness

- The vCPU's release from the barrier and the activation worker are OS threads, so the relevant modules assume weak fairness on them (`Spec`, `SSpec`).
- The guest gets no fairness: it may stop writing at any time.
- In `MmioSnapshot`, the orchestrator that paused the VM resumes it (weak fairness on `Resume`).
- The VMM's API calls get no fairness.
- In `VmShutdown`, the control thread blocked in the joins takes its step once they can return (weak fairness on `VcpusJoined`).
- The ring's guest and device steps get no fairness: only safety is checked of them.
- In `MemoryTransfer`, the sending and the receiving loops each run on a thread of their own VMM (weak fairness on `Sender` and `Receiver`). A read on an open, empty socket blocks, so it is not enabled.
- The abstract `VirtioActivation` has weak fairness on activation and release. It corresponds to the fairness on the worker and the vCPU release above.

## Checked without a deadlock check

- `vm_transport_any_failure`: a panicked worker leaves vCPUs blocked, a shut-down `Vm` is dropped, and a shutdown whose joins wait on a blocked vCPU or on a signal handler whose handle was lost stops the control thread.
- `migration_receive_eof`: both transfers end.
- The `VmHotplug` runs: an API client may stop calling.
- `shutdown_blocked_vcpu`: a shut-down `Vm` is dropped.

## Not modelled, and the plan

1. **Out-of-order completion.** The ring's device completes requests in the order it popped them. A device that completes out of order would make `next_avail = used_idx` redo a completed request and skip another, the open question of spec §9. For in-order completion, `snapshot_roundtrip` shows that requests in flight at snapshot time are redone after the restore, not dropped as §9 fears. No device under `src/` shows which order is used.
2. **The rest of migration.** The orchestration of a migration (sending the range table, the dirty-log rounds, the state) is in the VMM's `lib.rs`, outside `src/`. `MemoryTransfer` takes the table as given and models only the two loops.
3. **Other parts of `vm.rs`, out of scope:**
   - VM construction, kernel loading and system configuration;
   - TDX, NUMA, and the dirty-log calls of migration;
   - the pio and debug-port exits.

   These are configuration plumbing and I/O with no shared state in the core.
4. **Runs given up under the limit on runs.**
   - `MmioSnapshot` states `DriverOkLeadsToActivation`. Its violation is an activation still queued at snapshot time, which is lost by the restore. The two standalone runs of the lifecycle and of the racing transport were merged into `vm_transport_any_failure` to make room for `migration_receive_eof`.
   - `FdtEdit` states `ModifyPropRegsWritesReg`. It is violated because `create_vector_for_reg` panics on every valid input.

   Neither property is checked by a run now.
   - **A retried boot orphans a signal handler** (vm.rs:2183-2189). A `boot()` that fails in `setup_tty` leaves the state Created with a handler thread spawned. A second `boot()` (if the CPU manager lets `create_boot_vcpus` go on) calls `setup_signal_handler` again, overwriting `self.signals`. Shutdown closes only the newest handle, and its join of the first handler never returns. TLC finds this in four steps in the `vm_transport_any_failure` configuration with the invariant `~hung`; it is not a run of its own for lack of a slot.
   - **A half-done resize** (vm.rs:1481, 1501). After an Err the config lags the live vCPUs or memory, and a retried vCPU resize, which `cpu_manager.resize` reports as no change, records `boot_vcpus` without sending `CPU_DEVICES_CHANGED`. The model does not keep what the guest was notified of, and no passing property of resize says more than its assignments.
5. **`VirtioTransport::ioeventfds`** (`transport/mod.rs` and its impl in `mmio.rs`). It maps every queue event to `base + 0x50` and changes no state. How the VMM installs the events is outside `src/`.
6. **`NodeBuilder` and `add_child`.** These are dead code: they carry `allow(dead_code)` and have no caller.
