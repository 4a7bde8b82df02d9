----------------------------- MODULE VmHotplug ------------------------------
(***************************************************************************)
(* Run-time reconfiguration of a Vm (vmm/src/vm.rs): the hot-plug calls    *)
(* add_device, add_user_device, add_disk, add_fs, add_pmem, add_net,       *)
(* add_vsock and remove_device, and resize and resize_zone.                *)
(*                                                                         *)
(* Each call changes two things: the live VM, held by the device, CPU and  *)
(* memory managers, and the VmConfig from which a reboot rebuilds the VM.  *)
(* Each is a chain of fallible calls that returns at the first error,      *)
(* leaving the effects of the calls before it in place. Which calls may    *)
(* fail is the constant Fallible; the managers themselves are not part of  *)
(* this code and are kept as the value their last successful call left.    *)
(***************************************************************************)
EXTENDS Naturals

CONSTANTS
    Kinds,          \* the VmConfig device lists exercised (a subset of AllKinds)
    Ids,            \* device ids
    Fallible,       \* the calls that may return an error (a subset of Steps)
    NoValue,        \* None, for an optional argument or config entry
    BootVcpus,      \* cpus.boot_vcpus at boot
    BootMemory,     \* memory.size at boot
    Zones,          \* the ids of memory.zones
    ZoneSize,       \* the boot size of every zone
    VcpuCounts,     \* desired_vcpus arguments
    MemSizes,       \* desired_memory arguments (resize and resize_zone)
    BalloonSizes    \* desired_balloon arguments

\* The device lists of VmConfig; "vsock" is the Option config.vsock.
AllKinds == {"devices", "user_devices", "disks", "fs", "pmem", "net", "vsock"}

Steps == {"validate", "dm_add", "dm_remove", "notify", "cpu_resize",
          "mm_resize", "update_memory", "resize_balloon", "mm_resize_zone"}

\* The memory manager's behaviour for a target below the boot RAM is not
\* part of this code, so such targets are not given.
ASSUME /\ Kinds \subseteq AllKinds /\ Fallible \subseteq Steps
       /\ \A m \in MemSizes : m >= BootMemory

\* What a resize may be asked to change.
Resources == {"vcpus", "memory", "balloon"} \cup Zones

VARIABLES
    config,   \* the VmConfig device lists: kind -> set of ids
    dm,       \* the device manager's devices: id -> kind, or NoValue
    res,      \* the live and the configured sizes of vCPUs, memory, balloon, zones
    reply     \* the result of the last call, and what a resize asked for

vars == <<config, dm, res, reply>>

\* Vm::new: the config and the device manager agree (no device yet),
\* with or without a balloon device, with either memory.hotplug_method.
Init ==
    /\ config = [k \in Kinds |-> {}]
    /\ dm = [i \in Ids |-> NoValue]
    /\ \E b \in {0, NoValue}, m \in {"Acpi", "VirtioMem"} :
         res = [method |-> m, vcpus |-> BootVcpus, cfg_vcpus |-> BootVcpus,
                mem |-> BootMemory, cfg_size |-> BootMemory, cfg_hot |-> 0,
                balloon |-> b, cfg_balloon |-> b,
                zone |-> [z \in Zones |-> 0], cfg_zone |-> [z \in Zones |-> 0]]
    /\ reply = [ok |-> TRUE, asked |-> {}]

Fails(step) == step \in Fallible

Reply(ok, asked) == reply' = [ok |-> ok, asked |-> asked]

-----------------------------------------------------------------------------
(* Hot-plug.                                                               *)

\* Vm::add_to_config: push onto the list (a None list becomes Some).
add_to_config(k, id) == [config EXCEPT ![k] = @ \cup {id}]

\* The tail shared by every add call once the device manager has added the
\* device: the config updated, then notify_hotplug(PCI_DEVICES_CHANGED).
AddedThenNotify(k, id) ==
    /\ dm' = [dm EXCEPT ![id] = k]
    /\ config' = add_to_config(k, id)
    /\ \/ Fails("notify") /\ Reply(FALSE, {})
       \/ Reply(TRUE, {})

\* Mutant: the config is updated before the device manager's add.
AddToList_config_first(k, id) ==
    /\ config' = add_to_config(k, id)
    /\ \/ (Fails("dm_add") \/ dm[id] /= NoValue) /\ Reply(FALSE, {})
          /\ UNCHANGED dm
       \/ dm[id] = NoValue /\ dm' = [dm EXCEPT ![id] = k]
          /\ \/ Fails("notify") /\ Reply(FALSE, {})
             \/ Reply(TRUE, {})
    /\ UNCHANGED res

\* An add call for a device list: validate on a clone of the config, the
\* device manager's add (which refuses an id already in use), then the
\* tail above. An error of the first two leaves everything as it was.
AddToList(k, id) ==
    /\ \/ Fails("validate") /\ Reply(FALSE, {}) /\ UNCHANGED <<config, dm>>
       \/ (Fails("dm_add") \/ dm[id] /= NoValue) /\ Reply(FALSE, {})
          /\ UNCHANGED <<config, dm>>
       \/ dm[id] = NoValue /\ AddedThenNotify(k, id)
    /\ UNCHANGED res


\* Vm::add_vsock: refused while config.vsock is Some, then as the others.
add_vsock(id) ==
    /\ \/ config["vsock"] /= {} /\ Reply(FALSE, {}) /\ UNCHANGED <<config, dm>>
       \/ config["vsock"] = {} /\ AddToList("vsock", id)
    /\ UNCHANGED res

\* The config lists remove_device edits: every list but fs.
RemovedFrom == {"devices", "user_devices", "disks", "pmem", "net", "vsock"}

\* Vm::remove_device: the device manager's remove (an unknown id is an
\* error), the id dropped from the config lists above (vsock only if it
\* is that device), then notify_hotplug.
remove_device(id) ==
    /\ \/ (Fails("dm_remove") \/ dm[id] = NoValue) /\ Reply(FALSE, {})
          /\ UNCHANGED <<config, dm>>
       \/ /\ dm[id] /= NoValue
          /\ dm' = [dm EXCEPT ![id] = NoValue]
          /\ config' = [k \in Kinds |->
                          IF k \in RemovedFrom THEN config[k] \ {id}
                                               ELSE config[k]]
          /\ \/ Fails("notify") /\ Reply(FALSE, {})
             \/ Reply(TRUE, {})
    /\ UNCHANGED res

\* A hot-plug call of a device list this model exercises: add_device,
\* add_user_device, add_disk, add_fs, add_pmem and add_net are AddToList on
\* their own list, and add_vsock above.
HotAdd(id) ==
    \/ \E k \in Kinds \ {"vsock"} : AddToList(k, id)
    \/ "vsock" \in Kinds /\ add_vsock(id)

-----------------------------------------------------------------------------
(* Resize. A stage of resize maps the sizes r to the set of its outcomes:  *)
(* the sizes it leaves, and whether it returned an error.                  *)

Ok(r)  == [r |-> r, err |-> FALSE]
Err(r) == [r |-> r, err |-> TRUE]

\* Run the next stage on every outcome that did not return early.
Then(outs, Stage(_)) == UNION {IF o.err THEN {o} ELSE Stage(o.r) : o \in outs}

\* desired_vcpus: cpu_manager.resize, notify_hotplug(CPU_DEVICES_CHANGED)
\* if it hot(un)plugged a vCPU, then cpus.boot_vcpus.
VcpuStage(r, dv) ==
    IF dv = NoValue THEN {Ok(r)}
    ELSE LET moved == [r EXCEPT !.vcpus = dv]
         IN  (IF Fails("cpu_resize") THEN {Err(r)} ELSE {})
             \cup (IF dv /= r.vcpus /\ Fails("notify") THEN {Err(moved)} ELSE {})
             \cup {Ok([moved EXCEPT !.cfg_vcpus = dv])}

\* The memory config written after the memory stage: memory.size under
\* ACPI, memory.hotplugged_size (None when not above the size) under
\* virtio-mem, whatever the guest did with the new target.
MemRecorded(r, dmem) ==
    IF r.method = "Acpi" THEN [r EXCEPT !.cfg_size = dmem]
    ELSE [r EXCEPT !.cfg_hot = IF dmem > r.cfg_size THEN dmem - r.cfg_size ELSE 0]

\* desired_memory: memory_manager.resize, which returns a new region for
\* an ACPI hot-add; for a new region device_manager.update_memory and,
\* under ACPI, notify_hotplug(MEMORY_DEVICES_CHANGED); then the config,
\* "regardless of the actual guest resize". ACPI memory only grows; a
\* virtio-mem target is a request the guest may or may not carry out.
MemStage(r, dmem) ==
    IF dmem = NoValue THEN {Ok(r)}
    ELSE LET region == r.method = "Acpi" /\ dmem > r.mem
             lives  == IF r.method = "Acpi"
                       THEN {IF region THEN dmem ELSE r.mem}
                       ELSE {r.mem, dmem}
         IN  (IF Fails("mm_resize") THEN {Err(r)} ELSE {})
             \cup (IF region /\ (Fails("update_memory") \/ Fails("notify"))
                   THEN {Err([r EXCEPT !.mem = dmem])} ELSE {})
             \cup {Ok(MemRecorded([r EXCEPT !.mem = m], dmem)) : m \in lives}

\* desired_balloon: device_manager.resize_balloon (an error when there is
\* no balloon device), then balloon.size if the config has a balloon.
BalloonStage(r, db) ==
    IF db = NoValue THEN {Ok(r)}
    ELSE (IF Fails("resize_balloon") \/ r.balloon = NoValue THEN {Err(r)} ELSE {})
         \cup (IF r.balloon /= NoValue
               THEN {Ok([r EXCEPT !.balloon = db, !.cfg_balloon = db])} ELSE {})

\* Vm::resize: the vCPU, memory and balloon stages in that order.
resize(dv, dmem, db) ==
    LET outs == Then(Then(VcpuStage(res, dv), LAMBDA r : MemStage(r, dmem)),
                     LAMBDA r : BalloonStage(r, db))
        args == {x \in {<<"vcpus", dv>>, <<"memory", dmem>>, <<"balloon", db>>} :
                   x[2] /= NoValue}
    IN  /\ \E o \in outs :
             /\ res' = o.r
             /\ Reply(~o.err, {x[1] : x \in args})
        /\ UNCHANGED <<config, dm>>

\* Vm::resize_zone: for the zone with that id, memory_manager.resize_zone
\* by the amount above the zone's size, then its hotplugged_size; an
\* error for a smaller target or an unknown zone.
resize_zone(id, dmem) ==
    /\ \/ (id \notin Zones \/ dmem < ZoneSize) /\ Reply(FALSE, {})
          /\ UNCHANGED res
       \/ id \in Zones /\ dmem >= ZoneSize /\ Fails("mm_resize_zone")
          /\ Reply(FALSE, {}) /\ UNCHANGED res
       \/ /\ id \in Zones /\ dmem >= ZoneSize
          /\ res' = [res EXCEPT !.zone[id] = dmem - ZoneSize,
                                !.cfg_zone[id] = dmem - ZoneSize]
          /\ Reply(TRUE, {id})
    /\ UNCHANGED <<config, dm>>

Next ==
    \/ \E id \in Ids : HotAdd(id) \/ remove_device(id)
    \/ \E dv \in VcpuCounts \cup {NoValue}, dmem \in MemSizes \cup {NoValue},
          db \in BalloonSizes \cup {NoValue} : resize(dv, dmem, db)
    \/ \E z \in Zones \cup {"nozone"}, dmem \in MemSizes : resize_zone(z, dmem)

Spec == Init /\ [][Next]_vars

-----------------------------------------------------------------------------
(* Properties.                                                             *)

\* A reboot rebuilds exactly the live devices: whatever call failed along
\* the way, a device is in a VmConfig list of its kind iff the device
\* manager holds it as that kind. remove_device's comment promises the
\* removed device "would not be created in case of a reboot".
RebootRecreatesLiveDevices ==
    \A i \in Ids, k \in Kinds : (i \in config[k]) <=> (dm[i] = k)

====
