---------------------------- MODULE VmLifecycle -----------------------------
(***************************************************************************)
(* The VM lifecycle of vmm/src/vm.rs: VmState and valid_transition, and    *)
(* the operations the VMM's control thread calls on a Vm one at a time     *)
(* (they take &mut self): boot, pause, resume, shutdown, snapshot and      *)
(* restore. Each operation is a sequence of calls into the CPU manager,    *)
(* the device manager and the OS, any of which may return an error; the    *)
(* operation then returns early, leaving the effects of the calls before   *)
(* it in place. Which calls may fail is the constant Fallible.             *)
(*                                                                         *)
(* The CPU and device managers are not part of this code: their pause,     *)
(* resume and shutdown are modelled only by the run state they leave their *)
(* threads in. A call whose failure changes nothing is a stuttering step   *)
(* and is left out. The signal-handler threads spawned by                  *)
(* setup_signal_handler are kept one by one, since shutdown joins them.    *)
(***************************************************************************)
EXTENDS Naturals, Sequences

CONSTANTS
    Fallible,     \* the calls that may return an error (a subset of Steps)
    MaxHandlers   \* bound on the signal-handler threads alive at once

Steps == {"configure_system", "start_vcpus", "signal_handler", "tty",
          "device_pause", "set_clock", "dm_resume", "shutdown_dm_resume",
          "cpu_shutdown",
          "start_restored"}

ASSUME Fallible \subseteq Steps /\ MaxHandlers \in Nat \ {0}

VmStates == {"Created", "Running", "Shutdown", "Paused"}

\* VmState::valid_transition, as the set of allowed <<from, to>> pairs.
ValidTransitions ==
    {<<"Created", "Running">>, <<"Created", "Paused">>,
     <<"Running", "Paused">>, <<"Running", "Shutdown">>,
     <<"Shutdown", "Running">>,
     <<"Paused", "Running">>, <<"Paused", "Shutdown">>}

valid_transition(from, to) == <<from, to>> \in ValidTransitions

NoSnapshot == [none |-> TRUE]

VARIABLES
    state,     \* the Vm's RwLock<VmState>
    cpus,      \* the vCPU threads: "none", "created", "running", "paused", "stopped"
    devices,   \* the device threads: "running" or "paused"
    clock,     \* saved_clock is Some
    signals,   \* self.signals holds the handle of the newest handler
    handlers,  \* self.threads: for each signal-handler thread, is its handle closed
    origin,    \* how the Vm was built: Vm::new ("new") or new_from_snapshot
    started,   \* the first operation (boot or restore) has run
    snap,      \* the thread states and saved clock in the last snapshot, or NoSnapshot
    hung       \* shutdown is blocked joining a thread that never exits

vars == <<state, cpus, devices, clock, signals, handlers, origin, started,
          snap, hung>>

\* Vm::new / Vm::new_from_snapshot: state Created, no thread, no handle;
\* the clock saved by the snapshotted VM's pause is passed in.
Init ==
    /\ state = "Created" /\ cpus = "none" /\ devices = "running"
    /\ origin \in {"new", "snapshot"} /\ clock = (origin = "snapshot")
    /\ signals = FALSE /\ handlers = <<>> /\ started = FALSE
    /\ snap = NoSnapshot /\ hung = FALSE

Fails(step) == step \in Fallible

\* The CPU manager's pause and resume act on started vCPU threads only.
CpuPaused(c)  == IF c = "running" THEN "paused" ELSE c
CpuResumed(c) == IF c = "paused" THEN "running" ELSE c

\* create_boot_vcpus creates the boot vCPUs; vCPU threads that a failed
\* boot already started keep running.
CpuCreated(c) == IF c = "none" THEN "created" ELSE c

\* setup_signal_handler: a new handler thread whose handle replaces
\* self.signals (Signals::new failing only logs, and is left out).
SpawnHandler ==
    /\ Len(handlers) < MaxHandlers
    /\ handlers' = Append(handlers, FALSE)
    /\ signals' = TRUE

\* Operations other than the first may be called only on a Vm that the
\* VMM kept after its boot or restore, and never on one that was shut
\* down (the VMM drops it).
Api == ~hung /\ started /\ state /= "Shutdown"

\* The first operation on a Vm: boot() after Vm::new, restore() after
\* Vm::new_from_snapshot.
First(o) == ~hung /\ ~started /\ origin = o

\* Pausable::resume: valid_transition to Running, cpu_manager.resume(),
\* set_clock if a clock was saved, device_manager.resume(), then Running.
ResumeBody ==
    /\ valid_transition(state, "Running")
    /\ cpus' = CpuResumed(cpus)
    /\ \/ clock /\ Fails("set_clock") /\ UNCHANGED <<state, devices>>
       \/ Fails("dm_resume") /\ UNCHANGED <<state, devices>>
       \/ devices' = "running" /\ state' = "Running"
    /\ UNCHANGED <<clock, signals, handlers, origin, started, snap, hung>>

Resume == Api /\ ResumeBody

\* Vm::boot. From Paused it is resume(); otherwise valid_transition to
\* Running, then create_boot_vcpus, configure_system, start_boot_vcpus,
\* setup_signal_handler and setup_tty, each of which may return early.
\* Boot may be called again on a Vm whose earlier boot returned an error
\* (its state is still Created). What create_boot_vcpus does when vCPUs
\* already exist is up to the CPU manager, which is not part of this
\* code: an error is a stuttering step, so the model lets it go on.
Boot ==
    /\ Api \/ First("new")
    /\ started' = TRUE
    /\ \/ state = "Paused" /\ ResumeBody
       \/ /\ state /= "Paused" /\ valid_transition(state, "Running")
          /\ \/ Fails("configure_system") /\ cpus' = CpuCreated(cpus)
                /\ UNCHANGED <<state, signals, handlers>>
             \/ Fails("start_vcpus") /\ cpus' = CpuCreated(cpus)
                /\ UNCHANGED <<state, signals, handlers>>
             \/ Fails("signal_handler") /\ cpus' = "running"
                /\ UNCHANGED <<state, signals, handlers>>
             \/ /\ cpus' = "running" /\ SpawnHandler
                /\ \/ Fails("tty") /\ UNCHANGED state
                   \/ state' = "Running"
          /\ UNCHANGED <<devices, clock, origin, snap, hung>>

\* Pausable::pause: valid_transition to Paused, the clock saved,
\* cpu_manager.pause(), device_manager.pause(), then Paused.
Pause ==
    /\ Api /\ valid_transition(state, "Paused")
    /\ clock' = TRUE /\ cpus' = CpuPaused(cpus)
    /\ \/ Fails("device_pause") /\ UNCHANGED <<state, devices>>
       \/ devices' = "paused" /\ state' = "Paused"
    /\ UNCHANGED <<signals, handlers, origin, started, snap, hung>>

\* Every handler thread of a threads list has had its handle closed.
AllClosed(hs) == \A i \in DOMAIN hs : hs[i]

\* The newest handler's handle closed: self.signals.take() and close().
ClosedHandlers ==
    IF signals THEN [handlers EXCEPT ![Len(handlers)] = TRUE] ELSE handlers

\* The rest of Vm::shutdown once the handle is closed:
\* device_manager.resume(), cpu_manager.shutdown(), every thread of
\* self.threads joined, then Shutdown. A join of a handler whose handle is
\* still open never returns.
ShutdownSteps(closed) ==
    /\ signals' = FALSE
    /\ \/ Fails("shutdown_dm_resume") /\ handlers' = closed
          /\ UNCHANGED <<state, cpus, devices, hung>>
       \/ Fails("cpu_shutdown") /\ handlers' = closed /\ devices' = "running"
          /\ UNCHANGED <<state, cpus, hung>>
       \/ /\ devices' = "running" /\ cpus' = "stopped"
          /\ \/ ~AllClosed(closed)
                /\ hung' = TRUE /\ handlers' = closed /\ UNCHANGED state
             \/ AllClosed(closed)
                /\ handlers' = <<>> /\ state' = "Shutdown"
                /\ UNCHANGED hung
    /\ UNCHANGED <<clock, origin, started, snap>>

\* Vm::shutdown: valid_transition to Shutdown, then the steps above.
Shutdown ==
    Api /\ valid_transition(state, "Shutdown") /\ ShutdownSteps(ClosedHandlers)

\* Snapshottable::snapshot: refused unless get_state() is Paused; the
\* CPU, memory and device managers' snapshots capture their threads.
Snapshot ==
    /\ Api /\ state = "Paused"
    /\ snap' = [cpus |-> cpus, devices |-> devices, clock |-> clock]
    /\ UNCHANGED <<state, cpus, devices, clock, signals, handlers, origin,
                   started, hung>>

\* Snapshottable::restore on a Vm built by new_from_snapshot:
\* valid_transition to Paused, the memory, CPU and device managers restored
\* (devices come back paused), start_restored_vcpus, setup_signal_handler,
\* setup_tty, then Paused.
Restore ==
    /\ First("snapshot")
    /\ valid_transition(state, "Paused")
    /\ started' = TRUE /\ devices' = "paused"
    /\ \/ Fails("start_restored") /\ UNCHANGED <<state, cpus, signals, handlers>>
       \/ Fails("signal_handler") /\ cpus' = "paused"
          /\ UNCHANGED <<state, signals, handlers>>
       \/ /\ cpus' = "paused" /\ SpawnHandler
          /\ \/ Fails("tty") /\ UNCHANGED state
             \/ state' = "Paused"
    /\ UNCHANGED <<clock, origin, snap, hung>>

Next == Boot \/ Pause \/ Resume \/ Shutdown \/ Snapshot \/ Restore

\* The control thread takes API requests as they come: no fairness.
Spec == Init /\ [][Next]_vars

-----------------------------------------------------------------------------
(* Properties.                                                             *)

\* A snapshot is only ever taken of a quiesced VM: Vm::snapshot's check of
\* VmState::Paused must imply that no vCPU or device thread runs.
SnapshotOnlyQuiesced ==
    snap /= NoSnapshot => snap.cpus /= "running" /\ snap.devices = "paused"

====
