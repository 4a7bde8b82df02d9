-------------------------- MODULE VirtioActivation --------------------------
(***************************************************************************)
(* What the virtio MMIO transport promises about activation, with no       *)
(* registers, activators, worker or barrier: a vCPU's DRIVER_OK request    *)
(* blocks that vCPU; the device then becomes active; only then is the      *)
(* vCPU let go; a reset makes an active device inactive again. A request   *)
(* is always served and a blocked vCPU always released.                    *)
(***************************************************************************)
CONSTANT Vcpus

VARIABLES
    phase,    \* "inactive", "requested" (DRIVER_OK written) or "active"
    blocked   \* the vCPUs waiting for the activation they requested

avars == <<phase, blocked>>

Init == phase = "inactive" /\ blocked = {}

\* A vCPU writes DRIVER_OK to an inactive device and blocks.
Request(c) ==
    /\ phase = "inactive" /\ c \notin blocked
    /\ phase' = "requested" /\ blocked' = blocked \cup {c}

\* The device is activated.
Activate ==
    /\ phase = "requested"
    /\ phase' = "active" /\ UNCHANGED blocked

\* A blocked vCPU resumes once the device is active.
Release(c) ==
    /\ c \in blocked /\ phase = "active"
    /\ blocked' = blocked \ {c} /\ UNCHANGED phase

\* The driver resets the active device.
Reset ==
    /\ phase = "active"
    /\ phase' = "inactive" /\ UNCHANGED blocked

Next == Activate \/ Reset \/ \E c \in Vcpus : Request(c) \/ Release(c)

Spec == Init /\ [][Next]_avars
             /\ WF_avars(Activate) /\ \A c \in Vcpus : WF_avars(Release(c))
====
