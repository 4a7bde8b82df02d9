---------------------------- MODULE MC_VmHotplug ----------------------------
(* Instances of VmHotplug for TLC.                                         *)
EXTENDS VmHotplug

\* Every call may fail.
MCAllSteps == Steps

\* Device lists other than fs, which remove_device never edits.
MCKindsNoFs == {"devices", "user_devices", "disks", "pmem", "net", "vsock"}

\* An fs device and a list remove_device does edit.
MCKindsFs == {"disks", "fs"}
====
