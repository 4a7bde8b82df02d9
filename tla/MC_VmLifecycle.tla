--------------------------- MODULE MC_VmLifecycle ---------------------------
(* Failure set for the VmLifecycle run.                                    *)
EXTENDS VmLifecycle

\* resume() fails after cpu_manager.resume().
MCResumeFailures == {"set_clock", "dm_resume"}
====
