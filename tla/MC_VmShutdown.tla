---------------------------- MODULE MC_VmShutdown ----------------------------
(* Model-checking instances of VmShutdown: the driver, vCPUs and failing  *)
(* calls of each run.                                                      *)
EXTENDS VmShutdown

W(off, v) == [off |-> off, len |-> 4, val |-> v]

MCShutdownWrites == { W(\h70, 0), W(\h70, 15), W(\h44, 1) }

MCVcpus1 == {"vcpu0"}
MCVcpus2 == {"vcpu0", "vcpu1"}

\* Two vCPUs racing status writes, a queue enable, an interrupt ack and
\* a config-window access that runs the write path's activation check.
MCRaceWrites ==
    { W(\h70, 0), W(\h70, 15), W(\h44, 1), W(\h64, 1),
      [off |-> \h100, len |-> 1, val |-> 0] }

\* Every call of VmLifecycle's Steps may fail.
MCAllSteps ==
    {"configure_system", "start_vcpus", "signal_handler", "tty",
     "device_pause", "set_clock", "dm_resume", "shutdown_dm_resume",
     "cpu_shutdown", "start_restored"}

MCNoFailures == {}

\* get_shm_regions() returns None.
MCNoShm == [present |-> FALSE, addr |-> [hi |-> 0, lo |-> 0], regions |-> <<>>]
====
