--------------------------- MODULE MC_MmioSnapshot ---------------------------
(* Model-checking instance of MmioSnapshot: one vCPU, and guest writes to  *)
(* every register that state() captures.                                   *)
EXTENDS MmioSnapshot

W(off, v) == [off |-> off, len |-> 4, val |-> v]

\* A driver that negotiates, resets and re-negotiates.
MCSnapWrites ==
    { W(\h70, 0), W(\h70, 15),                  \* status: init, driver ok
      W(\h30, 1), W(\h44, 1), W(\h38, 2),       \* select queue 1, enable, size
      W(\h80, 1),                               \* desc table low half
      W(\h14, 1), W(\h24, 1), W(\hAC, 1),       \* selectors
      W(\h64, 1) }                              \* interrupt ack

\* The same driver, which can also give up on the device after activation
\* by setting FAILED on top of the status (0x8f).
MCFailWrites == MCSnapWrites \cup { W(\h70, 143) }

\* A smaller driver for the round trip, where the snapshot doubles the state.
MCRoundTripWrites ==
    { W(\h70, 0), W(\h70, 15), W(\h44, 1), W(\h38, 2), W(\hAC, 1),
      W(\h64, 1) }

MCVcpus1 == {"vcpu0"}

\* get_shm_regions() returns None.
MCNoShm == [present |-> FALSE, addr |-> [hi |-> 0, lo |-> 0], regions |-> <<>>]

====
