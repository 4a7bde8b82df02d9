---------------------------- MODULE MC_VirtioMmio ----------------------------
(* Model-checking instance of VirtioMmio: the guest's accesses as a small  *)
(* set covering every register the write path decodes, an out-of-range     *)
(* selector, a config-window access, an unknown offset and a bad width.    *)
EXTENDS VirtioMmio

\* A 4-byte write of v at control-window offset off.
W(off, v) == [off |-> off, len |-> 4, val |-> v]

MCGuestWrites ==
    { W(\h70, 0), W(\h70, 11), W(\h70, 15),     \* status: init, not ready, ready
      W(\h30, 0), W(\h30, 2),                   \* queue_select, 2 out of range
      W(\h44, 1), W(\h44, 0), W(\h38, 65538),   \* ready, size (u16: 2)
      W(\h80, 1),                               \* desc table low half
      W(\h64, 1),                               \* interrupt ack of USED_RING
      W(\h14, 1), W(\h14, 2),                  \* features page 1, past the last
      W(\h24, 2), W(\h20, 1),                  \* acked page past the last, ack
      W(\hAC, 1),                               \* shm_region_select
      W(\hFC, 1),                               \* unknown control register
      [off |-> \h38, len |-> 2, val |-> 8],     \* bad width: ignored
      [off |-> \h100, len |-> 1, val |-> 0] }   \* device config window

\* get_shm_regions() returns None.
MCNoShm == [present |-> FALSE, addr |-> [hi |-> 0, lo |-> 0], regions |-> <<>>]

\* One shared-memory region whose length and offset have both halves
\* non-zero, and whose offset plus the base carries into the high half.
MCOneShm == [present |-> TRUE, addr |-> [hi |-> 1, lo |-> U32 - 1],
             regions |-> <<[offset |-> [hi |-> 0, lo |-> 1],
                            len |-> [hi |-> 1, lo |-> 1]]>>]

\* The guest selects region 0, 1 (= the number of regions) or 2, and enables
\* a queue so that the selected-queue reads have something to read.
MCShmWrites == { W(\hAC, 0), W(\hAC, 1), W(\hAC, 2), W(\h44, 1) }

\* Writes two vCPUs race on: the status values that activate and fail,
\* a queue enable, an interrupt ack and a config-window access.
MCRaceWrites ==
    { W(\h70, 0), W(\h70, 15), W(\h44, 1), W(\h64, 1),
      [off |-> \h100, len |-> 1, val |-> 0] }

MCVcpus1 == {"vcpu0"}
MCVcpus2 == {"vcpu0", "vcpu1"}

====
