-------------------------- MODULE MC_MemoryTransfer --------------------------
(* Model-checking instance of MemoryTransfer.                              *)
EXTENDS MemoryTransfer

\* A table of two ranges; the first is long enough to be sent and
\* received in two parts.
MCRanges == << [gpa |-> 1, length |-> 2], [gpa |-> 5, length |-> 1] >>
====
