--------------------------- MODULE MemoryTransfer ---------------------------
(***************************************************************************)
(* The guest-memory transfer of a live migration in vmm/src/vm.rs:         *)
(* Vm::send_memory_regions on the source VMM writes every range of a       *)
(* MemoryRangeTable into the migration socket, and                         *)
(* Vm::receive_memory_regions on the destination reads the same table's   *)
(* ranges from it into guest memory. Each side walks the ranges in order   *)
(* and, for one range, loops on write_to / read_from until its offset      *)
(* reaches the range's length, since either call may move fewer bytes than *)
(* asked for.                                                              *)
(*                                                                         *)
(* The socket is a byte stream; a byte is named by the source address it   *)
(* was read from, so the destination's memory shows where every received   *)
(* byte came from. The source's end is open until send_memory_regions      *)
(* returns an error: the migration code that called it then drops the      *)
(* socket (that caller is not part of this code). A read on a socket whose *)
(* peer has closed returns what is buffered, then 0 bytes.                 *)
(***************************************************************************)
EXTENDS Naturals, Sequences

CONSTANTS
    Ranges   \* the MemoryRangeTable: a sequence of [gpa, length]

ASSUME /\ Ranges /= <<>>
       /\ \A k \in DOMAIN Ranges : Ranges[k].gpa >= 1 /\ Ranges[k].length >= 1

\* The guest addresses of range k, and of the whole table.
RangeAddrs(k) == Ranges[k].gpa .. Ranges[k].gpa + Ranges[k].length - 1
Addr == UNION {RangeAddrs(k) : k \in DOMAIN Ranges}

NoByte == 0   \* a destination address nothing was written to

VARIABLES
    snd,     \* send_memory_regions: [r : range index, off : offset, pc]
    rcv,     \* receive_memory_regions: [r, off, pc]
    stream,  \* the bytes in the socket, as the source addresses they came from
    open,    \* the source's end of the socket is open
    dst      \* the destination's guest memory: address -> source address

vars == <<snd, rcv, stream, open, dst>>

\* The loop of range r at offset 0, about to move bytes with step pc.
RangeStart(r, pc) == [r |-> r, off |-> 0, pc |-> pc]

Init ==
    /\ snd = RangeStart(1, "write")
    /\ rcv = RangeStart(1, "read")
    /\ stream = <<>>
    /\ open = TRUE
    /\ dst = [a \in Addr |-> NoByte]

\* The tail of one loop iteration: `if offset == range.length { break; }`,
\* then the for loop's next range, or Ok(()) after the last one.
LoopCheck(p, again) ==
    IF p.off /= Ranges[p.r].length THEN [p EXCEPT !.pc = again]
    ELSE IF p.r = Len(Ranges) THEN [p EXCEPT !.pc = "ok"]
    ELSE RangeStart(p.r + 1, again)

-----------------------------------------------------------------------------
(* send_memory_regions.                                                    *)

\* write_to(range.gpa + offset, fd, range.length - offset) moves n >= 1
\* bytes into the socket; offset += n.
SendWrite ==
    /\ snd.pc = "write" /\ open
    /\ LET base == Ranges[snd.r].gpa + snd.off IN
       \E n \in 1 .. Ranges[snd.r].length - snd.off :
          /\ stream' = stream \o [i \in 1..n |-> base + i - 1]
          /\ snd' = [snd EXCEPT !.off = @ + n, !.pc = "check"]
    /\ UNCHANGED <<rcv, open, dst>>

\* write_to returns an error: MigrateSend is returned through `?`, and the
\* caller's drop of the socket closes the source's end.
SendFails ==
    /\ snd.pc = "write"
    /\ snd' = [snd EXCEPT !.pc = "err"]
    /\ open' = FALSE
    /\ UNCHANGED <<rcv, stream, dst>>

SendCheck ==
    /\ snd.pc = "check"
    /\ snd' = LoopCheck(snd, "write")
    /\ UNCHANGED <<rcv, stream, open, dst>>

-----------------------------------------------------------------------------
(* receive_memory_regions.                                                 *)

\* read_from(range.gpa + offset, fd, range.length - offset) on buffered
\* bytes: n of them, at most what was asked for, are written to guest
\* memory from range.gpa + offset on; offset += n.
RecvData ==
    /\ rcv.pc = "read" /\ stream /= <<>>
    /\ LET base == Ranges[rcv.r].gpa + rcv.off
           want == Ranges[rcv.r].length - rcv.off
       IN  \E n \in 1 .. (IF want < Len(stream) THEN want ELSE Len(stream)) :
              /\ dst' = [a \in Addr |->
                           IF a \in base .. base + n - 1
                           THEN stream[a - base + 1] ELSE dst[a]]
              /\ stream' = SubSeq(stream, n + 1, Len(stream))
              /\ rcv' = [rcv EXCEPT !.off = @ + n, !.pc = "check"]
    /\ UNCHANGED <<snd, open>>

\* read_from on an empty socket whose peer has closed: Ok(0), so offset
\* is unchanged and the loop goes round again.
RecvEof ==
    /\ rcv.pc = "read" /\ stream = <<>> /\ ~open
    /\ rcv' = [rcv EXCEPT !.pc = "check"]
    /\ UNCHANGED <<snd, stream, open, dst>>

\* read_from returns an error (the connection was reset): MigrateReceive
\* is returned through `?`.
RecvFails ==
    /\ rcv.pc = "read" /\ ~open
    /\ rcv' = [rcv EXCEPT !.pc = "err"]
    /\ UNCHANGED <<snd, stream, open, dst>>

RecvCheck ==
    /\ rcv.pc = "check"
    /\ rcv' = LoopCheck(rcv, "read")
    /\ UNCHANGED <<snd, stream, open, dst>>

Sender == SendWrite \/ SendFails \/ SendCheck
Receiver == RecvData \/ RecvEof \/ RecvFails \/ RecvCheck

Next == Sender \/ Receiver

\* Each side runs on a thread of its own VMM, which the OS keeps
\* scheduling; a read on an open, empty socket blocks (is not enabled).
Spec == Init /\ [][Next]_vars /\ WF_vars(Sender) /\ WF_vars(Receiver)

-----------------------------------------------------------------------------
(* Properties.                                                             *)

\* receive_memory_regions returns, with Ok or an error, whatever the
\* source does: the destination VMM's migration thread is not left in the
\* read loop when the source gives up part-way through a range.
ReceiveReturns == <>(rcv.pc \in {"ok", "err"})

====
