---------------------------- MODULE PacketQueue ----------------------------
(***************************************************************************)
(* What util::Buffer promises: a FIFO of packets, bounded in bytes, whose  *)
(* packets are never combined, split, reordered or changed, and which can  *)
(* be drained after it was closed.  PacketBuffer implements it.            *)
(***************************************************************************)
EXTENDS Integers, Sequences

CONSTANTS
    Packet,   \* the packets that are written
    Lens,     \* the lengths of the slices that are read into
    Limit     \* limit_size

VARIABLES
    queue,    \* packets written and not yet read
    used,     \* bytes they take, with two bytes of length each
    closed,
    result    \* of the last read

vars == <<queue, used, closed, result>>

Cost(p) == Len(p) + 2
Got(p) == [kind |-> "ok", packet |-> p]
Failed(why) == [kind |-> why, packet |-> <<>>]

Init ==
    /\ queue = <<>> /\ used = 0 /\ closed = FALSE
    /\ result = Failed("none")

Put(p) ==
    /\ ~closed /\ used + Cost(p) <= Limit
    /\ queue' = Append(queue, p)
    /\ used' = used + Cost(p)
    /\ UNCHANGED <<closed, result>>

(* A packet that does not fit the slice is lost and reported.                *)
Get(n) ==
    /\ queue # <<>>
    /\ queue' = Tail(queue)
    /\ used' = used - Cost(Head(queue))
    /\ result' = IF Len(Head(queue)) <= n THEN Got(Head(queue)) ELSE Failed("short")
    /\ UNCHANGED closed

GetClosed ==
    /\ closed /\ queue = <<>>
    /\ result' = Failed("closed")
    /\ UNCHANGED <<queue, used, closed>>

Close ==
    /\ closed' = TRUE
    /\ UNCHANGED <<queue, used, result>>

Next ==
    \/ \E p \in Packet : Put(p)
    \/ \E n \in Lens : Get(n)
    \/ GetClosed
    \/ Close

Spec == Init /\ [][Next]_vars
=============================================================================
