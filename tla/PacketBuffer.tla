---------------------------- MODULE PacketBuffer ----------------------------
(***************************************************************************)
(* util::Buffer: the ring buffer between a task that receives packets and  *)
(* the task that reads them (AgentConn between a candidate's socket and    *)
(* the mux, Endpoint between the mux and DTLS).  Every packet is stored    *)
(* with its length in two bytes; the ring grows on demand up to limit_size.*)
(*                                                                         *)
(* write, close and the locked part of read hold the mutex and are one     *)
(* step each.  notify is a tokio Notify with one waiter, the reader.  The  *)
(* callers set limit_size, no limit_count and no read timeout.             *)
(***************************************************************************)
EXTENDS Integers, Sequences

CONSTANTS
    Base,        \* values of a byte, 256
    Packet,      \* the packets that are written
    Lens,        \* the lengths of the slices that are read into
    MinSize, CutoffSize,
    LimitSize    \* limit_size

ASSUME BufferAssumption ==
    /\ Base \in Nat \ {0, 1}
    /\ Packet \subseteq Seq(0 .. Base - 1)
    /\ \A p \in Packet : Len(p) < Base * Base   \* ErrPacketTooBig otherwise
    /\ Lens \subseteq Nat
    /\ MinSize \in Nat \ {0} /\ CutoffSize \in Nat \ {0} /\ LimitSize \in Nat \ {0}
    /\ MinSize >= 4 \/ CutoffSize >= 4   \* a quarter more is more

VARIABLES
    data, head, tail, closed, subs, count,
    permit,      \* of notify
    reader,      \* "read": to take the lock, "wait": to poll notified(), or "parked"
    result,      \* of the last read
    full,        \* why the last write failed: "no", "limit" or "grow"
    stored       \* history: packets written and not yet read

ring == <<data, head, tail, count, stored>>
notify == <<subs, permit, reader>>
vars == <<ring, closed, notify, result, full>>

Got(p) == [kind |-> "ok", packet |-> p]
Failed(why) == [kind |-> why, packet |-> <<>>]

TypeOK ==
    /\ data \in Seq(0 .. Base - 1)
    /\ head \in 0 .. Len(data) /\ tail \in 0 .. Len(data)
    /\ closed \in BOOLEAN /\ subs \in BOOLEAN /\ permit \in BOOLEAN
    /\ count \in Nat
    /\ reader \in {"read", "wait", "parked"}
    /\ result.kind \in {"none", "ok", "short", "closed"}
    /\ full \in {"no", "limit", "grow"}
    /\ stored \in Seq(Packet)

Init ==
    /\ data = <<>> /\ head = 0 /\ tail = 0 /\ count = 0 /\ stored = <<>>
    /\ closed = FALSE /\ subs = FALSE /\ permit = FALSE /\ reader = "read"
    /\ result = Failed("none") /\ full = "no"

-----------------------------------------------------------------------------
(* The ring.                                                                 *)

(* An index that ran past the end of c bytes continues at the beginning.     *)
Wrap(i, c) == IF i >= c THEN i - c ELSE i

Cell(i) == data[Wrap(i, Len(data)) + 1]

Size == IF tail >= head THEN tail - head ELSE tail - head + Len(data)

(* head = tail means empty, so one byte stays free.  In a ring of c bytes    *)
(* the distance from tail to head is c - Size.                               *)
Available(c, n) == n + 2 < c - Size

(* Mutant: no byte of slack beyond the limit.                                *)
GrownTight(c) ==
    LET doubled == IF c < CutoffSize THEN 2 * c ELSE (5 * c) \div 4
        atLeast == IF doubled < MinSize THEN MinSize ELSE doubled
    IN  IF atLeast > LimitSize THEN LimitSize ELSE atLeast

Grown(c) ==
    LET doubled == IF c < CutoffSize THEN 2 * c ELSE (5 * c) \div 4
        atLeast == IF doubled < MinSize THEN MinSize ELSE doubled
    IN  IF atLeast > LimitSize + 1 THEN LimitSize + 1 ELSE atLeast

(* The loop of write: grow until n bytes fit or grow fails.                  *)
SizeFor(n) ==
    LET loop[c \in 0 .. LimitSize + 1] ==
            IF Available(c, n) \/ Grown(c) <= c THEN c ELSE loop[Grown(c)]
    IN  loop[Len(data)]

(* The contents in order, as grow copies them.                               *)
Contents == [i \in 1 .. Size |-> Cell(head + i - 1)]

(* The length, high byte first, and the packet.                              *)
Encoded(p) == <<Len(p) \div Base, Len(p) % Base>> \o p

(* Mutant: the part of a packet beyond the end is not copied.                *)
StoreUnwrapped(d, t, e) ==
    [i \in 1 .. Len(d) |-> LET k == IF i > t THEN i - t ELSE i - t + Len(d)
                           IN  IF k <= 2 \/ (i > t /\ k <= Len(e)) THEN e[k] ELSE d[i]]

(* d with the bytes e stored from tail t on, around the end.                 *)
Store(d, t, e) ==
    [i \in 1 .. Len(d) |-> LET k == IF i > t THEN i - t ELSE i - t + Len(d)
                           IN  IF k <= Len(e) THEN e[k] ELSE d[i]]

-----------------------------------------------------------------------------
NotifyOne ==
    IF reader = "parked" THEN reader' = "read" /\ UNCHANGED permit
                         ELSE permit' = TRUE /\ UNCHANGED reader

(* Mutant: notify_waiters, which leaves no permit for a reader on its way.   *)
WakeWaiters ==
    IF subs /\ reader = "parked"
      THEN reader' = "read" /\ subs' = FALSE /\ UNCHANGED permit
      ELSE UNCHANGED notify

WakeReader ==
    IF subs THEN NotifyOne /\ subs' = FALSE ELSE UNCHANGED notify

(* c is the size of the ring after growing; grow moves the contents to the   *)
(* front of a new one.                                                       *)
Write(p) ==
    \E c \in Len(data) .. LimitSize + 1 :
        LET grew == c # Len(data)
            d == IF grew THEN Contents \o [i \in 1 .. c - Size |-> 0] ELSE data
            t == IF grew THEN Size ELSE tail
            tooMuch == Size + 2 + Len(p) > LimitSize
            fits == Available(c, Len(p))
        IN  /\ ~closed
            /\ c = SizeFor(Len(p))
            /\ full' = IF tooMuch THEN "limit" ELSE IF fits THEN "no" ELSE "grow"
            /\ IF tooMuch
                 THEN UNCHANGED <<ring, notify>>
                 ELSE /\ head' = IF grew THEN 0 ELSE head
                      /\ IF fits
                           THEN /\ data' = Store(d, t, Encoded(p))
                                /\ tail' = Wrap(t + Len(p) + 2, c)
                                /\ count' = count + 1
                                /\ stored' = Append(stored, p)
                                /\ WakeReader
                           ELSE /\ data' = d /\ tail' = t
                                /\ UNCHANGED <<count, stored, notify>>
            /\ UNCHANGED <<closed, result>>

(* The locked part of read with a packet there: head moves over the whole    *)
(* packet, however much of it fits the slice, and an empty ring starts over. *)
ReadPacket(n) ==
    LET length == Cell(head) * Base + Cell(head + 1)
        next == Wrap(head + 2 + length, Len(data))
    IN  /\ reader = "read" /\ head # tail
        /\ head' = IF next = tail THEN 0 ELSE next
        /\ tail' = IF next = tail THEN 0 ELSE tail
        /\ count' = count - 1
        /\ result' = IF length <= n
                       THEN Got([i \in 1 .. length |-> Cell(head + 1 + i)])
                       ELSE Failed("short")
        /\ stored' = Tail(stored)
        /\ UNCHANGED <<data, closed, notify, full>>

(* The locked part of read with nothing there.                               *)
ReadEmpty ==
    /\ reader = "read" /\ head = tail
    /\ subs' = TRUE
    /\ IF closed THEN result' = Failed("closed") /\ UNCHANGED reader
                 ELSE reader' = "wait" /\ UNCHANGED result
    /\ UNCHANGED <<ring, closed, permit, full>>

(* The first poll of notified(), after the lock was released.                *)
Await ==
    /\ reader = "wait"
    /\ reader' = IF permit THEN "read" ELSE "parked"
    /\ permit' = FALSE
    /\ UNCHANGED <<ring, closed, subs, result, full>>

(* notify_waiters wakes a waiter and leaves no permit.                       *)
Close ==
    /\ ~closed
    /\ closed' = TRUE
    /\ reader' = IF reader = "parked" THEN "read" ELSE reader
    /\ UNCHANGED <<ring, subs, permit, result, full>>

Next ==
    \/ \E p \in Packet : Write(p)
    \/ \E n \in Lens : ReadPacket(n)
    \/ ReadEmpty
    \/ Await
    \/ Close

Spec == Init /\ [][Next]_vars

-----------------------------------------------------------------------------
(* Properties.                                                               *)

(* The write that passed the limit check always finds room after growing:    *)
(* the byte of slack in grow matches the byte available keeps free.          *)
GrowNeverFails == full # "grow"

(* No wake-up is lost: a sleeping reader has an empty buffer.                *)
NoPacketAsleep == reader = "parked" => stored = <<>>

(* The ring is a FIFO of packets: what read decodes is the packet that was   *)
(* written first, byte for byte, over wraps, growth and resets, and a write  *)
(* is refused only by the limit.                                             *)
Queue == INSTANCE PacketQueue WITH queue <- stored, used <- Size, Limit <- LimitSize
ImplementsQueue == Queue!Spec

(* count, head and tail agree on what is stored.                             *)
CountAgrees == count = Len(stored) /\ (head = tail <=> stored = <<>>)

(* The ring itself, over wraps and growth: its indices are in range, its     *)
(* count is right, and a write that passed the limit check finds room.       *)
BufferInv == TypeOK /\ CountAgrees /\ GrowNeverFails
=============================================================================
