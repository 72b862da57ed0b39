----------------------------- MODULE SctpStream -----------------------------
(***************************************************************************)
(* One SCTP Stream between its users and the association: the task that    *)
(* reads the data channel (read_sctp inside read_data_channel), the task   *)
(* that writes to it (write_sctp), the association's read loop (handle_data*)
(* and on_buffer_released) and whoever closes the stream: the reader after *)
(* an error, the peer's reset request, the end of the association.         *)
(*                                                                         *)
(* Steps end where another task can come between: at an await, or between  *)
(* two atomics.  read_notifier is a tokio Notify: notify_one wakes the     *)
(* waiter or leaves one permit, notify_waiters wakes only a waiter that    *)
(* is registered.  Messages are complete when handle_data pushes them; how *)
(* they got complete is the subject of SctpData.                           *)
(***************************************************************************)
EXTENDS Integers

CONSTANTS
    Arrivals,    \* bound: messages that arrive
    Writes       \* bound: messages, of one byte each, that are written

ASSUME StreamAssumption == Arrivals \in Nat /\ Writes \in Nat

VARIABLES
    state,            \* of the association: "Established", "Shutdown" or "Closed"
    registered,       \* the stream is in the association's streams
    closed,
    arrived, ready,   \* messages arrived so far, and in the reassembly queue
    permit,           \* of read_notifier
    reader,           \* where the reader is
    handler,          \* where the association's read loop is in this stream
    eos,              \* reset requests sent for the outgoing stream
    written,          \* writes begun
    writer,
    pending,          \* bytes in the pending and inflight queues
    buffered_amount,
    released, from_amount  \* of the on_buffer_released under way

reading == <<arrived, ready, permit, reader>>
writing == <<written, writer>>
buffered == <<pending, buffered_amount, released, from_amount>>
vars == <<state, registered, closed, reading, handler, eos, writing, buffered>>

TypeOK ==
    /\ state \in {"Established", "Shutdown", "Closed"}
    /\ registered \in BOOLEAN /\ closed \in BOOLEAN
    /\ arrived \in 0 .. Arrivals /\ ready \in 0 .. Arrivals
    /\ permit \in BOOLEAN
    /\ reader \in {"check", "read", "await", "parked", "failed", "store", "ended"}
    /\ handler \in {"idle", "notify", "closing", "wake", "subtract"}
    /\ eos \in Nat
    /\ written \in 0 .. Writes
    /\ writer \in {"idle", "packetize", "push", "stopped"}
    /\ pending \in 0 .. Writes
    /\ buffered_amount \in 0 .. Writes
    /\ released \in 0 .. Writes /\ from_amount \in 0 .. Writes

Init ==
    /\ state = "Established" /\ registered = TRUE /\ closed = FALSE
    /\ arrived = 0 /\ ready = 0 /\ permit = FALSE
    /\ reader = "check" /\ handler = "idle" /\ eos = 0
    /\ written = 0 /\ writer = "idle" /\ pending = 0
    /\ buffered_amount = 0 /\ released = 0 /\ from_amount = 0

-----------------------------------------------------------------------------
(* The reader: the loop of read_sctp, started again for every message.       *)
CheckClosed ==
    /\ reader = "check"
    /\ reader' = IF closed THEN "failed" ELSE "read"
    /\ UNCHANGED <<state, registered, closed, arrived, ready, permit, handler,
                   eos, writing, buffered>>

(* Mutant: a message too large for the buffer stays in the queue.             *)
ReadKeepsMessage ==
    /\ reader = "read"
    /\ IF ready = 0
         THEN reader' = "await" /\ UNCHANGED ready
         ELSE reader' = "check" /\ ready' \in {ready - 1, ready}
    /\ UNCHANGED <<state, registered, closed, arrived, permit, handler, eos, writing, buffered>>

(* A message too large for the buffer is consumed and reported as an error.  *)
Read ==
    /\ reader = "read"
    /\ IF ready = 0
         THEN reader' = "await" /\ UNCHANGED ready
         ELSE reader' \in {"check", "failed"} /\ ready' = ready - 1
    /\ UNCHANGED <<state, registered, closed, arrived, permit, handler, eos, writing, buffered>>

(* The first poll of notified() takes the permit or registers the waiter.    *)
Await ==
    /\ reader = "await"
    /\ reader' = IF permit THEN "check" ELSE "parked"
    /\ permit' = FALSE
    /\ UNCHANGED <<state, registered, closed, arrived, ready, handler, eos,
                   writing, buffered>>

NotifyWaiters ==
    /\ reader' = IF reader = "parked" THEN "check" ELSE reader
    /\ UNCHANGED permit

NotifyOne ==
    IF reader = "parked" THEN reader' = "check" /\ UNCHANGED permit
                         ELSE permit' = TRUE /\ UNCHANGED reader

(* read_data_channel closes the stream after any error: Stream::close sends  *)
(* the reset request unless closed is set already.                           *)
CloseAfterError ==
    /\ reader = "failed"
    /\ IF closed
         THEN reader' = "store" /\ UNCHANGED eos
         ELSE IF state = "Established"
           THEN reader' = "store" /\ eos' = eos + 1
           ELSE reader' = "ended" /\ UNCHANGED eos
    /\ UNCHANGED <<state, registered, closed, arrived, ready, permit, handler,
                   writing, buffered>>

StoreClosed ==
    /\ reader = "store"
    /\ reader' = "ended"
    /\ closed' = TRUE
    /\ UNCHANGED <<state, registered, arrived, ready, permit, handler, eos,
                   writing, buffered>>

-----------------------------------------------------------------------------
(* The association's read loop: one handler at a time, it holds the lock.    *)

HandleData ==
    /\ handler = "idle"
    /\ registered /\ state # "Closed"
    /\ arrived < Arrivals
    /\ arrived' = arrived + 1
    /\ ready' = ready + 1
    /\ handler' = "notify"
    /\ UNCHANGED <<state, registered, closed, permit, reader, eos, writing, buffered>>

NotifyReader ==
    /\ handler = "notify"
    /\ NotifyOne
    /\ handler' = "idle"
    /\ UNCHANGED <<state, registered, closed, arrived, ready, eos, writing, buffered>>

(* AssociationInternal::close: the state first, then the streams.            *)
AssociationCloses ==
    /\ handler = "idle"
    /\ state # "Closed"
    /\ state' = "Closed"
    /\ handler' = "closing"
    /\ UNCHANGED <<registered, closed, reading, eos, writing, buffered>>

(* unregister_stream, for the peer's reset request (reset_streams_if_any) or *)
(* from close: it stores closed and then wakes the waiters.                  *)
UnregisterStream ==
    /\ handler = "closing" \/ (handler = "idle" /\ state # "Closed")
    /\ registered
    /\ registered' = FALSE
    /\ closed' = TRUE
    /\ handler' = "wake"
    /\ UNCHANGED <<state, reading, eos, writing, buffered>>

WakeWaiters ==
    /\ handler = "wake"
    /\ NotifyWaiters
    /\ handler' = "idle"
    /\ UNCHANGED <<state, registered, closed, arrived, ready, eos, writing, buffered>>

(* handle_shutdown, which leaves the streams alone.                          *)
HandleShutdown ==
    /\ handler = "idle"
    /\ state = "Established"
    /\ state' = "Shutdown"
    /\ UNCHANGED <<registered, closed, reading, handler, eos, writing, buffered>>

(* on_buffer_released: it loads buffered_amount, then subtracts from it.  The *)
(* value loaded decides whether to subtract, and about a callback that no one *)
(* in this repository sets.                                                   *)
Acknowledge ==
    /\ handler = "idle"
    /\ registered /\ state # "Closed"
    /\ \E n \in 1 .. pending : released' = n /\ pending' = pending - n
    /\ from_amount' = buffered_amount
    /\ handler' = "subtract"
    /\ UNCHANGED <<state, registered, closed, reading, eos, writing, buffered_amount>>

(* Mutant: the value loaded before is stored, not subtracted from.           *)
StoreLoaded ==
    /\ handler = "subtract"
    /\ buffered_amount' = IF from_amount < released THEN 0 ELSE from_amount - released
    /\ handler' = "idle"
    /\ UNCHANGED <<state, registered, closed, reading, eos, writing, pending, released,
                   from_amount>>

SubtractReleased ==
    /\ handler = "subtract"
    /\ buffered_amount' = IF from_amount < released THEN 0 ELSE buffered_amount - released
    /\ handler' = "idle"
    /\ UNCHANGED <<state, registered, closed, reading, eos, writing, pending, released,
                   from_amount>>

-----------------------------------------------------------------------------
(* The writer.  packetize counts the message before send_payload_data looks  *)
(* at the state again; neither looks at closed.                              *)
BeginWrite ==
    /\ writer = "idle"
    /\ written < Writes
    /\ written' = written + 1
    /\ writer' = IF state = "Shutdown" THEN "stopped" ELSE "packetize"
    /\ UNCHANGED <<state, registered, closed, reading, handler, eos, buffered>>

Packetize ==
    /\ writer = "packetize"
    /\ buffered_amount' = buffered_amount + 1
    /\ writer' = IF state # "Established" THEN "stopped" ELSE "push"
    /\ UNCHANGED <<state, registered, closed, reading, handler, eos, written,
                   pending, released, from_amount>>

PushPending ==
    /\ writer = "push"
    /\ pending' = pending + 1
    /\ writer' = "idle"
    /\ UNCHANGED <<state, registered, closed, reading, handler, eos, written,
                   buffered_amount, released, from_amount>>

Next ==
    \/ CheckClosed \/ Read \/ Await \/ CloseAfterError \/ StoreClosed
    \/ HandleData \/ NotifyReader \/ AssociationCloses \/ UnregisterStream \/ WakeWaiters
    \/ HandleShutdown \/ Acknowledge \/ SubtractReleased
    \/ BeginWrite \/ Packetize \/ PushPending

Spec == Init /\ [][Next]_vars

(* The runtime schedules the reading task and the handler under way.         *)
FairSpec ==
    /\ Spec
    /\ WF_vars(CheckClosed) /\ WF_vars(Read) /\ WF_vars(Await)
    /\ WF_vars(CloseAfterError) /\ WF_vars(StoreClosed)
    /\ WF_vars(NotifyReader) /\ WF_vars(WakeWaiters)
    /\ WF_vars(UnregisterStream /\ handler = "closing")
    /\ WF_vars(SubtractReleased)

-----------------------------------------------------------------------------
(* Properties.                                                               *)

(* A reader that waits while a message is ready is about to be woken: no     *)
(* interleaving of push, read and notified() loses the wake-up of a message. *)
NoMessageAsleep == reader = "parked" /\ ready > 0 => handler = "notify"

(* While the association is Established buffered_amount counts the bytes     *)
(* queued and those of the write and the release under way.                  *)
BufferedAccounted ==
    state = "Established" =>
        buffered_amount = pending + (IF writer = "push" THEN 1 ELSE 0)
                                  + (IF handler = "subtract" THEN released ELSE 0)

(* A reader on its way to wait finds the permit of a message that came in    *)
(* the meantime, or its push is still to notify.                             *)
PermitIsLeft == reader = "await" /\ ready > 0 => permit \/ handler = "notify"

(* In every state of the association buffered_amount covers what is queued   *)
(* and what is being released, so nothing is subtracted that is not there.   *)
AmountCovers ==
    /\ ready <= arrived
    /\ pending + (IF writer = "push" THEN 1 ELSE 0)
               + (IF handler = "subtract" THEN released ELSE 0) <= buffered_amount
    /\ buffered_amount + (IF writer = "packetize" THEN 1 ELSE 0) <= written
    /\ handler = "subtract" => released <= from_amount /\ state # "Closed"

(* The stream between its tasks: types (buffered_amount is unsigned), no     *)
(* wake-up lost, and buffered_amount exact over loads and stores that        *)
(* interleave.  The conjunction is inductive.                                *)
StreamInv ==
    TypeOK /\ NoMessageAsleep /\ BufferedAccounted /\ PermitIsLeft /\ AmountCovers

(* Every message that arrives is read, unless the stream is closed or an     *)
(* error ends the reader first.                                              *)
MessagesAreRead == ready > 0 ~> (ready = 0 \/ closed \/ reader = "ended")
=============================================================================
