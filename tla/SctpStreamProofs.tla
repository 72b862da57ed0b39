-------------------------- MODULE SctpStreamProofs --------------------------
(***************************************************************************)
(* Theorems about SctpStream, for every number of messages that arrive and *)
(* are written.  StreamInv is inductive.                                   *)
(***************************************************************************)
EXTENDS SctpStream, TLAPS

(* The stream is new.                                                        *)
LEMMA StreamInit == Init => StreamInv
<1> SUFFICES ASSUME Init PROVE StreamInv
  OBVIOUS
<1>1. 0 \in 0 .. Arrivals /\ 0 \in 0 .. Writes /\ 0 \in Nat
  BY StreamAssumption DEF StreamAssumption
<1>2. TypeOK
  BY <1>1 DEF Init, TypeOK
<1>3. NoMessageAsleep /\ BufferedAccounted /\ PermitIsLeft /\ AmountCovers
  BY DEF Init, NoMessageAsleep, BufferedAccounted, PermitIsLeft, AmountCovers
<1> QED
  BY <1>2, <1>3 DEF StreamInv

(* The steps of the reading task.                                            *)
LEMMA ReaderStep ==
    ASSUME StreamInv,
           CheckClosed \/ Read \/ Await \/ CloseAfterError \/ StoreClosed
    PROVE  StreamInv'
<1> USE StreamAssumption DEF StreamAssumption, StreamInv, TypeOK, NoMessageAsleep,
        BufferedAccounted, PermitIsLeft, AmountCovers, writing, buffered
<1>1. CASE CheckClosed
  BY <1>1 DEF CheckClosed
<1>2. CASE Read
  BY <1>2 DEF Read
<1>3. CASE Await
  BY <1>3, ZenonT(60) DEF Await
<1>4. CASE CloseAfterError
  BY <1>4 DEF CloseAfterError
<1>5. CASE StoreClosed
  BY <1>5 DEF StoreClosed
<1> QED
  BY <1>1, <1>2, <1>3, <1>4, <1>5

(* The steps of the association's read loop.                                 *)
LEMMA HandlerStep ==
    ASSUME StreamInv,
           \/ HandleData \/ NotifyReader \/ AssociationCloses \/ UnregisterStream
           \/ WakeWaiters \/ HandleShutdown \/ Acknowledge \/ SubtractReleased
    PROVE  StreamInv'
<1> USE StreamAssumption DEF StreamAssumption, StreamInv, TypeOK, NoMessageAsleep,
        BufferedAccounted, PermitIsLeft, AmountCovers, reading, writing, buffered
<1>1. CASE HandleData
  BY <1>1 DEF HandleData
<1>2. CASE NotifyReader
  BY <1>2, ZenonT(60) DEF NotifyReader, NotifyOne
<1>3. CASE AssociationCloses
  BY <1>3 DEF AssociationCloses
<1>4. CASE UnregisterStream
  BY <1>4 DEF UnregisterStream
<1>5. CASE WakeWaiters
  BY <1>5 DEF WakeWaiters, NotifyWaiters
<1>6. CASE HandleShutdown
  BY <1>6 DEF HandleShutdown
<1>7. CASE Acknowledge
  BY <1>7 DEF Acknowledge
<1>8. CASE SubtractReleased
  BY <1>8 DEF SubtractReleased
<1> QED
  BY <1>1, <1>2, <1>3, <1>4, <1>5, <1>6, <1>7, <1>8

(* The steps of the writing task.                                            *)
LEMMA WriterStep ==
    ASSUME StreamInv, BeginWrite \/ Packetize \/ PushPending
    PROVE  StreamInv'
<1> USE StreamAssumption DEF StreamAssumption, StreamInv, TypeOK, NoMessageAsleep,
        BufferedAccounted, PermitIsLeft, AmountCovers, reading, buffered
<1>1. CASE BeginWrite
  BY <1>1 DEF BeginWrite
<1>2. CASE Packetize
  BY <1>2 DEF Packetize
<1>3. CASE PushPending
  BY <1>3 DEF PushPending
<1> QED
  BY <1>1, <1>2, <1>3

(* Between reader, writer, handlers and closers no wake-up of a message is   *)
(* lost and buffered_amount stays exact, however their steps interleave.     *)
THEOREM StreamSafe == Spec => []StreamInv
<1>1. ASSUME StreamInv, [Next]_vars PROVE StreamInv'
  <2>1. CASE Next
    BY <1>1, <2>1, ReaderStep, HandlerStep, WriterStep DEF Next
  <2>2. CASE UNCHANGED vars
    BY <1>1, <2>2 DEF vars, reading, writing, buffered, StreamInv, TypeOK, NoMessageAsleep,
       BufferedAccounted, PermitIsLeft, AmountCovers
  <2> QED
    BY <1>1, <2>1, <2>2
<1> QED
  BY <1>1, StreamInit, PTL DEF Spec
=============================================================================
