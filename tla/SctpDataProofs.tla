-------------------------- MODULE SctpDataProofs --------------------------
(***************************************************************************)
(* Theorems about SctpData, for every number of chunks, every split into   *)
(* messages, every window and MTU.  IInv is inductive: one lemma per       *)
(* action, one step per part of IInv the action can disturb.               *)
(***************************************************************************)
EXTENDS SctpData, FiniteSetTheorems, TLAPS

(* The number of TSNs in an interval, as packets of a burst are counted.   *)
LEMMA IntervalCard ==
    ASSUME NEW a \in Int, NEW k \in Nat
    PROVE  /\ IsFiniteSet(a .. a + k - 1)
           /\ Cardinality(a .. a + k - 1) = k
BY FS_Interval

(* inflight \ acked is finite, whatever subset of the TSNs it is.          *)
LEMMA TsnFinite ==
    ASSUME NEW S \in SUBSET Tsn
    PROVE  IsFiniteSet(S) /\ Cardinality(S) \in Nat
<1>1. IsFiniteSet(Tsn)
  BY DataAssumption, FS_Interval DEF Tsn, DataAssumption
<1> QED
  BY <1>1, FS_Subset, FS_CardinalityType

(* A burst follows the TSNs already in flight.                             *)
LEMMA IntervalUnion ==
    ASSUME NEW c \in Int, NEW m \in Int, NEW k \in Nat, c < m
    PROVE  (c + 1 .. m - 1) \cup (m .. m + k - 1) = c + 1 .. m + k - 1
OBVIOUS

(* An interval splits at any point into two disjoint ones. *)
LEMMA IntervalSplit ==
    ASSUME NEW c \in Int, NEW x \in Int, NEW m \in Int, c <= x, x < m
    PROVE  /\ c + 1 .. x \subseteq c + 1 .. m - 1
           /\ (c + 1 .. m - 1) \ (c + 1 .. x) = x + 1 .. m - 1
           /\ Cardinality(x + 1 .. m - 1) = m - 1 - x
<1>1. Cardinality(x + 1 .. m - 1) = IF x + 1 > m - 1 THEN 0 ELSE (m - 1) - (x + 1) + 1
  BY FS_Interval
<1>2. Cardinality(x + 1 .. m - 1) = m - 1 - x
  BY <1>1
<1> QED
  BY <1>2

(* Sizes of disjoint sets add up.                                          *)
LEMMA DisjointCard ==
    ASSUME NEW S, IsFiniteSet(S), NEW T, IsFiniteSet(T), S \cap T = {}
    PROVE  Cardinality(S \cup T) = Cardinality(S) + Cardinality(T)
<1>1. Cardinality(S) \in Nat /\ Cardinality(T) \in Nat /\ Cardinality({}) = 0
  BY FS_CardinalityType, FS_EmptySet
<1>2. Cardinality(S \cup T) = Cardinality(S) + Cardinality(T) - Cardinality(S \cap T)
  BY FS_Union
<1>3. Cardinality(S \cap T) = 0
  BY <1>1, Zenon
<1> QED
  BY <1>1, <1>2, <1>3

(* TSNs above an ack point and below the next one to assign.               *)
LEMMA IntervalOfTsn ==
    ASSUME NEW p \in 0 .. N, NEW m \in 1 .. N + 1
    PROVE  p + 1 .. m - 1 \subseteq Tsn
BY DataAssumption DEF DataAssumption, Tsn

(* The invariant holds once the handshake has completed.                   *)
LEMMA InitIInv == Init => IInv
<1> SUFFICES ASSUME Init PROVE IInv
  OBVIOUS
<1> USE DataAssumption DEF DataAssumption
<1>1. TypeOK
  <2>1. InitialCwnd \in Nat
    BY DEF InitialCwnd, Smallest, Largest
  <2>2. [t \in Tsn |-> 0] \in [Tsn -> 0 .. 3]
    OBVIOUS
  <2>3. /\ written \in 0 .. N /\ buffered_amount \in Nat /\ my_next_tsn \in 1 .. N + 1
        /\ cumulative_tsn_ack_point \in 0 .. N /\ advanced_peer_tsn_ack_point \in 0 .. N
        /\ n_bytes \in Nat /\ rwnd \in Nat /\ cwnd \in Nat /\ ssthresh \in Nat
        /\ partial_bytes_acked \in Nat /\ fast_recover_exit_point \in 0 .. N
        /\ peer_last_tsn \in 0 .. N
    BY <2>1 DEF Init
  <2>4. /\ inflight \subseteq Tsn /\ acked \subseteq inflight /\ retransmit \subseteq inflight
        /\ resent \subseteq inflight /\ miss_indicator \in [Tsn -> 0 .. 3]
        /\ abandoned \subseteq Nat /\ all_inflight \subseteq Nat
        /\ payload_queue \subseteq Tsn /\ accepted \subseteq Tsn /\ reassembly \subseteq Tsn
        /\ net \subseteq Message /\ control_queue \subseteq {ErrorChunk}
        /\ peer_use_forward_tsn \in BOOLEAN
    BY <2>2 DEF Init
  <2> QED
    BY <2>3, <2>4, Zenon DEF Init, TypeOK
<1>2. OnlyRefusalTearsDown /\ InflightContiguous /\ Points /\ Skips /\ T3CoversInflight
        /\ FastRecoveryCanExit /\ Refusals
  BY DEF Init, OnlyRefusalTearsDown, Refusals, InflightContiguous, Points, Skips, SkipSafe, AcceptedKnown,
         T3CoversInflight, FastRecoveryCanExit
<1>3. FlightSize
  BY FS_EmptySet DEF Init, FlightSize
<1>4. \A d \in net : PacketOK(d)
  BY DEF Init
<1> QED
  BY <1>1, <1>2, <1>3, <1>4 DEF IInv

(* Packets stay justified when the sender and receiver only move forward.  *)
LEMMA PacketStable ==
    ASSUME IInv, NEW d \in net,
           my_next_tsn' \in Nat, my_next_tsn' >= my_next_tsn,
           peer_last_tsn' \in Nat, peer_last_tsn' >= peer_last_tsn,
           accepted \subseteq accepted', abandoned \subseteq abandoned',
           peer_use_forward_tsn' = peer_use_forward_tsn
    PROVE  PacketOK(d)'
<1>1. PacketOK(d)
  BY DEF IInv
<1>2. my_next_tsn \in Nat /\ peer_last_tsn \in Nat
  BY DataAssumption DEF IInv, TypeOK, DataAssumption
<1> QED
  BY <1>1, <1>2 DEF PacketOK, SkipSafe, HasAbandoned, Refused

(* Writing a chunk only makes Pending grow. *)
LEMMA PushChunkIInv == IInv /\ PushChunk => IInv'
<1> SUFFICES ASSUME IInv, PushChunk PROVE IInv'
  OBVIOUS
<1> USE DataAssumption DEF DataAssumption
<1>1. UNCHANGED <<my_next_tsn, cumulative_tsn_ack_point, advanced_peer_tsn_ack_point,
        inflight, n_bytes, acked, retransmit, resent, miss_indicator, abandoned,
        all_inflight, rwnd, cwnd, ssthresh, partial_bytes_acked, in_fast_recovery,
        fast_recover_exit_point, will_retransmit_fast, will_send_forward_tsn, t3rtx,
        t3_stale, peer_last_tsn, payload_queue, accepted, reassembly, ack_state,
        ack_timer, peer_use_forward_tsn, control_queue, net, reading>>
  BY DEF PushChunk, queue, flags, points, congestion, t3, receiver
<1>2. written' \in 0 .. N /\ written' = written + 1
  BY DEF PushChunk, IInv, TypeOK
<1>3. buffered_amount' \in Nat
  <2>1. Fragments(Msg[written + 1]) \in SUBSET Tsn
    BY DEF Fragments
  <2>2. Cardinality(Fragments(Msg[written + 1])) \in Nat
    BY <2>1, TsnFinite
  <2> QED
    BY <2>2 DEF PushChunk, IInv, TypeOK
<1>4. awake' \in BOOLEAN
  BY DEF PushChunk, IInv, TypeOK, EndingFragment
<1>5. TypeOK'
  BY <1>1, <1>2, <1>3, <1>4 DEF IInv, TypeOK
<1>6. \A d \in net' : PacketOK(d)'
  BY <1>1, PacketStable DEF IInv, TypeOK
<1>7. Points'
  BY <1>1, <1>2 DEF IInv, TypeOK, Points
<1> QED
  BY <1>1, <1>5, <1>6, <1>7 DEF IInv, OnlyRefusalTearsDown, InflightContiguous, Skips,
       SkipSafe, AcceptedKnown, Refusals, Refused, HasAbandoned,
       FlightSize, T3CoversInflight, FastRecoveryCanExit

(* The sender's variables, and the receiver's, when an action leaves them. *)
LEMMA SenderUnchanged ==
    ASSUME UNCHANGED sender
    PROVE  UNCHANGED <<written, buffered_amount, awake, my_next_tsn,
             cumulative_tsn_ack_point, advanced_peer_tsn_ack_point, inflight, n_bytes,
             acked, retransmit, resent, miss_indicator, abandoned, all_inflight, rwnd,
             cwnd, ssthresh, partial_bytes_acked, in_fast_recovery,
             fast_recover_exit_point, will_retransmit_fast, will_send_forward_tsn,
             t3rtx, t3_stale>>
BY DEF sender, app, queue, flags, points, congestion, requests, t3

(* The receiver's variables, one by one. *)
LEMMA ReceiverUnchanged ==
    ASSUME UNCHANGED receiver
    PROVE  UNCHANGED <<peer_last_tsn, payload_queue, accepted, reassembly, ack_state,
                       ack_timer, peer_use_forward_tsn, control_queue>>
BY DEF receiver

(* An action of the receiver leaves the sender's parts of IInv as they are.  *)
LEMMA SenderPartStable ==
    ASSUME IInv, UNCHANGED sender,
           UNCHANGED <<reading, peer_use_forward_tsn>>,
           control_queue' \subseteq {ErrorChunk}, control_queue' # {} => Refused,
           peer_last_tsn' \in peer_last_tsn .. my_next_tsn - 1,
           payload_queue' \subseteq peer_last_tsn' + 1 .. my_next_tsn - 1,
           accepted \subseteq accepted', accepted' \subseteq Tsn,
           reassembly' \subseteq Tsn,
           SkipSafe(peer_last_tsn)', payload_queue' \subseteq accepted', AcceptedKnown',
           ack_state' \in {"Idle", "Immediate", "Delay"},
           ack_timer' \in {"off", "on", "spent"},
           net' \subseteq Message,
           \A d \in net' : d \in net \/ PacketOK(d)'
    PROVE  IInv'
<1>0. N \in Nat
  BY DataAssumption DEF DataAssumption
<1>1. UNCHANGED <<written, buffered_amount, awake, my_next_tsn,
             cumulative_tsn_ack_point, advanced_peer_tsn_ack_point, inflight, n_bytes,
             acked, retransmit, resent, miss_indicator, abandoned, all_inflight, rwnd,
             cwnd, ssthresh, partial_bytes_acked, in_fast_recovery,
             fast_recover_exit_point, will_retransmit_fast, will_send_forward_tsn,
             t3rtx, t3_stale>>
  BY SenderUnchanged
<1>2. /\ my_next_tsn \in 1 .. N + 1 /\ peer_last_tsn \in 0 .. N
      /\ cumulative_tsn_ack_point \in 0 .. N /\ advanced_peer_tsn_ack_point \in 0 .. N
  BY DEF IInv, TypeOK
<1>3. peer_last_tsn' \in 0 .. N /\ payload_queue' \subseteq Tsn
  <2>1. peer_last_tsn' \in 0 .. N
    BY <1>0, <1>2
  <2>2. peer_last_tsn' + 1 .. my_next_tsn - 1 \subseteq Tsn
    BY <1>2, <2>1, IntervalOfTsn
  <2> QED
    BY <2>1, <2>2
<1>4. TypeOK'
  BY <1>1, <1>3, Zenon DEF IInv, TypeOK
<1>5. \A d \in net' : PacketOK(d)'
  BY <1>1, <1>2, <1>3, PacketStable
<1>6. Points'
  <2>1. /\ my_next_tsn' <= written' + 1
        /\ advanced_peer_tsn_ack_point' < my_next_tsn'
    BY <1>1 DEF IInv, Points
  <2>2. cumulative_tsn_ack_point' <= peer_last_tsn' /\ peer_last_tsn' < my_next_tsn'
    BY <1>0, <1>1, <1>2 DEF IInv, Points
  <2>3. payload_queue' \subseteq peer_last_tsn' + 1 .. my_next_tsn' - 1
    BY <1>1
  <2> QED
    BY <2>1, <2>2, <2>3 DEF Points
<1>7. Skips'
  BY <1>1, <1>2 DEF IInv, Skips, SkipSafe, AcceptedKnown
<1>8. Refusals' /\ OnlyRefusalTearsDown'
  BY <1>1 DEF IInv, Refusals, OnlyRefusalTearsDown, Refused, HasAbandoned
<1> QED
  BY <1>1, <1>4, <1>5, <1>6, <1>7, <1>8 DEF IInv, InflightContiguous, FlightSize,
       T3CoversInflight, FastRecoveryCanExit

(* Reading a message only empties the reassembly queue. *)
LEMMA ReadSctpIInv == ASSUME IInv, NEW m, ReadSctp(m) PROVE IInv'
<1>1. UNCHANGED <<sender, peer_last_tsn, payload_queue, accepted, ack_state, ack_timer,
                  peer_use_forward_tsn, control_queue, net, reading>>
  BY DEF ReadSctp
<1>2. reassembly' \subseteq Tsn
  BY DEF ReadSctp, IInv, TypeOK
<1>3. SkipSafe(peer_last_tsn)' /\ payload_queue' \subseteq accepted' /\ AcceptedKnown'
  BY <1>1 DEF IInv, Skips, SkipSafe, AcceptedKnown
<1>4. /\ peer_last_tsn' \in peer_last_tsn .. my_next_tsn - 1
      /\ payload_queue' \subseteq peer_last_tsn' + 1 .. my_next_tsn - 1
  BY <1>1, DataAssumption DEF IInv, TypeOK, Points, DataAssumption
<1>5. /\ control_queue' \subseteq {ErrorChunk} /\ (control_queue' # {} => Refused)
      /\ accepted' \subseteq Tsn /\ accepted \subseteq accepted' /\ net' \subseteq Message
      /\ ack_state' \in {"Idle", "Immediate", "Delay"}
      /\ ack_timer' \in {"off", "on", "spent"}
      /\ \A d \in net' : d \in net
  BY <1>1, Zenon DEF IInv, TypeOK, Refusals
<1> QED
  BY <1>1, <1>2, <1>3, <1>4, <1>5, SenderPartStable

(* The delayed-ack timer only asks for a SACK. *)
LEMMA AckTimeoutIInv == IInv /\ AckTimeout => IInv'
<1> SUFFICES ASSUME IInv, AckTimeout PROVE IInv'
  OBVIOUS
<1>1. UNCHANGED <<sender, peer_last_tsn, payload_queue, accepted, reassembly,
                  peer_use_forward_tsn, control_queue, net, reading>>
  BY DEF AckTimeout
<1>2. SkipSafe(peer_last_tsn)' /\ payload_queue' \subseteq accepted' /\ AcceptedKnown'
  BY <1>1 DEF IInv, Skips, SkipSafe, AcceptedKnown
<1>3. /\ peer_last_tsn' \in peer_last_tsn .. my_next_tsn - 1
      /\ payload_queue' \subseteq peer_last_tsn' + 1 .. my_next_tsn - 1
  BY <1>1, DataAssumption DEF IInv, TypeOK, Points, DataAssumption
<1>4. /\ control_queue' \subseteq {ErrorChunk} /\ (control_queue' # {} => Refused)
      /\ accepted' \subseteq Tsn /\ accepted \subseteq accepted' /\ net' \subseteq Message
      /\ reassembly' \subseteq Tsn
      /\ ack_state' \in {"Idle", "Immediate", "Delay"}
      /\ ack_timer' \in {"off", "on", "spent"}
      /\ \A d \in net' : d \in net
  BY <1>1, Zenon DEF IInv, TypeOK, Refusals, AckTimeout
<1> QED
  BY <1>1, <1>2, <1>3, <1>4, SenderPartStable

(* Losing packets, and consuming one without effect, preserve IInv.        *)
LEMMA FewerPacketsIInv ==
    ASSUME IInv, UNCHANGED <<sender, receiver, reading>>, net' \subseteq net
    PROVE  IInv'
<1>1. UNCHANGED <<sender, peer_last_tsn, payload_queue, accepted, reassembly,
                  ack_state, ack_timer, peer_use_forward_tsn, control_queue, reading>>
  BY ReceiverUnchanged
<1>2. SkipSafe(peer_last_tsn)' /\ payload_queue' \subseteq accepted' /\ AcceptedKnown'
  BY <1>1 DEF IInv, Skips, SkipSafe, AcceptedKnown
<1>3. /\ peer_last_tsn' \in peer_last_tsn .. my_next_tsn - 1
      /\ payload_queue' \subseteq peer_last_tsn' + 1 .. my_next_tsn - 1
  BY <1>1, DataAssumption DEF IInv, TypeOK, Points, DataAssumption
<1>4. /\ control_queue' \subseteq {ErrorChunk} /\ (control_queue' # {} => Refused)
      /\ accepted' \subseteq Tsn /\ accepted \subseteq accepted' /\ net' \subseteq Message
      /\ reassembly' \subseteq Tsn
      /\ ack_state' \in {"Idle", "Immediate", "Delay"}
      /\ ack_timer' \in {"off", "on", "spent"}
      /\ \A d \in net' : d \in net
  BY <1>1, Zenon DEF IInv, TypeOK, Refusals
<1> QED
  BY <1>1, <1>2, <1>3, <1>4, SenderPartStable

(* The window the receiver advertises lies within its buffer.              *)
LEMMA CreditType ==
    ASSUME IInv PROVE GetMyReceiverWindowCredit \in 0 .. RcvBuf
<1>1. Cardinality(reassembly) \in Nat
  BY TsnFinite DEF IInv, TypeOK
<1> QED
  BY <1>1, DataAssumption DEF GetMyReceiverWindowCredit, Largest, DataAssumption

(* A SACK describes the receiver's state, so it is justified. *)
LEMMA SackIInv == IInv /\ GatherOutboundSackPackets => IInv'
<1> SUFFICES ASSUME IInv, GatherOutboundSackPackets PROVE IInv'
  OBVIOUS
<1> DEFINE s == Sack(peer_last_tsn, payload_queue, GetMyReceiverWindowCredit)
<1>1. /\ UNCHANGED <<sender, peer_last_tsn, payload_queue, accepted, reassembly,
                     ack_timer, peer_use_forward_tsn, reading>>
      /\ ack_state' \in {"Idle", ack_state} /\ control_queue' = {}
      /\ net' \subseteq net \cup {s} \cup control_queue
  BY DEF GatherOutboundSackPackets, DueSack, Send
<1>2. SkipSafe(peer_last_tsn)' /\ payload_queue' \subseteq accepted' /\ AcceptedKnown'
  BY <1>1 DEF IInv, Skips, SkipSafe, AcceptedKnown
<1>3. /\ peer_last_tsn' \in peer_last_tsn .. my_next_tsn - 1
      /\ payload_queue' \subseteq peer_last_tsn' + 1 .. my_next_tsn - 1
  BY <1>1, DataAssumption DEF IInv, TypeOK, Points, DataAssumption
<1>4. s \in Message
  <2>1. peer_last_tsn \in 0 .. N /\ payload_queue \in SUBSET Tsn
    BY DEF IInv, TypeOK
  <2> QED
    BY <2>1, CreditType DEF Message
<1>4a. control_queue \subseteq Message
  BY DEF IInv, TypeOK, Message
<1>5. ASSUME NEW d, d = s PROVE PacketOK(d)'
  <2>1. /\ d.type = "SACK" /\ d.cum = peer_last_tsn
        /\ d.gaps = payload_queue /\ d.a_rwnd = GetMyReceiverWindowCredit
    BY <1>5 DEF Sack
  <2>2. d.a_rwnd \in Nat /\ d.cum \in 0 .. peer_last_tsn'
    BY <1>1, <2>1, CreditType, DataAssumption DEF IInv, TypeOK, DataAssumption
  <2>3. d.gaps \subseteq d.cum + 1 .. my_next_tsn' - 1
    BY <1>1, <1>3, <2>1, SenderUnchanged
  <2> QED
    BY <2>1, <2>2, <2>3 DEF PacketOK
<1>5a. ASSUME NEW d \in control_queue PROVE PacketOK(d)'
  <2>1. d = ErrorChunk /\ Refused
    BY <1>5a DEF IInv, TypeOK, Refusals
  <2>2. d.type = "ERROR"
    BY <2>1 DEF ErrorChunk
  <2>3. Refused'
    BY <1>1, <2>1, SenderUnchanged DEF Refused
  <2> QED
    BY <2>2, <2>3 DEF PacketOK
<1> HIDE DEF s
<1>6. /\ control_queue' \subseteq {ErrorChunk} /\ (control_queue' # {} => Refused)
      /\ accepted' \subseteq Tsn /\ accepted \subseteq accepted' /\ net' \subseteq Message
      /\ reassembly' \subseteq Tsn
      /\ ack_state' \in {"Idle", "Immediate", "Delay"}
      /\ ack_timer' \in {"off", "on", "spent"}
      /\ \A d \in net' : d \in net \/ d = s \/ d \in control_queue
  BY <1>1, <1>4, <1>4a, Zenon DEF IInv, TypeOK
<1>7. \A d \in net' : d \in net \/ PacketOK(d)'
  BY <1>5, <1>5a, <1>6
<1> QED
  BY <1>1, <1>2, <1>3, <1>6, <1>7, SenderPartStable

(* What handle_peer_last_tsn_and_acknowledgement does to the receiver.     *)
LEMMA PeerLastAdvances ==
    ASSUME NEW base \in Nat, NEW pq, NEW m \in Nat, base < m,
           pq \subseteq base + 1 .. m - 1, pq \subseteq accepted',
           \A t \in 1 .. base : Msg[t] \in Dcep => t \in accepted',
           accepted' \subseteq (1 .. base) \cup pq,
           ack_timer \in {"off", "on", "spent"},
           HandlePeerLastTsnAndAcknowledgement(base, pq)
    PROVE  /\ peer_last_tsn' \in base .. m - 1
           /\ payload_queue' \subseteq peer_last_tsn' + 1 .. m - 1
           /\ payload_queue' \subseteq accepted'
           /\ SkipSafe(peer_last_tsn)' /\ AcceptedKnown'
           /\ ack_state' \in {"Idle", "Immediate", "Delay"}
           /\ ack_timer' \in {"off", "on", "spent"}
<1>1. PICK last \in base .. N :
          /\ base + 1 .. last \subseteq pq
          /\ peer_last_tsn' = last
          /\ payload_queue' = {t \in pq : t > last}
  BY DEF HandlePeerLastTsnAndAcknowledgement
<1>2. last \in Nat /\ last >= base
  BY <1>1, DataAssumption DEF DataAssumption
<1>3. last <= m - 1
  <2>1. CASE last = base
    BY <2>1
  <2>2. CASE last # base
    <3>1. last \in base + 1 .. last
      BY <1>2, <2>2
    <3> QED
      BY <1>1, <3>1
  <2> QED
    BY <2>1, <2>2
<1>4. payload_queue' \subseteq last + 1 .. m - 1 /\ payload_queue' \subseteq accepted'
  <2>1. ASSUME NEW t \in payload_queue' PROVE t \in last + 1 .. m - 1 /\ t \in accepted'
    <3>1. t \in pq /\ t > last
      BY <1>1
    <3>2. t \in base + 1 .. m - 1 /\ t \in accepted'
      BY <3>1
    <3> QED
      BY <1>2, <3>1, <3>2
  <2> QED
    BY <2>1
<1>5. \A t \in 1 .. last : Msg[t] \in Dcep => t \in accepted'
  <2> TAKE t \in 1 .. last
  <2>1. CASE t <= base
    BY <2>1
  <2>2. CASE t > base
    BY <1>1, <1>2, <2>2
  <2> QED
    BY <1>2, <2>1, <2>2
<1>6. SkipSafe(peer_last_tsn)'
  BY <1>1, <1>5 DEF SkipSafe
<1>7. ack_state' \in {"Idle", "Immediate", "Delay"} /\ ack_timer' \in {"off", "on", "spent"}
  BY DEF HandlePeerLastTsnAndAcknowledgement
<1>8. AcceptedKnown'
  <2>1. ASSUME NEW t \in accepted' PROVE t \in 1 .. last \/ t \in payload_queue'
    <3>1. CASE t \in 1 .. base
      BY <1>2, <3>1
    <3>2. CASE t \in pq
      <4>1. t \in base + 1 .. m - 1
        BY <3>2
      <4> QED
        BY <1>1, <1>2, <3>2, <4>1
    <3> QED
      BY <3>1, <3>2
  <2> QED
    BY <1>1, <2>1 DEF AcceptedKnown
<1> QED
  BY <1>1, <1>2, <1>3, <1>4, <1>6, <1>7, <1>8

(* A DATA chunk moves peer_last_tsn over chunks received. *)
LEMMA HandleDataIInv == ASSUME IInv, NEW d \in net, HandleData(d) PROVE IInv'
<1>1. /\ UNCHANGED <<sender, peer_use_forward_tsn, control_queue, reading>>
      /\ net' \subseteq net /\ d.type = "DATA"
  BY DEF HandleData, Deliver
<1>2. /\ my_next_tsn \in 1 .. N + 1 /\ peer_last_tsn \in 0 .. N
      /\ peer_last_tsn < my_next_tsn /\ N \in Nat
      /\ ack_timer \in {"off", "on", "spent"}
  BY DataAssumption DEF IInv, TypeOK, Points, DataAssumption
<1>3. d.tsn \in 1 .. my_next_tsn - 1
  BY <1>1 DEF IInv, PacketOK
<1> DEFINE pq == IF Acceptable(d.tsn) THEN payload_queue \cup {d.tsn} ELSE payload_queue
<1>4. /\ HandlePeerLastTsnAndAcknowledgement(peer_last_tsn, pq)
      /\ accepted' = IF Acceptable(d.tsn) THEN accepted \cup {d.tsn} ELSE accepted
      /\ reassembly' = IF Acceptable(d.tsn) THEN reassembly \cup {d.tsn} ELSE reassembly
  BY DEF HandleData
<1>5. d.tsn \in Tsn
  BY <1>2, <1>3 DEF Tsn
<1>6. accepted \subseteq accepted' /\ accepted' \subseteq Tsn /\ reassembly' \subseteq Tsn
  BY <1>4, <1>5 DEF IInv, TypeOK
<1>7. pq \subseteq peer_last_tsn + 1 .. my_next_tsn - 1 /\ pq \subseteq accepted'
  <2>1. payload_queue \subseteq peer_last_tsn + 1 .. my_next_tsn - 1
    BY DEF IInv, Points
  <2>2. payload_queue \subseteq accepted
    BY DEF IInv, Skips
  <2>3. Acceptable(d.tsn) => d.tsn \in peer_last_tsn + 1 .. my_next_tsn - 1
    BY <1>2, <1>3 DEF Acceptable
  <2> QED
    BY <1>4, <2>1, <2>2, <2>3
<1>11. accepted' \subseteq (1 .. peer_last_tsn) \cup pq
  BY <1>4 DEF IInv, Skips, AcceptedKnown
<1> HIDE DEF pq
<1>8. \A t \in 1 .. peer_last_tsn : Msg[t] \in Dcep => t \in accepted'
  BY <1>6 DEF IInv, Skips, SkipSafe
<1>9. /\ peer_last_tsn' \in peer_last_tsn .. my_next_tsn - 1
      /\ payload_queue' \subseteq peer_last_tsn' + 1 .. my_next_tsn - 1
      /\ payload_queue' \subseteq accepted'
      /\ SkipSafe(peer_last_tsn)' /\ AcceptedKnown'
      /\ ack_state' \in {"Idle", "Immediate", "Delay"}
      /\ ack_timer' \in {"off", "on", "spent"}
  <2>1. peer_last_tsn \in Nat /\ my_next_tsn \in Nat
    BY <1>2
  <2> QED
    BY <1>2, <1>4, <1>7, <1>8, <1>11, <2>1, PeerLastAdvances
<1>10. /\ control_queue' \subseteq {ErrorChunk} /\ (control_queue' # {} => Refused)
       /\ net' \subseteq Message /\ \A e \in net' : e \in net
  BY <1>1, Zenon DEF IInv, TypeOK, Refusals
<1> QED
  BY <1>1, <1>6, <1>9, <1>10, SenderPartStable

(* A FORWARD-TSN skips no chunk of a DCEP message. *)
LEMMA HandleForwardTsnIInv == ASSUME IInv, NEW d \in net, HandleForwardTsn(d) PROVE IInv'
<1>1. /\ UNCHANGED <<sender, accepted, peer_use_forward_tsn, reading>>
      /\ net' \subseteq net /\ d.type = "FWD"
  BY DEF HandleForwardTsn, Deliver
<1>2. /\ my_next_tsn \in 1 .. N + 1 /\ peer_last_tsn \in 0 .. N
      /\ peer_last_tsn < my_next_tsn /\ N \in Nat
      /\ ack_timer \in {"off", "on", "spent"}
  BY DataAssumption DEF IInv, TypeOK, Points, DataAssumption
<1>3. d.new_cum \in 1 .. my_next_tsn - 1 /\ SkipSafe(d.new_cum) /\ HasAbandoned
  BY <1>1 DEF IInv, PacketOK
<1>4. reassembly' \subseteq Tsn
  BY DEF HandleForwardTsn, AcceptForwardTsn, RefuseForwardTsn, ForwardTsnForUnordered, IInv, TypeOK
<1>5. payload_queue \subseteq peer_last_tsn + 1 .. my_next_tsn - 1 /\ payload_queue \subseteq accepted
  BY DEF IInv, Points, Skips
<1>6. /\ peer_last_tsn' \in peer_last_tsn .. my_next_tsn - 1
      /\ payload_queue' \subseteq peer_last_tsn' + 1 .. my_next_tsn - 1
      /\ payload_queue' \subseteq accepted'
      /\ SkipSafe(peer_last_tsn)' /\ AcceptedKnown'
      /\ ack_state' \in {"Idle", "Immediate", "Delay"}
      /\ ack_timer' \in {"off", "on", "spent"}
  <2>1. CASE ~peer_use_forward_tsn \/ d.new_cum <= peer_last_tsn
    <3>1. /\ peer_last_tsn' = peer_last_tsn /\ payload_queue' = payload_queue
          /\ ack_state' \in {"Immediate", ack_state} /\ ack_timer' \in {"off", ack_timer}
      BY <2>1 DEF HandleForwardTsn, AcceptForwardTsn, RefuseForwardTsn
    <3>5. ack_state' \in {"Idle", "Immediate", "Delay"} /\ ack_timer' \in {"off", "on", "spent"}
      BY <3>1 DEF IInv, TypeOK
    <3>2. SkipSafe(peer_last_tsn)' /\ AcceptedKnown'
      BY <1>1, <3>1 DEF IInv, Skips, SkipSafe, AcceptedKnown
    <3>3. peer_last_tsn' \in peer_last_tsn .. my_next_tsn - 1
      BY <1>2, <3>1
    <3>4. /\ payload_queue' \subseteq peer_last_tsn' + 1 .. my_next_tsn - 1
          /\ payload_queue' \subseteq accepted'
      BY <1>1, <1>5, <3>1
    <3> QED
      BY <3>2, <3>3, <3>4, <3>5
  <2>2. CASE peer_use_forward_tsn /\ ~(d.new_cum <= peer_last_tsn)
    <3> DEFINE pq == {t \in payload_queue : t > d.new_cum}
    <3>1. HandlePeerLastTsnAndAcknowledgement(d.new_cum, pq)
      BY <2>2 DEF HandleForwardTsn, AcceptForwardTsn
    <3>2. d.new_cum \in Nat /\ d.new_cum < my_next_tsn /\ my_next_tsn \in Nat
      BY <1>2, <1>3
    <3>3. pq \subseteq d.new_cum + 1 .. my_next_tsn - 1 /\ pq \subseteq accepted'
      <4>1. ASSUME NEW t \in pq
            PROVE  t \in d.new_cum + 1 .. my_next_tsn - 1 /\ t \in accepted'
        <5>1. t \in peer_last_tsn + 1 .. my_next_tsn - 1 /\ t \in accepted /\ t > d.new_cum
          BY <1>5
        <5> QED
          BY <1>1, <1>2, <3>2, <5>1
      <4> QED
        BY <4>1
    <3>4. \A t \in 1 .. d.new_cum : Msg[t] \in Dcep => t \in accepted'
      BY <1>1, <1>3 DEF SkipSafe
    <3>7. accepted' \subseteq (1 .. d.new_cum) \cup pq
      <4>1. ASSUME NEW t \in accepted' PROVE t \in 1 .. d.new_cum \/ t \in pq
        <5>1. t \in accepted /\ accepted \subseteq (1 .. peer_last_tsn) \cup payload_queue
          BY <1>1 DEF IInv, Skips, AcceptedKnown
        <5>2. CASE t \in 1 .. peer_last_tsn
          BY <1>2, <2>2, <3>2, <5>2
        <5>3. CASE t \in payload_queue
          <6>1. t \in peer_last_tsn + 1 .. my_next_tsn - 1
            BY <1>5, <5>3
          <6> QED
            BY <1>2, <3>2, <5>3, <6>1
        <5> QED
          BY <5>1, <5>2, <5>3
      <4> QED
        BY <4>1
    <3> HIDE DEF pq
    <3>5. /\ peer_last_tsn' \in d.new_cum .. my_next_tsn - 1
          /\ payload_queue' \subseteq peer_last_tsn' + 1 .. my_next_tsn - 1
          /\ payload_queue' \subseteq accepted'
          /\ SkipSafe(peer_last_tsn)' /\ AcceptedKnown'
          /\ ack_state' \in {"Idle", "Immediate", "Delay"}
          /\ ack_timer' \in {"off", "on", "spent"}
      BY <1>2, <3>1, <3>2, <3>3, <3>4, <3>7, PeerLastAdvances
    <3>6. peer_last_tsn' \in peer_last_tsn .. my_next_tsn - 1
      BY <1>2, <2>2, <3>2, <3>5
    <3> QED
      BY <3>5, <3>6
  <2> QED
    BY <2>1, <2>2
<1>8. control_queue' \subseteq {ErrorChunk} /\ (control_queue' # {} => Refused)
  <2>1. CASE peer_use_forward_tsn
    BY <2>1 DEF HandleForwardTsn, AcceptForwardTsn, IInv, TypeOK, Refusals
  <2>2. CASE ~peer_use_forward_tsn
    <3>1. Refused
      BY <1>3, <2>2 DEF Refused, HasAbandoned
    <3> QED
      BY <2>2, <3>1 DEF HandleForwardTsn, RefuseForwardTsn, IInv, TypeOK
  <2> QED
    BY <2>1, <2>2
<1>7. /\ net' \subseteq Message /\ \A e \in net' : e \in net
      /\ accepted' \subseteq Tsn /\ accepted \subseteq accepted'
  BY <1>1, Zenon DEF IInv, TypeOK, Refusals
<1> QED
  BY <1>1, <1>4, <1>6, <1>7, <1>8, SenderPartStable

(* The chunks the write loop pops: a run of pending TSNs.                  *)
LEMMA BurstFits ==
    ASSUME IInv
    PROVE  /\ BurstSize \in Nat
           /\ BurstSize <= Pending
           /\ ~ZeroWindowProbe => BurstSize <= rwnd
<1>1. /\ my_next_tsn \in Nat /\ written \in Nat /\ my_next_tsn <= written + 1
      /\ cwnd \in Nat /\ n_bytes \in Nat /\ rwnd \in Nat
  BY DataAssumption DEF IInv, TypeOK, Points, DataAssumption
<1>2. Pending \in Nat
  BY <1>1 DEF Pending
<1>3. WithinWindows \in Nat /\ WithinWindows <= rwnd /\ WithinWindows <= Pending
  BY <1>1, <1>2 DEF WithinWindows, Smallest, Largest
<1>4. ZeroWindowProbe => Pending >= 1
  BY <1>2 DEF ZeroWindowProbe
<1> QED
  BY <1>1, <1>2, <1>3, <1>4 DEF BurstSize

(* The write loop assigns the next TSNs to pending chunks. *)
LEMMA GatherOutboundIInv == IInv /\ GatherOutbound => IInv'
<1> SUFFICES ASSUME IInv, GatherOutbound PROVE IInv'
  OBVIOUS
<1> DEFINE R == GetDataPacketsToRetransmit
           P == PopPendingDataChunksToSend
           all == SetAllInflight(P)
           F == FastRetransmission(R, CheckPartialReliabilityStatus(R \cup P), all)
           out == R \cup P \cup F
           fwd == GatherOutboundForwardTsnPackets
<1>1. /\ awake' = FALSE
      /\ my_next_tsn' = my_next_tsn + Cardinality(P)
      /\ inflight' = inflight \cup P
      /\ n_bytes' = n_bytes + Cardinality(P)
      /\ retransmit' = retransmit \ R
      /\ resent' = resent \cup R \cup F
      /\ abandoned' = CheckPartialReliabilityStatus(out)
      /\ all_inflight' = all
      /\ rwnd' = rwnd - (IF ZeroWindowProbe THEN 0 ELSE Cardinality(P))
      /\ t3rtx' = (t3rtx \/ P # {})
      /\ will_retransmit_fast' = FALSE
      /\ will_send_forward_tsn' = FALSE
      /\ net' \subseteq net \cup {Data(t) : t \in out} \cup fwd
  BY DEF GatherOutbound, Send
<1>2. UNCHANGED <<written, buffered_amount, acked, miss_indicator,
        cumulative_tsn_ack_point, advanced_peer_tsn_ack_point, cwnd, ssthresh,
        partial_bytes_acked, in_fast_recovery, fast_recover_exit_point, t3_stale,
        peer_last_tsn, payload_queue, accepted, reassembly, ack_state, ack_timer,
        peer_use_forward_tsn, control_queue, reading>>
  BY DEF GatherOutbound, app, receiver
<1>3. /\ N \in Nat /\ written \in 0 .. N /\ my_next_tsn \in 1 .. N + 1
      /\ my_next_tsn <= written + 1 /\ cumulative_tsn_ack_point \in 0 .. N
      /\ cumulative_tsn_ack_point < my_next_tsn /\ rwnd \in Nat /\ n_bytes \in Nat
      /\ peer_last_tsn \in 0 .. N /\ peer_last_tsn < my_next_tsn
      /\ cumulative_tsn_ack_point <= peer_last_tsn
      /\ advanced_peer_tsn_ack_point \in 0 .. N /\ advanced_peer_tsn_ack_point < my_next_tsn
  BY DataAssumption DEF IInv, TypeOK, Points, DataAssumption
<1>4. inflight = cumulative_tsn_ack_point + 1 .. my_next_tsn - 1
  BY DEF IInv, InflightContiguous
<1> DEFINE k == BurstSize
<1>5. k \in Nat /\ k <= Pending /\ (~ZeroWindowProbe => k <= rwnd)
  BY BurstFits
<1>5a. P = my_next_tsn .. my_next_tsn + k - 1
  BY DEF PopPendingDataChunksToSend
<1> HIDE DEF k, P
<1>6. Cardinality(P) = k /\ IsFiniteSet(P)
  BY <1>3, <1>5, <1>5a, IntervalCard
<1>7. /\ my_next_tsn' = my_next_tsn + k /\ my_next_tsn' >= my_next_tsn
      /\ my_next_tsn' <= written + 1 /\ my_next_tsn' \in 1 .. N + 1
  BY <1>1, <1>3, <1>5, <1>6 DEF Pending
<1>8. P \subseteq Tsn /\ P \subseteq 1 .. my_next_tsn' - 1 /\ P \cap inflight = {}
  BY <1>3, <1>4, <1>5, <1>5a, <1>7 DEF Tsn
<1>9. R \subseteq inflight /\ F \subseteq inflight
  BY DEF GetDataPacketsToRetransmit, Lowest, FastRetransmission, IInv, TypeOK
<1>10. inflight \subseteq Tsn /\ inflight \subseteq 1 .. my_next_tsn' - 1
  BY <1>3, <1>4, <1>7 DEF Tsn
<1>11. out \subseteq Tsn /\ out \subseteq 1 .. my_next_tsn' - 1
  BY <1>8, <1>9, <1>10
<1>12. \A t \in Tsn : Msg[t] \in Nat
  BY DataAssumption DEF DataAssumption, Tsn
<1>13. abandoned' \subseteq Nat /\ abandoned' \cap Dcep = {} /\ abandoned \subseteq abandoned'
  BY <1>1, <1>11, <1>12 DEF CheckPartialReliabilityStatus, IInv, TypeOK, Skips
<1>14. all_inflight' \subseteq Nat
  BY <1>1, <1>8, <1>12 DEF SetAllInflight, IInv, TypeOK
<1>15. rwnd' \in Nat
  BY <1>1, <1>3, <1>5, <1>6
<1> HIDE DEF R, all, F, out, fwd
<1>16. InflightContiguous'
  <2>1. inflight' = cumulative_tsn_ack_point + 1 .. my_next_tsn + k - 1
    <3>1. cumulative_tsn_ack_point \in Int /\ my_next_tsn \in Int
      BY <1>3
    <3>2. (cumulative_tsn_ack_point + 1 .. my_next_tsn - 1) \cup (my_next_tsn .. my_next_tsn + k - 1)
            = cumulative_tsn_ack_point + 1 .. my_next_tsn + k - 1
      BY <1>3, <1>5, <3>1, IntervalUnion
    <3> QED
      BY <1>1, <1>4, <1>5a, <3>2
  <2> QED
    BY <1>2, <1>3, <1>5, <1>7, <2>1 DEF InflightContiguous
<1>17. FlightSize'
  <2>1. inflight \ acked \in SUBSET Tsn
    BY <1>10
  <2>2. IsFiniteSet(inflight \ acked) /\ Cardinality(inflight \ acked) \in Nat
    BY <2>1, TsnFinite
  <2>3. /\ inflight' \ acked' = (inflight \ acked) \cup P
        /\ (inflight \ acked) \cap P = {}
    BY <1>1, <1>2, <1>8 DEF IInv, TypeOK
  <2>4. Cardinality(inflight' \ acked') = Cardinality(inflight \ acked) + Cardinality(P)
    BY <1>6, <2>2, <2>3, DisjointCard
  <2> QED
    BY <1>1, <1>3, <1>5, <1>6, <2>2, <2>4 DEF IInv, FlightSize
<1>18. /\ inflight' \subseteq Tsn /\ acked' \subseteq inflight' /\ retransmit' \subseteq inflight'
       /\ resent' \subseteq inflight'
  BY <1>1, <1>2, <1>8, <1>9, <1>10 DEF IInv, TypeOK
<1>19. n_bytes' \in Nat
  BY <1>1, <1>3, <1>5, <1>6
<1>20. net' \subseteq Message
  <2>1. \A t \in Tsn : Data(t) \in Message
    BY DEF Message
  <2>2. fwd \subseteq Message
    <3>1. advanced_peer_tsn_ack_point > cumulative_tsn_ack_point
            => advanced_peer_tsn_ack_point \in Tsn
      BY <1>3 DEF Tsn
    <3> QED
      BY <3>1 DEF fwd, GatherOutboundForwardTsnPackets, Message
  <2>3. net \subseteq Message
    BY DEF IInv, TypeOK
  <2> QED
    BY <1>1, <1>11, <2>1, <2>2, <2>3
<1>21. TypeOK'
  <2>1. t3rtx' \in BOOLEAN
    BY <1>1 DEF IInv, TypeOK
  <2> QED
    BY <1>1, <1>2, <1>7, <1>13, <1>14, <1>15, <1>18, <1>19, <1>20, <2>1, Zenon
       DEF IInv, TypeOK
<1>22. \A d \in net' : PacketOK(d)'
  <2>1. ASSUME NEW d \in net PROVE PacketOK(d)'
    BY <1>2, <1>3, <1>7, <1>13, PacketStable
  <2>2. ASSUME NEW t \in out, NEW d, d = Data(t) PROVE PacketOK(d)'
    BY <1>11, <2>2 DEF PacketOK, Data
  <2>3. ASSUME NEW d \in fwd PROVE PacketOK(d)'
    <3>1. /\ d.type = "FWD" /\ d.new_cum = advanced_peer_tsn_ack_point
          /\ advanced_peer_tsn_ack_point > cumulative_tsn_ack_point
      BY DEF fwd, GatherOutboundForwardTsnPackets, ForwardTsn
    <3>2. d.new_cum \in 1 .. my_next_tsn' - 1
      BY <1>3, <1>7, <3>1
    <3>3. SkipSafe(d.new_cum)'
      BY <1>2, <3>1 DEF IInv, Skips, SkipSafe
    <3>4. HasAbandoned'
      BY <1>13, <3>1 DEF IInv, Refusals, HasAbandoned
    <3> QED
      BY <3>1, <3>2, <3>3, <3>4 DEF PacketOK
  <2> QED
    BY <1>1, <2>1, <2>2, <2>3
<1>23. Points'
  <2>1. payload_queue' \subseteq peer_last_tsn' + 1 .. my_next_tsn' - 1
    BY <1>2, <1>3, <1>7 DEF IInv, Points
  <2> QED
    BY <1>2, <1>3, <1>7, <2>1 DEF Points
<1>24. Skips'
  BY <1>2, <1>13 DEF IInv, Skips, SkipSafe, AcceptedKnown
<1>25. T3CoversInflight'
  BY <1>1 DEF GatherOutbound, IInv, T3CoversInflight
<1>26. FastRecoveryCanExit'
  BY <1>1, <1>2 DEF IInv, FastRecoveryCanExit
<1>27. OnlyRefusalTearsDown' /\ Refusals'
  BY <1>2, <1>13 DEF IInv, OnlyRefusalTearsDown, Refusals, Refused, HasAbandoned
<1> QED
  BY <1>16, <1>17, <1>21, <1>22, <1>23, <1>24, <1>25, <1>26, <1>27 DEF IInv

(* RFC 3758 C2 moves the advanced point over non-DCEP chunks in flight.    *)
LEMMA AdvancePoint ==
    ASSUME IInv, NEW base \in 0 .. N, base < my_next_tsn, SkipSafe(base),
           NEW q \in SUBSET inflight, NEW cum \in Nat, cum >= cumulative_tsn_ack_point,
           base > cum => HasAbandoned,
           AdvancePeerTsnAckPoint(base, q, cum)
    PROVE  /\ advanced_peer_tsn_ack_point' \in 0 .. N
           /\ advanced_peer_tsn_ack_point' < my_next_tsn
           /\ \A t \in 1 .. advanced_peer_tsn_ack_point' : Msg[t] \in Dcep => t \in accepted
           /\ will_send_forward_tsn' \in BOOLEAN
           /\ advanced_peer_tsn_ack_point' > cum => HasAbandoned
<1>1. /\ N \in Nat /\ my_next_tsn \in 1 .. N + 1 /\ will_send_forward_tsn \in BOOLEAN
      /\ advanced_peer_tsn_ack_point \in 0 .. N /\ advanced_peer_tsn_ack_point < my_next_tsn
      /\ SkipSafe(advanced_peer_tsn_ack_point)
      /\ cumulative_tsn_ack_point \in 0 .. N
  BY DataAssumption DEF IInv, TypeOK, Points, Skips, DataAssumption
<1>2. CASE ~use_forward_tsn
  <2>1. UNCHANGED <<advanced_peer_tsn_ack_point, will_send_forward_tsn>>
    BY <1>2 DEF AdvancePeerTsnAckPoint
  <2>2. advanced_peer_tsn_ack_point' > cum => HasAbandoned
    BY <1>1, <2>1 DEF IInv, Refusals
  <2> QED
    BY <1>1, <2>1, <2>2 DEF SkipSafe
<1>3. CASE use_forward_tsn
  <2>1. PICK adv \in 0 .. N :
          /\ AdvancedOver(base, q, adv)
          /\ advanced_peer_tsn_ack_point' = adv
          /\ will_send_forward_tsn' = (will_send_forward_tsn \/ adv > cum)
    BY <1>3 DEF AdvancePeerTsnAckPoint
  <2>2. adv >= base /\ \A i \in base + 1 .. adv : i \in q /\ Abandoned(i)
    BY <2>1 DEF AdvancedOver
  <2>3. adv < my_next_tsn
    <3>1. CASE adv = base
      BY <3>1
    <3>2. CASE adv # base
      <4>1. adv \in base + 1 .. adv
        BY <1>1, <2>2, <3>2
      <4>2. adv \in cumulative_tsn_ack_point + 1 .. my_next_tsn - 1
        BY <2>2, <4>1 DEF IInv, InflightContiguous
      <4> QED
        BY <1>1, <4>2
    <3> QED
      BY <3>1, <3>2
  <2>4. \A t \in 1 .. adv : Msg[t] \in Dcep => t \in accepted
    <3> TAKE t \in 1 .. adv
    <3>1. CASE t <= base
      BY <3>1 DEF SkipSafe
    <3>2. CASE ~(t <= base)
      <4>1. Abandoned(t)
        BY <2>2, <3>2
      <4> QED
        BY <4>1 DEF Abandoned, IInv, Skips
    <3> QED
      BY <3>1, <3>2
  <2>5. will_send_forward_tsn' \in BOOLEAN
    BY <2>1
  <2>6. adv > cum => HasAbandoned
    <3>1. CASE adv = base
      BY <3>1
    <3>2. CASE adv # base
      <4>1. adv \in base + 1 .. adv
        BY <1>1, <2>2, <3>2
      <4>2. Abandoned(adv)
        BY <2>2, <4>1
      <4> QED
        BY <1>3, <4>2 DEF Abandoned, HasAbandoned
    <3> QED
      BY <3>1, <3>2
  <2> QED
    BY <2>1, <2>3, <2>4, <2>5, <2>6
<1> QED
  BY <1>2, <1>3

(* A T3-rtx timeout, even a stale one, preserves IInv. *)
LEMMA T3TimeoutIInv == IInv /\ T3Timeout => IInv'
<1> SUFFICES ASSUME IInv, T3Timeout PROVE IInv'
  OBVIOUS
<1>1. UNCHANGED <<written, buffered_amount, inflight, n_bytes, acked, resent, miss_indicator,
        abandoned, all_inflight, my_next_tsn, cumulative_tsn_ack_point, rwnd,
        partial_bytes_acked, in_fast_recovery, fast_recover_exit_point,
        will_retransmit_fast, t3rtx, peer_last_tsn, payload_queue, accepted, reassembly,
        ack_state, ack_timer, peer_use_forward_tsn, control_queue, net, reading>>
  BY DEF T3Timeout, app, flags, receiver
<1>2. /\ N \in Nat /\ Mtu \in Nat /\ cwnd \in Nat /\ my_next_tsn \in 1 .. N + 1
      /\ cumulative_tsn_ack_point \in Nat /\ peer_last_tsn \in Nat
      /\ advanced_peer_tsn_ack_point \in 0 .. N /\ advanced_peer_tsn_ack_point < my_next_tsn
  BY DataAssumption DEF IInv, TypeOK, Points, DataAssumption
<1>3. ssthresh' \in Nat /\ cwnd' \in Nat
  BY <1>2 DEF T3Timeout, Largest
<1>4. /\ advanced_peer_tsn_ack_point' \in 0 .. N
      /\ advanced_peer_tsn_ack_point' < my_next_tsn
      /\ \A t \in 1 .. advanced_peer_tsn_ack_point' : Msg[t] \in Dcep => t \in accepted
      /\ will_send_forward_tsn' \in BOOLEAN
      /\ advanced_peer_tsn_ack_point' > cumulative_tsn_ack_point => HasAbandoned
  <2>1. AdvancePeerTsnAckPoint(advanced_peer_tsn_ack_point, inflight, cumulative_tsn_ack_point)
    BY DEF T3Timeout
  <2>2. SkipSafe(advanced_peer_tsn_ack_point)
    BY DEF IInv, Skips
  <2>3. cumulative_tsn_ack_point >= cumulative_tsn_ack_point
    BY <1>2
  <2>4. advanced_peer_tsn_ack_point > cumulative_tsn_ack_point => HasAbandoned
    BY DEF IInv, Refusals
  <2>5. inflight \in SUBSET inflight
    OBVIOUS
  <2> QED
    BY <1>2, <2>1, <2>2, <2>3, <2>4, <2>5, AdvancePoint
<1>5. retransmit' \subseteq inflight' /\ t3_stale' \in BOOLEAN /\ awake' \in BOOLEAN
  <2>1. retransmit' \subseteq inflight'
    BY <1>1 DEF T3Timeout, IInv, TypeOK
  <2>2. t3_stale' \in BOOLEAN /\ awake' \in BOOLEAN
    BY DEF T3Timeout, IInv, TypeOK
  <2> QED
    BY <2>1, <2>2
<1>6. TypeOK'
  BY <1>1, <1>3, <1>4, <1>5, Zenon DEF IInv, TypeOK
<1>7. \A d \in net' : PacketOK(d)'
  BY <1>1, <1>2, PacketStable
<1>8. Points'
  BY <1>1, <1>4 DEF IInv, Points
<1>9. Skips'
  BY <1>1, <1>4 DEF IInv, Skips, SkipSafe, AcceptedKnown
<1>10. OnlyRefusalTearsDown' /\ Refusals'
  BY <1>1, <1>4 DEF IInv, OnlyRefusalTearsDown, Refusals, Refused, HasAbandoned
<1> QED
  BY <1>1, <1>6, <1>7, <1>8, <1>9, <1>10 DEF IInv, InflightContiguous, FlightSize,
       T3CoversInflight, FastRecoveryCanExit

(* process_selective_ack keeps n_bytes the size of what is unacknowledged: *)
(* each chunk is subtracted once, whether a gap block or the cumulative    *)
(* point acknowledges it first.                                            *)
LEMMA AckAccounting ==
    ASSUME NEW q0 \in SUBSET Tsn, NEW a0 \in SUBSET q0,
           NEW popped \in SUBSET q0, NEW gaps \in SUBSET (q0 \ popped)
    PROVE  LET newly == (popped \cup gaps) \ a0
               rest == (q0 \ popped) \ ((a0 \cup gaps) \ popped)
           IN  /\ Cardinality(newly) \in Nat
               /\ Cardinality(q0 \ a0) - Cardinality(newly) = Cardinality(rest)
               /\ Cardinality(rest) \in Nat
<1> DEFINE newly == (popped \cup gaps) \ a0
           rest == (q0 \ popped) \ ((a0 \cup gaps) \ popped)
<1>1. newly \in SUBSET Tsn /\ rest \in SUBSET Tsn
  OBVIOUS
<1>2. /\ IsFiniteSet(newly) /\ Cardinality(newly) \in Nat
      /\ IsFiniteSet(rest) /\ Cardinality(rest) \in Nat
  BY <1>1, TsnFinite
<1>3. q0 \ a0 = newly \cup rest /\ newly \cap rest = {}
  OBVIOUS
<1>4. Cardinality(newly \cup rest) = Cardinality(newly) + Cardinality(rest)
  <2> HIDE DEF newly, rest
  <2> QED
    BY <1>2, <1>3, DisjointCard
<1>5. Cardinality(q0 \ a0) = Cardinality(newly) + Cardinality(rest)
  BY <1>3, <1>4
<1> HIDE DEF newly, rest
<1>6. Cardinality(q0 \ a0) - Cardinality(newly) = Cardinality(rest)
  BY <1>2, <1>5
<1> QED
  BY <1>2, <1>6 DEF newly, rest

(* What a SACK a correct peer sent says about the sender's queue.          *)
LEMMA SackCovers ==
    ASSUME IInv, NEW d \in net, d.type = "SACK", d.cum >= cumulative_tsn_ack_point
    PROVE  /\ d.cum \in 0 .. N /\ d.cum <= peer_last_tsn /\ d.a_rwnd \in Nat
           /\ cumulative_tsn_ack_point + 1 .. d.cum \subseteq inflight
           /\ inflight \ (cumulative_tsn_ack_point + 1 .. d.cum) = d.cum + 1 .. my_next_tsn - 1
           /\ d.gaps \subseteq d.cum + 1 .. my_next_tsn - 1
           /\ Cardinality(d.cum + 1 .. my_next_tsn - 1) = my_next_tsn - 1 - d.cum
<1>1. /\ N \in Nat /\ my_next_tsn \in 1 .. N + 1 /\ cumulative_tsn_ack_point \in 0 .. N
      /\ peer_last_tsn \in 0 .. N /\ peer_last_tsn < my_next_tsn
      /\ inflight = cumulative_tsn_ack_point + 1 .. my_next_tsn - 1
  BY DataAssumption DEF IInv, TypeOK, Points, InflightContiguous, DataAssumption
<1>2. /\ d.cum \in 0 .. peer_last_tsn /\ d.a_rwnd \in Nat
      /\ d.gaps \subseteq d.cum + 1 .. my_next_tsn - 1
  BY DEF IInv, PacketOK
<1>3. d.cum \in 0 .. N /\ d.cum <= peer_last_tsn /\ d.cum < my_next_tsn
  BY <1>1, <1>2
<1>4. /\ cumulative_tsn_ack_point + 1 .. d.cum \subseteq inflight
      /\ inflight \ (cumulative_tsn_ack_point + 1 .. d.cum) = d.cum + 1 .. my_next_tsn - 1
      /\ Cardinality(d.cum + 1 .. my_next_tsn - 1) = my_next_tsn - 1 - d.cum
  <2>1. cumulative_tsn_ack_point \in Int /\ d.cum \in Int /\ my_next_tsn \in Int
    BY <1>1, <1>3
  <2>2. cumulative_tsn_ack_point <= d.cum /\ d.cum < my_next_tsn
    BY <1>3, <2>1
  <2> DEFINE all == cumulative_tsn_ack_point + 1 .. my_next_tsn - 1
  <2>3. /\ cumulative_tsn_ack_point + 1 .. d.cum \subseteq all
        /\ all \ (cumulative_tsn_ack_point + 1 .. d.cum) = d.cum + 1 .. my_next_tsn - 1
        /\ Cardinality(d.cum + 1 .. my_next_tsn - 1) = my_next_tsn - 1 - d.cum
    BY <2>1, <2>2, IntervalSplit
  <2> QED
    BY <1>1, <2>3
<1> QED
  BY <1>2, <1>3, <1>4

(* Slow start, congestion avoidance and fast recovery keep the windows     *)
(* natural numbers: no subtraction of u32 underflows.                      *)
LEMMA CongestionType ==
    ASSUME IInv, NEW total \in Nat, NEW rec \in BOOLEAN
    PROVE  /\ GrownCwnd(total, rec) \in Nat
           /\ GrownPartialBytesAcked(total) \in Nat
<1>1. /\ cwnd \in Nat /\ ssthresh \in Nat /\ partial_bytes_acked \in Nat /\ Mtu \in Nat
  BY DataAssumption DEF IInv, TypeOK, DataAssumption
<1> QED
  BY <1>1 DEF GrownCwnd, GrownPartialBytesAcked, Smallest

(* A SACK that is not old never finds a TSN missing from the queue, so
   handle_sack succeeds, and it keeps the queue, the flight size, the
   timer and the fast-recovery exit point consistent. *)
LEMMA ProcessSackIInv ==
    ASSUME IInv, NEW d \in net, d.type = "SACK", d.cum >= cumulative_tsn_ack_point,
           net' \subseteq net, reading = "run", ProcessSack(d)
    PROVE  IInv'
<1> DEFINE advanced == cumulative_tsn_ack_point < d.cum
           popped == cumulative_tsn_ack_point + 1 .. d.cum
           q == inflight \ popped
           total == Cardinality((popped \cup d.gaps) \ acked)
           hits == {d.cum} \cup (d.gaps \ acked)
           recovering == in_fast_recovery /\ fast_recover_exit_point \notin popped
           stopped == advanced /\ (q = {} \/ cumulative_tsn_ack_point + 1 \notin acked)
           c1 == Largest(advanced_peer_tsn_ack_point, d.cum)
           missing(h) == ReportedMissing(d, q, h, recovering, advanced)
           bumped(h) == {t \in missing(h) \ (acked \cup d.gaps) :
                           ~Abandoned(t) /\ miss_indicator[t] < 3}
<1>1. /\ N \in Nat /\ my_next_tsn \in 1 .. N + 1 /\ cumulative_tsn_ack_point \in 0 .. N
      /\ peer_last_tsn \in 0 .. N /\ peer_last_tsn < my_next_tsn
      /\ advanced_peer_tsn_ack_point \in 0 .. N /\ advanced_peer_tsn_ack_point < my_next_tsn
      /\ n_bytes \in Nat /\ n_bytes = Cardinality(inflight \ acked)
      /\ Mtu \in Nat /\ cwnd \in Nat /\ ssthresh \in Nat /\ partial_bytes_acked \in Nat
      /\ buffered_amount \in Nat /\ fast_recover_exit_point \in 0 .. N
  BY DataAssumption DEF IInv, TypeOK, Points, FlightSize, DataAssumption
<1>2. /\ d.cum \in 0 .. N /\ d.cum <= peer_last_tsn /\ d.a_rwnd \in Nat
      /\ popped \subseteq inflight
      /\ q = d.cum + 1 .. my_next_tsn - 1
      /\ d.gaps \subseteq d.cum + 1 .. my_next_tsn - 1
      /\ Cardinality(d.cum + 1 .. my_next_tsn - 1) = my_next_tsn - 1 - d.cum
  BY SackCovers
<1>3. inflight \subseteq Tsn /\ acked \subseteq inflight
  BY DEF IInv, TypeOK
<1>4. d.gaps \subseteq q /\ Cardinality(q) = my_next_tsn - 1 - d.cum
  BY <1>2
<1>5. /\ total \in Nat
      /\ n_bytes - total = Cardinality(q \ ((acked \cup d.gaps) \ popped))
      /\ n_bytes - total \in Nat
  <2> HIDE DEF popped
  <2>1. /\ inflight \in SUBSET Tsn /\ acked \in SUBSET inflight
        /\ popped \in SUBSET inflight /\ d.gaps \in SUBSET (inflight \ popped)
    BY <1>2, <1>3, <1>4
  <2>2. /\ total \in Nat
        /\ Cardinality(inflight \ acked) - total
             = Cardinality((inflight \ popped) \ ((acked \cup d.gaps) \ popped))
        /\ Cardinality((inflight \ popped) \ ((acked \cup d.gaps) \ popped)) \in Nat
    BY <2>1, AckAccounting
  <2> HIDE DEF total
  <2> QED
    BY <1>1, <2>2
<1>6. PICK h \in hits :
        /\ \A i \in hits : i <= h
        /\ IF ~(popped \subseteq inflight /\ d.gaps \subseteq q /\ missing(h) \subseteq q)
             THEN Fail("ErrTsnRequestNotExist")
             ELSE /\ ProcessSelectiveAck(d, popped, total)
                  /\ ProcessFastRetransmission(popped, bumped(h), h, total, recovering, advanced)
                  /\ AdvancePeerTsnAckPoint(c1, q, d.cum)
                  /\ RestartT3(stopped, q)
                  /\ awake' = (awake \/ use_forward_tsn \/ advanced)
                  /\ UNCHANGED <<written, my_next_tsn, flags, receiver, reading>>
  BY DEF ProcessSack
<1>7. h = d.cum \/ (h \in q /\ h \in d.gaps)
  BY <1>4, <1>6
<1> HIDE DEF q, popped, total, hits
<1>8. h \in 0 .. N /\ h < my_next_tsn /\ h >= d.cum
  BY <1>1, <1>2, <1>7
<1>9. missing(h) \subseteq q
  <2>1. d.cum + 1 .. h - 1 \subseteq q
    BY <1>1, <1>2, <1>8
  <2>2. d.cum + 1 .. d.cum + Cardinality(q) \subseteq q
    BY <1>1, <1>2, <1>4
  <2> QED
    BY <2>1, <2>2 DEF ReportedMissing
<1> DEFINE m == missing(h)
           b == bumped(h)
<1>10. /\ ProcessSelectiveAck(d, popped, total)
       /\ ProcessFastRetransmission(popped, b, h, total, recovering, advanced)
       /\ AdvancePeerTsnAckPoint(c1, q, d.cum)
       /\ RestartT3(stopped, q)
       /\ awake' = (awake \/ use_forward_tsn \/ advanced)
       /\ UNCHANGED <<written, my_next_tsn, flags, receiver, reading>>
  BY <1>2, <1>4, <1>6, <1>9
<1>11. UNCHANGED <<written, my_next_tsn, abandoned, all_inflight, peer_last_tsn,
          payload_queue, accepted, reassembly, ack_state, ack_timer,
          peer_use_forward_tsn, control_queue, reading>>
  BY <1>10 DEF flags, receiver
<1>12. /\ cumulative_tsn_ack_point' = d.cum
       /\ inflight' = q
       /\ n_bytes' = n_bytes - total
       /\ acked' = (acked \cup d.gaps) \ popped
       /\ retransmit' = retransmit \ (popped \cup d.gaps)
       /\ resent' = resent \ popped
       /\ buffered_amount' = Largest(buffered_amount - total, 0)
       /\ rwnd' = Largest(d.a_rwnd - (n_bytes - total), 0)
  BY <1>10 DEF ProcessSelectiveAck, q
<1>13. q \subseteq Tsn /\ q \subseteq inflight /\ q = inflight \ popped
  BY <1>3 DEF q
<1>14. /\ inflight' \subseteq Tsn /\ acked' \subseteq inflight' /\ retransmit' \subseteq inflight'
       /\ resent' \subseteq inflight'
  BY <1>3, <1>4, <1>12, <1>13 DEF IInv, TypeOK
<1>15. n_bytes' \in Nat /\ buffered_amount' \in Nat /\ rwnd' \in Nat
  BY <1>1, <1>2, <1>5, <1>12 DEF Largest
<1>16. FlightSize'
  BY <1>5, <1>12 DEF FlightSize
<1>17. InflightContiguous'
  BY <1>2, <1>11, <1>12 DEF InflightContiguous
<1> HIDE DEF advanced, recovering, stopped, c1, m, b
<1>18. b \subseteq Tsn /\ (\A t \in b : miss_indicator[t] < 3) /\ b \subseteq m
  BY <1>9, <1>13 DEF b, m
<1>19. miss_indicator' \in [Tsn -> 0 .. 3]
  <2>1. miss_indicator' = [t \in Tsn |-> IF t \in popped THEN 0
                             ELSE IF t \in b THEN miss_indicator[t] + 1
                             ELSE miss_indicator[t]]
    BY <1>10 DEF ProcessFastRetransmission
  <2>2. \A t \in Tsn : miss_indicator[t] \in 0 .. 3
    BY DEF IInv, TypeOK
  <2>3. ASSUME NEW t \in Tsn
        PROVE  (IF t \in popped THEN 0 ELSE IF t \in b THEN miss_indicator[t] + 1
                                         ELSE miss_indicator[t]) \in 0 .. 3
    BY <1>18, <2>2
  <2> QED
    BY <2>1, <2>3
<1>20. /\ fast_recover_exit_point' \in 0 .. N /\ cwnd' \in Nat /\ ssthresh' \in Nat
       /\ partial_bytes_acked' \in Nat
  <2> DEFINE grown == IF advanced THEN GrownCwnd(total, recovering) ELSE cwnd
             reduced == Largest(grown \div 2, 4 * Mtu)
             pba == IF advanced THEN GrownPartialBytesAcked(total) ELSE partial_bytes_acked
  <2>1. recovering \in BOOLEAN
    BY DEF recovering
  <2>2. grown \in Nat /\ pba \in Nat
    BY <1>1, <1>5, <2>1, CongestionType
  <2>3. reduced \in Nat
    <3> HIDE DEF grown
    <3> QED
      BY <1>1, <2>2 DEF Largest
  <2>4. /\ fast_recover_exit_point' \in {h, fast_recover_exit_point}
        /\ cwnd' \in {grown, reduced} /\ ssthresh' \in {reduced, ssthresh}
        /\ partial_bytes_acked' \in {0, pba}
    BY <1>10 DEF ProcessFastRetransmission
  <2> HIDE DEF grown, reduced, pba
  <2> QED
    BY <1>1, <1>8, <2>2, <2>3, <2>4
<1>21. /\ in_fast_recovery' \in BOOLEAN /\ will_retransmit_fast' \in BOOLEAN
       /\ awake' \in BOOLEAN /\ t3rtx' \in BOOLEAN /\ t3_stale' \in BOOLEAN
  <2>1. in_fast_recovery' \in BOOLEAN /\ will_retransmit_fast' \in BOOLEAN
    BY <1>10 DEF ProcessFastRetransmission
  <2>2. awake' \in BOOLEAN
    BY <1>10
  <2>3. t3rtx' \in BOOLEAN
    BY <1>10 DEF RestartT3
  <2>4. t3_stale' \in BOOLEAN
    BY <1>10 DEF RestartT3, IInv, TypeOK
  <2> QED
    BY <2>1, <2>2, <2>3, <2>4
<1>22. /\ advanced_peer_tsn_ack_point' \in 0 .. N
       /\ advanced_peer_tsn_ack_point' < my_next_tsn
       /\ \A t \in 1 .. advanced_peer_tsn_ack_point' : Msg[t] \in Dcep => t \in accepted
       /\ will_send_forward_tsn' \in BOOLEAN
       /\ advanced_peer_tsn_ack_point' > d.cum => HasAbandoned
  <2>1. c1 \in 0 .. N /\ c1 < my_next_tsn /\ d.cum \in Nat
    BY <1>1, <1>2 DEF c1, Largest
  <2>2. SkipSafe(advanced_peer_tsn_ack_point) /\ SkipSafe(d.cum)
    <3>1. \A t \in 1 .. d.cum : t \in 1 .. peer_last_tsn
      BY <1>1, <1>2
    <3> QED
      BY <3>1 DEF IInv, Skips, SkipSafe
  <2>3. SkipSafe(c1)
    BY <2>2 DEF c1, Largest
  <2>4. q \in SUBSET inflight
    BY <1>13
  <2>5. c1 > d.cum => HasAbandoned
    <3>1. advanced_peer_tsn_ack_point > cumulative_tsn_ack_point => HasAbandoned
      BY DEF IInv, Refusals
    <3> QED
      BY <1>1, <1>2, <3>1 DEF c1, Largest
  <2> QED
    BY <1>10, <2>1, <2>3, <2>4, <2>5, AdvancePoint
<1>23. TypeOK'
  <2>1. net' \subseteq Message
    BY DEF IInv, TypeOK
  <2>2. cumulative_tsn_ack_point' \in 0 .. N
    BY <1>2, <1>12
  <2> QED
    BY <1>11, <1>14, <1>15, <1>19, <1>20, <1>21, <1>22, <2>1, <2>2, Zenon DEF IInv, TypeOK
<1>24. Points'
  <2>1. cumulative_tsn_ack_point' <= peer_last_tsn'
    BY <1>2, <1>11, <1>12
  <2> QED
    BY <1>11, <1>22, <2>1 DEF IInv, Points
<1>25. Skips'
  BY <1>11, <1>22 DEF IInv, Skips, SkipSafe, AcceptedKnown
<1>26. \A e \in net' : PacketOK(e)'
  BY <1>1, <1>11, PacketStable
<1>27. T3CoversInflight'
  <2>1. CASE q # {}
    BY <1>10, <1>12, <2>1 DEF RestartT3, T3CoversInflight
  <2>2. CASE q = {}
    <3>1. CASE advanced
      BY <1>10, <1>12, <2>2, <3>1 DEF RestartT3, T3CoversInflight, stopped
    <3>2. CASE ~advanced
      <4>1. popped = {}
        BY <1>1, <1>2, <3>2 DEF advanced, popped
      <4>2. ~t3rtx
        BY <2>2, <4>1 DEF IInv, T3CoversInflight, q
      <4> QED
        BY <1>10, <1>12, <2>2, <4>2 DEF RestartT3, T3CoversInflight
    <3> QED
      BY <3>1, <3>2
  <2> QED
    BY <2>1, <2>2
<1>28. FastRecoveryCanExit'
  <2>1. CASE recovering
    <3>1. fast_recover_exit_point' = fast_recover_exit_point
      BY <1>10, <2>1 DEF ProcessFastRetransmission
    <3>2. /\ fast_recover_exit_point \in inflight \cap acked
          /\ fast_recover_exit_point \notin popped
      BY <2>1 DEF recovering, IInv, FastRecoveryCanExit
    <3> QED
      BY <1>12, <1>13, <3>1, <3>2 DEF FastRecoveryCanExit
  <2>2. CASE ~recovering /\ \E t \in b : miss_indicator[t] = 2
    <3>1. fast_recover_exit_point' = h
      BY <1>10, <2>2 DEF ProcessFastRetransmission
    <3>2. m = d.cum + 1 .. h - 1
      BY <2>2 DEF m, ReportedMissing
    <3>3. h # d.cum
      BY <1>2, <1>18, <2>2, <3>2
    <3>4. h \in q /\ h \in d.gaps
      BY <1>7, <3>3
    <3> QED
      BY <1>12, <1>13, <3>1, <3>4 DEF FastRecoveryCanExit
  <2>3. CASE ~recovering /\ ~\E t \in b : miss_indicator[t] = 2
    BY <1>10, <2>3 DEF ProcessFastRetransmission, FastRecoveryCanExit
  <2> QED
    BY <2>1, <2>2, <2>3
<1>29. OnlyRefusalTearsDown' /\ Refusals'
  BY <1>11, <1>12, <1>22 DEF IInv, OnlyRefusalTearsDown, Refusals, Refused, HasAbandoned
<1> QED
  BY <1>16, <1>17, <1>23, <1>24, <1>25, <1>26, <1>27, <1>28, <1>29 DEF IInv

(* handle_sack drops an old SACK and processes any other.                  *)
LEMMA HandleSackIInv == ASSUME IInv, NEW d \in net, HandleSack(d) PROVE IInv'
<1>1. d.type = "SACK" /\ net' \subseteq net /\ reading = "run"
  BY DEF HandleSack, Deliver
<1>2. CASE d.cum < cumulative_tsn_ack_point
  BY <1>1, <1>2, FewerPacketsIInv DEF HandleSack
<1>3. CASE ~(d.cum < cumulative_tsn_ack_point)
  <2>1. PacketOK(d) /\ peer_last_tsn \in 0 .. N /\ cumulative_tsn_ack_point \in 0 .. N
    BY DEF IInv, TypeOK
  <2>2. d.cum \in 0 .. peer_last_tsn
    BY <1>1, <2>1 DEF PacketOK
  <2>3. d.cum >= cumulative_tsn_ack_point
    BY <1>3, <2>1, <2>2, DataAssumption DEF DataAssumption
  <2>4. ProcessSack(d)
    BY <1>3 DEF HandleSack
  <2> QED
    BY <1>1, <2>3, <2>4, ProcessSackIInv
<1> QED
  BY <1>2, <1>3

(* The read loop fails on an ERROR chunk, which a refused FORWARD-TSN caused. *)
LEMMA HandleErrorIInv == ASSUME IInv, NEW d \in net, HandleError(d) PROVE IInv'
<1>1. /\ UNCHANGED <<sender, receiver>> /\ net' \subseteq net /\ reading' = "ErrChunk"
      /\ reading = "run" /\ d.type = "ERROR"
  BY DEF HandleError, Deliver, Fail
<1>2. UNCHANGED <<written, buffered_amount, awake, my_next_tsn,
             cumulative_tsn_ack_point, advanced_peer_tsn_ack_point, inflight, n_bytes,
             acked, retransmit, resent, miss_indicator, abandoned, all_inflight, rwnd,
             cwnd, ssthresh, partial_bytes_acked, in_fast_recovery,
             fast_recover_exit_point, will_retransmit_fast, will_send_forward_tsn,
             t3rtx, t3_stale, peer_last_tsn, payload_queue, accepted, reassembly, ack_state,
             ack_timer, peer_use_forward_tsn, control_queue>>
  BY <1>1, SenderUnchanged, ReceiverUnchanged
<1>3. Refused'
  <2>1. Refused
    BY <1>1 DEF IInv, PacketOK
  <2> QED
    BY <1>2, <2>1 DEF Refused
<1>4. OnlyRefusalTearsDown' /\ Refusals' /\ T3CoversInflight'
  BY <1>1, <1>2, <1>3 DEF IInv, OnlyRefusalTearsDown, Refusals, HasAbandoned, Refused,
                          T3CoversInflight
<1>5. TypeOK'
  <2>1. TypeOK
    BY DEF IInv
  <2>2. net' \subseteq Message
    BY <1>1, <2>1 DEF TypeOK
  <2>3. reading' \in {"run", "ErrTsnRequestNotExist", "ErrChunk", "ended"}
    BY <1>1
  <2> QED
    BY <1>2, <2>1, <2>2, <2>3 DEF TypeOK
<1>6. \A e \in net' : PacketOK(e)'
  BY <1>1, <1>2 DEF IInv, PacketOK, SkipSafe, HasAbandoned, Refused
<1> QED
  BY <1>2, <1>4, <1>5, <1>6 DEF IInv, InflightContiguous, Points, Skips, SkipSafe,
       AcceptedKnown, FlightSize, FastRecoveryCanExit

(* Closing the association stops T3-rtx and nothing else of the invariant.  *)
LEMMA CloseIInv == IInv /\ Close => IInv'
<1> SUFFICES ASSUME IInv, Close PROVE IInv'
  OBVIOUS
<1>1. UNCHANGED <<written, buffered_amount, awake, my_next_tsn,
             cumulative_tsn_ack_point, advanced_peer_tsn_ack_point, inflight, n_bytes,
             acked, retransmit, resent, miss_indicator, abandoned, all_inflight, rwnd,
             cwnd, ssthresh, partial_bytes_acked, in_fast_recovery,
             fast_recover_exit_point, will_retransmit_fast, will_send_forward_tsn,
             peer_last_tsn, payload_queue, accepted, reassembly, ack_state,
             ack_timer, peer_use_forward_tsn, control_queue, net>>
  BY DEF Close, app, queue, flags, points, congestion, requests, receiver
<1>2. /\ reading \in {"ErrTsnRequestNotExist", "ErrChunk"} /\ reading' = "ended"
      /\ t3rtx' = FALSE /\ t3_stale' \in {t3_stale, TRUE}
  BY DEF Close
<1>3. OnlyRefusalTearsDown' /\ Refusals' /\ T3CoversInflight'
  BY <1>1, <1>2 DEF IInv, OnlyRefusalTearsDown, Refusals, HasAbandoned, Refused,
                    T3CoversInflight
<1>4. t3rtx' \in BOOLEAN /\ t3_stale' \in BOOLEAN
  BY <1>2 DEF IInv, TypeOK
<1>5. TypeOK'
  <2>1. TypeOK /\ reading' \in {"run", "ErrTsnRequestNotExist", "ErrChunk", "ended"}
    BY <1>2 DEF IInv
  <2> QED
    BY <1>1, <1>4, <2>1 DEF TypeOK
<1>6. \A e \in net' : PacketOK(e)'
  BY <1>1 DEF IInv, PacketOK, SkipSafe, HasAbandoned, Refused
<1> QED
  BY <1>1, <1>3, <1>5, <1>6 DEF IInv, InflightContiguous, Points, Skips, SkipSafe,
       AcceptedKnown, FlightSize, FastRecoveryCanExit

(* Every step of the specification preserves IInv.                         *)
LEMMA NextIInv == IInv /\ [Next]_vars => IInv'
<1> SUFFICES ASSUME IInv, [Next]_vars PROVE IInv'
  OBVIOUS
<1>1. ASSUME NEW m \in {Msg[t] : t \in Tsn}, ReadSctp(m) PROVE IInv'
  BY <1>1, ReadSctpIInv
<1>2. ASSUME NEW d \in net, HandleSack(d) PROVE IInv'
  BY <1>2, HandleSackIInv
<1>3. ASSUME NEW d \in net, HandleData(d) PROVE IInv'
  BY <1>3, HandleDataIInv
<1>4. ASSUME NEW d \in net, HandleForwardTsn(d) PROVE IInv'
  BY <1>4, HandleForwardTsnIInv
<1>5. ASSUME NEW d \in net, Lose(d) PROVE IInv'
  <2>1. net' \subseteq net
    BY <1>5 DEF Lose
  <2> QED
    BY <1>5, <2>1, FewerPacketsIInv DEF Lose
<1>6. CASE UNCHANGED vars
  <2>1. UNCHANGED <<sender, receiver, reading>> /\ net' \subseteq net
    BY <1>6 DEF vars
  <2> QED
    BY <2>1, FewerPacketsIInv
<1>7. ASSUME NEW d \in net, HandleError(d) PROVE IInv'
  BY <1>7, HandleErrorIInv
<1> QED
  BY <1>1, <1>2, <1>3, <1>4, <1>5, <1>6, <1>7, PushChunkIInv, GatherOutboundIInv,
     T3TimeoutIInv, AckTimeoutIInv, SackIInv, CloseIInv DEF Next

(* The inductive invariant holds in every reachable state, for every number *)
(* of chunks, message layout, buffer size, MTU and network capacity.       *)
THEOREM Invariance == Spec => []IInv
  BY InitIInv, NextIInv, PTL DEF Spec

(* Every variable keeps its type; in particular n_bytes and rwnd, which the *)
(* code keeps in unsigned integers, never drop below zero.                 *)
THEOREM TypeCorrect == Spec => []TypeOK
<1>1. IInv => TypeOK
  BY DEF IInv
<1> QED
  BY <1>1, Invariance, PTL

(* No SACK makes handle_inbound fail, in whatever order and however often   *)
(* packets are delivered, and the ERROR chunk that does is the answer of a  *)
(* peer without use_forward_tsn to a FORWARD-TSN for an abandoned message:  *)
(* an end that agrees with its peer on FORWARD-TSN is never torn down.      *)
THEOREM TornDownOnlyByRefusal == Spec => []OnlyRefusalTearsDown
<1>1. IInv => OnlyRefusalTearsDown
  BY DEF IInv
<1> QED
  BY <1>1, Invariance, PTL

(* The inflight queue has no holes: the loops of process_selective_ack,    *)
(* get_data_packets_to_retransmit and create_forward_tsn, which stop at the *)
(* first absent TSN, see the whole queue.                                  *)
THEOREM QueueContiguous == Spec => []InflightContiguous
<1>1. IInv => InflightContiguous
  BY DEF IInv
<1> QED
  BY <1>1, Invariance, PTL

(* No FORWARD-TSN, however late, makes the receiver skip a chunk of a DCEP *)
(* message that it has not got.                                            *)
THEOREM ReliableMessages == Spec => []ReliableNeverSkipped
<1>1. IInv => ReliableNeverSkipped
  BY DEF IInv, Skips, SkipSafe, ReliableNeverSkipped
<1> QED
  BY <1>1, Invariance, PTL

(* Until the association is closed, T3-rtx runs if and only if a chunk is in *)
(* flight.                                                                   *)
THEOREM TimerCoversInflight == Spec => []T3CoversInflight
<1>1. IInv => T3CoversInflight
  BY DEF IInv
<1> QED
  BY <1>1, Invariance, PTL

(* Fast recovery always ends with the acknowledgment of a chunk in flight. *)
THEOREM RecoveryEnds == Spec => []FastRecoveryCanExit
<1>1. IInv => FastRecoveryCanExit
  BY DEF IInv
<1> QED
  BY <1>1, Invariance, PTL

(* Only handle_data adds chunks to the reassembly queue.                   *)
LEMMA OnlyHandleDataPasses ==
    ASSUME IInv, [Next]_vars, ~ \E d \in net : HandleData(d)
    PROVE  reassembly' \subseteq reassembly
<1>1. ASSUME NEW m \in {Msg[t] : t \in Tsn}, ReadSctp(m) PROVE reassembly' \subseteq reassembly
  BY <1>1 DEF ReadSctp
<1>2. ASSUME NEW d \in net, HandleSack(d) PROVE reassembly' \subseteq reassembly
  BY <1>2 DEF HandleSack, ProcessSack, Fail, receiver
<1>3. ASSUME NEW d \in net, HandleForwardTsn(d) PROVE reassembly' \subseteq reassembly
  BY <1>3 DEF HandleForwardTsn, AcceptForwardTsn, RefuseForwardTsn, ForwardTsnForUnordered
<1>4. ASSUME NEW d \in net, Lose(d) \/ HandleError(d) PROVE reassembly' \subseteq reassembly
  BY <1>4 DEF Lose, HandleError, Fail, receiver
<1>5. CASE PushChunk \/ GatherOutbound \/ T3Timeout \/ Close
  BY <1>5 DEF PushChunk, GatherOutbound, T3Timeout, Close, receiver
<1>6. CASE AckTimeout \/ GatherOutboundSackPackets
  BY <1>6 DEF AckTimeout, GatherOutboundSackPackets
<1>7. CASE UNCHANGED vars
  BY <1>7 DEF vars, receiver
<1> QED
  BY <1>1, <1>2, <1>3, <1>4, <1>5, <1>6, <1>7 DEF Next

(* A chunk is passed to its stream at most once: what was accepted before  *)
(* is at or below peer_last_tsn or in payload_queue, and can_push refuses  *)
(* both, though the stream itself no longer remembers what was read.       *)
THEOREM NeverPassedTwice == Spec => PassedOnce
<1>1. IInv /\ [Next]_vars => [(reassembly' \ reassembly) \cap accepted = {}]_vars
  <2> SUFFICES ASSUME IInv, [Next]_vars PROVE (reassembly' \ reassembly) \cap accepted = {}
    OBVIOUS
  <2>1. ASSUME NEW d \in net, HandleData(d)
        PROVE  (reassembly' \ reassembly) \cap accepted = {}
    <3>1. /\ accepted \subseteq (1 .. peer_last_tsn) \cup payload_queue
          /\ peer_last_tsn \in 0 .. N /\ N \in Nat
      BY DataAssumption DEF IInv, TypeOK, Skips, AcceptedKnown, DataAssumption
    <3>2. d.tsn \in 1 .. my_next_tsn - 1 /\ my_next_tsn \in 1 .. N + 1
      BY <2>1 DEF HandleData, IInv, PacketOK, TypeOK
    <3>3. Acceptable(d.tsn) => d.tsn \notin accepted
      BY <3>1, <3>2 DEF Acceptable
    <3>4. reassembly' = IF Acceptable(d.tsn) THEN reassembly \cup {d.tsn} ELSE reassembly
      BY <2>1 DEF HandleData
    <3> QED
      BY <3>3, <3>4
  <2>2. CASE ~ \E d \in net : HandleData(d)
    BY <2>2, OnlyHandleDataPasses
  <2> QED
    BY <2>1, <2>2
<1> QED
  BY <1>1, Invariance, PTL DEF Spec, PassedOnce

-----------------------------------------------------------------------------
(***************************************************************************)
(* Messages.  The parts above are about TSNs; those below say that the     *)
(* fragments of a message are skipped together and that every chunk of a   *)
(* message is counted from the write to the acknowledgment.                *)
(***************************************************************************)

(* all_inflight is set only when the last fragment has got its TSN.        *)
AllHaveTsn == \A t \in Tsn : Msg[t] \in all_inflight => t < my_next_tsn

(* The point a FORWARD-TSN would name is the end of a message.             *)
PointOnBoundary ==
    advanced_peer_tsn_ack_point > cumulative_tsn_ack_point
      => EndingFragment(advanced_peer_tsn_ack_point)

(* A message of which the receiver has skipped a fragment is behind it.    *)
SkippedWhole ==
    \A u \in 1 .. peer_last_tsn :
        u \notin accepted => \A t \in Fragments(Msg[u]) : t <= peer_last_tsn

SenderMessages == AllHaveTsn /\ PointOnBoundary /\ ForwardTsnOnMessageBoundary

ReceiverMessages == reassembly \subseteq accepted /\ SkippedWhole /\ NoStrandedFragment

(* A set of natural numbers has a least element.                           *)
LEMMA LeastNatural ==
    ASSUME NEW T \in SUBSET Nat, T # {}
    PROVE  \E x \in T : \A y \in T : x <= y
<1>1. IsWellFoundedOn(OpToRel(<, Nat), Nat)
  BY NatLessThanWellFounded
<1>2. \E x \in T : \A y \in T : ~(<<y, x>> \in OpToRel(<, Nat))
  BY <1>1, WFMin, Zenon
<1>3. PICK x \in T : \A y \in T : ~(<<y, x>> \in OpToRel(<, Nat))
  BY <1>2
<1>4. ASSUME NEW y \in T PROVE x <= y
  <2>1. ~(y < x)
    BY <1>3, <1>4 DEF OpToRel
  <2> QED
    BY <2>1
<1> QED
  BY <1>3, <1>4

(* Chunks are numbered in the order of their messages.                     *)
LEMMA MessagesInOrder ==
    ASSUME NEW a \in Tsn, NEW b \in Tsn, a <= b
    PROVE  Msg[a] \in Nat /\ Msg[b] \in Nat /\ Msg[a] <= Msg[b]
<1>1. /\ N \in Nat /\ (\A t \in 1 .. N : Msg[t] \in Nat)
      /\ \A t \in 1 .. N - 1 : Msg[t + 1] \in {Msg[t], Msg[t] + 1}
  BY DataAssumption DEF DataAssumption
<1> DEFINE Bad == {x \in a .. N : ~(Msg[a] <= Msg[x])}
<1>2. ASSUME Bad # {} PROVE FALSE
  <2>1. PICK x \in Bad : \A y \in Bad : x <= y
    <3>1. Bad \in SUBSET Nat
      BY <1>1 DEF Tsn
    <3> HIDE DEF Bad
    <3> QED
      BY <1>2, <3>1, LeastNatural
  <2>2. x \in a .. N /\ ~(Msg[a] <= Msg[x]) /\ a \in Nat /\ a >= 1 /\ x \in Nat
    BY <1>1 DEF Tsn
  <2>3. x # a
    <3>1. Msg[a] \in Nat
      BY <1>1 DEF Tsn
    <3> QED
      BY <2>2, <3>1
  <2>4. /\ x - 1 \in a .. N /\ x - 1 \in 1 .. N - 1 /\ x - 1 \in 1 .. N /\ (x - 1) + 1 = x
        /\ ~(x <= x - 1) /\ a \in 1 .. N
    BY <1>1, <2>2, <2>3 DEF Tsn
  <2>5. Msg[a] <= Msg[x - 1]
    <3>1. x - 1 \notin Bad
      BY <2>1, <2>4
    <3> QED
      BY <2>4, <3>1
  <2>6. /\ Msg[(x - 1) + 1] \in {Msg[x - 1], Msg[x - 1] + 1}
        /\ Msg[x - 1] \in Nat /\ Msg[a] \in Nat
    BY <1>1, <2>4
  <2>7. Msg[x] \in {Msg[x - 1], Msg[x - 1] + 1}
    BY <2>4, <2>6
  <2> QED
    BY <2>2, <2>5, <2>6, <2>7
<1>3. b \in a .. N /\ b \in 1 .. N /\ a \in 1 .. N
  BY <1>1 DEF Tsn
<1> QED
  BY <1>1, <1>2, <1>3

(* No message has fragments on both sides of an ending fragment.           *)
LEMMA EndingSplits ==
    ASSUME NEW t \in Tsn, EndingFragment(t), NEW u \in Tsn, NEW v \in Tsn,
           u <= t, Msg[u] = Msg[v]
    PROVE  v <= t
<1>1. N \in Nat /\ t \in 1 .. N /\ v \in 1 .. N
  BY DataAssumption DEF DataAssumption, Tsn
<1>2. SUFFICES ASSUME ~(v <= t) PROVE FALSE
  OBVIOUS
<1>3. t # N /\ t \in 1 .. N - 1 /\ t + 1 \in Tsn /\ t + 1 <= v
  BY <1>1, <1>2 DEF Tsn
<1>4. Msg[t + 1] # Msg[t] /\ Msg[t + 1] \in {Msg[t], Msg[t] + 1}
  BY <1>3, DataAssumption DEF EndingFragment, DataAssumption
<1>5. Msg[u] \in Nat /\ Msg[t] \in Nat /\ Msg[u] <= Msg[t]
  BY MessagesInOrder
<1>6. Msg[v] \in Nat /\ Msg[t + 1] <= Msg[v]
  BY <1>3, MessagesInOrder
<1> QED
  BY <1>4, <1>5, <1>6

(* A beginning fragment is the first of its message.                       *)
LEMMA BeginningIsFirst ==
    ASSUME NEW t \in Tsn, BeginningFragment(t), NEW u \in Tsn, u < t
    PROVE  Msg[u] # Msg[t]
<1>1. N \in Nat /\ t \in 1 .. N /\ u \in 1 .. N
  BY DataAssumption DEF DataAssumption, Tsn
<1>2. t # 1 /\ t - 1 \in 1 .. N - 1 /\ t - 1 \in Tsn /\ u <= t - 1 /\ (t - 1) + 1 = t
  BY <1>1 DEF Tsn
<1>3. Msg[t - 1] # Msg[t] /\ Msg[(t - 1) + 1] \in {Msg[t - 1], Msg[t - 1] + 1}
  BY <1>2, DataAssumption DEF BeginningFragment, DataAssumption
<1>4. Msg[t] = Msg[t - 1] + 1
  BY <1>2, <1>3
<1>5. Msg[u] \in Nat /\ Msg[t - 1] \in Nat /\ Msg[u] <= Msg[t - 1]
  BY <1>2, MessagesInOrder
<1> QED
  BY <1>4, <1>5

-----------------------------------------------------------------------------
(* The sender.                                                             *)

(* Moved over abandoned messages, the advanced point comes to the end of   *)
(* one: the other fragments of a message it has begun to skip have TSNs.   *)
LEMMA AdvancedToBoundary ==
    ASSUME AllHaveTsn, my_next_tsn \in Nat,
           NEW c \in Nat, NEW base \in Nat, base > c => EndingFragment(base),
           NEW adv \in 0 .. N, AdvancedOver(base, c + 1 .. my_next_tsn - 1, adv), adv > c
    PROVE  EndingFragment(adv)
<1>1. N \in Nat /\ adv \in Nat
  BY DataAssumption DEF DataAssumption
<1> DEFINE q == c + 1 .. my_next_tsn - 1
<1>2. /\ adv >= base
      /\ \A i \in base + 1 .. adv : i \in q /\ Abandoned(i)
      /\ ~(adv + 1 \in q /\ Abandoned(adv + 1))
  BY DEF AdvancedOver
<1>3. CASE adv = base
  BY <1>3
<1>4. CASE adv # base
  <2>1. adv \in q /\ Abandoned(adv)
    BY <1>1, <1>2, <1>4
  <2>2. SUFFICES ASSUME adv # N, Msg[adv + 1] = Msg[adv] PROVE FALSE
    BY DEF EndingFragment
  <2>3. Abandoned(adv + 1)
    BY <2>1, <2>2 DEF Abandoned
  <2>4. adv + 1 \in Tsn
    BY <1>1, <2>2 DEF Tsn
  <2>5. adv + 1 < my_next_tsn
    BY <2>3, <2>4 DEF AllHaveTsn, Abandoned
  <2>6. adv + 1 \in q
    BY <1>1, <2>5
  <2> QED
    BY <1>2, <2>3, <2>6
<1> QED
  BY <1>3, <1>4

(* What handle_sack does to the sender: an old SACK nothing, and any other *)
(* releases the same number of chunks from n_bytes and buffered_amount.    *)
LEMMA SackEffect ==
    ASSUME IInv, IInv', NEW d \in net, HandleSack(d)
    PROVE  /\ net' \subseteq net
           /\ \/ UNCHANGED <<sender, receiver>>
              \/ /\ UNCHANGED <<written, my_next_tsn, flags, receiver>>
                 /\ cumulative_tsn_ack_point' = d.cum /\ d.cum >= cumulative_tsn_ack_point
                 /\ \E total \in Nat : /\ n_bytes' = n_bytes - total
                                     /\ buffered_amount' = Largest(buffered_amount - total, 0)
                 /\ AdvancePeerTsnAckPoint(Largest(advanced_peer_tsn_ack_point, d.cum), inflight', d.cum)
<1>1. net' \subseteq net /\ d.type = "SACK"
  BY DEF HandleSack, Deliver
<1>2. CASE d.cum < cumulative_tsn_ack_point
  BY <1>1, <1>2 DEF HandleSack
<1>3. CASE ~(d.cum < cumulative_tsn_ack_point)
  <2>1. ProcessSack(d)
    BY <1>3 DEF HandleSack
  <2>2. ~Fail("ErrTsnRequestNotExist")
    BY DEF Fail, IInv, OnlyRefusalTearsDown
  <2> DEFINE popped == cumulative_tsn_ack_point + 1 .. d.cum
             total == Cardinality((popped \cup d.gaps) \ acked)
  <2>3. /\ ProcessSelectiveAck(d, popped, total)
        /\ AdvancePeerTsnAckPoint(Largest(advanced_peer_tsn_ack_point, d.cum), inflight \ popped, d.cum)
        /\ UNCHANGED <<written, my_next_tsn, flags, receiver, reading>>
    BY <2>1, <2>2, Zenon DEF ProcessSack
  <2>4. /\ cumulative_tsn_ack_point' = d.cum /\ inflight' = inflight \ popped
        /\ n_bytes' = n_bytes - total /\ buffered_amount' = Largest(buffered_amount - total, 0)
    BY <2>3 DEF ProcessSelectiveAck
  <2>5. d.cum >= cumulative_tsn_ack_point
    <3>1. cumulative_tsn_ack_point \in 0 .. N /\ cumulative_tsn_ack_point' \in 0 .. N /\ N \in Nat
      BY DataAssumption DEF DataAssumption, IInv, TypeOK
    <3> QED
      BY <1>3, <2>4, <3>1
  <2>6. total \in Nat
    <3>1. /\ cumulative_tsn_ack_point \in 0 .. N /\ d.cum \in 0 .. N /\ N \in Nat
          /\ my_next_tsn \in 1 .. N + 1
      BY <2>4, DataAssumption DEF DataAssumption, IInv, TypeOK
    <3>2. d.gaps \subseteq d.cum + 1 .. my_next_tsn - 1
      BY <1>1 DEF IInv, PacketOK
    <3>3. (popped \cup d.gaps) \ acked \in SUBSET Tsn
      BY <3>1, <3>2 DEF Tsn
    <3> QED
      BY <3>3, TsnFinite
  <2> HIDE DEF popped, total
  <2> QED
    BY <1>1, <2>3, <2>4, <2>5, <2>6
<1> QED
  BY <1>2, <1>3

(* What the write loop pops: the next k chunks, all of them written.       *)
LEMMA GatherEffect ==
    ASSUME IInv, GatherOutbound
    PROVE  LET P == PopPendingDataChunksToSend
               k == Cardinality(P)
           IN  /\ k \in Nat /\ P = my_next_tsn .. my_next_tsn + k - 1 /\ IsFiniteSet(P)
               /\ my_next_tsn' = my_next_tsn + k /\ my_next_tsn' <= written + 1
               /\ n_bytes' = n_bytes + k
               /\ P \subseteq Tsn
<1> DEFINE P == PopPendingDataChunksToSend
           k == BurstSize
<1>1. my_next_tsn' = my_next_tsn + Cardinality(P) /\ n_bytes' = n_bytes + Cardinality(P)
  BY DEF GatherOutbound
<1>2. N \in Nat /\ written \in 0 .. N /\ my_next_tsn \in 1 .. N + 1 /\ my_next_tsn <= written + 1
  BY DataAssumption DEF IInv, TypeOK, Points, DataAssumption
<1>3. k \in Nat /\ k <= Pending
  BY BurstFits
<1>4. P = my_next_tsn .. my_next_tsn + k - 1
  BY DEF PopPendingDataChunksToSend
<1> HIDE DEF k, P
<1>5. Cardinality(P) = k /\ IsFiniteSet(P)
  BY <1>2, <1>3, <1>4, IntervalCard
<1>6. my_next_tsn + k <= written + 1
  BY <1>2, <1>3 DEF Pending
<1>7. P \subseteq Tsn
  BY <1>2, <1>3, <1>4, <1>6 DEF Tsn
<1> QED
  BY <1>1, <1>3, <1>4, <1>5, <1>6, <1>7 DEF P

(* Packets that are not new FORWARD-TSNs leave the property as it is.      *)
LEMMA SenderMessagesStable ==
    ASSUME SenderMessages, UNCHANGED <<all_inflight, my_next_tsn, advanced_peer_tsn_ack_point,
                                       cumulative_tsn_ack_point>>,
           \A d \in net' : d \in net \/ d.type # "FWD"
    PROVE  SenderMessages'
<1>1. AllHaveTsn' /\ PointOnBoundary'
  BY DEF SenderMessages, AllHaveTsn, PointOnBoundary
<1>2. ForwardTsnOnMessageBoundary'
  BY DEF SenderMessages, ForwardTsnOnMessageBoundary
<1> QED
  BY <1>1, <1>2 DEF SenderMessages

(* Every step keeps the FORWARD-TSNs on message boundaries.                *)
LEMMA SenderMessagesStep ==
    ASSUME IInv, IInv', SenderMessages, [Next]_vars
    PROVE  SenderMessages'
<1>0. /\ N \in Nat /\ my_next_tsn \in Nat /\ cumulative_tsn_ack_point \in Nat
      /\ advanced_peer_tsn_ack_point \in Nat /\ advanced_peer_tsn_ack_point' \in Nat
      /\ cumulative_tsn_ack_point' \in Nat
  BY DataAssumption DEF DataAssumption, IInv, TypeOK
<1>1. CASE PushChunk
  <2>1. UNCHANGED <<all_inflight, my_next_tsn, advanced_peer_tsn_ack_point,
                    cumulative_tsn_ack_point, net>>
    BY <1>1 DEF PushChunk, flags, points
  <2> QED
    BY <2>1, SenderMessagesStable
<1>2. ASSUME UNCHANGED sender, \A d \in net' : d \in net \/ d.type # "FWD" PROVE SenderMessages'
  <2>1. UNCHANGED <<all_inflight, my_next_tsn, advanced_peer_tsn_ack_point,
                    cumulative_tsn_ack_point>>
    BY <1>2, SenderUnchanged
  <2> QED
    BY <1>2, <2>1, SenderMessagesStable
<1>3. ASSUME NEW m, ReadSctp(m) PROVE SenderMessages'
  BY <1>2, <1>3 DEF ReadSctp
<1>4. CASE AckTimeout
  BY <1>2, <1>4 DEF AckTimeout
<1>5. CASE GatherOutboundSackPackets
  <2>1. UNCHANGED sender
    BY <1>5 DEF GatherOutboundSackPackets
  <2>2. \A d \in net' : d \in net \/ d.type \in {"SACK", "ERROR"}
    BY <1>5 DEF GatherOutboundSackPackets, DueSack, Send, Sack, ErrorChunk, IInv, TypeOK
  <2> QED
    BY <1>2, <2>1, <2>2
<1>6. ASSUME NEW d \in net, HandleData(d) \/ HandleForwardTsn(d) \/ HandleError(d) \/ Lose(d)
      PROVE  SenderMessages'
  <2>1. UNCHANGED sender /\ net' \subseteq net
    BY <1>6 DEF HandleData, HandleForwardTsn, HandleError, Fail, Lose, Deliver
  <2> QED
    BY <1>2, <2>1
<1>7. ASSUME NEW c \in Nat, NEW base \in Nat, base > c => EndingFragment(base),
             AdvancePeerTsnAckPoint(base, c + 1 .. my_next_tsn - 1, c),
             use_forward_tsn, advanced_peer_tsn_ack_point' > c
      PROVE  EndingFragment(advanced_peer_tsn_ack_point')
  <2>1. PICK adv \in 0 .. N : /\ AdvancedOver(base, c + 1 .. my_next_tsn - 1, adv)
                             /\ advanced_peer_tsn_ack_point' = adv
    BY <1>7 DEF AdvancePeerTsnAckPoint
  <2>2. AllHaveTsn
    BY DEF SenderMessages
  <2>3. EndingFragment(adv)
    BY <1>0, <1>7, <2>1, <2>2, AdvancedToBoundary
  <2> QED
    BY <2>1, <2>3
<1>8. ASSUME NEW d \in net, HandleSack(d) PROVE SenderMessages'
  <2>1. net' \subseteq net
    BY <1>8, SackEffect
  <2>2. CASE UNCHANGED <<sender, receiver>>
    BY <1>2, <2>1, <2>2
  <2>3. CASE /\ UNCHANGED <<written, my_next_tsn, flags, receiver>>
             /\ cumulative_tsn_ack_point' = d.cum /\ d.cum >= cumulative_tsn_ack_point
             /\ AdvancePeerTsnAckPoint(Largest(advanced_peer_tsn_ack_point, d.cum), inflight', d.cum)
    <3>1. AllHaveTsn' /\ ForwardTsnOnMessageBoundary'
      BY <2>1, <2>3 DEF SenderMessages, AllHaveTsn, ForwardTsnOnMessageBoundary, flags
    <3> DEFINE c == d.cum
               base == Largest(advanced_peer_tsn_ack_point, c)
    <3>2. c \in Nat /\ base \in Nat
      BY <1>0, <2>3 DEF Largest
    <3>3. inflight' = c + 1 .. my_next_tsn - 1
      BY <2>3 DEF IInv, InflightContiguous
    <3>4. base > c => EndingFragment(base)
      BY <1>0, <2>3, <3>2 DEF Largest, SenderMessages, PointOnBoundary
    <3>5. AdvancePeerTsnAckPoint(base, c + 1 .. my_next_tsn - 1, c)
      BY <2>3, <3>3
    <3> HIDE DEF base, c
    <3>6. cumulative_tsn_ack_point' = c /\ c >= cumulative_tsn_ack_point
      BY <2>3 DEF c
    <3>7. CASE use_forward_tsn
      BY <1>7, <3>1, <3>2, <3>4, <3>5, <3>6, <3>7 DEF SenderMessages, PointOnBoundary
    <3>8. CASE ~use_forward_tsn
      <4>1. advanced_peer_tsn_ack_point' = advanced_peer_tsn_ack_point
        BY <3>5, <3>8 DEF AdvancePeerTsnAckPoint
      <4>2. PointOnBoundary'
        BY <1>0, <3>6, <4>1 DEF SenderMessages, PointOnBoundary
      <4> QED
        BY <3>1, <4>2 DEF SenderMessages
    <3> QED
      BY <3>7, <3>8
  <2> QED
    BY <1>8, <2>2, <2>3, SackEffect
<1>9. CASE T3Timeout
  <2>1. /\ UNCHANGED <<all_inflight, my_next_tsn, cumulative_tsn_ack_point, net>>
        /\ AdvancePeerTsnAckPoint(advanced_peer_tsn_ack_point, inflight, cumulative_tsn_ack_point)
    BY <1>9 DEF T3Timeout, flags
  <2>2. AllHaveTsn' /\ ForwardTsnOnMessageBoundary'
    BY <2>1 DEF SenderMessages, AllHaveTsn, ForwardTsnOnMessageBoundary
  <2>3. inflight = cumulative_tsn_ack_point + 1 .. my_next_tsn - 1
    BY DEF IInv, InflightContiguous
  <2>4. CASE use_forward_tsn
    <3>1. advanced_peer_tsn_ack_point > cumulative_tsn_ack_point
            => EndingFragment(advanced_peer_tsn_ack_point)
      BY DEF SenderMessages, PointOnBoundary
    <3>2. advanced_peer_tsn_ack_point' > cumulative_tsn_ack_point
            => EndingFragment(advanced_peer_tsn_ack_point')
      BY <1>0, <1>7, <2>1, <2>3, <2>4, <3>1
    <3> QED
      BY <2>1, <2>2, <3>2 DEF SenderMessages, PointOnBoundary
  <2>5. CASE ~use_forward_tsn
    <3>1. advanced_peer_tsn_ack_point' = advanced_peer_tsn_ack_point
      BY <2>1, <2>5 DEF AdvancePeerTsnAckPoint
    <3> QED
      BY <2>1, <2>2, <3>1 DEF SenderMessages, PointOnBoundary
  <2> QED
    BY <2>4, <2>5
<1>10. CASE GatherOutbound
  <2> DEFINE P == PopPendingDataChunksToSend
             k == Cardinality(P)
             R == GetDataPacketsToRetransmit
             F == FastRetransmission(R, CheckPartialReliabilityStatus(R \cup P), SetAllInflight(P))
  <2>1. /\ UNCHANGED <<cumulative_tsn_ack_point, advanced_peer_tsn_ack_point>>
        /\ all_inflight' = SetAllInflight(P)
        /\ net' \subseteq net \cup {Data(t) : t \in R \cup P \cup F} \cup GatherOutboundForwardTsnPackets
    BY <1>10 DEF GatherOutbound, Send
  <2>2. /\ k \in Nat /\ P = my_next_tsn .. my_next_tsn + k - 1
        /\ my_next_tsn' = my_next_tsn + k /\ P \subseteq Tsn
    BY <1>10, GatherEffect
  <2> HIDE DEF P, k, R, F
  <2>3. PointOnBoundary'
    BY <2>1 DEF SenderMessages, PointOnBoundary
  <2>4. ForwardTsnOnMessageBoundary'
    <3>1. \A d \in GatherOutboundForwardTsnPackets :
            d.new_cum = advanced_peer_tsn_ack_point
              /\ advanced_peer_tsn_ack_point > cumulative_tsn_ack_point
      BY DEF GatherOutboundForwardTsnPackets, ForwardTsn
    <3>2. \A d \in GatherOutboundForwardTsnPackets : EndingFragment(d.new_cum)
      BY <3>1 DEF SenderMessages, PointOnBoundary
    <3>3. \A t \in R \cup P \cup F : Data(t).type = "DATA"
      BY DEF Data
    <3>4. ASSUME NEW d \in net', d.type = "FWD" PROVE EndingFragment(d.new_cum)
      <4>1. d \in net \/ d \in GatherOutboundForwardTsnPackets
        BY <2>1, <3>3, <3>4
      <4> QED
        BY <3>2, <3>4, <4>1 DEF SenderMessages, ForwardTsnOnMessageBoundary
    <3> QED
      BY <3>4 DEF ForwardTsnOnMessageBoundary
  <2>5. AllHaveTsn'
    <3> SUFFICES ASSUME NEW t \in Tsn, Msg[t] \in all_inflight' PROVE t < my_next_tsn'
      BY DEF AllHaveTsn
    <3>0. t \in Nat
      BY <1>0 DEF Tsn
    <3>1. CASE Msg[t] \in all_inflight
      <4>1. t < my_next_tsn
        BY <3>1 DEF SenderMessages, AllHaveTsn
      <4> QED
        BY <1>0, <2>2, <3>0, <4>1
    <3>2. CASE Msg[t] \notin all_inflight
      <4>1. PICK u \in P : EndingFragment(u) /\ Msg[u] = Msg[t]
        BY <2>1, <3>2 DEF SetAllInflight
      <4>2. u \in Tsn /\ u <= u
        BY <2>2, <1>0 DEF Tsn
      <4>3. t <= u
        BY <4>1, <4>2, EndingSplits
      <4> QED
        BY <1>0, <2>2, <3>0, <4>3
    <3> QED
      BY <3>1, <3>2
  <2> QED
    BY <2>3, <2>4, <2>5 DEF SenderMessages
<1>11. CASE UNCHANGED vars
  BY <1>2, <1>11 DEF vars
<1>12. CASE Close
  <2>1. UNCHANGED <<all_inflight, my_next_tsn, advanced_peer_tsn_ack_point,
                    cumulative_tsn_ack_point, net>>
    BY <1>12 DEF Close, flags, points
  <2> QED
    BY <2>1, SenderMessagesStable
<1> QED
  BY <1>1, <1>3, <1>4, <1>5, <1>6, <1>8, <1>9, <1>10, <1>11, <1>12 DEF Next

-----------------------------------------------------------------------------
(* The receiver.                                                           *)

(* Above the point it is told, peer_last_tsn passes received chunks only.  *)
LEMMA PassesReceived ==
    ASSUME NEW base \in Nat, NEW pq, pq \subseteq accepted',
           HandlePeerLastTsnAndAcknowledgement(base, pq)
    PROVE  /\ peer_last_tsn' \in Nat /\ peer_last_tsn' >= base
           /\ \A t \in Nat : base < t /\ t <= peer_last_tsn' => t \in accepted'
<1>1. PICK last \in base .. N : base + 1 .. last \subseteq pq /\ peer_last_tsn' = last
  BY DEF HandlePeerLastTsnAndAcknowledgement
<1>2. last \in Nat /\ last >= base
  BY <1>1, DataAssumption DEF DataAssumption
<1>3. ASSUME NEW t \in Nat, base < t, t <= last PROVE t \in accepted'
  <2>1. t \in base + 1 .. last
    BY <1>2, <1>3
  <2> QED
    BY <1>1, <2>1
<1> QED
  BY <1>1, <1>2, <1>3

(* Reading takes whole messages, and leaves the rest as it is.              *)
LEMMA ReceiverMessagesStable ==
    ASSUME ReceiverMessages, UNCHANGED <<peer_last_tsn, accepted>>, reassembly' \subseteq reassembly
    PROVE  ReceiverMessages'
BY DEF ReceiverMessages, SkippedWhole, NoStrandedFragment

(* The parts of IInv that the receiver's messages depend on.               *)
LEMMA ReceiverFacts ==
    ASSUME IInv
    PROVE  /\ N \in Nat /\ peer_last_tsn \in Nat /\ payload_queue \subseteq accepted
           /\ accepted \subseteq Tsn /\ my_next_tsn \in 1 .. N + 1
BY DataAssumption DEF DataAssumption, IInv, TypeOK, Skips

(* A chunk is accepted for a message that has not been skipped.            *)
LEMMA HandleDataMessages ==
    ASSUME IInv, ReceiverMessages, NEW d \in net, HandleData(d)
    PROVE  ReceiverMessages'
<1>1. /\ N \in Nat /\ peer_last_tsn \in Nat /\ payload_queue \subseteq accepted /\ accepted \subseteq Tsn
      /\ my_next_tsn \in 1 .. N + 1
  BY ReceiverFacts
<1>2. /\ reassembly \subseteq accepted
      /\ \A u \in 1 .. peer_last_tsn : u \notin accepted => \A t \in Fragments(Msg[u]) : t <= peer_last_tsn
      /\ \A t \in reassembly : \A u \in Fragments(Msg[t]) : u <= peer_last_tsn => u \in accepted
  BY DEF ReceiverMessages, SkippedWhole, NoStrandedFragment
<1> DEFINE x == d.tsn
           pq == IF Acceptable(x) THEN payload_queue \cup {x} ELSE payload_queue
<1>3. /\ HandlePeerLastTsnAndAcknowledgement(peer_last_tsn, pq)
      /\ accepted' = IF Acceptable(x) THEN accepted \cup {x} ELSE accepted
      /\ reassembly' = IF Acceptable(x) THEN reassembly \cup {x} ELSE reassembly
  BY DEF HandleData
<1>4. x \in Tsn /\ (Acceptable(x) => x > peer_last_tsn)
  <2>1. x \in 1 .. my_next_tsn - 1
    BY DEF HandleData, IInv, PacketOK
  <2> QED
    BY <1>1, <2>1 DEF Acceptable, Tsn
<1>5. accepted \subseteq accepted' /\ pq \subseteq accepted' /\ reassembly' \subseteq accepted'
  BY <1>1, <1>2, <1>3
<1> HIDE DEF pq, x
<1>6. /\ peer_last_tsn' \in Nat /\ peer_last_tsn' >= peer_last_tsn
      /\ \A t \in Nat : peer_last_tsn < t /\ t <= peer_last_tsn' => t \in accepted'
  BY <1>1, <1>3, <1>5, PassesReceived
<1>7. SkippedWhole'
  <2> SUFFICES ASSUME NEW u \in 1 .. peer_last_tsn', u \notin accepted', NEW t \in Fragments(Msg[u])
               PROVE  t <= peer_last_tsn'
    BY DEF SkippedWhole
  <2>1. u \in 1 .. peer_last_tsn
    BY <1>1, <1>6
  <2>2. t <= peer_last_tsn /\ t \in Tsn
    BY <1>2, <1>5, <2>1 DEF Fragments
  <2>3. t \in Nat
    BY <1>1, <2>2 DEF Tsn
  <2> QED
    BY <1>1, <1>6, <2>2, <2>3
<1>8. NoStrandedFragment'
  <2> SUFFICES ASSUME NEW t \in reassembly', NEW u \in Fragments(Msg[t]), u <= peer_last_tsn',
                      u \notin accepted'
               PROVE  FALSE
    BY DEF NoStrandedFragment
  <2>1. u \in Tsn /\ Msg[u] = Msg[t]
    BY DEF Fragments
  <2>2. u \in Nat /\ u >= 1 /\ u <= peer_last_tsn /\ u \notin accepted
    <3>1. u \in Nat /\ u >= 1
      BY <1>1, <2>1 DEF Tsn
    <3> QED
      BY <1>1, <1>5, <1>6, <3>1
  <2>3. u \in 1 .. peer_last_tsn
    BY <1>1, <2>2
  <2>4. CASE t \in reassembly
    BY <1>2, <2>2, <2>4
  <2>5. CASE t \notin reassembly
    <3>1. t = x /\ x > peer_last_tsn
      BY <1>3, <1>4, <2>5
    <3>2. t \in Fragments(Msg[u])
      BY <1>4, <2>1, <3>1 DEF Fragments
    <3>3. t <= peer_last_tsn
      BY <1>2, <2>2, <2>3, <3>2
    <3>4. t \in Nat
      BY <1>1, <1>4, <3>1 DEF Tsn
    <3> QED
      BY <1>1, <3>1, <3>3, <3>4
  <2> QED
    BY <2>4, <2>5
<1> QED
  BY <1>5, <1>7, <1>8 DEF ReceiverMessages

(* A FORWARD-TSN skips messages as a whole, and takes what is left of them *)
(* out of the reassembly queue.                                            *)
LEMMA HandleForwardTsnMessages ==
    ASSUME IInv, IInv', SenderMessages, ReceiverMessages, NEW d \in net, HandleForwardTsn(d)
    PROVE  ReceiverMessages'
<1>1. /\ N \in Nat /\ peer_last_tsn \in Nat /\ payload_queue \subseteq accepted /\ accepted \subseteq Tsn
      /\ my_next_tsn \in 1 .. N + 1
  BY ReceiverFacts
<1>2. /\ reassembly \subseteq accepted
      /\ \A t \in reassembly : \A u \in Fragments(Msg[t]) : u <= peer_last_tsn => u \in accepted
  BY DEF ReceiverMessages, NoStrandedFragment
<1> DEFINE n == d.new_cum
<1>3. n \in 1 .. my_next_tsn - 1 /\ EndingFragment(n) /\ accepted' = accepted
  BY DEF HandleForwardTsn, IInv, PacketOK, SenderMessages, ForwardTsnOnMessageBoundary
<1>4. n \in Tsn /\ n \in Nat
  BY <1>1, <1>3 DEF Tsn
<1>5. CASE ~peer_use_forward_tsn \/ n <= peer_last_tsn
  <2>1. UNCHANGED <<peer_last_tsn, reassembly>>
    BY <1>5 DEF HandleForwardTsn, AcceptForwardTsn, RefuseForwardTsn
  <2> QED
    BY <1>3, <2>1, ReceiverMessagesStable
<1>6. CASE peer_use_forward_tsn /\ ~(n <= peer_last_tsn)
  <2> DEFINE pq == {t \in payload_queue : t > n}
  <2>1. reassembly' = ForwardTsnForUnordered(n) /\ HandlePeerLastTsnAndAcknowledgement(n, pq)
    BY <1>6 DEF HandleForwardTsn, AcceptForwardTsn
  <2>2. pq \subseteq accepted'
    BY <1>1, <1>3
  <2> HIDE DEF pq, n
  <2>3. /\ peer_last_tsn' \in Nat /\ peer_last_tsn' >= n
        /\ \A t \in Nat : n < t /\ t <= peer_last_tsn' => t \in accepted'
    BY <1>4, <2>1, <2>2, PassesReceived
  <2>4. reassembly' \subseteq reassembly
    BY <2>1 DEF ForwardTsnForUnordered
  <2>5. SkippedWhole'
    <3> SUFFICES ASSUME NEW u \in 1 .. peer_last_tsn', u \notin accepted', NEW t \in Fragments(Msg[u])
                 PROVE  t <= peer_last_tsn'
      BY DEF SkippedWhole
    <3>1. u \in Nat /\ u <= n
      BY <1>4, <2>3
    <3>2. u \in Tsn /\ t \in Tsn /\ Msg[t] = Msg[u]
      BY <1>1, <1>4, <3>1 DEF Fragments, Tsn
    <3>3. t <= n
      BY <1>3, <1>4, <3>1, <3>2, EndingSplits
    <3>4. t \in Nat
      BY <1>1, <3>2 DEF Tsn
    <3> QED
      BY <1>4, <2>3, <3>3, <3>4
  <2>6. NoStrandedFragment'
    <3> SUFFICES ASSUME NEW t \in reassembly', NEW u \in Fragments(Msg[t]), u <= peer_last_tsn'
                 PROVE  u \in accepted'
      BY DEF NoStrandedFragment
    <3>1. t \in reassembly /\ (t > n \/ Msg[t] \in Dcep \/ Complete(Msg[t]))
      BY <2>1 DEF ForwardTsnForUnordered
    <3>2. u \in Tsn /\ Msg[u] = Msg[t] /\ t \in Tsn
      BY <1>1, <1>2, <3>1 DEF Fragments
    <3>3. u \in Nat /\ t \in Nat /\ u \in 1 .. peer_last_tsn'
      BY <1>1, <2>3, <3>2 DEF Tsn
    <3>4. CASE t > n
      <4>1. ~(u <= n)
        <5>1. u <= n => t <= n
          BY <1>3, <1>4, <3>2, EndingSplits
        <5> QED
          BY <1>4, <3>3, <3>4, <5>1
      <4> QED
        BY <1>4, <2>3, <3>3, <4>1
    <3>5. CASE Msg[t] \in Dcep
      <4>1. \A v \in 1 .. peer_last_tsn' : Msg[v] \in Dcep => v \in accepted'
        BY DEF IInv, Skips, SkipSafe
      <4> QED
        BY <3>2, <3>3, <3>5, <4>1
    <3>6. CASE Complete(Msg[t])
      BY <1>2, <1>3, <3>6 DEF Complete
    <3> QED
      BY <3>1, <3>4, <3>5, <3>6
  <2> QED
    BY <1>2, <1>3, <2>4, <2>5, <2>6 DEF ReceiverMessages
<1> QED
  BY <1>5, <1>6

(* Every step keeps the receiver's messages together.                      *)
LEMMA ReceiverMessagesStep ==
    ASSUME IInv, IInv', SenderMessages, ReceiverMessages, [Next]_vars
    PROVE  ReceiverMessages'
<1>1. ASSUME UNCHANGED receiver PROVE ReceiverMessages'
  BY <1>1, ReceiverUnchanged, ReceiverMessagesStable
<1>2. CASE PushChunk \/ GatherOutbound \/ T3Timeout \/ Close \/ UNCHANGED vars
  <2>1. UNCHANGED receiver
    BY <1>2 DEF PushChunk, GatherOutbound, T3Timeout, Close, vars
  <2> QED
    BY <1>1, <2>1
<1>3. CASE AckTimeout \/ GatherOutboundSackPackets
  <2>1. UNCHANGED <<peer_last_tsn, accepted, reassembly>>
    BY <1>3 DEF AckTimeout, GatherOutboundSackPackets
  <2> QED
    BY <2>1, ReceiverMessagesStable
<1>4. ASSUME NEW m, ReadSctp(m) PROVE ReceiverMessages'
  <2>1. UNCHANGED <<peer_last_tsn, accepted>> /\ reassembly' \subseteq reassembly
    BY <1>4 DEF ReadSctp
  <2> QED
    BY <2>1, ReceiverMessagesStable
<1>5. ASSUME NEW d \in net, HandleSack(d) PROVE ReceiverMessages'
  <2>1. UNCHANGED receiver
    BY <1>5, SackEffect
  <2> QED
    BY <1>1, <2>1
<1>6. ASSUME NEW d \in net, Lose(d) \/ HandleError(d) PROVE ReceiverMessages'
  BY <1>1, <1>6 DEF Lose, HandleError, Fail
<1> QED
  BY <1>2, <1>3, <1>4, <1>5, <1>6, HandleDataMessages, HandleForwardTsnMessages DEF Next

-----------------------------------------------------------------------------
(* The stream's accounting.                                                *)

(* The chunks without a TSN of messages that packetize has counted.        *)
Waiting == {t \in my_next_tsn .. N : \E u \in 1 .. written : Msg[u] = Msg[t]}

StreamCounts == buffered_amount = n_bytes + Cardinality(Waiting)

(* There are finitely many.                                               *)
LEMMA WaitingFinite ==
    ASSUME my_next_tsn \in Nat, my_next_tsn >= 1
    PROVE  IsFiniteSet(Waiting) /\ Cardinality(Waiting) \in Nat
<1>1. Waiting \in SUBSET Tsn
  BY DataAssumption DEF Waiting, Tsn, DataAssumption
<1> QED
  BY <1>1, TsnFinite

(* The first fragment that is written counts all of its message, and the   *)
(* others count nothing.                                                   *)
LEMMA PushChunkCounts ==
    ASSUME IInv, StreamCounts, PushChunk
    PROVE  StreamCounts'
<1> DEFINE w == written + 1
           f == Fragments(Msg[w])
<1>1. /\ N \in Nat /\ written \in 0 .. N /\ my_next_tsn \in 1 .. N + 1 /\ my_next_tsn <= written + 1
      /\ n_bytes \in Nat
  BY DataAssumption DEF DataAssumption, IInv, TypeOK, Points
<1>2. /\ written' = w /\ my_next_tsn' = my_next_tsn /\ n_bytes' = n_bytes /\ written < N
      /\ buffered_amount' = IF BeginningFragment(w) THEN buffered_amount + Cardinality(f) ELSE buffered_amount
  BY DEF PushChunk, queue, points
<1>3. Waiting' = {t \in my_next_tsn .. N : \E u \in 1 .. w : Msg[u] = Msg[t]}
  BY <1>2 DEF Waiting
<1>4. w \in Tsn /\ w >= 1 /\ my_next_tsn <= w
  BY <1>1, <1>2 DEF Tsn
<1>5. IsFiniteSet(Waiting) /\ Cardinality(Waiting) \in Nat
  BY <1>1, WaitingFinite
<1>6. CASE BeginningFragment(w)
  <2>1. f \in SUBSET Tsn /\ \A t \in f : Msg[t] = Msg[w]
    BY DEF Fragments
  <2>2. IsFiniteSet(f) /\ Cardinality(f) \in Nat
    BY <2>1, TsnFinite
  <2>3. \A u \in Tsn : u < w => Msg[u] # Msg[w]
    BY <1>4, <1>6, BeginningIsFirst
  <2>4. \A u \in 1 .. written : u \in Tsn /\ u < w
    BY <1>1, <1>2 DEF Tsn
  <2>5. Waiting \cap f = {}
    BY <2>1, <2>3, <2>4 DEF Waiting
  <2>6. \A t \in f : t \in my_next_tsn .. N
    <3> TAKE t \in f
    <3>1. t \in Tsn /\ ~(t < w)
      BY <2>1, <2>3
    <3> QED
      BY <1>1, <1>4, <3>1 DEF Tsn
  <2>7. \A u : u \in 1 .. w <=> u \in 1 .. written \/ u = w
    BY <1>1
  <2>8. \A t \in my_next_tsn .. N : t \in Tsn
    BY <1>1 DEF Tsn
  <2>9. Waiting' = Waiting \cup f
    <3> HIDE DEF w
    <3>1. ASSUME NEW t \in Waiting' PROVE t \in Waiting \cup f
      BY <1>3, <2>7, <2>8, <3>1, Zenon DEF Waiting, Fragments
    <3>2. ASSUME NEW t \in Waiting \cup f PROVE t \in Waiting'
      BY <1>3, <2>1, <2>6, <2>7, <3>2, Zenon DEF Waiting
    <3> QED
      BY <3>1, <3>2
  <2> HIDE DEF f
  <2>10. Cardinality(Waiting') = Cardinality(Waiting) + Cardinality(f)
    BY <1>5, <2>2, <2>5, <2>9, DisjointCard
  <2>11. buffered_amount' = buffered_amount + Cardinality(f)
    BY <1>2, <1>6
  <2> QED
    BY <1>1, <1>2, <1>5, <2>2, <2>10, <2>11 DEF StreamCounts
<1>7. CASE ~BeginningFragment(w)
  <2>1. w # 1 /\ Msg[w - 1] = Msg[w] /\ w - 1 = written
    BY <1>1, <1>7 DEF BeginningFragment
  <2>2. written \in 1 .. written /\ Msg[written] = Msg[w]
    BY <1>1, <2>1
  <2>3. \A u : u \in 1 .. w <=> u \in 1 .. written \/ u = w
    BY <1>1
  <2>4. Waiting' = Waiting
    <3> HIDE DEF w
    <3> QED
      BY <1>3, <2>2, <2>3, Zenon DEF Waiting
  <2> QED
    BY <1>2, <1>7, <2>4 DEF StreamCounts
<1> QED
  BY <1>6, <1>7

(* A chunk that gets its TSN is counted in flight instead of waiting.      *)
LEMMA GatherCounts ==
    ASSUME IInv, StreamCounts, GatherOutbound
    PROVE  StreamCounts'
<1> DEFINE P == PopPendingDataChunksToSend
           k == Cardinality(P)
<1>1. /\ N \in Nat /\ written \in 0 .. N /\ my_next_tsn \in 1 .. N + 1 /\ n_bytes \in Nat
  BY DataAssumption DEF DataAssumption, IInv, TypeOK
<1>2. /\ k \in Nat /\ P = my_next_tsn .. my_next_tsn + k - 1 /\ IsFiniteSet(P)
      /\ my_next_tsn' = my_next_tsn + k /\ my_next_tsn' <= written + 1 /\ n_bytes' = n_bytes + k
  BY GatherEffect
<1>3. written' = written /\ buffered_amount' = buffered_amount
  BY DEF GatherOutbound, app
<1> HIDE DEF P
<1>4. Waiting' = {t \in my_next_tsn + k .. N : \E u \in 1 .. written : Msg[u] = Msg[t]}
  BY <1>2, <1>3 DEF Waiting
<1>5. my_next_tsn' \in Nat /\ my_next_tsn' >= 1
  BY <1>1, <1>2
<1>6. IsFiniteSet(Waiting') /\ Cardinality(Waiting') \in Nat
  <2>1. Waiting' \in SUBSET Tsn
    BY <1>1, <1>2, <1>4 DEF Tsn
  <2> QED
    BY <2>1, TsnFinite
<1> HIDE DEF k
<1>7. \A t \in P : t \in my_next_tsn .. N /\ t \in 1 .. written /\ t \notin my_next_tsn + k .. N
  BY <1>1, <1>2
<1>8. \A t \in my_next_tsn .. N : t \in P \/ t \in my_next_tsn + k .. N
  BY <1>1, <1>2
<1>9. \A t \in my_next_tsn + k .. N : t \in my_next_tsn .. N
  BY <1>1, <1>2
<1>10. Waiting = Waiting' \cup P
  BY <1>4, <1>7, <1>8, <1>9, Zenon DEF Waiting
<1>11. Waiting' \cap P = {}
  BY <1>4, <1>7
<1>12. Cardinality(Waiting) = Cardinality(Waiting') + k
  BY <1>2, <1>6, <1>10, <1>11, DisjointCard DEF k
<1> QED
  BY <1>1, <1>2, <1>3, <1>6, <1>12 DEF StreamCounts

(* Every step keeps the two amounts in agreement.                          *)
LEMMA StreamCountsStep ==
    ASSUME IInv, IInv', StreamCounts, [Next]_vars
    PROVE  StreamCounts'
<1>1. ASSUME UNCHANGED <<written, my_next_tsn, n_bytes, buffered_amount>> PROVE StreamCounts'
  BY <1>1 DEF StreamCounts, Waiting
<1>2. ASSUME UNCHANGED sender PROVE StreamCounts'
  BY <1>1, <1>2, SenderUnchanged
<1>3. CASE T3Timeout \/ Close
  <2>1. UNCHANGED <<written, my_next_tsn, n_bytes, buffered_amount>>
    BY <1>3 DEF T3Timeout, Close, app, queue, points
  <2> QED
    BY <1>1, <2>1
<1>4. CASE AckTimeout \/ GatherOutboundSackPackets \/ UNCHANGED vars
  <2>1. UNCHANGED sender
    BY <1>4 DEF AckTimeout, GatherOutboundSackPackets, vars
  <2> QED
    BY <1>2, <2>1
<1>5. ASSUME NEW m, ReadSctp(m) PROVE StreamCounts'
  BY <1>2, <1>5 DEF ReadSctp
<1>6. ASSUME NEW d \in net, HandleData(d) \/ HandleForwardTsn(d) \/ HandleError(d) \/ Lose(d)
      PROVE  StreamCounts'
  <2>1. UNCHANGED sender
    BY <1>6 DEF HandleData, HandleForwardTsn, HandleError, Fail, Lose
  <2> QED
    BY <1>2, <2>1
<1>7. ASSUME NEW d \in net, HandleSack(d) PROVE StreamCounts'
  <2>1. CASE UNCHANGED <<sender, receiver>>
    BY <1>2, <2>1
  <2>2. CASE /\ UNCHANGED <<written, my_next_tsn>>
             /\ \E total \in Nat : /\ n_bytes' = n_bytes - total
                                 /\ buffered_amount' = Largest(buffered_amount - total, 0)
    <3>1. PICK total \in Nat : n_bytes' = n_bytes - total /\ buffered_amount' = Largest(buffered_amount - total, 0)
      BY <2>2
    <3>2. n_bytes \in Nat /\ my_next_tsn \in Nat /\ my_next_tsn >= 1 /\ buffered_amount \in Nat
      BY DataAssumption DEF DataAssumption, IInv, TypeOK
    <3>3. n_bytes' \in Nat
      BY DEF IInv, TypeOK
    <3>4. Cardinality(Waiting) \in Nat /\ Waiting' = Waiting
      BY <2>2, <3>2, WaitingFinite DEF Waiting
    <3> QED
      BY <3>1, <3>2, <3>3, <3>4 DEF StreamCounts, Largest
  <2> QED
    BY <1>7, <2>1, <2>2, SackEffect
<1> QED
  BY <1>3, <1>4, <1>5, <1>6, <1>7, PushChunkCounts, GatherCounts DEF Next

-----------------------------------------------------------------------------
MessageInv == SenderMessages /\ ReceiverMessages /\ StreamCounts

(* The three parts hold initially and stay.                                *)
LEMMA MessagesInvariant == Spec => []MessageInv
<1>1. Init => MessageInv
  <2> SUFFICES ASSUME Init PROVE MessageInv
    OBVIOUS
  <2>1. SenderMessages
    BY DEF Init, SenderMessages, AllHaveTsn, PointOnBoundary, ForwardTsnOnMessageBoundary
  <2>2. ReceiverMessages
    BY DEF Init, ReceiverMessages, SkippedWhole, NoStrandedFragment
  <2>3. StreamCounts
    <3>1. Waiting = {}
      BY DEF Init, Waiting
    <3> QED
      BY <3>1, FS_EmptySet DEF Init, StreamCounts
  <2> QED
    BY <2>1, <2>2, <2>3 DEF MessageInv
<1>2. IInv /\ IInv' /\ MessageInv /\ [Next]_vars => MessageInv'
  BY SenderMessagesStep, ReceiverMessagesStep, StreamCountsStep DEF MessageInv
<1> QED
  BY <1>1, <1>2, Invariance, PTL DEF Spec

(* Every FORWARD-TSN ends on a message boundary, however the fragments of  *)
(* a message were spread over bursts, losses and SACKs.                    *)
THEOREM ForwardTsnSkipsMessages == Spec => []ForwardTsnOnMessageBoundary
<1>1. MessageInv => ForwardTsnOnMessageBoundary
  BY DEF MessageInv, SenderMessages
<1> QED
  BY <1>1, MessagesInvariant, PTL

(* No fragment of a message that was skipped stays in, or comes later to,  *)
(* the reassembly queue.                                                   *)
THEOREM NothingStranded == Spec => []NoStrandedFragment
<1>1. MessageInv => NoStrandedFragment
  BY DEF MessageInv, ReceiverMessages
<1> QED
  BY <1>1, MessagesInvariant, PTL

(* n_bytes and buffered_amount count every chunk once from the write to    *)
(* the first acknowledgment, by a gap block or by the cumulative point.    *)
THEOREM AmountsAgree == Spec => []BytesAccounted
<1>1. IInv /\ MessageInv => BytesAccounted
  BY DEF IInv, FlightSize, MessageInv, StreamCounts, Waiting, BytesAccounted
<1> QED
  BY <1>1, Invariance, MessagesInvariant, PTL
=============================================================================
