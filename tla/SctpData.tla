------------------------------ MODULE SctpData ------------------------------
(***************************************************************************)
(* User-data transfer of one SCTP association: DATA, SACK and FORWARD-TSN  *)
(* chunks between the sending half of one AssociationInternal and the      *)
(* receiving half of its peer, which runs the same code, over a network    *)
(* that loses, duplicates and reorders packets.                            *)
(*                                                                         *)
(* One task writes N chunks to one stream: DCEP messages, which are ordered*)
(* and reliable, then unordered ones with max_retransmits = 0.  Chunks are *)
(* numbered by the TSN they get, which is the order in which they are      *)
(* written.  Sizes are counted in full chunks: max_payload_size is the MTU *)
(* less the headers, so a packet carries one chunk.  TSNs do not wrap.     *)
(*                                                                         *)
(* The two ends need not agree on FORWARD-TSN: handle_init_ack honours     *)
(* ParamForwardTsnSupported, handle_init only ParamSupportedExtensions.    *)
(* Between two ends of this code the client uses it and the server refuses *)
(* it with an ERROR chunk, which ends the client's association.            *)
(***************************************************************************)
EXTENDS Integers, FiniteSets

CONSTANTS
    N,               \* chunks the application writes
    Msg,             \* Msg[t]: the user message chunk t is a fragment of
    Dcep,            \* the messages sent with payload_type Dcep
    RcvBuf,          \* max_receive_buffer_size of the peer, in chunks
    Mtu,             \* mtu, in chunks
    CwndFloor,       \* the 4380 bytes of RFC 4960 7.2.1, in chunks
    use_forward_tsn, \* of the sender: negotiated by the handshake (SctpHandshake)
    NetCap           \* bound: packets the network holds at once

ASSUME DataAssumption ==
    /\ N \in Nat \ {0}
    /\ Msg \in [1 .. N -> Nat]
    /\ \A t \in 1 .. N - 1 : Msg[t + 1] \in {Msg[t], Msg[t] + 1}
    /\ Dcep \subseteq Nat
    /\ RcvBuf \in Nat \ {0}
    /\ Mtu \in Nat \ {0}
    /\ CwndFloor \in Nat
    /\ use_forward_tsn \in BOOLEAN
    /\ NetCap \in Nat \ {0}

Tsn == 1 .. N
Fragments(m) == {t \in Tsn : Msg[t] = m}
BeginningFragment(t) == t = 1 \/ Msg[t - 1] # Msg[t]
EndingFragment(t) == t = N \/ Msg[t + 1] # Msg[t]

Largest(a, b) == IF a >= b THEN a ELSE b
Smallest(a, b) == IF a <= b THEN a ELSE b

Data(t) == [type |-> "DATA", tsn |-> t]
ForwardTsn(n) == [type |-> "FWD", new_cum |-> n]
Sack(c, g, w) == [type |-> "SACK", cum |-> c, gaps |-> g, a_rwnd |-> w]

ErrorChunk == [type |-> "ERROR"]

Message == {Data(t) : t \in Tsn} \cup {ForwardTsn(n) : n \in Tsn} \cup {ErrorChunk}
             \cup {Sack(c, g, w) : c \in 0 .. N, g \in SUBSET Tsn, w \in 0 .. RcvBuf}

VARIABLES
    \* the writing task and the stream's accounting
    written,             \* chunks pushed to pending_queue so far
    buffered_amount,
    awake,               \* a token is in awake_write_loop_ch
    \* sender: TSNs, the inflight queue and the flags of its chunks
    my_next_tsn,
    cumulative_tsn_ack_point,
    advanced_peer_tsn_ack_point,
    inflight,            \* keys of inflight_queue.chunk_map
    n_bytes,             \* inflight_queue.n_bytes
    acked, retransmit,   \* chunks whose flag of that name is set
    resent,              \* chunks with nsent > 1
    miss_indicator,
    abandoned, all_inflight,   \* messages whose shared flag is set
    \* sender: congestion control and requests to the write loop
    rwnd, cwnd, ssthresh, partial_bytes_acked,
    in_fast_recovery, fast_recover_exit_point, will_retransmit_fast,
    will_send_forward_tsn,
    t3rtx,               \* TRUE: a T3-rtx task sleeps
    t3_stale,            \* a stopped task had expired and waits for the lock
    \* receiver
    peer_last_tsn,
    payload_queue,       \* TSNs received above peer_last_tsn
    accepted,            \* history: TSNs ever passed to the stream
    reassembly,          \* chunks the stream's reassembly queue holds
    ack_state, ack_timer,
    peer_use_forward_tsn,\* use_forward_tsn of the receiver, which never changes
    control_queue,       \* the ERROR chunks that wait for the receiver's write loop
    \* environment, and the sender's read loop: "run", the error handle_inbound
    \* has failed with, or "ended" once the loop has closed the association
    net, reading

app == <<written, buffered_amount>>
queue == <<inflight, n_bytes, acked, retransmit, resent, miss_indicator>>
flags == <<abandoned, all_inflight>>
points == <<my_next_tsn, cumulative_tsn_ack_point, advanced_peer_tsn_ack_point>>
congestion == <<rwnd, cwnd, ssthresh, partial_bytes_acked, in_fast_recovery,
                fast_recover_exit_point>>
requests == <<awake, will_retransmit_fast, will_send_forward_tsn>>
t3 == <<t3rtx, t3_stale>>
receiver == <<peer_last_tsn, payload_queue, accepted, reassembly, ack_state, ack_timer,
              peer_use_forward_tsn, control_queue>>
sender == <<app, queue, flags, points, congestion, requests, t3>>
vars == <<sender, receiver, net, reading>>

TypeOK ==
    /\ written \in 0 .. N
    /\ buffered_amount \in Nat
    /\ awake \in BOOLEAN
    /\ my_next_tsn \in 1 .. N + 1
    /\ cumulative_tsn_ack_point \in 0 .. N
    /\ advanced_peer_tsn_ack_point \in 0 .. N
    /\ inflight \subseteq Tsn
    /\ n_bytes \in Nat
    /\ acked \subseteq inflight
    /\ retransmit \subseteq inflight
    /\ resent \subseteq inflight
    /\ miss_indicator \in [Tsn -> 0 .. 3]
    /\ abandoned \subseteq Nat
    /\ all_inflight \subseteq Nat
    /\ rwnd \in Nat
    /\ cwnd \in Nat
    /\ ssthresh \in Nat
    /\ partial_bytes_acked \in Nat
    /\ in_fast_recovery \in BOOLEAN
    /\ fast_recover_exit_point \in 0 .. N
    /\ will_retransmit_fast \in BOOLEAN
    /\ will_send_forward_tsn \in BOOLEAN
    /\ t3rtx \in BOOLEAN
    /\ t3_stale \in BOOLEAN
    /\ peer_last_tsn \in 0 .. N
    /\ payload_queue \subseteq Tsn
    /\ accepted \subseteq Tsn
    /\ reassembly \subseteq Tsn
    /\ ack_state \in {"Idle", "Immediate", "Delay"}
    /\ ack_timer \in {"off", "on", "spent"}
    /\ peer_use_forward_tsn \in BOOLEAN
    /\ control_queue \subseteq {ErrorChunk}
    /\ net \subseteq Message
    /\ reading \in {"run", "ErrTsnRequestNotExist", "ErrChunk", "ended"}

-----------------------------------------------------------------------------
(* Initially the handshake has completed: handle_init_ack set rwnd and       *)
(* ssthresh to the window the peer advertised.                               *)
InitialCwnd == Smallest(4 * Mtu, Largest(2 * Mtu, CwndFloor))

Init ==
    /\ written = 0 /\ buffered_amount = 0 /\ awake = FALSE
    /\ my_next_tsn = 1
    /\ cumulative_tsn_ack_point = 0 /\ advanced_peer_tsn_ack_point = 0
    /\ inflight = {} /\ n_bytes = 0
    /\ acked = {} /\ retransmit = {} /\ resent = {}
    /\ miss_indicator = [t \in Tsn |-> 0]
    /\ abandoned = {} /\ all_inflight = {}
    /\ rwnd = RcvBuf /\ cwnd = InitialCwnd /\ ssthresh = RcvBuf
    /\ partial_bytes_acked = 0
    /\ in_fast_recovery = FALSE /\ fast_recover_exit_point = 0
    /\ will_retransmit_fast = FALSE /\ will_send_forward_tsn = FALSE
    /\ t3rtx = FALSE /\ t3_stale = FALSE
    /\ peer_last_tsn = 0 /\ payload_queue = {} /\ accepted = {} /\ reassembly = {}
    /\ ack_state = "Idle" /\ ack_timer = "off"
    /\ peer_use_forward_tsn \in BOOLEAN /\ control_queue = {}
    /\ net = {} /\ reading = "run"

-----------------------------------------------------------------------------
(* The network holds at most NetCap packets: a full one drops older packets, *)
(* or part of a burst.  A packet in it may be lost, and a delivered one may  *)
(* be delivered again.                                                       *)
Send(S) ==
    \E kept \in SUBSET (net \cup S) :
        /\ Cardinality(kept) = Smallest(Cardinality(net \cup S), NetCap)
        /\ S \subseteq kept \/ kept \subseteq S
        /\ net' = kept

Deliver(m) == net' \in {net, net \ {m}}

Lose(m) ==
    /\ net' = net \ {m}
    /\ UNCHANGED <<sender, receiver, reading>>

(* handle_inbound returned err: read_loop leaves its loop.                   *)
Fail(err) ==
    /\ reading' = err
    /\ UNCHANGED <<sender, receiver>>

(* read_loop takes the lock again for close, which stops the timers and the  *)
(* write loop.  A T3-rtx task that has expired still calls back.             *)
Close ==
    /\ reading \in {"ErrTsnRequestNotExist", "ErrChunk"}
    /\ reading' = "ended"
    /\ t3rtx' = FALSE
    /\ t3_stale' \in (IF t3rtx THEN {t3_stale, TRUE} ELSE {t3_stale})
    /\ UNCHANGED <<app, queue, flags, points, congestion, requests, receiver, net>>

-----------------------------------------------------------------------------
(* Sender.                                                                   *)

(* The next chunk of write_sctp: packetize counts the whole message before   *)
(* its first fragment is pushed, send_payload_data wakes the write loop      *)
(* after the last one.                                                       *)
PushChunk ==
    /\ reading # "ended"
    /\ written < N
    /\ written' = written + 1
    /\ buffered_amount' = IF BeginningFragment(written + 1)
                             THEN buffered_amount + Cardinality(Fragments(Msg[written + 1]))
                             ELSE buffered_amount
    /\ awake' = (awake \/ EndingFragment(written + 1))
    /\ UNCHANGED <<queue, flags, points, congestion, will_retransmit_fast,
                   will_send_forward_tsn, t3, receiver, net, reading>>

Pending == written + 1 - my_next_tsn

(* The k lowest members of S.                                                *)
Lowest(S, k) == {t \in S : Cardinality({u \in S : u < t}) < k}

(* The first chunk past the ack point goes out alone as a zero window probe. *)
GetDataPacketsToRetransmit ==
    IF rwnd = 0 THEN retransmit \cap {cumulative_tsn_ack_point + 1}
                ELSE Lowest(retransmit, Smallest(cwnd, rwnd))

(* How many chunks cwnd and rwnd let the write loop pop.                     *)
WithinWindows ==
    Smallest(Pending, Smallest(Largest(cwnd - n_bytes, 0), rwnd))

(* Mutant: a closed window is never probed.                                  *)
NoProbe == FALSE

ZeroWindowProbe == WithinWindows = 0 /\ inflight = {} /\ Pending > 0

BurstSize == IF ZeroWindowProbe THEN 1 ELSE WithinWindows

PopPendingDataChunksToSend == my_next_tsn .. my_next_tsn + BurstSize - 1

(* Mutant: DCEP messages are not exempt.                                     *)
AbandonEverything(S) ==
    abandoned \cup (IF use_forward_tsn THEN {Msg[t] : t \in S} ELSE {})

(* The flags after the chunks S were sent: check_partial_reliability_status  *)
(* and, for a popped ending fragment, set_all_inflight.                      *)
CheckPartialReliabilityStatus(S) ==
    abandoned \cup (IF use_forward_tsn THEN {Msg[t] : t \in S} \ Dcep ELSE {})

SetAllInflight(P) == all_inflight \cup {Msg[t] : t \in {u \in P : EndingFragment(u)}}

(* Mutant: a message counts as abandoned while fragments are still pending.  *)
AbandonedEarly(t) == Msg[t] \in abandoned

(* ChunkPayloadData::abandoned: the flag counts once all fragments are out.  *)
Abandoned(t) == Msg[t] \in abandoned \cap all_inflight

(* The earliest chunk reported missing three times; one fits the packet.     *)
FastRetransmission(R, ab, all) ==
    IF will_retransmit_fast
      THEN Lowest({t \in inflight \ (acked \cup resent \cup R) :
                      /\ miss_indicator[t] >= 3
                      /\ Msg[t] \notin ab \cap all}, 1)
      ELSE {}

(* Mutant: the FORWARD-TSN names the first TSN that is not skipped.          *)
ForwardTsnOneTooFar ==
    IF will_send_forward_tsn /\ advanced_peer_tsn_ack_point > cumulative_tsn_ack_point
      THEN {ForwardTsn(advanced_peer_tsn_ack_point + 1)}
      ELSE {}

(* A FORWARD-TSN goes out only if it still is ahead of the ack point.        *)
GatherOutboundForwardTsnPackets ==
    IF will_send_forward_tsn /\ advanced_peer_tsn_ack_point > cumulative_tsn_ack_point
      THEN {ForwardTsn(advanced_peer_tsn_ack_point)}
      ELSE {}

(* One iteration of write_loop, which holds the association lock throughout. *)
GatherOutbound ==
    LET R == GetDataPacketsToRetransmit
        P == PopPendingDataChunksToSend
        all == SetAllInflight(P)
        F == FastRetransmission(R, CheckPartialReliabilityStatus(R \cup P), all)
        out == R \cup P \cup F
    IN  /\ reading # "ended"
        /\ awake
        /\ awake' = FALSE
        /\ my_next_tsn' = my_next_tsn + Cardinality(P)
        /\ inflight' = inflight \cup P
        /\ n_bytes' = n_bytes + Cardinality(P)
        /\ retransmit' = retransmit \ R
        /\ resent' = resent \cup R \cup F
        /\ abandoned' = CheckPartialReliabilityStatus(out)
        /\ all_inflight' = all
        /\ rwnd' = rwnd - (IF ZeroWindowProbe THEN 0 ELSE Cardinality(P))
        /\ t3rtx' = (t3rtx \/ P # {})
        /\ will_retransmit_fast' = FALSE
        /\ will_send_forward_tsn' = FALSE
        /\ Send({Data(t) : t \in out} \cup GatherOutboundForwardTsnPackets)
        /\ UNCHANGED <<app, acked, miss_indicator, cumulative_tsn_ack_point,
                       advanced_peer_tsn_ack_point, cwnd, ssthresh, partial_bytes_acked,
                       in_fast_recovery, fast_recover_exit_point, t3_stale,
                       receiver, reading>>

(* adv is the end of the run of abandoned chunks of q that follows base.     *)
AdvancedOver(base, q, adv) ==
    LET skipped(i) == i \in q /\ Abandoned(i)
    IN  /\ adv >= base
        /\ \A i \in base + 1 .. adv : skipped(i)
        /\ ~ skipped(adv + 1)

(* on_cumulative_tsn_ack_point_advanced: slow start and congestion avoidance *)
GrownCwnd(total, recovering) ==
    IF cwnd <= ssthresh
      THEN IF ~recovering /\ Pending > 0 THEN cwnd + Smallest(total, cwnd) ELSE cwnd
      ELSE IF partial_bytes_acked + total >= cwnd /\ Pending > 0 THEN cwnd + Mtu ELSE cwnd

GrownPartialBytesAcked(total) ==
    IF cwnd <= ssthresh THEN partial_bytes_acked
    ELSE IF partial_bytes_acked + total >= cwnd /\ Pending > 0
           THEN partial_bytes_acked + total - cwnd
           ELSE partial_bytes_acked + total

(* process_fast_retransmission: the TSNs whose miss indication it increments *)
ReportedMissing(d, q, htna, recovering, advanced) ==
    IF ~recovering THEN d.cum + 1 .. htna - 1
    ELSE IF advanced THEN d.cum + 1 .. d.cum + Cardinality(q)
    ELSE {}

(* Mutant: stopped for the acknowledged chunk and not started for the rest.  *)
StopT3(stopped, q) ==
    /\ t3rtx' = (t3rtx /\ ~stopped)
    /\ t3_stale' \in (IF stopped /\ t3rtx THEN {t3_stale, TRUE} ELSE {t3_stale})

(* T3-rtx is stopped when the earliest outstanding chunk is acknowledged or  *)
(* nothing is left in flight, and started (a no-op if it runs) when          *)
(* something is.  A stopped task that already expired still fires.           *)
RestartT3(stopped, q) ==
    /\ t3rtx' = (q # {} \/ (t3rtx /\ ~stopped))
    /\ t3_stale' \in (IF stopped /\ t3rtx THEN {t3_stale, TRUE} ELSE {t3_stale})

(* Mutant: the stream is told of the popped chunks only.                     *)
ReleasePoppedOnly(d, popped, total) ==
    /\ cumulative_tsn_ack_point' = d.cum
    /\ inflight' = inflight \ popped
    /\ n_bytes' = n_bytes - total
    /\ acked' = (acked \cup d.gaps) \ popped
    /\ retransmit' = retransmit \ (popped \cup d.gaps)
    /\ resent' = resent \ popped
    /\ buffered_amount' = Largest(buffered_amount - Cardinality(popped \ acked), 0)
    /\ rwnd' = Largest(d.a_rwnd - (n_bytes - total), 0)

(* process_selective_ack: popped leaves the queue, gaps are marked acked.    *)
ProcessSelectiveAck(d, popped, total) ==
    /\ cumulative_tsn_ack_point' = d.cum
    /\ inflight' = inflight \ popped
    /\ n_bytes' = n_bytes - total
    /\ acked' = (acked \cup d.gaps) \ popped
    /\ retransmit' = retransmit \ (popped \cup d.gaps)
    /\ resent' = resent \ popped
    /\ buffered_amount' = Largest(buffered_amount - total, 0)
    /\ rwnd' = Largest(d.a_rwnd - (n_bytes - total), 0)

(* process_fast_retransmission, and the congestion window after it.          *)
ProcessFastRetransmission(popped, bumped, htna, total, recovering, advanced) ==
    LET entering == ~recovering /\ \E t \in bumped : miss_indicator[t] = 2
        grown == IF advanced THEN GrownCwnd(total, recovering) ELSE cwnd
        reduced == Largest(grown \div 2, 4 * Mtu)
    IN  /\ miss_indicator' = [t \in Tsn |-> IF t \in popped THEN 0
                                 ELSE IF t \in bumped THEN miss_indicator[t] + 1
                                 ELSE miss_indicator[t]]
        /\ in_fast_recovery' = (recovering \/ entering)
        /\ will_retransmit_fast' = (will_retransmit_fast \/ entering \/ (recovering /\ advanced))
        /\ IF entering
             THEN /\ fast_recover_exit_point' = htna
                  /\ ssthresh' = reduced
                  /\ cwnd' = reduced
                  /\ partial_bytes_acked' = 0
             ELSE /\ cwnd' = grown
                  /\ partial_bytes_acked' = IF advanced THEN GrownPartialBytesAcked(total)
                                                        ELSE partial_bytes_acked
                  /\ UNCHANGED <<fast_recover_exit_point, ssthresh>>

(* RFC 3758 3.5 C2 and C3: adv is moved from base over the abandoned chunks  *)
(* of queue q, and a FORWARD-TSN is due if it is ahead of the ack point cum. *)
AdvancePeerTsnAckPoint(base, q, cum) ==
    IF use_forward_tsn
      THEN \E adv \in 0 .. N :
             /\ AdvancedOver(base, q, adv)
             /\ advanced_peer_tsn_ack_point' = adv
             /\ will_send_forward_tsn' = (will_send_forward_tsn \/ adv > cum)
      ELSE UNCHANGED <<advanced_peer_tsn_ack_point, will_send_forward_tsn>>

(* handle_sack for a SACK not older than the ack point.  htna is the highest *)
(* TSN newly acknowledged; hits is never empty.                              *)
ProcessSack(d) ==
    LET advanced == cumulative_tsn_ack_point < d.cum
        popped == cumulative_tsn_ack_point + 1 .. d.cum
        q == inflight \ popped
        total == Cardinality((popped \cup d.gaps) \ acked)
        hits == {d.cum} \cup (d.gaps \ acked)
        recovering == in_fast_recovery /\ fast_recover_exit_point \notin popped
        earliest == cumulative_tsn_ack_point + 1 \notin acked
    IN  \E htna \in hits :
          /\ \A i \in hits : i <= htna
          /\ LET missing == ReportedMissing(d, q, htna, recovering, advanced)
                 bumped == {t \in missing \ (acked \cup d.gaps) :
                               ~Abandoned(t) /\ miss_indicator[t] < 3}
             IN  IF ~(popped \subseteq inflight /\ d.gaps \subseteq q /\ missing \subseteq q)
                   THEN Fail("ErrTsnRequestNotExist")
                   ELSE /\ ProcessSelectiveAck(d, popped, total)
                        /\ ProcessFastRetransmission(popped, bumped, htna, total,
                                                     recovering, advanced)
                        /\ AdvancePeerTsnAckPoint(
                               Largest(advanced_peer_tsn_ack_point, d.cum), q, d.cum)
                        /\ RestartT3(advanced /\ (q = {} \/ earliest), q)
                        /\ awake' = (awake \/ use_forward_tsn \/ advanced)
                        /\ UNCHANGED <<written, my_next_tsn, flags, receiver, reading>>

HandleSack(d) ==
    /\ reading = "run"
    /\ d.type = "SACK"
    /\ Deliver(d)
    /\ IF d.cum < cumulative_tsn_ack_point
         THEN UNCHANGED <<sender, receiver, reading>>
         ELSE ProcessSack(d)

(* handle_chunk returns ErrChunk for an ERROR chunk.                         *)
HandleError(d) ==
    /\ reading = "run"
    /\ d.type = "ERROR"
    /\ Deliver(d)
    /\ Fail("ErrChunk")

(* on_retransmission_timeout(T3RTX), by the running task or by a stale one.  *)
T3Timeout ==
    /\ \/ t3rtx /\ UNCHANGED t3_stale
       \/ t3_stale /\ t3_stale' = FALSE
    /\ ssthresh' = Largest(cwnd \div 2, 4 * Mtu)
    /\ cwnd' = Mtu
    /\ AdvancePeerTsnAckPoint(advanced_peer_tsn_ack_point, inflight, cumulative_tsn_ack_point)
    /\ retransmit' = retransmit \cup {t \in inflight \ acked : ~Abandoned(t)}
    /\ awake' = TRUE
    /\ UNCHANGED <<app, inflight, n_bytes, acked, resent, miss_indicator, flags,
                   my_next_tsn, cumulative_tsn_ack_point, rwnd, partial_bytes_acked,
                   in_fast_recovery, fast_recover_exit_point, will_retransmit_fast,
                   t3rtx, receiver, net, reading>>

-----------------------------------------------------------------------------
(* Receiver.                                                                 *)

GetMyReceiverWindowCredit == Largest(RcvBuf - Cardinality(reassembly), 0)

(* handle_peer_last_tsn_and_acknowledgement, from cumulative point base with *)
(* the chunks pq received, followed by handle_chunk_end.                     *)
HandlePeerLastTsnAndAcknowledgement(base, pq) ==
    /\ \E last \in base .. N :
          /\ base + 1 .. last \subseteq pq
          /\ last + 1 \notin pq
          /\ peer_last_tsn' = last
          /\ payload_queue' = {t \in pq : t > last}
    /\ IF ack_state = "Idle" /\ payload_queue' = {}
         THEN /\ ack_state' = "Delay"
              /\ ack_timer' = IF ack_timer = "off" THEN "on" ELSE ack_timer
         ELSE /\ ack_state' = "Immediate"
              /\ ack_timer' = "off"

(* Mutant: only the chunks above a gap are known as duplicates.              *)
NotQueued(t) ==
    /\ t \notin payload_queue
    /\ GetMyReceiverWindowCredit > 0 \/ \E u \in payload_queue : t < u

(* A full receive buffer still takes a chunk that fills a gap.               *)
Acceptable(t) ==
    /\ t > peer_last_tsn
    /\ t \notin payload_queue
    /\ GetMyReceiverWindowCredit > 0 \/ \E u \in payload_queue : t < u

HandleData(d) ==
    /\ d.type = "DATA"
    /\ Deliver(d)
    /\ IF Acceptable(d.tsn)
         THEN /\ accepted' = accepted \cup {d.tsn}
              /\ reassembly' = reassembly \cup {d.tsn}
              /\ HandlePeerLastTsnAndAcknowledgement(peer_last_tsn, payload_queue \cup {d.tsn})
         ELSE /\ UNCHANGED <<accepted, reassembly>>
              /\ HandlePeerLastTsnAndAcknowledgement(peer_last_tsn, payload_queue)
    /\ UNCHANGED <<sender, peer_use_forward_tsn, control_queue, reading>>

(* The stream holds every fragment of message m.                             *)
Complete(m) == Fragments(m) # {} /\ Fragments(m) \subseteq reassembly

(* Mutant: the skipped fragments stay.                                       *)
KeepFragments(n) == reassembly

(* forward_tsn_for_unordered drops the chunks up to n of incomplete          *)
(* unordered messages; DCEP messages are ordered and stay.                   *)
ForwardTsnForUnordered(n) ==
    {t \in reassembly : t > n \/ Msg[t] \in Dcep \/ Complete(Msg[t])}

(* An end that did not negotiate FORWARD-TSN answers with an ERROR chunk.    *)
RefuseForwardTsn ==
    /\ control_queue' = control_queue \cup {ErrorChunk}
    /\ UNCHANGED <<peer_last_tsn, payload_queue, reassembly, ack_state, ack_timer>>

(* One that did skips the TSNs, or acknowledges a FORWARD-TSN that is old.   *)
AcceptForwardTsn(d) ==
    /\ UNCHANGED control_queue
    /\ IF d.new_cum <= peer_last_tsn
         THEN /\ ack_state' = "Immediate"
              /\ ack_timer' = "off"
              /\ UNCHANGED <<peer_last_tsn, payload_queue, reassembly>>
         ELSE /\ reassembly' = ForwardTsnForUnordered(d.new_cum)
              /\ HandlePeerLastTsnAndAcknowledgement(
                     d.new_cum, {t \in payload_queue : t > d.new_cum})

HandleForwardTsn(d) ==
    /\ d.type = "FWD"
    /\ Deliver(d)
    /\ IF peer_use_forward_tsn THEN AcceptForwardTsn(d) ELSE RefuseForwardTsn
    /\ UNCHANGED <<sender, accepted, peer_use_forward_tsn, reading>>

(* The ack timer's task; close_tx stays set, so the timer is spent.          *)
AckTimeout ==
    /\ ack_timer = "on"
    /\ ack_timer' = "spent"
    /\ ack_state' = "Immediate"
    /\ UNCHANGED <<sender, peer_last_tsn, payload_queue, accepted, reassembly,
                   peer_use_forward_tsn, control_queue, net, reading>>

(* An iteration of the receiver's write loop: the control queue, then        *)
(* gather_outbound_sack_packets.                                             *)
DueSack ==
    IF ack_state = "Immediate"
      THEN {Sack(peer_last_tsn, payload_queue, GetMyReceiverWindowCredit)}
      ELSE {}

GatherOutboundSackPackets ==
    /\ DueSack \cup control_queue # {}
    /\ ack_state' = IF ack_state = "Immediate" THEN "Idle" ELSE ack_state
    /\ control_queue' = {}
    /\ Send(DueSack \cup control_queue)
    /\ UNCHANGED <<sender, peer_last_tsn, payload_queue, accepted, reassembly,
                   ack_timer, peer_use_forward_tsn, reading>>

(* Stream::read_sctp takes one message: a complete unordered one, or the     *)
(* next ordered one.                                                         *)
Readable(m) ==
    /\ Complete(m)
    /\ m \in Dcep =>
          \A k \in Dcep : k < m => /\ Fragments(k) \subseteq accepted
                                  /\ Fragments(k) \cap reassembly = {}

ReadSctp(m) ==
    /\ Readable(m)
    /\ reassembly' = reassembly \ Fragments(m)
    /\ UNCHANGED <<sender, peer_last_tsn, payload_queue, accepted, ack_state, ack_timer,
                   peer_use_forward_tsn, control_queue, net, reading>>

-----------------------------------------------------------------------------
Next ==
    \/ PushChunk
    \/ GatherOutbound
    \/ T3Timeout
    \/ AckTimeout
    \/ GatherOutboundSackPackets
    \/ \E m \in {Msg[t] : t \in Tsn} : ReadSctp(m)
    \/ Close
    \/ \E d \in net : HandleSack(d)
    \/ \E d \in net : HandleError(d)
    \/ \E d \in net : HandleData(d)
    \/ \E d \in net : HandleForwardTsn(d)
    \/ \E d \in net : Lose(d)

Spec == Init /\ [][Next]_vars

(* Fairness.  The runtime schedules the writing task, both write loops, the  *)
(* timers' tasks and the reading application (weak fairness).  The link is   *)
(* fair-lossy (strong fairness): of the packets that matter, the lowest      *)
(* outstanding DATA, the FORWARD-TSN, its refusal and the up-to-date SACK,   *)
(* one that is on its way again and again is delivered in the end.           *)
Taken(d) == net' = net \ {d}

Fairness ==
    /\ WF_vars(PushChunk)
    /\ WF_vars(GatherOutbound)
    /\ WF_vars(T3Timeout)
    /\ WF_vars(AckTimeout)
    /\ WF_vars(Close)
    /\ WF_vars(GatherOutboundSackPackets)
    /\ WF_vars(\E m \in {Msg[t] : t \in Tsn} : ReadSctp(m))
    /\ SF_vars(\E d \in net : HandleData(d) /\ Taken(d)
                               /\ d.tsn = cumulative_tsn_ack_point + 1)
    /\ SF_vars(\E d \in net : HandleForwardTsn(d) /\ Taken(d))
    /\ SF_vars(\E d \in net : HandleError(d) /\ Taken(d))
    /\ SF_vars(\E d \in net : HandleSack(d) /\ Taken(d) /\ d.cum = peer_last_tsn)

FairSpec == Spec /\ Fairness

-----------------------------------------------------------------------------
(* Properties.                                                               *)

(* The sender has abandoned a message and its peer does not take FORWARD-TSN.*)
Refused == use_forward_tsn /\ ~peer_use_forward_tsn /\ abandoned # {}

(* No SACK, however late or often it arrives, makes handle_inbound fail      *)
(* (ErrInflightQueueTsnPop, ErrTsnRequestNotExist), and what does tear the   *)
(* association down is the ERROR chunk of a peer that refuses FORWARD-TSN,   *)
(* after a message was abandoned.  Where both ends take FORWARD-TSN, or none *)
(* uses it, the read loop goes on.                                           *)
OnlyRefusalTearsDown ==
    reading = "run" \/ (reading \in {"ErrChunk", "ended"} /\ Refused)

(* The inflight queue holds exactly the TSNs above the ack point that were   *)
(* assigned: every loop over it that stops at the first absent TSN sees all. *)
InflightContiguous == inflight = cumulative_tsn_ack_point + 1 .. my_next_tsn - 1

(* FORWARD-TSN never makes the receiver skip a chunk of a DCEP message it    *)
(* has not got: check_partial_reliability_status exempts them.               *)
ReliableNeverSkipped ==
    \A t \in 1 .. peer_last_tsn : Msg[t] \in Dcep => t \in accepted

(* T3-rtx runs exactly while something is in flight, whatever order SACKs,   *)
(* stops and starts came in, until the association is closed: else a lost    *)
(* packet is never repaired.                                                 *)
T3CoversInflight == reading # "ended" => (t3rtx <=> inflight # {})

(* inflight_queue.n_bytes and buffered_amount agree with the queues, though  *)
(* chunks are acknowledged by gap blocks first and popped later.             *)
BytesAccounted ==
    /\ n_bytes = Cardinality(inflight \ acked)
    /\ buffered_amount = n_bytes + Cardinality(
          {t \in my_next_tsn .. N : \E u \in 1 .. written : Msg[u] = Msg[t]})

(* A FORWARD-TSN ends on a message boundary: abandoned() waits until all     *)
(* fragments are in flight, so no message is skipped in part.                *)
ForwardTsnOnMessageBoundary ==
    \A d \in net : d.type = "FWD" => EndingFragment(d.new_cum)

(* No fragment is stranded in the reassembly queue: one whose message can    *)
(* never be completed, because a sibling was skipped, does not eat window.   *)
NoStrandedFragment ==
    \A t \in reassembly : \A u \in Fragments(Msg[t]) :
        u <= peer_last_tsn => u \in accepted

(* Fast recovery can end: the exit point is still in flight, so the SACK     *)
(* that pops it will clear in_fast_recovery.                                 *)
FastRecoveryCanExit == in_fast_recovery => fast_recover_exit_point \in inflight \cap acked

(* A chunk is passed to the stream at most once, however often the network   *)
(* or the sender repeats it: can_push knows all that came before, skipped    *)
(* TSNs included.                                                            *)
PassedOnce == [][(reassembly' \ reassembly) \cap accepted = {}]_vars

(* The strengthening of the safety properties that is inductive: what the    *)
(* receiver has acknowledged never runs ahead of what was assigned a TSN,    *)
(* and every packet in the network is one the sender or receiver could still *)
(* justify.                                                                  *)
SkipSafe(n) == \A t \in 1 .. n : Msg[t] \in Dcep => t \in accepted

HasAbandoned == use_forward_tsn /\ abandoned # {}

PacketOK(d) ==
    \/ d.type = "DATA" /\ d.tsn \in 1 .. my_next_tsn - 1
    \/ d.type = "FWD" /\ d.new_cum \in 1 .. my_next_tsn - 1 /\ SkipSafe(d.new_cum)
                      /\ HasAbandoned
    \/ d.type = "ERROR" /\ Refused
    \/ /\ d.type = "SACK"
       /\ d.cum \in 0 .. peer_last_tsn
       /\ d.gaps \subseteq d.cum + 1 .. my_next_tsn - 1
       /\ d.a_rwnd \in Nat

Points ==
    /\ my_next_tsn <= written + 1
    /\ cumulative_tsn_ack_point <= peer_last_tsn
    /\ peer_last_tsn < my_next_tsn
    /\ advanced_peer_tsn_ack_point < my_next_tsn
    /\ payload_queue \subseteq peer_last_tsn + 1 .. my_next_tsn - 1

AcceptedKnown == accepted \subseteq (1 .. peer_last_tsn) \cup payload_queue

Skips ==
    /\ abandoned \cap Dcep = {}
    /\ payload_queue \subseteq accepted
    /\ AcceptedKnown
    /\ SkipSafe(peer_last_tsn)
    /\ SkipSafe(advanced_peer_tsn_ack_point)

(* An ERROR chunk is due, and a FORWARD-TSN is, only for an abandoned message.*)
Refusals ==
    /\ control_queue # {} => Refused
    /\ advanced_peer_tsn_ack_point > cumulative_tsn_ack_point => HasAbandoned

FlightSize == n_bytes = Cardinality(inflight \ acked)

IInv ==
    /\ TypeOK
    /\ OnlyRefusalTearsDown
    /\ InflightContiguous
    /\ Points
    /\ Skips
    /\ Refusals
    /\ FlightSize
    /\ T3CoversInflight
    /\ FastRecoveryCanExit
    /\ \A d \in net : PacketOK(d)

(* Everything written is acknowledged or given up, nothing stays buffered,   *)
(* and every DCEP message was received and read.                             *)
Settled ==
    /\ cumulative_tsn_ack_point = N
    /\ buffered_amount = 0
    /\ \A t \in Tsn : Msg[t] \in Dcep => t \in accepted
    /\ reassembly = {}

(* In the end everything settles: lost packets, lost SACKs, a closed window  *)
(* and the spent ack timer only delay the sender.  The one other end is the  *)
(* association's, closed by a peer that refuses the FORWARD-TSN for an       *)
(* abandoned message: a peer that takes it lets everything settle.           *)
EverythingSettles == <>[](Settled \/ (reading = "ended" /\ Refused))
=============================================================================
