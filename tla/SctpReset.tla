----------------------------- MODULE SctpReset -----------------------------
(***************************************************************************)
(* The pending queue of an association and the reset of streams.           *)
(*                                                                         *)
(* One end writes and closes: a writing task and the tasks that close      *)
(* streams push chunks into the pending queue, without the association's   *)
(* lock, while the write loop looks at the queue and pops from it.  The    *)
(* other end receives the chunks and the requests to reset streams.  How   *)
(* chunks are acknowledged, repeated and given up is module SctpData; here *)
(* a chunk in flight is acknowledged, repeated, or skipped with a          *)
(* FORWARD-TSN, so DATA and FORWARD-TSN once sent may arrive at any time,  *)
(* again and again, or never.  Requests and responses are lost (never      *)
(* delivered), repeated by their timer, and reordered.  The association is *)
(* Established.                                                            *)
(***************************************************************************)
EXTENDS Integers, Sequences, FiniteSets

CONSTANTS
    Streams,
    Messages,  \* what is written: records [stream, fragments, dcep]
    Window     \* chunks that cwnd and rwnd allow in flight

Writer == "writer"

ASSUME ResetAssumption ==
    /\ Window \in Nat \ {0} /\ Writer \notin Streams
    /\ Messages \in Seq([stream : Streams, fragments : Nat \ {0}, dcep : BOOLEAN])
    /\ \A i \in DOMAIN Messages : Messages[i].dcep => Messages[i].fragments = 1

VARIABLES
    wrote,          \* messages handed to write_sctp
    pushing,        \* what each task still has to push
    uncounted,      \* the tasks between push_back and fetch_add
    closed,         \* the streams close() was called on
    unordered_queue, ordered_queue, queue_len, selected, unordered_is_selected,
    awake,          \* awake_write_loop_ch holds a token
    loop, peeked,   \* where gather_outbound is, and the chunk it looks at
    probing,        \* it is past its loop, at the zero window probe
    sis_to_reset,
    assigned,       \* the chunks that have a TSN, in order of it
    inflight,       \* those not acknowledged
    reconfigs, my_next_rsn, will_retransmit_reconfig,
    treconfig, expired,   \* the timer runs; a callback of before its stop waits for the lock
    net,
    peer_last_tsn, payload_queue, streams, reconfig_requests,
    passed, skipped,      \* history: TSNs given to a stream, TSNs a FORWARD-TSN passed over
    requests              \* history: the requests made

taskVars == <<wrote, pushing, uncounted, closed>>
queueVars == <<unordered_queue, ordered_queue, queue_len, selected, unordered_is_selected>>
loopVars == <<loop, peeked, probing, sis_to_reset>>
sendVars == <<assigned, inflight>>
reconfigVars == <<reconfigs, my_next_rsn, will_retransmit_reconfig, treconfig, requests>>
receiveVars == <<peer_last_tsn, payload_queue, streams, reconfig_requests, passed, skipped>>
vars == <<taskVars, queueVars, awake, loopVars, sendVars, reconfigVars, expired, net,
          receiveVars>>

Tasks == {Writer} \cup Streams
Nothing == [stream |-> "none"]

(* What packetize makes of message i.                                        *)
Packetize(i) ==
    [f \in 1 .. Messages[i].fragments |->
        [stream |-> Messages[i].stream, message |-> i, fragment |-> f, eos |-> FALSE,
         unordered |-> ~Messages[i].dcep, beginning_fragment |-> f = 1,
         ending_fragment |-> f = Messages[i].fragments]]

(* The empty chunk of send_reset_request.                                    *)
EndOfStream(s) ==
    [stream |-> s, message |-> 0, fragment |-> 1, eos |-> TRUE, unordered |-> FALSE,
     beginning_fragment |-> TRUE, ending_fragment |-> TRUE]

Request(r) == [type |-> "RECONFIG", request |-> r]
Response(r) == [type |-> "RESPONSE", rsn |-> r.rsn]

Init ==
    /\ wrote = 0 /\ pushing = [t \in Tasks |-> <<>>] /\ uncounted = {} /\ closed = {}
    /\ unordered_queue = <<>> /\ ordered_queue = <<>> /\ queue_len = 0
    /\ selected = FALSE /\ unordered_is_selected = FALSE
    /\ awake = FALSE /\ loop = "wait" /\ peeked = Nothing /\ probing = FALSE
    /\ sis_to_reset = {}
    /\ assigned = <<>> /\ inflight = {}
    /\ reconfigs = {} /\ my_next_rsn = 1 /\ will_retransmit_reconfig = FALSE
    /\ treconfig = FALSE /\ expired = FALSE /\ net = {}
    /\ peer_last_tsn = 0 /\ payload_queue = {} /\ streams = Streams /\ reconfig_requests = {}
    /\ passed = {} /\ skipped = {} /\ requests = {}

-----------------------------------------------------------------------------
(* The tasks that push.                                                      *)

(* write_sctp.  It does not look at closed.                                  *)
WriteSctp ==
    /\ wrote < Len(Messages) /\ pushing[Writer] = <<>>
    /\ wrote' = wrote + 1
    /\ pushing' = [pushing EXCEPT ![Writer] = Packetize(wrote + 1)]
    /\ UNCHANGED <<uncounted, closed, queueVars, awake, loopVars, sendVars, reconfigVars, expired,
                   net, receiveVars>>

(* Stream::close.                                                            *)
Close(s) ==
    /\ s \notin closed /\ closed' = closed \cup {s}
    /\ pushing' = [pushing EXCEPT ![s] = <<EndOfStream(s)>>]
    /\ UNCHANGED <<wrote, uncounted, queueVars, awake, loopVars, sendVars, reconfigVars, expired,
                   net, receiveVars>>

(* PendingQueue::push: the chunk is appended, ...                            *)
PushBack(t) ==
    /\ pushing[t] # <<>> /\ t \notin uncounted
    /\ uncounted' = uncounted \cup {t}
    /\ LET c == Head(pushing[t])
       IN IF c.unordered
            THEN unordered_queue' = Append(unordered_queue, c) /\ UNCHANGED ordered_queue
            ELSE ordered_queue' = Append(ordered_queue, c) /\ UNCHANGED unordered_queue
    /\ UNCHANGED <<wrote, pushing, closed, queue_len, selected, unordered_is_selected, awake,
                   loopVars, sendVars, reconfigVars, expired, net, receiveVars>>

(* Mutant: the write loop is woken before the last chunk is counted.         *)
AwakeFirst(t) == awake' = (awake \/ Len(pushing[t]) = 2)

(* send_payload_data and send_reset_request wake the write loop when all     *)
(* chunks are pushed.                                                        *)
AwakeWriteLoop(t) == awake' = (awake \/ Len(pushing[t]) = 1)

(* ... and counted.                                                          *)
Count(t) ==
    /\ t \in uncounted /\ uncounted' = uncounted \ {t}
    /\ queue_len' = queue_len + 1
    /\ pushing' = [pushing EXCEPT ![t] = Tail(@)]
    /\ AwakeWriteLoop(t)
    /\ UNCHANGED <<wrote, closed, unordered_queue, ordered_queue, selected, unordered_is_selected,
                   loopVars, sendVars, reconfigVars, expired, net, receiveVars>>

-----------------------------------------------------------------------------
(* The write loop: gather_outbound_data_and_reconfig_packets.                *)

(* The loop is woken and reads the length of the pending queue.              *)
Wake ==
    /\ loop = "wait" /\ awake
    /\ awake' = FALSE /\ loop' = IF queue_len = 0 THEN "reconfig" ELSE "peek"
    /\ UNCHANGED <<taskVars, queueVars, peeked, probing, sis_to_reset, sendVars, reconfigVars,
                   expired, net, receiveVars>>

(* pop_pending_data_chunks_to_send with what peek returned: nothing more, a  *)
(* stream to reset, no window, or a chunk to send.  If nothing is in flight  *)
(* it looks once more, for a zero window probe, and sends whatever it finds. *)
Look(queue) ==
    \/ /\ queue = <<>>
       /\ IF inflight = {} /\ ~probing THEN loop' = "peek" /\ probing' = TRUE
                                       ELSE loop' = "reconfig" /\ UNCHANGED probing
       /\ UNCHANGED <<peeked, sis_to_reset>>
    \/ /\ queue # <<>>
       /\ LET c == Head(queue)
              full == Cardinality({t \in inflight : ~assigned[t].eos}) >= Window
          IN IF ~c.eos /\ full THEN loop' = "reconfig" /\ UNCHANGED <<peeked, sis_to_reset>>
             ELSE /\ loop' = "pop" /\ peeked' = c
                  /\ sis_to_reset' = IF c.eos /\ ~probing THEN sis_to_reset \cup {c.stream}
                                                         ELSE sis_to_reset
       /\ UNCHANGED probing

(* PendingQueue::peek: the selected queue, or first the unordered one ...    *)
Peek ==
    /\ loop = "peek"
    /\ IF selected THEN Look(IF unordered_is_selected THEN unordered_queue ELSE ordered_queue)
       ELSE IF unordered_queue # <<>> THEN Look(unordered_queue)
       ELSE loop' = "ordered" /\ UNCHANGED <<peeked, probing, sis_to_reset>>
    /\ UNCHANGED <<taskVars, queueVars, awake, sendVars, reconfigVars, expired, net, receiveVars>>

(* ... and then the ordered one.                                             *)
PeekOrdered ==
    /\ loop = "ordered" /\ Look(ordered_queue)
    /\ UNCHANGED <<taskVars, queueVars, awake, sendVars, reconfigVars, expired, net, receiveVars>>

Uncount == queue_len' = queue_len - 1

(* move_pending_data_chunk_to_inflight_queue.                                *)
MoveToInflight(c) ==
    IF c.eos /\ ~probing THEN UNCHANGED <<assigned, inflight>>
    ELSE assigned' = Append(assigned, c) /\ inflight' = inflight \cup {Len(assigned) + 1}

(* The first chunk of a queue is taken.                                      *)
PopFront(from_unordered) ==
    /\ IF from_unordered
         THEN unordered_queue' = Tail(unordered_queue) /\ UNCHANGED ordered_queue
         ELSE ordered_queue' = Tail(ordered_queue) /\ UNCHANGED unordered_queue
    /\ Uncount
    /\ MoveToInflight(Head(IF from_unordered THEN unordered_queue ELSE ordered_queue))

(* A queue stays selected from the first fragment to the last.               *)
Select(from_unordered) ==
    LET c == Head(IF from_unordered THEN unordered_queue ELSE ordered_queue)
    IN /\ selected' = ~c.ending_fragment
       /\ unordered_is_selected' =
              IF ~selected /\ ~c.ending_fragment THEN from_unordered ELSE unordered_is_selected

(* Mutant: no queue is selected, the chunk that was looked at is taken.      *)
PopPeeked ==
    /\ loop = "pop" /\ peeked' = Nothing
    /\ loop' = IF probing THEN "reconfig" ELSE "peek"
    /\ PopFront(peeked.unordered) /\ UNCHANGED <<selected, unordered_is_selected>>
    /\ UNCHANGED <<taskVars, awake, probing, sis_to_reset, reconfigVars, expired, net,
                   receiveVars>>

(* PendingQueue::pop, which fails if nothing is selected and the chunk       *)
(* begins no message.                                                        *)
Pop ==
    /\ loop = "pop" /\ peeked' = Nothing
    /\ loop' = IF probing THEN "reconfig" ELSE "peek"
    /\ IF selected \/ peeked.beginning_fragment
         THEN LET from_unordered == IF selected THEN unordered_is_selected ELSE peeked.unordered
              IN PopFront(from_unordered) /\ Select(from_unordered)
         ELSE UNCHANGED <<queueVars, assigned, inflight>>
    /\ UNCHANGED <<taskVars, awake, probing, sis_to_reset, reconfigVars, expired, net,
                   receiveVars>>

(* Mutant: the timer is started only for a repetition.                       *)
StartIfRepeated == treconfig' = (treconfig \/ (will_retransmit_reconfig /\ reconfigs' # {}))

(* RtxTimer::start, if requests are open.                                    *)
StartTreconfig == treconfig' = (treconfig \/ reconfigs' # {})

(* The end of gather_outbound_data_and_reconfig_packets: open requests are   *)
(* repeated and a new one is made.                                           *)
GatherReconfig ==
    /\ loop = "reconfig" /\ loop' = "wait" /\ probing' = FALSE /\ sis_to_reset' = {}
    /\ will_retransmit_reconfig' = FALSE
    /\ LET new == IF sis_to_reset = {} THEN {}
                  ELSE {[rsn |-> my_next_rsn, sender_last_tsn |-> Len(assigned),
                         stream_identifiers |-> sis_to_reset]}
           repeated == IF will_retransmit_reconfig THEN reconfigs ELSE {}
       IN /\ reconfigs' = reconfigs \cup new /\ requests' = requests \cup new
          /\ my_next_rsn' = my_next_rsn + Cardinality(new)
          /\ net' = net \cup {Request(r) : r \in repeated \cup new}
    /\ IF sis_to_reset # {} \/ will_retransmit_reconfig THEN StartTreconfig
                                                        ELSE UNCHANGED treconfig
    /\ UNCHANGED <<taskVars, queueVars, awake, peeked, sendVars, expired, receiveVars>>

(* The association's lock is free: gather_outbound holds it while it works.  *)
Unlocked == loop = "wait"

(* The timer expires, or it had expired before it was stopped and its task   *)
(* has got the lock only now; it calls on_retransmission_timeout.            *)
OnReconfigTimeout ==
    /\ Unlocked
    /\ \/ treconfig /\ UNCHANGED expired
       \/ expired /\ expired' = FALSE
    /\ will_retransmit_reconfig' = TRUE /\ awake' = TRUE
    /\ UNCHANGED <<taskVars, queueVars, loopVars, sendVars, reconfigs, my_next_rsn, treconfig,
                   requests, net, receiveVars>>

-----------------------------------------------------------------------------
(* Data in flight (module SctpData).                                         *)

(* create_forward_tsn: messages are given up, except DCEP, and FORWARD-TSN   *)
(* ends with a last fragment.  What may be given up may be until it is       *)
(* acknowledged, so a FORWARD-TSN that was sent may still come as long as    *)
(* this holds; afterwards it is out of date.                                 *)
GivenUp(t) ==
    /\ t \in inflight /\ assigned[t].ending_fragment
    /\ \A u \in inflight : u <= t => assigned[u].unordered \/ assigned[u].eos

(* handle_sack, of what the other end has got by now; an older SACK changes  *)
(* nothing that an earlier one did not.                                      *)
HandleSack ==
    /\ Unlocked /\ \E t \in inflight : t <= peer_last_tsn
    /\ inflight' = {t \in inflight : t > peer_last_tsn}
    /\ awake' = TRUE
    /\ UNCHANGED <<taskVars, queueVars, loopVars, assigned, reconfigVars, expired, net,
                   receiveVars>>

(* The timer is stopped with the last request, which a task that has expired *)
(* already does not see.                                                     *)
StopTreconfig ==
    /\ treconfig' = (treconfig /\ reconfigs' # {})
    /\ \/ UNCHANGED expired
       \/ treconfig /\ reconfigs' = {} /\ expired' = TRUE

(* handle_reconfig_param, a response: whatever its result, the request is    *)
(* not repeated any more.                                                    *)
HandleResponse(m) ==
    /\ m.type = "RESPONSE" /\ Unlocked
    /\ reconfigs' = {r \in reconfigs : r.rsn # m.rsn}
    /\ StopTreconfig
    /\ net' = net \ {m}
    /\ UNCHANGED <<taskVars, queueVars, awake, loopVars, sendVars, my_next_rsn,
                   will_retransmit_reconfig, requests, receiveVars>>

-----------------------------------------------------------------------------
(* The other end.  What gather_outbound makes is sent when it returns, and   *)
(* what came in the meantime may as well have come before: the steps of the  *)
(* other end touch nothing that it reads.                                    *)

(* Mutant: requests are performed when they come.                            *)
PerformAtOnce(rs, last) == rs

(* The requests that can be performed once all TSNs up to last have come.    *)
Performable(rs, last) == {r \in rs : r.sender_last_tsn <= last}

(* reset_streams_if_any for the requests rs with the TSNs up to last there:  *)
(* the streams of those that are performed are unregistered.                 *)
ResetStreams(rs, last) ==
    LET done == Performable(rs, last)
        ids == UNION {r.stream_identifiers : r \in done}
    IN /\ streams' = streams \ ids
       /\ reconfig_requests' = (reconfig_requests \cup rs) \ done

(* The TSN up to which all chunks are there.                                 *)
Advanced(last, queue) ==
    CHOOSE t \in last .. last + Cardinality(queue) :
        last + 1 .. t \subseteq queue /\ t + 1 \notin queue

(* Mutant: the requests that wait are not looked at again.                   *)
ForgetRequests(last, queue) == {}

(* Every chunk that moves peer_last_tsn has the waiting requests tried       *)
(* again; if none does, they are not.                                        *)
Retried(last, queue) == IF Advanced(last, queue) > last THEN reconfig_requests ELSE {}

(* handle_peer_last_tsn_and_acknowledgement, from the TSN last with queue.   *)
HandlePeerLastTsn(last, queue) ==
    LET to == Advanced(last, queue)
    IN /\ peer_last_tsn' = to
       /\ payload_queue' = {t \in queue : t > to}
       /\ ResetStreams(Retried(last, queue), to)
       /\ net' = net \cup {Response(r) : r \in Retried(last, queue)}

(* handle_data.  The stream of a new chunk may be gone: nobody accepts       *)
(* streams, so the chunk is discarded and not acknowledged.  A chunk that is *)
(* there already changes nothing.                                            *)
HandleData(t) ==
    /\ Unlocked /\ t > peer_last_tsn /\ t \notin payload_queue
    /\ assigned[t].stream \in streams
    /\ passed' = passed \cup {t}
    /\ HandlePeerLastTsn(peer_last_tsn, payload_queue \cup {t})
    /\ UNCHANGED <<taskVars, queueVars, awake, loopVars, sendVars, reconfigVars, expired,
                   skipped>>

(* handle_forward_tsn, if it is not out of date.                             *)
HandleForwardTsn(t) ==
    /\ Unlocked /\ GivenUp(t) /\ t > peer_last_tsn
    /\ skipped' = skipped \cup (peer_last_tsn + 1 .. t \ passed)
    /\ HandlePeerLastTsn(t, {u \in payload_queue : u > t})
    /\ UNCHANGED <<taskVars, queueVars, awake, loopVars, sendVars, reconfigVars, expired, passed>>

(* handle_reconfig_param, a request.                                         *)
HandleRequest(m) ==
    /\ m.type = "RECONFIG" /\ Unlocked
    /\ ResetStreams({m.request}, peer_last_tsn)
    /\ net' = (net \ {m}) \cup {Response(m.request)}
    /\ UNCHANGED <<peer_last_tsn, payload_queue, passed, skipped, taskVars, queueVars, awake,
                   loopVars, sendVars, reconfigVars, expired>>

-----------------------------------------------------------------------------
Next ==
    \/ WriteSctp
    \/ \E s \in Streams : Close(s)
    \/ \E t \in Tasks : PushBack(t) \/ Count(t)
    \/ Wake \/ Peek \/ PeekOrdered \/ Pop \/ GatherReconfig
    \/ OnReconfigTimeout \/ HandleSack
    \/ \E t \in DOMAIN assigned : HandleData(t) \/ HandleForwardTsn(t)
    \/ \E m \in net : HandleResponse(m) \/ HandleRequest(m)

Spec == Init /\ [][Next]_vars

-----------------------------------------------------------------------------
(* Properties.                                                               *)

Chunk ==
    [stream : Streams, message : Nat, fragment : Nat \ {0}, eos : BOOLEAN, unordered : BOOLEAN,
     beginning_fragment : BOOLEAN, ending_fragment : BOOLEAN]
ResetRequest ==
    [rsn : Nat, sender_last_tsn : 0 .. Len(assigned), stream_identifiers : SUBSET Streams]

SenderTypes ==
    /\ wrote \in 0 .. Len(Messages) /\ pushing \in [Tasks -> Seq(Chunk)]
    /\ uncounted \subseteq Tasks /\ closed \subseteq Streams
    /\ unordered_queue \in Seq(Chunk) /\ ordered_queue \in Seq(Chunk) /\ queue_len \in Int
    /\ selected \in BOOLEAN /\ unordered_is_selected \in BOOLEAN
    /\ awake \in BOOLEAN /\ probing \in BOOLEAN
    /\ loop \in {"wait", "peek", "ordered", "pop", "reconfig"}
    /\ sis_to_reset \subseteq Streams
    /\ assigned \in Seq(Chunk) /\ inflight \subseteq 1 .. Len(assigned)

ReceiverTypes ==
    /\ requests \subseteq ResetRequest /\ reconfigs \subseteq requests /\ my_next_rsn \in Nat
    /\ will_retransmit_reconfig \in BOOLEAN /\ treconfig \in BOOLEAN /\ expired \in BOOLEAN
    /\ net \subseteq {Request(r) : r \in requests} \cup [type : {"RESPONSE"}, rsn : Nat]
    /\ peer_last_tsn \in 0 .. Len(assigned) /\ payload_queue \subseteq 1 .. Len(assigned)
    /\ streams \subseteq Streams /\ reconfig_requests \subseteq requests
    /\ passed \subseteq 1 .. Len(assigned) /\ skipped \subseteq 1 .. Len(assigned)

TypeOK == SenderTypes /\ ReceiverTypes

(* queue_len is the length of both queues but for the chunks that are pushed *)
(* and not counted, so it may be below zero for a moment.                    *)
QueueAccounted ==
    queue_len + Cardinality(uncounted) = Len(unordered_queue) + Len(ordered_queue)

(* The fragments of a message have consecutive TSNs, though they are pushed  *)
(* one by one while the write loop pops and other tasks push.                *)
FragmentsConsecutive ==
    \A t \in DOMAIN assigned :
        assigned[t].fragment > 1 =>
            /\ t > 1
            /\ assigned[t - 1].message = assigned[t].message
            /\ assigned[t - 1].fragment = assigned[t].fragment - 1

(* No chunk is left to a write loop that nothing will wake: with no token in *)
(* the channel and no push under way, something is in flight, and the SACK   *)
(* or the time-out that ends it wakes the loop again.                        *)
NoChunkAsleep ==
    loop = "wait" /\ ~awake /\ (\A t \in Tasks : pushing[t] = <<>>) =>
        \/ unordered_queue = <<>> /\ ordered_queue = <<>>
        \/ inflight # {}

(* A stream is reset only when each of its chunks sent before the request    *)
(* was passed to it or skipped by a FORWARD-TSN, in whatever order chunks    *)
(* and request came.                                                         *)
ResetAfterData ==
    \A r \in requests : \A s \in r.stream_identifiers \ streams :
        \A t \in 1 .. r.sender_last_tsn :
            assigned[t].stream = s => t \in passed \cup skipped

(* A request is not lost with a packet or a response: its streams are reset, *)
(* or the peer keeps it, or it is repeated.                                  *)
RequestNotForgotten ==
    \A r \in requests :
        \/ r.stream_identifiers \cap streams = {}
        \/ r \in reconfig_requests
        \/ r \in reconfigs /\ treconfig

(* The timer does not go on without a request.                               *)
TimerEnds == treconfig => reconfigs # {}

(* Requests, their repetition and their timer agree, over answers that are   *)
(* lost, doubled or late.                                                    *)
ResetInv == TypeOK /\ QueueAccounted /\ RequestNotForgotten /\ TimerEnds

(* A request waits only for chunks that are missing: one that could be       *)
(* performed is left over only after a FORWARD-TSN made up for them.         *)
WaitsForMissing ==
    \A r \in reconfig_requests :
        r.sender_last_tsn > peer_last_tsn
        \/ \E t \in skipped : t <= r.sender_last_tsn
=============================================================================
