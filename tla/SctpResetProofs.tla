-------------------------- MODULE SctpResetProofs --------------------------
(***************************************************************************)
(* Theorems about SctpReset, for every set of streams, every sequence of   *)
(* messages and every window.  The inductive invariant has three layers:   *)
(* SenderInv about the tasks, the pending queue and the write loop; OneEnd *)
(* about where the end of a stream is; and PeerInv about the other end and *)
(* the requests.  Each layer uses the ones before it.                      *)
(***************************************************************************)
EXTENDS SctpReset, FiniteSetTheorems, SequenceTheorems, TLAPS

-----------------------------------------------------------------------------
(* The sender.                                                               *)

(* A chunk is marked as what its number in its message says, and only a      *)
(* chunk of an unordered message is one of several.                          *)
Shaped(c) ==
    /\ c.beginning_fragment <=> c.fragment = 1
    /\ IF c.unordered THEN ~c.eos ELSE c.fragment = 1 /\ c.ending_fragment

(* What tasks push: one end of its stream for each close, and the rest of    *)
(* one message.                                                              *)
Pushes ==
    /\ \A s \in Streams : pushing[s] \in {<<>>, <<EndOfStream(s)>>}
    /\ \A s \in Streams \ closed : pushing[s] = <<>>
    /\ \A t \in uncounted : pushing[t] # <<>>
    /\ IsFiniteSet(uncounted)
    /\ \A i \in DOMAIN pushing[Writer] :
          /\ Shaped(pushing[Writer][i]) /\ ~pushing[Writer][i].eos
          /\ pushing[Writer][i].unordered = pushing[Writer][1].unordered

QueuesShaped ==
    /\ \A i \in DOMAIN unordered_queue :
          Shaped(unordered_queue[i]) /\ unordered_queue[i].unordered
    /\ \A i \in DOMAIN ordered_queue :
          Shaped(ordered_queue[i]) /\ ~ordered_queue[i].unordered

(* The queue that pop takes from holds the chunk that peek returned.         *)
TakesUnordered == IF selected THEN unordered_is_selected ELSE peeked.unordered
PopsPeeked ==
    /\ loop = "pop" =>
          IF TakesUnordered THEN unordered_queue # <<>> /\ peeked = Head(unordered_queue)
                            ELSE ordered_queue # <<>> /\ peeked = Head(ordered_queue)
    /\ loop = "ordered" => ~selected

(* The unordered chunks that are queued or still to be pushed.               *)
Coming ==
    IF pushing[Writer] # <<>> /\ pushing[Writer][1].unordered
      THEN IF Writer \in uncounted THEN Tail(pushing[Writer]) ELSE pushing[Writer]
      ELSE <<>>
Pending == unordered_queue \o Coming

(* d comes after c: the next fragment, or the first of another message.      *)
Linked(c, d) ==
    IF c.ending_fragment THEN d.fragment = 1
                         ELSE d.message = c.message /\ d.fragment = c.fragment + 1
Chained(p) ==
    /\ \A i \in 1 .. Len(p) - 1 : Linked(p[i], p[i + 1])
    /\ p # <<>> => p[Len(p)].ending_fragment

(* The pending unordered chunks are whole messages, but for the fragments of *)
(* the first that have been sent, and then the queue is selected.            *)
PendingInv ==
    /\ Chained(Pending)
    /\ ~selected /\ Pending # <<>> => Pending[1].fragment = 1
    /\ selected => /\ unordered_is_selected /\ assigned # <<>> /\ Pending # <<>>
                   /\ ~assigned[Len(assigned)].ending_fragment
                   /\ Linked(assigned[Len(assigned)], Pending[1])

(* Somebody will wake the write loop.                                        *)
Busy == awake \/ \E t \in Tasks : pushing[t] # <<>>
LoopLeavesNothing ==
    /\ loop \in {"wait", "reconfig"} =>
          \/ Busy
          \/ unordered_queue = <<>> /\ ordered_queue = <<>>
          \/ inflight # {}
    /\ loop = "ordered" => Busy \/ unordered_queue = <<>>

SenderInv ==
    /\ SenderTypes /\ Pushes /\ QueuesShaped /\ QueueAccounted /\ PopsPeeked
    /\ PendingInv /\ FragmentsConsecutive /\ LoopLeavesNothing

-----------------------------------------------------------------------------
(* The end of a stream.                                                      *)

Unpushed(s) == s \notin closed \/ (pushing[s] # <<>> /\ s \notin uncounted)
IsEnd(i, s) == i \in DOMAIN ordered_queue /\ ordered_queue[i].eos /\ ordered_queue[i].stream = s
Queued(s) == \E i \in DOMAIN ordered_queue : IsEnd(i, s)

(* The end of a stream is at one place: not pushed, in the queue, looked at, *)
(* taken by the write loop, or in one request.                               *)
OneEnd(s) ==
    /\ Unpushed(s) => ~Queued(s) /\ s \notin sis_to_reset
    /\ \A i, j \in DOMAIN ordered_queue : IsEnd(i, s) /\ IsEnd(j, s) => i = j
    /\ Queued(s) /\ s \in sis_to_reset =>
          loop = "pop" /\ ~TakesUnordered /\ IsEnd(1, s)
    /\ \A r \in requests : s \in r.stream_identifiers =>
          ~Unpushed(s) /\ ~Queued(s) /\ s \notin sis_to_reset

EndsInv ==
    /\ \A s \in Streams : OneEnd(s)
    /\ \A r \in requests : r.stream_identifiers \subseteq Streams
    /\ \A q, r \in requests : q.stream_identifiers \cap r.stream_identifiers # {} => q = r

-----------------------------------------------------------------------------
(* The other end.                                                            *)

(* What was passed or skipped is what peer_last_tsn and payload_queue say.   *)
Received ==
    /\ 1 .. peer_last_tsn \subseteq passed \cup skipped
    /\ payload_queue \subseteq passed
    /\ passed \subseteq 1 .. peer_last_tsn \cup payload_queue
    /\ \A t \in payload_queue : t > peer_last_tsn + 1

(* A request is known by its number.                                         *)
Numbered ==
    /\ \A r \in requests : r.rsn < my_next_rsn
    /\ \A q, r \in requests : q.rsn = r.rsn => q = r
    /\ \A m \in net : m.type = "RESPONSE" => m.rsn < my_next_rsn

(* A request that is answered is performed, or the peer keeps it.            *)
Answered ==
    \A r \in requests :
        Response(r) \in net =>
            r.stream_identifiers \cap streams = {} \/ r \in reconfig_requests

(* A stream that is gone was asked for, by a request that was due.           *)
GoneWasAsked ==
    \A s \in Streams \ streams :
        \E r \in requests : s \in r.stream_identifiers /\ r.sender_last_tsn <= peer_last_tsn

PeerInv ==
    /\ ReceiverTypes /\ Received /\ Numbered /\ Answered /\ GoneWasAsked
    /\ RequestNotForgotten /\ TimerEnds /\ WaitsForMissing

-----------------------------------------------------------------------------
(* Sequences.                                                                *)

(* Only the empty sequence has length zero.                                  *)
LEMMA EmptyLen ==
    ASSUME NEW S, NEW u \in Seq(S)
    PROVE  Len(u) \in Nat /\ (u = <<>> <=> Len(u) = 0)
BY LenProperties, EmptySeq

(* A chunk that moves from what is to come to the queue leaves both together *)
(* as they were.                                                             *)
LEMMA MoveHead ==
    ASSUME NEW S, NEW u \in Seq(S), NEW w \in Seq(S), w # <<>>
    PROVE  Append(u, Head(w)) \o Tail(w) = u \o w
<1>1. Tail(w) \in Seq(S) /\ Head(w) \in S /\ Len(Tail(w)) = Len(w) - 1
  BY HeadTailProperties
<1>2. Append(u, Head(w)) \in Seq(S) /\ Len(Append(u, Head(w))) = Len(u) + 1
  BY <1>1, AppendProperties
<1> DEFINE l == Append(u, Head(w)) \o Tail(w)
           r == u \o w
<1>3. l \in Seq(S) /\ Len(l) = Len(u) + Len(w)
  BY <1>1, <1>2, ConcatProperties, LenProperties
<1>4. r \in Seq(S) /\ Len(r) = Len(u) + Len(w)
  BY ConcatProperties
<1>5. ASSUME NEW i \in 1 .. Len(u) + Len(w) PROVE l[i] = r[i]
  <2>0. Len(u) \in Nat /\ Len(w) \in Nat
    BY LenProperties
  <2>1. CASE i <= Len(u)
    BY <2>0, <2>1, <1>1, <1>2, ConcatProperties, AppendProperties
  <2>2. CASE i = Len(u) + 1
    BY <2>0, <2>2, <1>1, <1>2, ConcatProperties, AppendProperties, HeadTailProperties
  <2>3. CASE i > Len(u) + 1
    <3>1. l[i] = Tail(w)[i - (Len(u) + 1)]
      BY <2>0, <2>3, <1>1, <1>2, ConcatProperties
    <3>2. Tail(w)[i - (Len(u) + 1)] = w[i - Len(u)]
      BY <2>0, <2>3, <1>1
    <3>3. r[i] = w[i - Len(u)]
      BY <2>0, <2>3, ConcatProperties
    <3> QED
      BY <3>1, <3>2, <3>3
  <2> QED
    BY <2>0, <2>1, <2>2, <2>3
<1> HIDE DEF l, r
<1>6. l = r
  BY <1>3, <1>4, <1>5, SeqEqual
<1> QED
  BY <1>6 DEF l, r

(* The tail of a concatenation.                                              *)
LEMMA TailOfConcat ==
    ASSUME NEW S, NEW u \in Seq(S), NEW w \in Seq(S), u # <<>>
    PROVE  Tail(u \o w) = Tail(u) \o w
<1>0. Len(u) \in Nat /\ Len(w) \in Nat /\ Len(u) # 0
  BY LenProperties, EmptySeq
<1>1. Tail(u) \in Seq(S) /\ Len(Tail(u)) = Len(u) - 1
  BY HeadTailProperties
<1>2. u \o w \in Seq(S) /\ Len(u \o w) = Len(u) + Len(w)
  BY ConcatProperties
<1>3. u \o w # <<>>
  BY <1>0, <1>2, EmptySeq
<1> DEFINE l == Tail(u \o w)
           r == Tail(u) \o w
<1>4. l \in Seq(S) /\ Len(l) = Len(u) + Len(w) - 1
  BY <1>2, <1>3, HeadTailProperties
<1>5. r \in Seq(S) /\ Len(r) = Len(u) + Len(w) - 1
  BY <1>0, <1>1, ConcatProperties
<1>6. ASSUME NEW i \in 1 .. Len(u) + Len(w) - 1 PROVE l[i] = r[i]
  <2>1. l[i] = (u \o w)[i + 1]
    BY <1>0, <1>2, <1>3, HeadTailProperties
  <2>2. CASE i <= Len(u) - 1
    <3>1. r[i] = Tail(u)[i] /\ Tail(u)[i] = u[i + 1] /\ (u \o w)[i + 1] = u[i + 1]
      BY <2>2, <1>0, <1>1, ConcatProperties, HeadTailProperties
    <3> QED
      BY <2>1, <3>1
  <2>3. CASE i > Len(u) - 1
    <3>1. r[i] = w[i - (Len(u) - 1)]
      BY <2>3, <1>0, <1>1, ConcatProperties
    <3>2. (u \o w)[i + 1] = w[i + 1 - Len(u)]
      BY <2>3, <1>0, ConcatProperties
    <3> QED
      BY <2>1, <3>1, <3>2, <1>0
  <2> QED
    BY <1>0, <2>2, <2>3
<1> HIDE DEF l, r
<1>7. l = r
  BY <1>0, <1>4, <1>5, <1>6, SeqEqual
<1> QED
  BY <1>7 DEF l, r

-----------------------------------------------------------------------------
(* Chains of fragments.                                                      *)

(* What follows the first chunk is chained and continues its message.        *)
LEMMA ChainedTail ==
    ASSUME NEW S, NEW p \in Seq(S), p # <<>>, Chained(p)
    PROVE  /\ Chained(Tail(p))
           /\ Tail(p) = <<>> => p[1].ending_fragment
           /\ Tail(p) # <<>> => Linked(p[1], Tail(p)[1])
<1>0. Len(p) \in Nat /\ Len(p) # 0
  BY LenProperties, EmptySeq
<1>1. Tail(p) \in Seq(S) /\ Len(Tail(p)) = Len(p) - 1
  BY HeadTailProperties
<1>2. \A i \in 1 .. Len(p) - 1 : Tail(p)[i] = p[i + 1]
  BY <1>0, HeadTailProperties
<1>3. Tail(p) = <<>> <=> Len(p) = 1
  BY <1>0, <1>1, EmptyLen
<1>4. \A i \in 1 .. Len(Tail(p)) - 1 : Linked(Tail(p)[i], Tail(p)[i + 1])
  <2> TAKE i \in 1 .. Len(Tail(p)) - 1
  <2>1. i \in 1 .. Len(p) - 1 /\ i + 1 \in 1 .. Len(p) - 1
    BY <1>0, <1>1
  <2>2. Linked(p[i + 1], p[(i + 1) + 1])
    BY <2>1 DEF Chained
  <2> QED
    BY <2>1, <2>2, <1>2
<1>5. Tail(p) # <<>> => Tail(p)[Len(Tail(p))].ending_fragment
  <2>1. ASSUME Tail(p) # <<>> PROVE Len(p) - 1 \in 1 .. Len(p) - 1 /\ Len(p) - 1 + 1 = Len(p)
    BY <2>1, <1>0, <1>3
  <2> QED
    BY <2>1, <1>1, <1>2 DEF Chained
<1>6. Tail(p) # <<>> => Linked(p[1], Tail(p)[1])
  <2>1. ASSUME Tail(p) # <<>> PROVE 1 \in 1 .. Len(p) - 1
    BY <2>1, <1>0, <1>3
  <2> QED
    BY <2>1, <1>2 DEF Chained
<1>7. Tail(p) = <<>> => p[1].ending_fragment
  BY <1>3 DEF Chained
<1> QED
  BY <1>4, <1>5, <1>6, <1>7 DEF Chained

(* A message can follow what is chained.                                     *)
LEMMA ChainedConcat ==
    ASSUME NEW S, NEW p \in Seq(S), NEW q \in Seq(S), Chained(p), Chained(q),
           q # <<>>, q[1].fragment = 1
    PROVE  Chained(p \o q) /\ p \o q # <<>> /\ (p \o q)[1] = IF p = <<>> THEN q[1] ELSE p[1]
<1>0. Len(p) \in Nat /\ Len(q) \in Nat /\ Len(q) # 0 /\ (p = <<>> <=> Len(p) = 0)
  BY LenProperties, EmptySeq
<1> DEFINE r == p \o q
<1>1. r \in Seq(S) /\ Len(r) = Len(p) + Len(q)
  BY ConcatProperties
<1>2. \A i \in 1 .. Len(p) + Len(q) : r[i] = IF i <= Len(p) THEN p[i] ELSE q[i - Len(p)]
  BY ConcatProperties
<1> HIDE DEF r
<1>3. r # <<>>
  BY <1>0, <1>1, EmptySeq
<1>4. r[1] = IF p = <<>> THEN q[1] ELSE p[1]
  BY <1>0, <1>2
<1>5. ASSUME NEW i \in 1 .. Len(r) - 1 PROVE Linked(r[i], r[i + 1])
  <2>1. CASE i < Len(p)
    <3>1. r[i] = p[i] /\ r[i + 1] = p[i + 1] /\ i \in 1 .. Len(p) - 1
      BY <2>1, <1>0, <1>1, <1>2
    <3> QED
      BY <3>1 DEF Chained
  <2>2. CASE i = Len(p)
    <3>1. r[i] = p[Len(p)] /\ r[i + 1] = q[1] /\ p # <<>>
      BY <2>2, <1>0, <1>1, <1>2
    <3>2. p[Len(p)].ending_fragment
      BY <3>1 DEF Chained
    <3> QED
      BY <3>1, <3>2 DEF Linked
  <2>3. CASE i > Len(p)
    <3>1. r[i] = q[i - Len(p)] /\ r[i + 1] = q[i - Len(p) + 1] /\ i - Len(p) \in 1 .. Len(q) - 1
      BY <2>3, <1>0, <1>1, <1>2
    <3> QED
      BY <3>1 DEF Chained
  <2> QED
    BY <1>0, <1>1, <2>1, <2>2, <2>3
<1>6. r[Len(r)].ending_fragment
  <2>1. r[Len(r)] = q[Len(q)]
    BY <1>0, <1>1, <1>2
  <2> QED
    BY <2>1 DEF Chained
<1>7. Chained(r)
  BY <1>5, <1>6 DEF Chained
<1> QED
  BY <1>3, <1>4, <1>7 DEF r

(* What packetize makes of a message.                                        *)
LEMMA PacketizeSpec ==
    ASSUME NEW i \in DOMAIN Messages
    PROVE  /\ Packetize(i) \in Seq(Chunk) /\ Packetize(i) # <<>>
           /\ Len(Packetize(i)) = Messages[i].fragments
           /\ Chained(Packetize(i))
           /\ Packetize(i)[1].fragment = 1
           /\ \A f \in DOMAIN Packetize(i) :
                 /\ Shaped(Packetize(i)[f]) /\ ~Packetize(i)[f].eos
                 /\ Packetize(i)[f].unordered = Packetize(i)[1].unordered
<1> DEFINE n == Messages[i].fragments
           p == Packetize(i)
           c(f) == [stream |-> Messages[i].stream, message |-> i, fragment |-> f, eos |-> FALSE,
                    unordered |-> ~Messages[i].dcep, beginning_fragment |-> f = 1,
                    ending_fragment |-> f = n]
<1>1. /\ i \in Nat /\ n \in Nat \ {0} /\ Messages[i].stream \in Streams
      /\ Messages[i].dcep \in BOOLEAN /\ (Messages[i].dcep => n = 1)
  <2> DEFINE M == [stream : Streams, fragments : Nat \ {0}, dcep : BOOLEAN]
  <2>1. Messages \in Seq(M)
    BY ResetAssumption
  <2>2. Len(Messages) \in Nat /\ DOMAIN Messages = 1 .. Len(Messages)
    BY <2>1, LenProperties
  <2>3. Messages[i] \in M
    BY <2>1, <2>2, ElementOfSeq
  <2>4. Messages[i].dcep => n = 1
    BY ResetAssumption
  <2> QED
    BY <2>2, <2>3, <2>4
<1>2. p = [f \in 1 .. n |-> c(f)]
  BY DEF Packetize
<1>3. \A f \in 1 .. n : c(f) \in Chunk
  BY <1>1 DEF Chunk
<1> HIDE DEF n
<1>4. p \in Seq(Chunk) /\ Len(p) = n
  BY <1>1, <1>2, <1>3, IsASeq, LenProperties
<1>5. DOMAIN p = 1 .. n /\ \A f \in 1 .. n : p[f] = c(f)
  BY <1>2
<1> HIDE DEF p
<1>6. p # <<>>
  BY <1>1, <1>4, EmptySeq
<1>7. \A f \in 1 .. n : /\ p[f].fragment = f /\ p[f].message = i /\ ~p[f].eos
                        /\ p[f].unordered = ~Messages[i].dcep
                        /\ (p[f].beginning_fragment <=> f = 1)
                        /\ (p[f].ending_fragment <=> f = n)
  <2> TAKE f \in 1 .. n
  <2>1. p[f] = c(f)
    BY <1>5
  <2>2. p[f].fragment = f /\ p[f].message = i
    BY <2>1
  <2>3. p[f].eos = FALSE
    BY <2>1
  <2>4. p[f].unordered = ~Messages[i].dcep
    BY <2>1
  <2>5. p[f].beginning_fragment = (f = 1)
    BY <2>1
  <2>6. p[f].ending_fragment = (f = n)
    BY <2>1
  <2> QED
    BY <2>2, <2>3, <2>4, <2>5, <2>6, Zenon
<1>8. Chained(p)
  <2>1. ASSUME NEW f \in 1 .. Len(p) - 1 PROVE Linked(p[f], p[f + 1])
    BY <1>1, <1>4, <1>7 DEF Linked
  <2>2. p[Len(p)].ending_fragment
    BY <1>1, <1>4, <1>7
  <2> QED
    BY <2>1, <2>2 DEF Chained
<1>9. ASSUME NEW f \in 1 .. n PROVE Shaped(p[f])
  <2>1. p[f].fragment = f /\ (p[f].beginning_fragment <=> f = 1) /\ ~p[f].eos
    BY <1>7
  <2>2. ~p[f].unordered => n = 1
    <3>1. p[f].unordered = ~Messages[i].dcep
      BY <1>7
    <3> QED
      BY <1>1, <3>1, Zenon
  <2>3. n = 1 => f = 1 /\ p[f].ending_fragment
    <3>1. n = 1 => f = 1
      OBVIOUS
    <3> QED
      BY <1>7, <3>1, Zenon
  <2> QED
    BY <2>1, <2>2, <2>3, Zenon DEF Shaped
<1>10. 1 \in 1 .. n
  BY <1>1
<1> QED
  BY <1>4, <1>5, <1>6, <1>7, <1>8, <1>9, <1>10 DEF p, n

-----------------------------------------------------------------------------
(* Steps of the sender.                                                      *)

SenderQuiet == UNCHANGED <<taskVars, queueVars, awake, loopVars, sendVars>>

(* A step changes nothing of the sender or is one of its actions.            *)
LEMMA SenderCases ==
    ASSUME [Next]_vars
    PROVE  \/ SenderQuiet \/ WriteSctp
           \/ \E s \in Streams : Close(s)
           \/ \E t \in Tasks : PushBack(t)
           \/ \E t \in Tasks : Count(t)
           \/ Wake \/ Peek \/ PeekOrdered \/ Pop \/ GatherReconfig \/ OnReconfigTimeout \/ HandleSack
<1>1. CASE UNCHANGED vars
  BY <1>1 DEF vars, SenderQuiet
<1>2. ASSUME NEW t \in DOMAIN assigned, HandleData(t) \/ HandleForwardTsn(t) PROVE SenderQuiet
  BY <1>2 DEF HandleData, HandleForwardTsn, SenderQuiet
<1>3. ASSUME NEW m \in net, HandleResponse(m) \/ HandleRequest(m) PROVE SenderQuiet
  BY <1>3 DEF HandleResponse, HandleRequest, SenderQuiet
<1> QED
  BY <1>1, <1>2, <1>3 DEF Next

(* A step of the other end leaves the sender as it is.                       *)
LEMMA QuietSender ==
    ASSUME SenderInv, SenderQuiet
    PROVE  SenderInv'
<1> USE DEF SenderQuiet, taskVars, queueVars, loopVars, sendVars
<1>1. SenderTypes' /\ QueuesShaped' /\ QueueAccounted' /\ FragmentsConsecutive'
  BY DEF SenderInv, SenderTypes, QueuesShaped, QueueAccounted, FragmentsConsecutive
<1>2. Pushes'
  BY DEF SenderInv, Pushes
<1>3. PopsPeeked'
  BY DEF SenderInv, PopsPeeked, TakesUnordered
<1>4. PendingInv'
  BY DEF SenderInv, PendingInv, Pending, Coming
<1>5. LoopLeavesNothing'
  BY DEF SenderInv, LoopLeavesNothing, Busy
<1> QED
  BY <1>1, <1>2, <1>3, <1>4, <1>5 DEF SenderInv

(* The end of a stream is an ordered chunk of its own.                       *)
LEMMA EndOfStreamSpec ==
    ASSUME NEW s \in Streams
    PROVE  /\ EndOfStream(s) \in Chunk /\ Shaped(EndOfStream(s)) /\ ~EndOfStream(s).unordered
           /\ EndOfStream(s).eos /\ EndOfStream(s).stream = s
BY DEF EndOfStream, Chunk, Shaped

(* The tasks that push are the writer and one closer for each stream.        *)
LEMMA TasksSpec == Writer \in Tasks /\ Streams \subseteq Tasks /\ Writer \notin Streams
BY ResetAssumption DEF Tasks

(* Chunks that are to come are chunks.                                       *)
LEMMA ComingIsSeq ==
    ASSUME SenderTypes
    PROVE  Coming \in Seq(Chunk) /\ Pending \in Seq(Chunk) /\ unordered_queue \in Seq(Chunk)
<1>1. pushing[Writer] \in Seq(Chunk) /\ unordered_queue \in Seq(Chunk)
  BY TasksSpec DEF SenderTypes
<1>2. pushing[Writer] # <<>> => Tail(pushing[Writer]) \in Seq(Chunk)
  BY <1>1, HeadTailProperties
<1>3. Coming \in Seq(Chunk)
  BY <1>1, <1>2, EmptySeq DEF Coming
<1> QED
  BY <1>1, <1>3, ConcatProperties DEF Pending

(* The first chunk that is pending is the first in the queue.                *)
LEMMA FirstPending ==
    ASSUME NEW S, NEW u \in Seq(S), NEW w \in Seq(S), u # <<>>
    PROVE  u \o w # <<>> /\ (u \o w)[1] = u[1]
<1>1. Len(u) \in Nat /\ Len(u) # 0 /\ Len(w) \in Nat
  BY EmptyLen
<1>2. Len(u \o w) # 0 /\ u \o w \in Seq(S)
  BY <1>1, ConcatProperties
<1> QED
  BY <1>1, <1>2, ConcatProperties, EmptyLen

(* write_sctp: the fragments of one message are to be pushed, behind no      *)
(* others.                                                                   *)
LEMMA WriteStep ==
    ASSUME SenderInv, WriteSctp
    PROVE  SenderInv'
<1> DEFINE p == Packetize(wrote + 1)
<1>0. UNCHANGED <<uncounted, closed, queueVars, awake, loopVars, sendVars>>
  BY DEF WriteSctp
<1>1. /\ wrote' = wrote + 1 /\ pushing' = [pushing EXCEPT ![Writer] = p]
      /\ pushing[Writer] = <<>> /\ wrote + 1 \in DOMAIN Messages /\ wrote' \in 0 .. Len(Messages)
  <2>1. Len(Messages) \in Nat /\ DOMAIN Messages = 1 .. Len(Messages)
    BY ResetAssumption, LenProperties
  <2> QED
    BY <2>1 DEF WriteSctp, SenderInv, SenderTypes
<1>2. /\ p \in Seq(Chunk) /\ p # <<>> /\ Chained(p) /\ p[1].fragment = 1
      /\ \A f \in DOMAIN p : Shaped(p[f]) /\ ~p[f].eos /\ p[f].unordered = p[1].unordered
  BY <1>1, PacketizeSpec
<1> HIDE DEF p
<1>3. pushing \in [Tasks -> Seq(Chunk)] /\ pushing'[Writer] = p
  BY <1>1, TasksSpec DEF SenderInv, SenderTypes
<1>4. \A s \in Streams : pushing'[s] = pushing[s]
  BY <1>1, <1>3, TasksSpec
<1>5. pushing' \in [Tasks -> Seq(Chunk)]
  BY <1>1, <1>2, <1>3
<1>6. SenderTypes'
  BY <1>0, <1>1, <1>5 DEF SenderInv, SenderTypes, queueVars, loopVars, sendVars
<1>7. Pushes'
  <2>1. \A t \in uncounted : pushing'[t] # <<>>
    BY <1>1, <1>2, <1>3 DEF SenderInv, Pushes, SenderTypes
  <2> QED
    BY <1>0, <1>2, <1>3, <1>4, <2>1 DEF SenderInv, Pushes
<1>8. QueuesShaped' /\ QueueAccounted' /\ FragmentsConsecutive' /\ PopsPeeked'
  BY <1>0 DEF SenderInv, QueuesShaped, QueueAccounted, FragmentsConsecutive, PopsPeeked,
     TakesUnordered, queueVars, loopVars, sendVars
<1>9. PendingInv'
  <2>1. Coming = <<>>
    BY <1>1 DEF Coming
  <2>2. Writer \notin uncounted
    BY <1>1 DEF SenderInv, Pushes
  <2>3. Coming' = IF p[1].unordered THEN p ELSE <<>>
    BY <1>0, <1>2, <1>3, <2>2 DEF Coming
  <2>4. unordered_queue \in Seq(Chunk) /\ Pending = unordered_queue
    BY <2>1, ConcatEmptySeq DEF Pending, SenderInv, SenderTypes
  <2>5. Pending' = IF p[1].unordered THEN Pending \o p ELSE Pending
    <3>1. unordered_queue' = unordered_queue
      BY <1>0 DEF queueVars
    <3> QED
      BY <2>3, <2>4, <3>1, ConcatEmptySeq DEF Pending
  <2>6. Chained(Pending) /\ Pending \in Seq(Chunk)
    BY <2>4 DEF SenderInv, PendingInv
  <2>7. Chained(Pending') /\ (Pending # <<>> => Pending' # <<>> /\ Pending'[1] = Pending[1])
        /\ (Pending = <<>> /\ Pending' # <<>> => Pending'[1].fragment = 1)
    <3> HIDE DEF Pending
    <3>1. CASE p[1].unordered
      <4>1. Pending' = Pending \o p
        BY <2>5, <3>1
      <4>2. Chained(Pending \o p) /\ Pending \o p # <<>>
            /\ (Pending \o p)[1] = IF Pending = <<>> THEN p[1] ELSE Pending[1]
        BY <1>2, <2>6, ChainedConcat
      <4> QED
        BY <1>2, <4>1, <4>2
    <3>2. CASE ~p[1].unordered
      BY <2>5, <2>6, <3>2
    <3> QED
      BY <3>1, <3>2
  <2>8. UNCHANGED <<selected, unordered_is_selected, assigned>>
    BY <1>0 DEF queueVars, sendVars
  <2> QED
    BY <2>7, <2>8 DEF SenderInv, PendingInv
<1>10. LoopLeavesNothing'
  <2>1. Busy'
    BY <1>2, <1>3, TasksSpec DEF Busy
  <2> QED
    BY <2>1 DEF LoopLeavesNothing
<1> QED
  BY <1>6, <1>7, <1>8, <1>9, <1>10 DEF SenderInv

(* close: the end of the stream is to be pushed, once.                       *)
LEMMA CloseStep ==
    ASSUME SenderInv, NEW s \in Streams, Close(s)
    PROVE  SenderInv'
<1>0. UNCHANGED <<wrote, uncounted, queueVars, awake, loopVars, sendVars>>
  BY DEF Close
<1>1. /\ closed' = closed \cup {s} /\ s \notin closed
      /\ pushing' = [pushing EXCEPT ![s] = <<EndOfStream(s)>>]
  BY DEF Close
<1>2. pushing \in [Tasks -> Seq(Chunk)]
  BY DEF SenderInv, SenderTypes
<1>3. /\ pushing'[s] = <<EndOfStream(s)>> /\ pushing'[Writer] = pushing[Writer]
      /\ \A t \in Tasks \ {s} : pushing'[t] = pushing[t]
  BY <1>1, <1>2, TasksSpec
<1>4. <<EndOfStream(s)>> \in Seq(Chunk) /\ <<EndOfStream(s)>> # <<>>
  BY EndOfStreamSpec
<1>5. pushing' \in [Tasks -> Seq(Chunk)]
  BY <1>1, <1>2, <1>4
<1>6. SenderTypes'
  BY <1>0, <1>1, <1>5 DEF SenderInv, SenderTypes, queueVars, loopVars, sendVars
<1>7. Pushes'
  <2>1. \A t \in uncounted : pushing'[t] # <<>>
    BY <1>3, <1>4 DEF SenderInv, Pushes, SenderTypes
  <2>2. \A t \in Streams : pushing'[t] \in {<<>>, <<EndOfStream(t)>>}
    BY <1>3, TasksSpec DEF SenderInv, Pushes
  <2>3. \A t \in Streams \ closed' : pushing'[t] = <<>>
    BY <1>1, <1>3, TasksSpec DEF SenderInv, Pushes
  <2> QED
    BY <1>0, <1>3, <2>1, <2>2, <2>3 DEF SenderInv, Pushes
<1>8. QueuesShaped' /\ QueueAccounted' /\ FragmentsConsecutive' /\ PopsPeeked'
  BY <1>0 DEF SenderInv, QueuesShaped, QueueAccounted, FragmentsConsecutive, PopsPeeked,
     TakesUnordered, queueVars, loopVars, sendVars
<1>9. PendingInv'
  <2>1. Coming' = Coming
    BY <1>0, <1>3 DEF Coming
  <2> QED
    BY <1>0, <2>1 DEF SenderInv, PendingInv, Pending, queueVars, sendVars
<1>10. LoopLeavesNothing'
  <2>1. Busy'
    BY <1>3, <1>4, TasksSpec DEF Busy
  <2> QED
    BY <2>1 DEF LoopLeavesNothing
<1> QED
  BY <1>6, <1>7, <1>8, <1>9, <1>10 DEF SenderInv

(* What Append returns, index by index.                                      *)
LEMMA AppendSpec ==
    ASSUME NEW S, NEW u \in Seq(S), NEW e \in S
    PROVE  /\ Append(u, e) \in Seq(S) /\ Len(Append(u, e)) = Len(u) + 1 /\ Len(u) \in Nat
           /\ DOMAIN u = 1 .. Len(u) /\ DOMAIN Append(u, e) = 1 .. Len(u) + 1
           /\ \A i \in 1 .. Len(u) : Append(u, e)[i] = u[i]
           /\ Append(u, e)[Len(u) + 1] = e
           /\ u # <<>> => Append(u, e) # <<>> /\ Head(Append(u, e)) = Head(u)
<1>1. Append(u, e) \in Seq(S) /\ Len(Append(u, e)) = Len(u) + 1 /\ Len(u) \in Nat
      /\ \A i \in 1 .. Len(u) : Append(u, e)[i] = u[i]
      /\ Append(u, e)[Len(u) + 1] = e
  BY AppendProperties, LenProperties
<1>2. DOMAIN u = 1 .. Len(u) /\ DOMAIN Append(u, e) = 1 .. Len(u) + 1
  BY <1>1, LenProperties
<1>3. ASSUME u # <<>> PROVE Append(u, e) # <<>> /\ Head(Append(u, e)) = Head(u)
  <2>1. Len(u) # 0
    BY <1>3, EmptyLen
  <2> QED
    BY <1>1, <2>1, EmptyLen
<1> QED
  BY <1>1, <1>2, <1>3

(* What a task is about to push.                                             *)
LEMMA PushedChunk ==
    ASSUME SenderInv, NEW t \in Tasks, pushing[t] # <<>>
    PROVE  /\ pushing[t] \in Seq(Chunk) /\ Head(pushing[t]) = pushing[t][1]
           /\ Head(pushing[t]) \in Chunk /\ Shaped(Head(pushing[t]))
           /\ t \in Streams => /\ Head(pushing[t]) = EndOfStream(t)
                               /\ ~Head(pushing[t]).unordered /\ Len(pushing[t]) = 1
           /\ t = Writer => ~Head(pushing[t]).eos
<1>1. pushing[t] \in Seq(Chunk) /\ Head(pushing[t]) = pushing[t][1]
  BY DEF SenderInv, SenderTypes
<1>2. Head(pushing[t]) \in Chunk /\ 1 \in DOMAIN pushing[t]
  BY <1>1, HeadTailProperties, EmptyLen, LenProperties
<1>3. CASE t \in Streams
  <2>1. pushing[t] = <<EndOfStream(t)>>
    BY <1>3 DEF SenderInv, Pushes
  <2>2. Head(pushing[t]) = EndOfStream(t) /\ Len(pushing[t]) = 1
    BY <2>1
  <2> QED
    BY <1>1, <1>2, <1>3, <2>2, EndOfStreamSpec, TasksSpec
<1>4. CASE t = Writer
  BY <1>1, <1>2, <1>4, TasksSpec DEF SenderInv, Pushes
<1> QED
  BY <1>3, <1>4 DEF Tasks

(* The first half of push: the chunk is in the queue, not counted yet.       *)
LEMMA PushStep ==
    ASSUME SenderInv, NEW t \in Tasks, PushBack(t)
    PROVE  SenderInv'
<1> DEFINE c == Head(pushing[t])
<1>0. /\ UNCHANGED <<wrote, pushing, closed, queue_len, selected, unordered_is_selected, awake,
                      loopVars, sendVars>>
      /\ pushing[t] # <<>> /\ t \notin uncounted /\ uncounted' = uncounted \cup {t}
  BY DEF PushBack
<1>1. /\ c.unordered =>
            unordered_queue' = Append(unordered_queue, c) /\ ordered_queue' = ordered_queue
      /\ ~c.unordered =>
            ordered_queue' = Append(ordered_queue, c) /\ unordered_queue' = unordered_queue
  BY DEF PushBack
<1>2. /\ pushing[t] \in Seq(Chunk) /\ c = pushing[t][1] /\ c \in Chunk /\ Shaped(c)
      /\ t \in Streams => c = EndOfStream(t) /\ ~c.unordered
  BY <1>0, PushedChunk
<1> HIDE DEF c
<1>3. unordered_queue \in Seq(Chunk) /\ ordered_queue \in Seq(Chunk) /\ c.unordered \in BOOLEAN
  BY <1>2 DEF SenderInv, SenderTypes, Chunk
<1>a. Append(unordered_queue, c) \in Seq(Chunk) /\ Append(ordered_queue, c) \in Seq(Chunk)
      /\ Len(Append(unordered_queue, c)) = Len(unordered_queue) + 1
      /\ Len(Append(ordered_queue, c)) = Len(ordered_queue) + 1
      /\ Len(unordered_queue) \in Nat /\ Len(ordered_queue) \in Nat
  BY <1>2, <1>3, AppendSpec
<1>4. unordered_queue' \in Seq(Chunk) /\ ordered_queue' \in Seq(Chunk)
  BY <1>1, <1>3, <1>a, Zenon
<1>5. SenderTypes'
  BY <1>0, <1>4 DEF SenderInv, SenderTypes, loopVars, sendVars
<1>6. Pushes'
  <2>1. IsFiniteSet(uncounted')
    BY <1>0, FS_AddElement DEF SenderInv, Pushes
  <2> QED
    BY <1>0, <2>1 DEF SenderInv, Pushes
<1>7. QueuesShaped'
  <2>1. CASE c.unordered
    <3>1. \A i \in DOMAIN unordered_queue' :
             Shaped(unordered_queue'[i]) /\ unordered_queue'[i].unordered
      <4> TAKE i \in DOMAIN unordered_queue'
      <4>1. \/ i \in DOMAIN unordered_queue /\ unordered_queue'[i] = unordered_queue[i]
            \/ unordered_queue'[i] = c
        BY <1>1, <1>2, <1>3, <2>1, AppendSpec
      <4> QED
        BY <1>2, <2>1, <4>1 DEF SenderInv, QueuesShaped
    <3> QED
      BY <1>1, <2>1, <3>1 DEF SenderInv, QueuesShaped
  <2>2. CASE ~c.unordered
    <3>1. \A i \in DOMAIN ordered_queue' :
             Shaped(ordered_queue'[i]) /\ ~ordered_queue'[i].unordered
      <4> TAKE i \in DOMAIN ordered_queue'
      <4>1. \/ i \in DOMAIN ordered_queue /\ ordered_queue'[i] = ordered_queue[i]
            \/ ordered_queue'[i] = c
        BY <1>1, <1>2, <1>3, <2>2, AppendSpec, SMTT(30)
      <4> QED
        BY <1>2, <2>2, <4>1 DEF SenderInv, QueuesShaped
    <3> QED
      BY <1>1, <2>2, <3>1 DEF SenderInv, QueuesShaped
  <2> QED
    BY <2>1, <2>2
<1>8. QueueAccounted'
  <2>1. Cardinality(uncounted') = Cardinality(uncounted) + 1 /\ Cardinality(uncounted) \in Nat
    BY <1>0, FS_AddElement, FS_CardinalityType DEF SenderInv, Pushes
  <2>2. Len(unordered_queue') + Len(ordered_queue') = Len(unordered_queue) + Len(ordered_queue) + 1
    <3>1. CASE c.unordered
      <4>1. unordered_queue' = Append(unordered_queue, c) /\ ordered_queue' = ordered_queue
        BY <1>1, <3>1
      <4> QED
        BY <1>a, <4>1
    <3>2. CASE ~c.unordered
      <4>1. ordered_queue' = Append(ordered_queue, c) /\ unordered_queue' = unordered_queue
        BY <1>1, <3>2
      <4> QED
        BY <1>a, <4>1
    <3> QED
      BY <3>1, <3>2
  <2>3. queue_len + Cardinality(uncounted) = Len(unordered_queue) + Len(ordered_queue)
        /\ queue_len \in Int /\ queue_len' = queue_len
    BY <1>0 DEF SenderInv, SenderTypes, QueueAccounted
  <2>4. queue_len' + Cardinality(uncounted') = Len(unordered_queue') + Len(ordered_queue')
    BY <1>a, <2>1, <2>2, <2>3
  <2> QED
    BY <2>4 DEF QueueAccounted
<1>9. PopsPeeked'
  <2>1. unordered_queue # <<>> =>
           unordered_queue' # <<>> /\ Head(unordered_queue') = Head(unordered_queue)
    BY <1>1, <1>2, <1>3, AppendSpec
  <2>2. ordered_queue # <<>> =>
           ordered_queue' # <<>> /\ Head(ordered_queue') = Head(ordered_queue)
    BY <1>1, <1>2, <1>3, AppendSpec
  <2>3. TakesUnordered' = TakesUnordered /\ UNCHANGED <<loop, peeked, selected>>
    BY <1>0 DEF TakesUnordered, loopVars
  <2> QED
    BY <2>1, <2>2, <2>3 DEF SenderInv, PopsPeeked
<1>10. PendingInv'
  <2>1. Pending' = Pending
    <3>1. CASE t = Writer /\ c.unordered
      <4>1. Coming = pushing[Writer] /\ Coming' = Tail(pushing[Writer])
        BY <1>0, <1>2, <3>1 DEF Coming
      <4>2. Append(unordered_queue, c) \o Tail(pushing[t]) = unordered_queue \o pushing[t]
        BY <1>0, <1>2, <1>3, MoveHead DEF c
      <4> QED
        BY <1>1, <3>1, <4>1, <4>2 DEF Pending
    <3>2. CASE t = Writer /\ ~c.unordered
      <4>1. Coming = <<>> /\ Coming' = <<>>
        BY <1>0, <1>2, <3>2 DEF Coming
      <4> QED
        BY <1>1, <3>2, <4>1 DEF Pending
    <3>3. CASE t \in Streams
      <4>1. Coming' = Coming
        BY <1>0, <3>3, TasksSpec DEF Coming
      <4> QED
        BY <1>1, <1>2, <3>3, <4>1 DEF Pending
    <3> QED
      BY <3>1, <3>2, <3>3 DEF Tasks
  <2> QED
    BY <1>0, <2>1 DEF SenderInv, PendingInv, sendVars
<1>11. FragmentsConsecutive'
  BY <1>0 DEF SenderInv, FragmentsConsecutive, sendVars
<1>12. LoopLeavesNothing'
  <2>1. Busy'
    BY <1>0 DEF Busy
  <2> QED
    BY <2>1 DEF LoopLeavesNothing
<1> QED
  BY <1>5, <1>6, <1>7, <1>8, <1>9, <1>10, <1>11, <1>12 DEF SenderInv

(* The second half of push: the chunk is counted, and the last one wakes the *)
(* write loop.                                                               *)
LEMMA CountStep ==
    ASSUME SenderInv, NEW t \in Tasks, Count(t)
    PROVE  SenderInv'
<1> DEFINE w == pushing[t]
<1>0. /\ UNCHANGED <<wrote, closed, unordered_queue, ordered_queue, selected,
                      unordered_is_selected, loopVars, sendVars>>
      /\ t \in uncounted /\ uncounted' = uncounted \ {t} /\ queue_len' = queue_len + 1
      /\ pushing' = [pushing EXCEPT ![t] = Tail(w)]
      /\ awake' = (awake \/ Len(w) = 1)
  BY DEF Count, AwakeWriteLoop
<1>1. w # <<>> /\ w \in Seq(Chunk) /\ pushing \in [Tasks -> Seq(Chunk)]
  BY <1>0 DEF SenderInv, SenderTypes, Pushes
<1>2. /\ pushing'[t] = Tail(w) /\ \A u \in Tasks \ {t} : pushing'[u] = pushing[u]
  BY <1>0, <1>1
<1>3. t \in Streams => Len(w) = 1
  BY <1>1, PushedChunk
<1> HIDE DEF w
<1>4. /\ Tail(w) \in Seq(Chunk) /\ Len(Tail(w)) = Len(w) - 1 /\ Len(w) \in Nat \ {0}
      /\ \A i \in 1 .. Len(w) - 1 : Tail(w)[i] = w[i + 1]
      /\ (Tail(w) = <<>> <=> Len(w) = 1)
      /\ DOMAIN w = 1 .. Len(w) /\ DOMAIN Tail(w) = 1 .. Len(w) - 1
  <2>1. Tail(w) \in Seq(Chunk) /\ Len(Tail(w)) = Len(w) - 1
        /\ \A i \in 1 .. Len(Tail(w)) : Tail(w)[i] = w[i + 1]
    BY <1>1, HeadTailProperties
  <2>2. Len(w) \in Nat \ {0}
    BY <1>1, EmptyLen
  <2>4. Tail(w) = <<>> <=> Len(Tail(w)) = 0
    BY <2>1, EmptyLen
  <2>3. DOMAIN w = 1 .. Len(w) /\ DOMAIN Tail(w) = 1 .. Len(Tail(w))
    BY <1>1, <2>1, LenProperties
  <2> QED
    BY <2>1, <2>2, <2>3, <2>4
<1>5. SenderTypes'
  <2>1. pushing' \in [Tasks -> Seq(Chunk)]
    BY <1>0, <1>1, <1>4
  <2>2. awake' \in BOOLEAN
    BY <1>0
  <2> QED
    BY <1>0, <2>1, <2>2 DEF SenderInv, SenderTypes, loopVars, sendVars
<1>6. Pushes'
  <2>1. IsFiniteSet(uncounted')
    BY <1>0, FS_RemoveElement DEF SenderInv, Pushes
  <2>2. \A s \in Streams : pushing'[s] = <<>> \/ pushing'[s] = pushing[s]
    BY <1>2, <1>3, <1>4, TasksSpec
  <2>3. \A u \in uncounted' : pushing'[u] # <<>>
    BY <1>0, <1>2 DEF SenderInv, Pushes, SenderTypes
  <2>4. ASSUME NEW i \in DOMAIN pushing'[Writer]
        PROVE  /\ Shaped(pushing'[Writer][i]) /\ ~pushing'[Writer][i].eos
               /\ pushing'[Writer][i].unordered = pushing'[Writer][1].unordered
    <3>1. CASE t = Writer
      <4>0. Tail(w)[i] = w[i + 1] /\ Tail(w)[1] = w[2]
            /\ i + 1 \in DOMAIN w /\ 2 \in DOMAIN w /\ 1 \in DOMAIN w
        BY <1>2, <1>4, <2>4, <3>1
      <4>1. pushing[Writer] = w /\ pushing'[Writer] = Tail(w)
        BY <3>1, <1>2 DEF w
      <4> QED
        BY <4>0, <4>1 DEF SenderInv, Pushes
    <3>2. CASE t # Writer
      BY <3>2, <1>2, <2>4, TasksSpec DEF SenderInv, Pushes
    <3> QED
      BY <3>1, <3>2
  <2>5. \A s \in Streams : pushing'[s] \in {<<>>, <<EndOfStream(s)>>}
    BY <2>2 DEF SenderInv, Pushes
  <2>6. \A s \in Streams \ closed' : pushing'[s] = <<>>
    BY <1>0, <2>2 DEF SenderInv, Pushes
  <2> QED
    BY <2>1, <2>3, <2>4, <2>5, <2>6 DEF Pushes
<1>7. QueuesShaped'
  BY <1>0 DEF SenderInv, QueuesShaped
<1>8. QueueAccounted'
  <2>1. Cardinality(uncounted') = Cardinality(uncounted) - 1 /\ Cardinality(uncounted) \in Nat
    BY <1>0, FS_RemoveElement, FS_CardinalityType DEF SenderInv, Pushes
  <2>2. Len(unordered_queue) \in Nat /\ Len(ordered_queue) \in Nat
    BY LenProperties DEF SenderInv, SenderTypes
  <2> QED
    BY <1>0, <2>1, <2>2 DEF SenderInv, SenderTypes, QueueAccounted
<1>9. PopsPeeked'
  BY <1>0 DEF SenderInv, PopsPeeked, TakesUnordered, loopVars
<1>10. PendingInv'
  <2>1. Coming' = Coming
    <3>1. CASE t = Writer
      <4>1. pushing[Writer] = w /\ pushing'[Writer] = Tail(w) /\ Writer \in uncounted
            /\ Writer \notin uncounted'
        BY <1>0, <1>2, <3>1 DEF w
      <4>2. Coming = IF w[1].unordered THEN Tail(w) ELSE <<>>
        BY <1>1, <4>1 DEF Coming
      <4>3. Coming' = IF Tail(w) # <<>> /\ Tail(w)[1].unordered THEN Tail(w) ELSE <<>>
        BY <4>1 DEF Coming
      <4>4. Tail(w) # <<>> => Tail(w)[1].unordered = w[1].unordered
        <5>1. Tail(w) # <<>> => Tail(w)[1] = w[2] /\ 2 \in DOMAIN w
          BY <1>4
        <5> QED
          BY <4>1, <5>1 DEF SenderInv, Pushes
      <4> QED
        BY <4>2, <4>3, <4>4
    <3>2. CASE t # Writer
      BY <1>0, <1>2, <3>2, TasksSpec DEF Coming
    <3> QED
      BY <3>1, <3>2
  <2> QED
    BY <1>0, <2>1 DEF SenderInv, PendingInv, Pending, sendVars
<1>11. FragmentsConsecutive'
  BY <1>0 DEF SenderInv, FragmentsConsecutive, sendVars
<1>12. LoopLeavesNothing'
  <2>1. Busy'
    <3>1. CASE Len(w) = 1
      BY <1>0, <3>1 DEF Busy
    <3>2. CASE Len(w) # 1
      BY <1>2, <1>4, <3>2 DEF Busy
    <3> QED
      BY <3>1, <3>2
  <2> QED
    BY <2>1 DEF LoopLeavesNothing
<1> QED
  BY <1>5, <1>6, <1>7, <1>8, <1>9, <1>10, <1>11, <1>12 DEF SenderInv

(* A step that pushes and pops nothing has only to place the write loop.     *)
LEMMA PlaceLoop ==
    ASSUME SenderInv, UNCHANGED <<taskVars, queueVars, assigned>>,
           awake' \in BOOLEAN, probing' \in BOOLEAN,
           loop' \in {"wait", "peek", "ordered", "pop", "reconfig"},
           sis_to_reset' \subseteq Streams, inflight' \subseteq 1 .. Len(assigned),
           PopsPeeked', LoopLeavesNothing'
    PROVE  SenderInv'
<1> USE DEF taskVars, queueVars
<1>1. SenderTypes' /\ QueuesShaped' /\ QueueAccounted' /\ FragmentsConsecutive'
  BY DEF SenderInv, SenderTypes, QueuesShaped, QueueAccounted, FragmentsConsecutive
<1>2. Pushes'
  BY DEF SenderInv, Pushes
<1>3. PendingInv'
  BY DEF SenderInv, PendingInv, Pending, Coming
<1> QED
  BY <1>1, <1>2, <1>3 DEF SenderInv

(* The write loop wakes and looks at the queue, or finds it empty.           *)
LEMMA WakeStep ==
    ASSUME SenderInv, Wake
    PROVE  SenderInv'
<1>0. /\ UNCHANGED <<taskVars, queueVars, peeked, probing, sis_to_reset, sendVars>>
      /\ awake' = FALSE /\ loop' = IF queue_len = 0 THEN "reconfig" ELSE "peek"
  BY DEF Wake
<1>1. PopsPeeked'
  BY <1>0 DEF PopsPeeked
<1>2. LoopLeavesNothing'
  <2>1. CASE queue_len # 0
    BY <1>0, <2>1 DEF LoopLeavesNothing
  <2>2. CASE queue_len = 0 /\ \E t \in Tasks : pushing[t] # <<>>
    <3>1. Busy'
      BY <1>0, <2>2 DEF Busy, taskVars
    <3> QED
      BY <3>1 DEF LoopLeavesNothing
  <2>3. CASE queue_len = 0 /\ \A t \in Tasks : pushing[t] = <<>>
    <3>1. uncounted = {}
      BY <2>3 DEF SenderInv, SenderTypes, Pushes
    <3>2. Cardinality(uncounted) = 0
      BY <3>1, FS_EmptySet
    <3>3. /\ Len(unordered_queue) \in Nat /\ Len(ordered_queue) \in Nat
          /\ (unordered_queue = <<>> <=> Len(unordered_queue) = 0)
          /\ (ordered_queue = <<>> <=> Len(ordered_queue) = 0)
      BY EmptyLen DEF SenderInv, SenderTypes
    <3>4. Len(unordered_queue) + Len(ordered_queue) = 0
      BY <2>3, <3>2, <3>3 DEF SenderInv, QueueAccounted
    <3>5. unordered_queue = <<>> /\ ordered_queue = <<>>
      BY <3>3, <3>4
    <3> QED
      BY <1>0, <2>3, <3>5 DEF LoopLeavesNothing, queueVars
  <2> QED
    BY <2>1, <2>2, <2>3
<1> QED
  BY <1>0, <1>1, <1>2, PlaceLoop DEF SenderInv, SenderTypes, sendVars

(* What a look at one of the queues does.                                    *)
Looked(queue) ==
    /\ loop' \in {"peek", "pop", "reconfig"} /\ probing' \in BOOLEAN
    /\ loop' = "peek" => queue = <<>>
    /\ loop' = "pop" => queue # <<>> /\ peeked' = Head(queue)
    /\ loop' = "reconfig" => inflight # {} \/ queue = <<>>
    /\ \/ sis_to_reset' = sis_to_reset
       \/ /\ loop' = "pop" /\ Head(queue).eos
          /\ sis_to_reset' = sis_to_reset \cup {Head(queue).stream}

(* What looking at the first chunk of a queue decides: take it, take the end *)
(* of a stream, or stop.                                                     *)
LEMMA LookSpec ==
    ASSUME SenderInv, NEW queue \in Seq(Chunk), Look(queue)
    PROVE  Looked(queue) /\ sis_to_reset' \subseteq Streams
<1> DEFINE c == Head(queue)
           full == Cardinality({t \in inflight : ~assigned[t].eos}) >= Window
<1>0. probing \in BOOLEAN /\ sis_to_reset \subseteq Streams
  BY DEF SenderInv, SenderTypes
<1>1. CASE queue = <<>>
  <2>1. /\ (loop' = "peek" \/ loop' = "reconfig") /\ probing' \in BOOLEAN
        /\ sis_to_reset' = sis_to_reset
    BY <1>0, <1>1 DEF Look
  <2> QED
    BY <1>0, <1>1, <2>1 DEF Looked
<1>2. CASE queue # <<>>
  <2>0. c \in Chunk
    BY <1>2, HeadTailProperties
  <2>1. probing' = probing
    BY <1>2 DEF Look
  <2>2. CASE ~c.eos /\ full
    <3>1. loop' = "reconfig" /\ sis_to_reset' = sis_to_reset
      BY <1>2, <2>2 DEF Look
    <3>2. inflight # {}
      <4> SUFFICES ASSUME inflight = {} PROVE FALSE
        OBVIOUS
      <4>1. {t \in inflight : ~assigned[t].eos} = {}
        OBVIOUS
      <4>2. Cardinality({t \in inflight : ~assigned[t].eos}) = 0
        BY <4>1, FS_EmptySet
      <4> QED
        BY <2>2, <4>2, ResetAssumption
    <3> QED
      BY <1>0, <2>1, <3>1, <3>2 DEF Looked
  <2>3. CASE ~(~c.eos /\ full)
    <3>1. /\ loop' = "pop" /\ peeked' = c
          /\ sis_to_reset' = IF c.eos /\ ~probing THEN sis_to_reset \cup {c.stream}
                                                  ELSE sis_to_reset
      <4> HIDE DEF full
      <4> QED
        BY <1>2, <2>3 DEF Look, full
    <3>2. c.stream \in Streams
      BY <2>0 DEF Chunk
    <3> QED
      BY <1>0, <1>2, <2>1, <3>1, <3>2 DEF Looked
  <2> QED
    BY <2>2, <2>3
<1> QED
  BY <1>1, <1>2

(* The first unordered chunk is unordered.                                   *)
LEMMA FirstUnordered ==
    ASSUME SenderInv, unordered_queue # <<>>
    PROVE  Head(unordered_queue).unordered /\ Shaped(Head(unordered_queue))
           /\ Head(unordered_queue) = unordered_queue[1]
<1>1. unordered_queue \in Seq(Chunk) /\ Head(unordered_queue) = unordered_queue[1]
  BY DEF SenderInv, SenderTypes
<1>2. 1 \in DOMAIN unordered_queue
  BY <1>1, EmptyLen, LenProperties
<1> QED
  BY <1>1, <1>2 DEF SenderInv, QueuesShaped

(* The first ordered chunk is ordered.                                       *)
LEMMA FirstOrdered ==
    ASSUME SenderInv, ordered_queue # <<>>
    PROVE  ~Head(ordered_queue).unordered /\ Shaped(Head(ordered_queue))
           /\ Head(ordered_queue) = ordered_queue[1]
<1>1. ordered_queue \in Seq(Chunk) /\ Head(ordered_queue) = ordered_queue[1]
  BY DEF SenderInv, SenderTypes
<1>2. 1 \in DOMAIN ordered_queue
  BY <1>1, EmptyLen, LenProperties
<1> QED
  BY <1>1, <1>2 DEF SenderInv, QueuesShaped

(* A look places the write loop so that it takes what it saw, or has nothing *)
(* left to send.                                                             *)
LEMMA LookStep ==
    ASSUME SenderInv, UNCHANGED <<taskVars, queueVars, awake, sendVars>>,
           \/ unordered_queue # <<>> /\ ~selected /\ Looked(unordered_queue)
           \/ selected /\ unordered_is_selected /\ Looked(unordered_queue)
           \/ loop = "ordered" /\ ~selected /\ Looked(ordered_queue),
           sis_to_reset' \subseteq Streams
    PROVE  SenderInv'
<1>1. loop' \in {"peek", "pop", "reconfig"} /\ probing' \in BOOLEAN
  BY DEF Looked
<1>2. PopsPeeked'
  <2>1. ASSUME loop' = "pop"
        PROVE  IF TakesUnordered'
                 THEN unordered_queue # <<>> /\ peeked' = Head(unordered_queue)
                 ELSE ordered_queue # <<>> /\ peeked' = Head(ordered_queue)
    <3>1. CASE ~selected /\ Looked(unordered_queue)
      BY <2>1, <3>1, FirstUnordered DEF Looked, TakesUnordered, queueVars
    <3>2. CASE selected /\ unordered_is_selected /\ Looked(unordered_queue)
      BY <2>1, <3>2 DEF Looked, TakesUnordered, queueVars
    <3>3. CASE ~selected /\ Looked(ordered_queue)
      BY <2>1, <3>3, FirstOrdered DEF Looked, TakesUnordered, queueVars
    <3> QED
      BY <3>1, <3>2, <3>3
  <2> QED
    BY <1>1, <2>1 DEF PopsPeeked, queueVars
<1>3. LoopLeavesNothing'
  <2> SUFFICES ASSUME loop' = "reconfig", ~Busy, inflight = {}
               PROVE  unordered_queue = <<>> /\ ordered_queue = <<>>
    BY <1>1 DEF LoopLeavesNothing, Busy, taskVars, queueVars, sendVars
  <2>1. CASE unordered_queue # <<>> /\ ~selected /\ Looked(unordered_queue)
    BY <2>1 DEF Looked
  <2>2. CASE selected /\ unordered_is_selected /\ Looked(unordered_queue)
    <3>1. unordered_queue = <<>> /\ Pending # <<>>
      BY <2>2 DEF Looked, SenderInv, PendingInv
    <3>2. Coming # <<>>
      BY <3>1, ConcatEmptySeq, EmptySeq DEF Pending
    <3>3. pushing[Writer] # <<>>
      BY <3>2 DEF Coming
    <3> QED
      BY <3>3, TasksSpec DEF Busy
  <2>3. CASE loop = "ordered" /\ ~selected /\ Looked(ordered_queue)
    BY <2>3 DEF Looked, SenderInv, LoopLeavesNothing
  <2> QED
    BY <2>1, <2>2, <2>3
<1> QED
  BY <1>1, <1>2, <1>3, PlaceLoop DEF SenderInv, SenderTypes, sendVars

(* peek, with the unordered queue first.                                     *)
LEMMA PeekStep ==
    ASSUME SenderInv, Peek
    PROVE  SenderInv'
<1>0. /\ UNCHANGED <<taskVars, queueVars, awake, sendVars>>
      /\ unordered_queue \in Seq(Chunk) /\ ordered_queue \in Seq(Chunk)
      /\ selected => unordered_is_selected
  BY DEF Peek, SenderInv, SenderTypes, PendingInv
<1>1. CASE selected
  <2>1. Look(unordered_queue)
    BY <1>0, <1>1 DEF Peek
  <2>2. Looked(unordered_queue) /\ sis_to_reset' \subseteq Streams
    BY <1>0, <2>1, LookSpec
  <2> QED
    BY <1>0, <1>1, <2>2, LookStep
<1>2. CASE ~selected /\ unordered_queue # <<>>
  <2>1. Look(unordered_queue)
    BY <1>2 DEF Peek
  <2>2. Looked(unordered_queue) /\ sis_to_reset' \subseteq Streams
    BY <1>0, <2>1, LookSpec
  <2> QED
    BY <1>0, <1>2, <2>2, LookStep
<1>3. CASE ~selected /\ unordered_queue = <<>>
  <2>1. loop' = "ordered" /\ UNCHANGED <<peeked, probing, sis_to_reset>>
    BY <1>3 DEF Peek
  <2>2. PopsPeeked' /\ LoopLeavesNothing'
    BY <1>0, <1>3, <2>1 DEF PopsPeeked, LoopLeavesNothing, queueVars
  <2> QED
    BY <1>0, <2>1, <2>2, PlaceLoop DEF SenderInv, SenderTypes, sendVars
<1> QED
  BY <1>1, <1>2, <1>3

(* peek goes on to the ordered queue, after a push may have come in between. *)
LEMMA PeekOrderedStep ==
    ASSUME SenderInv, PeekOrdered
    PROVE  SenderInv'
<1>0. /\ UNCHANGED <<taskVars, queueVars, awake, sendVars>>
      /\ ordered_queue \in Seq(Chunk) /\ ~selected /\ loop = "ordered"
  BY DEF PeekOrdered, SenderInv, SenderTypes, PopsPeeked
<1>1. Looked(ordered_queue) /\ sis_to_reset' \subseteq Streams
  BY <1>0, LookSpec DEF PeekOrdered
<1> QED
  BY <1>0, <1>1, LookStep

(* The end of a turn leaves no chunk that could be sent without a wake-up.   *)
LEMMA GatherStep ==
    ASSUME SenderInv, GatherReconfig
    PROVE  SenderInv'
<1>0. /\ UNCHANGED <<taskVars, queueVars, awake, sendVars>>
      /\ loop = "reconfig" /\ loop' = "wait" /\ probing' = FALSE /\ sis_to_reset' = {}
  BY DEF GatherReconfig
<1>1. PopsPeeked'
  BY <1>0 DEF PopsPeeked
<1>2. LoopLeavesNothing'
  BY <1>0 DEF SenderInv, LoopLeavesNothing, Busy, taskVars, queueVars, sendVars
<1> QED
  BY <1>0, <1>1, <1>2, PlaceLoop DEF SenderInv, SenderTypes, sendVars

(* Steps that wake the write loop while it waits.                            *)
LEMMA WokenStep ==
    ASSUME SenderInv, OnReconfigTimeout \/ HandleSack
    PROVE  SenderInv'
<1>0. /\ UNCHANGED <<taskVars, queueVars, assigned, loopVars>>
      /\ awake' = TRUE /\ loop = "wait"
      /\ inflight' \subseteq inflight
  BY DEF OnReconfigTimeout, HandleSack, sendVars, Unlocked
<1>1. PopsPeeked'
  BY <1>0 DEF PopsPeeked, loopVars
<1>2. LoopLeavesNothing'
  BY <1>0 DEF LoopLeavesNothing, Busy
<1> QED
  BY <1>0, <1>1, <1>2, PlaceLoop DEF SenderInv, SenderTypes, loopVars

(* Pop never fails, and takes the chunk that was looked at.                  *)
LEMMA PopSpec ==
    ASSUME SenderInv, Pop
    PROVE  /\ loop = "pop" /\ loop' = (IF probing THEN "reconfig" ELSE "peek")
           /\ UNCHANGED <<taskVars, awake, probing, sis_to_reset>>
           /\ queue_len' = queue_len - 1
           /\ selected' = ~peeked.ending_fragment
           /\ unordered_is_selected' =
                 IF ~selected /\ ~peeked.ending_fragment THEN TakesUnordered
                                                         ELSE unordered_is_selected
           /\ MoveToInflight(peeked)
           /\ peeked \in Chunk /\ Shaped(peeked)
           /\ ~selected => peeked.fragment = 1
           /\ IF TakesUnordered
                THEN /\ unordered_queue # <<>> /\ unordered_queue' = Tail(unordered_queue)
                     /\ peeked = unordered_queue[1] /\ peeked.unordered
                     /\ ordered_queue' = ordered_queue
                ELSE /\ ordered_queue # <<>> /\ ordered_queue' = Tail(ordered_queue)
                     /\ peeked = ordered_queue[1] /\ ~peeked.unordered
                     /\ unordered_queue' = unordered_queue
<1>0. /\ loop = "pop" /\ loop' = (IF probing THEN "reconfig" ELSE "peek")
      /\ UNCHANGED <<taskVars, awake, probing, sis_to_reset>>
  BY DEF Pop
<1>1. unordered_queue \in Seq(Chunk) /\ ordered_queue \in Seq(Chunk)
  BY DEF SenderInv, SenderTypes
<1>2. CASE TakesUnordered
  <2>1. unordered_queue # <<>> /\ peeked = Head(unordered_queue)
    BY <1>0, <1>2 DEF SenderInv, PopsPeeked
  <2>2. peeked.unordered /\ Shaped(peeked) /\ peeked = unordered_queue[1]
    BY <2>1, FirstUnordered
  <2>3. peeked \in Chunk
    BY <1>1, <2>1, HeadTailProperties
  <2>4. Pending # <<>> /\ Pending[1] = unordered_queue[1]
    <3>1. Coming \in Seq(Chunk)
      BY ComingIsSeq DEF SenderInv
    <3> QED
      BY <1>1, <2>1, <3>1, FirstPending DEF Pending
  <2>5. ~selected => peeked.fragment = 1
    BY <2>2, <2>4 DEF SenderInv, PendingInv
  <2>6. selected \/ peeked.beginning_fragment
    BY <2>2, <2>5 DEF Shaped
  <2>7. PopFront(TRUE) /\ Select(TRUE)
    <3>1. PopFront(TakesUnordered) /\ Select(TakesUnordered)
      BY <2>6 DEF Pop, TakesUnordered
    <3>2. CASE selected
      BY <1>2, <2>6, <3>2 DEF Pop, TakesUnordered, PopFront, Select
    <3>3. CASE ~selected
      BY <1>2, <2>2, <2>6, <3>3 DEF Pop, TakesUnordered, PopFront, Select
    <3> QED
      BY <3>2, <3>3
  <2>8. /\ unordered_queue' = Tail(unordered_queue) /\ ordered_queue' = ordered_queue
        /\ queue_len' = queue_len - 1 /\ MoveToInflight(peeked)
    BY <2>1, <2>7 DEF PopFront, Uncount
  <2>9. selected' = ~peeked.ending_fragment
    BY <2>1, <2>7 DEF Select
  <2>10. unordered_is_selected' =
            IF ~selected /\ ~peeked.ending_fragment THEN TRUE ELSE unordered_is_selected
    BY <2>1, <2>7 DEF Select
  <2>11. unordered_is_selected' =
            IF ~selected /\ ~peeked.ending_fragment THEN TakesUnordered ELSE unordered_is_selected
    <3>1. CASE selected
      BY <2>10, <3>1
    <3>2. CASE ~selected
      <4>1. TakesUnordered = peeked.unordered /\ peeked.unordered = TRUE
        BY <2>2, <2>3, <3>2 DEF TakesUnordered, Chunk
      <4> QED
        BY <2>10, <3>2, <4>1
    <3> QED
      BY <3>1, <3>2
  <2> QED
    BY <1>0, <1>2, <2>1, <2>2, <2>3, <2>5, <2>8, <2>9, <2>11
<1>3. CASE ~TakesUnordered
  <2>1. ordered_queue # <<>> /\ peeked = Head(ordered_queue)
    BY <1>0, <1>3 DEF SenderInv, PopsPeeked
  <2>2. ~peeked.unordered /\ Shaped(peeked) /\ peeked = ordered_queue[1]
    BY <2>1, FirstOrdered
  <2>3. peeked \in Chunk
    BY <1>1, <2>1, HeadTailProperties
  <2>5. peeked.fragment = 1 /\ peeked.beginning_fragment /\ peeked.ending_fragment
    BY <2>2 DEF Shaped
  <2>6. selected \/ peeked.beginning_fragment
    BY <2>5
  <2>7. PopFront(FALSE) /\ Select(FALSE)
    <3>1. peeked.unordered = FALSE
      BY <2>2, <2>3 DEF Chunk
    <3>2. CASE selected
      BY <1>3, <2>6, <3>2 DEF Pop, TakesUnordered, PopFront, Select
    <3>3. CASE ~selected
      BY <2>6, <3>1, <3>3 DEF Pop, PopFront, Select
    <3> QED
      BY <3>2, <3>3
  <2>8. /\ ordered_queue' = Tail(ordered_queue) /\ unordered_queue' = unordered_queue
        /\ queue_len' = queue_len - 1 /\ MoveToInflight(peeked)
    BY <2>1, <2>7 DEF PopFront, Uncount
  <2>9. selected' = ~peeked.ending_fragment
    BY <2>1, <2>7 DEF Select
  <2>10. unordered_is_selected' = unordered_is_selected
    BY <2>1, <2>5, <2>7 DEF Select
  <2> QED
    BY <1>0, <1>3, <2>1, <2>2, <2>3, <2>5, <2>8, <2>9, <2>10
<1> QED
  BY <1>2, <1>3

(* What Tail returns, index by index.                                        *)
LEMMA TailSpec ==
    ASSUME NEW S, NEW u \in Seq(S), u # <<>>
    PROVE  /\ Tail(u) \in Seq(S) /\ Len(Tail(u)) = Len(u) - 1 /\ Len(u) \in Nat
           /\ DOMAIN u = 1 .. Len(u) /\ DOMAIN Tail(u) = 1 .. Len(u) - 1
           /\ \A i \in 1 .. Len(u) - 1 : Tail(u)[i] = u[i + 1] /\ i + 1 \in DOMAIN u
<1>1. Tail(u) \in Seq(S) /\ Len(Tail(u)) = Len(u) - 1
      /\ \A i \in 1 .. Len(Tail(u)) : Tail(u)[i] = u[i + 1]
  BY HeadTailProperties
<1>2. DOMAIN u = 1 .. Len(u) /\ DOMAIN Tail(u) = 1 .. Len(Tail(u)) /\ Len(u) \in Nat
  BY <1>1, LenProperties
<1> QED
  BY <1>1, <1>2

(* pop takes the chunk that peek saw, and TSNs go on with the same message.  *)
LEMMA PopStep ==
    ASSUME SenderInv, Pop
    PROVE  SenderInv'
<1>0. /\ loop = "pop" /\ loop' = (IF probing THEN "reconfig" ELSE "peek")
      /\ UNCHANGED <<taskVars, awake, probing, sis_to_reset>>
      /\ queue_len' = queue_len - 1
      /\ MoveToInflight(peeked)
      /\ peeked \in Chunk /\ Shaped(peeked)
      /\ ~selected => peeked.fragment = 1
  BY PopSpec
<1>1. /\ selected' = ~peeked.ending_fragment
      /\ unordered_is_selected' =
            IF ~selected /\ ~peeked.ending_fragment THEN TakesUnordered
                                                    ELSE unordered_is_selected
  BY PopSpec
<1>2. IF TakesUnordered
        THEN /\ unordered_queue # <<>> /\ unordered_queue' = Tail(unordered_queue)
             /\ peeked = unordered_queue[1] /\ peeked.unordered
             /\ ordered_queue' = ordered_queue
        ELSE /\ ordered_queue # <<>> /\ ordered_queue' = Tail(ordered_queue)
             /\ peeked = ordered_queue[1] /\ ~peeked.unordered
             /\ unordered_queue' = unordered_queue
  BY PopSpec
<1>3. /\ unordered_queue \in Seq(Chunk) /\ ordered_queue \in Seq(Chunk)
      /\ assigned \in Seq(Chunk) /\ inflight \subseteq 1 .. Len(assigned)
      /\ selected \in BOOLEAN /\ unordered_is_selected \in BOOLEAN /\ queue_len \in Int
      /\ probing \in BOOLEAN
      /\ selected => unordered_is_selected
  BY DEF SenderInv, SenderTypes, PendingInv
<1>4. \/ assigned' = assigned /\ inflight' = inflight /\ peeked.eos /\ ~probing
      \/ assigned' = Append(assigned, peeked) /\ inflight' = inflight \cup {Len(assigned) + 1}
  BY <1>0 DEF MoveToInflight
<1>5. /\ Append(assigned, peeked) \in Seq(Chunk) /\ Len(assigned) \in Nat
      /\ Len(Append(assigned, peeked)) = Len(assigned) + 1
      /\ DOMAIN assigned = 1 .. Len(assigned)
      /\ DOMAIN Append(assigned, peeked) = 1 .. Len(assigned) + 1
      /\ \A i \in 1 .. Len(assigned) : Append(assigned, peeked)[i] = assigned[i]
      /\ Append(assigned, peeked)[Len(assigned) + 1] = peeked
  BY <1>0, <1>3, AppendSpec
<1>6. peeked.unordered \in BOOLEAN /\ peeked.ending_fragment \in BOOLEAN /\ peeked.fragment \in Nat
      /\ peeked.eos \in BOOLEAN
  BY <1>0 DEF Chunk
<1>7. unordered_queue' \in Seq(Chunk) /\ ordered_queue' \in Seq(Chunk)
  BY <1>2, <1>3, TailSpec
<1>8. selected' \in BOOLEAN /\ unordered_is_selected' \in BOOLEAN
  <2>1. TakesUnordered \in BOOLEAN
    BY <1>3, <1>6 DEF TakesUnordered
  <2> QED
    BY <1>1, <1>3, <2>1
<1>9. SenderTypes'
  <2>1. assigned' \in Seq(Chunk) /\ inflight' \subseteq 1 .. Len(assigned')
    <3>1. CASE assigned' = assigned /\ inflight' = inflight
      BY <1>3, <3>1
    <3>2. CASE assigned' = Append(assigned, peeked) /\ inflight' = inflight \cup {Len(assigned) + 1}
      <4>1. assigned' \in Seq(Chunk) /\ Len(assigned') = Len(assigned) + 1
        BY <1>5, <3>2
      <4>2. inflight' \subseteq 1 .. Len(assigned) + 1
        <5>1. Len(assigned) \in Nat /\ inflight \subseteq 1 .. Len(assigned)
          BY <1>3, <1>5
        <5>2. 1 .. Len(assigned) \subseteq 1 .. Len(assigned) + 1
              /\ Len(assigned) + 1 \in 1 .. Len(assigned) + 1
          BY <5>1
        <5> QED
          BY <3>2, <5>1, <5>2, Zenon
      <4> QED
        BY <4>1, <4>2
    <3> QED
      BY <1>4, <3>1, <3>2
  <2>2. loop' \in {"wait", "peek", "ordered", "pop", "reconfig"} /\ queue_len' \in Int
    BY <1>0, <1>3
  <2> QED
    BY <1>0, <1>7, <1>8, <2>1, <2>2 DEF SenderInv, SenderTypes, taskVars
<1>10. Pushes'
  BY <1>0 DEF SenderInv, Pushes, taskVars
<1>11. QueuesShaped'
  <2>1. ASSUME NEW i \in DOMAIN unordered_queue'
        PROVE  Shaped(unordered_queue'[i]) /\ unordered_queue'[i].unordered
    <3>1. \E j \in DOMAIN unordered_queue : unordered_queue'[i] = unordered_queue[j]
      <4>1. CASE ~TakesUnordered
        BY <1>2, <2>1, <4>1
      <4>2. CASE TakesUnordered
        BY <1>2, <1>3, <2>1, <4>2, TailSpec
      <4> QED
        BY <4>1, <4>2
    <3> QED
      BY <3>1 DEF SenderInv, QueuesShaped
  <2>2. ASSUME NEW i \in DOMAIN ordered_queue'
        PROVE  Shaped(ordered_queue'[i]) /\ ~ordered_queue'[i].unordered
    <3>1. \E j \in DOMAIN ordered_queue : ordered_queue'[i] = ordered_queue[j]
      <4>1. CASE TakesUnordered
        BY <1>2, <2>2, <4>1
      <4>2. CASE ~TakesUnordered
        BY <1>2, <1>3, <2>2, <4>2, TailSpec
      <4> QED
        BY <4>1, <4>2
    <3> QED
      BY <3>1 DEF SenderInv, QueuesShaped
  <2> QED
    BY <2>1, <2>2 DEF QueuesShaped
<1>12. QueueAccounted'
  <2>1. Cardinality(uncounted) \in Nat /\ Len(unordered_queue) \in Nat /\ Len(ordered_queue) \in Nat
    BY <1>3, FS_CardinalityType, LenProperties DEF SenderInv, Pushes
  <2>2. Len(unordered_queue') + Len(ordered_queue') = Len(unordered_queue) + Len(ordered_queue) - 1
    <3>1. CASE TakesUnordered
      <4>1. Len(unordered_queue') = Len(unordered_queue) - 1 /\ ordered_queue' = ordered_queue
        BY <1>2, <1>3, <3>1, TailSpec
      <4> QED
        BY <2>1, <4>1
    <3>2. CASE ~TakesUnordered
      <4>1. Len(ordered_queue') = Len(ordered_queue) - 1 /\ unordered_queue' = unordered_queue
        BY <1>2, <1>3, <3>2, TailSpec
      <4> QED
        BY <2>1, <4>1
    <3> QED
      BY <3>1, <3>2
  <2>3. queue_len + Cardinality(uncounted) = Len(unordered_queue) + Len(ordered_queue)
    BY DEF SenderInv, QueueAccounted
  <2>4. queue_len' + Cardinality(uncounted') = Len(unordered_queue') + Len(ordered_queue')
    <3>1. uncounted' = uncounted
      BY <1>0 DEF taskVars
    <3> QED
      BY <1>0, <1>3, <2>1, <2>2, <2>3, <3>1
  <2> QED
    BY <2>4 DEF QueueAccounted
<1>13. PopsPeeked'
  BY <1>0 DEF PopsPeeked
<1>14. Coming' = Coming /\ Coming \in Seq(Chunk)
  BY <1>0, ComingIsSeq DEF Coming, taskVars, SenderInv
<1>15. PendingInv'
  <2>1. CASE TakesUnordered
    <3>1. Pending \in Seq(Chunk) /\ Chained(Pending) /\ Pending # <<>> /\ Pending[1] = peeked
      BY <1>2, <1>3, <1>14, <2>1, ComingIsSeq, FirstPending DEF SenderInv, PendingInv, Pending
    <3>2. Pending' = Tail(Pending)
      BY <1>2, <1>3, <1>14, <2>1, TailOfConcat DEF Pending
    <3>3. /\ Chained(Pending')
          /\ Pending' = <<>> => peeked.ending_fragment
          /\ Pending' # <<>> => Linked(peeked, Pending'[1])
      <4> HIDE DEF Pending
      <4> QED
        BY <3>1, <3>2, ChainedTail
    <3>4. assigned' = Append(assigned, peeked)
      BY <1>0, <1>2, <1>4, <2>1 DEF Shaped
    <3>5. assigned'[Len(assigned')] = peeked /\ assigned' # <<>>
      BY <1>5, <3>4, EmptyLen
    <3>6. ~selected' /\ Pending' # <<>> => Pending'[1].fragment = 1
      BY <1>1, <3>3 DEF Linked
    <3>7. selected' => unordered_is_selected'
      <4>1. CASE selected
        BY <1>1, <1>3, <4>1, Zenon
      <4>2. CASE ~selected
        BY <1>1, <2>1, <4>2, Zenon
      <4> QED
        BY <4>1, <4>2
    <3>8. selected' => /\ Pending' # <<>> /\ ~peeked.ending_fragment
                       /\ Linked(peeked, Pending'[1])
      BY <1>1, <3>3
    <3> QED
      BY <3>3, <3>5, <3>6, <3>7, <3>8 DEF PendingInv
  <2>2. CASE ~TakesUnordered
    <3>1. ~selected
      BY <1>3, <2>2 DEF TakesUnordered
    <3>3. ~selected'
      BY <1>0, <1>1, <1>2, <2>2 DEF Shaped
    <3>2. Pending' = Pending
      BY <1>2, <1>14, <2>2 DEF Pending
    <3> QED
      BY <3>1, <3>2, <3>3 DEF SenderInv, PendingInv
  <2> QED
    BY <2>1, <2>2
<1>16. FragmentsConsecutive'
  <2>1. CASE assigned' = assigned
    BY <2>1 DEF SenderInv, FragmentsConsecutive
  <2>2. CASE assigned' = Append(assigned, peeked)
    <3> SUFFICES ASSUME NEW t \in DOMAIN assigned', assigned'[t].fragment > 1
                 PROVE  /\ t > 1 /\ assigned'[t - 1].message = assigned'[t].message
                        /\ assigned'[t - 1].fragment = assigned'[t].fragment - 1
      BY DEF FragmentsConsecutive
    <3>1. CASE t \in 1 .. Len(assigned)
      <4>1. assigned'[t] = assigned[t] /\ t \in DOMAIN assigned
        BY <1>5, <2>2, <3>1
      <4>2. /\ t > 1 /\ assigned[t - 1].message = assigned[t].message
            /\ assigned[t - 1].fragment = assigned[t].fragment - 1
        BY <4>1 DEF SenderInv, FragmentsConsecutive
      <4>3. assigned'[t - 1] = assigned[t - 1]
        BY <1>5, <2>2, <3>1, <4>2
      <4> QED
        BY <4>1, <4>2, <4>3
    <3>2. CASE t = Len(assigned) + 1
      <4>1. assigned'[t] = peeked /\ peeked.fragment # 1
        BY <1>5, <1>6, <2>2, <3>2
      <4>2. selected
        BY <1>0, <4>1
      <4>3. TakesUnordered
        BY <1>3, <4>2 DEF TakesUnordered
      <4>4. Pending[1] = peeked
        BY <1>2, <1>3, <1>14, <4>3, FirstPending DEF Pending
      <4>5. /\ assigned # <<>> /\ assigned[Len(assigned)].message = peeked.message
            /\ peeked.fragment = assigned[Len(assigned)].fragment + 1
        BY <4>2, <4>4 DEF SenderInv, PendingInv, Linked
      <4>6. Len(assigned) \in 1 .. Len(assigned) /\ t - 1 = Len(assigned) /\ t > 1
        BY <1>3, <1>5, <3>2, <4>5, EmptyLen
      <4>7. assigned'[t - 1] = assigned[Len(assigned)]
            /\ assigned[Len(assigned)] \in Chunk
        BY <1>3, <1>5, <2>2, <4>6, ElementOfSeq
      <4>8. assigned[Len(assigned)].fragment \in Nat
        BY <4>7 DEF Chunk
      <4> QED
        BY <4>1, <4>5, <4>6, <4>7, <4>8
    <3> QED
      BY <1>5, <2>2, <3>1, <3>2
  <2> QED
    BY <1>4, <2>1, <2>2
<1>17. LoopLeavesNothing'
  <2>1. CASE ~probing
    BY <1>0, <2>1 DEF LoopLeavesNothing
  <2>2. CASE probing
    <3>1. inflight' # {}
      BY <1>4, <2>2
    <3> QED
      BY <1>0, <2>2, <3>1 DEF LoopLeavesNothing
  <2> QED
    BY <1>3, <2>1, <2>2
<1> QED
  BY <1>9, <1>10, <1>11, <1>12, <1>13, <1>15, <1>16, <1>17 DEF SenderInv

(* A new association has nothing queued.                                     *)
LEMMA SenderInit == Init => SenderInv
<1> SUFFICES ASSUME Init PROVE SenderInv
  OBVIOUS
<1>0. /\ wrote = 0 /\ pushing = [t \in Tasks |-> <<>>] /\ uncounted = {} /\ closed = {}
      /\ unordered_queue = <<>> /\ ordered_queue = <<>> /\ queue_len = 0
      /\ selected = FALSE /\ unordered_is_selected = FALSE /\ awake = FALSE
      /\ loop = "wait" /\ probing = FALSE /\ sis_to_reset = {} /\ assigned = <<>>
      /\ inflight = {}
  BY DEF Init
<1>1. <<>> \in Seq(Chunk) /\ Len(<<>>) = 0 /\ Len(Messages) \in Nat
  BY EmptySeq, LenProperties, ResetAssumption
<1>2. SenderTypes
  <2>1. pushing \in [Tasks -> Seq(Chunk)]
    BY <1>0, <1>1
  <2>2. wrote \in 0 .. Len(Messages)
    BY <1>0, <1>1
  <2>3. /\ selected \in BOOLEAN /\ unordered_is_selected \in BOOLEAN /\ awake \in BOOLEAN
        /\ probing \in BOOLEAN /\ loop \in {"wait", "peek", "ordered", "pop", "reconfig"}
    BY <1>0, Zenon
  <2>5. queue_len \in Int
    <3>1. queue_len = 0
      BY <1>0
    <3> QED
      BY <3>1
  <2>4. inflight \subseteq 1 .. Len(assigned) /\ uncounted \subseteq Tasks
        /\ closed \subseteq Streams /\ sis_to_reset \subseteq Streams
    BY <1>0, Zenon
  <2> QED
    BY <1>0, <1>1, <2>1, <2>2, <2>3, <2>4, <2>5, Zenon DEF SenderTypes
<1>3. \A t \in Tasks : pushing[t] = <<>>
  BY <1>0
<1>4. Pushes
  BY <1>0, <1>3, TasksSpec, FS_EmptySet DEF Pushes
<1>5. QueuesShaped /\ FragmentsConsecutive /\ PopsPeeked /\ LoopLeavesNothing
  BY <1>0 DEF QueuesShaped, FragmentsConsecutive, PopsPeeked, LoopLeavesNothing
<1>6. QueueAccounted
  BY <1>0, <1>1, FS_EmptySet DEF QueueAccounted
<1>7. PendingInv
  <2>1. Pending = <<>>
    BY <1>0, <1>1, <1>3, TasksSpec, ConcatEmptySeq DEF Pending, Coming
  <2>2. Chained(<<>>)
    BY <1>1 DEF Chained
  <2> QED
    BY <1>0, <2>1, <2>2 DEF PendingInv
<1> QED
  BY <1>2, <1>4, <1>5, <1>6, <1>7 DEF SenderInv

(* Every step keeps the sender's invariant.                                  *)
LEMMA SenderStep == SenderInv /\ [Next]_vars => SenderInv'
<1> SUFFICES ASSUME SenderInv, [Next]_vars PROVE SenderInv'
  OBVIOUS
<1> QED
  BY SenderCases, QuietSender, WriteStep, CloseStep, PushStep, CountStep, WakeStep, PeekStep,
     PeekOrderedStep, PopStep, GatherStep, WokenStep

-----------------------------------------------------------------------------
(* The ends of streams.                                                      *)

(* A step that leaves the end of a stream where it is.                       *)
LEMMA EndStays ==
    ASSUME NEW s \in Streams, OneEnd(s), Unpushed(s)' = Unpushed(s),
           \A i \in DOMAIN ordered_queue' : IsEnd(i, s)' => IsEnd(i, s),
           DOMAIN ordered_queue \subseteq DOMAIN ordered_queue',
           \A i \in DOMAIN ordered_queue : IsEnd(i, s) => IsEnd(i, s)',
           sis_to_reset' = sis_to_reset, requests' = requests,
           loop = "pop" => loop' = "pop" /\ TakesUnordered' = TakesUnordered
    PROVE  OneEnd(s)'
<1>1. Queued(s)' = Queued(s)
  BY DEF Queued, IsEnd
<1>2. \A i, j \in DOMAIN ordered_queue' : IsEnd(i, s)' /\ IsEnd(j, s)' => i = j
  BY DEF OneEnd, IsEnd
<1>3. IsEnd(1, s) => IsEnd(1, s)'
  BY DEF IsEnd
<1> QED
  BY <1>1, <1>2, <1>3 DEF OneEnd

(* An end that is pushed is a new one.                                       *)
LEMMA EndIsPushed ==
    ASSUME SenderInv, SenderInv', NEW t \in Tasks, PushBack(t), NEW s \in Streams, OneEnd(s),
           requests' = requests
    PROVE  OneEnd(s)'
<1> DEFINE c == Head(pushing[t])
<1>0. /\ UNCHANGED <<pushing, closed, selected, unordered_is_selected, loopVars>>
      /\ pushing[t] # <<>> /\ t \notin uncounted /\ uncounted' = uncounted \cup {t}
  BY DEF PushBack
<1>1. /\ c.unordered => ordered_queue' = ordered_queue
      /\ ~c.unordered => ordered_queue' = Append(ordered_queue, c)
  BY DEF PushBack
<1>2. /\ c \in Chunk
      /\ t \in Streams => c = EndOfStream(t) /\ ~c.unordered
      /\ t = Writer => ~c.eos
  BY <1>0, PushedChunk
<1>a. ordered_queue \in Seq(Chunk)
  BY DEF SenderInv, SenderTypes
<1> HIDE DEF c
<1>3. TakesUnordered' = TakesUnordered /\ sis_to_reset' = sis_to_reset /\ loop' = loop
  BY <1>0 DEF TakesUnordered, loopVars
<1>4. CASE c.unordered
  <2>1. Unpushed(s)' = Unpushed(s)
    BY <1>0, <1>2, <1>4 DEF Unpushed
  <2> QED
    BY <1>1, <1>3, <1>4, <2>1, EndStays DEF IsEnd
<1>5. CASE ~c.unordered
  <2>1. /\ DOMAIN ordered_queue = 1 .. Len(ordered_queue) /\ Len(ordered_queue) \in Nat
        /\ DOMAIN ordered_queue' = 1 .. Len(ordered_queue) + 1
        /\ \A i \in 1 .. Len(ordered_queue) : ordered_queue'[i] = ordered_queue[i]
        /\ ordered_queue'[Len(ordered_queue) + 1] = c
    BY <1>1, <1>2, <1>5, <1>a, AppendSpec
  <2>2. \A i \in DOMAIN ordered_queue : i \in DOMAIN ordered_queue' /\ (IsEnd(i, s)' <=> IsEnd(i, s))
    BY <2>1 DEF IsEnd
  <2>3. \A i \in DOMAIN ordered_queue' : i \in DOMAIN ordered_queue \/ i = Len(ordered_queue) + 1
    BY <2>1
  <2>4. CASE t = s
    <3>1. s \in closed
      BY <1>0, <2>4 DEF SenderInv, Pushes
    <3>2. Unpushed(s) /\ ~Unpushed(s)'
      BY <1>0, <2>4, <3>1 DEF Unpushed
    <3>3. ~Queued(s) /\ s \notin sis_to_reset
      BY <3>2 DEF OneEnd
    <3>4. \A i \in DOMAIN ordered_queue' : IsEnd(i, s)' => i = Len(ordered_queue) + 1
      BY <2>2, <2>3, <3>3 DEF Queued
    <3>5. \A r \in requests' : s \notin r.stream_identifiers
      BY <3>2 DEF OneEnd
    <3> QED
      BY <1>3, <3>2, <3>3, <3>4, <3>5 DEF OneEnd
  <2>5. CASE t # s
    <3>1. Unpushed(s)' = Unpushed(s)
      BY <1>0, <2>5 DEF Unpushed
    <3>2. ~(c.eos /\ c.stream = s)
      <4>1. CASE t \in Streams
        BY <1>2, <2>5, <4>1, EndOfStreamSpec
      <4>2. CASE t = Writer
        BY <1>2, <4>2
      <4> QED
        BY <4>1, <4>2 DEF Tasks
    <3>3. \A i \in DOMAIN ordered_queue' : IsEnd(i, s)' => IsEnd(i, s)
      <4> TAKE i \in DOMAIN ordered_queue'
      <4>1. CASE i \in DOMAIN ordered_queue
        BY <2>2, <4>1
      <4>2. CASE i = Len(ordered_queue) + 1
        BY <2>1, <3>2, <4>2 DEF IsEnd
      <4> QED
        BY <2>3, <4>1, <4>2
    <3>4. DOMAIN ordered_queue \subseteq DOMAIN ordered_queue'
      BY <2>2
    <3> QED
      BY <1>3, <2>2, <3>1, <3>3, <3>4, EndStays
  <2> QED
    BY <2>4, <2>5
<1> QED
  BY <1>4, <1>5

(* An end that was looked at is taken.                                       *)
LEMMA EndIsPopped ==
    ASSUME SenderInv, Pop, NEW s \in Streams, OneEnd(s), requests' = requests
    PROVE  OneEnd(s)'
<1>0. UNCHANGED <<taskVars, sis_to_reset>>
  BY PopSpec
<1>1. /\ TakesUnordered => ordered_queue' = ordered_queue
      /\ ~TakesUnordered => ordered_queue # <<>> /\ ordered_queue' = Tail(ordered_queue)
  BY PopSpec
<1>2. Unpushed(s)' = Unpushed(s)
  BY <1>0 DEF Unpushed, taskVars
<1>3. CASE TakesUnordered
  <2>1. Queued(s)' = Queued(s) /\ \A i \in DOMAIN ordered_queue : IsEnd(i, s)' = IsEnd(i, s)
    BY <1>1, <1>3 DEF Queued, IsEnd
  <2>2. ~(Queued(s) /\ s \in sis_to_reset)
    BY <1>3 DEF OneEnd
  <2> QED
    BY <1>0, <1>1, <1>2, <1>3, <2>1, <2>2 DEF OneEnd
<1>4. CASE ~TakesUnordered
  <2>1. /\ DOMAIN ordered_queue = 1 .. Len(ordered_queue) /\ Len(ordered_queue) \in Nat
        /\ DOMAIN ordered_queue' = 1 .. Len(ordered_queue) - 1
        /\ \A i \in 1 .. Len(ordered_queue) - 1 :
               ordered_queue'[i] = ordered_queue[i + 1] /\ i + 1 \in DOMAIN ordered_queue
    BY <1>1, <1>4, TailSpec DEF SenderInv, SenderTypes
  <2>2. \A i \in DOMAIN ordered_queue' :
           /\ i + 1 \in DOMAIN ordered_queue /\ i \in Int /\ i + 1 # 1
           /\ IsEnd(i, s)' => IsEnd(i + 1, s)
    BY <2>1 DEF IsEnd
  <2>3. Queued(s)' => Queued(s)
    BY <2>2 DEF Queued
  <2>4. \A i, j \in DOMAIN ordered_queue' : IsEnd(i, s)' /\ IsEnd(j, s)' => i = j
    <3> SUFFICES ASSUME NEW i \in DOMAIN ordered_queue', NEW j \in DOMAIN ordered_queue',
                        IsEnd(i, s)', IsEnd(j, s)'
                 PROVE  i = j
      OBVIOUS
    <3>1. i + 1 = j + 1
      BY <2>2 DEF OneEnd
    <3> QED
      BY <2>2, <3>1
  <2>5. ~(Queued(s)' /\ s \in sis_to_reset)
    <3> SUFFICES ASSUME Queued(s)', s \in sis_to_reset PROVE FALSE
      OBVIOUS
    <3>1. IsEnd(1, s) /\ 1 \in DOMAIN ordered_queue
      BY <2>3 DEF OneEnd, IsEnd
    <3>2. PICK i \in DOMAIN ordered_queue' : IsEnd(i, s)'
      BY DEF Queued
    <3>3. i + 1 = 1
      BY <2>2, <3>1, <3>2 DEF OneEnd
    <3> QED
      BY <2>2, <3>3
  <2> QED
    BY <1>0, <1>2, <2>3, <2>4, <2>5 DEF OneEnd
<1> QED
  BY <1>3, <1>4

(* An end is looked at.                                                      *)
LEMMA EndIsSeen ==
    ASSUME SenderInv, Peek \/ PeekOrdered, NEW s \in Streams, OneEnd(s), requests' = requests
    PROVE  OneEnd(s)'
<1>0. UNCHANGED <<taskVars, queueVars>> /\ loop # "pop"
      /\ unordered_queue \in Seq(Chunk) /\ ordered_queue \in Seq(Chunk)
  BY DEF Peek, PeekOrdered, SenderInv, SenderTypes
<1>1. ~(Queued(s) /\ s \in sis_to_reset)
  BY <1>0 DEF OneEnd
<1>2. Unpushed(s)' = Unpushed(s) /\ Queued(s)' = Queued(s)
      /\ DOMAIN ordered_queue' = DOMAIN ordered_queue /\ IsEnd(1, s)' = IsEnd(1, s)
      /\ \A i \in DOMAIN ordered_queue : IsEnd(i, s)' = IsEnd(i, s)
  BY <1>0 DEF Unpushed, Queued, IsEnd, taskVars, queueVars
<1>3. \/ sis_to_reset' = sis_to_reset
      \/ /\ loop' = "pop" /\ ~selected /\ ordered_queue # <<>> /\ peeked' = Head(ordered_queue)
         /\ Head(ordered_queue).eos
         /\ sis_to_reset' = sis_to_reset \cup {Head(ordered_queue).stream}
  <2>1. ASSUME Looked(unordered_queue) PROVE sis_to_reset' = sis_to_reset
    <3>1. loop' = "pop" => ~Head(unordered_queue).eos
      BY <2>1, FirstUnordered DEF Looked, Shaped
    <3> QED
      BY <2>1, <3>1 DEF Looked
  <2>2. CASE Peek /\ selected
    BY <1>0, <2>1, <2>2, LookSpec DEF Peek, SenderInv, PendingInv
  <2>3. CASE Peek /\ ~selected
    BY <1>0, <2>1, <2>3, LookSpec DEF Peek
  <2>4. CASE PeekOrdered
    <3>1. Looked(ordered_queue) /\ ~selected
      BY <1>0, <2>4, LookSpec DEF PeekOrdered, SenderInv, PopsPeeked
    <3> QED
      BY <3>1 DEF Looked
  <2> QED
    BY <2>2, <2>3, <2>4
<1>4. CASE sis_to_reset' = sis_to_reset
  BY <1>1, <1>2, <1>4 DEF OneEnd
<1>5. CASE sis_to_reset' # sis_to_reset
  <2>1. /\ loop' = "pop" /\ ~selected /\ ordered_queue # <<>> /\ peeked' = Head(ordered_queue)
        /\ Head(ordered_queue).eos
        /\ sis_to_reset' = sis_to_reset \cup {Head(ordered_queue).stream}
    BY <1>3, <1>5
  <2>2. ~Head(ordered_queue).unordered /\ Head(ordered_queue) = ordered_queue[1]
    BY <2>1, FirstOrdered
  <2>3. ~TakesUnordered'
    BY <1>0, <2>1, <2>2 DEF TakesUnordered, queueVars
  <2>4. 1 \in DOMAIN ordered_queue
    BY <1>0, <2>1, EmptyLen, LenProperties
  <2>5. s = Head(ordered_queue).stream => IsEnd(1, s) /\ Queued(s)
    BY <2>1, <2>2, <2>4 DEF IsEnd, Queued
  <2>6. CASE s = Head(ordered_queue).stream
    <3>1. IsEnd(1, s) /\ Queued(s)
      BY <2>5, <2>6
    <3>2. ~Unpushed(s) /\ \A r \in requests : s \notin r.stream_identifiers
      BY <3>1 DEF OneEnd
    <3> QED
      BY <1>2, <2>1, <2>3, <3>1, <3>2 DEF OneEnd
  <2>7. CASE s # Head(ordered_queue).stream
    <3>1. s \in sis_to_reset' <=> s \in sis_to_reset
      BY <2>1, <2>7
    <3> QED
      BY <1>1, <1>2, <3>1 DEF OneEnd
  <2> QED
    BY <2>6, <2>7
<1> QED
  BY <1>4, <1>5

NewRequest ==
    [rsn |-> my_next_rsn, sender_last_tsn |-> Len(assigned), stream_identifiers |-> sis_to_reset]

(* What the end of gather_outbound does to the requests.                     *)
LEMMA GatherSpec ==
    ASSUME GatherReconfig, SenderTypes, ReceiverTypes
    PROVE  \/ /\ sis_to_reset = {} /\ reconfigs' = reconfigs /\ requests' = requests
              /\ my_next_rsn' = my_next_rsn
              /\ treconfig' = treconfig \/ (will_retransmit_reconfig /\ StartTreconfig)
              /\ \A m \in net' : m \in net \/ \E r \in reconfigs : m = Request(r)
           \/ /\ sis_to_reset # {} /\ reconfigs' = reconfigs \cup {NewRequest}
              /\ requests' = requests \cup {NewRequest} /\ my_next_rsn' = my_next_rsn + 1
              /\ StartTreconfig
              /\ \A m \in net' : \/ m \in net
                                  \/ \E r \in reconfigs \cup {NewRequest} : m = Request(r)
<1> DEFINE new == IF sis_to_reset = {} THEN {} ELSE {NewRequest}
           repeated == IF will_retransmit_reconfig THEN reconfigs ELSE {}
<1>1. /\ reconfigs' = reconfigs \cup new /\ requests' = requests \cup new
      /\ my_next_rsn' = my_next_rsn + Cardinality(new)
      /\ net' = net \cup {Request(r) : r \in repeated \cup new}
      /\ IF sis_to_reset # {} \/ will_retransmit_reconfig THEN StartTreconfig
                                                          ELSE UNCHANGED treconfig
  BY DEF GatherReconfig, NewRequest
<1>2. repeated \subseteq reconfigs /\ my_next_rsn \in Nat
  BY DEF ReceiverTypes
<1> HIDE DEF repeated
<1>3. CASE sis_to_reset = {}
  <2>1. new = {} /\ Cardinality(new) = 0
    BY <1>3, FS_EmptySet
  <2> HIDE DEF new
  <2>2. reconfigs' = reconfigs /\ requests' = requests /\ my_next_rsn' = my_next_rsn
    BY <1>1, <1>2, <2>1
  <2>3. \A m \in net' : m \in net \/ \E r \in reconfigs : m = Request(r)
    BY <1>1, <1>2, <2>1
  <2> QED
    BY <1>1, <1>3, <2>2, <2>3
<1>4. CASE sis_to_reset # {}
  <2>1. new = {NewRequest} /\ Cardinality(new) = 1
    BY <1>4, FS_Singleton
  <2> HIDE DEF new
  <2>2. my_next_rsn' = my_next_rsn + 1 /\ StartTreconfig
    BY <1>1, <1>4, <2>1
  <2>3. \A m \in net' : m \in net \/ \E r \in reconfigs \cup {NewRequest} : m = Request(r)
    BY <1>1, <1>2, <2>1
  <2> QED
    BY <1>1, <1>4, <2>1, <2>2, <2>3
<1> QED
  BY <1>3, <1>4

(* Steps that do not push, look, pop or make a request.                      *)
LEMMA EndsQuiet ==
    ASSUME EndsInv, UNCHANGED <<ordered_queue, sis_to_reset, requests>>,
           \A s \in Streams : Unpushed(s)' = Unpushed(s),
           loop = "pop" => loop' = "pop" /\ UNCHANGED <<selected, unordered_is_selected, peeked>>
    PROVE  EndsInv'
<1>1. loop = "pop" => TakesUnordered' = TakesUnordered
  BY DEF TakesUnordered
<1>2. ASSUME NEW s \in Streams PROVE OneEnd(s)'
  <2>1. \A i \in DOMAIN ordered_queue : IsEnd(i, s)' <=> IsEnd(i, s)
    BY DEF IsEnd
  <2>2. OneEnd(s)
    BY DEF EndsInv
  <2> QED
    BY <1>1, <2>1, <2>2, EndStays
<1> QED
  BY <1>2 DEF EndsInv

(* The ends taken in a turn become one request.                              *)
LEMMA EndsGather ==
    ASSUME SenderInv, ReceiverTypes, EndsInv, GatherReconfig
    PROVE  EndsInv'
<1>0. UNCHANGED <<taskVars, queueVars>> /\ loop = "reconfig" /\ sis_to_reset' = {}
      /\ sis_to_reset \subseteq Streams
  BY DEF GatherReconfig, SenderInv, SenderTypes
<1>1. \A r \in requests' : r \in requests \/ r = NewRequest
  BY GatherSpec DEF SenderInv
<1>2. NewRequest.stream_identifiers = sis_to_reset
  BY DEF NewRequest
<1>3. ASSUME NEW s \in Streams PROVE OneEnd(s)'
  <2>1. OneEnd(s)
    BY DEF EndsInv
  <2>2. Unpushed(s)' = Unpushed(s) /\ Queued(s)' = Queued(s)
        /\ \A i \in DOMAIN ordered_queue : IsEnd(i, s)' = IsEnd(i, s)
    BY <1>0 DEF Unpushed, Queued, IsEnd, taskVars, queueVars
  <2>3. DOMAIN ordered_queue' = DOMAIN ordered_queue
    BY <1>0 DEF queueVars
  <2>4. s \in sis_to_reset => ~Unpushed(s) /\ ~Queued(s)
    BY <1>0, <2>1 DEF OneEnd
  <2>5. \A r \in requests' : s \in r.stream_identifiers => ~Unpushed(s) /\ ~Queued(s)
    BY <1>1, <1>2, <2>1, <2>4 DEF OneEnd
  <2> QED
    BY <1>0, <2>1, <2>2, <2>3, <2>5 DEF OneEnd
<1>4. \A r \in requests' : r.stream_identifiers \subseteq Streams
  BY <1>0, <1>1, <1>2 DEF EndsInv
<1>5. \A r \in requests : r.stream_identifiers \cap sis_to_reset = {}
  BY <1>0 DEF EndsInv, OneEnd
<1>6. ASSUME NEW q \in requests', NEW r \in requests',
             q.stream_identifiers \cap r.stream_identifiers # {}
      PROVE  q = r
  <2>1. CASE q \in requests /\ r \in requests
    BY <1>6, <2>1 DEF EndsInv
  <2>2. CASE q \in requests /\ r = NewRequest
    BY <1>2, <1>5, <1>6, <2>2
  <2>3. CASE q = NewRequest /\ r \in requests
    BY <1>2, <1>5, <1>6, <2>3
  <2> QED
    BY <1>1, <2>1, <2>2, <2>3
<1> QED
  BY <1>3, <1>4, <1>6 DEF EndsInv

(* Every step leaves the end of a stream at one place.                       *)
LEMMA EndsStep ==
    SenderInv /\ ReceiverTypes /\ EndsInv /\ [Next]_vars => EndsInv'
<1> SUFFICES ASSUME SenderInv, ReceiverTypes, EndsInv, [Next]_vars PROVE EndsInv'
  OBVIOUS
<1>0. SenderInv'
  BY SenderStep
<1>1. CASE GatherReconfig
  BY <1>1, EndsGather
<1>2. CASE requests' # requests
  <2>1. GatherReconfig
    BY <1>2 DEF Next, vars, WriteSctp, Close, PushBack, Count, Wake, Peek, PeekOrdered, Pop,
       OnReconfigTimeout, HandleSack, HandleData, HandleForwardTsn, HandleResponse, HandleRequest,
       reconfigVars
  <2> QED
    BY <1>1, <2>1
<1>3. ASSUME requests' = requests, \A s \in Streams : OneEnd(s)' PROVE EndsInv'
  BY <1>3 DEF EndsInv
<1>4. \A s \in Streams : OneEnd(s)
  BY DEF EndsInv
<1>5. ASSUME requests' = requests, SenderQuiet PROVE EndsInv'
  BY <1>5, EndsQuiet DEF SenderQuiet, taskVars, queueVars, loopVars, Unpushed
<1>6. ASSUME requests' = requests, WriteSctp PROVE EndsInv'
  <2>1. pushing \in [Tasks -> Seq(Chunk)]
    BY DEF SenderInv, SenderTypes
  <2>2. \A s \in Streams : Unpushed(s)' = Unpushed(s)
    BY <1>6, <2>1, TasksSpec DEF WriteSctp, Unpushed
  <2> QED
    BY <1>6, <2>2, EndsQuiet DEF WriteSctp, queueVars, loopVars
<1>7. ASSUME requests' = requests, NEW t \in Streams, Close(t) PROVE EndsInv'
  <2>1. pushing \in [Tasks -> Seq(Chunk)]
    BY DEF SenderInv, SenderTypes
  <2>2. t \notin closed /\ pushing[t] = <<>> /\ t \notin uncounted
    BY <1>7 DEF SenderInv, Pushes, Close
  <2>3. /\ pushing'[t] # <<>> /\ closed' = closed \cup {t} /\ uncounted' = uncounted
        /\ \A s \in Streams \ {t} : pushing'[s] = pushing[s]
    BY <1>7, <2>1, TasksSpec DEF Close
  <2>4. \A s \in Streams : Unpushed(s)' = Unpushed(s)
    BY <2>2, <2>3 DEF Unpushed
  <2> QED
    BY <1>7, <2>4, EndsQuiet DEF Close, queueVars, loopVars
<1>8. ASSUME requests' = requests, NEW t \in Tasks, PushBack(t) PROVE EndsInv'
  BY <1>0, <1>3, <1>4, <1>8, EndIsPushed
<1>9. ASSUME requests' = requests, NEW t \in Tasks, Count(t) PROVE EndsInv'
  <2>1. pushing \in [Tasks -> Seq(Chunk)] /\ t \in uncounted /\ pushing[t] # <<>>
        /\ (t \in Streams => t \in closed)
    BY <1>9 DEF SenderInv, SenderTypes, Pushes, Count
  <2>2. /\ pushing' = [pushing EXCEPT ![t] = Tail(@)] /\ closed' = closed
        /\ uncounted' = uncounted \ {t}
    BY <1>9 DEF Count
  <2>3. t \in Streams => Tail(pushing[t]) = <<>>
    <3>1. ASSUME t \in Streams PROVE Tail(pushing[t]) = <<>>
      <4>1. pushing[t] = <<EndOfStream(t)>>
        BY <2>1, <3>1 DEF SenderInv, Pushes
      <4> QED
        BY <4>1
    <3> QED
      BY <3>1
  <2>4. \A s \in Streams \ {t} : pushing'[s] = pushing[s]
    BY <2>1, <2>2, TasksSpec
  <2>5. t \in Streams => pushing'[t] = <<>>
    BY <2>1, <2>2, <2>3
  <2>6. \A s \in Streams : Unpushed(s)' = Unpushed(s)
    BY <2>1, <2>2, <2>4, <2>5 DEF Unpushed
  <2> QED
    BY <1>9, <2>6, EndsQuiet DEF Count, loopVars
<1>10. ASSUME requests' = requests, Wake PROVE EndsInv'
  BY <1>10, EndsQuiet DEF Wake, taskVars, queueVars, Unpushed
<1>11. ASSUME requests' = requests, Peek \/ PeekOrdered PROVE EndsInv'
  BY <1>3, <1>4, <1>11, EndIsSeen
<1>12. ASSUME requests' = requests, Pop PROVE EndsInv'
  BY <1>3, <1>4, <1>12, EndIsPopped
<1>13. ASSUME requests' = requests, OnReconfigTimeout \/ HandleSack PROVE EndsInv'
  BY <1>13, EndsQuiet DEF OnReconfigTimeout, HandleSack, taskVars, queueVars, loopVars, Unpushed
<1> QED
  BY <1>1, <1>2, <1>5, <1>6, <1>7, <1>8, <1>9, <1>10, <1>11, <1>12, <1>13, SenderCases

-----------------------------------------------------------------------------
(* The other end.                                                            *)

(* A set of natural numbers has a least element.                             *)
LEMMA LeastNatural ==
    ASSUME NEW T \in SUBSET Nat, T # {}
    PROVE  \E x \in T : \A y \in T : x <= y
<1>1. IsWellFoundedOn(OpToRel(<, Nat), Nat)
  BY NatLessThanWellFounded
<1>2. \E x \in T : \A y \in T : ~(<<y, x>> \in OpToRel(<, Nat))
  BY <1>1, WFMin, Zenon
<1>3. PICK x \in T : \A y \in T : ~(<<y, x>> \in OpToRel(<, Nat))
  BY <1>2
<1>4. ASSUME NEW y \in T PROVE x <= y
  <2>1. ~(y < x)
    BY <1>3, <1>4 DEF OpToRel
  <2> QED
    BY <2>1
<1> QED
  BY <1>3, <1>4

(* A TSN up to which all chunks are there exists.                            *)
LEMMA AdvancedSpec ==
    ASSUME NEW last \in Nat, NEW queue \in SUBSET Nat, IsFiniteSet(queue)
    PROVE  /\ Advanced(last, queue) \in Nat /\ last <= Advanced(last, queue)
           /\ last + 1 .. Advanced(last, queue) \subseteq queue
           /\ Advanced(last, queue) + 1 \notin queue
<1> DEFINE n == Cardinality(queue)
           gap == {k \in last + 1 .. last + 1 + n : k \notin queue}
<1>1. n \in Nat
  BY FS_CardinalityType
<1>2. gap # {}
  <2> SUFFICES ASSUME gap = {} PROVE FALSE
    OBVIOUS
  <2>1. last + 1 .. last + 1 + n \subseteq queue
    OBVIOUS
  <2>2. Cardinality(last + 1 .. last + 1 + n) <= n
    BY <2>1, FS_Subset
  <2> HIDE DEF n
  <2>3. Cardinality(last + 1 .. last + 1 + n) = n + 1
    BY <1>1, FS_Interval
  <2> QED
    BY <1>1, <2>2, <2>3
<1> HIDE DEF n
<1>3. PICK k \in gap : \A y \in gap : k <= y
  <2>1. gap \in SUBSET Nat
    BY <1>1
  <2> HIDE DEF gap
  <2> QED
    BY <1>2, <2>1, LeastNatural
<1>4. k \in last + 1 .. last + 1 + n /\ k \notin queue
  BY <1>3
<1>5. \A y \in last + 1 .. last + 1 + n : y < k => y \in queue
  BY <1>1, <1>3, <1>4
<1>6. k - 1 \in last .. last + n /\ (k - 1) + 1 = k
  BY <1>1, <1>4
<1>7. last + 1 .. k - 1 \subseteq queue /\ (k - 1) + 1 \notin queue
  BY <1>1, <1>4, <1>5, <1>6
<1>8. \E t \in last .. last + n : last + 1 .. t \subseteq queue /\ t + 1 \notin queue
  BY <1>6, <1>7
<1>9. /\ Advanced(last, queue) \in last .. last + n
      /\ last + 1 .. Advanced(last, queue) \subseteq queue
      /\ Advanced(last, queue) + 1 \notin queue
  BY <1>8 DEF Advanced, n
<1> QED
  BY <1>1, <1>9

(* Steps that leave the other end and the requests alone.                    *)
PeerQuiet ==
    /\ UNCHANGED <<receiveVars, reconfigs, my_next_rsn, treconfig, requests, net>>
    /\ Len(assigned) <= Len(assigned')
    /\ will_retransmit_reconfig' \in BOOLEAN /\ expired' \in BOOLEAN

(* More chunks with a TSN do no harm.                                        *)
LEMMA MoreAssigned ==
    ASSUME ReceiverTypes, SenderTypes, SenderTypes', Len(assigned) <= Len(assigned')
    PROVE  /\ ResetRequest \subseteq ResetRequest' /\ 1 .. Len(assigned) \subseteq 1 .. Len(assigned')
           /\ 0 .. Len(assigned) \subseteq 0 .. Len(assigned')
<1>1. Len(assigned) \in Nat /\ Len(assigned') \in Nat
  BY LenProperties DEF SenderTypes
<1>2. 0 .. Len(assigned) \subseteq 0 .. Len(assigned')
  BY <1>1
<1> QED
  BY <1>1, <1>2 DEF ResetRequest

(* A step of the sender that makes no request keeps the other end's          *)
(* invariant.                                                                *)
LEMMA QuietPeer ==
    ASSUME SenderInv, SenderInv', PeerInv, PeerQuiet
    PROVE  PeerInv'
<1> USE DEF PeerQuiet, receiveVars
<1>1. /\ ResetRequest \subseteq ResetRequest' /\ 1 .. Len(assigned) \subseteq 1 .. Len(assigned')
      /\ 0 .. Len(assigned) \subseteq 0 .. Len(assigned')
  BY MoreAssigned DEF PeerInv, SenderInv
<1>2. ReceiverTypes'
  BY <1>1 DEF PeerInv, ReceiverTypes, Request
<1>3. Received' /\ Numbered' /\ Answered' /\ GoneWasAsked'
  BY DEF PeerInv, Received, Numbered, Answered, GoneWasAsked, Response
<1>4. RequestNotForgotten' /\ TimerEnds' /\ WaitsForMissing'
  BY DEF PeerInv, RequestNotForgotten, TimerEnds, WaitsForMissing
<1> QED
  BY <1>2, <1>3, <1>4 DEF PeerInv

(* The numbers in the types of the receiver.                                 *)
LEMMA PeerNumbers ==
    ASSUME SenderInv, PeerInv
    PROVE  /\ Len(assigned) \in Nat /\ peer_last_tsn \in Nat /\ peer_last_tsn <= Len(assigned)
           /\ payload_queue \subseteq Nat /\ IsFiniteSet(payload_queue)
           /\ \A t \in payload_queue : t <= Len(assigned)
           /\ \A r \in requests : /\ r.sender_last_tsn \in Nat /\ r.rsn \in Nat
                                   /\ r.stream_identifiers \subseteq Streams
           /\ reconfig_requests \subseteq requests /\ reconfigs \subseteq requests
<1>1. Len(assigned) \in Nat
  BY LenProperties DEF SenderInv, SenderTypes
<1>2. peer_last_tsn \in Nat /\ peer_last_tsn <= Len(assigned)
  BY <1>1 DEF PeerInv, ReceiverTypes
<1>3. payload_queue \subseteq 1 .. Len(assigned)
  BY DEF PeerInv, ReceiverTypes
<1>4. IsFiniteSet(payload_queue)
  <2>1. IsFiniteSet(1 .. Len(assigned))
    BY <1>1, FS_Interval
  <2> QED
    BY <1>3, <2>1, FS_Subset
<1>5. \A r \in requests : /\ r.sender_last_tsn \in Nat /\ r.rsn \in Nat
                           /\ r.stream_identifiers \subseteq Streams
  BY <1>1 DEF PeerInv, ReceiverTypes, ResetRequest
<1>6. payload_queue \subseteq Nat /\ \A t \in payload_queue : t <= Len(assigned)
  BY <1>1, <1>3
<1> QED
  BY <1>1, <1>2, <1>4, <1>5, <1>6 DEF PeerInv, ReceiverTypes

(* reset_streams_if_any for requests that were made: a request that is       *)
(* performed has its streams gone, the others are kept, and all are          *)
(* answered.                                                                 *)
LEMMA PerformStep ==
    ASSUME SenderInv, PeerInv, NEW rs, rs \subseteq requests, NEW last \in Nat,
           peer_last_tsn <= last, peer_last_tsn' = last, ResetStreams(rs, last),
           UNCHANGED <<requests, reconfigs, treconfig>>,
           \A m \in net' : m \in net \/ \E r \in rs : m = Response(r)
    PROVE  /\ Answered' /\ GoneWasAsked' /\ RequestNotForgotten'
           /\ streams' \subseteq Streams /\ reconfig_requests' \subseteq requests
           /\ \A r \in reconfig_requests' :
                 \/ r \in reconfig_requests /\ r \notin rs
                 \/ r \in rs /\ r.sender_last_tsn > last
<1> DEFINE done == Performable(rs, last)
           ids == UNION {r.stream_identifiers : r \in done}
<1>1. streams' = streams \ ids /\ reconfig_requests' = (reconfig_requests \cup rs) \ done
  BY DEF ResetStreams
<1>2. \A r \in done : r \in rs /\ r \in requests /\ r.sender_last_tsn <= last
  BY DEF Performable
<1>3. \A r \in rs \ done : r.sender_last_tsn > last
  BY PeerNumbers DEF Performable
<1> HIDE DEF done
<1>4. \A r \in reconfig_requests \cup rs :
         r \in reconfig_requests' \/ r.stream_identifiers \cap streams' = {}
  BY <1>1
<1>5. streams' \subseteq streams /\ streams \subseteq Streams /\ reconfig_requests \subseteq requests
  BY <1>1, PeerNumbers DEF PeerInv, ReceiverTypes
<1>6. Answered'
  <2> SUFFICES ASSUME NEW r \in requests, Response(r) \in net'
               PROVE  r.stream_identifiers \cap streams' = {} \/ r \in reconfig_requests'
    BY DEF Answered, Response
  <2>1. CASE Response(r) \in net
    BY <1>4, <1>5, <2>1 DEF PeerInv, Answered
  <2>2. CASE \E q \in rs : Response(r) = Response(q)
    <3>1. PICK q \in rs : Response(r) = Response(q)
      BY <2>2
    <3>2. r.rsn = q.rsn
      BY <3>1 DEF Response
    <3>3. r = q
      BY <3>1, <3>2 DEF PeerInv, Numbered
    <3> QED
      BY <1>4, <3>1, <3>3
  <2> QED
    BY <2>1, <2>2
<1>7. GoneWasAsked'
  <2> SUFFICES ASSUME NEW s \in Streams \ streams'
               PROVE  \E r \in requests : s \in r.stream_identifiers /\ r.sender_last_tsn <= last
    BY DEF GoneWasAsked
  <2>1. CASE s \in ids
    BY <1>2, <2>1
  <2>2. CASE s \notin ids
    <3>1. s \in Streams \ streams
      BY <1>1, <2>2
    <3>2. PICK r \in requests : s \in r.stream_identifiers /\ r.sender_last_tsn <= peer_last_tsn
      BY <3>1 DEF PeerInv, GoneWasAsked
    <3>3. r.sender_last_tsn <= last
      BY <3>2, PeerNumbers
    <3> QED
      BY <3>2, <3>3
  <2> QED
    BY <2>1, <2>2
<1>8. RequestNotForgotten'
  BY <1>4, <1>5 DEF PeerInv, RequestNotForgotten
<1>9. \A r \in reconfig_requests' :
         \/ r \in reconfig_requests /\ r \notin rs
         \/ r \in rs /\ r.sender_last_tsn > last
  BY <1>1, <1>3
<1>10. streams' \subseteq Streams /\ reconfig_requests' \subseteq requests
  BY <1>1, <1>5
<1> QED
  BY <1>6, <1>7, <1>8, <1>9, <1>10

(* handle_peer_last_tsn_and_acknowledgement, from a TSN up to which every    *)
(* chunk is passed or skipped.                                               *)
LEMMA AdvanceStep ==
    ASSUME SenderInv, PeerInv, NEW last \in Nat, peer_last_tsn <= last, last <= Len(assigned),
           NEW queue \in SUBSET (1 .. Len(assigned)), HandlePeerLastTsn(last, queue),
           UNCHANGED <<assigned, requests, reconfigs, treconfig, my_next_rsn,
                       will_retransmit_reconfig, expired>>,
           passed' \subseteq 1 .. Len(assigned), skipped' \subseteq 1 .. Len(assigned),
           1 .. last \subseteq passed' \cup skipped', queue \subseteq passed',
           passed' \subseteq 1 .. last \cup queue, skipped \subseteq skipped',
           \A k \in queue : k > last,
           \A r \in reconfig_requests :
              r.sender_last_tsn > last \/ \E u \in skipped' : u <= r.sender_last_tsn
    PROVE  PeerInv'
<1> DEFINE to == Advanced(last, queue)
           rs == Retried(last, queue)
<1>0. /\ Len(assigned) \in Nat /\ IsFiniteSet(queue) /\ queue \in SUBSET Nat
      /\ peer_last_tsn \in Nat
  <2>1. Len(assigned) \in Nat /\ peer_last_tsn \in Nat
    BY PeerNumbers
  <2>2. IsFiniteSet(1 .. Len(assigned))
    BY <2>1, FS_Interval
  <2>3. IsFiniteSet(queue)
    BY <2>2, FS_Subset
  <2>4. queue \in SUBSET Nat
    BY <2>1
  <2> QED
    BY <2>1, <2>3, <2>4
<1>1. to \in Nat /\ last <= to /\ last + 1 .. to \subseteq queue /\ to + 1 \notin queue
  BY <1>0, AdvancedSpec
<1>2. /\ peer_last_tsn' = to /\ payload_queue' = {t \in queue : t > to} /\ ResetStreams(rs, to)
      /\ net' = net \cup {Response(r) : r \in rs}
  BY DEF HandlePeerLastTsn
<1>3. rs = IF to > last THEN reconfig_requests ELSE {}
  BY DEF Retried
<1> HIDE DEF to, rs
<1>4. rs \subseteq requests /\ reconfig_requests \subseteq requests
  BY <1>3, PeerNumbers
<1>5. to <= Len(assigned)
  <2>1. CASE to = last
    BY <2>1
  <2>2. CASE to # last
    <3>1. to \in last + 1 .. to
      BY <1>1, <2>2
    <3> QED
      BY <1>0, <1>1, <3>1
  <2> QED
    BY <2>1, <2>2
<1>6. /\ Answered' /\ GoneWasAsked' /\ RequestNotForgotten'
      /\ streams' \subseteq Streams /\ reconfig_requests' \subseteq requests
      /\ \A r \in reconfig_requests' :
            \/ r \in reconfig_requests /\ r \notin rs
            \/ r \in rs /\ r.sender_last_tsn > to
  <2>1. peer_last_tsn <= to
    BY <1>0, <1>1
  <2>2. \A m \in net' : m \in net \/ \E r \in rs : m = Response(r)
    BY <1>2
  <2> QED
    BY <1>1, <1>2, <1>4, <2>1, <2>2, PerformStep
<1>7. Received'
  <2>1. 1 .. to \subseteq passed' \cup skipped'
    <3> SUFFICES ASSUME NEW k \in 1 .. to PROVE k \in passed' \cup skipped'
      OBVIOUS
    <3>1. k \in 1 .. last \/ k \in last + 1 .. to
      BY <1>1
    <3> QED
      BY <1>1, <3>1
  <2>2. payload_queue' \subseteq passed'
    BY <1>2
  <2>3. passed' \subseteq 1 .. to \cup payload_queue'
    <3> SUFFICES ASSUME NEW k \in passed', k \notin payload_queue' PROVE k \in 1 .. to
      OBVIOUS
    <3>1. k \in 1 .. last \/ k \in queue
      OBVIOUS
    <3>2. CASE k \in 1 .. last
      BY <1>1, <3>2
    <3>3. CASE k \in queue
      <4>1. ~(k > to)
        BY <1>2, <3>3
      <4>2. k \in Nat /\ k > last
        BY <1>0, <3>3
      <4> QED
        BY <1>1, <4>1, <4>2
    <3> QED
      BY <3>1, <3>2, <3>3
  <2>4. \A k \in payload_queue' : k > to + 1
    BY <1>0, <1>1, <1>2
  <2> QED
    BY <1>2, <2>1, <2>2, <2>3, <2>4 DEF Received
<1>8. WaitsForMissing'
  <2> SUFFICES ASSUME NEW r \in reconfig_requests'
               PROVE  r.sender_last_tsn > to \/ \E u \in skipped' : u <= r.sender_last_tsn
    BY <1>2 DEF WaitsForMissing
  <2>1. CASE r \in rs
    BY <1>6, <2>1
  <2>2. CASE r \notin rs
    <3>1. r \in reconfig_requests
      BY <1>6, <2>2
    <3>2. to = last
      BY <1>1, <1>3, <2>2, <3>1
    <3> QED
      BY <3>1, <3>2
  <2> QED
    BY <2>1, <2>2
<1>9. ReceiverTypes'
  <2>1. \A m \in net' : \/ \E r \in requests : m = Request(r)
                       \/ m \in [type : {"RESPONSE"}, rsn : Nat]
    <3> SUFFICES ASSUME NEW m \in net' PROVE \/ \E r \in requests : m = Request(r)
                                             \/ m \in [type : {"RESPONSE"}, rsn : Nat]
      OBVIOUS
    <3>1. CASE m \in net
      BY <3>1 DEF PeerInv, ReceiverTypes
    <3>2. CASE \E r \in rs : m = Response(r)
      BY <1>4, <3>2, PeerNumbers DEF Response
    <3> QED
      BY <1>2, <3>1, <3>2
  <2>2. net' \subseteq {Request(r) : r \in requests'} \cup [type : {"RESPONSE"}, rsn : Nat]
    BY <2>1 DEF Request
  <2>3. peer_last_tsn' \in 0 .. Len(assigned) /\ payload_queue' \subseteq 1 .. Len(assigned)
    <3>1. to \in 0 .. Len(assigned)
      BY <1>0, <1>1, <1>5
    <3> QED
      BY <1>2, <3>1, Zenon
  <2>4. ResetRequest' = ResetRequest
    BY DEF ResetRequest
  <2> QED
    BY <1>6, <2>2, <2>3, <2>4 DEF PeerInv, ReceiverTypes
<1>10. Numbered'
  <2>1. ASSUME NEW m \in net', m.type = "RESPONSE" PROVE m.rsn < my_next_rsn
    <3>1. CASE m \in net
      BY <2>1, <3>1 DEF PeerInv, Numbered
    <3>2. CASE \E r \in rs : m = Response(r)
      BY <1>4, <3>2 DEF Response, PeerInv, Numbered
    <3> QED
      BY <1>2, <3>1, <3>2
  <2> QED
    BY <2>1 DEF PeerInv, Numbered
<1>11. TimerEnds'
  BY DEF PeerInv, TimerEnds
<1> QED
  BY <1>6, <1>7, <1>8, <1>9, <1>10, <1>11 DEF PeerInv

(* A chunk arrives; requests that waited for it are performed.               *)
LEMMA DataStep ==
    ASSUME SenderInv, PeerInv, NEW t \in DOMAIN assigned, HandleData(t)
    PROVE  PeerInv'
<1>0. /\ UNCHANGED <<sendVars, reconfigVars, expired, skipped>>
      /\ t > peer_last_tsn /\ passed' = passed \cup {t}
      /\ HandlePeerLastTsn(peer_last_tsn, payload_queue \cup {t})
  BY DEF HandleData
<1>1. t \in 1 .. Len(assigned)
  BY LenProperties DEF SenderInv, SenderTypes
<1>2. /\ passed \subseteq 1 .. Len(assigned) /\ skipped \subseteq 1 .. Len(assigned)
      /\ payload_queue \subseteq 1 .. Len(assigned)
  BY DEF PeerInv, ReceiverTypes
<1>3. peer_last_tsn \in Nat /\ peer_last_tsn <= Len(assigned)
  BY PeerNumbers
<1>4. /\ 1 .. peer_last_tsn \subseteq passed' \cup skipped'
      /\ payload_queue \cup {t} \subseteq passed'
      /\ passed' \subseteq 1 .. peer_last_tsn \cup (payload_queue \cup {t})
  BY <1>0 DEF PeerInv, Received
<1>5. \A k \in payload_queue \cup {t} : k > peer_last_tsn
  <2> SUFFICES ASSUME NEW k \in payload_queue PROVE k > peer_last_tsn
    BY <1>0
  <2>1. k > peer_last_tsn + 1 /\ k \in Int
    BY PeerNumbers DEF PeerInv, Received
  <2> QED
    BY <1>3, <2>1
<1>6. \A r \in reconfig_requests :
         r.sender_last_tsn > peer_last_tsn \/ \E u \in skipped' : u <= r.sender_last_tsn
  BY <1>0 DEF PeerInv, WaitsForMissing
<1>7. payload_queue \cup {t} \in SUBSET (1 .. Len(assigned)) /\ peer_last_tsn <= peer_last_tsn
      /\ passed' \subseteq 1 .. Len(assigned) /\ skipped' \subseteq 1 .. Len(assigned)
  <2>1. peer_last_tsn <= peer_last_tsn
    BY <1>3
  <2> QED
    BY <1>0, <1>1, <1>2, <2>1, Zenon
<1> QED
  BY <1>0, <1>3, <1>4, <1>5, <1>6, <1>7, AdvanceStep DEF sendVars, reconfigVars

(* FORWARD-TSN skips chunks; the requests are tried again only if chunks     *)
(* behind it were there already.                                             *)
LEMMA ForwardStep ==
    ASSUME SenderInv, PeerInv, NEW t \in DOMAIN assigned, HandleForwardTsn(t)
    PROVE  PeerInv'
<1> DEFINE queue == {u \in payload_queue : u > t}
           last == peer_last_tsn
<1>0. /\ UNCHANGED <<sendVars, reconfigVars, expired, passed>>
      /\ t > last /\ skipped' = skipped \cup (last + 1 .. t \ passed)
      /\ HandlePeerLastTsn(t, queue)
  BY DEF HandleForwardTsn
<1>1. t \in 1 .. Len(assigned) /\ Len(assigned) \in Nat
  BY LenProperties DEF SenderInv, SenderTypes
<1>2. /\ passed \subseteq 1 .. Len(assigned) /\ skipped \subseteq 1 .. Len(assigned)
      /\ payload_queue \subseteq 1 .. Len(assigned)
  BY DEF PeerInv, ReceiverTypes
<1>3. last \in Nat /\ last <= Len(assigned)
  BY PeerNumbers
<1>4. 1 .. t \subseteq passed \cup skipped'
  <2> SUFFICES ASSUME NEW k \in 1 .. t, k \notin passed PROVE k \in skipped'
    OBVIOUS
  <2>1. CASE k \in 1 .. last
    BY <1>0, <2>1 DEF PeerInv, Received
  <2>2. CASE k \in last + 1 .. t
    BY <1>0, <2>2
  <2> QED
    BY <1>3, <2>1, <2>2
<1>5. queue \subseteq passed /\ \A k \in queue : k > t
  BY DEF PeerInv, Received
<1>6. passed \subseteq 1 .. t \cup queue
  <2> SUFFICES ASSUME NEW k \in passed, k \notin queue PROVE k \in 1 .. t
    OBVIOUS
  <2>1. k \in 1 .. Len(assigned) /\ (k \in 1 .. last \/ k \in payload_queue)
    BY <1>2 DEF PeerInv, Received
  <2>2. CASE k \in 1 .. last
    BY <1>0, <1>1, <1>3, <2>2
  <2>3. CASE k \in payload_queue
    BY <1>1, <2>1, <2>3
  <2> QED
    BY <2>1, <2>2, <2>3
<1>7. last + 1 \notin passed
  <2>1. \A k \in payload_queue : k > last + 1
    BY DEF PeerInv, Received
  <2>2. last + 1 \notin payload_queue /\ last + 1 \notin 1 .. last
    BY <1>3, <2>1
  <2> QED
    BY <2>2 DEF PeerInv, Received
<1>8. last + 1 \in skipped'
  BY <1>0, <1>1, <1>3, <1>7
<1>9. \A r \in reconfig_requests :
         r.sender_last_tsn > t \/ \E u \in skipped' : u <= r.sender_last_tsn
  <2> TAKE r \in reconfig_requests
  <2>1. r.sender_last_tsn \in Nat
    BY PeerNumbers
  <2>2. CASE r.sender_last_tsn > last
    <3>1. last + 1 <= r.sender_last_tsn
      BY <1>3, <2>1, <2>2
    <3> QED
      BY <1>8, <3>1
  <2>3. CASE ~(r.sender_last_tsn > last)
    BY <1>0, <2>3 DEF PeerInv, WaitsForMissing
  <2> QED
    BY <2>2, <2>3
<1>10. /\ t \in Nat /\ last <= t /\ t <= Len(assigned) /\ queue \in SUBSET (1 .. Len(assigned))
       /\ passed' = passed /\ skipped \subseteq skipped'
       /\ passed' \subseteq 1 .. Len(assigned) /\ skipped' \subseteq 1 .. Len(assigned)
  <2>1. t \in Nat /\ last <= t /\ t <= Len(assigned)
    BY <1>0, <1>1, <1>3
  <2>2. last + 1 .. t \subseteq 1 .. Len(assigned)
    BY <1>1, <1>3
  <2>3. queue \in SUBSET (1 .. Len(assigned))
    BY <1>2
  <2>4. passed' = passed /\ skipped \subseteq skipped' /\ skipped' \subseteq 1 .. Len(assigned)
    BY <1>0, <1>2, <2>2, Zenon
  <2> QED
    BY <1>2, <2>1, <2>3, <2>4
<1>11. 1 .. t \subseteq passed' \cup skipped' /\ queue \subseteq passed' /\ passed' \subseteq 1 .. t \cup queue
  BY <1>4, <1>5, <1>6, <1>10
<1> HIDE DEF queue
<1> QED
  BY <1>0, <1>5, <1>9, <1>10, <1>11, AdvanceStep DEF sendVars, reconfigVars

(* A request arrives, and is performed or kept, and answered.                *)
LEMMA RequestStep ==
    ASSUME SenderInv, PeerInv, NEW m \in net, HandleRequest(m)
    PROVE  PeerInv'
<1>0. /\ UNCHANGED <<peer_last_tsn, payload_queue, passed, skipped, sendVars, reconfigVars, expired>>
      /\ m.type = "RECONFIG" /\ ResetStreams({m.request}, peer_last_tsn)
      /\ net' = (net \ {m}) \cup {Response(m.request)}
  BY DEF HandleRequest
<1>1. m.request \in requests
  <2>1. m \notin [type : {"RESPONSE"}, rsn : Nat]
    BY <1>0
  <2>2. PICK r \in requests : m = Request(r)
    BY <2>1 DEF PeerInv, ReceiverTypes
  <2> QED
    BY <2>2 DEF Request
<1>2. peer_last_tsn \in Nat /\ peer_last_tsn <= peer_last_tsn
  BY PeerNumbers
<1>3. /\ Answered' /\ GoneWasAsked' /\ RequestNotForgotten'
      /\ streams' \subseteq Streams /\ reconfig_requests' \subseteq requests
      /\ \A r \in reconfig_requests' :
            \/ r \in reconfig_requests /\ r \notin {m.request}
            \/ r \in {m.request} /\ r.sender_last_tsn > peer_last_tsn
  <2>1. {m.request} \subseteq requests
    BY <1>1
  <2>2. \A n \in net' : n \in net \/ \E r \in {m.request} : n = Response(r)
    BY <1>0
  <2> QED
    BY <1>0, <1>2, <2>1, <2>2, PerformStep DEF reconfigVars
<1>4. WaitsForMissing'
  BY <1>0, <1>3 DEF PeerInv, WaitsForMissing
<1>5. Received' /\ TimerEnds'
  BY <1>0 DEF PeerInv, Received, TimerEnds, reconfigVars
<1>6. Response(m.request) \in [type : {"RESPONSE"}, rsn : Nat]
      /\ Response(m.request).rsn < my_next_rsn
  BY <1>1, PeerNumbers DEF Response, PeerInv, Numbered
<1>7. ReceiverTypes'
  <2>1. ResetRequest' = ResetRequest
    BY <1>0 DEF ResetRequest, sendVars
  <2>2. net' \subseteq {Request(r) : r \in requests'} \cup [type : {"RESPONSE"}, rsn : Nat]
    <3>1. {Request(r) : r \in requests'} = {Request(r) : r \in requests}
      BY <1>0 DEF reconfigVars
    <3> QED
      BY <1>0, <1>6, <3>1, Zenon DEF PeerInv, ReceiverTypes
  <2> QED
    BY <1>0, <1>3, <2>1, <2>2 DEF PeerInv, ReceiverTypes, reconfigVars, sendVars
<1>8. Numbered'
  <2>1. \A n \in net' : n.type = "RESPONSE" => n.rsn < my_next_rsn
    BY <1>0, <1>6 DEF PeerInv, Numbered
  <2> QED
    BY <1>0, <2>1 DEF PeerInv, Numbered, reconfigVars
<1> QED
  BY <1>3, <1>4, <1>5, <1>7, <1>8 DEF PeerInv

(* A response takes back the request, which the peer has.                    *)
LEMMA ResponseStep ==
    ASSUME SenderInv, PeerInv, NEW m \in net, HandleResponse(m)
    PROVE  PeerInv'
<1>0. /\ UNCHANGED <<sendVars, my_next_rsn, will_retransmit_reconfig, requests, receiveVars>>
      /\ m.type = "RESPONSE" /\ reconfigs' = {r \in reconfigs : r.rsn # m.rsn}
      /\ net' = net \ {m} /\ treconfig' = (treconfig /\ reconfigs' # {})
      /\ (expired' = expired \/ expired' = TRUE)
  BY DEF HandleResponse, StopTreconfig
<1>1. \A r \in requests : r.rsn = m.rsn => Response(r) = m
  <2>1. m \in [type : {"RESPONSE"}, rsn : Nat]
    <3>1. ASSUME NEW r \in requests, m = Request(r) PROVE FALSE
      BY <1>0, <3>1 DEF Request
    <3> QED
      BY <3>1 DEF PeerInv, ReceiverTypes
  <2>2. m = [type |-> "RESPONSE", rsn |-> m.rsn]
    BY <2>1
  <2> QED
    BY <2>2, Zenon DEF Response
<1>2. RequestNotForgotten'
  <2> SUFFICES ASSUME NEW r \in requests
               PROVE  \/ r.stream_identifiers \cap streams = {}
                      \/ r \in reconfig_requests
                      \/ r \in reconfigs' /\ treconfig'
    BY <1>0 DEF RequestNotForgotten, receiveVars
  <2>1. CASE r.rsn = m.rsn
    <3>1. Response(r) \in net
      BY <1>1, <2>1
    <3> QED
      BY <3>1 DEF PeerInv, Answered
  <2>2. CASE r.rsn # m.rsn
    BY <1>0, <2>2 DEF PeerInv, RequestNotForgotten
  <2> QED
    BY <2>1, <2>2
<1>3. TimerEnds'
  BY <1>0 DEF TimerEnds
<1>4. Received' /\ GoneWasAsked' /\ WaitsForMissing'
  BY <1>0 DEF PeerInv, Received, GoneWasAsked, WaitsForMissing, receiveVars
<1>5. Numbered' /\ Answered'
  BY <1>0 DEF PeerInv, Numbered, Answered, Response, receiveVars
<1>6. ReceiverTypes'
  <2>1. ResetRequest' = ResetRequest
    BY <1>0 DEF ResetRequest, sendVars
  <2>2. treconfig' \in BOOLEAN /\ expired' \in BOOLEAN
    BY <1>0 DEF PeerInv, ReceiverTypes
  <2>3. reconfigs' \subseteq requests'
    BY <1>0, PeerNumbers
  <2>4. net' \subseteq {Request(r) : r \in requests'} \cup [type : {"RESPONSE"}, rsn : Nat]
    BY <1>0 DEF PeerInv, ReceiverTypes, Request
  <2> QED
    BY <1>0, <2>1, <2>2, <2>3, <2>4 DEF PeerInv, ReceiverTypes, receiveVars, sendVars
<1> QED
  BY <1>2, <1>3, <1>4, <1>5, <1>6 DEF PeerInv

(* A turn of the write loop sends new and old requests and starts the timer. *)
LEMMA PeerGather ==
    ASSUME SenderInv, EndsInv, PeerInv, GatherReconfig
    PROVE  PeerInv'
<1>0. /\ UNCHANGED <<sendVars, expired, receiveVars>> /\ will_retransmit_reconfig' = FALSE
      /\ sis_to_reset \subseteq Streams /\ Len(assigned) \in Nat /\ my_next_rsn \in Nat
      /\ treconfig \in BOOLEAN
  BY LenProperties DEF GatherReconfig, SenderInv, SenderTypes, PeerInv, ReceiverTypes
<1>1. Received' /\ WaitsForMissing'
  BY <1>0 DEF PeerInv, Received, WaitsForMissing, receiveVars
<1>2. ResetRequest' = ResetRequest
  BY <1>0 DEF ResetRequest, sendVars
<1>3. CASE requests' = requests
  <2>1. /\ reconfigs' = reconfigs /\ my_next_rsn' = my_next_rsn
        /\ (treconfig' = treconfig \/ StartTreconfig)
        /\ \A m \in net' : m \in net \/ \E r \in reconfigs : m = Request(r)
    <3>1. NewRequest \notin requests
      <4>1. NewRequest.rsn = my_next_rsn
        BY DEF NewRequest
      <4> QED
        BY <1>0, <4>1 DEF PeerInv, Numbered
    <3> QED
      BY <1>3, <3>1, GatherSpec DEF SenderInv, PeerInv
  <2>2. treconfig' \in BOOLEAN /\ (treconfig' => reconfigs # {}) /\ (treconfig => treconfig')
    <3>1. treconfig => reconfigs # {}
      BY DEF PeerInv, TimerEnds
    <3>2. CASE treconfig' = treconfig
      BY <1>0, <3>1, <3>2
    <3>3. CASE StartTreconfig
      <4>1. treconfig' = (treconfig \/ reconfigs # {})
        BY <2>1, <3>3 DEF StartTreconfig
      <4> QED
        BY <3>1, <4>1, Zenon
    <3> QED
      BY <2>1, <3>2, <3>3
  <2>3. RequestNotForgotten' /\ TimerEnds' /\ GoneWasAsked'
    BY <1>0, <1>3, <2>1, <2>2 DEF PeerInv, RequestNotForgotten, TimerEnds, GoneWasAsked, receiveVars
  <2>4. \A m \in net' : m.type = "RESPONSE" => m \in net
    BY <2>1 DEF Request
  <2>5. Numbered' /\ Answered'
    <3>1. \A r \in requests : Response(r) \in net' => Response(r) \in net
      BY <2>4 DEF Response
    <3>2. Answered'
      BY <1>0, <1>3, <3>1 DEF PeerInv, Answered, Response, receiveVars
    <3> QED
      BY <1>3, <2>1, <2>4, <3>2 DEF PeerInv, Numbered
  <2>6. net' \subseteq {Request(r) : r \in requests'} \cup [type : {"RESPONSE"}, rsn : Nat]
    <3>1. reconfigs \subseteq requests
      BY PeerNumbers
    <3> QED
      BY <1>3, <2>1, <3>1 DEF PeerInv, ReceiverTypes, Request
  <2>7. ReceiverTypes'
    BY <1>0, <1>2, <1>3, <2>1, <2>2, <2>6 DEF PeerInv, ReceiverTypes, receiveVars, sendVars
  <2> QED
    BY <1>1, <2>3, <2>5, <2>7 DEF PeerInv
<1>4. CASE requests' # requests
  <2>1. /\ sis_to_reset # {} /\ reconfigs' = reconfigs \cup {NewRequest}
        /\ requests' = requests \cup {NewRequest} /\ my_next_rsn' = my_next_rsn + 1
        /\ StartTreconfig
        /\ \A m \in net' : \/ m \in net
                            \/ \E r \in reconfigs \cup {NewRequest} : m = Request(r)
    BY <1>4, GatherSpec DEF SenderInv, PeerInv
  <2>2. /\ NewRequest.rsn = my_next_rsn /\ NewRequest.sender_last_tsn = Len(assigned)
        /\ NewRequest.stream_identifiers = sis_to_reset /\ NewRequest \in ResetRequest
    <3>1. Len(assigned) \in 0 .. Len(assigned)
      BY <1>0
    <3> QED
      BY <1>0, <3>1 DEF NewRequest, ResetRequest
  <2>3. treconfig' = TRUE
    BY <2>1 DEF StartTreconfig
  <2>4. RequestNotForgotten' /\ TimerEnds'
    BY <1>0, <2>1, <2>3 DEF PeerInv, RequestNotForgotten, TimerEnds, receiveVars
  <2>5. GoneWasAsked'
    BY <1>0, <2>1 DEF PeerInv, GoneWasAsked, receiveVars
  <2>6. \A m \in net' : m.type = "RESPONSE" => m \in net
    BY <2>1 DEF Request
  <2>7. Numbered'
    <3>1. ASSUME NEW r \in requests' PROVE r.rsn < my_next_rsn'
      <4>1. CASE r \in requests
        <5>1. r.rsn < my_next_rsn /\ r.rsn \in Nat
          BY <4>1, PeerNumbers DEF PeerInv, Numbered
        <5> QED
          BY <1>0, <2>1, <5>1
      <4>2. CASE r = NewRequest
        BY <1>0, <2>1, <2>2, <4>2
      <4> QED
        BY <2>1, <4>1, <4>2
    <3>2. \A r \in requests : r.rsn # my_next_rsn
      <4> TAKE r \in requests
      <4>1. r.rsn < my_next_rsn /\ r.rsn \in Nat
        BY PeerNumbers DEF PeerInv, Numbered
      <4> QED
        BY <1>0, <4>1
    <3>3. \A q, r \in requests' : q.rsn = r.rsn => q = r
      BY <2>1, <2>2, <3>2 DEF PeerInv, Numbered
    <3>4. ASSUME NEW m \in net', m.type = "RESPONSE" PROVE m.rsn < my_next_rsn'
      <4>1. m \in net
        BY <2>6, <3>4
      <4>2. m.rsn \in Nat
        BY <3>4, <4>1 DEF PeerInv, ReceiverTypes, Request
      <4>3. m.rsn < my_next_rsn
        BY <3>4, <4>1 DEF PeerInv, Numbered
      <4> QED
        BY <1>0, <2>1, <4>2, <4>3
    <3> QED
      BY <3>1, <3>3, <3>4 DEF Numbered
  <2>8. Answered'
    <3> SUFFICES ASSUME NEW r \in requests', Response(r) \in net'
                 PROVE  r.stream_identifiers \cap streams = {} \/ r \in reconfig_requests
      BY <1>0 DEF Answered, Response, receiveVars
    <3>1. Response(r) \in net /\ Response(r).type = "RESPONSE" /\ Response(r).rsn = r.rsn
      BY <2>6 DEF Response
    <3>2. r.rsn < my_next_rsn
      BY <3>1 DEF PeerInv, Numbered
    <3>3. r \in requests
      BY <1>0, <2>1, <2>2, <3>2
    <3> QED
      BY <3>1, <3>3 DEF PeerInv, Answered
  <2>9. net' \subseteq {Request(r) : r \in requests'} \cup [type : {"RESPONSE"}, rsn : Nat]
    <3>1. reconfigs \subseteq requests
      BY PeerNumbers
    <3> QED
      BY <2>1, <3>1 DEF PeerInv, ReceiverTypes, Request
  <2>10. ReceiverTypes'
    <3>1. requests' \subseteq ResetRequest' /\ reconfigs' \subseteq requests'
          /\ reconfig_requests' \subseteq requests' /\ my_next_rsn' \in Nat
      BY <1>0, <1>2, <2>1, <2>2 DEF PeerInv, ReceiverTypes, receiveVars
    <3> QED
      BY <1>0, <2>3, <2>9, <3>1 DEF PeerInv, ReceiverTypes, receiveVars, sendVars
  <2> QED
    BY <1>1, <2>4, <2>5, <2>7, <2>8, <2>10 DEF PeerInv
<1> QED
  BY <1>3, <1>4

(* No request has been made.                                                 *)
LEMMA PeerInit == Init => PeerInv /\ EndsInv
<1> SUFFICES ASSUME Init PROVE PeerInv /\ EndsInv
  OBVIOUS
<1>0. /\ reconfigs = {} /\ my_next_rsn = 1 /\ will_retransmit_reconfig = FALSE
      /\ treconfig = FALSE /\ expired = FALSE /\ net = {}
      /\ peer_last_tsn = 0 /\ payload_queue = {} /\ streams = Streams /\ reconfig_requests = {}
      /\ passed = {} /\ skipped = {} /\ requests = {} /\ assigned = <<>>
  BY DEF Init
<1>1. ReceiverTypes
  <2>1. my_next_rsn \in Nat /\ peer_last_tsn \in 0 .. Len(assigned)
    BY <1>0
  <2> QED
    BY <1>0, <2>1 DEF ReceiverTypes
<1>2. Received
  <2>1. 1 .. peer_last_tsn = {}
    BY <1>0
  <2> QED
    BY <1>0, <2>1 DEF Received
<1>3. Numbered /\ Answered /\ GoneWasAsked /\ RequestNotForgotten /\ TimerEnds /\ WaitsForMissing
  BY <1>0 DEF Numbered, Answered, GoneWasAsked, RequestNotForgotten, TimerEnds, WaitsForMissing
<1>4. EndsInv
  <2>1. sis_to_reset = {} /\ ordered_queue = <<>> /\ requests = {} /\ DOMAIN ordered_queue = {}
    BY DEF Init
  <2> QED
    BY <2>1 DEF EndsInv, OneEnd, Queued, IsEnd
<1> QED
  BY <1>1, <1>2, <1>3, <1>4 DEF PeerInv

(* Every step keeps the invariant of the other end.                          *)
LEMMA PeerStep == SenderInv /\ EndsInv /\ PeerInv /\ [Next]_vars => PeerInv'
<1> SUFFICES ASSUME SenderInv, EndsInv, PeerInv, [Next]_vars PROVE PeerInv'
  OBVIOUS
<1>0. SenderInv'
  BY SenderStep
<1>1. ASSUME UNCHANGED <<receiveVars, reconfigVars, expired, net, assigned>> PROVE PeerInv'
  <2>1. Len(assigned) <= Len(assigned')
    BY <1>1, PeerNumbers
  <2> QED
    BY <1>0, <1>1, <2>1, QuietPeer DEF PeerQuiet, reconfigVars, PeerInv, ReceiverTypes
<1>2. CASE \/ WriteSctp \/ Wake \/ Peek \/ PeekOrdered \/ HandleSack \/ UNCHANGED vars
           \/ \E s \in Streams : Close(s)
           \/ \E t \in Tasks : PushBack(t) \/ Count(t)
  BY <1>1, <1>2 DEF WriteSctp, Wake, Peek, PeekOrdered, HandleSack, Close, PushBack, Count, vars,
     sendVars
<1>3. CASE Pop
  <2>1. UNCHANGED <<receiveVars, reconfigVars, expired, net>>
    BY <1>3 DEF Pop
  <2>2. assigned' = assigned \/ assigned' = Append(assigned, peeked)
    BY <1>3, PopSpec DEF MoveToInflight
  <2>3. Len(assigned) <= Len(assigned')
    <3>1. peeked \in Chunk /\ assigned \in Seq(Chunk)
      BY <1>3, PopSpec DEF SenderInv, SenderTypes
    <3> QED
      BY <2>2, <3>1, AppendSpec
  <2> QED
    BY <1>0, <2>1, <2>3, QuietPeer DEF PeerQuiet, reconfigVars, PeerInv, ReceiverTypes
<1>4. CASE OnReconfigTimeout
  <2>1. /\ UNCHANGED <<receiveVars, reconfigs, my_next_rsn, treconfig, requests, net, assigned>>
        /\ will_retransmit_reconfig' \in BOOLEAN /\ expired' \in BOOLEAN
    BY <1>4 DEF OnReconfigTimeout, sendVars, PeerInv, ReceiverTypes
  <2>2. Len(assigned) <= Len(assigned')
    BY <2>1, PeerNumbers
  <2> QED
    BY <1>0, <2>1, <2>2, QuietPeer DEF PeerQuiet
<1> QED
  BY <1>2, <1>3, <1>4, PeerGather, DataStep, ForwardStep, RequestStep, ResponseStep DEF Next

-----------------------------------------------------------------------------
(* The theorems.                                                             *)

IInv == SenderInv /\ EndsInv /\ PeerInv

(* The three layers hold in every reachable state.                           *)
LEMMA Inductive == Spec => []IInv
<1>1. Init => IInv
  BY SenderInit, PeerInit DEF IInv
<1>2. IInv /\ [Next]_vars => IInv'
  <2> SUFFICES ASSUME IInv, [Next]_vars PROVE IInv'
    OBVIOUS
  <2>1. SenderInv /\ EndsInv /\ PeerInv /\ ReceiverTypes
    BY DEF IInv, PeerInv
  <2> QED
    BY <2>1, SenderStep, EndsStep, PeerStep DEF IInv
<1> QED
  BY <1>1, <1>2, PTL DEF Spec

(* Requests, their repetition and their timer agree, over answers that are   *)
(* lost, doubled or late, and pending_queue_len counts the pending queue but *)
(* for the pushes under way.                                                 *)
THEOREM ResetSafe == Spec => []ResetInv
<1>1. IInv => ResetInv
  BY DEF IInv, SenderInv, PeerInv, ResetInv, TypeOK
<1> QED
  BY <1>1, Inductive, PTL

(* The fragments of a message get consecutive TSNs, however pushes and pops  *)
(* interleave.                                                               *)
THEOREM FragmentsStayTogether == Spec => []FragmentsConsecutive
<1>1. IInv => FragmentsConsecutive
  BY DEF IInv, SenderInv
<1> QED
  BY <1>1, Inductive, PTL

(* The write loop does not sleep on chunks that it could send.               *)
THEOREM LoopWakesUp == Spec => []NoChunkAsleep
<1>1. IInv => NoChunkAsleep
  BY DEF IInv, SenderInv, LoopLeavesNothing, Busy, NoChunkAsleep
<1> QED
  BY <1>1, Inductive, PTL

(* A stream is unregistered only after each of its chunks was passed to it   *)
(* or skipped by a FORWARD-TSN.                                              *)
THEOREM DataBeforeReset == Spec => []ResetAfterData
<1>1. IInv => ResetAfterData
  <2> SUFFICES ASSUME IInv, NEW r \in requests, NEW s \in r.stream_identifiers \ streams,
                      NEW t \in 1 .. r.sender_last_tsn
               PROVE  t \in passed \cup skipped
    BY DEF ResetAfterData
  <2>1. s \in Streams \ streams
    BY DEF IInv, EndsInv
  <2>2. PICK q \in requests : s \in q.stream_identifiers /\ q.sender_last_tsn <= peer_last_tsn
    BY <2>1 DEF IInv, PeerInv, GoneWasAsked
  <2>3. q = r
    BY <2>2 DEF IInv, EndsInv
  <2>4. r.sender_last_tsn \in Nat /\ peer_last_tsn \in Nat
    BY PeerNumbers DEF IInv
  <2>5. t \in 1 .. peer_last_tsn
    BY <2>2, <2>3, <2>4
  <2> QED
    BY <2>5 DEF IInv, PeerInv, Received
<1> QED
  BY <1>1, Inductive, PTL

(* A request that the peer keeps waits for chunks that are missing.          *)
THEOREM RequestsWaitForData == Spec => []WaitsForMissing
<1>1. IInv => WaitsForMissing
  BY DEF IInv, PeerInv
<1> QED
  BY <1>1, Inductive, PTL
=============================================================================
