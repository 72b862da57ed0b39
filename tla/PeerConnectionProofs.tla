------------------------ MODULE PeerConnectionProofs ------------------------
(***************************************************************************)
(* Theorems about PeerConnection, for every set of addresses, size of the  *)
(* channels and number of messages.  ClientInv is inductive, with one      *)
(* lemma per group of actions; the other invariants follow from it, or are *)
(* inductive together with it.                                             *)
(***************************************************************************)
EXTENDS PeerConnection, SequenceTheorems, TLAPS

(* Nothing has happened yet.                                                 *)
LEMMA ClientInit == Init => ClientInv
<1> SUFFICES ASSUME Init PROVE ClientInv
  OBVIOUS
<1> USE DEF Init, NewGatherer, NewAgent, NewSctpTransport
<1>1. TypeOK
  <2>1. /\ to_server \in Seq(Nat) /\ to_client \in Seq(Nat) /\ written \in Seq(Nat)
        /\ Len(to_server) = 0 /\ Len(to_client) = 0 /\ Len(chan_state) = 0
    OBVIOUS
  <2>2. ChannelSize \in Nat
    BY PeerAssumption DEF PeerAssumption
  <2>3. /\ sent \in Nat /\ received \in Nat /\ opening \in 0 .. 1
        /\ Len(chan_state) <= 1 /\ Len(to_server) <= ChannelSize /\ Len(to_client) <= ChannelSize
    BY <2>1, <2>2
  <2> QED
    BY <2>1, <2>3 DEF TypeOK
<1>2. NoPanic /\ AssociationOverDtls /\ OperationInOrder /\ CompleteIsFinal
  BY DEF NoPanic, AssociationOverDtls, OperationInOrder, CompleteIsFinal, DtlsConn
<1> QED
  BY <1>1, <1>2 DEF ClientInv

(* Socket::connect only writes the offer, and queues the operation.          *)
LEMMA ConnectStep ==
    ASSUME ClientInv, Connect
    PROVE  ClientInv'
<1> USE DEF ClientInv, TypeOK, NoPanic, AssociationOverDtls, OperationInOrder, CompleteIsFinal,
            DtlsConn, SenderDropped, gatherVars, agentVars, stateVars, transportVars, openVars, dataVars
<1>1. CASE CreateDataChannel
  BY <1>1 DEF CreateDataChannel
<1>2. CASE CreateOffer
  BY <1>2 DEF CreateOffer
<1>3. CASE SetLocalDescription
  BY <1>3 DEF SetLocalDescription, StartGathering
<1>4. CASE LocalDescription
  <2>1. CASE main = "describe"
    <3>1. /\ main' = "populate" /\ UNCHANGED <<gatherer_state, local_candidates>>
          /\ offered' = [complete |-> gatherer_state = "Complete", candidates |-> {}]
      BY <1>4, <2>1 DEF LocalDescription, PopulateLocalCandidates
    <3>2. (gatherer_state = "Complete") \in BOOLEAN
      OBVIOUS
    <3>3. /\ offered' \in [complete : BOOLEAN, candidates : SUBSET Hosts]
          /\ offered'.complete = (gatherer_state = "Complete")
      BY <3>1, <3>2, Zenon
    <3>4. CompleteIsFinal'
      BY <3>1, <3>3
    <3>5. (TypeOK /\ NoPanic /\ AssociationOverDtls /\ OperationInOrder)'
      BY <1>4, <2>1, <3>1 DEF LocalDescription
    <3> QED
      BY <3>4, <3>5
  <2>2. CASE main = "populate"
    <3>1. /\ main' = "post" /\ offered' = [offered EXCEPT !.candidates = local_candidates]
          /\ UNCHANGED <<gatherer_state, local_candidates>>
      BY <1>4, <2>2 DEF LocalDescription, PopulateLocalCandidates
    <3>2. /\ offered' \in [complete : BOOLEAN, candidates : SUBSET Hosts]
          /\ offered'.complete = offered.complete
      BY <2>2, <3>1
    <3>3. CompleteIsFinal'
      BY <2>2, <3>1, <3>2
    <3>4. (TypeOK /\ NoPanic /\ AssociationOverDtls /\ OperationInOrder)'
      BY <1>4, <2>2, <3>1 DEF LocalDescription
    <3> QED
      BY <3>3, <3>4
  <2> QED
    BY <1>4, <2>1, <2>2 DEF LocalDescription, PopulateLocalCandidates
<1>5. CASE Post
  BY <1>5 DEF Post
<1>6. CASE SetRemoteDescription
  BY <1>6 DEF SetRemoteDescription, Enqueue
<1>7. CASE AddIceCandidate
  BY <1>7 DEF AddIceCandidate
<1> QED
  BY <1>1, <1>2, <1>3, <1>4, <1>5, <1>6, <1>7 DEF Connect

(* The gathering task, the agent and the routine that reports its states.    *)
LEMMA BackgroundStep ==
    ASSUME ClientInv, Gather \/ Report \/ MuxReadLoop
    PROVE  ClientInv'
<1> USE DEF ClientInv, TypeOK, NoPanic, AssociationOverDtls, OperationInOrder, CompleteIsFinal,
            DtlsConn, SenderDropped, connectVars, gatherVars, agentVars, stateVars, transportVars,
            openVars, dataVars
<1>1. CASE GatheringComplete
  BY <1>1 DEF GatheringComplete
<1>2. ASSUME NEW h \in Hosts, GatherCandidate(h) PROVE ClientInv'
  BY <1>2 DEF GatherCandidate
<1>3. CASE AgentChanges
  BY <1>3 DEF AgentChanges
<1>4. CASE RoutineReceives
  BY <1>4 DEF RoutineReceives
<1>5. CASE RoutineStores
  BY <1>5 DEF RoutineStores
<1>6. CASE RoutineReports
  BY <1>6 DEF RoutineReports
<1>7. CASE MuxReadLoop
  BY <1>7 DEF MuxReadLoop
<1> QED
  BY <1>1, <1>2, <1>3, <1>4, <1>5, <1>6, <1>7 DEF Gather, Report

(* The operation: each call comes after the one it needs.                    *)
LEMMA OperationStep ==
    ASSUME ClientInv, Operation
    PROVE  ClientInv'
<1> USE DEF ClientInv, TypeOK, NoPanic, AssociationOverDtls, OperationInOrder, CompleteIsFinal,
            DtlsConn, SenderDropped, connectVars, gatherVars, agentVars, stateVars, openVars,
            dataVars
<1>1. CASE StartIce
  <2>1. Len(chan_state') <= 1
    <3>1. Len(<<"Checking">>) = 1
      OBVIOUS
    <3>2. chan_state' = <<"Checking">> \/ chan_state' = chan_state
      BY <1>1 DEF StartIce
    <3>3. chan_state' = <<"Checking">> => Len(chan_state') = 1
      BY <3>1, Zenon
    <3>4. chan_state' = chan_state => Len(chan_state') <= 1
      OBVIOUS
    <3> HIDE DEF ClientInv
    <3> QED
      BY <3>2, <3>3, <3>4
  <2>2. op = "queued" /\ op' \in {"dialing", "sctp"}
    BY <1>1 DEF StartIce
  <2>3. UNCHANGED <<connectVars, gatherVars, stateVars, dtls_state, sctp_state, holder, mux_loop,
                    association, openVars, dataVars>>
    BY <1>1 DEF StartIce
  <2> QED
    BY <2>1, <2>2, <2>3
<1>2. CASE DialReturns
  BY <1>2 DEF DialReturns
<1>3. CASE StartDtls
  BY <1>3 DEF StartDtls
<1>4. CASE DtlsReturns
  BY <1>4 DEF DtlsReturns
<1>5. CASE OpAggregates
  BY <1>5 DEF OpAggregates
<1>6. CASE MaybeStartSctp
  BY <1>6 DEF MaybeStartSctp, SpawnHolder
<1>7. CASE AssociationReturns
  BY <1>7 DEF AssociationReturns
<1>8. CASE OpenDataChannel
  BY <1>8 DEF OpenDataChannel
<1>9. CASE DoOpen
  BY <1>9 DEF DoOpen, AnnounceOpen
<1> QED
  BY <1>1, <1>2, <1>3, <1>4, <1>5, <1>6, <1>7, <1>8, <1>9 DEF Operation

(* The loops and the application.                                            *)
LEMMA DataStep ==
    ASSUME ClientInv, Data
    PROVE  ClientInv'
<1> USE DEF ClientInv, TypeOK, NoPanic, AssociationOverDtls, OperationInOrder, CompleteIsFinal,
            DtlsConn, SenderDropped, connectVars, gatherVars, agentVars, stateVars, transportVars,
            openVars, dataVars
<1>1. CASE OnOpen
  <2>1. op = "done" /\ data_channel /\ opening' = 0
    BY <1>1 DEF OnOpen
  <2>2. /\ read_loop' \in {"none", "running", "ended", "panicked"}
        /\ write_loop' \in {"none", "running", "ended", "failed"}
        /\ ~panicked' /\ (write_loop' = "ended" => write_loop = "ended")
    BY <1>1, <2>1 DEF OnOpen
  <2>3. on_open_handler' = FALSE /\ UNCHANGED <<connectVars, gatherVars, agentVars, stateVars,
          transportVars, data_channel, to_server, to_client, sent, written, received>>
    BY <1>1 DEF OnOpen
  <2> QED
    BY <2>1, <2>2, <2>3
<1>2. CASE AssociationCloses
  BY <1>2 DEF AssociationCloses
<1>3. CASE ApplicationSends
  BY <1>3, PeerAssumption DEF ApplicationSends, PeerAssumption
<1>4. CASE WriteLoop
  <2>1. /\ ChannelSize \in Nat
        /\ write_loop = "running" /\ write_loop' \in {write_loop, "ended", "failed"}
        /\ write_loop' = "ended" => SenderDropped
    BY <1>4, PeerAssumption DEF WriteLoop, WriteNext, WriteEnds, PeerAssumption
  <2>2. \/ to_server' = <<>> /\ written' = written
        \/ /\ to_server # <<>> /\ to_server' = Tail(to_server)
           /\ written' = Append(written, Head(to_server))
    BY <1>4 DEF WriteLoop, WriteNext, WriteEnds
  <2>3. to_server' \in Seq(Nat) /\ Len(to_server') <= ChannelSize /\ written' \in Seq(Nat)
    <3>1. CASE to_server' = <<>> /\ written' = written
      <4>1. <<>> \in Seq(Nat) /\ Len(<<>>) = 0 /\ 0 <= ChannelSize
        BY <2>1
      <4> QED
        BY <3>1, <4>1
    <3>2. CASE /\ to_server # <<>> /\ to_server' = Tail(to_server)
               /\ written' = Append(written, Head(to_server))
      BY <2>1, <3>2
    <3> QED
      BY <2>2, <3>1, <3>2
  <2>4. op = "done" /\ UNCHANGED <<connectVars, gatherVars, agentVars, stateVars, transportVars,
          openVars, to_client, read_loop, sent, received>>
    BY <1>4 DEF WriteLoop
  <2> QED
    BY <2>1, <2>3, <2>4
<1>5. CASE HandleDcep
  BY <1>5 DEF HandleDcep
<1>6. CASE ReadLoop
  BY <1>6, PeerAssumption DEF ReadLoop, PeerAssumption
<1>7. CASE ReadLoopEnds
  BY <1>7 DEF ReadLoopEnds
<1>8. CASE ApplicationReceives
  BY <1>8, PeerAssumption DEF ApplicationReceives, PeerAssumption
<1>9. CASE ApplicationDrops
  BY <1>9 DEF ApplicationDrops
<1> QED
  BY <1>1, <1>2, <1>3, <1>4, <1>5, <1>6, <1>7, <1>8, <1>9 DEF Data

(* Types; on_open never panics; an association exists only over DTLS, though *)
(* start_transports goes on after a failure.                                 *)
THEOREM ClientSafe == Spec => []ClientInv
<1>1. ClientInv /\ [Next]_vars => ClientInv'
  <2> SUFFICES ASSUME ClientInv, [Next]_vars PROVE ClientInv'
    OBVIOUS
  <2>1. CASE UNCHANGED vars
    BY <2>1 DEF ClientInv, TypeOK, NoPanic, AssociationOverDtls, OperationInOrder,
                CompleteIsFinal, DtlsConn, SenderDropped, vars, connectVars, gatherVars, agentVars,
                stateVars, transportVars, openVars, dataVars
  <2> QED
    BY <2>1, ConnectStep, BackgroundStep, OperationStep, DataStep DEF Next
<1> QED
  BY <1>1, ClientInit, PTL DEF Spec

(* The task of maybe_start_sctp that does nothing keeps the Mux for the      *)
(* loops, whatever connect and the operation have dropped.                   *)
THEOREM MuxIsHeld == Spec => []MuxOutlivesConnect
<1>1. ClientInv => MuxOutlivesConnect
  BY DEF ClientInv, TypeOK, OperationInOrder, MuxOutlivesConnect, IceHeld, DtlsHeld
<1> QED
  BY <1>1, ClientSafe, PTL

(* The offer: CompleteIsFinal, which ClientInv contains, is what it needs.   *)
THEOREM OfferIsTrue == Spec => []EndOfCandidatesIsTrue
<1>1. Init => EndOfCandidatesIsTrue
  BY DEF Init, EndOfCandidatesIsTrue
<1>2. ASSUME ClientInv, EndOfCandidatesIsTrue, [Next]_vars
      PROVE  EndOfCandidatesIsTrue'
  <2> SUFFICES ASSUME main' = "post", offered'.complete
               PROVE  offered'.candidates = local_candidates'
    BY DEF EndOfCandidatesIsTrue
  <2>1. CASE LocalDescription
    <3>1. /\ main = "populate" /\ local_candidates' = local_candidates
          /\ offered' = [offered EXCEPT !.candidates = local_candidates]
      BY <2>1 DEF LocalDescription, PopulateLocalCandidates, gatherVars
    <3>2. offered \in [complete : BOOLEAN, candidates : SUBSET Hosts]
      BY <1>2, <3>1 DEF ClientInv, CompleteIsFinal
    <3> QED
      BY <3>1, <3>2
  <2>2. ASSUME NEW h \in Hosts, GatherCandidate(h)
        PROVE  offered'.candidates = local_candidates'
    <3>1. main = "post" /\ offered' = offered /\ gatherer_state = "Gathering"
      BY <2>2 DEF GatherCandidate, connectVars
    <3> QED
      BY <1>2, <3>1 DEF ClientInv, CompleteIsFinal
  <2>3. CASE UNCHANGED <<main, offered, local_candidates>>
    BY <1>2, <2>3 DEF EndOfCandidatesIsTrue
  <2>4. \/ UNCHANGED <<main, offered, local_candidates>> \/ LocalDescription
        \/ \E h \in Hosts : GatherCandidate(h)
    <3> USE DEF connectVars, gatherVars
    <3>1. CASE Connect
      BY <3>1 DEF Connect, CreateDataChannel, CreateOffer, SetLocalDescription, Post,
                  SetRemoteDescription, AddIceCandidate
    <3>2. CASE Gather \/ Report \/ MuxReadLoop
      BY <3>2 DEF Gather, GatheringComplete, Report, AgentChanges, RoutineReceives,
                  RoutineStores, RoutineReports, MuxReadLoop
    <3>3. CASE Operation
      BY <3>3 DEF Operation, StartIce, DialReturns, StartDtls, DtlsReturns, OpAggregates,
                  MaybeStartSctp, AssociationReturns, OpenDataChannel, DoOpen
    <3>4. CASE Data
      BY <3>4 DEF Data, OnOpen, AssociationCloses, ApplicationSends, ApplicationDrops, WriteLoop,
                  HandleDcep, ReadLoop, ReadLoopEnds, ApplicationReceives
    <3>5. CASE UNCHANGED vars
      BY <3>5 DEF vars
    <3> QED
      BY <1>2, <3>1, <3>2, <3>3, <3>4, <3>5 DEF Next
  <2> QED
    BY <2>1, <2>2, <2>3, <2>4
<1> QED
  BY <1>1, <1>2, ClientSafe, PTL DEF Spec

(* An interval determines its end.                                           *)
LEMMA SameRange ==
    ASSUME NEW m \in Nat, NEW n \in Nat, 1 .. m = 1 .. n
    PROVE  m = n
<1>1. (m # 0 => m \in 1 .. n) /\ (n # 0 => n \in 1 .. m)
  <2>1. (m # 0 => m \in 1 .. m) /\ (n # 0 => n \in 1 .. n)
    OBVIOUS
  <2> QED
    BY <2>1, Zenon
<1> QED
  BY <1>1

(* 1, 2, ... n as a sequence, ...                                            *)
UpTo(n) == [i \in 1 .. n |-> i]

(* ... by its elements.                                                      *)
LEMMA Counting ==
    ASSUME NEW s \in Seq(Nat), NEW n \in Nat
    PROVE  s = UpTo(n) <=> Len(s) = n /\ \A i \in 1 .. n : s[i] = i
<1>1. Len(s) \in Nat /\ s \in [1 .. Len(s) -> Nat] /\ DOMAIN s = 1 .. Len(s)
  BY LenProperties
<1>2. ASSUME s = UpTo(n) PROVE Len(s) = n /\ \A i \in 1 .. n : s[i] = i
  <2>1. 1 .. Len(s) = 1 .. n
    BY <1>1, <1>2 DEF UpTo
  <2>2. Len(s) = n
    BY <1>1, <2>1, SameRange
  <2> QED
    BY <1>2, <2>2 DEF UpTo
<1>3. ASSUME Len(s) = n, \A i \in 1 .. n : s[i] = i PROVE s = UpTo(n)
  BY <1>1, <1>3 DEF UpTo
<1> QED
  BY <1>2, <1>3

(* A message that is sent comes behind those written and those waiting.      *)
LEMMA SentBehind ==
    ASSUME NEW s \in Seq(Nat), NEW t \in Seq(Nat), NEW n \in Nat, s \o t = UpTo(n)
    PROVE  s \o Append(t, n + 1) = UpTo(n + 1)
<1> DEFINE u == Append(t, n + 1)
           m == n + 1
<1>0. /\ m \in Nat /\ m = n + 1 /\ u \in Seq(Nat) /\ Len(u) = Len(t) + 1
      /\ \A i \in 1 .. Len(t) : u[i] = t[i]
      /\ u[Len(t) + 1] = m
  <2>1. n + 1 \in Nat
    OBVIOUS
  <2> QED
    BY <2>1, AppendProperties
<1> HIDE DEF u, m
<1>1. /\ s \o t \in Seq(Nat) /\ Len(s) \in Nat /\ Len(t) \in Nat
      /\ Len(s \o t) = Len(s) + Len(t)
      /\ \A i \in 1 .. Len(s) + Len(t) : (s \o t)[i] =
            IF i <= Len(s) THEN s[i] ELSE t[i - Len(s)]
  <2>1. Len(s) \in Nat /\ Len(t) \in Nat
    BY LenProperties
  <2> QED
    BY <2>1, ConcatProperties, Zenon
<1>2. /\ s \o u \in Seq(Nat)
      /\ Len(s \o u) = Len(s) + Len(u)
      /\ \A i \in 1 .. Len(s) + Len(u) : (s \o u)[i] =
            IF i <= Len(s) THEN s[i] ELSE u[i - Len(s)]
  BY <1>0, ConcatProperties, Zenon
<1>3. Len(s) + Len(t) = n /\ \A i \in 1 .. n : (s \o t)[i] = i
  BY <1>1, Counting
<1>4. Len(s \o u) = m
  <2>1. Len(s) \in Nat /\ Len(t) \in Nat
    BY <1>1, Zenon
  <2>2. Len(s) + (Len(t) + 1) = (Len(s) + Len(t)) + 1
    BY <2>1
  <2> QED
    BY <1>0, <1>2, <1>3, <2>2, Zenon
<1>5. ASSUME NEW i \in 1 .. m PROVE (s \o u)[i] = i
  <2>0. /\ Len(s) \in Nat /\ Len(t) \in Nat /\ Len(s) + Len(t) = n
        /\ m = n + 1 /\ Len(u) = Len(t) + 1
    BY <1>0, <1>1, <1>3, Zenon
  <2>1. CASE i <= Len(s)
    <3>1. i \in 1 .. n /\ i \in 1 .. Len(s) + Len(t) /\ i \in 1 .. Len(s) + Len(u)
      BY <2>0, <2>1
    <3>2. (s \o u)[i] = s[i]
      BY <1>2, <2>1, <3>1, Zenon
    <3>3. (s \o t)[i] = s[i]
      BY <1>1, <2>1, <3>1, Zenon
    <3> QED
      BY <1>3, <3>1, <3>2, <3>3, Zenon
  <2>2. CASE i > Len(s) /\ i <= n
    <3>1. /\ i - Len(s) \in 1 .. Len(t) /\ ~(i <= Len(s)) /\ i \in 1 .. n
          /\ i \in 1 .. Len(s) + Len(t) /\ i \in 1 .. Len(s) + Len(u)
      BY <2>0, <2>2
    <3>2. (s \o u)[i] = u[i - Len(s)]
      BY <1>2, <3>1, Zenon
    <3>3. (s \o t)[i] = t[i - Len(s)]
      BY <1>1, <3>1, Zenon
    <3> QED
      BY <1>0, <1>3, <3>1, <3>2, <3>3, Zenon
  <2>3. CASE i > Len(s) /\ i = m
    <3>1. i - Len(s) = Len(t) + 1 /\ ~(i <= Len(s)) /\ i \in 1 .. Len(s) + Len(u)
      BY <2>0, <2>3, SMTT(30)
    <3>2. (s \o u)[i] = u[i - Len(s)]
      BY <1>2, <3>1, Zenon
    <3> QED
      BY <1>0, <2>3, <3>1, <3>2, Zenon
  <2>4. i <= Len(s) \/ (i > Len(s) /\ i <= n) \/ (i > Len(s) /\ i = m)
    BY <2>0
  <2> QED
    BY <2>1, <2>2, <2>3, <2>4, Zenon
<1>6. \A i \in 1 .. m : (s \o u)[i] = i
  BY <1>5, Zenon
<1>7. s \o u = UpTo(m)
  BY <1>0, <1>2, <1>4, <1>6, Counting, Zenon
<1> QED
  BY <1>7 DEF u, m

(* The first message waiting is the one to be written next.                  *)
LEMMA NextToWrite ==
    ASSUME NEW s \in Seq(Nat), NEW t \in Seq(Nat), NEW n \in Nat, t # <<>>,
           \A i \in 1 .. Len(s) : s[i] = i, s \o t = UpTo(n)
    PROVE  /\ Append(s, Head(t)) = UpTo(Len(Append(s, Head(t))))
           /\ Append(s, Head(t)) \o Tail(t) = UpTo(n)
<1>1. /\ s \o t \in Seq(Nat) /\ Len(s) \in Nat /\ Len(t) \in Nat \ {0}
      /\ Len(s \o t) = Len(s) + Len(t)
      /\ \A i \in 1 .. Len(s) + Len(t) : (s \o t)[i] =
            IF i <= Len(s) THEN s[i] ELSE t[i - Len(s)]
  <2>1. Len(s) \in Nat /\ Len(t) \in Nat \ {0}
    BY LenProperties, EmptySeq
  <2>2. /\ s \o t \in Seq(Nat) /\ Len(s \o t) = Len(s) + Len(t)
        /\ \A i \in 1 .. Len(s) + Len(t) : (s \o t)[i] =
              IF i <= Len(s) THEN s[i] ELSE t[i - Len(s)]
    BY ConcatProperties, Zenon
  <2> QED
    BY <2>1, <2>2, Zenon
<1>2. Len(s) + Len(t) = n /\ \A i \in 1 .. n : (s \o t)[i] = i
  BY <1>1, Counting
<1>4. Head(t) = t[1] /\ t[1] = Len(s) + 1
  <2>0. Len(s) \in Nat /\ Len(t) \in Nat \ {0} /\ Len(s) + Len(t) = n
    BY <1>1, <1>2, Zenon
  <2>1. /\ Len(s) + 1 \in 1 .. n /\ Len(s) + 1 \in 1 .. Len(s) + Len(t)
        /\ ~(Len(s) + 1 <= Len(s)) /\ (Len(s) + 1) - Len(s) = 1
    BY <2>0
  <2>2. (s \o t)[Len(s) + 1] = t[(Len(s) + 1) - Len(s)]
    BY <1>1, <2>1, Zenon
  <2>3. t[1] = Len(s) + 1
    BY <1>2, <2>1, <2>2, Zenon
  <2> QED
    BY <2>3, HeadTailProperties
<1> DEFINE a == Append(s, Head(t))
           r == Tail(t)
<1>5. /\ a \in Seq(Nat) /\ Len(a) = Len(s) + 1 /\ a[Len(s) + 1] = Len(s) + 1
      /\ \A i \in 1 .. Len(s) : a[i] = s[i]
  BY <1>1, <1>4, HeadTailProperties
<1>6. /\ r \in Seq(Nat) /\ Len(r) = Len(t) - 1
      /\ \A i \in 1 .. Len(r) : r[i] = t[i + 1]
  BY HeadTailProperties
<1> HIDE DEF a, r
<1>7. \A i \in 1 .. Len(a) : a[i] = i
  <2> SUFFICES ASSUME NEW i \in 1 .. Len(a) PROVE a[i] = i
    OBVIOUS
  <2>1. i \in 1 .. Len(s) \/ i = Len(s) + 1
    BY <1>1, <1>5
  <2> QED
    BY <1>5, <2>1, Zenon
<1>8. a = UpTo(Len(a))
  <2>1. Len(a) \in Nat
    BY <1>1, <1>5
  <2> QED
    BY <1>5, <1>7, <2>1, Counting, Zenon
<1>9. /\ a \o r \in Seq(Nat) /\ Len(a \o r) = Len(a) + Len(r)
      /\ \A i \in 1 .. Len(a) + Len(r) : (a \o r)[i] =
            IF i <= Len(a) THEN a[i] ELSE r[i - Len(a)]
  <2>1. a \in Seq(Nat) /\ r \in Seq(Nat)
    BY <1>5, <1>6, Zenon
  <2> QED
    BY <2>1, ConcatProperties, Zenon
<1>10. ASSUME NEW i \in 1 .. n PROVE (a \o r)[i] = i
  <2>0. /\ Len(s) \in Nat /\ Len(t) \in Nat \ {0} /\ Len(s) + Len(t) = n
        /\ Len(a) = Len(s) + 1 /\ Len(r) = Len(t) - 1
    BY <1>1, <1>2, <1>5, <1>6, Zenon
  <2>1. CASE i <= Len(a)
    <3>1. i \in 1 .. Len(a) /\ i \in 1 .. Len(a) + Len(r)
      BY <2>0, <2>1
    <3>2. (a \o r)[i] = a[i]
      BY <1>9, <2>1, <3>1, Zenon
    <3> QED
      BY <1>7, <3>1, <3>2, Zenon
  <2>2. CASE i > Len(a)
    <3>1. i - Len(a) \in 1 .. Len(r) /\ (i - Len(a)) + 1 = i - Len(s)
      BY <2>0, <2>2
    <3>2. r[i - Len(a)] = t[(i - Len(a)) + 1]
      BY <1>6, <3>1, Zenon
    <3>3. /\ i \in 1 .. Len(s) + Len(t) /\ ~(i <= Len(s))
          /\ i \in 1 .. Len(a) + Len(r) /\ ~(i <= Len(a))
      BY <2>0, <2>2
    <3>4. (s \o t)[i] = t[i - Len(s)]
      BY <1>1, <3>3, Zenon
    <3>5. (a \o r)[i] = r[i - Len(a)]
      BY <1>9, <3>3, Zenon
    <3>6. (a \o r)[i] = (s \o t)[i]
      BY <3>1, <3>2, <3>4, <3>5, Zenon
    <3> QED
      BY <1>2, <3>6, Zenon
  <2>3. i <= Len(a) \/ i > Len(a)
    BY <1>1, <1>5
  <2> QED
    BY <2>1, <2>2, <2>3, Zenon
<1>11. a \o r = UpTo(n)
  <2>1. Len(a \o r) = n
    <3>0. /\ Len(s) \in Nat /\ Len(t) \in Nat \ {0} /\ Len(s) + Len(t) = n
          /\ Len(a) = Len(s) + 1 /\ Len(r) = Len(t) - 1
      BY <1>1, <1>2, <1>5, <1>6, Zenon
    <3>1. (Len(s) + 1) + (Len(t) - 1) = Len(s) + Len(t)
      BY <3>0
    <3>2. Len(a) + Len(r) = n
      BY <3>0, <3>1, Zenon
    <3> QED
      BY <1>9, <3>2, Zenon
  <2>2. \A i \in 1 .. n : (a \o r)[i] = i
    BY <1>10
  <2> QED
    BY <1>9, <2>1, <2>2, Counting, Zenon
<1> QED
  BY <1>8, <1>11 DEF a, r

(* What the application sends is written once and in order, whatever comes   *)
(* between, until the first write that fails ends the loop.                  *)
THEOREM MessagesInOrder == Spec => []WrittenInOrder
<1>1. Init => WrittenInOrder
  <2> SUFFICES ASSUME Init PROVE WrittenInOrder
    OBVIOUS
  <2>1. written = <<>> /\ to_server = <<>> /\ sent = 0
    BY DEF Init
  <2>2. <<>> \in Seq(Nat) /\ Len(<<>>) = 0 /\ <<>> \o <<>> = <<>>
    OBVIOUS
  <2>3. <<>> = UpTo(0)
    <3>1. \A i \in 1 .. 0 : <<>>[i] = i
      OBVIOUS
    <3>2. 0 \in Nat /\ <<>> \in Seq(Nat) /\ Len(<<>>) = 0
      OBVIOUS
    <3> QED
      BY <3>1, <3>2, Counting, Zenon
  <2> QED
    BY <2>1, <2>2, <2>3 DEF WrittenInOrder, UpTo
<1>2. ASSUME ClientInv, WrittenInOrder, [Next]_vars
      PROVE  WrittenInOrder'
  <2>1. written \in Seq(Nat) /\ to_server \in Seq(Nat) /\ sent \in Nat
    BY <1>2 DEF ClientInv, TypeOK
  <2>2. CASE ApplicationSends
    <3>1. /\ written' = written /\ write_loop' = write_loop /\ write_loop \notin {"ended", "failed"}
          /\ to_server' = Append(to_server, sent + 1) /\ sent' = sent + 1
      BY <1>2, <2>2 DEF ApplicationSends, ClientInv, OperationInOrder, SenderDropped
    <3>2. written \o to_server' = UpTo(sent')
      <4>1. written \o to_server = UpTo(sent)
        BY <1>2, <3>1 DEF WrittenInOrder, UpTo
      <4>2. written \o Append(to_server, sent + 1) = UpTo(sent + 1)
        BY <2>1, <4>1, SentBehind, Zenon
      <4> QED
        BY <3>1, <4>2, Zenon
    <3> QED
      BY <1>2, <3>1, <3>2 DEF WrittenInOrder, UpTo
  <2>3. CASE WriteLoop
    <3>1. write_loop = "running" /\ sent' = sent
      BY <2>3 DEF WriteLoop
    <3>2. /\ written = UpTo(Len(written))
          /\ written \o to_server = UpTo(sent)
      BY <1>2, <3>1 DEF WrittenInOrder, UpTo
    <3>3. CASE /\ to_server # <<>> /\ write_loop' = write_loop
               /\ written' = Append(written, Head(to_server)) /\ to_server' = Tail(to_server)
      <4>1. Len(written) \in Nat /\ \A i \in 1 .. Len(written) : written[i] = i
        BY <2>1, <3>2, Counting
      <4>2. /\ written' = UpTo(Len(written'))
            /\ written' \o to_server' = UpTo(sent)
        <5>1. /\ Append(written, Head(to_server)) =
                    UpTo(Len(Append(written, Head(to_server))))
              /\ Append(written, Head(to_server)) \o Tail(to_server) = UpTo(sent)
          BY <2>1, <3>2, <3>3, <4>1, NextToWrite
        <5> QED
          BY <3>3, <5>1
      <4> QED
        BY <3>1, <3>3, <4>2 DEF WrittenInOrder, UpTo
    <3>4. CASE write_loop' = "failed" /\ written' = written
      BY <3>2, <3>4 DEF WrittenInOrder, UpTo
    <3>5. CASE WriteEnds
      <4>1. /\ to_server = <<>> /\ to_server' = <<>> /\ written' = written
            /\ write_loop' = "ended"
        BY <3>5 DEF WriteEnds
      <4>2. written \o <<>> = written
        BY <2>1
      <4>3. written = UpTo(sent)
        BY <3>2, <4>1, <4>2
      <4>4. Len(written) = sent
        BY <2>1, <4>3, Counting
      <4> QED
        BY <3>1, <3>2, <4>1, <4>4 DEF WrittenInOrder, UpTo
    <3> QED
      BY <2>3, <3>3, <3>4, <3>5 DEF WriteLoop, WriteNext
  <2>4. CASE OnOpen
    <3>1. UNCHANGED <<written, to_server, sent>>
      BY <2>4 DEF OnOpen
    <3>2. /\ write_loop' # "failed" => write_loop # "failed"
          /\ write_loop' = "ended" => write_loop = "ended"
      BY <1>2, <2>4 DEF OnOpen, ClientInv, OperationInOrder
    <3> QED
      BY <1>2, <3>1, <3>2 DEF WrittenInOrder, UpTo
  <2>5. CASE UNCHANGED <<written, to_server, sent, write_loop>>
    BY <1>2, <2>5 DEF WrittenInOrder, UpTo
  <2>6. \/ UNCHANGED <<written, to_server, sent, write_loop>>
        \/ ApplicationSends \/ WriteLoop \/ OnOpen
    <3> USE DEF dataVars
    <3>1. CASE Connect
      BY <3>1 DEF Connect, CreateDataChannel, CreateOffer, SetLocalDescription,
                  LocalDescription, Post, SetRemoteDescription, AddIceCandidate
    <3>2. CASE Gather \/ Report \/ MuxReadLoop
      BY <3>2 DEF Gather, GatheringComplete, GatherCandidate, Report, AgentChanges,
                  RoutineReceives, RoutineStores, RoutineReports, MuxReadLoop
    <3>3. CASE Operation
      BY <3>3 DEF Operation, StartIce, DialReturns, StartDtls, DtlsReturns, OpAggregates,
                  MaybeStartSctp, AssociationReturns, OpenDataChannel, DoOpen
    <3>4. CASE Data
      BY <3>4 DEF Data, AssociationCloses, HandleDcep, ReadLoop, ReadLoopEnds,
                  ApplicationReceives, ApplicationDrops
    <3>5. CASE UNCHANGED vars
      BY <3>5 DEF vars
    <3> QED
      BY <1>2, <3>1, <3>2, <3>3, <3>4, <3>5 DEF Next
  <2> QED
    BY <2>2, <2>3, <2>4, <2>5, <2>6
<1> QED
  BY <1>1, <1>2, ClientSafe, PTL DEF Spec
=============================================================================
