--------------------------- MODULE DtlsHandshake ---------------------------
(***************************************************************************)
(* Two DTLSConns, a client and a server, that run the handshake over a     *)
(* network that loses, delays and reorders datagrams, and then exchange    *)
(* application data until one of them closes.  At each end there are two   *)
(* tasks: the handshake (handshaker.rs and the flights) and the reader     *)
(* (read_and_buffer), which hands over to the handshake through            *)
(* handshake_tx and is called back through handle_queue_tx.                *)
(*                                                                         *)
(* Both ends have the configuration of DTLSTransport: a certificate, no    *)
(* PSK, RequireAnyClientCert, Extended Master Secret.  Their versions and  *)
(* suites match and the server's signature, which is of no message, is     *)
(* good, so the checks left are those whose outcome depends on which       *)
(* messages were seen: cookies, the client's signature, verify_data, the   *)
(* numbers of messages.  A message fits into one record, so the fragment   *)
(* buffer only puts messages in order.  The network does not duplicate: a  *)
(* copy of a record is discarded by the replay detector, a retransmission  *)
(* is a new record.                                                        *)
(***************************************************************************)
EXTENDS Integers, Sequences, FiniteSets, FiniteSetsExt

CONSTANTS
    Size,       \* Size[t]: length of a record of type t
    Mtu,        \* maximum_transmission_unit
    MaxQueued,  \* bound: records encrypted_packets holds
    MaxNet,     \* bound: datagrams under way in a direction
    Writers,    \* the ends whose application writes
    Closers     \* the ends whose application closes

HandshakeType == {"ClientHello", "HelloVerifyRequest", "ServerHello", "Certificate",
                  "ServerKeyExchange", "CertificateRequest", "ServerHelloDone",
                  "ClientKeyExchange", "CertificateVerify", "Finished"}

ContentType == HandshakeType \cup {"ChangeCipherSpec", "ApplicationData", "CloseNotify", "Fatal"}

End == {"client", "server"}

ASSUME DtlsAssumption ==
    /\ Size \in [ContentType -> Nat \ {0}]
    /\ Mtu \in Nat \ {0}
    /\ Size["ChangeCipherSpec"] + Size["Finished"] < Mtu   \* Flight 6 is one datagram
    /\ MaxQueued \in Nat
    /\ MaxNet \in Nat
    /\ Writers \subseteq End
    /\ Closers \subseteq End

Peer(e) == IF e = "client" THEN "server" ELSE "client"
Flight == {"Flight0", "Flight1", "Flight2", "Flight3", "Flight4", "Flight5", "Flight6"}

VARIABLES
    \* the handshake task
    fsm,        \* HandshakeState; "Draining" is the middle of Flight4.parse, and at
                \* "Completing" all that is left of handshake() is to return
    flight,     \* current_flight
    flights,    \* the packets of the flight, as prepare numbered them
    state,      \* the struct State
    cache,      \* HandshakeCache, shared by the tasks of an end
    \* the reader task
    ctx,        \* ConnReaderContext and where the reader is
    \* the application and the network
    decrypted,  \* the records in the channel behind decrypted_tx, of capacity one
    closed,
    net         \* datagrams under way

vars == <<fsm, flight, flights, state, cache, ctx, decrypted, closed, net>>
-----------------------------------------------------------------------------
(***************************************************************************)
(* Records, datagrams and the handshake cache.                             *)
(***************************************************************************)

\* A packet of a flight; body is the cookie of a hello, what a CertificateVerify signs
\* and the verify_data of a Finished, as sets.
Packet(t, epoch, body) == [type |-> t, epoch |-> epoch, body |-> body, seq |-> 0]

IsHandshake(r) == r.type \in HandshakeType

\* A record as sent: those of epoch 1 are encrypted under the sender's keys, alerts
\* only once the handshake has completed.
Encrypted(e, p) == p.epoch = 1 /\ (p.type \in {"CloseNotify", "Fatal"} => fsm[e] = "Finished")

Sealed(e, p) == [type |-> p.type, epoch |-> p.epoch, body |-> p.body, seq |-> p.seq,
                 key |-> IF Encrypted(e, p) THEN state[e].master_secret ELSE {}]

\* compact_raw_packets: a record goes into the current datagram unless that would
\* make it as long as the MTU.  For each record: the one its datagram begins with,
\* and the length so far.  (The empty datagram of an empty flight says nothing and is
\* left out.)
Placed(recs) ==
    LET at[i \in 1 .. Len(recs)] ==
          LET size == Size[recs[i].type]
          IN  IF i > 1 /\ at[i - 1].length + size < Mtu
              THEN [first |-> at[i - 1].first, length |-> at[i - 1].length + size]
              ELSE [first |-> i, length |-> size]
    IN  at

Compacted(recs) ==
    LET index == 1 .. Len(recs)
        at == Placed(recs)
        datagram(i, j) == at[j].first = i /\ (j < Len(recs) => at[j + 1].first # i)
    IN  {SubSeq(recs, s[1], s[2]) : s \in {t \in index \X index : datagram(t[1], t[2])}}

Datagrams(e, pkts) ==
    {[to |-> Peer(e), recs |-> d] :
       d \in Compacted([i \in 1 .. Len(pkts) |-> Sealed(e, pkts[i])])}

\* Each direction has room for MaxNet datagrams; the new ones, as many as fit, push
\* out others.
Transmit(ds) ==
    LET now == {d \in net : \E n \in ds : d.to = n.to} \ ds
        fit == Min({Cardinality(ds), MaxNet})
        kept == Min({Cardinality(now), MaxNet - fit})
    IN  \E new \in kSubset(fit, ds), old \in kSubset(kept, now) :
          net' = (net \ (now \cup ds)) \cup new \cup old

WriteRecord(e, t) == Transmit(Datagrams(e, <<Packet(t, state[e].local_epoch, {})>>))

\* HandshakeCache::push: the first message with a number stays.
Cached(from, p) == [from |-> from, type |-> p.type, epoch |-> p.epoch, seq |-> p.seq, body |-> p.body]
Push(e, ms) ==
    cache[e] \cup {m \in ms : \A c \in cache[e] : c.from # m.from \/ c.seq # m.seq}

\* The last message that matches a rule, in a set of at most one.
Latest(e, from, t, epoch) ==
    LET match == {m \in cache[e] : m.from = from /\ m.type = t /\ m.epoch = epoch}
    IN  {m \in match : \A n \in match : n.seq <= m.seq}

Must(t, epoch) == [type |-> t, epoch |-> epoch, optional |-> FALSE]
May(t, epoch) == [type |-> t, epoch |-> epoch, optional |-> TRUE]

\* HandshakeCache::full_pull_map: mandatory messages are there, and those that are
\* there are numbered consecutively from start.
FullPullMap(e, from, start, rules) ==
    LET item(i) == Latest(e, from, rules[i].type, rules[i].epoch)
        present == {i \in 1 .. Len(rules) : item(i) # {}}
    IN  [ok |-> /\ \A i \in 1 .. Len(rules) : rules[i].optional \/ i \in present
                /\ \A i \in present : \A m \in item(i) :
                     m.seq = start + Cardinality({j \in present : j < i}),
         seq |-> start + Cardinality(present),
         types |-> {rules[i].type : i \in present}]

\* What pull_and_merge hashes: the identities of the messages it finds.
Merged(e, rules) ==
    {<<m.from, m.type, m.seq>> :
       m \in UNION {Latest(e, r[1], r[2], r[3]) : r \in rules}}

KeyRules == {<<"client", "ClientHello", 0>>, <<"server", "ServerHello", 0>>,
             <<"server", "Certificate", 0>>, <<"server", "ServerKeyExchange", 0>>,
             <<"server", "CertificateRequest", 0>>, <<"server", "ServerHelloDone", 0>>,
             <<"client", "Certificate", 0>>, <<"client", "ClientKeyExchange", 0>>}

SessionHash(e, additional) == Merged(e, KeyRules) \cup additional

VerifyRules == KeyRules \cup {<<"client", "CertificateVerify", 0>>, <<"client", "Finished", 1>>}
-----------------------------------------------------------------------------
InitialState ==
    [handshake_send_sequence |-> 0, handshake_recv_sequence |-> 0,
     local_epoch |-> 0, remote_epoch |-> 0, cookie |-> {},
     cipher_suite |-> "none", master_secret |-> {},
     peer_certificates |-> FALSE, verified |-> FALSE]

InitialCtx ==
    [reader |-> "recv", rest |-> <<>>, has_handshake |-> FALSE,
     encrypted_packets |-> <<>>, fragments |-> {}, current_message_sequence_number |-> 0]

Init ==
    /\ fsm = [e \in End |-> "Preparing"]
    /\ flight = [e \in End |-> IF e = "client" THEN "Flight1" ELSE "Flight0"]
    /\ flights = [e \in End |-> <<>>]
    /\ state = [e \in End |-> InitialState]
    /\ cache = [e \in End |-> {}]
    /\ ctx = [e \in End |-> InitialCtx]
    /\ decrypted = [e \in End |-> 0]
    /\ closed = [e \in End |-> FALSE]
    /\ net = {}
-----------------------------------------------------------------------------
(***************************************************************************)
(* generate: the new State and the packets of a flight.                    *)
(***************************************************************************)
Generated(st, pkts) == [st |-> st, pkts |-> pkts]

Generate0(e) ==
    Generated([state[e] EXCEPT !.cookie = {<<e, "cookie", 1>>}, !.local_epoch = 0, !.remote_epoch = 0], <<>>)

Generate1(e) ==
    Generated([state[e] EXCEPT !.cookie = {}, !.local_epoch = 0, !.remote_epoch = 0],
              <<Packet("ClientHello", 0, {})>>)

\* Mutant: the sequence starts anew only with the connection.
Generate2NoReset(e) ==
    Generated(state[e], <<Packet("HelloVerifyRequest", 0, state[e].cookie)>>)

Generate2(e) ==
    Generated([state[e] EXCEPT !.handshake_send_sequence = 0],
              <<Packet("HelloVerifyRequest", 0, state[e].cookie)>>)

Generate3(e) == Generated(state[e], <<Packet("ClientHello", 0, state[e].cookie)>>)

Generate4(e) ==
    Generated(state[e],
              <<Packet("ServerHello", 0, {}), Packet("Certificate", 0, {}),
                Packet("ServerKeyExchange", 0, {}), Packet("CertificateRequest", 0, {}),
                Packet("ServerHelloDone", 0, {})>>)

\* The keys depend on messages that are about to be sent: their numbers are
\* predicted (seq_pred).
InitializeCipherSuite(st, secret) ==
    IF st.cipher_suite = "initialized" THEN st
    ELSE [st EXCEPT !.cipher_suite = "initialized", !.master_secret = secret]

\* Mutant: the messages about to be sent are not among those the keys depend on.
Generate5NoPrediction(e) ==
    Generated(InitializeCipherSuite(state[e], SessionHash(e, {})),
              <<Packet("Certificate", 0, {}), Packet("ClientKeyExchange", 0, {}),
                Packet("CertificateVerify", 0, SessionHash(e, {})), Packet("ChangeCipherSpec", 0, {}),
                Packet("Finished", 1, Merged(e, VerifyRules))>>)

Generate5(e) ==
    LET seq_pred == state[e].handshake_send_sequence
        exchange == {<<e, "Certificate", seq_pred>>, <<e, "ClientKeyExchange", seq_pred + 1>>}
        verify_data == Merged(e, VerifyRules) \cup exchange
                         \cup {<<e, "CertificateVerify", seq_pred + 2>>}
        signed == SessionHash(e, exchange)
    IN  Generated(InitializeCipherSuite(state[e], SessionHash(e, exchange)),
                  <<Packet("Certificate", 0, {}), Packet("ClientKeyExchange", 0, {}),
                    Packet("CertificateVerify", 0, signed), Packet("ChangeCipherSpec", 0, {}),
                    Packet("Finished", 1, verify_data)>>)

\* Mutant: the client's Finished is left out of the hash.
Generate6NoFinished(e) ==
    Generated(state[e], <<Packet("ChangeCipherSpec", 0, {}),
                          Packet("Finished", 1,
                                 Merged(e, VerifyRules \ {<<"client", "Finished", 1>>}))>>)

Generate6(e) ==
    Generated(state[e], <<Packet("ChangeCipherSpec", 0, {}),
                          Packet("Finished", 1, Merged(e, VerifyRules))>>)

Generate(e) ==
    CASE flight[e] = "Flight0" -> Generate0(e)
      [] flight[e] = "Flight1" -> Generate1(e)
      [] flight[e] = "Flight2" -> Generate2(e)
      [] flight[e] = "Flight3" -> Generate3(e)
      [] flight[e] = "Flight4" -> Generate4(e)
      [] flight[e] = "Flight5" -> Generate5(e)
      [] flight[e] = "Flight6" -> Generate6(e)

HandshakesBefore(pkts, i) == Cardinality({j \in 1 .. i - 1 : IsHandshake(pkts[j])})

Prepare(e) ==
    /\ fsm[e] = "Preparing"
    /\ LET g == Generate(e)
           n == Len(g.pkts)
           first == g.st.handshake_send_sequence
           next_epoch == IF \E i \in 1 .. n : g.pkts[i].epoch = 1 THEN 1 ELSE g.st.local_epoch
       IN  /\ flights' = [flights EXCEPT ![e] =
                            [i \in 1 .. n |->
                               IF IsHandshake(g.pkts[i])
                               THEN [g.pkts[i] EXCEPT !.seq = first + HandshakesBefore(g.pkts, i)]
                               ELSE g.pkts[i]]]
           /\ state' = [state EXCEPT ![e] =
                          [g.st EXCEPT !.handshake_send_sequence =
                                           first + HandshakesBefore(g.pkts, n + 1),
                                       !.local_epoch = next_epoch]]
    /\ fsm' = [fsm EXCEPT ![e] = "Sending"]
    /\ UNCHANGED <<flight, cache, ctx, decrypted, closed, net>>

\* send: the task behind packet_tx caches and transmits the flight, then tells the
\* handshake task, which waits for that.  To have been told, or not yet, makes a
\* difference only after Flight 6, when the handshake task has still to return.
Sent(e) ==
    /\ fsm[e] = "Sending"
    /\ fsm' = [fsm EXCEPT ![e] = IF flight[e] = "Flight6" THEN "Completing" ELSE "Waiting"]

Send(e) ==
    /\ Sent(e)
    /\ cache' = [cache EXCEPT ![e] =
                   Push(e, {Cached(e, flights[e][i]) :
                              i \in {j \in 1 .. Len(flights[e]) : IsHandshake(flights[e][j])}})]
    /\ Transmit(Datagrams(e, flights[e]))
    /\ UNCHANGED <<flight, flights, state, ctx, decrypted, closed>>

\* At Finished, handshake() sets handshake_completed_successfully, drops
\* handshake_done_tx and returns.
Complete(e) ==
    /\ fsm[e] = "Completing"
    /\ fsm' = [fsm EXCEPT ![e] = "Finished"]
    /\ UNCHANGED <<flight, flights, state, cache, ctx, decrypted, closed, net>>

Concluded(e) == fsm[e] \in {"Completing", "Finished"}

\* The retransmit timer of wait; Flight 2 is not retransmitted.
RetransmitTimer(e) ==
    /\ fsm[e] = "Waiting"
    /\ flight[e] # "Flight2"
    /\ fsm' = [fsm EXCEPT ![e] = "Sending"]
    /\ UNCHANGED <<flight, flights, state, cache, ctx, decrypted, closed, net>>
-----------------------------------------------------------------------------
(***************************************************************************)
(* parse: the next flight and the new State; "keep_reading" is             *)
(* Err((None, None)), "alert" an alert without an error, "error" an alert  *)
(* with one, which ends the handshake.                                     *)
(***************************************************************************)
Parsed(next, st) == [next |-> next, st |-> st]

Parse0(e) ==
    LET p == FullPullMap(e, "client", 0, <<Must("ClientHello", 0)>>)
    IN  IF p.ok
        THEN Parsed("Flight2", [state[e] EXCEPT !.handshake_recv_sequence = p.seq,
                                                 !.cipher_suite = "chosen"])
        ELSE Parsed("keep_reading", state[e])

BodyIn(e, from, t) == UNION {m.body : m \in Latest(e, from, t, 0)}

Parse2(e) ==
    LET p == FullPullMap(e, "client", state[e].handshake_recv_sequence, <<Must("ClientHello", 0)>>)
        st == [state[e] EXCEPT !.handshake_recv_sequence = p.seq]
        cookie == BodyIn(e, "client", "ClientHello")
    IN  IF ~p.ok THEN Parse0(e)
        ELSE Parsed(CASE cookie = {} -> "keep_reading"
                      [] cookie # {} /\ cookie # state[e].cookie -> "error"
                      [] OTHER -> "Flight4", st)

\* A HelloVerifyRequest with the number expected next is answered by a new hello.
Parse3(e) ==
    LET recv == state[e].handshake_recv_sequence
        again == FullPullMap(e, "server", recv, <<May("HelloVerifyRequest", 0)>>)
        p == FullPullMap(e, "server", recv,
                         <<Must("ServerHello", 0), May("Certificate", 0),
                           Must("ServerKeyExchange", 0), May("CertificateRequest", 0),
                           Must("ServerHelloDone", 0)>>)
    IN  IF again.ok /\ again.types # {}
        THEN Parsed("Flight3", [state[e] EXCEPT
                                   !.cookie = BodyIn(e, "server", "HelloVerifyRequest"),
                                   !.handshake_recv_sequence = again.seq])
        ELSE IF p.ok
        THEN Parsed("Flight5", [state[e] EXCEPT
                                   !.handshake_recv_sequence = p.seq,
                                   !.cipher_suite = "chosen",
                                   !.peer_certificates = @ \/ "Certificate" \in p.types])
        ELSE Parsed("keep_reading", state[e])

Parse1(e) ==
    LET p == FullPullMap(e, "server", state[e].handshake_recv_sequence,
                         <<May("HelloVerifyRequest", 0), May("ServerHello", 0)>>)
    IN  IF ~p.ok THEN Parsed("keep_reading", state[e])
        ELSE IF "ServerHello" \in p.types THEN Parse3(e)
        ELSE IF "HelloVerifyRequest" \in p.types
        THEN Parsed("Flight3", [state[e] EXCEPT
                                   !.cookie = BodyIn(e, "server", "HelloVerifyRequest"),
                                   !.handshake_recv_sequence = p.seq])
        ELSE Parsed("alert", state[e])

Parse5(e) ==
    LET p == FullPullMap(e, "server", state[e].handshake_recv_sequence, <<Must("Finished", 1)>>)
        verify_data == UNION {m.body : m \in Latest(e, "server", "Finished", 1)}
    IN  Parsed(CASE ~p.ok -> "keep_reading"
                 [] p.ok /\ verify_data # Merged(e, VerifyRules) -> "error"
                 [] OTHER -> "Flight5", state[e])

\* The client's half of Flight 5 that Flight4.parse looks for first.
KeyExchange(e) ==
    FullPullMap(e, "client", state[e].handshake_recv_sequence,
                <<May("Certificate", 0), Must("ClientKeyExchange", 0), May("CertificateVerify", 0)>>)

\* Flight4.parse refuses a CertificateVerify without a certificate, and one whose
\* signature is of other messages than those in its own cache.
CertificateRefused(e, types) ==
    /\ "CertificateVerify" \in types
    /\ \/ ~(state[e].peer_certificates \/ "Certificate" \in types)
       \/ BodyIn(e, "client", "CertificateVerify") # SessionHash(e, {})

\* Mutant: the signature is looked at only when the keys are made.
ClientCertificateOnce(st, types) ==
    [st EXCEPT !.peer_certificates = @ \/ "Certificate" \in types,
               !.verified = @ \/ ("CertificateVerify" \in types /\ st.cipher_suite # "initialized")]

\* The client's certificate, and the signature in CertificateVerify if it is there.
ClientCertificate(st, types) ==
    [st EXCEPT !.peer_certificates = @ \/ "Certificate" \in types,
               !.verified = @ \/ "CertificateVerify" \in types]
-----------------------------------------------------------------------------
(***************************************************************************)
(* wait: the handshake task takes what the reader sent on handshake_rx and *)
(* parses; when it drops done, the reader goes on.                         *)
(***************************************************************************)
HandshakeRecv(e, f) == fsm[e] = "Waiting" /\ flight[e] = f /\ ctx[e].reader = "wait"

Resume(e) == ctx' = [ctx EXCEPT ![e].reader = IF @ = "wait" THEN "recv" ELSE @]

FatalAlert(e) == Datagrams(e, <<Packet("Fatal", state[e].local_epoch, {})>>)

\* The reader goes on as soon as done is dropped.  That the handshake task then has
\* still to look at the result matters when parsing Flight 5 again, the last one
\* received, completes the handshake; a new flight or another wait is begun in
\* steps of their own, and of an alert (none is ever sent: NoFailure) nothing more
\* is modelled than that it goes out.
HandleResult(e, p) ==
    /\ state' = [state EXCEPT ![e] = p.st]
    /\ flight' = [flight EXCEPT ![e] = IF p.next \in Flight THEN p.next ELSE @]
    /\ fsm' = [fsm EXCEPT ![e] =
                 CASE p.next \in Flight /\ (p.next # flight[e] \/ p.next # "Flight5") -> "Preparing"
                   [] p.next = "Flight5" /\ flight[e] = "Flight5" -> "Completing"
                   [] p.next = "error" -> "Failed"
                   [] OTHER -> "Waiting"]
    /\ Transmit(IF p.next \in {"alert", "error"} THEN FatalAlert(e) ELSE {})
    /\ Resume(e)
    /\ UNCHANGED <<flights, cache, decrypted, closed>>

WaitFlight0(e) == HandshakeRecv(e, "Flight0") /\ HandleResult(e, Parse0(e))
WaitFlight1(e) == HandshakeRecv(e, "Flight1") /\ HandleResult(e, Parse1(e))
WaitFlight2(e) == HandshakeRecv(e, "Flight2") /\ HandleResult(e, Parse2(e))
WaitFlight3(e) == HandshakeRecv(e, "Flight3") /\ HandleResult(e, Parse3(e))
WaitFlight5(e) == HandshakeRecv(e, "Flight5") /\ HandleResult(e, Parse5(e))

\* Flight4.parse without a key exchange keeps reading; a certificate it refuses is
\* an error.
WaitFlight4Incomplete(e) ==
    /\ HandshakeRecv(e, "Flight4")
    /\ KeyExchange(e).ok => CertificateRefused(e, KeyExchange(e).types)
    /\ HandleResult(e, Parsed(IF KeyExchange(e).ok THEN "error" ELSE "keep_reading", state[e]))

\* With one, it makes the keys and has the reader handle the records that had to
\* wait for them (handle_queue_tx).
WaitFlight4KeyExchange(e) ==
    /\ HandshakeRecv(e, "Flight4")
    /\ KeyExchange(e).ok /\ ~CertificateRefused(e, KeyExchange(e).types)
    /\ state' = [state EXCEPT ![e] =
                   InitializeCipherSuite(ClientCertificate(state[e], KeyExchange(e).types),
                                         SessionHash(e, {}))]
    /\ fsm' = [fsm EXCEPT ![e] = "Draining"]
    /\ ctx' = [ctx EXCEPT ![e].reader = "drain",
                          ![e].rest = ctx[e].encrypted_packets,
                          ![e].encrypted_packets = <<>>]
    /\ UNCHANGED <<flight, flights, cache, decrypted, closed, net>>

\* Then it looks for Finished, right after the messages found before.  What the
\* key exchange consisted of has not changed meanwhile: queued records cannot hold
\* messages of epoch 0.
Parse4Finished(e) ==
    LET p == FullPullMap(e, "client", KeyExchange(e).seq, <<Must("Finished", 1)>>)
        st == [state[e] EXCEPT !.handshake_recv_sequence = p.seq]
    IN  IF ~p.ok THEN Parsed("keep_reading", state[e])
        ELSE Parsed(IF state[e].peer_certificates THEN "Flight6" ELSE "error", st)

WaitFlight4Finished(e) ==
    /\ fsm[e] = "Draining"
    /\ ctx[e].reader # "drain"
    /\ HandleResult(e, Parse4Finished(e))
-----------------------------------------------------------------------------
(***************************************************************************)
(* The reader: read_and_buffer and handle_incoming_packet.                 *)
(***************************************************************************)
RecvDatagram(e, d) ==
    /\ ctx[e].reader = "recv"
    /\ d.to = e
    /\ net' = net \ {d}
    /\ ctx' = [ctx EXCEPT ![e].reader = "records", ![e].rest = d.recs,
                          ![e].has_handshake = FALSE]
    /\ UNCHANGED <<fsm, flight, flights, state, cache, decrypted, closed>>

Recv(e) == \E d \in net : RecvDatagram(e, d)

\* A datagram that a busy reader will not see is lost once it could see it.
Lose ==
    /\ \E d \in net : ctx[d.to].reader \in {"recv", "exited"} /\ net' = net \ {d}
    /\ UNCHANGED <<fsm, flight, flights, state, cache, ctx, decrypted, closed>>

\* handle_incoming_packet works on the first of the records left, of a datagram
\* ("records") or of the queue ("drain").
Handling(e) == ctx[e].reader \in {"records", "drain"} /\ ctx[e].rest # <<>>
Current(e) == Head(ctx[e].rest)

Initialized(e) == state[e].cipher_suite = "initialized"

\* Mutant: the next epoch is read as soon as there are keys.
OnlyKeys(e, r) == (r.epoch # 0 \/ r.type = "ChangeCipherSpec") /\ ~Initialized(e)

\* Records of the next epoch, and whatever needs keys before there are any.
NotYet(e, r) ==
    \/ r.epoch > state[e].remote_epoch
    \/ (r.epoch # 0 \/ r.type = "ChangeCipherSpec") /\ ~Initialized(e)

Readable(e, r) == ~NotYet(e, r) /\ (r.epoch = 0 \/ r.key = state[e].master_secret)

\* Queued while a datagram is read; records from the queue are not queued again.
Enqueue(e) ==
    /\ Handling(e) /\ ctx[e].reader = "records"
    /\ NotYet(e, Current(e))
    /\ ctx' = [ctx EXCEPT ![e].rest = Tail(@),
                          ![e].encrypted_packets =
                             IF Len(@) < MaxQueued THEN Append(@, Current(e)) ELSE @]
    /\ UNCHANGED <<fsm, flight, flights, state, cache, decrypted, closed, net>>

\* Dropped: not yet readable a second time, not decryptable, or a
\* ChangeCipherSpec of a past epoch.
Discard(e) ==
    /\ Handling(e)
    /\ LET r == Current(e)
       IN  \/ NotYet(e, r) /\ ctx[e].reader = "drain"
           \/ ~NotYet(e, r) /\ ~Readable(e, r)
           \/ Readable(e, r) /\ r.type = "ChangeCipherSpec" /\ r.epoch # state[e].remote_epoch
    /\ ctx' = [ctx EXCEPT ![e].rest = Tail(@)]
    /\ UNCHANGED <<fsm, flight, flights, state, cache, decrypted, closed, net>>

\* FragmentBuffer: messages leave it in the order of their numbers.
Pop(e, frags) ==
    LET from == ctx[e].current_message_sequence_number
        popped == {m \in frags : /\ m.seq >= from
                                 /\ \A n \in from .. m.seq : \E f \in frags : f.seq = n}
    IN  [popped |-> popped, next |-> from + Cardinality({m.seq : m \in popped})]

BufferHandshake(e) ==
    /\ Handling(e) /\ Readable(e, Current(e)) /\ IsHandshake(Current(e))
    /\ LET p == Pop(e, ctx[e].fragments \cup {Cached(Peer(e), Current(e))})
       IN  /\ cache' = [cache EXCEPT ![e] = Push(e, p.popped)]
           /\ ctx' = [ctx EXCEPT
                        ![e].rest = Tail(@),
                        ![e].fragments = {m \in @ \cup {Cached(Peer(e), Current(e))} : m.seq >= p.next},
                        ![e].current_message_sequence_number = p.next,
                        ![e].has_handshake = @ \/ ctx[e].reader = "records"]
    /\ UNCHANGED <<fsm, flight, flights, state, decrypted, closed, net>>

ChangeCipherSpec(e) ==
    /\ Handling(e) /\ Readable(e, Current(e)) /\ Current(e).type = "ChangeCipherSpec"
    /\ Current(e).epoch = state[e].remote_epoch
    /\ state' = [state EXCEPT ![e].remote_epoch = @ + 1]
    /\ ctx' = [ctx EXCEPT ![e].rest = Tail(@)]
    /\ UNCHANGED <<fsm, flight, flights, cache, decrypted, closed, net>>

\* decrypted_tx.send waits while the application has not taken the last record.
ReadApplicationData(e) ==
    /\ Handling(e) /\ Readable(e, Current(e)) /\ Current(e).type = "ApplicationData"
    /\ decrypted[e] = 0
    /\ decrypted' = [decrypted EXCEPT ![e] = 1]
    /\ ctx' = [ctx EXCEPT ![e].rest = Tail(@)]
    /\ UNCHANGED <<fsm, flight, flights, state, cache, closed, net>>

\* An alert is answered by the same alert, unencrypted if handshake() has not
\* returned, and ends the reader, and with it a handshake that still waits for it.
ReadAlert(e) ==
    /\ Handling(e) /\ Readable(e, Current(e)) /\ Current(e).type \in {"CloseNotify", "Fatal"}
    /\ WriteRecord(e, Current(e).type)
    /\ ctx' = [ctx EXCEPT ![e].reader = "exited", ![e].rest = <<>>]
    /\ fsm' = [fsm EXCEPT ![e] = IF Concluded(e) THEN @ ELSE "Failed"]
    /\ UNCHANGED <<flight, flights, state, cache, decrypted, closed>>

\* The reader offers the datagram's messages on handshake_tx, of capacity one; if
\* handshake() has returned, select! may as well take handshake_done_rx.
RecordsDone(e) ==
    /\ ctx[e].reader = "records" /\ ctx[e].rest = <<>>
    /\ \E next \in {"recv", "wait"} :
         /\ next = "recv" => ~ctx[e].has_handshake \/ fsm[e] = "Finished"
         /\ next = "wait" => ctx[e].has_handshake
         /\ ctx' = [ctx EXCEPT ![e].reader = next]
    /\ UNCHANGED <<fsm, flight, flights, state, cache, decrypted, closed, net>>

QueueDone(e) ==
    /\ ctx[e].reader = "drain" /\ ctx[e].rest = <<>>
    /\ ctx' = [ctx EXCEPT ![e].reader = "wait"]
    /\ UNCHANGED <<fsm, flight, flights, state, cache, decrypted, closed, net>>
-----------------------------------------------------------------------------
(***************************************************************************)
(* The application: read, write and close of a connection whose handshake  *)
(* has completed.                                                          *)
(***************************************************************************)
Read(e) ==
    /\ fsm[e] = "Finished"
    /\ decrypted[e] > 0
    /\ decrypted' = [decrypted EXCEPT ![e] = 0]
    /\ UNCHANGED <<fsm, flight, flights, state, cache, ctx, closed, net>>

Write(e) ==
    /\ e \in Writers
    /\ fsm[e] = "Finished" /\ ~closed[e]
    /\ WriteRecord(e, "ApplicationData")
    /\ UNCHANGED <<fsm, flight, flights, state, cache, ctx, decrypted, closed>>

Close(e) ==
    /\ e \in Closers
    /\ fsm[e] = "Finished" /\ ~closed[e]
    /\ closed' = [closed EXCEPT ![e] = TRUE]
    /\ WriteRecord(e, "CloseNotify")
    /\ ctx' = [ctx EXCEPT ![e].reader = "exited", ![e].rest = <<>>]
    /\ UNCHANGED <<fsm, flight, flights, state, cache, decrypted>>
-----------------------------------------------------------------------------
Wait(e) ==
    \/ WaitFlight0(e) \/ WaitFlight1(e) \/ WaitFlight2(e) \/ WaitFlight3(e) \/ WaitFlight5(e)
    \/ WaitFlight4Incomplete(e) \/ WaitFlight4KeyExchange(e) \/ WaitFlight4Finished(e)

HandleRecord(e) ==
    \/ Enqueue(e) \/ Discard(e) \/ BufferHandshake(e) \/ ChangeCipherSpec(e)
    \/ ReadApplicationData(e) \/ ReadAlert(e) \/ RecordsDone(e) \/ QueueDone(e)

Next ==
    \/ \E e \in End :
         \/ Prepare(e) \/ Send(e) \/ RetransmitTimer(e) \/ Wait(e) \/ Complete(e)
         \/ Recv(e) \/ HandleRecord(e)
         \/ Read(e) \/ Write(e) \/ Close(e)
    \/ Lose

Spec == Init /\ [][Next]_vars

(***************************************************************************)
(* The runtime runs both tasks of an end.  A message on handshake_rx is    *)
(* taken though the timer comes round again and again, and a datagram that *)
(* is sent again and again arrives at last; it is enough to assume this of *)
(* the one with the record the receiver needs next.  Sent is the part of   *)
(* Send that concerns fsm: it is enabled when Send is, and only Send does  *)
(* it.                                                                     *)
(***************************************************************************)
NeededNext(e, r) ==
    \/ IsHandshake(r) /\ r.epoch <= state[e].remote_epoch
         /\ r.seq = ctx[e].current_message_sequence_number
    \/ r.type = "ChangeCipherSpec" /\ r.epoch = state[e].remote_epoch /\ Initialized(e)
    \/ r.type = "ClientHello" /\ flight[e] = "Flight2"

RecvNeeded(e) ==
    \E d \in net : (\E i \in 1 .. Len(d.recs) : NeededNext(e, d.recs[i])) /\ RecvDatagram(e, d)

Fairness ==
    \A e \in End :
      /\ WF_fsm(Prepare(e) \/ Sent(e) \/ RetransmitTimer(e) \/ Complete(e))
      /\ SF_vars(Wait(e))
      /\ WF_vars(HandleRecord(e))
      /\ SF_vars(RecvNeeded(e))

FairSpec == Spec /\ Fairness
-----------------------------------------------------------------------------
(***************************************************************************)
(* Properties.                                                             *)
(***************************************************************************)
Identity == End \X (HandshakeType \cup {"cookie"}) \X Nat
PacketType == [type : ContentType, epoch : 0 .. 1, body : SUBSET Identity, seq : Nat]
RecordType == [type : ContentType, epoch : 0 .. 1, body : SUBSET Identity, seq : Nat,
               key : SUBSET Identity]
MessageType == [from : End, type : HandshakeType, epoch : 0 .. 1, seq : Nat,
                body : SUBSET Identity]

(* Every variable has its type; epochs stop at 1 however often a             *)
(* ChangeCipherSpec is repeated.                                             *)
TypeOK ==
    /\ fsm \in [End -> {"Preparing", "Sending", "Waiting", "Draining", "Completing",
                      "Finished", "Failed"}]
    /\ flight \in [End -> Flight]
    /\ flights \in [End -> Seq(PacketType)]
    /\ state \in [End -> [handshake_send_sequence : Nat, handshake_recv_sequence : Nat,
                          local_epoch : 0 .. 1, remote_epoch : 0 .. 1, cookie : SUBSET Identity,
                          cipher_suite : {"none", "chosen", "initialized"},
                          master_secret : SUBSET Identity,
                          peer_certificates : BOOLEAN, verified : BOOLEAN]]
    /\ cache \in [End -> SUBSET MessageType]
    /\ ctx \in [End -> [reader : {"recv", "records", "wait", "drain", "exited"},
                        rest : Seq(RecordType), has_handshake : BOOLEAN,
                        encrypted_packets : Seq(RecordType), fragments : SUBSET MessageType,
                        current_message_sequence_number : Nat]]
    /\ decrypted \in [End -> 0 .. 1]
    /\ closed \in [End -> BOOLEAN]
    /\ net \in SUBSET [to : End, recs : Seq(RecordType)]

(* Loss, delay and reordering alone never make a handshake between two such  *)
(* ends fail: whatever order messages arrive in, parse finds the cookie it   *)
(* sent, the certificate it asked for and the verify_data it computes, and   *)
(* no alert is sent before an application closes.                            *)
NoFailure == \A e \in End : fsm[e] # "Failed"

(* The transcripts agree: of a message with a given number the two           *)
(* HandshakeCaches never hold different versions, though flights are         *)
(* generated again, hellos are repeated and the first copy of each number    *)
(* that comes is the one kept.  All hashes are computed from the caches.     *)
CachesAgree ==
    \A m \in cache["client"], n \in cache["server"] :
      m.from = n.from /\ m.seq = n.seq => m = n

(* Extended Master Secret: the client hashes messages it has yet to send,    *)
(* under predicted numbers, the server those that arrived; keys that both    *)
(* have made are the same keys.                                              *)
KeysAgree ==
    Initialized("client") /\ Initialized("server")
      => state["client"].master_secret = state["server"].master_secret

(* A reader goes to epoch 1 only when its cipher suite is initialized and    *)
(* the other end has gone there itself, also for a ChangeCipherSpec that     *)
(* overtakes the key exchange or waits in encrypted_packets.                 *)
EpochHasKeys ==
    \A e \in End : state[e].remote_epoch = 1 => Initialized(e) /\ state[Peer(e)].local_epoch = 1

(* The client's handshake() returns only when the server's has nothing left  *)
(* to wait for: data that the client writes at once finds a server that will *)
(* take it, and a client that closes at once no longer makes the server      *)
(* fail.  (The server's may still return after the client's: its last flight *)
(* is on the wire before the task that sent it tells the handshake.)         *)
FinishedInOrder == Concluded("client") => Concluded("server")

(* RequireAnyClientCert: the server completes only with a client whose       *)
(* CertificateVerify it checked, though the message is optional where parse  *)
(* looks for it and may come in a later datagram than the key exchange.      *)
ClientVerified == Concluded("server") => state["server"].verified

(* Application data that overtakes the peer's last flight waits: what is put *)
(* in the channel behind decrypted_tx was read after the peer's Finished had *)
(* been checked, though perhaps before handshake() returned.                 *)
NoEarlyData == \A e \in End : decrypted[e] > 0 => Concluded(e)

(* The two ends stay in step, whatever is lost or overtaken: their types,    *)
(* transcripts, epochs, the order in which they finish and what they deliver.*)
DtlsInv == TypeOK /\ CachesAgree /\ EpochHasKeys /\ FinishedInOrder /\ NoEarlyData

(* If nothing is lost for ever, retransmission gets the server through       *)
(* Flight 4: also when a HelloVerifyRequest, which is not retransmitted, is  *)
(* lost, and when the encrypted_packets do not hold what overtook the keys.  *)
ServerFinishes == <>(fsm["server"] = "Finished")

(* "Retransmit last flight" (handshaker.rs, the diagram): a client that lost *)
(* Flight 6 asks for it by repeating Flight 5, and gets through as well.     *)
ClientFinishes == <>(fsm["client"] = "Finished")
=============================================================================
