------------------------ MODULE DtlsHandshakeProofs ------------------------
(***************************************************************************)
(* The safety of the DTLS handshake, for every MTU, record size and bound  *)
(* of DtlsHandshake.  The invariant says that, whatever is lost, delayed   *)
(* or repeated, each end sends a fixed script of messages and holds, of    *)
(* its own script and of the peer's, a prefix that its flight determines.  *)
(***************************************************************************)
EXTENDS DtlsHandshake, FiniteSetTheorems, SequenceTheorems, TLAPS

(***************************************************************************)
(* The script: the messages of an end by their number.                     *)
(***************************************************************************)
LastOf(f) == IF f = "client" THEN 5 ELSE 6

TypeOf(f, n) ==
    IF f = "client"
    THEN IF n \in {0, 1} THEN "ClientHello"
         ELSE IF n = 2 THEN "Certificate"
         ELSE IF n = 3 THEN "ClientKeyExchange"
         ELSE IF n = 4 THEN "CertificateVerify" ELSE "Finished"
    ELSE IF n = 0 THEN "HelloVerifyRequest"
         ELSE IF n = 1 THEN "ServerHello"
         ELSE IF n = 2 THEN "Certificate"
         ELSE IF n = 3 THEN "ServerKeyExchange"
         ELSE IF n = 4 THEN "CertificateRequest"
         ELSE IF n = 5 THEN "ServerHelloDone" ELSE "Finished"

EpochOf(f, n) == IF n = LastOf(f) THEN 1 ELSE 0

Id(p) == <<p[1], TypeOf(p[1], p[2]), p[2]>>
Rule(p) == <<p[1], TypeOf(p[1], p[2]), EpochOf(p[1], p[2])>>

\* The messages the keys depend on, and those of the two verify_data.
KeyPlaces == {<<"client", 1>>, <<"server", 1>>, <<"server", 2>>, <<"server", 3>>,
              <<"server", 4>>, <<"server", 5>>, <<"client", 2>>, <<"client", 3>>}
ClientPlaces == KeyPlaces \cup {<<"client", 4>>}
ServerPlaces == ClientPlaces \cup {<<"client", 5>>}

Cookie == {<<"server", "cookie", 1>>}
Keys == {Id(p) : p \in KeyPlaces}
ClientVerifyData == {Id(p) : p \in ClientPlaces}
ServerVerifyData == {Id(p) : p \in ServerPlaces}

BodyOf(f, n) ==
    IF f = "client"
    THEN IF n = 1 THEN Cookie
         ELSE IF n = 4 THEN Keys
         ELSE IF n = 5 THEN ClientVerifyData ELSE {}
    ELSE IF n = 0 THEN Cookie ELSE IF n = 6 THEN ServerVerifyData ELSE {}

Msg(f, n) == [from |-> f, type |-> TypeOf(f, n), epoch |-> EpochOf(f, n), seq |-> n,
              body |-> BodyOf(f, n)]

Pkt(f, n) == [type |-> TypeOf(f, n), epoch |-> EpochOf(f, n), body |-> BodyOf(f, n), seq |-> n]
CCS == Packet("ChangeCipherSpec", 0, {})

Number(f) == 0 .. LastOf(f)
Script == {Msg("client", n) : n \in Number("client")} \cup {Msg("server", n) : n \in Number("server")}

\* What a flight begins with, ends before, and has received.
FirstOf(fl) == IF fl \in {"Flight0", "Flight1", "Flight2"} THEN 0
               ELSE IF fl \in {"Flight3", "Flight4"} THEN 1
               ELSE IF fl = "Flight5" THEN 2 ELSE 6
NextOf(fl) == IF fl = "Flight0" THEN 0
              ELSE IF fl \in {"Flight1", "Flight2"} THEN 1
              ELSE IF fl = "Flight3" THEN 2
              ELSE IF fl \in {"Flight4", "Flight5"} THEN 6 ELSE 7
RecvOf(fl) == IF fl \in {"Flight0", "Flight1"} THEN 0
              ELSE IF fl \in {"Flight2", "Flight3"} THEN 1
              ELSE IF fl = "Flight4" THEN 2 ELSE 6

Got(e) == ctx[e].current_message_sequence_number
-----------------------------------------------------------------------------
(***************************************************************************)
(* The inductive invariant.                                                *)
(***************************************************************************)
RolesInv(e) ==
    /\ flight[e] \in (IF e = "client" THEN {"Flight1", "Flight3", "Flight5"}
                      ELSE {"Flight0", "Flight2", "Flight4", "Flight6"})
    /\ fsm[e] # "Failed"
    /\ fsm[e] = "Draining" => flight[e] = "Flight4"
    /\ fsm[e] \in {"Completing", "Finished"} => flight[e] \in {"Flight5", "Flight6"}

\* The numbers of State.  Flight 2 may be prepared again.
NumbersInv(e) ==
    /\ state[e].handshake_send_sequence =
         (IF fsm[e] = "Preparing" /\ ~(flight[e] = "Flight2" /\ Msg(e, 0) \in cache[e])
          THEN FirstOf(flight[e]) ELSE NextOf(flight[e]))
    /\ state[e].handshake_recv_sequence = RecvOf(flight[e])
    /\ RecvOf(flight[e]) <= Got(e)
    /\ Got(e) <= LastOf(Peer(e)) + 1

\* The cache: messages of the script, the peer's up to Got, the own ones up to those
\* the flight is about.
CacheInv(e) ==
    /\ cache[e] \subseteq Script
    /\ \A n \in Number(Peer(e)) : Msg(Peer(e), n) \in cache[e] <=> n < Got(e)
    /\ \A n \in Number(e) :
         /\ Msg(e, n) \in cache[e] => n < state[e].handshake_send_sequence
         /\ n < FirstOf(flight[e]) => Msg(e, n) \in cache[e]
         /\ n < NextOf(flight[e]) /\ fsm[e] \notin {"Preparing", "Sending"} => Msg(e, n) \in cache[e]

\* What an end has of the other's messages the other has sent.
LinkInv(e) ==
    /\ \A n \in Number(Peer(e)) : n < Got(e) => Msg(Peer(e), n) \in cache[Peer(e)]
    /\ \A m \in ctx[e].fragments :
         m \in cache[Peer(e)] /\ m.from = Peer(e) /\ m.seq > Got(e)

\* Who has sent Finished has finished (the server), and who has finished has the
\* peer's Finished (the client).
FinishInv ==
    /\ Msg("server", 6) \in cache["server"] => fsm["server"] \in {"Completing", "Finished"}
    /\ fsm["client"] \in {"Completing", "Finished"} => Got("client") = 7

KeysInv(e) ==
    /\ Initialized(e) => state[e].master_secret = Keys
    /\ flight[e] = "Flight5" /\ fsm[e] # "Preparing" => Initialized(e)
    /\ flight[e] = "Flight6" \/ fsm[e] = "Draining" => Initialized(e)
    /\ flight[e] \in {"Flight5", "Flight6"} /\ fsm[e] # "Preparing" => state[e].local_epoch = 1
    /\ state[e].remote_epoch = 1 => Initialized(e) /\ Msg(Peer(e), LastOf(Peer(e))) \in cache[Peer(e)]
    /\ flight[e] \in {"Flight2", "Flight3", "Flight4", "Flight5", "Flight6"} => state[e].cookie = Cookie
    /\ flight[e] = "Flight0" /\ fsm[e] # "Preparing" => state[e].cookie = Cookie

\* The packets prepared are those of the flight.
FlightsInv(e) ==
    fsm[e] # "Preparing" =>
      /\ \A i \in 1 .. Len(flights[e]) :
           \/ flights[e][i] = CCS /\ flight[e] \in {"Flight5", "Flight6"}
           \/ \E n \in FirstOf(flight[e]) .. NextOf(flight[e]) - 1 : flights[e][i] = Pkt(e, n)
      /\ \A n \in FirstOf(flight[e]) .. NextOf(flight[e]) - 1 :
           \E i \in 1 .. Len(flights[e]) : flights[e][i] = Pkt(e, n)
      /\ flight[e] = "Flight6" => flights[e] = <<CCS, Pkt(e, 6)>>

\* What a record under way says about its sender f.
RecordOK(f, r) ==
    /\ IsHandshake(r) => Cached(f, r) \in cache[f] /\ (r.epoch = 1 => r.key = Keys)
    /\ r.type = "ChangeCipherSpec" => r.epoch = 0 /\ Msg(f, LastOf(f)) \in cache[f]
    /\ r.type \in {"ApplicationData", "CloseNotify"} => r.epoch = 1 /\ fsm[f] \in {"Completing", "Finished"}
    /\ r.type # "Fatal"

RecordsOK(f, recs) == \A i \in 1 .. Len(recs) : RecordOK(f, recs[i])

\* The server's last flight is one datagram: ChangeCipherSpec and Finished.
Whole(recs) ==
    (\E i \in 1 .. Len(recs) : recs[i].type = "ChangeCipherSpec")
      => Len(recs) = 2 /\ recs[1].type = "ChangeCipherSpec" /\ recs[2].type = "Finished"

RecordsInv(e) ==
    /\ RecordsOK(Peer(e), ctx[e].rest)
    /\ RecordsOK(Peer(e), ctx[e].encrypted_packets)

NetInv ==
    \A d \in net : RecordsOK(Peer(d.to), d.recs) /\ (d.to = "client" => Whole(d.recs))

\* The server: what waits for the keys cannot be part of the key exchange.
LateOnly(recs) == \A i \in 1 .. Len(recs) : recs[i].epoch = 1 \/ recs[i].type = "ChangeCipherSpec"

ServerInv ==
    /\ LateOnly(ctx["server"].encrypted_packets)
    /\ ctx["server"].reader = "drain" => fsm["server"] = "Draining" /\ LateOnly(ctx["server"].rest)
    /\ fsm["server"] = "Draining" =>
         /\ ctx["server"].reader \in {"drain", "wait"}
         /\ Got("server") >= 4
         /\ state["server"].peer_certificates
         /\ Got("server") >= 5 => state["server"].verified
    /\ flight["server"] = "Flight6" => state["server"].verified

\* The client: Finished comes right after the ChangeCipherSpec, and it is parsed
\* before the reader reads on.
ClientInv ==
    LET r == ctx["client"]
    IN  /\ r.reader # "drain"
        /\ Whole(r.rest)
        /\ r.reader = "wait" => r.has_handshake
        /\ r.has_handshake /\ flight["client"] = "Flight1" => Got("client") >= 1
        /\ state["client"].remote_epoch = 1 =>
             \/ fsm["client"] \in {"Completing", "Finished"}
             \/ r.reader = "records" /\ Len(r.rest) = 1 /\ r.rest[1].type = "Finished"
             \/ Got("client") = 7 /\ r.reader = "records" /\ r.rest = <<>> /\ r.has_handshake
             \/ Got("client") = 7 /\ r.reader = "wait"

EndInv(e) ==
    /\ RolesInv(e)
    /\ NumbersInv(e)
    /\ CacheInv(e)
    /\ LinkInv(e)
    /\ KeysInv(e)
    /\ FlightsInv(e)
    /\ RecordsInv(e)

IInv ==
    /\ TypeOK
    /\ \A e \in End : EndInv(e)
    /\ FinishInv
    /\ NetInv
    /\ ServerInv
    /\ ClientInv
    /\ NoEarlyData
-----------------------------------------------------------------------------
(***************************************************************************)
(* The script.                                                             *)
(***************************************************************************)

(* The two ends, each the peer of the other. *)
LEMMA Ends ==
    /\ End = {"client", "server"}
    /\ Peer("client") = "server" /\ Peer("server") = "client"
    /\ \A e \in End : Peer(e) \in End /\ Peer(e) # e /\ Peer(Peer(e)) = e
    /\ \A e \in End, f \in End : f = e \/ f = Peer(e)
BY DEF End, Peer

(* Numbers of messages are small naturals. *)
LEMMA Numbers ==
    /\ Number("client") = {0, 1, 2, 3, 4, 5}
    /\ Number("server") = {0, 1, 2, 3, 4, 5, 6}
    /\ \A f \in End : LastOf(f) \in 5 .. 6 /\ Number(f) \subseteq 0 .. 6
BY DEF Number, LastOf

(* Types and epochs of the script. *)
LEMMA Tables ==
    ASSUME NEW f \in End, NEW n \in Number(f)
    PROVE  /\ TypeOf(f, n) \in HandshakeType
           /\ EpochOf(f, n) \in 0 .. 1
           /\ LastOf(f) \in 5 .. 6
           /\ n \in Nat /\ n <= LastOf(f)
<1>1. n \in Nat /\ n <= LastOf(f) /\ LastOf(f) \in 5 .. 6
  BY DEF Number, LastOf
<1>2. TypeOf(f, n) \in HandshakeType
  BY DEF TypeOf, HandshakeType
<1> QED BY <1>1, <1>2 DEF EpochOf

(* The places of the hashes are places of the script. *)
LEMMA Places ==
    /\ KeyPlaces \subseteq ServerPlaces /\ ClientPlaces \subseteq ServerPlaces
    /\ \A p \in ServerPlaces : /\ p = <<p[1], p[2]>>
                               /\ p[1] \in End /\ p[2] \in Number(p[1])
                               /\ p # <<"client", 0>>
BY Numbers DEF KeyPlaces, ClientPlaces, ServerPlaces, End

(* Cookies, keys and verify_data are sets of identities. *)
LEMMA Bodies ==
    /\ Cookie \in SUBSET Identity
    /\ Keys \in SUBSET Identity
    /\ ClientVerifyData \in SUBSET Identity
    /\ ServerVerifyData \in SUBSET Identity
<1>1. \A p \in ServerPlaces : Id(p) \in Identity
  <2> SUFFICES ASSUME NEW p \in ServerPlaces PROVE Id(p) \in Identity
    OBVIOUS
  <2>1. p[1] \in End /\ p[2] \in Number(p[1])
    BY Places
  <2>2. TypeOf(p[1], p[2]) \in HandshakeType /\ p[2] \in Nat
    BY <2>1, Tables
  <2> QED BY <2>1, <2>2 DEF Id, Identity
<1>2. Cookie \in SUBSET Identity
  BY DEF Cookie, Identity, End
<1> QED BY <1>1, <1>2, Places DEF Keys, ClientVerifyData, ServerVerifyData

(* Messages and packets of the script have their types. *)
LEMMA MsgType ==
    ASSUME NEW f \in End, NEW n \in Number(f)
    PROVE  /\ Msg(f, n) \in MessageType
           /\ Pkt(f, n) \in PacketType
           /\ Pkt(f, n).type \in HandshakeType
           /\ Cached(f, Pkt(f, n)) = Msg(f, n)
<1>1. BodyOf(f, n) \in SUBSET Identity
  BY Bodies DEF BodyOf
<1>2. TypeOf(f, n) \in HandshakeType /\ EpochOf(f, n) \in 0 .. 1 /\ n \in Nat
  BY Tables
<1>3. TypeOf(f, n) \in ContentType
  BY <1>2 DEF ContentType
<1> QED BY <1>1, <1>2, <1>3 DEF Msg, Pkt, MessageType, PacketType, Cached

(* A message of the script is the one with its sender and number. *)
LEMMA ScriptIs ==
    /\ \A m \in Script : /\ m.from \in End /\ m.seq \in Number(m.from)
                         /\ m = Msg(m.from, m.seq)
                         /\ m.type = TypeOf(m.from, m.seq) /\ m.epoch = EpochOf(m.from, m.seq)
    /\ \A f \in End : \A n \in Number(f) : /\ Msg(f, n) \in Script
                                          /\ Msg(f, n).from = f /\ Msg(f, n).seq = n
                                          /\ Msg(f, n).body = BodyOf(f, n)
                                          /\ Msg(f, n).type = TypeOf(f, n)
                                          /\ Msg(f, n).epoch = EpochOf(f, n)
<1>1. \A f \in End : \A n \in Number(f) :
        /\ Msg(f, n).from = f /\ Msg(f, n).seq = n /\ Msg(f, n).body = BodyOf(f, n)
        /\ Msg(f, n).type = TypeOf(f, n) /\ Msg(f, n).epoch = EpochOf(f, n)
  BY DEF Msg
<1>2. \A f \in End : \A n \in Number(f) : Msg(f, n) \in Script
  BY DEF Script, End
<1>3. \A m \in Script : \E f \in End : \E n \in Number(f) : m = Msg(f, n)
  BY DEF Script, End
<1> QED BY <1>1, <1>2, <1>3

-----------------------------------------------------------------------------
(***************************************************************************)
(* What the flights find in a cache that holds messages of the script.     *)
(***************************************************************************)

(* Only the hellos of the client have a type in common. *)
LEMMA TypeUnique ==
    ASSUME NEW f \in End, NEW n \in Number(f), NEW k \in Number(f), TypeOf(f, n) = TypeOf(f, k)
    PROVE  n = k \/ (f = "client" /\ n \in {0, 1} /\ k \in {0, 1})
BY Numbers DEF TypeOf, End

(* Of any other message the cache finds the one of the script. *)
LEMMA LatestIs ==
    ASSUME NEW e \in End, cache[e] \subseteq Script,
           NEW f \in End, NEW n \in Number(f), f = "server" \/ n >= 2
    PROVE  Latest(e, f, TypeOf(f, n), EpochOf(f, n))
             = (IF Msg(f, n) \in cache[e] THEN {Msg(f, n)} ELSE {})
<1> DEFINE match == {m \in cache[e] : m.from = f /\ m.type = TypeOf(f, n) /\ m.epoch = EpochOf(f, n)}
<1>0. n \in Nat
  BY Tables
<1>1. ASSUME NEW m \in match PROVE m = Msg(f, n)
  <2>1. m \in Script /\ m.from = f /\ m.type = TypeOf(f, n)
    BY <1>1
  <2>2. m.seq \in Number(f) /\ m = Msg(f, m.seq) /\ m.type = TypeOf(f, m.seq)
    BY <2>1, ScriptIs
  <2>3. m.seq = n \/ (f = "client" /\ n \in {0, 1})
    BY <2>1, <2>2, TypeUnique, Zenon
  <2>4. m.seq = n
    BY <1>0, <2>3 DEF End
  <2> QED BY <2>2, <2>4
<1>2. Msg(f, n).from = f /\ Msg(f, n).type = TypeOf(f, n) /\ Msg(f, n).epoch = EpochOf(f, n) /\ Msg(f, n).seq = n
  BY ScriptIs
<1>3. match = (IF Msg(f, n) \in cache[e] THEN {Msg(f, n)} ELSE {})
  BY <1>1, <1>2
<1>4. Latest(e, f, TypeOf(f, n), EpochOf(f, n)) = {m \in match : \A k \in match : k.seq <= m.seq}
  BY DEF Latest
<1> HIDE DEF match
<1>5. n <= n
  BY <1>0
<1> QED BY <1>2, <1>3, <1>4, <1>5

(* Of the client's hellos it finds the later. *)
LEMMA LatestHello ==
    ASSUME NEW e \in End, cache[e] \subseteq Script
    PROVE  Latest(e, "client", "ClientHello", 0)
             = (IF Msg("client", 1) \in cache[e] THEN {Msg("client", 1)}
                ELSE IF Msg("client", 0) \in cache[e] THEN {Msg("client", 0)} ELSE {})
<1> DEFINE match == {m \in cache[e] : m.from = "client" /\ m.type = "ClientHello" /\ m.epoch = 0}
<1>1. /\ Msg("client", 0).from = "client" /\ Msg("client", 0).type = "ClientHello"
      /\ Msg("client", 0).epoch = 0 /\ Msg("client", 0).seq = 0
      /\ Msg("client", 1).from = "client" /\ Msg("client", 1).type = "ClientHello"
      /\ Msg("client", 1).epoch = 0 /\ Msg("client", 1).seq = 1
  BY DEF Msg, TypeOf, EpochOf, LastOf
<1>2. ASSUME NEW m \in match PROVE m = Msg("client", 0) \/ m = Msg("client", 1)
  <2>1. m \in Script /\ m.from = "client" /\ m.type = "ClientHello"
    BY <1>2
  <2>2. m.seq \in Number("client") /\ m = Msg("client", m.seq) /\ m.type = TypeOf("client", m.seq)
    BY <2>1, ScriptIs
  <2>3. m.seq \in {0, 1}
    BY <2>1, <2>2, Numbers DEF TypeOf
  <2> QED BY <2>2, <2>3
<1>3. /\ \A m \in match : m \in cache[e]
      /\ \A m \in {Msg("client", 0), Msg("client", 1)} : m \in cache[e] => m \in match
  BY <1>1
<1>4. Latest(e, "client", "ClientHello", 0) = {m \in match : \A k \in match : k.seq <= m.seq}
  BY DEF Latest
<1> HIDE DEF match
<1>5. CASE Msg("client", 1) \in cache[e]
  <2>1. Msg("client", 1) \in match /\ \A k \in match : k.seq <= 1
    BY <1>1, <1>2, <1>3, <1>5
  <2>2. \A m \in match : (\A k \in match : k.seq <= m.seq) => m = Msg("client", 1)
    BY <1>1, <1>2, <2>1
  <2> QED BY <1>1, <1>4, <1>5, <2>1, <2>2
<1>6. CASE Msg("client", 1) \notin cache[e]
  <2>1. match = (IF Msg("client", 0) \in cache[e] THEN {Msg("client", 0)} ELSE {})
    BY <1>2, <1>3, <1>6
  <2> QED BY <1>1, <1>4, <1>6, <2>1
<1> QED BY <1>5, <1>6

(* full_pull_map with a single rule. *)
LEMMA SinglePull ==
    ASSUME NEW e \in End, NEW f, NEW s \in Nat, NEW r
    PROVE  LET p == FullPullMap(e, f, s, <<r>>)
               found == Latest(e, f, r.type, r.epoch)
           IN  /\ p.ok <=> (r.optional \/ found # {}) /\ \A m \in found : m.seq = s
               /\ found # {} => p.seq = s + 1
               /\ found = {} => p.seq = s
<1> DEFINE found == Latest(e, f, r.type, r.epoch)
           item(i) == Latest(e, f, <<r>>[i].type, <<r>>[i].epoch)
           present == {i \in 1 .. Len(<<r>>) : item(i) # {}}
           p == FullPullMap(e, f, s, <<r>>)
<1>1. Len(<<r>>) = 1 /\ <<r>>[1] = r /\ 1 .. 1 = {1}
  OBVIOUS
<1>2. item(1) = found
  BY <1>1
<1>3. present = (IF found # {} THEN {1} ELSE {})
  BY <1>1, <1>2
<1>4. /\ p.ok = ((\A i \in 1 .. Len(<<r>>) : <<r>>[i].optional \/ i \in present)
                 /\ (\A i \in present : \A m \in item(i) :
                       m.seq = s + Cardinality({j \in present : j < i})))
      /\ p.seq = s + Cardinality(present)
      /\ p.types = {<<r>>[i].type : i \in present}
  BY DEF FullPullMap
<1>5. Cardinality({}) = 0 /\ Cardinality({1}) = 1
  BY FS_EmptySet, FS_Singleton
<1> HIDE DEF p, present, item, found
<1>6. CASE found = {}
  <2>1. present = {}
    BY <1>3, <1>6
  <2>2. p.ok <=> r.optional
    BY <1>1, <1>4, <2>1
  <2>3. p.seq = s
    BY <1>4, <1>5, <2>1
  <2> QED BY <1>6, <2>2, <2>3 DEF p, found
<1>7. CASE found # {}
  <2>1. present = {1}
    BY <1>3, <1>7
  <2>2. {j \in present : j < 1} = {}
    BY <2>1
  <2>3. (\A i \in present : \A m \in item(i) : m.seq = s + Cardinality({j \in present : j < i}))
          <=> \A m \in found : m.seq = s + 0
    BY <1>2, <1>5, <2>1, <2>2
  <2>6. \A i \in 1 .. Len(<<r>>) : <<r>>[i].optional \/ i \in present
    BY <1>1, <2>1
  <2>7. s + 0 = s
    OBVIOUS
  <2>4. p.ok <=> \A m \in found : m.seq = s
    BY <1>4, <2>3, <2>6, <2>7, Zenon
  <2>5. p.seq = s + 1
    BY <1>1, <1>4, <1>5, <2>1
  <2> QED BY <1>7, <2>4, <2>5 DEF p, found
<1> QED BY <1>6, <1>7

(* The same for a mandatory message. *)
LEMMA MustPull ==
    ASSUME NEW e \in End, NEW f, NEW s \in Nat, NEW t, NEW epoch
    PROVE  /\ FullPullMap(e, f, s, <<Must(t, epoch)>>).ok
                <=> /\ Latest(e, f, t, epoch) # {}
                    /\ \A m \in Latest(e, f, t, epoch) : m.seq = s
           /\ Latest(e, f, t, epoch) # {} => FullPullMap(e, f, s, <<Must(t, epoch)>>).seq = s + 1
<1> DEFINE r == Must(t, epoch)
<1>1. r.type = t /\ r.epoch = epoch /\ r.optional = FALSE
  BY DEF Must
<1> HIDE DEF r
<1>2. LET p == FullPullMap(e, f, s, <<r>>)
          found == Latest(e, f, r.type, r.epoch)
      IN  /\ p.ok <=> (r.optional \/ found # {}) /\ \A m \in found : m.seq = s
          /\ found # {} => p.seq = s + 1
  BY SinglePull
<1>3. LET p == FullPullMap(e, f, s, <<r>>)
          found == Latest(e, f, t, epoch)
      IN  /\ p.ok <=> found # {} /\ \A m \in found : m.seq = s
          /\ found # {} => p.seq = s + 1
  BY <1>1, <1>2
<1> QED BY <1>3 DEF r

(* What the invariant says of one end, its types included. *)
LEMMA EndFacts ==
    ASSUME IInv, NEW e \in End
    PROVE  /\ EndInv(e)
           /\ Got(e) \in Nat /\ state[e].handshake_recv_sequence \in Nat
           /\ state[e].handshake_send_sequence \in Nat
           /\ cache[e] \subseteq Script
           /\ \A n \in Number(Peer(e)) : Msg(Peer(e), n) \in cache[e] <=> n < Got(e)
<1>1. state[e] \in [handshake_send_sequence : Nat, handshake_recv_sequence : Nat,
                    local_epoch : 0 .. 1, remote_epoch : 0 .. 1, cookie : SUBSET Identity,
                    cipher_suite : {"none", "chosen", "initialized"},
                    master_secret : SUBSET Identity,
                    peer_certificates : BOOLEAN, verified : BOOLEAN]
  BY DEF IInv, TypeOK
<1>2. Got(e) \in Nat
  BY DEF IInv, TypeOK, Got
<1>3. EndInv(e)
  BY DEF IInv
<1> QED BY <1>1, <1>2, <1>3 DEF EndInv, CacheInv

(* The order of the flights: the server's key exchange answers the second hello, *)
(* the client's Finished its key exchange, the server's Finished the client's.   *)
LEMMA Order ==
    ASSUME IInv
    PROVE  /\ \A n \in 1 .. 6 : Msg("server", n) \in cache["server"]
                => Msg("client", 1) \in cache["client"] /\ Got("server") >= 2
           /\ \A n \in 2 .. 5 : Msg("client", n) \in cache["client"]
                => Msg("server", 5) \in cache["server"] /\ Got("client") >= 6
           /\ Msg("server", 6) \in cache["server"]
                => Msg("client", 5) \in cache["client"] /\ Got("server") >= 6
<1>1. /\ Number("client") = {0, 1, 2, 3, 4, 5} /\ Number("server") = {0, 1, 2, 3, 4, 5, 6}
      /\ "client" \in End /\ "server" \in End
      /\ Peer("client") = "server" /\ Peer("server") = "client"
  BY Numbers, Ends
<1>2. /\ RolesInv("client") /\ NumbersInv("client") /\ CacheInv("client") /\ LinkInv("client")
      /\ RolesInv("server") /\ NumbersInv("server") /\ CacheInv("server") /\ LinkInv("server")
      /\ Got("client") \in Nat /\ Got("server") \in Nat
  BY <1>1, EndFacts DEF EndInv
<1>3. ASSUME NEW n \in 1 .. 6, Msg("server", n) \in cache["server"]
      PROVE  Msg("client", 1) \in cache["client"] /\ Got("server") >= 2
  <2>1. n < state["server"].handshake_send_sequence
    BY <1>1, <1>2, <1>3 DEF CacheInv
  <2>2. flight["server"] \in {"Flight4", "Flight6"}
    BY <1>2, <2>1 DEF NumbersInv, RolesInv, FirstOf, NextOf
  <2>3. Got("server") >= 2
    BY <1>2, <2>2 DEF NumbersInv, RecvOf
  <2> QED BY <1>1, <1>2, <2>3 DEF LinkInv
<1>4. ASSUME NEW n \in 2 .. 5, Msg("client", n) \in cache["client"]
      PROVE  Msg("server", 5) \in cache["server"] /\ Got("client") >= 6
  <2>1. n < state["client"].handshake_send_sequence
    BY <1>1, <1>2, <1>4 DEF CacheInv
  <2>2. flight["client"] = "Flight5"
    BY <1>2, <2>1 DEF NumbersInv, RolesInv, FirstOf, NextOf
  <2>3. Got("client") >= 6
    BY <1>2, <2>2 DEF NumbersInv, RecvOf
  <2> QED BY <1>1, <1>2, <2>3 DEF LinkInv
<1>5. ASSUME Msg("server", 6) \in cache["server"]
      PROVE  Msg("client", 5) \in cache["client"] /\ Got("server") >= 6
  <2>1. 6 < state["server"].handshake_send_sequence
    BY <1>1, <1>2, <1>5 DEF CacheInv
  <2>2. flight["server"] = "Flight6"
    BY <1>2, <2>1 DEF NumbersInv, RolesInv, FirstOf, NextOf
  <2>3. Got("server") >= 6
    BY <1>2, <2>2 DEF NumbersInv, RecvOf
  <2> QED BY <1>1, <1>2, <2>3 DEF LinkInv
<1> QED BY <1>3, <1>4, <1>5

(* Flight0.parse: a first hello, or nothing. *)
LEMMA Parse0Is ==
    ASSUME IInv, flight["server"] \in {"Flight0", "Flight2"}, Got("server") < 2
    PROVE  \/ Parse0("server") = Parsed("keep_reading", state["server"])
           \/ /\ Got("server") = 1
              /\ Parse0("server") = Parsed("Flight2", [state["server"] EXCEPT
                                                          !.handshake_recv_sequence = 1,
                                                          !.cipher_suite = "chosen"])
<1> DEFINE p == FullPullMap("server", "client", 0, <<Must("ClientHello", 0)>>)
           found == Latest("server", "client", "ClientHello", 0)
<1>1. /\ cache["server"] \subseteq Script /\ Got("server") \in Nat
      /\ \A n \in Number("client") : Msg("client", n) \in cache["server"] <=> n < Got("server")
  BY Ends, EndFacts
<1>2. found = (IF Got("server") = 1 THEN {Msg("client", 0)} ELSE {})
  <2>1. Msg("client", 1) \notin cache["server"]
    BY <1>1 DEF Number, LastOf
  <2>2. Msg("client", 0) \in cache["server"] <=> Got("server") = 1
    BY <1>1 DEF Number, LastOf
  <2> QED BY <1>1, <2>1, <2>2, LatestHello, Ends
<1>4. /\ p.ok <=> found # {} /\ \A m \in found : m.seq = 0
      /\ found # {} => p.seq = 0 + 1
  BY MustPull, "server" \in End, 0 \in Nat DEF End
<1> HIDE DEF p, found
<1>5. p.ok => Got("server") = 1 /\ p.seq = 1
  BY <1>2, <1>4
<1>6. Parse0("server") = IF p.ok
        THEN Parsed("Flight2", [state["server"] EXCEPT !.handshake_recv_sequence = p.seq,
                                                        !.cipher_suite = "chosen"])
        ELSE Parsed("keep_reading", state["server"])
  BY DEF Parse0, p
<1> QED BY <1>5, <1>6

(* Flight2.parse: the second hello, with the cookie sent, or what Flight0.parse *)
(* makes of the first one.                                                      *)
LEMMA Parse2Is ==
    ASSUME IInv, flight["server"] = "Flight2"
    PROVE  /\ Got("server") >= 1
           /\ Got("server") < 2 => Parse2("server") = Parse0("server")
           /\ Got("server") >= 2 =>
                Parse2("server") = Parsed("Flight4", [state["server"] EXCEPT !.handshake_recv_sequence = 2])
<1> DEFINE p == FullPullMap("server", "client", 1, <<Must("ClientHello", 0)>>)
           found == Latest("server", "client", "ClientHello", 0)
           cookie == BodyIn("server", "client", "ClientHello")
           st == [state["server"] EXCEPT !.handshake_recv_sequence = p.seq]
<1>1. /\ cache["server"] \subseteq Script /\ Got("server") \in Nat
      /\ \A n \in Number("client") : Msg("client", n) \in cache["server"] <=> n < Got("server")
      /\ EndInv("server")
  BY Ends, EndFacts
<1>2. /\ state["server"].handshake_recv_sequence = 1 /\ Got("server") >= 1
      /\ state["server"].cookie = Cookie
  BY <1>1 DEF EndInv, NumbersInv, RecvOf, KeysInv
<1>3. found = (IF Got("server") >= 2 THEN {Msg("client", 1)} ELSE {Msg("client", 0)})
  <2>1. Msg("client", 1) \in cache["server"] <=> Got("server") >= 2
    BY <1>1 DEF Number, LastOf
  <2>2. Msg("client", 0) \in cache["server"]
    BY <1>1, <1>2 DEF Number, LastOf
  <2> QED BY <1>1, <2>1, <2>2, LatestHello, Ends
<1>5. /\ p.ok <=> found # {} /\ \A m \in found : m.seq = 1
      /\ found # {} => p.seq = 1 + 1
  BY MustPull, "server" \in End, 1 \in Nat DEF End
<1>6. Msg("client", 0).seq = 0 /\ Msg("client", 1).seq = 1 /\ Msg("client", 1).body = Cookie
  BY DEF Msg, BodyOf
<1>7. Parse2("server") = IF ~p.ok THEN Parse0("server")
        ELSE Parsed(CASE cookie = {} -> "keep_reading"
                      [] cookie # {} /\ cookie # state["server"].cookie -> "error"
                      [] OTHER -> "Flight4", st)
  BY <1>2 DEF Parse2
<1>8. cookie = UNION {m.body : m \in found}
  BY DEF BodyIn
<1> HIDE DEF p, found, cookie
<1>9. CASE Got("server") >= 2
  <2>1. p.ok /\ p.seq = 2
    BY <1>3, <1>5, <1>6, <1>9
  <2>2. cookie = Cookie
    BY <1>3, <1>6, <1>8, <1>9
  <2>3. cookie # {}
    BY <2>2 DEF Cookie
  <2>4. Parse2("server") = Parsed("Flight4", st)
    BY <1>2, <1>7, <2>1, <2>2, <2>3
  <2> QED BY <1>1, <1>2, <1>9, <2>1, <2>4
<1>10. CASE ~(Got("server") >= 2)
  <2>1. ~p.ok
    BY <1>3, <1>5, <1>6, <1>10
  <2> QED BY <1>1, <1>2, <1>7, <1>10, <2>1
<1> QED BY <1>9, <1>10

(* What the client finds of the server's messages, and the server of the client's *)
(* beyond the hellos.                                                             *)
LEMMA Finds ==
    ASSUME IInv, NEW e \in End, NEW n \in Number(Peer(e)), e = "client" \/ n >= 2
    PROVE  Latest(e, Peer(e), TypeOf(Peer(e), n), EpochOf(Peer(e), n))
             = (IF n < Got(e) THEN {Msg(Peer(e), n)} ELSE {})
<1>1. /\ cache[e] \subseteq Script
      /\ Msg(Peer(e), n) \in cache[e] <=> n < Got(e)
      /\ Peer(e) \in End /\ (Peer(e) = "server" \/ n >= 2)
  BY EndFacts, Ends
<1>2. Latest(e, Peer(e), TypeOf(Peer(e), n), EpochOf(Peer(e), n))
        = (IF Msg(Peer(e), n) \in cache[e] THEN {Msg(Peer(e), n)} ELSE {})
  BY <1>1, LatestIs
<1> QED BY <1>1, <1>2

(* So rules for consecutive messages of the peer match those that have come. *)
LEMMA PeerPull ==
    ASSUME IInv, NEW e \in End, NEW s \in Nat, s <= Got(e), e = "client" \/ s >= 2,
           NEW rules, Len(rules) \in Nat,
           \A i \in 1 .. Len(rules) : /\ s + i - 1 \in Number(Peer(e))
                                     /\ rules[i].type = TypeOf(Peer(e), s + i - 1)
                                     /\ rules[i].epoch = EpochOf(Peer(e), s + i - 1)
    PROVE  /\ FullPullMap(e, Peer(e), s, rules).ok
                <=> \A i \in 1 .. Len(rules) : rules[i].optional \/ s + i - 1 < Got(e)
           /\ FullPullMap(e, Peer(e), s, rules).seq
                = (IF s + Len(rules) < Got(e) THEN s + Len(rules) ELSE Got(e))
           /\ \A t : t \in FullPullMap(e, Peer(e), s, rules).types
                      <=> \E i \in 1 .. Len(rules) : s + i - 1 < Got(e) /\ t = rules[i].type
<1>1. PICK c \in Nat : c = Got(e)
  BY EndFacts
<1>2. PICK k \in Nat : k = Len(rules)
  OBVIOUS
<1> DEFINE q == IF k < c - s THEN k ELSE c - s
<1>3. q \in Nat /\ s <= c
  BY <1>1
<1>4. \A i \in 1 .. k : Latest(e, Peer(e), rules[i].type, rules[i].epoch)
                          = (IF s + i - 1 < c THEN {Msg(Peer(e), s + i - 1)} ELSE {})
  <2> SUFFICES ASSUME NEW i \in 1 .. k
               PROVE  Latest(e, Peer(e), rules[i].type, rules[i].epoch)
                        = (IF s + i - 1 < c THEN {Msg(Peer(e), s + i - 1)} ELSE {})
    OBVIOUS
  <2>1. PICK n \in Number(Peer(e)) : n = s + i - 1
    BY <1>2
  <2>2. rules[i].type = TypeOf(Peer(e), n) /\ rules[i].epoch = EpochOf(Peer(e), n)
    BY <1>2, <2>1
  <2>3. e = "client" \/ n >= 2
    BY <2>1
  <2>4. Latest(e, Peer(e), TypeOf(Peer(e), n), EpochOf(Peer(e), n))
          = (IF n < Got(e) THEN {Msg(Peer(e), n)} ELSE {})
    BY <2>3, Finds
  <2> QED BY <1>1, <2>1, <2>2, <2>4
<1>5. \A i \in 1 .. k : s + i - 1 \in Number(Peer(e))
  BY <1>2
<1>6. Peer(e) \in End
  BY Ends
<1> HIDE DEF q
<1>7. q = (IF k < c - s THEN k ELSE c - s)
  BY DEF q
<1>8. /\ FullPullMap(e, Peer(e), s, rules).ok <=> \A i \in 1 .. k : rules[i].optional \/ i <= q
      /\ FullPullMap(e, Peer(e), s, rules).seq = s + q
      /\ \A t : t \in FullPullMap(e, Peer(e), s, rules).types <=> \E i \in 1 .. q : t = rules[i].type
  <2> DEFINE item(i) == Latest(e, Peer(e), rules[i].type, rules[i].epoch)
             present == {i \in 1 .. k : item(i) # {}}
             p == FullPullMap(e, Peer(e), s, rules)
  <2>1. present = 1 .. q
    <3>1. \A i \in 1 .. k : item(i) # {} <=> s + i - 1 < c
      BY <1>4
    <3>2. \A i \in 1 .. k : s + i - 1 < c <=> i \in 1 .. q
      BY <1>3, <1>7
    <3>3. 1 .. q \subseteq 1 .. k
      BY <1>3, <1>7
    <3> HIDE DEF item
    <3> QED BY <3>1, <3>2, <3>3
  <2>2. /\ p.ok = ((\A i \in 1 .. Len(rules) : rules[i].optional \/ i \in present)
                   /\ (\A i \in present : \A m \in item(i) :
                         m.seq = s + Cardinality({j \in present : j < i})))
        /\ p.seq = s + Cardinality(present)
        /\ p.types = {rules[i].type : i \in present}
    BY <1>2 DEF FullPullMap
  <2>3. \A i \in 1 .. q : \A m \in item(i) : m.seq = s + i - 1
    <3> SUFFICES ASSUME NEW i \in 1 .. q, NEW m \in item(i) PROVE m.seq = s + i - 1
      OBVIOUS
    <3>1. i \in 1 .. k /\ s + i - 1 \in Number(Peer(e))
      BY <1>3, <1>5, <1>7
    <3>2. s + i - 1 < c
      BY <1>3, <1>7
    <3>3. item(i) = {Msg(Peer(e), s + i - 1)}
      BY <1>4, <3>1, <3>2
    <3>4. m = Msg(Peer(e), s + i - 1)
      BY <3>3
    <3> QED BY <1>6, <3>1, <3>4, ScriptIs
  <2> HIDE DEF p, present, item
  <2>4. Cardinality(1 .. q) = q /\ \A i \in 1 .. q : Cardinality({j \in 1 .. q : j < i}) = i - 1
    <3>1. Cardinality(1 .. q) = q
      <4>1. Cardinality(1 .. q) = IF 1 > q THEN 0 ELSE q - 1 + 1
        BY <1>3, FS_Interval
      <4> QED BY <1>3, <4>1
    <3>2. ASSUME NEW i \in 1 .. q PROVE Cardinality({j \in 1 .. q : j < i}) = i - 1
      <4>1. {j \in 1 .. q : j < i} = 1 .. (i - 1)
        BY <1>3, <3>2
      <4>2. Cardinality(1 .. (i - 1)) = IF 1 > i - 1 THEN 0 ELSE i - 1 - 1 + 1
        BY <1>3, FS_Interval
      <4>3. (IF 1 > i - 1 THEN 0 ELSE i - 1 - 1 + 1) = i - 1
        BY <1>3, <3>2
      <4> QED BY <4>1, <4>2, <4>3
    <3> QED BY <3>1, <3>2
  <2>5. \A i \in present : \A m \in item(i) : m.seq = s + Cardinality({j \in present : j < i})
    <3> SUFFICES ASSUME NEW i \in 1 .. q, NEW m \in item(i)
                 PROVE  m.seq = s + Cardinality({j \in 1 .. q : j < i})
      BY <2>1
    <3>1. m.seq = s + i - 1
      BY <2>3
    <3>2. Cardinality({j \in 1 .. q : j < i}) = i - 1
      BY <2>4
    <3>3. s + i - 1 = s + (i - 1)
      BY <1>3
    <3> QED BY <3>1, <3>2, <3>3
  <2>6. p.ok <=> \A i \in 1 .. k : rules[i].optional \/ i <= q
    <3>1. p.ok <=> \A i \in 1 .. k : rules[i].optional \/ i \in 1 .. q
      BY <1>2, <2>1, <2>2, <2>5
    <3>2. \A i \in 1 .. k : i \in 1 .. q <=> i <= q
      BY <1>3
    <3> QED BY <3>1, <3>2
  <2> QED BY <2>1, <2>2, <2>4, <2>6 DEF p
<1>9. \A i \in 1 .. k : i <= q <=> s + i - 1 < c
  BY <1>3, <1>7
<1>10. s + q = (IF s + k < c THEN s + k ELSE c)
  BY <1>3, <1>7
<1>11. \A i : i \in 1 .. q <=> i \in 1 .. k /\ s + i - 1 < c
  BY <1>3, <1>7
<1> QED BY <1>1, <1>2, <1>8, <1>9, <1>10, <1>11

(* Flight1.parse: the answer to a first hello asks for a second one. *)
LEMMA Parse1Is ==
    ASSUME IInv, flight["client"] = "Flight1", Got("client") >= 1
    PROVE  Parse1("client") = Parsed("Flight3", [state["client"] EXCEPT !.cookie = Cookie,
                                                                       !.handshake_recv_sequence = 1])
<1> DEFINE rules == <<May("HelloVerifyRequest", 0), May("ServerHello", 0)>>
           p == FullPullMap("client", "server", 0, rules)
<1>1. /\ EndInv("client") /\ Got("client") \in Nat /\ "client" \in End /\ "server" \in End
      /\ Peer("client") = "server"
  BY Ends, EndFacts
<1>2. state["client"].handshake_recv_sequence = 0
  BY <1>1 DEF EndInv, NumbersInv, RecvOf
<1>3. Got("client") = 1
  <2>1. \A n \in 0 .. 6 : Msg("server", n) \in cache["server"] => n = 0
    <3>1. state["client"].handshake_send_sequence <= 1
      BY <1>1 DEF EndInv, NumbersInv, FirstOf, NextOf
    <3>2. 1 \in Number("client") /\ \A n \in Number("client") : Msg("client", n) \in cache["client"]
                                       => n < state["client"].handshake_send_sequence
      BY <1>1 DEF EndInv, CacheInv, Number, LastOf
    <3>3. state["client"].handshake_send_sequence \in Nat
      BY <1>1, EndFacts
    <3>4. Msg("client", 1) \notin cache["client"]
      BY <3>1, <3>2, <3>3
    <3> QED BY <3>4, Order
  <2>2. \A n \in 0 .. 6 : n < Got("client") => Msg("server", n) \in cache["server"]
    BY <1>1 DEF EndInv, LinkInv, Number, LastOf
  <2> QED BY <1>1, <2>1, <2>2
<1>4. Latest("client", "server", "HelloVerifyRequest", 0) = {Msg("server", 0)}
  <2>1. /\ 0 \in Number("server") /\ TypeOf("server", 0) = "HelloVerifyRequest"
        /\ EpochOf("server", 0) = 0
    BY DEF Number, LastOf, TypeOf, EpochOf
  <2>2. 0 < Got("client")
    BY <1>3
  <2> QED BY <1>1, <2>1, <2>2, Finds
<1>5. /\ p.ok
      /\ p.seq = 1
      /\ "HelloVerifyRequest" \in p.types /\ "ServerHello" \notin p.types
  <2>1. /\ Len(rules) = 2 /\ rules[1] = May("HelloVerifyRequest", 0) /\ rules[2] = May("ServerHello", 0)
    OBVIOUS
  <2>2. /\ rules[1].type = "HelloVerifyRequest" /\ rules[1].epoch = 0 /\ rules[1].optional
        /\ rules[2].type = "ServerHello" /\ rules[2].epoch = 0 /\ rules[2].optional
    BY <2>1 DEF May
  <2> HIDE DEF rules
  <2>3. \A i \in 1 .. Len(rules) : /\ 0 + i - 1 \in Number("server")
                                   /\ rules[i].type = TypeOf("server", 0 + i - 1)
                                   /\ rules[i].epoch = EpochOf("server", 0 + i - 1)
                                   /\ rules[i].optional
    BY <2>1, <2>2 DEF Number, LastOf, TypeOf, EpochOf
  <2>4. /\ p.ok <=> \A i \in 1 .. Len(rules) : rules[i].optional \/ 0 + i - 1 < Got("client")
        /\ p.seq = (IF 0 + Len(rules) < Got("client") THEN 0 + Len(rules) ELSE Got("client"))
        /\ \A t : t \in p.types
                  <=> \E i \in 1 .. Len(rules) : 0 + i - 1 < Got("client") /\ t = rules[i].type
    <3>1. 0 \in Nat /\ 0 <= Got("client") /\ Len(rules) \in Nat
      BY <1>1, <2>1
    <3> QED BY <1>1, <2>3, <3>1, PeerPull
  <2> HIDE DEF p
  <2> QED BY <1>3, <2>1, <2>2, <2>3, <2>4
<1>6. BodyIn("client", "server", "HelloVerifyRequest") = Cookie
  <2>1. Msg("server", 0).body = Cookie
    BY DEF Msg, BodyOf
  <2> QED BY <1>4, <2>1 DEF BodyIn
<1>7. Parse1("client") = IF ~p.ok THEN Parsed("keep_reading", state["client"])
        ELSE IF "ServerHello" \in p.types THEN Parse3("client")
        ELSE IF "HelloVerifyRequest" \in p.types
        THEN Parsed("Flight3", [state["client"] EXCEPT
                                   !.cookie = BodyIn("client", "server", "HelloVerifyRequest"),
                                   !.handshake_recv_sequence = p.seq])
        ELSE Parsed("alert", state["client"])
  BY <1>2 DEF Parse1
<1> HIDE DEF p
<1> QED BY <1>5, <1>6, <1>7

(* The hash of the messages at given places, all of which the cache holds. *)
LEMMA MergedIs ==
    ASSUME NEW e \in End, cache[e] \subseteq Script,
           NEW P \in SUBSET ServerPlaces, Msg("client", 1) \in cache[e]
    PROVE  Merged(e, {Rule(p) : p \in P}) = {Id(p) : p \in {q \in P : Msg(q[1], q[2]) \in cache[e]}}
<1> DEFINE found(p) == Latest(e, Rule(p)[1], Rule(p)[2], Rule(p)[3])
           id(m) == <<m.from, m.type, m.seq>>
<1>1. ASSUME NEW p \in P
      PROVE  /\ found(p) = (IF Msg(p[1], p[2]) \in cache[e] THEN {Msg(p[1], p[2])} ELSE {})
             /\ id(Msg(p[1], p[2])) = Id(p)
  <2>1. /\ p = <<p[1], p[2]>> /\ p[1] \in End /\ p[2] \in Number(p[1])
        /\ p # <<"client", 0>>
    BY Places
  <2>2. Rule(p)[1] = p[1] /\ Rule(p)[2] = TypeOf(p[1], p[2]) /\ Rule(p)[3] = EpochOf(p[1], p[2])
    BY DEF Rule
  <2>3. id(Msg(p[1], p[2])) = Id(p)
    BY <2>1, ScriptIs DEF Id
  <2>4. CASE p[1] = "server" \/ p[2] >= 2
    BY <2>1, <2>2, <2>3, <2>4, LatestIs
  <2>5. CASE ~(p[1] = "server" \/ p[2] >= 2)
    <3>1. p[1] = "client" /\ p[2] = 1
      BY <2>1, <2>5 DEF End, Number, LastOf
    <3>2. TypeOf("client", 1) = "ClientHello" /\ EpochOf("client", 1) = 0
      BY DEF TypeOf, EpochOf, LastOf
    <3> QED BY <2>2, <2>3, <3>1, <3>2, LatestHello
  <2> QED BY <2>4, <2>5
<1>2. Merged(e, {Rule(p) : p \in P})
        = {id(m) : m \in UNION {Latest(e, r[1], r[2], r[3]) : r \in {Rule(p) : p \in P}}}
  BY DEF Merged
<1>3. UNION {Latest(e, r[1], r[2], r[3]) : r \in {Rule(p) : p \in P}} = UNION {found(p) : p \in P}
  OBVIOUS
<1> HIDE DEF found, id
<1>4. {id(m) : m \in UNION {found(p) : p \in P}} = {Id(p) : p \in {q \in P : Msg(q[1], q[2]) \in cache[e]}}
  BY <1>1
<1> QED BY <1>2, <1>3, <1>4

(* The rules of the hashes are those of their places. *)
LEMMA RulesArePlaces ==
    /\ KeyRules = {Rule(p) : p \in KeyPlaces}
    /\ VerifyRules = {Rule(p) : p \in ServerPlaces}
<1>1. /\ Rule(<<"client", 1>>) = <<"client", "ClientHello", 0>>
      /\ Rule(<<"server", 1>>) = <<"server", "ServerHello", 0>>
      /\ Rule(<<"server", 2>>) = <<"server", "Certificate", 0>>
      /\ Rule(<<"server", 3>>) = <<"server", "ServerKeyExchange", 0>>
      /\ Rule(<<"server", 4>>) = <<"server", "CertificateRequest", 0>>
      /\ Rule(<<"server", 5>>) = <<"server", "ServerHelloDone", 0>>
      /\ Rule(<<"client", 2>>) = <<"client", "Certificate", 0>>
      /\ Rule(<<"client", 3>>) = <<"client", "ClientKeyExchange", 0>>
      /\ Rule(<<"client", 4>>) = <<"client", "CertificateVerify", 0>>
      /\ Rule(<<"client", 5>>) = <<"client", "Finished", 1>>
  BY DEF Rule, TypeOf, EpochOf, LastOf
<1>2. KeyRules = {Rule(p) : p \in KeyPlaces}
  BY <1>1, Zenon DEF KeyRules, KeyPlaces
<1>3. {Rule(p) : p \in ServerPlaces} = {Rule(p) : p \in KeyPlaces} \cup {Rule(<<"client", 4>>), Rule(<<"client", 5>>)}
  BY Zenon DEF ServerPlaces, ClientPlaces
<1> QED BY <1>1, <1>2, <1>3, Zenon DEF VerifyRules

(* A cache with all messages at the given places has their hash. *)
LEMMA MergedAll ==
    ASSUME NEW e \in End, cache[e] \subseteq Script, NEW P \in SUBSET ServerPlaces,
           Msg("client", 1) \in cache[e], \A p \in P : Msg(p[1], p[2]) \in cache[e]
    PROVE  Merged(e, {Rule(p) : p \in P}) = {Id(p) : p \in P}
<1>1. {q \in P : Msg(q[1], q[2]) \in cache[e]} = P
  OBVIOUS
<1> QED BY <1>1, MergedIs

(* What the caches hold, place by place. *)
LEMMA Holds ==
    ASSUME IInv
    PROVE  /\ \A n \in 0 .. 5 : Msg("client", n) \in cache["server"] <=> n < Got("server")
           /\ \A n \in 0 .. 6 : Msg("server", n) \in cache["client"] <=> n < Got("client")
           /\ \A n \in 0 .. 6 : Msg("server", n) \in cache["server"]
                                  => n < state["server"].handshake_send_sequence
           /\ \A n \in 0 .. 5 : Msg("client", n) \in cache["client"]
                                  => n < state["client"].handshake_send_sequence
           /\ \A n \in 0 .. 6 : n < FirstOf(flight["server"]) => Msg("server", n) \in cache["server"]
           /\ \A n \in 0 .. 5 : n < FirstOf(flight["client"]) => Msg("client", n) \in cache["client"]
           /\ fsm["server"] \notin {"Preparing", "Sending"} =>
                \A n \in 0 .. 6 : n < NextOf(flight["server"]) => Msg("server", n) \in cache["server"]
           /\ fsm["client"] \notin {"Preparing", "Sending"} =>
                \A n \in 0 .. 5 : n < NextOf(flight["client"]) => Msg("client", n) \in cache["client"]
<1>1. /\ Number("client") = 0 .. 5 /\ Number("server") = 0 .. 6
      /\ Peer("client") = "server" /\ Peer("server") = "client"
      /\ "client" \in End /\ "server" \in End
  BY DEF Number, LastOf, Peer, End
<1>2. CacheInv("client") /\ CacheInv("server")
  BY <1>1, EndFacts DEF EndInv
<1>3. /\ \A n \in 0 .. 5 : Msg("client", n) \in cache["server"] <=> n < Got("server")
      /\ \A n \in 0 .. 6 : Msg("server", n) \in cache["client"] <=> n < Got("client")
  BY <1>1, <1>2 DEF CacheInv
<1>4. \A n \in 0 .. 6 :
        /\ Msg("server", n) \in cache["server"] => n < state["server"].handshake_send_sequence
        /\ n < FirstOf(flight["server"]) => Msg("server", n) \in cache["server"]
        /\ n < NextOf(flight["server"]) /\ fsm["server"] \notin {"Preparing", "Sending"}
             => Msg("server", n) \in cache["server"]
  BY <1>1, <1>2 DEF CacheInv
<1>5. \A n \in 0 .. 5 :
        /\ Msg("client", n) \in cache["client"] => n < state["client"].handshake_send_sequence
        /\ n < FirstOf(flight["client"]) => Msg("client", n) \in cache["client"]
        /\ n < NextOf(flight["client"]) /\ fsm["client"] \notin {"Preparing", "Sending"}
             => Msg("client", n) \in cache["client"]
  BY <1>1, <1>2 DEF CacheInv
<1> QED BY <1>3, <1>4, <1>5

(* The keys the server makes in Flight 4. *)
LEMMA ServerKeys ==
    ASSUME IInv, flight["server"] \in {"Flight4", "Flight6"}, fsm["server"] \in {"Waiting", "Draining"},
           Got("server") >= 4
    PROVE  SessionHash("server", {}) = Keys
<1>1. cache["server"] \subseteq Script /\ Got("server") \in Nat
  BY EndFacts, Ends
<1>2. NextOf(flight["server"]) \in {6, 7}
  BY DEF NextOf
<1>3. /\ Msg("client", 1) \in cache["server"] /\ Msg("client", 2) \in cache["server"]
      /\ Msg("client", 3) \in cache["server"]
  BY <1>1, Holds
<1>4. /\ Msg("server", 1) \in cache["server"] /\ Msg("server", 2) \in cache["server"]
      /\ Msg("server", 3) \in cache["server"] /\ Msg("server", 4) \in cache["server"]
      /\ Msg("server", 5) \in cache["server"]
  BY <1>2, Holds
<1>5. \A p \in KeyPlaces : Msg(p[1], p[2]) \in cache["server"]
  BY <1>3, <1>4 DEF KeyPlaces
<1>6. Merged("server", KeyRules) = Keys
  BY <1>1, <1>3, <1>5, Ends, Places, RulesArePlaces, MergedAll DEF Keys
<1> QED BY <1>6 DEF SessionHash

(* The verify_data of both ends once the client's Finished is in the cache. *)
LEMMA ServerHash ==
    ASSUME IInv, NEW e \in End,
           \/ e = "server" /\ flight[e] = "Flight6"
           \/ e = "client" /\ flight[e] = "Flight5" /\ fsm[e] = "Waiting"
    PROVE  Merged(e, VerifyRules) = ServerVerifyData
<1>1. cache[e] \subseteq Script /\ EndInv(e) /\ Got(e) \in Nat
  BY EndFacts, Ends
<1>2. Got(e) >= 6
  BY <1>1 DEF EndInv, NumbersInv, RecvOf
<1>3. \A n \in 1 .. 5 : Msg("client", n) \in cache[e] /\ Msg("server", n) \in cache[e]
  <2>1. CASE e = "server"
    <3>1. flight["server"] = "Flight6" /\ FirstOf("Flight6") = 6 /\ Got("server") >= 6
      BY <1>2, <2>1 DEF FirstOf
    <3> QED BY <1>1, <2>1, <3>1, Holds
  <2>2. CASE e = "client"
    <3>1. /\ flight["client"] = "Flight5" /\ NextOf("Flight5") = 6 /\ fsm["client"] = "Waiting"
          /\ Got("client") >= 6
      BY <1>2, <2>2 DEF NextOf
    <3> QED BY <1>1, <2>2, <3>1, Holds
  <2> QED BY <2>1, <2>2 DEF End
<1>4. \A p \in ServerPlaces : Msg(p[1], p[2]) \in cache[e]
  BY <1>3 DEF ServerPlaces, ClientPlaces, KeyPlaces
<1> QED BY <1>1, <1>3, <1>4, RulesArePlaces, MergedAll DEF ServerVerifyData

(* The client's keys and verify_data, with the numbers it predicts. *)
LEMMA ClientHash ==
    ASSUME IInv, flight["client"] = "Flight5", fsm["client"] = "Preparing"
    PROVE  LET exchange == {<<"client", "Certificate", 2>>, <<"client", "ClientKeyExchange", 3>>}
           IN  /\ SessionHash("client", exchange) = Keys
               /\ Merged("client", VerifyRules) \cup exchange \cup {<<"client", "CertificateVerify", 4>>}
                    = ClientVerifyData
<1> DEFINE exchange == {<<"client", "Certificate", 2>>, <<"client", "ClientKeyExchange", 3>>}
           before == {<<"client", 1>>, <<"server", 1>>, <<"server", 2>>, <<"server", 3>>,
                      <<"server", 4>>, <<"server", 5>>}
<1>1. cache["client"] \subseteq Script /\ EndInv("client") /\ Got("client") \in Nat
  BY EndFacts, Ends
<1>2. /\ Got("client") >= 6 /\ state["client"].handshake_send_sequence = 2
      /\ FirstOf("Flight5") = 2
  BY <1>1 DEF EndInv, NumbersInv, RecvOf, FirstOf
<1>3. \A n \in 1 .. 5 : Msg("server", n) \in cache["client"]
  BY <1>1, <1>2, Holds
<1>4. \A n \in 2 .. 5 : Msg("client", n) \notin cache["client"]
  BY <1>2, Holds
<1>5. Msg("client", 1) \in cache["client"]
  BY <1>2, Holds
<1>6. {p \in KeyPlaces : Msg(p[1], p[2]) \in cache["client"]} = before
  BY <1>3, <1>4, <1>5 DEF KeyPlaces
<1>7. {p \in ServerPlaces : Msg(p[1], p[2]) \in cache["client"]} = before
  BY <1>3, <1>4, <1>5 DEF KeyPlaces, ClientPlaces, ServerPlaces
<1>8. /\ Id(<<"client", 2>>) = <<"client", "Certificate", 2>>
      /\ Id(<<"client", 3>>) = <<"client", "ClientKeyExchange", 3>>
      /\ Id(<<"client", 4>>) = <<"client", "CertificateVerify", 4>>
  BY DEF Id, TypeOf
<1>9. /\ Merged("client", KeyRules) = {Id(p) : p \in before}
      /\ Merged("client", VerifyRules) = {Id(p) : p \in before}
  <2>1. \A P \in SUBSET ServerPlaces :
          Merged("client", {Rule(p) : p \in P})
            = {Id(p) : p \in {q \in P : Msg(q[1], q[2]) \in cache["client"]}}
    BY <1>1, <1>5, Ends, MergedIs
  <2>2. KeyPlaces \in SUBSET ServerPlaces /\ ServerPlaces \in SUBSET ServerPlaces
    BY Places
  <2> HIDE DEF before
  <2>3. Merged("client", KeyRules) = {Id(p) : p \in before}
    BY <1>6, <2>1, <2>2, RulesArePlaces, Zenon
  <2>4. Merged("client", VerifyRules) = {Id(p) : p \in before}
    BY <1>7, <2>1, <2>2, RulesArePlaces, Zenon
  <2> QED BY <2>3, <2>4
<1>10. Keys = {Id(p) : p \in before} \cup {Id(<<"client", 2>>), Id(<<"client", 3>>)}
  BY Zenon DEF Keys, KeyPlaces
<1>11. ClientVerifyData = Keys \cup {Id(<<"client", 4>>)}
  BY Zenon DEF Keys, ClientVerifyData, ClientPlaces
<1> HIDE DEF before
<1> QED BY <1>8, <1>9, <1>10, <1>11 DEF SessionHash

(* Flight3.parse: the server's key exchange, once all of it is there. *)
LEMMA Parse3Is ==
    ASSUME IInv, flight["client"] = "Flight3"
    PROVE  Parse3("client") =
             IF Got("client") >= 6
             THEN Parsed("Flight5", [state["client"] EXCEPT !.handshake_recv_sequence = 6,
                                                            !.cipher_suite = "chosen",
                                                            !.peer_certificates = TRUE])
             ELSE Parsed("keep_reading", state["client"])
<1> DEFINE hello == May("HelloVerifyRequest", 0)
           again == FullPullMap("client", "server", 1, <<hello>>)
           rules == <<Must("ServerHello", 0), May("Certificate", 0), Must("ServerKeyExchange", 0),
                      May("CertificateRequest", 0), Must("ServerHelloDone", 0)>>
           p == FullPullMap("client", "server", 1, rules)
<1>1. /\ EndInv("client") /\ Got("client") \in Nat /\ "client" \in End /\ "server" \in End
      /\ Peer("client") = "server"
  BY Ends, EndFacts
<1>2. state["client"].handshake_recv_sequence = 1 /\ Got("client") >= 1
  BY <1>1 DEF EndInv, NumbersInv, RecvOf
<1>3. ~again.ok
  <2>1. /\ 0 \in Number("server") /\ TypeOf("server", 0) = "HelloVerifyRequest"
        /\ EpochOf("server", 0) = 0 /\ Msg("server", 0).seq = 0
    BY DEF Number, LastOf, TypeOf, EpochOf, Msg
  <2>2. 0 < Got("client")
    BY <1>1, <1>2
  <2>3. Latest("client", "server", "HelloVerifyRequest", 0) = {Msg("server", 0)}
    BY <1>1, <2>1, <2>2, Finds
  <2>4. hello.type = "HelloVerifyRequest" /\ hello.epoch = 0
    BY DEF May
  <2> HIDE DEF hello
  <2>5. again.ok <=> (hello.optional \/ Latest("client", "server", hello.type, hello.epoch) # {})
                     /\ \A m \in Latest("client", "server", hello.type, hello.epoch) : m.seq = 1
    BY <1>1, 1 \in Nat, SinglePull
  <2> QED BY <2>1, <2>3, <2>4, <2>5
<1>4. /\ p.ok <=> Got("client") >= 6
      /\ p.ok => p.seq = 6 /\ "Certificate" \in p.types
  <2>1. /\ Len(rules) = 5 /\ rules[1] = Must("ServerHello", 0) /\ rules[2] = May("Certificate", 0)
        /\ rules[3] = Must("ServerKeyExchange", 0) /\ rules[4] = May("CertificateRequest", 0)
        /\ rules[5] = Must("ServerHelloDone", 0)
    OBVIOUS
  <2>2. /\ rules[1].type = "ServerHello" /\ rules[1].epoch = 0
        /\ rules[2].type = "Certificate" /\ rules[2].epoch = 0
        /\ rules[3].type = "ServerKeyExchange" /\ rules[3].epoch = 0
        /\ rules[4].type = "CertificateRequest" /\ rules[4].epoch = 0
        /\ rules[5].type = "ServerHelloDone" /\ rules[5].epoch = 0 /\ ~rules[5].optional
    BY <2>1 DEF Must, May
  <2> HIDE DEF rules
  <2>3. \A i \in 1 .. Len(rules) : /\ 1 + i - 1 \in Number("server")
                                   /\ rules[i].type = TypeOf("server", 1 + i - 1)
                                   /\ rules[i].epoch = EpochOf("server", 1 + i - 1)
    BY <2>1, <2>2 DEF Number, LastOf, TypeOf, EpochOf
  <2>4. /\ p.ok <=> \A i \in 1 .. Len(rules) : rules[i].optional \/ 1 + i - 1 < Got("client")
        /\ p.seq = (IF 1 + Len(rules) < Got("client") THEN 1 + Len(rules) ELSE Got("client"))
        /\ \A t : t \in p.types
                  <=> \E i \in 1 .. Len(rules) : 1 + i - 1 < Got("client") /\ t = rules[i].type
    <3>1. 1 \in Nat /\ 1 <= Got("client") /\ Len(rules) \in Nat
      BY <1>1, <1>2, <2>1
    <3> QED BY <1>1, <2>3, <3>1, PeerPull
  <2> HIDE DEF p
  <2>5. p.ok <=> Got("client") >= 6
    <3>1. ASSUME p.ok PROVE Got("client") >= 6
      BY <1>1, <2>1, <2>2, <2>4, <3>1
    <3>2. ASSUME Got("client") >= 6 PROVE p.ok
      BY <1>1, <2>1, <2>4, <3>2
    <3> QED BY <3>1, <3>2
  <2>6. Got("client") >= 6 => p.seq = 6
    BY <1>1, <2>1, <2>4
  <2>7. Got("client") >= 6 => "Certificate" \in p.types
    BY <1>1, <2>1, <2>2, <2>4
  <2> QED BY <2>5, <2>6, <2>7
<1>5. Parse3("client") = IF again.ok /\ again.types # {}
        THEN Parsed("Flight3", [state["client"] EXCEPT
                                   !.cookie = BodyIn("client", "server", "HelloVerifyRequest"),
                                   !.handshake_recv_sequence = again.seq])
        ELSE IF p.ok
        THEN Parsed("Flight5", [state["client"] EXCEPT
                                   !.handshake_recv_sequence = p.seq,
                                   !.cipher_suite = "chosen",
                                   !.peer_certificates = @ \/ "Certificate" \in p.types])
        ELSE Parsed("keep_reading", state["client"])
  BY <1>2 DEF Parse3
<1> HIDE DEF p, again
<1>6. Parse3("client") = IF p.ok
        THEN Parsed("Flight5", [state["client"] EXCEPT
                                   !.handshake_recv_sequence = p.seq,
                                   !.cipher_suite = "chosen",
                                   !.peer_certificates = @ \/ "Certificate" \in p.types])
        ELSE Parsed("keep_reading", state["client"])
  BY <1>3, <1>5
<1> QED BY <1>4, <1>6

(* Flight5.parse: the server's Finished, whose verify_data is the one expected. *)
LEMMA Parse5Is ==
    ASSUME IInv, flight["client"] = "Flight5", fsm["client"] = "Waiting"
    PROVE  /\ Parse5("client") = Parsed("Flight5", state["client"])
                \/ Parse5("client") = Parsed("keep_reading", state["client"])
           /\ Parse5("client") = Parsed("Flight5", state["client"]) => Got("client") = 7
           /\ Got("client") = 7 => Parse5("client") = Parsed("Flight5", state["client"])
<1> DEFINE p == FullPullMap("client", "server", 6, <<Must("Finished", 1)>>)
           found == Latest("client", "server", "Finished", 1)
           data == UNION {m.body : m \in found}
<1>1. /\ EndInv("client") /\ Got("client") \in Nat /\ "client" \in End /\ "server" \in End
      /\ Peer("client") = "server"
  BY Ends, EndFacts
<1>2. /\ state["client"].handshake_recv_sequence = 6 /\ Got("client") >= 6
      /\ Got("client") <= 7
  BY <1>1 DEF EndInv, NumbersInv, RecvOf, LastOf
<1>3. found = (IF 6 < Got("client") THEN {Msg("server", 6)} ELSE {})
  <2>1. /\ 6 \in Number("server") /\ TypeOf("server", 6) = "Finished" /\ EpochOf("server", 6) = 1
    BY DEF Number, LastOf, TypeOf, EpochOf
  <2> QED BY <1>1, <2>1, Finds
<1>4. p.ok <=> found # {} /\ \A m \in found : m.seq = 6
  BY <1>1, 6 \in Nat, MustPull
<1>5. Msg("server", 6).seq = 6 /\ Msg("server", 6).body = ServerVerifyData
  BY DEF Msg, BodyOf
<1>6. Merged("client", VerifyRules) = ServerVerifyData
  BY <1>1, ServerHash
<1>7. Parse5("client") = Parsed(CASE ~p.ok -> "keep_reading"
                                  [] p.ok /\ data # Merged("client", VerifyRules) -> "error"
                                  [] OTHER -> "Flight5", state["client"])
  BY <1>2 DEF Parse5
<1> HIDE DEF p, found
<1>8. CASE Got("client") = 7
  <2>1. found = {Msg("server", 6)}
    BY <1>3, <1>8
  <2>2. p.ok /\ data = ServerVerifyData
    BY <1>4, <1>5, <2>1
  <2> HIDE DEF data
  <2> QED BY <1>6, <1>7, <1>8, <2>2
<1>9. CASE Got("client") = 6
  <2>1. found = {}
    BY <1>3, <1>9
  <2>2. ~p.ok
    BY <1>4, <2>1
  <2>3. Parse5("client") = Parsed("keep_reading", state["client"])
    BY <1>7, <2>2
  <2>4. Parse5("client") # Parsed("Flight5", state["client"])
    BY <2>3 DEF Parsed
  <2> QED BY <1>9, <2>3, <2>4
<1> QED BY <1>1, <1>2, <1>8, <1>9

(* Flight4.parse, first half: the client's key exchange. *)
LEMMA KeyExchangeIs ==
    ASSUME IInv, flight["server"] = "Flight4"
    PROVE  /\ KeyExchange("server").ok <=> Got("server") >= 4
           /\ Got("server") >= 4 => "Certificate" \in KeyExchange("server").types
           /\ Got("server") >= 5 <=> "CertificateVerify" \in KeyExchange("server").types
           /\ KeyExchange("server").seq = (IF 5 < Got("server") THEN 5 ELSE Got("server"))
<1> DEFINE rules == <<May("Certificate", 0), Must("ClientKeyExchange", 0), May("CertificateVerify", 0)>>
           p == FullPullMap("server", "client", 2, rules)
<1>1. /\ EndInv("server") /\ Got("server") \in Nat /\ "client" \in End /\ "server" \in End
      /\ Peer("server") = "client"
  BY Ends, EndFacts
<1>2. state["server"].handshake_recv_sequence = 2 /\ Got("server") >= 2
  BY <1>1 DEF EndInv, NumbersInv, RecvOf
<1>3. KeyExchange("server") = p
  BY <1>2 DEF KeyExchange
<1>4. /\ Len(rules) = 3 /\ rules[1] = May("Certificate", 0) /\ rules[2] = Must("ClientKeyExchange", 0)
      /\ rules[3] = May("CertificateVerify", 0)
  OBVIOUS
<1>5. /\ rules[1].type = "Certificate" /\ rules[1].epoch = 0 /\ rules[1].optional
      /\ rules[2].type = "ClientKeyExchange" /\ rules[2].epoch = 0 /\ ~rules[2].optional
      /\ rules[3].type = "CertificateVerify" /\ rules[3].epoch = 0 /\ rules[3].optional
  BY <1>4 DEF Must, May
<1> HIDE DEF rules
<1>6. \A i \in 1 .. Len(rules) : /\ 2 + i - 1 \in Number("client")
                                 /\ rules[i].type = TypeOf("client", 2 + i - 1)
                                 /\ rules[i].epoch = EpochOf("client", 2 + i - 1)
  BY <1>4, <1>5 DEF Number, LastOf, TypeOf, EpochOf
<1>7. /\ p.ok <=> \A i \in 1 .. Len(rules) : rules[i].optional \/ 2 + i - 1 < Got("server")
      /\ p.seq = (IF 2 + Len(rules) < Got("server") THEN 2 + Len(rules) ELSE Got("server"))
      /\ \A t : t \in p.types
                <=> \E i \in 1 .. Len(rules) : 2 + i - 1 < Got("server") /\ t = rules[i].type
  <2>1. 2 \in Nat /\ 2 <= Got("server") /\ Len(rules) \in Nat /\ 2 >= 2
    BY <1>1, <1>2, <1>4
  <2> QED BY <1>1, <1>6, <2>1, PeerPull
<1> HIDE DEF p
<1>8. p.ok <=> Got("server") >= 4
  <2>1. ASSUME p.ok PROVE Got("server") >= 4
    BY <1>1, <1>4, <1>5, <1>7, <2>1
  <2>2. ASSUME Got("server") >= 4 PROVE p.ok
    <3>1. \A i \in 1 .. Len(rules) : i = 1 \/ i = 2 \/ i = 3
      BY <1>4
    <3>2. 2 + 2 - 1 < Got("server")
      BY <1>1, <2>2
    <3> QED BY <1>5, <1>7, <3>1, <3>2
  <2> QED BY <2>1, <2>2
<1>9. Got("server") >= 4 => "Certificate" \in p.types
  BY <1>1, <1>4, <1>5, <1>7
<1>10. Got("server") >= 5 <=> "CertificateVerify" \in p.types
  <2>1. Got("server") >= 5 => "CertificateVerify" \in p.types
    BY <1>1, <1>4, <1>5, <1>7
  <2>2. ASSUME "CertificateVerify" \in p.types PROVE Got("server") >= 5
    <3>1. PICK i \in 1 .. Len(rules) : 2 + i - 1 < Got("server") /\ "CertificateVerify" = rules[i].type
      BY <1>7, <2>2
    <3>2. i = 3
      BY <1>4, <1>5, <3>1
    <3> QED BY <1>1, <3>1, <3>2
  <2> QED BY <2>1, <2>2
<1>11. p.seq = (IF 5 < Got("server") THEN 5 ELSE Got("server"))
  BY <1>1, <1>4, <1>7
<1> QED BY <1>3, <1>8, <1>9, <1>10, <1>11

(* Flight4.parse: the client has signed what the server finds in its own cache. *)
LEMMA CertificateAccepted ==
    ASSUME IInv, flight["server"] = "Flight4", fsm["server"] = "Waiting", KeyExchange("server").ok
    PROVE  ~CertificateRefused("server", KeyExchange("server").types)
<1> SUFFICES ASSUME "CertificateVerify" \in KeyExchange("server").types
             PROVE  /\ "Certificate" \in KeyExchange("server").types
                    /\ BodyIn("server", "client", "CertificateVerify") = SessionHash("server", {})
  BY DEF CertificateRefused
<1>1. /\ EndInv("server") /\ Got("server") \in Nat /\ "client" \in End /\ "server" \in End
      /\ Peer("server") = "client"
  BY Ends, EndFacts
<1>2. /\ Got("server") >= 4 /\ Got("server") >= 5 /\ 4 < Got("server")
      /\ "Certificate" \in KeyExchange("server").types
  BY <1>1, KeyExchangeIs
<1>3. SessionHash("server", {}) = Keys
  BY <1>2, ServerKeys
<1>4. /\ 4 \in Number("client") /\ TypeOf("client", 4) = "CertificateVerify" /\ EpochOf("client", 4) = 0
      /\ Msg("client", 4).body = Keys
  BY DEF Number, LastOf, TypeOf, EpochOf, Msg, BodyOf
<1>5. Latest("server", "client", "CertificateVerify", 0) = {Msg("client", 4)}
  BY <1>1, <1>2, <1>4, Finds
<1>6. BodyIn("server", "client", "CertificateVerify") = Keys
  BY <1>4, <1>5 DEF BodyIn
<1> QED BY <1>2, <1>3, <1>6

(* Flight4.parse, second half: the client's Finished. *)
LEMMA Parse4FinishedIs ==
    ASSUME IInv, fsm["server"] = "Draining"
    PROVE  Parse4Finished("server") =
             IF Got("server") = 6
             THEN Parsed("Flight6", [state["server"] EXCEPT !.handshake_recv_sequence = 6])
             ELSE Parsed("keep_reading", state["server"])
<1> DEFINE s == KeyExchange("server").seq
           p == FullPullMap("server", "client", s, <<Must("Finished", 1)>>)
           found == Latest("server", "client", "Finished", 1)
<1>1. /\ EndInv("server") /\ Got("server") \in Nat /\ "client" \in End /\ "server" \in End
      /\ Peer("server") = "client"
  BY Ends, EndFacts
<1>2. flight["server"] = "Flight4" /\ Got("server") <= 6
  BY <1>1 DEF EndInv, RolesInv, NumbersInv, LastOf
<1>3. Got("server") >= 4 /\ state["server"].peer_certificates
  BY DEF IInv, ServerInv
<1>4. s = (IF 5 < Got("server") THEN 5 ELSE Got("server"))
  BY <1>2, KeyExchangeIs
<1>5. found = (IF 5 < Got("server") THEN {Msg("client", 5)} ELSE {})
  <2>1. /\ 5 \in Number("client") /\ TypeOf("client", 5) = "Finished" /\ EpochOf("client", 5) = 1
    BY DEF Number, LastOf, TypeOf, EpochOf
  <2> QED BY <1>1, <2>1, Finds
<1> HIDE DEF s
<1>6. s \in Nat
  BY <1>1, <1>4
<1>7. /\ p.ok <=> found # {} /\ \A m \in found : m.seq = s
      /\ found # {} => p.seq = s + 1
  BY <1>1, <1>6, MustPull
<1>8. Msg("client", 5).seq = 5
  BY DEF Msg
<1>9. Parse4Finished("server") =
        IF ~p.ok THEN Parsed("keep_reading", state["server"])
        ELSE Parsed(IF state["server"].peer_certificates THEN "Flight6" ELSE "error",
                    [state["server"] EXCEPT !.handshake_recv_sequence = p.seq])
  BY DEF Parse4Finished, s
<1> HIDE DEF p, found
<1>10. CASE Got("server") = 6
  <2>1. s = 5 /\ found = {Msg("client", 5)}
    BY <1>4, <1>5, <1>10
  <2>2. p.ok /\ p.seq = 6
    BY <1>7, <1>8, <2>1
  <2> QED BY <1>3, <1>9, <1>10, <2>2
<1>11. CASE Got("server") # 6
  <2>1. found = {}
    BY <1>1, <1>2, <1>5, <1>11
  <2> QED BY <1>7, <1>9, <1>11, <2>1
<1> QED BY <1>10, <1>11
-----------------------------------------------------------------------------
(***************************************************************************)
(* Datagrams and the network.                                              *)
(***************************************************************************)

(* Whatever compact_raw_packets makes of them, datagrams hold packets, sealed. *)
LEMMA DatagramsOf ==
    ASSUME NEW e \in End, NEW pkts \in Seq(PacketType), NEW d \in Datagrams(e, pkts)
    PROVE  /\ d.to = Peer(e)
           /\ Len(d.recs) \in Nat
           /\ d.recs = [i \in 1 .. Len(d.recs) |-> d.recs[i]]
           /\ \A i \in 1 .. Len(d.recs) : \E j \in 1 .. Len(pkts) : d.recs[i] = Sealed(e, pkts[j])
           /\ d = [to |-> d.to, recs |-> d.recs]
<1> DEFINE recs == [i \in 1 .. Len(pkts) |-> Sealed(e, pkts[i])]
           T == {Sealed(e, pkts[i]) : i \in 1 .. Len(pkts)}
<1>1. recs \in Seq(T) /\ Len(recs) = Len(pkts)
  BY Z3
<1>2. PICK x \in Compacted(recs) : d = [to |-> Peer(e), recs |-> x]
  BY DEF Datagrams
<1>3. PICK s \in (1 .. Len(recs)) \X (1 .. Len(recs)) : x = SubSeq(recs, s[1], s[2])
  BY <1>2 DEF Compacted
<1>4. s[1] \in 1 .. Len(recs) /\ s[2] \in 1 .. Len(recs)
  BY <1>3
<1> HIDE DEF recs
<1>5. x \in Seq(T)
  <2>1. s[1] \in 1 .. Len(recs) + 1 /\ s[2] \in 0 .. Len(recs)
    BY <1>1, <1>4
  <2> QED BY <1>1, <1>3, <2>1, SubSeqProperties
<1>6. Len(x) \in Nat /\ x = [i \in 1 .. Len(x) |-> x[i]] /\ \A i \in 1 .. Len(x) : x[i] \in T
  BY <1>5
<1>7. d.to = Peer(e) /\ d.recs = x
  BY <1>2
<1> QED BY <1>2, <1>6, <1>7

(* Sealed packets are records. *)
LEMMA SealedType ==
    ASSUME TypeOK, NEW e \in End, NEW p \in PacketType
    PROVE  Sealed(e, p) \in RecordType
<1>1. state[e].master_secret \in SUBSET Identity
  BY DEF TypeOK
<1> QED BY <1>1 DEF Sealed, PacketType, RecordType

(* New datagrams have their type. *)
LEMMA DatagramsType ==
    ASSUME TypeOK, NEW e \in End, NEW pkts \in Seq(PacketType)
    PROVE  Datagrams(e, pkts) \subseteq [to : End, recs : Seq(RecordType)]
<1> SUFFICES ASSUME NEW d \in Datagrams(e, pkts)
             PROVE  d \in [to : End, recs : Seq(RecordType)]
  OBVIOUS
<1>1. /\ d.to = Peer(e) /\ Len(d.recs) \in Nat
      /\ d.recs = [i \in 1 .. Len(d.recs) |-> d.recs[i]]
      /\ \A i \in 1 .. Len(d.recs) : \E j \in 1 .. Len(pkts) : d.recs[i] = Sealed(e, pkts[j])
      /\ d = [to |-> d.to, recs |-> d.recs]
  BY DatagramsOf
<1>2. \A i \in 1 .. Len(d.recs) : d.recs[i] \in RecordType
  <2> SUFFICES ASSUME NEW i \in 1 .. Len(d.recs) PROVE d.recs[i] \in RecordType
    OBVIOUS
  <2>1. PICK j \in 1 .. Len(pkts) : d.recs[i] = Sealed(e, pkts[j])
    BY <1>1
  <2>2. pkts[j] \in PacketType
    OBVIOUS
  <2> QED BY <2>1, <2>2, SealedType
<1>3. d.recs \in Seq(RecordType)
  <2> DEFINE n == Len(d.recs)
             g == d.recs
  <2>1. n \in Nat /\ g = [i \in 1 .. n |-> g[i]] /\ \A i \in 1 .. n : g[i] \in RecordType
    BY <1>1, <1>2
  <2> HIDE DEF n, g
  <2>2. g \in Seq(RecordType)
    BY <2>1
  <2> QED BY <2>2 DEF g
<1>4. Peer(e) \in End
  BY Ends
<1> QED BY <1>1, <1>3, <1>4

(* The network holds what it held and what is sent, less what it loses. *)
LEMMA Transmitted ==
    ASSUME NEW ds, Transmit(ds)
    PROVE  net' \subseteq net \cup ds
BY DEF Transmit, kSubset

(* compact_raw_packets keeps the two records of Flight 6 together. *)
LEMMA PlacedTogether ==
    ASSUME NEW recs, Len(recs) = 2, recs[1].type = "ChangeCipherSpec", recs[2].type = "Finished"
    PROVE  Placed(recs)[1].first = 1 /\ Placed(recs)[2].first = 1
<1> DEFINE size(i) == Size[recs[i].type]
           body(g) == [i \in 1 .. Len(recs) |->
                         IF i > 1 /\ g[i - 1].length + size(i) < Mtu
                         THEN [first |-> g[i - 1].first, length |-> g[i - 1].length + size(i)]
                         ELSE [first |-> i, length |-> size(i)]]
           w == [i \in 1 .. 2 |-> IF i = 1 THEN [first |-> 1, length |-> size(1)]
                                  ELSE [first |-> 1, length |-> size(1) + size(2)]]
<1>1. /\ size(1) \in Nat /\ size(2) \in Nat /\ size(1) + size(2) < Mtu /\ Mtu \in Nat
  BY DtlsAssumption DEF ContentType, HandshakeType
<1> HIDE DEF size
<1>2. w = body(w)
  <2>1. w[1].length = size(1) /\ w[1].first = 1
    OBVIOUS
  <2>2. 1 .. Len(recs) = 1 .. 2 /\ \A i \in 1 .. 2 : i = 1 \/ i = 2
    OBVIOUS
  <2>3. body(w)[1] = [first |-> 1, length |-> size(1)]
    BY <2>2
  <2>4. body(w)[2] = [first |-> 1, length |-> size(1) + size(2)]
    BY <1>1, <2>1, <2>2
  <2>5. /\ DOMAIN w = 1 .. 2 /\ DOMAIN body(w) = 1 .. 2
        /\ w = [i \in 1 .. 2 |-> w[i]] /\ body(w) = [i \in 1 .. 2 |-> body(w)[i]]
    BY <2>2
  <2>6. \A i \in 1 .. 2 : w[i] = body(w)[i]
    BY <2>2, <2>3, <2>4
  <2> HIDE DEF w, body
  <2> QED BY <2>5, <2>6
<1>3. Placed(recs) = CHOOSE g : g = body(g)
  BY DEF Placed, size
<1> DEFINE g == Placed(recs)
<1>4. g = body(g)
  <2> HIDE DEF w, body
  <2> QED BY <1>2, <1>3
<1> HIDE DEF g
<1>5. g[1] = [first |-> 1, length |-> size(1)]
  BY <1>4
<1>6. g[2] = IF g[1].length + size(2) < Mtu
             THEN [first |-> g[1].first, length |-> g[1].length + size(2)]
             ELSE [first |-> 2, length |-> size(2)]
  BY <1>4
<1> QED BY <1>1, <1>5, <1>6 DEF g

(* Flight 6 arrives whole. *)
LEMMA LastFlight ==
    ASSUME NEW e \in End, NEW pkts, Len(pkts) = 2,
           pkts[1].type = "ChangeCipherSpec", pkts[2].type = "Finished",
           NEW d \in Datagrams(e, pkts)
    PROVE  /\ Len(d.recs) = 2
           /\ d.recs[1].type = "ChangeCipherSpec" /\ d.recs[2].type = "Finished"
<1> DEFINE recs == [i \in 1 .. Len(pkts) |-> Sealed(e, pkts[i])]
           at == Placed(recs)
<1>1. /\ recs = <<recs[1], recs[2]>> /\ Len(recs) = 2
      /\ recs[1].type = "ChangeCipherSpec" /\ recs[2].type = "Finished"
  BY DEF Sealed
<1>2. PICK x \in Compacted(recs) : d = [to |-> Peer(e), recs |-> x]
  BY DEF Datagrams
<1> HIDE DEF recs
<1>3. PICK s \in (1 .. Len(recs)) \X (1 .. Len(recs)) :
        x = SubSeq(recs, s[1], s[2]) /\ at[s[2]].first = s[1] /\ (s[2] < Len(recs) => at[s[2] + 1].first # s[1])
  BY <1>2 DEF Compacted
<1>4. at[1].first = 1 /\ at[2].first = 1
  BY <1>1, PlacedTogether
<1> HIDE DEF at
<1>5. s[1] = 1 /\ s[2] = 2
  <2>1. s[2] \in {1, 2} /\ s[1] \in {1, 2}
    BY <1>1, <1>3
  <2>2. s[2] # 1
    <3> SUFFICES ASSUME s[2] = 1 PROVE FALSE
      OBVIOUS
    <3>1. s[1] = 1 /\ at[1 + 1].first # s[1]
      BY <1>1, <1>3, <1>4
    <3> QED BY <1>4, <3>1
  <2> QED BY <1>3, <1>4, <2>1, <2>2
<1>6. x = SubSeq(recs, 1, 2)
  BY <1>3, <1>5
<1>7. Len(x) = 2 /\ x[1] = recs[1] /\ x[2] = recs[2]
  <2> DEFINE T == {recs[1], recs[2]}
  <2>1. 1 \in Int /\ 2 \in Int /\ \A i \in 1 .. 2 : recs[i] \in T
    OBVIOUS
  <2>2. /\ Len(x) = (IF 1 <= 2 THEN 2 - 1 + 1 ELSE 0)
        /\ \A i \in 1 .. 2 - 1 + 1 : x[i] = recs[1 + i - 1]
    BY <1>6, <2>1, SubSeqProperties
  <2> QED BY <2>2
<1> QED BY <1>1, <1>2, <1>7
-----------------------------------------------------------------------------
(***************************************************************************)
(* What steps leave alone.                                                 *)
(***************************************************************************)
StateType ==
    [handshake_send_sequence : Nat, handshake_recv_sequence : Nat,
     local_epoch : 0 .. 1, remote_epoch : 0 .. 1, cookie : SUBSET Identity,
     cipher_suite : {"none", "chosen", "initialized"}, master_secret : SUBSET Identity,
     peer_certificates : BOOLEAN, verified : BOOLEAN]

CtxType ==
    [reader : {"recv", "records", "wait", "drain", "exited"},
     rest : Seq(RecordType), has_handshake : BOOLEAN,
     encrypted_packets : Seq(RecordType), fragments : SUBSET MessageType,
     current_message_sequence_number : Nat]

(* The type invariant by variables. *)
LEMMA TypeIs ==
    TypeOK <=> /\ fsm \in [End -> {"Preparing", "Sending", "Waiting", "Draining", "Completing", "Finished", "Failed"}]
               /\ flight \in [End -> Flight]
               /\ flights \in [End -> Seq(PacketType)]
               /\ state \in [End -> StateType]
               /\ cache \in [End -> SUBSET MessageType]
               /\ ctx \in [End -> CtxType]
               /\ decrypted \in [End -> 0 .. 1]
               /\ closed \in [End -> BOOLEAN]
               /\ net \in SUBSET [to : End, recs : Seq(RecordType)]
BY DEF TypeOK, StateType, CtxType

\* What an end has sent or finished it has sent or finished for good.
Progress(f) == cache[f] \subseteq cache'[f] /\ (fsm[f] \in {"Completing", "Finished"} => fsm'[f] \in {"Completing", "Finished"})

(* What a record says of its sender stays true. *)
LEMMA RecordStays ==
    ASSUME NEW f \in End, Progress(f), NEW r, RecordOK(f, r)
    PROVE  RecordOK(f, r)'
BY DEF Progress, RecordOK, IsHandshake, Cached, Msg

(* So do those of a sequence of them. *)
LEMMA RecordsStay ==
    ASSUME NEW f \in End, Progress(f), NEW recs, RecordsOK(f, recs)
    PROVE  RecordsOK(f, recs)'
<1> SUFFICES ASSUME NEW i \in 1 .. Len(recs) PROVE RecordOK(f, recs[i])'
  BY DEF RecordsOK
<1>1. RecordOK(f, recs[i])
  BY DEF RecordsOK
<1> DEFINE r == recs[i]
<1>2. RecordOK(f, r)
  BY <1>1
<1> HIDE DEF r
<1>3. RecordOK(f, r)'
  BY <1>2, RecordStays
<1> QED BY <1>3 DEF r

\* The handshake task of an end and its cache are as before, and so is the fragment
\* buffer.
TaskSame(f) ==
    /\ fsm'[f] = fsm[f] /\ flight'[f] = flight[f] /\ flights'[f] = flights[f]
    /\ state'[f] = state[f] /\ cache'[f] = cache[f]
    /\ ctx'[f].fragments = ctx[f].fragments
    /\ ctx'[f].current_message_sequence_number = ctx[f].current_message_sequence_number

(* An end whose task does nothing keeps its part of the invariant. *)
LEMMA TaskStays ==
    ASSUME IInv, NEW f \in End, TaskSame(f), Progress(Peer(f))
    PROVE  /\ RolesInv(f)' /\ NumbersInv(f)' /\ CacheInv(f)' /\ LinkInv(f)'
           /\ KeysInv(f)' /\ FlightsInv(f)' /\ Progress(f) /\ Got(f)' = Got(f)
<1>1. /\ RolesInv(f) /\ NumbersInv(f) /\ CacheInv(f) /\ LinkInv(f) /\ KeysInv(f) /\ FlightsInv(f)
  BY EndFacts DEF EndInv
<1>2. Got(f)' = Got(f)
  BY DEF TaskSame, Got
<1>3. RolesInv(f)'
  BY <1>1 DEF TaskSame, RolesInv
<1>4. NumbersInv(f)'
  BY <1>1, <1>2 DEF TaskSame, NumbersInv, Peer, LastOf, FirstOf, NextOf, RecvOf, Msg
<1>5. CacheInv(f)'
  <2>1. cache'[f] \subseteq Script
    BY <1>1 DEF TaskSame, CacheInv
  <2>2. \A n \in Number(Peer(f)) : Msg(Peer(f), n) \in cache'[f] <=> n < Got(f)'
    BY <1>1, <1>2 DEF TaskSame, CacheInv
  <2>3. \A n \in Number(f) :
         /\ Msg(f, n) \in cache'[f] => n < state'[f].handshake_send_sequence
         /\ n < FirstOf(flight'[f]) => Msg(f, n) \in cache'[f]
         /\ n < NextOf(flight'[f]) /\ fsm'[f] \notin {"Preparing", "Sending"} => Msg(f, n) \in cache'[f]
    BY <1>1 DEF TaskSame, CacheInv
  <2> QED BY <2>1, <2>2, <2>3 DEF CacheInv
<1>6. LinkInv(f)'
  BY <1>1, <1>2 DEF TaskSame, LinkInv, Progress
<1>7. KeysInv(f)'
  BY <1>1 DEF TaskSame, KeysInv, Initialized, Progress
<1>8. FlightsInv(f)'
  BY <1>1 DEF TaskSame, FlightsInv
<1>9. Progress(f)
  BY DEF TaskSame, Progress
<1> QED BY <1>2, <1>3, <1>4, <1>5, <1>6, <1>7, <1>8, <1>9

\* A step of e leaves the other end alone.
OtherSame(e) ==
    LET f == Peer(e)
    IN  /\ fsm'[f] = fsm[f] /\ flight'[f] = flight[f] /\ flights'[f] = flights[f]
        /\ state'[f] = state[f] /\ cache'[f] = cache[f] /\ ctx'[f] = ctx[f]
        /\ decrypted'[f] = decrypted[f]

\* What a step of e has to show about the end it is a step of.
OwnInv(e) ==
    /\ RolesInv(e) /\ NumbersInv(e) /\ CacheInv(e) /\ LinkInv(e) /\ KeysInv(e) /\ FlightsInv(e)
    /\ RecordsInv(e)
    /\ decrypted[e] > 0 => fsm[e] \in {"Completing", "Finished"}
    /\ e = "server" => ServerInv /\ (Msg("server", 6) \in cache["server"] => fsm["server"] \in {"Completing", "Finished"})
    /\ e = "client" => ClientInv /\ (fsm["client"] \in {"Completing", "Finished"} => Got("client") = 7)

(* The invariant gives it. *)
LEMMA OwnFacts ==
    ASSUME IInv, NEW e \in End
    PROVE  OwnInv(e)
<1>1. EndInv(e)
  BY EndFacts
<1>2. decrypted[e] > 0 => fsm[e] \in {"Completing", "Finished"}
  BY DEF IInv, NoEarlyData, Concluded
<1> QED BY <1>1, <1>2 DEF OwnInv, EndInv, IInv, FinishInv

(* Records waiting at an end stay good. *)
LEMMA RecordsInvStays ==
    ASSUME NEW f \in End, RecordsInv(f), Progress(Peer(f)),
           ctx'[f].rest = ctx[f].rest, ctx'[f].encrypted_packets = ctx[f].encrypted_packets
    PROVE  RecordsInv(f)'
<1> DEFINE a == ctx[f].rest
           b == ctx[f].encrypted_packets
<1>1. Peer(f) \in End
  BY Ends
<1>2. RecordsOK(Peer(f), a) /\ RecordsOK(Peer(f), b)
  BY DEF RecordsInv
<1>3. a' = a /\ b' = b
  OBVIOUS
<1>4. ASSUME NEW recs, RecordsOK(Peer(f), recs) PROVE \A i \in 1 .. Len(recs) : RecordOK(Peer(f), recs[i])'
  BY <1>1, <1>4, RecordsStay DEF RecordsOK
<1>5. /\ \A i \in 1 .. Len(a) : RecordOK(Peer(f), a[i])'
      /\ \A i \in 1 .. Len(b) : RecordOK(Peer(f), b[i])'
  BY <1>2, <1>4
<1>6. /\ \A i \in 1 .. Len(a') : RecordOK(Peer(f), a[i])'
      /\ \A i \in 1 .. Len(b') : RecordOK(Peer(f), b[i])'
  BY <1>3, <1>5
<1> QED BY <1>6 DEF RecordsInv, RecordsOK

(* A step of one end that keeps its part of the invariant keeps all of it. *)
LEMMA StepOfOne ==
    ASSUME IInv, NEW e \in End, TypeOK', OtherSame(e), Progress(e), OwnInv(e)', NetInv'
    PROVE  IInv'
<1> DEFINE f == Peer(e)
<1>1. /\ f \in End /\ Peer(f) = e /\ f # e /\ e \in {"client", "server"}
      /\ \A g \in End : g = e \/ g = f
  BY Ends
<1>2. TaskSame(f) /\ Progress(Peer(f))
  BY <1>1 DEF OtherSame, TaskSame
<1>3. OwnInv(f)
  BY <1>1, OwnFacts
<1>4. RolesInv(f)' /\ NumbersInv(f)' /\ CacheInv(f)' /\ LinkInv(f)' /\ KeysInv(f)' /\ FlightsInv(f)'
  BY <1>1, <1>2, TaskStays
<1>5. RecordsInv(f)'
  BY <1>1, <1>2, <1>3, RecordsInvStays DEF OwnInv, OtherSame
<1>6. decrypted'[f] > 0 => fsm'[f] \in {"Completing", "Finished"}
  BY <1>3 DEF OwnInv, OtherSame
<1>7. f = "server" => ServerInv' /\ (Msg("server", 6) \in cache'["server"] => fsm'["server"] \in {"Completing", "Finished"})
  <2> SUFFICES ASSUME f = "server"
               PROVE  ServerInv' /\ (Msg("server", 6) \in cache'["server"] => fsm'["server"] \in {"Completing", "Finished"})
    OBVIOUS
  <2>1. /\ ctx'["server"] = ctx["server"] /\ fsm'["server"] = fsm["server"]
        /\ state'["server"] = state["server"] /\ flight'["server"] = flight["server"]
        /\ cache'["server"] = cache["server"]
    BY DEF OtherSame
  <2>2. ServerInv /\ (Msg("server", 6) \in cache["server"] => fsm["server"] \in {"Completing", "Finished"})
    BY <1>3 DEF OwnInv
  <2>3. ServerInv'
    BY <2>1, <2>2 DEF ServerInv, Got
  <2> QED BY <2>1, <2>2, <2>3
<1>8. f = "client" => ClientInv' /\ (fsm'["client"] \in {"Completing", "Finished"} => Got("client")' = 7)
  <2> SUFFICES ASSUME f = "client"
               PROVE  ClientInv' /\ (fsm'["client"] \in {"Completing", "Finished"} => Got("client")' = 7)
    OBVIOUS
  <2>1. /\ ctx'["client"] = ctx["client"] /\ fsm'["client"] = fsm["client"]
        /\ state'["client"] = state["client"] /\ flight'["client"] = flight["client"]
    BY DEF OtherSame
  <2>2. ClientInv /\ (fsm["client"] \in {"Completing", "Finished"} => Got("client") = 7)
    BY <1>3 DEF OwnInv
  <2>3. ClientInv'
    BY <2>1, <2>2 DEF ClientInv, Got
  <2> QED BY <2>1, <2>2, <2>3 DEF Got
<1> HIDE DEF f
<1>9. EndInv(e)' /\ EndInv(f)'
  BY <1>4, <1>5 DEF EndInv, OwnInv
<1>10. \A g \in End : EndInv(g)'
  BY <1>1, <1>9
<1>11. NoEarlyData'
  BY <1>1, <1>6 DEF NoEarlyData, Concluded, OwnInv
<1>12. FinishInv' /\ ServerInv' /\ ClientInv'
  BY <1>1, <1>7, <1>8 DEF OwnInv, FinishInv, f, Peer
<1> QED BY <1>10, <1>11, <1>12 DEF IInv

(* What e sends keeps the records under way good, if they are good. *)
LEMMA NetStep ==
    ASSUME IInv, NEW e \in End, OtherSame(e), Progress(e), NEW ds, net' \subseteq net \cup ds,
           \A d \in ds : d.to = Peer(e) /\ RecordsOK(e, d.recs)' /\ (e = "server" => Whole(d.recs))
    PROVE  NetInv'
<1> SUFFICES ASSUME NEW d \in net'
             PROVE  RecordsOK(Peer(d.to), d.recs)' /\ (d.to = "client" => Whole(d.recs))
  BY DEF NetInv
<1>1. Progress(Peer(e))
  BY DEF OtherSame, Progress
<1>2. CASE d \in net
  <2>1. RecordsOK(Peer(d.to), d.recs) /\ (d.to = "client" => Whole(d.recs))
    BY <1>2 DEF IInv, NetInv
  <2>2. d.to \in End
    BY <1>2 DEF IInv, TypeOK
  <2>3. Peer(d.to) \in End /\ Progress(Peer(d.to))
    BY <1>1, <2>2, Ends
  <2> DEFINE recs == d.recs
             g == Peer(d.to)
  <2>4. RecordsOK(g, recs) /\ g \in End /\ Progress(g)
    BY <2>1, <2>3
  <2> HIDE DEF recs, g
  <2>5. RecordsOK(g, recs)'
    BY <2>4, RecordsStay
  <2> QED BY <2>1, <2>5 DEF recs, g
<1>3. CASE d \in ds
  <2>1. d.to = Peer(e) /\ RecordsOK(e, d.recs)' /\ (e = "server" => Whole(d.recs))
    BY <1>3
  <2>2. Peer(d.to) = e /\ (d.to = "client" => e = "server")
    BY <2>1, Ends
  <2> QED BY <2>1, <2>2
<1> QED BY <1>2, <1>3

-----------------------------------------------------------------------------
(***************************************************************************)
(* Steps of the reader that leave the handshake alone.                     *)
(***************************************************************************)

(* The types of one end. *)
LEMMA EndTypes ==
    ASSUME IInv, NEW e \in End
    PROVE  /\ state[e] \in StateType /\ ctx[e] \in CtxType
           /\ cache[e] \in SUBSET MessageType /\ flights[e] \in Seq(PacketType)
           /\ flight[e] \in Flight
           /\ fsm[e] \in {"Preparing", "Sending", "Waiting", "Draining", "Completing", "Finished"}
           /\ decrypted[e] \in 0 .. 1
<1>1. TypeOK /\ RolesInv(e)
  BY EndFacts DEF IInv, EndInv
<1> QED BY <1>1, TypeIs DEF RolesInv

(* A step that changes the records an end has yet to handle. *)
LEMMA ReaderStep ==
    ASSUME IInv, NEW e \in End, NEW c \in CtxType, ctx' = [ctx EXCEPT ![e] = c],
           UNCHANGED <<fsm, flight, flights, state, cache, closed>>,
           c.fragments = ctx[e].fragments,
           c.current_message_sequence_number = ctx[e].current_message_sequence_number,
           RecordsOK(Peer(e), c.rest), RecordsOK(Peer(e), c.encrypted_packets),
           net' \subseteq net,
           decrypted' \in [End -> 0 .. 1], decrypted'[Peer(e)] = decrypted[Peer(e)],
           decrypted'[e] > 0 => fsm[e] \in {"Completing", "Finished"},
           e = "server" => ServerInv', e = "client" => ClientInv'
    PROVE  IInv'
<1>1. TypeOK /\ OwnInv(e) /\ Peer(e) \in End /\ Peer(e) # e /\ Peer(Peer(e)) = e
  BY OwnFacts, Ends DEF IInv
<1>2. ctx \in [End -> CtxType]
  BY <1>1, TypeIs
<1>3. ctx'[e] = c /\ ctx'[Peer(e)] = ctx[Peer(e)] /\ ctx' \in [End -> CtxType]
  BY <1>1, <1>2
<1>4. TypeOK'
  <2>1. net' \in SUBSET [to : End, recs : Seq(RecordType)]
    BY <1>1, TypeIs
  <2> QED BY <1>1, <1>3, <2>1 DEF TypeOK, CtxType
<1>5. OtherSame(e)
  BY <1>3 DEF OtherSame
<1>6. Progress(e) /\ Progress(Peer(e)) /\ TaskSame(e)
  BY <1>3 DEF Progress, TaskSame
<1>7. /\ RolesInv(e)' /\ NumbersInv(e)' /\ CacheInv(e)' /\ LinkInv(e)'
      /\ KeysInv(e)' /\ FlightsInv(e)' /\ Got(e)' = Got(e)
  BY <1>6, TaskStays
<1>8. RecordsInv(e)'
  <2>1. RecordsOK(Peer(e), c.rest)' /\ RecordsOK(Peer(e), c.encrypted_packets)'
    <3> DEFINE a == c.rest
               b == c.encrypted_packets
    <3> HIDE DEF a, b
    <3>1. RecordsOK(Peer(e), a)' /\ RecordsOK(Peer(e), b)'
      BY <1>1, <1>6, RecordsStay DEF a, b
    <3> QED BY <3>1 DEF a, b
  <2> QED BY <1>3, <2>1 DEF RecordsInv, RecordsOK
<1>9. NetInv'
  <2>1. PICK ds : ds = {}
    OBVIOUS
  <2>2. /\ net' \subseteq net \cup ds
        /\ \A d \in ds : d.to = Peer(e) /\ RecordsOK(e, d.recs)' /\ (e = "server" => Whole(d.recs))
    BY <2>1
  <2> QED BY <1>5, <1>6, <2>2, NetStep
<1>10. e = "server" => (Msg("server", 6) \in cache'["server"] => fsm'["server"] \in {"Completing", "Finished"})
  BY <1>1 DEF OwnInv
<1>11. e = "client" => (fsm'["client"] \in {"Completing", "Finished"} => Got("client")' = 7)
  BY <1>1, <1>7 DEF OwnInv
<1>12. OwnInv(e)'
  BY <1>7, <1>8, <1>10, <1>11 DEF OwnInv
<1> QED BY <1>4, <1>5, <1>6, <1>9, <1>12, StepOfOne

(* The records after the first one. *)
LEMMA TailStays ==
    ASSUME NEW recs \in Seq(RecordType), recs # <<>>
    PROVE  /\ Tail(recs) \in Seq(RecordType) /\ Head(recs) \in RecordType /\ Head(recs) = recs[1]
           /\ Len(recs) \in Nat /\ Len(recs) >= 1
           /\ Len(Tail(recs)) = Len(recs) - 1
           /\ \A i \in 1 .. Len(Tail(recs)) : i + 1 \in 1 .. Len(recs) /\ Tail(recs)[i] = recs[i + 1]
           /\ \A f : RecordsOK(f, recs) => RecordsOK(f, Tail(recs)) /\ RecordOK(f, Head(recs))
           /\ LateOnly(recs) => LateOnly(Tail(recs))
           /\ Whole(recs) => Whole(Tail(recs))
<1>1. /\ Tail(recs) \in Seq(RecordType) /\ Head(recs) \in RecordType /\ Head(recs) = recs[1]
      /\ Len(recs) \in Nat /\ Len(recs) >= 1
      /\ Len(Tail(recs)) = Len(recs) - 1
      /\ \A i \in 1 .. Len(Tail(recs)) : i + 1 \in 1 .. Len(recs) /\ Tail(recs)[i] = recs[i + 1]
  OBVIOUS
<1> DEFINE t == Tail(recs)
           n == Len(recs)
<1>2. /\ n \in Nat /\ n >= 1 /\ Len(t) = n - 1 /\ 1 \in 1 .. n
      /\ \A i \in 1 .. Len(t) : i + 1 \in 1 .. n /\ t[i] = recs[i + 1]
  BY <1>1
<1> HIDE DEF t
<1>3. \A f : RecordsOK(f, recs) => RecordsOK(f, t) /\ RecordOK(f, recs[1])
  BY <1>2 DEF RecordsOK
<1>4. LateOnly(recs) => LateOnly(t)
  BY <1>2 DEF LateOnly
<1>5. Whole(recs) => Whole(t)
  <2> SUFFICES ASSUME Whole(recs), NEW i \in 1 .. Len(t), t[i].type = "ChangeCipherSpec"
               PROVE  FALSE
    BY DEF Whole
  <2>1. i + 1 \in 1 .. n /\ recs[i + 1].type = "ChangeCipherSpec"
    BY <1>2
  <2>2. n = 2 /\ recs[2].type = "Finished"
    BY <2>1 DEF Whole
  <2> QED BY <1>2, <2>1, <2>2
<1> QED BY <1>1, <1>3, <1>4, <1>5 DEF t

(* The facts of an end that handles a record. *)
LEMMA HandlingFacts ==
    ASSUME IInv, NEW e \in End, Handling(e)
    PROVE  /\ ctx[e] \in CtxType /\ ctx[e].rest \in Seq(RecordType) /\ ctx[e].rest # <<>>
           /\ Tail(ctx[e].rest) \in Seq(RecordType)
           /\ Current(e) \in RecordType /\ Current(e) = ctx[e].rest[1]
           /\ RecordOK(Peer(e), Current(e))
           /\ RecordsOK(Peer(e), Tail(ctx[e].rest))
           /\ RecordsOK(Peer(e), ctx[e].encrypted_packets)
           /\ LateOnly(ctx[e].rest) => LateOnly(Tail(ctx[e].rest))
           /\ Whole(ctx[e].rest) => Whole(Tail(ctx[e].rest))
           /\ Len(ctx[e].rest) \in Nat /\ Len(Tail(ctx[e].rest)) = Len(ctx[e].rest) - 1
<1>1. ctx[e] \in CtxType
  BY EndTypes
<1>2. ctx[e].rest \in Seq(RecordType) /\ ctx[e].rest # <<>>
  BY <1>1 DEF CtxType, Handling
<1>3. RecordsOK(Peer(e), ctx[e].rest) /\ RecordsOK(Peer(e), ctx[e].encrypted_packets)
  BY OwnFacts DEF OwnInv, RecordsInv
<1> QED BY <1>1, <1>2, <1>3, TailStays DEF Current

(* What such a step has to show of the server's reader. *)
LEMMA ServerReads ==
    ASSUME IInv, NEW c \in CtxType, ctx' = [ctx EXCEPT !["server"] = c],
           UNCHANGED <<fsm, flight, state>>,
           c.current_message_sequence_number = Got("server"),
           LateOnly(c.encrypted_packets),
           c.reader = "drain" => fsm["server"] = "Draining" /\ LateOnly(c.rest),
           fsm["server"] = "Draining" => c.reader \in {"drain", "wait"}
    PROVE  ServerInv'
<1>1. ctx'["server"] = c
  BY TypeIs DEF IInv, End
<1>2. ServerInv
  BY DEF IInv
<1> QED BY <1>1, <1>2 DEF ServerInv, Got

(* And of the client's. *)
LEMMA ClientReads ==
    ASSUME IInv, NEW c \in CtxType, ctx' = [ctx EXCEPT !["client"] = c],
           UNCHANGED <<fsm, flight, state>>,
           c.current_message_sequence_number = Got("client"),
           c.reader # "drain", Whole(c.rest),
           c.reader = "wait" => c.has_handshake,
           c.has_handshake => ctx["client"].has_handshake,
           state["client"].remote_epoch = 1 /\ fsm["client"] \notin {"Completing", "Finished"} =>
             \/ Got("client") = 7 /\ c.reader = "records" /\ c.rest = <<>> /\ c.has_handshake
             \/ Got("client") = 7 /\ c.reader = "wait"
    PROVE  ClientInv'
<1>1. ctx'["client"] = c
  BY TypeIs DEF IInv, End
<1>2. ClientInv
  BY DEF IInv
<1>3. Got("client")' = Got("client")
  BY <1>1 DEF Got
<1>4. Whole(ctx'["client"].rest)
  BY <1>1 DEF Whole
<1> QED BY <1>1, <1>2, <1>3, <1>4 DEF ClientInv

(* The next datagram: the client in its last flight has none to read before it has *)
(* parsed Finished, and the server none before the queue is empty.                 *)
LEMMA RecvKeeps ==
    ASSUME IInv, NEW e \in End, Recv(e)
    PROVE  IInv'
<1>1. PICK d \in net : RecvDatagram(e, d)
  BY DEF Recv
<1>2. PICK c : c = [ctx[e] EXCEPT !.reader = "records", !.rest = d.recs, !.has_handshake = FALSE]
  OBVIOUS
<1>3. ctx[e] \in CtxType /\ ctx \in [End -> CtxType] /\ decrypted \in [End -> 0 .. 1]
  BY EndTypes, TypeIs DEF IInv
<1>4. d \in [to : End, recs : Seq(RecordType)]
  BY TypeIs DEF IInv
<1>5. /\ c \in CtxType /\ c.reader = "records" /\ c.rest = d.recs /\ c.has_handshake = FALSE
      /\ c.encrypted_packets = ctx[e].encrypted_packets /\ c.fragments = ctx[e].fragments
      /\ c.current_message_sequence_number = ctx[e].current_message_sequence_number
  BY <1>2, <1>3, <1>4 DEF CtxType
<1>6. ctx' = [ctx EXCEPT ![e] = c]
  BY <1>1, <1>2, <1>3 DEF RecvDatagram
<1>7. d.to = e /\ ctx[e].reader = "recv" /\ net' \subseteq net
      /\ UNCHANGED <<fsm, flight, flights, state, cache, decrypted, closed>>
  BY <1>1 DEF RecvDatagram
<1>8. RecordsOK(Peer(e), d.recs) /\ (e = "client" => Whole(d.recs))
  BY <1>7 DEF IInv, NetInv
<1>9. RecordsOK(Peer(e), c.encrypted_packets) /\ RecordsOK(Peer(e), c.rest)
  BY <1>5, <1>8, OwnFacts DEF OwnInv, RecordsInv, RecordsOK
<1>10. decrypted'[e] > 0 => fsm[e] \in {"Completing", "Finished"}
  BY <1>7, OwnFacts DEF OwnInv
<1>11. e = "server" => ServerInv'
  <2> SUFFICES ASSUME e = "server" PROVE ServerInv'
    OBVIOUS
  <2>1. ServerInv
    BY DEF IInv
  <2>2. LateOnly(c.encrypted_packets) /\ fsm["server"] # "Draining"
    BY <1>5, <1>7, <2>1 DEF ServerInv, LateOnly
  <2> QED BY <1>5, <1>6, <1>7, <2>2, ServerReads DEF Got
<1>12. e = "client" => ClientInv'
  <2> SUFFICES ASSUME e = "client" PROVE ClientInv'
    OBVIOUS
  <2>1. ClientInv
    BY DEF IInv
  <2>2. state["client"].remote_epoch = 1 => fsm["client"] \in {"Completing", "Finished"}
    BY <1>7, <2>1 DEF ClientInv
  <2>3. Whole(c.rest)
    BY <1>5, <1>8
  <2> QED BY <1>5, <1>6, <1>7, <2>2, <2>3, ClientReads DEF Got
<1> QED BY <1>3, <1>5, <1>6, <1>7, <1>9, <1>10, <1>11, <1>12, ReaderStep

(* A record with a handshake message holds one that its sender's script has. *)
LEMMA RecordIs ==
    ASSUME IInv, NEW f \in End, NEW r, RecordOK(f, r), IsHandshake(r)
    PROVE  /\ r.seq \in Number(f)
           /\ Cached(f, r) = Msg(f, r.seq) /\ Msg(f, r.seq) \in cache[f]
           /\ r.type = TypeOf(f, r.seq) /\ r.epoch = EpochOf(f, r.seq)
<1> DEFINE m == Cached(f, r)
<1>1. m \in cache[f] /\ m.from = f /\ m.seq = r.seq /\ m.type = r.type /\ m.epoch = r.epoch
  BY DEF RecordOK, Cached
<1>2. m \in Script
  BY <1>1, EndFacts
<1> HIDE DEF m
<1>3. m.seq \in Number(m.from) /\ m = Msg(m.from, m.seq)
      /\ m.type = TypeOf(m.from, m.seq) /\ m.epoch = EpochOf(m.from, m.seq)
  BY <1>2, ScriptIs
<1> QED BY <1>1, <1>3 DEF m

(* A client that has gone to epoch 1 without having finished has the server's *)
(* Finished at hand, and can read it.                                         *)
LEMMA FinishedAtHand ==
    ASSUME IInv, Handling("client"), state["client"].remote_epoch = 1, fsm["client"] \notin {"Completing", "Finished"}
    PROVE  /\ ctx["client"].reader = "records" /\ Len(ctx["client"].rest) = 1
           /\ Current("client").type = "Finished" /\ Current("client").seq = 6
           /\ IsHandshake(Current("client"))
           /\ ~NotYet("client", Current("client")) /\ Readable("client", Current("client"))
<1> DEFINE r == Current("client")
<1>1. "client" \in End /\ "server" \in End /\ Peer("client") = "server"
  BY Ends
<1>2. ClientInv /\ KeysInv("client")
  BY <1>1, EndFacts DEF IInv, EndInv
<1>3. ctx["client"].rest # <<>> /\ r = ctx["client"].rest[1] /\ RecordOK("server", r)
  BY <1>1, HandlingFacts
<1>4. ctx["client"].reader = "records" /\ Len(ctx["client"].rest) = 1 /\ r.type = "Finished"
  BY <1>2, <1>3 DEF ClientInv, Handling
<1> HIDE DEF r
<1>5. IsHandshake(r)
  BY <1>4 DEF IsHandshake, HandshakeType
<1>6. r.seq \in Number("server") /\ r.type = TypeOf("server", r.seq) /\ r.epoch = EpochOf("server", r.seq)
  BY <1>1, <1>3, <1>5, RecordIs
<1>7. r.seq = 6
  BY <1>4, <1>6, Numbers DEF TypeOf
<1>8. r.epoch = 1
  BY <1>6, <1>7 DEF EpochOf, LastOf
<1>9. r.key = Keys
  BY <1>3, <1>5, <1>8 DEF RecordOK
<1>10. Initialized("client") /\ state["client"].master_secret = Keys
  BY <1>2 DEF KeysInv
<1>11. ~NotYet("client", r)
  BY <1>8, <1>10 DEF NotYet
<1> QED BY <1>4, <1>5, <1>7, <1>9, <1>10, <1>11 DEF Readable, r

(* Records that cannot be read yet are queued. *)
LEMMA EnqueueKeeps ==
    ASSUME IInv, NEW e \in End, Enqueue(e)
    PROVE  IInv'
<1> DEFINE q == ctx[e].encrypted_packets
           new == IF Len(q) < MaxQueued THEN Append(q, Current(e)) ELSE q
<1>1. PICK c : c = [ctx[e] EXCEPT !.rest = Tail(@), !.encrypted_packets = new]
  OBVIOUS
<1>2. Handling(e) /\ ctx[e].reader = "records" /\ NotYet(e, Current(e))
      /\ UNCHANGED <<fsm, flight, flights, state, cache, decrypted, closed, net>>
  BY DEF Enqueue
<1>3. ctx[e] \in CtxType /\ ctx \in [End -> CtxType] /\ decrypted \in [End -> 0 .. 1]
  BY EndTypes, TypeIs DEF IInv
<1>4. ctx' = [ctx EXCEPT ![e] = c]
  BY <1>1, <1>3 DEF Enqueue
<1>5. /\ Tail(ctx[e].rest) \in Seq(RecordType) /\ Current(e) \in RecordType
      /\ RecordOK(Peer(e), Current(e)) /\ RecordsOK(Peer(e), Tail(ctx[e].rest)) /\ RecordsOK(Peer(e), q)
  BY <1>2, HandlingFacts
<1>6. q \in Seq(RecordType)
  BY <1>3 DEF CtxType
<1>7. /\ new \in Seq(RecordType)
      /\ \A i \in 1 .. Len(new) : new[i] = Current(e) \/ (i \in 1 .. Len(q) /\ new[i] = q[i])
  <2> HIDE DEF q
  <2>1. Len(q) \in Nat
    BY <1>6
  <2> QED BY <1>5, <1>6, <2>1
<1> HIDE DEF new
<1>8. /\ c \in CtxType /\ c.reader = "records" /\ c.rest = Tail(ctx[e].rest)
      /\ c.has_handshake = ctx[e].has_handshake
      /\ c.encrypted_packets = new /\ c.fragments = ctx[e].fragments
      /\ c.current_message_sequence_number = ctx[e].current_message_sequence_number
  BY <1>1, <1>2, <1>3, <1>5, <1>7 DEF CtxType
<1>9. RecordsOK(Peer(e), new)
  BY <1>5, <1>7 DEF RecordsOK
<1>10. RecordsOK(Peer(e), c.rest) /\ RecordsOK(Peer(e), c.encrypted_packets)
  BY <1>5, <1>8, <1>9
<1>11. decrypted'[e] > 0 => fsm[e] \in {"Completing", "Finished"}
  BY <1>2, OwnFacts DEF OwnInv
<1>12. e = "server" => ServerInv'
  <2> SUFFICES ASSUME e = "server" PROVE ServerInv'
    OBVIOUS
  <2>1. ServerInv
    BY DEF IInv
  <2>2. Current(e).epoch = 1 \/ Current(e).type = "ChangeCipherSpec"
    <3>1. Current(e).epoch \in 0 .. 1 /\ state[e].remote_epoch \in 0 .. 1
      BY <1>5, EndTypes DEF RecordType, StateType
    <3> QED BY <1>2, <3>1 DEF NotYet
  <2>3. LateOnly(new)
    BY <1>7, <2>1, <2>2 DEF ServerInv, LateOnly
  <2>4. LateOnly(c.encrypted_packets)
    BY <1>8, <2>3
  <2>5. fsm["server"] # "Draining"
    BY <1>2, <2>1 DEF ServerInv
  <2> QED BY <1>2, <1>4, <1>8, <2>4, <2>5, ServerReads DEF Got
<1>13. e = "client" => ClientInv'
  <2> SUFFICES ASSUME e = "client" PROVE ClientInv'
    OBVIOUS
  <2>1. ClientInv
    BY DEF IInv
  <2>2. state["client"].remote_epoch = 1 => fsm["client"] \in {"Completing", "Finished"}
    BY <1>2, FinishedAtHand
  <2>3. Whole(c.rest)
    BY <1>2, <1>8, <2>1, HandlingFacts DEF ClientInv
  <2> QED BY <1>2, <1>4, <1>8, <2>2, <2>3, ClientReads DEF Got
<1> QED BY <1>2, <1>3, <1>4, <1>8, <1>10, <1>11, <1>12, <1>13, ReaderStep

(* A record is taken off the rest: the same for each that changes nothing else. *)
LEMMA NextRecord ==
    ASSUME IInv, NEW e \in End, Handling(e), ctx' = [ctx EXCEPT ![e].rest = Tail(@)],
           UNCHANGED <<fsm, flight, flights, state, cache, closed, net>>,
           decrypted' \in [End -> 0 .. 1], decrypted'[Peer(e)] = decrypted[Peer(e)],
           decrypted'[e] > 0 => fsm[e] \in {"Completing", "Finished"},
           e = "client" /\ state[e].remote_epoch = 1 => fsm[e] \in {"Completing", "Finished"}
    PROVE  IInv'
<1>1. PICK c : c = [ctx[e] EXCEPT !.rest = Tail(@)]
  OBVIOUS
<1>2. ctx[e] \in CtxType /\ ctx \in [End -> CtxType]
  BY EndTypes, TypeIs DEF IInv
<1>3. ctx' = [ctx EXCEPT ![e] = c]
  BY <1>1, <1>2
<1>4. /\ Tail(ctx[e].rest) \in Seq(RecordType)
      /\ RecordsOK(Peer(e), Tail(ctx[e].rest)) /\ RecordsOK(Peer(e), ctx[e].encrypted_packets)
  BY HandlingFacts
<1>5. /\ c \in CtxType /\ c.reader = ctx[e].reader /\ c.rest = Tail(ctx[e].rest)
      /\ c.has_handshake = ctx[e].has_handshake
      /\ c.encrypted_packets = ctx[e].encrypted_packets /\ c.fragments = ctx[e].fragments
      /\ c.current_message_sequence_number = ctx[e].current_message_sequence_number
  BY <1>1, <1>2, <1>4 DEF CtxType
<1>6. RecordsOK(Peer(e), c.rest) /\ RecordsOK(Peer(e), c.encrypted_packets)
  BY <1>4, <1>5
<1>7. e = "server" => ServerInv'
  <2> SUFFICES ASSUME e = "server" PROVE ServerInv'
    OBVIOUS
  <2>1. ServerInv
    BY DEF IInv
  <2>2. LateOnly(c.encrypted_packets)
    BY <1>5, <2>1 DEF ServerInv
  <2>3. c.reader = "drain" => fsm["server"] = "Draining" /\ LateOnly(c.rest)
    BY <1>5, <2>1, HandlingFacts DEF ServerInv
  <2>4. fsm["server"] = "Draining" => c.reader \in {"drain", "wait"}
    BY <1>5, <2>1 DEF ServerInv
  <2> QED BY <1>3, <1>5, <2>2, <2>3, <2>4, ServerReads DEF Got
<1>8. e = "client" => ClientInv'
  <2> SUFFICES ASSUME e = "client" PROVE ClientInv'
    OBVIOUS
  <2>1. ClientInv
    BY DEF IInv
  <2>2. Whole(c.rest)
    BY <1>5, <2>1, HandlingFacts DEF ClientInv
  <2>3. c.reader # "drain" /\ (c.reader = "wait" => c.has_handshake)
    BY <1>5, <2>1 DEF ClientInv
  <2> QED BY <1>3, <1>5, <2>2, <2>3, ClientReads DEF Got
<1> QED BY <1>3, <1>5, <1>6, <1>7, <1>8, ReaderStep

(* Records are dropped. *)
LEMMA DiscardKeeps ==
    ASSUME IInv, NEW e \in End, Discard(e)
    PROVE  IInv'
<1>1. Handling(e) /\ ctx' = [ctx EXCEPT ![e].rest = Tail(@)]
      /\ UNCHANGED <<fsm, flight, flights, state, cache, decrypted, closed, net>>
  BY DEF Discard
<1>2. decrypted \in [End -> 0 .. 1] /\ (decrypted'[e] > 0 => fsm[e] \in {"Completing", "Finished"})
  BY <1>1, OwnFacts, TypeIs DEF IInv, OwnInv
<1>3. e = "client" /\ state[e].remote_epoch = 1 => fsm[e] \in {"Completing", "Finished"}
  <2> SUFFICES ASSUME e = "client", state[e].remote_epoch = 1, fsm[e] \notin {"Completing", "Finished"} PROVE FALSE
    OBVIOUS
  <2>1. /\ ~NotYet(e, Current(e)) /\ Readable(e, Current(e)) /\ Current(e).type = "Finished"
    BY <1>1, FinishedAtHand
  <2> QED BY <2>1 DEF Discard
<1> QED BY <1>1, <1>2, <1>3, NextRecord

(* What the peer's application sends is read at an end that has finished. *)
LEMMA FinishedReads ==
    ASSUME IInv, NEW e \in End, Handling(e), Readable(e, Current(e)),
           Current(e).type \in {"ApplicationData", "CloseNotify", "Fatal"}
    PROVE  fsm[e] \in {"Completing", "Finished"} /\ Current(e).type # "Fatal"
<1> DEFINE r == Current(e)
<1>1. RecordOK(Peer(e), r)
  BY HandlingFacts
<1>2. r.epoch = 1 /\ fsm[Peer(e)] \in {"Completing", "Finished"} /\ r.type # "Fatal"
  BY <1>1 DEF RecordOK
<1>3. CASE e = "server"
  <2>1. Got("client") = 7
    BY <1>2, <1>3, Ends DEF IInv, FinishInv
  <2>2. LinkInv("client") /\ "client" \in End /\ Peer("client") = "server" /\ 6 \in Number("server")
    BY EndFacts, Ends, Numbers DEF EndInv
  <2>3. Msg("server", 6) \in cache["server"]
    BY <2>1, <2>2 DEF LinkInv
  <2> QED BY <1>2, <1>3, <2>3 DEF IInv, FinishInv
<1>4. CASE e = "client"
  <2>1. state[e].remote_epoch \in 0 .. 1
    BY EndTypes DEF StateType
  <2>2. state[e].remote_epoch = 1
    BY <1>2, <2>1 DEF Readable, NotYet
  <2>3. fsm[e] \notin {"Completing", "Finished"} => r.type = "Finished"
    BY <1>4, <2>2, FinishedAtHand
  <2> QED BY <1>2, <2>3
<1> QED BY <1>3, <1>4, Ends

(* Application data is delivered. *)
LEMMA ReadApplicationDataKeeps ==
    ASSUME IInv, NEW e \in End, ReadApplicationData(e)
    PROVE  IInv'
<1>1. /\ Handling(e) /\ ctx' = [ctx EXCEPT ![e].rest = Tail(@)]
      /\ UNCHANGED <<fsm, flight, flights, state, cache, closed, net>>
      /\ Readable(e, Current(e)) /\ Current(e).type = "ApplicationData"
      /\ decrypted' = [decrypted EXCEPT ![e] = 1]
  BY DEF ReadApplicationData
<1>2. decrypted \in [End -> 0 .. 1] /\ Peer(e) \in End /\ Peer(e) # e
  BY TypeIs, Ends DEF IInv
<1>3. decrypted' \in [End -> 0 .. 1] /\ decrypted'[Peer(e)] = decrypted[Peer(e)]
  BY <1>1, <1>2
<1>4. fsm[e] \in {"Completing", "Finished"}
  BY <1>1, FinishedReads
<1> QED BY <1>1, <1>3, <1>4, NextRecord

(* The reader offers the messages of a datagram, or reads on. *)
LEMMA RecordsDoneKeeps ==
    ASSUME IInv, NEW e \in End, RecordsDone(e)
    PROVE  IInv'
<1>1. PICK next \in {"recv", "wait"} :
         /\ next = "recv" => ~ctx[e].has_handshake \/ fsm[e] = "Finished"
         /\ next = "wait" => ctx[e].has_handshake
         /\ ctx' = [ctx EXCEPT ![e].reader = next]
  BY DEF RecordsDone
<1>2. /\ ctx[e].reader = "records" /\ ctx[e].rest = <<>>
      /\ UNCHANGED <<fsm, flight, flights, state, cache, decrypted, closed, net>>
  BY DEF RecordsDone
<1>3. PICK c : c = [ctx[e] EXCEPT !.reader = next]
  OBVIOUS
<1>4. ctx[e] \in CtxType /\ ctx \in [End -> CtxType] /\ decrypted \in [End -> 0 .. 1]
  BY EndTypes, TypeIs DEF IInv
<1>5. ctx' = [ctx EXCEPT ![e] = c]
  BY <1>1, <1>3, <1>4
<1>6. /\ c \in CtxType /\ c.reader = next /\ c.rest = ctx[e].rest
      /\ c.has_handshake = ctx[e].has_handshake
      /\ c.encrypted_packets = ctx[e].encrypted_packets /\ c.fragments = ctx[e].fragments
      /\ c.current_message_sequence_number = ctx[e].current_message_sequence_number
  BY <1>3, <1>4 DEF CtxType
<1>7. RecordsOK(Peer(e), c.rest) /\ RecordsOK(Peer(e), c.encrypted_packets)
  BY <1>6, OwnFacts DEF OwnInv, RecordsInv, RecordsOK
<1>8. decrypted'[e] > 0 => fsm[e] \in {"Completing", "Finished"}
  BY <1>2, OwnFacts DEF OwnInv
<1>9. e = "server" => ServerInv'
  <2> SUFFICES ASSUME e = "server" PROVE ServerInv'
    OBVIOUS
  <2>1. ServerInv
    BY DEF IInv
  <2>2. LateOnly(c.encrypted_packets) /\ fsm["server"] # "Draining"
    BY <1>2, <1>6, <2>1 DEF ServerInv
  <2>3. c.reader # "drain"
    BY <1>6
  <2> QED BY <1>2, <1>5, <1>6, <2>2, <2>3, ServerReads DEF Got
<1>10. e = "client" => ClientInv'
  <2> SUFFICES ASSUME e = "client" PROVE ClientInv'
    OBVIOUS
  <2>1. ClientInv
    BY DEF IInv
  <2>2. Len(ctx["client"].rest) # 1
    BY <1>2
  <2>3. Whole(c.rest) /\ c.reader # "drain" /\ (c.reader = "wait" => c.has_handshake)
    BY <1>1, <1>6, <2>1 DEF ClientInv
  <2>4. state["client"].remote_epoch = 1 /\ fsm["client"] \notin {"Completing", "Finished"} =>
          Got("client") = 7 /\ c.reader = "wait"
    BY <1>1, <1>2, <1>6, <2>1, <2>2 DEF ClientInv
  <2> QED BY <1>2, <1>5, <1>6, <2>3, <2>4, ClientReads DEF Got
<1> QED BY <1>2, <1>4, <1>5, <1>6, <1>7, <1>8, <1>9, <1>10, ReaderStep

(* The queue is empty; only the server's reader drains it. *)
LEMMA QueueDoneKeeps ==
    ASSUME IInv, NEW e \in End, QueueDone(e)
    PROVE  IInv'
<1>1. /\ ctx[e].reader = "drain" /\ ctx' = [ctx EXCEPT ![e].reader = "wait"]
      /\ UNCHANGED <<fsm, flight, flights, state, cache, decrypted, closed, net>>
  BY DEF QueueDone
<1>2. e = "server"
  BY <1>1, Ends DEF IInv, ClientInv
<1>3. PICK c : c = [ctx[e] EXCEPT !.reader = "wait"]
  OBVIOUS
<1>4. ctx[e] \in CtxType /\ ctx \in [End -> CtxType] /\ decrypted \in [End -> 0 .. 1]
  BY EndTypes, TypeIs DEF IInv
<1>5. ctx' = [ctx EXCEPT ![e] = c]
  BY <1>1, <1>3, <1>4
<1>6. /\ c \in CtxType /\ c.reader = "wait" /\ c.rest = ctx[e].rest
      /\ c.encrypted_packets = ctx[e].encrypted_packets /\ c.fragments = ctx[e].fragments
      /\ c.current_message_sequence_number = ctx[e].current_message_sequence_number
  BY <1>3, <1>4 DEF CtxType
<1>7. RecordsOK(Peer(e), c.rest) /\ RecordsOK(Peer(e), c.encrypted_packets)
  BY <1>6, OwnFacts DEF OwnInv, RecordsInv, RecordsOK
<1>8. decrypted'[e] > 0 => fsm[e] \in {"Completing", "Finished"}
  BY <1>1, OwnFacts DEF OwnInv
<1>9. ServerInv'
  <2>1. LateOnly(c.encrypted_packets)
    BY <1>2, <1>6 DEF IInv, ServerInv
  <2> QED BY <1>1, <1>2, <1>5, <1>6, <2>1, ServerReads DEF Got
<1>10. /\ decrypted' \in [End -> 0 .. 1] /\ decrypted'[Peer(e)] = decrypted[Peer(e)]
       /\ net' \subseteq net /\ UNCHANGED <<fsm, flight, flights, state, cache, closed>>
       /\ e # "client"
  BY <1>1, <1>2, <1>4
<1> QED BY <1>5, <1>6, <1>7, <1>8, <1>9, <1>10, ReaderStep

(* The application takes what was delivered, or the network loses a datagram. *)
LEMMA ReadKeeps ==
    ASSUME IInv, \/ \E e \in End : Read(e)
                 \/ Lose
    PROVE  IInv'
<1>1. PICK e \in End : Read(e) \/ Lose
  BY Ends
<1>2. PICK c : c = ctx[e]
  OBVIOUS
<1>3. ctx[e] \in CtxType /\ ctx \in [End -> CtxType] /\ decrypted \in [End -> 0 .. 1] /\ Peer(e) # e
  BY EndTypes, TypeIs, Ends DEF IInv
<1>4. ctx' = ctx /\ net' \subseteq net /\ UNCHANGED <<fsm, flight, flights, state, cache, closed>>
  BY <1>1 DEF Read, Lose
<1>5. ctx' = [ctx EXCEPT ![e] = c]
  BY <1>2, <1>3, <1>4
<1>6. RecordsOK(Peer(e), c.rest) /\ RecordsOK(Peer(e), c.encrypted_packets)
  BY <1>2, OwnFacts DEF OwnInv, RecordsInv
<1>7. decrypted' \in [End -> 0 .. 1] /\ decrypted'[Peer(e)] = decrypted[Peer(e)]
      /\ (decrypted'[e] > 0 => fsm[e] \in {"Completing", "Finished"})
  <2>1. decrypted[e] > 0 => fsm[e] \in {"Completing", "Finished"}
    BY OwnFacts DEF OwnInv
  <2>2. CASE Read(e)
    BY <1>3, <2>2, Ends DEF Read
  <2>3. CASE Lose
    BY <1>3, <2>1, <2>3 DEF Lose
  <2> QED BY <1>1, <2>2, <2>3
<1>8. ServerInv' /\ ClientInv'
  <2>1. ServerInv /\ ClientInv
    BY DEF IInv
  <2>2. Got("server")' = Got("server") /\ Got("client")' = Got("client")
    BY <1>4 DEF Got
  <2> QED BY <1>4, <2>1, <2>2 DEF ServerInv, ClientInv
<1> QED BY <1>2, <1>3, <1>4, <1>5, <1>6, <1>7, <1>8, ReaderStep

-----------------------------------------------------------------------------
(***************************************************************************)
(* The steps of a finished end that send, and the retransmit timer.        *)
(***************************************************************************)

(* What the application writes, and the alert that ends a connection, are of *)
(* epoch 1 and from an end that has finished.                                *)
LEMMA WrittenRecord ==
    ASSUME IInv, NEW e \in End, fsm[e] \in {"Completing", "Finished"}, NEW t \in {"ApplicationData", "CloseNotify"},
           WriteRecord(e, t), OtherSame(e), Progress(e)
    PROVE  NetInv' /\ net' \in SUBSET [to : End, recs : Seq(RecordType)]
<1>1. state[e].local_epoch = 1 /\ Peer(e) \in End
  BY EndFacts, Ends DEF EndInv, RolesInv, KeysInv
<1>2. PICK p : p = Packet(t, state[e].local_epoch, {})
  OBVIOUS
<1>3. p.type = t /\ p.epoch = 1 /\ p \in PacketType
  BY <1>1, <1>2 DEF Packet, PacketType, ContentType
<1>4. PICK pkts : pkts = <<p>>
  OBVIOUS
<1>5. pkts \in Seq(PacketType) /\ Len(pkts) = 1 /\ pkts[1] = p
  BY <1>3, <1>4
<1>6. PICK ds : ds = Datagrams(e, pkts)
  OBVIOUS
<1>7. net' \subseteq net \cup ds
  <2>1. Transmit(ds)
    BY <1>2, <1>4, <1>6 DEF WriteRecord
  <2> QED BY <2>1, Transmitted
<1>8. TypeOK
  BY DEF IInv
<1>9. net' \in SUBSET [to : End, recs : Seq(RecordType)]
  <2>1. ds \subseteq [to : End, recs : Seq(RecordType)]
    BY <1>5, <1>6, <1>8, DatagramsType
  <2> QED BY <1>7, <1>8, <2>1, TypeIs
<1>10. ASSUME NEW d \in ds
       PROVE  d.to = Peer(e) /\ RecordsOK(e, d.recs)' /\ (e = "server" => Whole(d.recs))
  <2>1. d.to = Peer(e) /\ \A i \in 1 .. Len(d.recs) : \E j \in 1 .. Len(pkts) : d.recs[i] = Sealed(e, pkts[j])
    BY <1>5, <1>6, <1>10, DatagramsOf
  <2>2. \A i \in 1 .. Len(d.recs) : d.recs[i].type = t /\ d.recs[i].epoch = 1
    BY <1>3, <1>5, <2>1 DEF Sealed
  <2>3. fsm'[e] \in {"Completing", "Finished"}
    BY DEF Progress
  <2>4. ASSUME NEW i \in 1 .. Len(d.recs) PROVE RecordOK(e, d.recs[i])'
    BY <2>2, <2>3 DEF RecordOK, IsHandshake, HandshakeType
  <2>5. Whole(d.recs)
    BY <2>2 DEF Whole
  <2> QED BY <2>1, <2>4, <2>5 DEF RecordsOK
<1>11. NetInv'
  BY <1>7, <1>10, NetStep
<1> QED BY <1>9, <1>11

(* The steps of a finished end. *)
LEMMA FinishedSends ==
    ASSUME IInv, NEW e \in End, fsm[e] \in {"Completing", "Finished"}, NEW t \in {"ApplicationData", "CloseNotify"},
           WriteRecord(e, t),
           UNCHANGED <<fsm, flight, flights, state, cache, decrypted>>, closed' \in [End -> BOOLEAN],
           ctx' = ctx \/ ctx' = [ctx EXCEPT ![e].reader = "exited", ![e].rest = <<>>]
    PROVE  IInv'
<1>1. PICK c : /\ c = ctx[e] \/ c = [ctx[e] EXCEPT !.reader = "exited", !.rest = <<>>]
               /\ ctx' = [ctx EXCEPT ![e] = c]
  BY TypeIs DEF IInv
<1>2. ctx[e] \in CtxType /\ ctx \in [End -> CtxType] /\ Peer(e) # e /\ Peer(e) \in End
  BY EndTypes, TypeIs, Ends DEF IInv
<1>3. /\ c \in CtxType /\ c.reader \in {ctx[e].reader, "exited"} /\ c.rest \in {ctx[e].rest, <<>>}
      /\ c.has_handshake = ctx[e].has_handshake
      /\ c.encrypted_packets = ctx[e].encrypted_packets /\ c.fragments = ctx[e].fragments
      /\ c.current_message_sequence_number = ctx[e].current_message_sequence_number
      /\ c.reader = "exited" \/ c.rest = ctx[e].rest
  <2>1. CASE c = ctx[e]
    BY <1>2, <2>1
  <2>2. CASE c = [ctx[e] EXCEPT !.reader = "exited", !.rest = <<>>]
    <3>0. <<>> \in Seq(RecordType)
      OBVIOUS
    <3>1. PICK none : none = <<>> /\ none \in Seq(RecordType)
      BY <3>0, Zenon
    <3> QED BY <1>2, <2>2, <3>1 DEF CtxType
  <2> QED BY <1>1, <2>1, <2>2
<1>4. ctx'[e] = c /\ ctx'[Peer(e)] = ctx[Peer(e)] /\ ctx' \in [End -> CtxType]
  BY <1>1, <1>2, <1>3
<1>5. OtherSame(e) /\ Progress(e) /\ Progress(Peer(e)) /\ TaskSame(e)
  BY <1>3, <1>4 DEF OtherSame, Progress, TaskSame
<1>6. NetInv' /\ net' \in SUBSET [to : End, recs : Seq(RecordType)]
  BY <1>5, WrittenRecord
<1>7. TypeOK'
  BY <1>4, <1>6 DEF IInv, TypeOK, CtxType
<1>8. /\ RolesInv(e)' /\ NumbersInv(e)' /\ CacheInv(e)' /\ LinkInv(e)'
      /\ KeysInv(e)' /\ FlightsInv(e)' /\ Got(e)' = Got(e)
  BY <1>5, TaskStays
<1>9. OwnInv(e)
  BY OwnFacts
<1>10. RecordsInv(e)'
  <2> DEFINE a == c.rest
             b == c.encrypted_packets
  <2>1. RecordsOK(Peer(e), a) /\ RecordsOK(Peer(e), b)
    BY <1>3, <1>9 DEF OwnInv, RecordsInv, RecordsOK
  <2> HIDE DEF a, b
  <2>2. RecordsOK(Peer(e), a)' /\ RecordsOK(Peer(e), b)'
    BY <1>2, <1>5, <2>1, RecordsStay
  <2> QED BY <1>4, <2>2 DEF RecordsInv, RecordsOK, a, b
<1>11. e = "server" => ServerInv'
  <2> SUFFICES ASSUME e = "server" PROVE ServerInv'
    OBVIOUS
  <2>1. ServerInv
    BY DEF IInv
  <2>2. ctx'["server"].reader # "drain" /\ LateOnly(ctx'["server"].encrypted_packets)
    BY <1>3, <1>4, <2>1 DEF ServerInv
  <2> QED BY <2>1, <2>2 DEF ServerInv
<1>12. e = "client" => ClientInv'
  <2> SUFFICES ASSUME e = "client" PROVE ClientInv'
    OBVIOUS
  <2>1. ClientInv
    BY DEF IInv
  <2>2. Whole(ctx'["client"].rest)
    BY <1>3, <1>4, <2>1 DEF ClientInv, Whole
  <2>3. Got("client")' = Got("client")
    BY <1>8
  <2> QED BY <1>3, <1>4, <2>1, <2>2, <2>3 DEF ClientInv
<1>13. e = "server" => (Msg("server", 6) \in cache'["server"] => fsm'["server"] \in {"Completing", "Finished"})
  OBVIOUS
<1>14. e = "client" => (fsm'["client"] \in {"Completing", "Finished"} => Got("client")' = 7)
  BY <1>8, <1>9 DEF OwnInv
<1>15. OwnInv(e)'
  BY <1>8, <1>10, <1>11, <1>12, <1>13, <1>14 DEF OwnInv
<1> QED BY <1>5, <1>6, <1>7, <1>15, StepOfOne

(* The application writes or closes, or the peer has closed. *)
LEMMA ApplicationKeeps ==
    ASSUME IInv, NEW e \in End, Write(e) \/ Close(e) \/ ReadAlert(e)
    PROVE  IInv'
<1>1. closed \in [End -> BOOLEAN] /\ fsm \in [End -> {"Preparing", "Sending", "Waiting", "Draining", "Completing", "Finished", "Failed"}]
  BY TypeIs DEF IInv
<1>2. CASE Write(e)
  <2>1. fsm[e] \in {"Completing", "Finished"} /\ WriteRecord(e, "ApplicationData")
        /\ UNCHANGED <<fsm, flight, flights, state, cache, ctx, decrypted, closed>>
    BY <1>2 DEF Write
  <2> QED BY <1>1, <2>1, FinishedSends
<1>3. CASE Close(e)
  <2>1. /\ fsm[e] \in {"Completing", "Finished"} /\ WriteRecord(e, "CloseNotify")
        /\ closed' = [closed EXCEPT ![e] = TRUE]
        /\ ctx' = [ctx EXCEPT ![e].reader = "exited", ![e].rest = <<>>]
        /\ UNCHANGED <<fsm, flight, flights, state, cache, decrypted>>
    BY <1>3 DEF Close
  <2>2. closed' \in [End -> BOOLEAN]
    BY <1>1, <2>1
  <2> QED BY <2>1, <2>2, FinishedSends
<1>4. CASE ReadAlert(e)
  <2>1. /\ Handling(e) /\ Readable(e, Current(e)) /\ Current(e).type \in {"CloseNotify", "Fatal"}
        /\ WriteRecord(e, Current(e).type)
        /\ ctx' = [ctx EXCEPT ![e].reader = "exited", ![e].rest = <<>>]
        /\ fsm' = [fsm EXCEPT ![e] = IF Concluded(e) THEN @ ELSE "Failed"]
        /\ UNCHANGED <<flight, flights, state, cache, decrypted, closed>>
    BY <1>4 DEF ReadAlert
  <2>2. fsm[e] \in {"Completing", "Finished"} /\ Current(e).type = "CloseNotify"
    BY <2>1, FinishedReads
  <2>3. Concluded(e)
    BY <2>2 DEF Concluded
  <2>4. fsm' = fsm
    BY <1>1, <2>1, <2>3
  <2> QED BY <1>1, <2>1, <2>2, <2>4, FinishedSends
<1> QED BY <1>2, <1>3, <1>4

(* The retransmit timer. *)
LEMMA RetransmitKeeps ==
    ASSUME IInv, NEW e \in End, RetransmitTimer(e)
    PROVE  IInv'
<1>1. /\ fsm[e] = "Waiting" /\ fsm' = [fsm EXCEPT ![e] = "Sending"]
      /\ UNCHANGED <<flight, flights, state, cache, ctx, decrypted, closed, net>>
  BY DEF RetransmitTimer
<1>2. fsm \in [End -> {"Preparing", "Sending", "Waiting", "Draining", "Completing", "Finished", "Failed"}]
  BY TypeIs DEF IInv
<1>3. Peer(e) # e /\ Peer(e) \in End /\ OwnInv(e)
  BY Ends, OwnFacts
<1>4. fsm'[e] = "Sending" /\ fsm'[Peer(e)] = fsm[Peer(e)]
      /\ fsm' \in [End -> {"Preparing", "Sending", "Waiting", "Draining", "Completing", "Finished", "Failed"}]
  BY <1>1, <1>2, <1>3
<1>5. TypeOK'
  BY <1>1, <1>4 DEF IInv, TypeOK
<1>6. OtherSame(e) /\ Progress(e) /\ Progress(Peer(e)) /\ Got(e)' = Got(e)
  BY <1>1, <1>4 DEF OtherSame, Progress, Got
<1>7. RolesInv(e)'
  BY <1>1, <1>3, <1>4 DEF OwnInv, RolesInv
<1>8. NumbersInv(e)'
  BY <1>1, <1>3, <1>4, <1>6 DEF OwnInv, NumbersInv
<1>9. CacheInv(e)' /\ LinkInv(e)'
  BY <1>1, <1>3, <1>4, <1>6 DEF OwnInv, CacheInv, LinkInv
<1>10. KeysInv(e)' /\ FlightsInv(e)'
  BY <1>1, <1>3, <1>4 DEF OwnInv, KeysInv, FlightsInv, Initialized
<1>11. RecordsInv(e)'
  BY <1>1, <1>3, <1>6, RecordsInvStays DEF OwnInv
<1>12. decrypted'[e] > 0 => fsm'[e] \in {"Completing", "Finished"}
  BY <1>1, <1>3 DEF OwnInv
<1>13. e = "server" => ServerInv' /\ (Msg("server", 6) \in cache'["server"] => fsm'["server"] \in {"Completing", "Finished"})
  BY <1>1, <1>3, <1>4, <1>6 DEF OwnInv, ServerInv
<1>14. e = "client" => ClientInv' /\ (fsm'["client"] \in {"Completing", "Finished"} => Got("client")' = 7)
  <2> SUFFICES ASSUME e = "client" PROVE ClientInv'
    BY <1>4
  <2>1. ClientInv
    BY DEF IInv
  <2> QED BY <1>1, <1>4, <1>6, <2>1 DEF ClientInv
<1>15. OwnInv(e)'
  BY <1>7, <1>8, <1>9, <1>10, <1>11, <1>12, <1>13, <1>14 DEF OwnInv
<1>16. NetInv'
  <2>1. PICK ds : ds = {}
    OBVIOUS
  <2>2. /\ net' \subseteq net \cup ds
        /\ \A d \in ds : d.to = Peer(e) /\ RecordsOK(e, d.recs)' /\ (e = "server" => Whole(d.recs))
    BY <1>1, <2>1
  <2> QED BY <1>6, <2>2, NetStep
<1> QED BY <1>5, <1>6, <1>15, <1>16, StepOfOne

(* handshake() returns. *)
LEMMA CompleteKeeps ==
    ASSUME IInv, NEW e \in End, Complete(e)
    PROVE  IInv'
<1>1. /\ fsm[e] = "Completing" /\ fsm' = [fsm EXCEPT ![e] = "Finished"]
      /\ UNCHANGED <<flight, flights, state, cache, ctx, decrypted, closed, net>>
  BY DEF Complete
<1>2. fsm \in [End -> {"Preparing", "Sending", "Waiting", "Draining", "Completing", "Finished", "Failed"}]
  BY TypeIs DEF IInv
<1>3. Peer(e) # e /\ Peer(e) \in End /\ OwnInv(e)
  BY Ends, OwnFacts
<1>4. fsm'[e] = "Finished" /\ fsm'[Peer(e)] = fsm[Peer(e)]
      /\ fsm' \in [End -> {"Preparing", "Sending", "Waiting", "Draining", "Completing", "Finished", "Failed"}]
  BY <1>1, <1>2, <1>3
<1>5. TypeOK'
  BY <1>1, <1>4 DEF IInv, TypeOK
<1>6. OtherSame(e) /\ Progress(e) /\ Progress(Peer(e)) /\ Got(e)' = Got(e)
  BY <1>1, <1>4 DEF OtherSame, Progress, Got
<1>7. RolesInv(e)'
  BY <1>1, <1>3, <1>4 DEF OwnInv, RolesInv
<1>8. NumbersInv(e)'
  BY <1>1, <1>3, <1>4, <1>6 DEF OwnInv, NumbersInv
<1>9. CacheInv(e)' /\ LinkInv(e)'
  BY <1>1, <1>3, <1>4, <1>6 DEF OwnInv, CacheInv, LinkInv
<1>10. KeysInv(e)' /\ FlightsInv(e)'
  BY <1>1, <1>3, <1>4 DEF OwnInv, KeysInv, FlightsInv, Initialized
<1>11. RecordsInv(e)'
  BY <1>1, <1>3, <1>6, RecordsInvStays DEF OwnInv
<1>12. decrypted'[e] > 0 => fsm'[e] \in {"Completing", "Finished"}
  BY <1>4
<1>13. e = "server" => ServerInv' /\ (Msg("server", 6) \in cache'["server"] => fsm'["server"] \in {"Completing", "Finished"})
  BY <1>1, <1>3, <1>4, <1>6 DEF OwnInv, ServerInv
<1>14. e = "client" => ClientInv' /\ (fsm'["client"] \in {"Completing", "Finished"} => Got("client")' = 7)
  <2> SUFFICES ASSUME e = "client" PROVE ClientInv' /\ Got("client")' = 7
    OBVIOUS
  <2>1. ClientInv /\ (fsm["client"] \in {"Completing", "Finished"} => Got("client") = 7)
    BY DEF IInv, FinishInv
  <2> QED BY <1>1, <1>4, <1>6, <2>1 DEF ClientInv
<1>15. OwnInv(e)'
  BY <1>7, <1>8, <1>9, <1>10, <1>11, <1>12, <1>13, <1>14 DEF OwnInv
<1>16. NetInv'
  <2>1. PICK ds : ds = {}
    OBVIOUS
  <2>2. /\ net' \subseteq net \cup ds
        /\ \A d \in ds : d.to = Peer(e) /\ RecordsOK(e, d.recs)' /\ (e = "server" => Whole(d.recs))
    BY <1>1, <2>1
  <2> QED BY <1>6, <2>2, NetStep
<1> QED BY <1>5, <1>6, <1>15, <1>16, StepOfOne

-----------------------------------------------------------------------------
(***************************************************************************)
(* ChangeCipherSpec, and the messages that leave the fragment buffer.      *)
(***************************************************************************)

(* An end that reads a ChangeCipherSpec goes to epoch 1; at the client, Finished *)
(* is the next record.                                                           *)
LEMMA ChangeCipherSpecKeeps ==
    ASSUME IInv, NEW e \in End, ChangeCipherSpec(e)
    PROVE  IInv'
<1>1. /\ Handling(e) /\ Readable(e, Current(e)) /\ Current(e).type = "ChangeCipherSpec"
      /\ Current(e).epoch = state[e].remote_epoch
      /\ state' = [state EXCEPT ![e].remote_epoch = @ + 1]
      /\ ctx' = [ctx EXCEPT ![e].rest = Tail(@)]
      /\ UNCHANGED <<fsm, flight, flights, cache, decrypted, closed, net>>
  BY DEF ChangeCipherSpec
<1>2. /\ RecordOK(Peer(e), Current(e)) /\ Current(e) = ctx[e].rest[1]
      /\ Tail(ctx[e].rest) \in Seq(RecordType)
      /\ RecordsOK(Peer(e), Tail(ctx[e].rest)) /\ RecordsOK(Peer(e), ctx[e].encrypted_packets)
      /\ ctx[e].rest \in Seq(RecordType) /\ ctx[e].rest # <<>>
  BY <1>1, HandlingFacts
<1>3. state[e].remote_epoch = 0 /\ Msg(Peer(e), LastOf(Peer(e))) \in cache[Peer(e)]
  BY <1>1, <1>2 DEF RecordOK
<1>4. Initialized(e)
  BY <1>1 DEF Readable, NotYet
<1>5. /\ Peer(e) # e /\ Peer(e) \in End /\ OwnInv(e) /\ ctx[e] \in CtxType /\ state[e] \in StateType
      /\ state \in [End -> StateType] /\ ctx \in [End -> CtxType]
  BY Ends, OwnFacts, EndTypes, TypeIs DEF IInv
<1>6. PICK s : s = [state[e] EXCEPT !.remote_epoch = 1]
  OBVIOUS
<1>7. /\ s \in StateType /\ s.remote_epoch = 1 /\ s.local_epoch = state[e].local_epoch
      /\ s.handshake_send_sequence = state[e].handshake_send_sequence
      /\ s.handshake_recv_sequence = state[e].handshake_recv_sequence
      /\ s.cookie = state[e].cookie /\ s.cipher_suite = state[e].cipher_suite
      /\ s.master_secret = state[e].master_secret
      /\ s.peer_certificates = state[e].peer_certificates /\ s.verified = state[e].verified
  BY <1>5, <1>6 DEF StateType
<1>8. state' = [state EXCEPT ![e] = s]
  <2>1. state[e].remote_epoch + 1 = 1
    BY <1>3
  <2> QED BY <1>1, <1>5, <1>6, <2>1
<1>9. state'[e] = s /\ state'[Peer(e)] = state[Peer(e)] /\ state' \in [End -> StateType]
  BY <1>5, <1>7, <1>8
<1>10. PICK c : c = [ctx[e] EXCEPT !.rest = Tail(@)]
  OBVIOUS
<1>11. /\ c \in CtxType /\ c.reader = ctx[e].reader /\ c.rest = Tail(ctx[e].rest)
       /\ c.has_handshake = ctx[e].has_handshake
       /\ c.encrypted_packets = ctx[e].encrypted_packets /\ c.fragments = ctx[e].fragments
       /\ c.current_message_sequence_number = ctx[e].current_message_sequence_number
  BY <1>2, <1>5, <1>10 DEF CtxType
<1>12. ctx' = [ctx EXCEPT ![e] = c]
  BY <1>1, <1>5, <1>10
<1>13. ctx'[e] = c /\ ctx'[Peer(e)] = ctx[Peer(e)] /\ ctx' \in [End -> CtxType]
  BY <1>5, <1>11, <1>12
<1>14. TypeOK'
  BY <1>1, <1>9, <1>13 DEF IInv, TypeOK, StateType, CtxType
<1>15. OtherSame(e) /\ Progress(e) /\ Progress(Peer(e)) /\ Got(e)' = Got(e)
  BY <1>1, <1>9, <1>11, <1>13 DEF OtherSame, Progress, Got
<1>16. RolesInv(e)' /\ FlightsInv(e)'
  BY <1>1, <1>5 DEF OwnInv, RolesInv, FlightsInv
<1>17. NumbersInv(e)'
  BY <1>1, <1>5, <1>7, <1>9, <1>15 DEF OwnInv, NumbersInv
<1>18. CacheInv(e)'
  BY <1>1, <1>5, <1>7, <1>9, <1>15 DEF OwnInv, CacheInv
<1>19. LinkInv(e)'
  BY <1>1, <1>5, <1>11, <1>13, <1>15 DEF OwnInv, LinkInv
<1>20. KeysInv(e)'
  <2>1. Initialized(e)'
    BY <1>4, <1>7, <1>9 DEF Initialized
  <2> QED BY <1>1, <1>3, <1>4, <1>5, <1>7, <1>9, <2>1 DEF OwnInv, KeysInv
<1>21. RecordsInv(e)'
  <2> DEFINE a == c.rest
             b == c.encrypted_packets
  <2>1. RecordsOK(Peer(e), a) /\ RecordsOK(Peer(e), b)
    BY <1>2, <1>11
  <2> HIDE DEF a, b
  <2>2. RecordsOK(Peer(e), a)' /\ RecordsOK(Peer(e), b)'
    BY <1>5, <1>15, <2>1, RecordsStay
  <2> QED BY <1>13, <2>2 DEF RecordsInv, RecordsOK, a, b
<1>22. decrypted'[e] > 0 => fsm'[e] \in {"Completing", "Finished"}
  BY <1>1, <1>5 DEF OwnInv
<1>23. e = "server" => ServerInv' /\ (Msg("server", 6) \in cache'["server"] => fsm'["server"] \in {"Completing", "Finished"})
  <2> SUFFICES ASSUME e = "server" PROVE ServerInv'
    BY <1>1, <1>5 DEF OwnInv
  <2>1. ServerInv
    BY DEF IInv
  <2>2. LateOnly(c.encrypted_packets) /\ (c.reader = "drain" => LateOnly(c.rest))
    BY <1>1, <1>11, <2>1, HandlingFacts DEF ServerInv
  <2>3. LateOnly(ctx'["server"].encrypted_packets) /\ (c.reader = "drain" => LateOnly(ctx'["server"].rest))
    BY <1>13, <2>2
  <2> QED BY <1>1, <1>7, <1>9, <1>11, <1>13, <1>15, <2>1, <2>3 DEF ServerInv
<1>24. e = "client" => ClientInv' /\ (fsm'["client"] \in {"Completing", "Finished"} => Got("client")' = 7)
  <2> SUFFICES ASSUME e = "client" PROVE ClientInv'
    BY <1>1, <1>5, <1>15 DEF OwnInv
  <2>1. ClientInv
    BY DEF IInv
  <2>2. Whole(ctx[e].rest) /\ ctx[e].reader = "records"
    BY <1>1, <2>1 DEF ClientInv, Handling
  <2>3. 1 \in 1 .. Len(ctx[e].rest) /\ Len(ctx[e].rest) \in Nat
    BY <1>2
  <2>4. Len(ctx[e].rest) = 2 /\ ctx[e].rest[2].type = "Finished"
    BY <1>1, <1>2, <2>2, <2>3 DEF Whole
  <2>5. Len(c.rest) = 1 /\ c.rest[1].type = "Finished" /\ Whole(c.rest)
    <3>1. Len(Tail(ctx[e].rest)) = 1 /\ Whole(Tail(ctx[e].rest)) /\ Tail(ctx[e].rest)[1] = ctx[e].rest[2]
      BY <1>2, <2>2, <2>4, TailStays
    <3> QED BY <1>11, <2>4, <3>1
  <2>6. Whole(ctx'["client"].rest)
    BY <1>13, <2>5
  <2> QED BY <1>1, <1>11, <1>13, <1>15, <2>1, <2>2, <2>5, <2>6 DEF ClientInv
<1>25. OwnInv(e)'
  BY <1>16, <1>17, <1>18, <1>19, <1>20, <1>21, <1>22, <1>23, <1>24 DEF OwnInv
<1>26. NetInv'
  <2>1. PICK ds : ds = {}
    OBVIOUS
  <2>2. /\ net' \subseteq net \cup ds
        /\ \A d \in ds : d.to = Peer(e) /\ RecordsOK(e, d.recs)' /\ (e = "server" => Whole(d.recs))
    BY <1>1, <2>1
  <2> QED BY <1>15, <2>2, NetStep
<1> QED BY <1>14, <1>15, <1>25, <1>26, StepOfOne

(* The first number from g on that is not in S. *)
LEMMA FirstGap ==
    ASSUME NEW S, NEW g \in 0 .. 7, 7 \notin S
    PROVE  \E h \in g .. 7 : h \notin S /\ \A k \in g .. h - 1 : k \in S
<1> SUFFICES ASSUME \A h \in g .. 7 : h \in S \/ \E k \in g .. h - 1 : k \notin S
             PROVE  FALSE
  OBVIOUS
<1>0. g <= 0 => 0 \in S
  OBVIOUS
<1>1. g <= 1 => 1 \in S
  BY <1>0
<1>2. g <= 2 => 2 \in S
  BY <1>0, <1>1
<1>3. g <= 3 => 3 \in S
  BY <1>0, <1>1, <1>2
<1>4. g <= 4 => 4 \in S
  BY <1>0, <1>1, <1>2, <1>3
<1>5. g <= 5 => 5 \in S
  BY <1>0, <1>1, <1>2, <1>3, <1>4
<1>6. g <= 6 => 6 \in S
  BY <1>0, <1>1, <1>2, <1>3, <1>4, <1>5
<1>7. g <= 7 => 7 \in S
  BY <1>0, <1>1, <1>2, <1>3, <1>4, <1>5, <1>6
<1> QED BY <1>7

(* The messages that leave the buffer are those up to the first that is missing. *)
LEMMA PopIs ==
    ASSUME NEW e \in End, Got(e) \in 0 .. 7, NEW frags, \A m \in frags : m.seq \in 0 .. 6
    PROVE  /\ Pop(e, frags).next \in Got(e) .. 7
           /\ \A m \in frags : m \in Pop(e, frags).popped
                                 <=> Got(e) <= m.seq /\ m.seq < Pop(e, frags).next
           /\ Pop(e, frags).popped \subseteq frags
           /\ \A n \in Got(e) .. Pop(e, frags).next - 1 : \E m \in frags : m.seq = n
           /\ \A m \in frags : m.seq # Pop(e, frags).next
<1> DEFINE g == Got(e)
           popped == {m \in frags : /\ m.seq >= g
                                    /\ \A n \in g .. m.seq : \E f \in frags : f.seq = n}
           S == {m.seq : m \in popped}
<1>1. Pop(e, frags).popped = popped /\ Pop(e, frags).next = g + Cardinality(S)
  BY DEF Pop, Got
<1> HIDE DEF g
<1>2. g \in 0 .. 7 /\ 7 \notin S
  BY DEF g
<1>3. PICK h \in g .. 7 : h \notin S /\ \A k \in g .. h - 1 : k \in S
  <2> HIDE DEF S
  <2> QED BY <1>2, FirstGap
<1>4. \A n \in S : n \in g .. 6 /\ \A k \in g .. n : k \in S
  <2> SUFFICES ASSUME NEW m \in popped, NEW k \in g .. m.seq
               PROVE  m.seq \in g .. 6 /\ k \in S
    <3>1. \A m \in popped : m.seq \in g .. 6
      BY <1>2
    <3> QED BY <3>1
  <2>1. m.seq \in 0 .. 6 /\ m.seq >= g /\ \A n \in g .. m.seq : \E f \in frags : f.seq = n
    OBVIOUS
  <2>2. PICK f \in frags : f.seq = k
    BY <2>1
  <2>3. k >= g /\ k <= m.seq /\ k \in Int
    BY <1>2, <2>1
  <2>4. \A n \in g .. k : n \in g .. m.seq
    BY <1>2, <2>1, <2>3
  <2>5. f \in popped
    BY <2>1, <2>2, <2>3, <2>4
  <2> QED BY <1>2, <2>1, <2>2, <2>5
<1>5. S = g .. h - 1
  <2> HIDE DEF S
  <2>1. \A n \in S : n < h
    BY <1>2, <1>3, <1>4
  <2>2. \A n \in S : n \in g .. h - 1
    BY <1>2, <1>3, <1>4, <2>1
  <2> QED BY <1>3, <2>2
<1>6. g + Cardinality(S) = h
  <2>0. g \in Int /\ h - 1 \in Int
    BY <1>2, <1>3
  <2>1. Cardinality(g .. h - 1) = IF g > h - 1 THEN 0 ELSE (h - 1) - g + 1
    BY <2>0, FS_Interval, Zenon
  <2> HIDE DEF S
  <2> QED BY <1>2, <1>3, <1>5, <2>1
<1>7. \A n \in g .. h - 1 : \E m \in popped : m.seq = n
  BY <1>5
<1>8. \A m \in frags : m \in popped <=> g <= m.seq /\ m.seq < h
  <2> SUFFICES ASSUME NEW m \in frags PROVE m \in popped <=> g <= m.seq /\ m.seq < h
    OBVIOUS
  <2>1. m \in popped => m.seq \in g .. h - 1
    BY <1>5
  <2>2. ASSUME g <= m.seq, m.seq < h PROVE m \in popped
    <3>1. m.seq \in 0 .. 6 /\ \A n \in g .. m.seq : n \in g .. h - 1
      BY <1>2, <1>3, <2>2
    <3>2. \A n \in g .. m.seq : \E f \in popped : f.seq = n
      BY <1>7, <3>1
    <3> QED BY <1>2, <2>2, <3>1, <3>2
  <2>3. m.seq \in 0 .. 6
    OBVIOUS
  <2> QED BY <1>2, <1>3, <2>1, <2>2, <2>3
<1>9. \A m \in frags : m.seq # h
  <2> SUFFICES ASSUME NEW m \in frags, m.seq = h PROVE FALSE
    OBVIOUS
  <2>1. \A n \in g .. h : n = h \/ n \in g .. h - 1
    BY <1>2, <1>3
  <2>2. \A n \in g .. m.seq : \E f \in frags : f.seq = n
    BY <1>7, <2>1
  <2>3. m.seq >= g
    BY <1>2, <1>3
  <2>4. m \in popped
    BY <2>2, <2>3
  <2> QED BY <1>3, <2>4
<1>10. popped \subseteq frags
  OBVIOUS
<1> HIDE DEF popped, S
<1> QED BY <1>1, <1>3, <1>6, <1>7, <1>8, <1>9, <1>10 DEF g

(* Messages of the script go into the cache as they are. *)
LEMMA PushIs ==
    ASSUME NEW e \in End, cache[e] \subseteq Script, NEW ms, ms \subseteq Script
    PROVE  Push(e, ms) = cache[e] \cup ms
<1>1. ASSUME NEW m \in ms, NEW c \in cache[e], c.from = m.from, c.seq = m.seq PROVE m \in cache[e]
  <2>1. c = Msg(c.from, c.seq) /\ m = Msg(m.from, m.seq)
    BY ScriptIs
  <2> QED BY <1>1, <2>1
<1>2. \A m \in ms : m \in cache[e] \/ \A c \in cache[e] : c.from # m.from \/ c.seq # m.seq
  BY <1>1
<1> QED BY <1>2 DEF Push

(* A handshake message goes into the buffer, and those in order into the cache. *)
LEMMA BufferHandshakeKeeps ==
    ASSUME IInv, NEW e \in End, BufferHandshake(e)
    PROVE  IInv'
<1> DEFINE r == Current(e)
           f == Peer(e)
<1>1. PICK m0 : m0 = Cached(f, r)
  OBVIOUS
<1>2. PICK frags : frags = ctx[e].fragments \cup {m0}
  OBVIOUS
<1>3. PICK p : p = Pop(e, frags)
  OBVIOUS
<1>4. PICK c : c = [ctx[e] EXCEPT !.rest = Tail(@),
                                  !.fragments = {m \in frags : m.seq >= p.next},
                                  !.current_message_sequence_number = p.next,
                                  !.has_handshake = @ \/ ctx[e].reader = "records"]
  OBVIOUS
<1>5. /\ Handling(e) /\ Readable(e, r) /\ IsHandshake(r)
      /\ cache' = [cache EXCEPT ![e] = Push(e, p.popped)]
      /\ UNCHANGED <<fsm, flight, flights, state, decrypted, closed, net>>
  BY <1>1, <1>2, <1>3 DEF BufferHandshake
<1>6. /\ f # e /\ f \in End /\ OwnInv(e) /\ ctx[e] \in CtxType /\ Peer(f) = e
      /\ cache \in [End -> SUBSET MessageType] /\ ctx \in [End -> CtxType]
  BY Ends, OwnFacts, EndTypes, TypeIs DEF IInv
<1>7. ctx' = [ctx EXCEPT ![e] = c]
  BY <1>1, <1>2, <1>3, <1>4, <1>6 DEF BufferHandshake
<1>8. /\ RecordOK(f, r) /\ Tail(ctx[e].rest) \in Seq(RecordType)
      /\ RecordsOK(f, Tail(ctx[e].rest)) /\ RecordsOK(f, ctx[e].encrypted_packets)
      /\ ctx[e].rest \in Seq(RecordType) /\ ctx[e].rest # <<>> /\ r = ctx[e].rest[1]
  BY <1>5, HandlingFacts
<1>9. r.seq \in Number(f) /\ m0 = Msg(f, r.seq) /\ m0 \in cache[f] /\ r.epoch = EpochOf(f, r.seq)
  BY <1>1, <1>5, <1>6, <1>8, RecordIs
<1> HIDE DEF r
<1>10. /\ cache[e] \subseteq Script /\ cache[f] \subseteq Script
       /\ Got(e) \in Nat /\ Got(e) <= LastOf(f) + 1 /\ LastOf(f) \in 5 .. 6
       /\ \A n \in Number(f) : Msg(f, n) \in cache[e] <=> n < Got(e)
  BY <1>6, EndFacts, Numbers DEF EndInv, NumbersInv
<1>11. m0.from = f /\ m0.seq = r.seq
  BY <1>6, <1>9, ScriptIs
<1>12. \A m \in ctx[e].fragments : m \in cache[f] /\ m.from = f /\ m.seq > Got(e)
  BY <1>6 DEF OwnInv, LinkInv
<1>13. \A m \in frags : m \in Script /\ m \in cache[f] /\ m.from = f
                        /\ (m = m0 \/ m.seq > Got(e))
  BY <1>2, <1>9, <1>10, <1>11, <1>12
<1>14. \A m \in frags : m.seq \in Number(f) /\ m = Msg(f, m.seq)
  BY <1>13, ScriptIs
<1>15. \A m \in frags : m.seq \in 0 .. 6 /\ m.seq <= LastOf(f)
  BY <1>6, <1>14, Numbers, Tables
<1> DEFINE g == Got(e)
           h == p.next
<1>16. /\ h \in g .. 7
       /\ \A m \in frags : m \in p.popped <=> g <= m.seq /\ m.seq < h
       /\ p.popped \subseteq frags
       /\ \A n \in g .. h - 1 : \E m \in frags : m.seq = n
       /\ \A m \in frags : m.seq # h
  <2>1. Got(e) \in 0 .. 7
    BY <1>10
  <2> QED BY <1>3, <1>15, <2>1, PopIs
<1> HIDE DEF g, h
<1>17. g \in Nat /\ h \in Nat /\ g <= h /\ h <= LastOf(f) + 1
  <2>1. g \in Nat /\ h \in Nat /\ g <= h /\ g <= LastOf(f) + 1
    BY <1>10, <1>16 DEF g
  <2>2. h > g => h - 1 \in g .. h - 1
    BY <2>1
  <2>3. h > g => h - 1 <= LastOf(f)
    BY <1>15, <1>16, <2>2
  <2> QED BY <1>10, <2>1, <2>3
<1>18. \A n \in Number(f) : n \in Nat
  BY <1>6, Tables
<1>19. \A n \in g .. h - 1 : Msg(f, n) \in p.popped /\ Msg(f, n) \in cache[f]
  <2> SUFFICES ASSUME NEW n \in g .. h - 1 PROVE Msg(f, n) \in p.popped /\ Msg(f, n) \in cache[f]
    OBVIOUS
  <2>1. PICK m \in frags : m.seq = n
    BY <1>16
  <2>2. m \in p.popped /\ m = Msg(f, n)
    BY <1>14, <1>16, <1>17, <2>1
  <2> QED BY <1>13, <2>1, <2>2
<1>20. Push(e, p.popped) = cache[e] \cup p.popped
  <2>1. p.popped \subseteq Script
    BY <1>13, <1>16
  <2> QED BY <1>10, <2>1, PushIs
<1>21. /\ cache'[e] = cache[e] \cup p.popped /\ cache'[f] = cache[f]
       /\ cache' \in [End -> SUBSET MessageType]
  <2>1. p.popped \subseteq MessageType
    BY <1>6, <1>13, <1>16
  <2> QED BY <1>5, <1>6, <1>20, <2>1
<1>22. \A n \in Number(f) : Msg(f, n) \in cache'[e] <=> n < h
  <2> SUFFICES ASSUME NEW n \in Number(f) PROVE Msg(f, n) \in cache'[e] <=> n < h
    OBVIOUS
  <2>1. n \in Nat /\ Msg(f, n).seq = n /\ (Msg(f, n) \in cache[e] <=> n < g)
    BY <1>6, <1>10, <1>18, ScriptIs DEF g
  <2>2. Msg(f, n) \in p.popped => n < h
    BY <1>16, <2>1
  <2>3. n >= g /\ n < h => Msg(f, n) \in p.popped
    BY <1>17, <1>19, <2>1
  <2> QED BY <1>17, <1>21, <2>1, <2>2, <2>3
<1>23. \A n \in Number(e) : Msg(e, n) \in cache'[e] <=> Msg(e, n) \in cache[e]
  <2> SUFFICES ASSUME NEW n \in Number(e) PROVE Msg(e, n) \in cache'[e] <=> Msg(e, n) \in cache[e]
    OBVIOUS
  <2>1. Msg(e, n).from = e
    BY ScriptIs
  <2>2. Msg(e, n) \notin p.popped
    BY <1>6, <1>13, <1>16, <2>1
  <2> QED BY <1>21, <2>2
<1>24. /\ c \in CtxType /\ c.reader = ctx[e].reader /\ c.rest = Tail(ctx[e].rest)
       /\ c.has_handshake = (ctx[e].has_handshake \/ ctx[e].reader = "records")
       /\ c.encrypted_packets = ctx[e].encrypted_packets
       /\ c.fragments = {m \in frags : m.seq >= h}
       /\ c.current_message_sequence_number = h
  <2>1. ctx[e].has_handshake \in BOOLEAN
    BY <1>6 DEF CtxType
  <2>2. {m \in frags : m.seq >= h} \in SUBSET MessageType
    BY <1>6, <1>13
  <2>3. PICK hs : hs = (ctx[e].has_handshake \/ ctx[e].reader = "records") /\ hs \in BOOLEAN
    BY <2>1
  <2>4. PICK fr : fr = {m \in frags : m.seq >= h} /\ fr \in SUBSET MessageType
    BY <2>2
  <2>5. c = [ctx[e] EXCEPT !.rest = Tail(@), !.fragments = fr,
                           !.current_message_sequence_number = h, !.has_handshake = hs]
    BY <1>4, <2>3, <2>4 DEF h
  <2>6. /\ c \in CtxType /\ c.reader = ctx[e].reader /\ c.rest = Tail(ctx[e].rest)
        /\ c.has_handshake = hs /\ c.encrypted_packets = ctx[e].encrypted_packets
        /\ c.fragments = fr /\ c.current_message_sequence_number = h
    BY <1>6, <1>8, <1>17, <2>3, <2>4, <2>5 DEF CtxType
  <2> QED BY <2>3, <2>4, <2>6
<1>25. ctx'[e] = c /\ ctx'[f] = ctx[f] /\ ctx' \in [End -> CtxType]
  BY <1>6, <1>7, <1>24
<1>26. TypeOK'
  BY <1>5, <1>21, <1>25 DEF IInv, TypeOK, CtxType
<1>27. OtherSame(e) /\ Progress(e) /\ Progress(f) /\ Got(e)' = h
  BY <1>5, <1>21, <1>24, <1>25 DEF OtherSame, Progress, Got
<1>28. RolesInv(e)' /\ FlightsInv(e)'
  BY <1>5, <1>6 DEF OwnInv, RolesInv, FlightsInv
<1>29. NumbersInv(e)'
  <2>1. Msg(e, 0) \in cache'[e] <=> Msg(e, 0) \in cache[e]
    BY <1>23, Numbers, Ends
  <2>2. NumbersInv(e) /\ RecvOf(flight[e]) \in Nat
    BY <1>6 DEF OwnInv, RecvOf
  <2>3. RecvOf(flight[e]) <= h
    BY <1>17, <2>2 DEF NumbersInv, g
  <2> QED BY <1>5, <1>17, <1>27, <2>1, <2>2, <2>3 DEF NumbersInv
<1>30. CacheInv(e)'
  <2>1. CacheInv(e)
    BY <1>6 DEF OwnInv
  <2>2. cache'[e] \subseteq Script
    BY <1>10, <1>13, <1>16, <1>21
  <2> QED BY <1>5, <1>22, <1>23, <1>27, <2>1, <2>2 DEF CacheInv
<1>31. LinkInv(e)'
  <2>1. LinkInv(e)
    BY <1>6 DEF OwnInv
  <2>2. ASSUME NEW n \in Number(f), n < h PROVE Msg(f, n) \in cache'[f]
    <3>1. n < g => Msg(f, n) \in cache[f]
      BY <2>1 DEF LinkInv, g
    <3>2. n >= g => Msg(f, n) \in cache[f]
      BY <1>17, <1>18, <1>19, <2>2
    <3> QED BY <1>17, <1>18, <1>21, <3>1, <3>2
  <2>3. ASSUME NEW m \in c.fragments PROVE m \in cache'[f] /\ m.from = f /\ m.seq > h
    <3>1. m \in frags /\ m.seq >= h
      BY <1>24, <2>3
    <3>2. m.seq # h /\ m.seq \in 0 .. 6
      BY <1>15, <1>16, <3>1
    <3> QED BY <1>13, <1>17, <1>21, <3>1, <3>2
  <2> QED BY <1>25, <1>27, <2>2, <2>3 DEF LinkInv
<1>32. KeysInv(e)'
  BY <1>5, <1>6, <1>21 DEF OwnInv, KeysInv, Initialized
<1>33. RecordsInv(e)'
  <2> DEFINE a == c.rest
             b == c.encrypted_packets
  <2>1. RecordsOK(f, a) /\ RecordsOK(f, b)
    BY <1>8, <1>24
  <2> HIDE DEF a, b
  <2>2. RecordsOK(f, a)' /\ RecordsOK(f, b)'
    BY <1>6, <1>27, <2>1, RecordsStay
  <2> QED BY <1>25, <2>2 DEF RecordsInv, RecordsOK, a, b
<1>34. decrypted'[e] > 0 => fsm'[e] \in {"Completing", "Finished"}
  BY <1>5, <1>6 DEF OwnInv
<1>35. e = "server" => ServerInv' /\ (Msg("server", 6) \in cache'["server"] => fsm'["server"] \in {"Completing", "Finished"})
  <2> SUFFICES ASSUME e = "server"
               PROVE  ServerInv' /\ (Msg("server", 6) \in cache'["server"] => fsm'["server"] \in {"Completing", "Finished"})
    OBVIOUS
  <2>1. ServerInv /\ f = "client"
    BY Ends DEF IInv
  <2>2. LateOnly(c.encrypted_packets) /\ (c.reader = "drain" => LateOnly(c.rest))
    BY <1>5, <1>24, <2>1, HandlingFacts DEF ServerInv
  <2>3. LateOnly(ctx'["server"].encrypted_packets) /\ (c.reader = "drain" => LateOnly(ctx'["server"].rest))
    BY <1>25, <2>2
  <2>4. fsm["server"] = "Draining" => h >= 4 /\ (h >= 5 => g >= 5)
    <3> SUFFICES ASSUME fsm["server"] = "Draining" PROVE h >= 4 /\ (h >= 5 => g >= 5)
      OBVIOUS
    <3>1. g >= 4 /\ ctx[e].reader = "drain" /\ LateOnly(ctx[e].rest)
      BY <1>5, <2>1 DEF ServerInv, Handling, g
    <3>2. r.epoch = 1
      <4>1. 1 \in 1 .. Len(ctx[e].rest)
        BY <1>8
      <4> QED BY <1>5, <1>8, <3>1, <4>1 DEF LateOnly, IsHandshake, HandshakeType
    <3>3. m0.seq = 5
      BY <1>9, <1>11, <2>1, <3>2 DEF EpochOf, LastOf
    <3>4. ASSUME h >= 5, g < 5 PROVE FALSE
      <4>1. g = 4 /\ 4 \in g .. h - 1
        BY <1>17, <3>1, <3>4
      <4>2. PICK m \in frags : m.seq = 4
        BY <1>16, <4>1
      <4> QED BY <1>13, <3>3, <4>1, <4>2 DEF g
    <3> QED BY <1>17, <3>1, <3>4
  <2>5. ServerInv'
    BY <1>5, <1>24, <1>25, <1>27, <2>1, <2>3, <2>4 DEF ServerInv, g
  <2>6. Msg("server", 6) \in cache'["server"] => fsm'["server"] \in {"Completing", "Finished"}
    <3>1. 6 \in Number("server")
      BY Numbers
    <3> QED BY <1>5, <1>6, <1>23, <3>1 DEF OwnInv
  <2> QED BY <2>5, <2>6
<1>36. e = "client" => ClientInv' /\ (fsm'["client"] \in {"Completing", "Finished"} => Got("client")' = 7)
  <2> SUFFICES ASSUME e = "client" PROVE ClientInv' /\ (fsm'["client"] \in {"Completing", "Finished"} => h = 7)
    BY <1>27
  <2>1. ClientInv /\ f = "server" /\ LastOf(f) = 6
    BY Ends DEF IInv, LastOf
  <2>2. Whole(c.rest) /\ c.reader = "records"
    BY <1>5, <1>24, <2>1, HandlingFacts DEF ClientInv, Handling
  <2>3. fsm["client"] \in {"Completing", "Finished"} => h = 7
    BY <1>6, <1>17, <2>1 DEF OwnInv, g
  <2>4. flight["client"] = "Flight1" => h >= 1
    <3> SUFFICES ASSUME flight["client"] = "Flight1", h = 0 PROVE FALSE
      BY <1>17
    <3>1. r.seq \in 1 .. 6
      <4>1. r.seq \in 0 .. 6 /\ r.seq # 0
        BY <1>2, <1>11, <1>15, <1>16
      <4> QED BY <4>1
    <3>2. Msg("server", r.seq) \in cache["server"]
      BY <1>9, <2>1
    <3>3. Msg("client", 1) \in cache["client"]
      BY <3>1, <3>2, Order
    <3>4. 1 < state["client"].handshake_send_sequence
      BY <3>3, Holds
    <3>5. state["client"].handshake_send_sequence \in {0, 1}
      BY <1>6 DEF OwnInv, NumbersInv, FirstOf, NextOf
    <3> QED BY <3>4, <3>5
  <2>5. state["client"].remote_epoch = 1 /\ fsm["client"] \notin {"Completing", "Finished"} =>
          h = 7 /\ c.reader = "records" /\ c.rest = <<>> /\ c.has_handshake
    <3> SUFFICES ASSUME state["client"].remote_epoch = 1, fsm["client"] \notin {"Completing", "Finished"}
                 PROVE  h = 7 /\ c.reader = "records" /\ c.rest = <<>> /\ c.has_handshake
      OBVIOUS
    <3>1. Len(ctx["client"].rest) = 1 /\ r.seq = 6 /\ ctx["client"].reader = "records"
      BY <1>5, FinishedAtHand DEF r
    <3>2. Len(Tail(ctx["client"].rest)) = 0
      BY <1>8, <3>1, TailStays
    <3>3. c.rest = <<>>
      <4>1. c.rest \in Seq(RecordType) /\ Len(c.rest) = 0
        BY <1>8, <1>24, <3>2
      <4> QED BY <4>1, EmptySeq
    <3>4. Msg("server", 6) \in cache["server"]
      BY <1>9, <2>1, <3>1
    <3>5. Got("client") >= 6
      BY <3>4, Order
    <3>6. h # 6
      BY <1>2, <1>11, <1>16, <3>1
    <3>7. h = 7
      BY <1>10, <1>17, <2>1, <3>5, <3>6 DEF g
    <3> QED BY <1>24, <2>2, <3>1, <3>3, <3>7
  <2>6. Whole(ctx'["client"].rest)
    BY <1>25, <2>2
  <2>7. ClientInv'
    BY <1>5, <1>25, <1>27, <2>1, <2>2, <2>4, <2>5, <2>6 DEF ClientInv
  <2> QED BY <1>5, <2>3, <2>7
<1>37. OwnInv(e)'
  BY <1>28, <1>29, <1>30, <1>31, <1>32, <1>33, <1>34, <1>35, <1>36 DEF OwnInv
<1>38. NetInv'
  <2>1. PICK ds : ds = {}
    OBVIOUS
  <2>2. /\ net' \subseteq net \cup ds
        /\ \A d \in ds : d.to = Peer(e) /\ RecordsOK(e, d.recs)' /\ (e = "server" => Whole(d.recs))
    BY <1>5, <2>1
  <2> QED BY <1>27, <2>2, NetStep
<1> QED BY <1>26, <1>27, <1>37, <1>38, StepOfOne

-----------------------------------------------------------------------------
(***************************************************************************)
(* send: the flight goes into the cache and onto the network.              *)
(***************************************************************************)

(* The numbers of the messages of a flight. *)
LEMMA FlightRange ==
    ASSUME NEW e \in End, RolesInv(e)
    PROVE  /\ FirstOf(flight[e]) \in Nat /\ NextOf(flight[e]) \in Nat
           /\ \A n \in FirstOf(flight[e]) .. NextOf(flight[e]) - 1 : n \in Number(e) /\ n \in Nat
           /\ LastOf(e) \in FirstOf(flight[e]) .. NextOf(flight[e]) - 1
                <=> flight[e] \in {"Flight5", "Flight6"}
           /\ e = "server" /\ flight[e] # "Flight6" => NextOf(flight[e]) <= 6
<1>1. CASE e = "client"
  <2>1. flight[e] \in {"Flight1", "Flight3", "Flight5"}
    BY <1>1 DEF RolesInv
  <2>2. Number(e) = 0 .. 5 /\ LastOf(e) = 5
    BY <1>1 DEF Number, LastOf
  <2> QED BY <1>1, <2>1, <2>2 DEF FirstOf, NextOf
<1>2. CASE e = "server"
  <2>1. flight[e] \in {"Flight0", "Flight2", "Flight4", "Flight6"}
    BY <1>2 DEF RolesInv
  <2>2. Number(e) = 0 .. 6 /\ LastOf(e) = 6
    BY <1>2 DEF Number, LastOf
  <2> QED BY <1>2, <2>1, <2>2 DEF FirstOf, NextOf
<1> QED BY <1>1, <1>2, Ends

(* The packets of a flight are its messages, and the ChangeCipherSpec. *)
LEMMA PacketsOf ==
    ASSUME IInv, NEW e \in End, fsm[e] = "Sending"
    PROVE  LET own == {Cached(e, flights[e][i]) :
                         i \in {j \in 1 .. Len(flights[e]) : IsHandshake(flights[e][j])}}
           IN  /\ \A m \in own : \E n \in FirstOf(flight[e]) .. NextOf(flight[e]) - 1 : m = Msg(e, n)
               /\ \A n \in FirstOf(flight[e]) .. NextOf(flight[e]) - 1 : Msg(e, n) \in own
<1> DEFINE range == FirstOf(flight[e]) .. NextOf(flight[e]) - 1
<1>1. RolesInv(e) /\ FlightsInv(e)
  BY EndFacts DEF EndInv
<1>2. \A n \in range : n \in Number(e)
  BY <1>1, FlightRange
<1>3. /\ \A i \in 1 .. Len(flights[e]) : flights[e][i] = CCS \/ \E n \in range : flights[e][i] = Pkt(e, n)
      /\ \A n \in range : \E i \in 1 .. Len(flights[e]) : flights[e][i] = Pkt(e, n)
  BY <1>1 DEF FlightsInv
<1>4. ~IsHandshake(CCS)
  BY DEF IsHandshake, HandshakeType, CCS, Packet
<1>5. \A n \in range : IsHandshake(Pkt(e, n)) /\ Cached(e, Pkt(e, n)) = Msg(e, n)
  BY <1>2, MsgType DEF IsHandshake
<1> HIDE DEF range
<1>6. ASSUME NEW i \in 1 .. Len(flights[e]), IsHandshake(flights[e][i])
      PROVE  \E n \in range : Cached(e, flights[e][i]) = Msg(e, n)
  <2>1. PICK n \in range : flights[e][i] = Pkt(e, n)
    BY <1>3, <1>4, <1>6
  <2> QED BY <1>5, <2>1
<1>7. ASSUME NEW n \in range
      PROVE  \E i \in 1 .. Len(flights[e]) : IsHandshake(flights[e][i]) /\ Cached(e, flights[e][i]) = Msg(e, n)
  <2>1. PICK i \in 1 .. Len(flights[e]) : flights[e][i] = Pkt(e, n)
    BY <1>3, <1>7
  <2> QED BY <1>5, <1>7, <2>1
<1> QED BY <1>6, <1>7 DEF range

(* Send. *)
LEMMA SendKeeps ==
    ASSUME IInv, NEW e \in End, Send(e)
    PROVE  IInv'
<1> DEFINE first == FirstOf(flight[e])
           next == NextOf(flight[e])
           last == LastOf(e)
           f == Peer(e)
<1>1. PICK own : own = {Cached(e, flights[e][i]) :
                          i \in {j \in 1 .. Len(flights[e]) : IsHandshake(flights[e][j])}}
  OBVIOUS
<1>2. PICK ds : ds = Datagrams(e, flights[e])
  OBVIOUS
<1>3. /\ fsm[e] = "Sending"
      /\ fsm' = [fsm EXCEPT ![e] = IF flight[e] = "Flight6" THEN "Completing" ELSE "Waiting"]
      /\ cache' = [cache EXCEPT ![e] = Push(e, own)]
      /\ Transmit(ds)
      /\ UNCHANGED <<flight, flights, state, ctx, decrypted, closed>>
  BY <1>1, <1>2 DEF Send, Sent
<1>4. /\ f # e /\ f \in End /\ OwnInv(e) /\ Peer(f) = e /\ flights[e] \in Seq(PacketType)
      /\ cache \in [End -> SUBSET MessageType] /\ TypeOK
      /\ fsm \in [End -> {"Preparing", "Sending", "Waiting", "Draining", "Completing", "Finished", "Failed"}]
  BY Ends, OwnFacts, EndTypes, TypeIs DEF IInv
<1>5. /\ \A m \in own : \E n \in first .. next - 1 : m = Msg(e, n)
      /\ \A n \in first .. next - 1 : Msg(e, n) \in own
  BY <1>1, <1>3, PacketsOf
<1>6. /\ first \in Nat /\ next \in Nat
      /\ \A n \in first .. next - 1 : n \in Number(e) /\ n \in Nat
      /\ last \in first .. next - 1 <=> flight[e] \in {"Flight5", "Flight6"}
      /\ e = "server" /\ flight[e] # "Flight6" => next <= 6
  BY <1>4, FlightRange DEF OwnInv
<1> HIDE DEF first, next, last, f
<1>7. own \subseteq Script /\ own \subseteq MessageType /\ \A m \in own : m.from = e
  BY <1>5, <1>6, ScriptIs, MsgType
<1>8. Push(e, own) = cache[e] \cup own
  BY <1>7, EndFacts, PushIs
<1>9. /\ cache'[e] = cache[e] \cup own /\ cache'[f] = cache[f]
      /\ cache' \in [End -> SUBSET MessageType]
  BY <1>3, <1>4, <1>7, <1>8
<1>10. /\ fsm'[e] = (IF flight[e] = "Flight6" THEN "Completing" ELSE "Waiting") /\ fsm'[f] = fsm[f]
       /\ fsm' \in [End -> {"Preparing", "Sending", "Waiting", "Draining", "Completing", "Finished", "Failed"}]
  BY <1>3, <1>4
<1>11. net' \subseteq net \cup ds
  BY <1>3, Transmitted
<1>12. net' \in SUBSET [to : End, recs : Seq(RecordType)]
  <2>1. ds \subseteq [to : End, recs : Seq(RecordType)]
    BY <1>2, <1>4, DatagramsType
  <2> QED BY <1>4, <1>11, <2>1, TypeIs
<1>13. TypeOK'
  BY <1>3, <1>4, <1>9, <1>10, <1>12 DEF TypeOK
<1>14. OtherSame(e) /\ Progress(e) /\ Progress(f) /\ Got(e)' = Got(e)
  BY <1>3, <1>9, <1>10 DEF OtherSame, Progress, Got, f
<1>15. RolesInv(e)'
  BY <1>3, <1>4, <1>10 DEF OwnInv, RolesInv
<1>16. state[e].handshake_send_sequence = next /\ NumbersInv(e)'
  BY <1>3, <1>4, <1>10, <1>14 DEF OwnInv, NumbersInv, next
<1>17. CacheInv(e)'
  <2>1. CacheInv(e)
    BY <1>4 DEF OwnInv
  <2>2. cache'[e] \subseteq Script
    BY <1>7, <1>9, <2>1 DEF CacheInv
  <2>3. ASSUME NEW n \in Number(f) PROVE Msg(f, n) \in cache'[e] <=> n < Got(e)
    <3>1. Msg(f, n).from = f
      BY <1>4, ScriptIs
    <3>2. Msg(f, n) \notin own
      BY <1>4, <1>7, <3>1
    <3> QED BY <1>9, <2>1, <3>2 DEF CacheInv, f
  <2>4. ASSUME NEW n \in Number(e)
        PROVE  /\ Msg(e, n) \in cache'[e] => n < next
               /\ n < next => Msg(e, n) \in cache'[e]
    <3>1. n \in Nat /\ Msg(e, n).seq = n
      BY Tables, ScriptIs
    <3>2. Msg(e, n) \in cache[e] => n < next
      BY <1>16, <2>1 DEF CacheInv
    <3>3. Msg(e, n) \in own => n < next
      <4> SUFFICES ASSUME Msg(e, n) \in own PROVE n < next
        OBVIOUS
      <4>1. PICK k \in first .. next - 1 : Msg(e, n) = Msg(e, k)
        BY <1>5
      <4>2. Msg(e, k).seq = k
        BY <1>6, ScriptIs
      <4> QED BY <1>6, <3>1, <4>1, <4>2
    <3>4. n < first => Msg(e, n) \in cache[e]
      BY <2>1 DEF CacheInv, first
    <3>5. n >= first /\ n < next => Msg(e, n) \in own
      BY <1>5, <1>6, <3>1
    <3> QED BY <1>6, <1>9, <3>1, <3>2, <3>3, <3>4, <3>5
  <2>5. ASSUME NEW n \in Number(e), n < first PROVE Msg(e, n) \in cache'[e]
    BY <1>9, <2>1, <2>5 DEF CacheInv, first
  <2> QED BY <1>3, <1>14, <1>16, <2>2, <2>3, <2>4, <2>5 DEF CacheInv, f, first, next
<1>18. LinkInv(e)'
  BY <1>3, <1>4, <1>9, <1>14 DEF OwnInv, LinkInv, f
<1>19. KeysInv(e)'
  BY <1>3, <1>4, <1>9, <1>10 DEF OwnInv, KeysInv, Initialized, f
<1>20. FlightsInv(e)'
  BY <1>3, <1>4 DEF OwnInv, FlightsInv
<1>21. RecordsInv(e)'
  BY <1>3, <1>4, <1>14, RecordsInvStays DEF OwnInv, f
<1>22. decrypted'[e] > 0 => fsm'[e] \in {"Completing", "Finished"}
  BY <1>3, <1>4 DEF OwnInv
<1>23. e = "server" => ServerInv' /\ (Msg("server", 6) \in cache'["server"] => fsm'["server"] \in {"Completing", "Finished"})
  <2> SUFFICES ASSUME e = "server"
               PROVE  ServerInv' /\ (Msg("server", 6) \in cache'["server"] => fsm'["server"] \in {"Completing", "Finished"})
    OBVIOUS
  <2>1. ServerInv
    BY DEF IInv
  <2>2. ServerInv'
    BY <1>3, <1>10, <1>14, <2>1 DEF ServerInv
  <2>3. flight[e] # "Flight6" => Msg("server", 6) \notin cache'["server"]
    <3> SUFFICES ASSUME flight[e] # "Flight6", Msg("server", 6) \in cache'["server"] PROVE FALSE
      OBVIOUS
    <3>1. 6 \in Number("server")
      BY Numbers
    <3>2. 6 < next
      BY <1>3, <1>16, <1>17, <3>1 DEF CacheInv
    <3> QED BY <1>6, <3>2
  <2> QED BY <1>10, <2>2, <2>3
<1>24. e = "client" => ClientInv' /\ (fsm'["client"] \in {"Completing", "Finished"} => Got("client")' = 7)
  <2> SUFFICES ASSUME e = "client" PROVE ClientInv' /\ (fsm'["client"] \in {"Completing", "Finished"} => Got("client")' = 7)
    OBVIOUS
  <2>1. ClientInv
    BY DEF IInv
  <2>2. fsm'["client"] = "Waiting"
    BY <1>4, <1>10 DEF OwnInv, RolesInv
  <2> QED BY <1>3, <1>14, <2>1, <2>2 DEF ClientInv
<1>25. OwnInv(e)'
  BY <1>15, <1>16, <1>17, <1>18, <1>19, <1>20, <1>21, <1>22, <1>23, <1>24 DEF OwnInv
<1>26. ASSUME NEW d \in ds
       PROVE  d.to = Peer(e) /\ RecordsOK(e, d.recs)' /\ (e = "server" => Whole(d.recs))
  <2>1. /\ d.to = Peer(e)
        /\ \A i \in 1 .. Len(d.recs) : \E j \in 1 .. Len(flights[e]) : d.recs[i] = Sealed(e, flights[e][j])
    BY <1>2, <1>4, <1>26, DatagramsOf
  <2>2. /\ \A i \in 1 .. Len(flights[e]) :
             \/ flights[e][i] = CCS /\ flight[e] \in {"Flight5", "Flight6"}
             \/ \E n \in first .. next - 1 : flights[e][i] = Pkt(e, n)
        /\ flight[e] = "Flight6" => flights[e] = <<CCS, Pkt(e, 6)>>
    BY <1>3, <1>4 DEF OwnInv, FlightsInv, first, next
  <2>3. flight[e] \in {"Flight5", "Flight6"} => state[e].master_secret = Keys
    BY <1>3, <1>4 DEF OwnInv, KeysInv
  <2>4. ASSUME NEW r, r = Sealed(e, CCS), flight[e] \in {"Flight5", "Flight6"}
        PROVE  RecordOK(e, r)'
    <3>1. r.type = "ChangeCipherSpec" /\ r.epoch = 0
      BY <2>4 DEF Sealed, CCS, Packet
    <3>2. Msg(e, last) \in cache'[e]
      BY <1>5, <1>6, <1>9, <2>4
    <3> QED BY <3>1, <3>2 DEF RecordOK, IsHandshake, HandshakeType, last
  <2>5. ASSUME NEW n \in first .. next - 1, NEW r, r = Sealed(e, Pkt(e, n))
        PROVE  RecordOK(e, r)' /\ r.type # "ChangeCipherSpec"
    <3> DEFINE p == Pkt(e, n)
    <3>1. n \in Number(e) /\ p.type \in HandshakeType /\ Cached(e, p) = Msg(e, n) /\ p.epoch = EpochOf(e, n)
      BY <1>6, MsgType DEF Pkt
    <3>2. /\ r.type = p.type /\ r.epoch = p.epoch /\ r.body = p.body /\ r.seq = p.seq
          /\ r.key = IF Encrypted(e, p) THEN state[e].master_secret ELSE {}
      BY <2>5 DEF Sealed
    <3> HIDE DEF p
    <3>3. Cached(e, r) = Msg(e, n)
      BY <3>1, <3>2 DEF Cached
    <3>4. Cached(e, r) \in cache'[e]
      BY <1>5, <1>9, <3>3
    <3>5. r.epoch = 1 => r.key = Keys
      <4> SUFFICES ASSUME r.epoch = 1 PROVE r.key = Keys
        OBVIOUS
      <4>1. n = last
        BY <3>1, <3>2 DEF EpochOf, last
      <4>2. state[e].master_secret = Keys
        BY <1>6, <2>3, <4>1
      <4>3. Encrypted(e, p)
        BY <3>1, <3>2 DEF Encrypted, HandshakeType
      <4> QED BY <3>2, <4>2, <4>3
    <3>6. r.type \in HandshakeType
      BY <3>1, <3>2
    <3> QED BY <3>4, <3>5, <3>6 DEF RecordOK, IsHandshake, HandshakeType, Cached
  <2>6. ASSUME NEW i \in 1 .. Len(d.recs)
        PROVE  RecordOK(e, d.recs[i])' /\ (flight[e] # "Flight6" /\ e = "server" => d.recs[i].type # "ChangeCipherSpec")
    <3>1. PICK j \in 1 .. Len(flights[e]) : d.recs[i] = Sealed(e, flights[e][j])
      BY <2>1
    <3> DEFINE r == d.recs[i]
    <3>2. CASE flights[e][j] = CCS /\ flight[e] \in {"Flight5", "Flight6"}
      <4>1. r = Sealed(e, CCS)
        BY <3>1, <3>2
      <4> HIDE DEF r
      <4>2. RecordOK(e, r)'
        BY <2>4, <3>2, <4>1
      <4>3. e = "server" => flight[e] = "Flight6"
        BY <1>4, <3>2 DEF OwnInv, RolesInv
      <4> QED BY <4>2, <4>3 DEF r
    <3>3. CASE \E n \in first .. next - 1 : flights[e][j] = Pkt(e, n)
      <4>1. PICK n \in first .. next - 1 : flights[e][j] = Pkt(e, n)
        BY <3>3
      <4>2. r = Sealed(e, Pkt(e, n))
        BY <3>1, <4>1
      <4> HIDE DEF r
      <4>3. RecordOK(e, r)' /\ r.type # "ChangeCipherSpec"
        BY <2>5, <4>2
      <4> QED BY <4>3 DEF r
    <3> QED BY <2>2, <3>2, <3>3
  <2>7. e = "server" => Whole(d.recs)
    <3>1. CASE flight[e] = "Flight6"
      <4>1. Len(flights[e]) = 2 /\ flights[e][1] = CCS /\ flights[e][2] = Pkt(e, 6)
        <5>1. ASSUME NEW a, NEW b, NEW s, s = <<a, b>> PROVE Len(s) = 2 /\ s[1] = a /\ s[2] = b
          BY <5>1
        <5>2. flights[e] = <<CCS, Pkt(e, 6)>>
          BY <2>2, <3>1
        <5> QED BY <5>1, <5>2
      <4>2. e = "server"
        BY <1>4, <3>1, Ends DEF OwnInv, RolesInv
      <4>3. flights[e][1].type = "ChangeCipherSpec" /\ flights[e][2].type = "Finished"
        BY <4>1, <4>2 DEF CCS, Packet, Pkt, TypeOf
      <4>4. Len(d.recs) = 2 /\ d.recs[1].type = "ChangeCipherSpec" /\ d.recs[2].type = "Finished"
        BY <1>2, <1>26, <4>1, <4>3, LastFlight
      <4> QED BY <4>4 DEF Whole
    <3>2. CASE flight[e] # "Flight6"
      BY <2>6, <3>2 DEF Whole
    <3> QED BY <3>1, <3>2
  <2> QED BY <2>1, <2>6, <2>7 DEF RecordsOK
<1>27. NetInv'
  BY <1>11, <1>14, <1>26, NetStep
<1> QED BY <1>13, <1>14, <1>25, <1>27, StepOfOne

-----------------------------------------------------------------------------
(***************************************************************************)
(* prepare: each flight is generated as the script has it.                 *)
(***************************************************************************)
WithSeq(p, n) == [p EXCEPT !.seq = n]

Numbered(pkts, first) ==
    [i \in 1 .. Len(pkts) |->
       IF IsHandshake(pkts[i]) THEN WithSeq(pkts[i], first + HandshakesBefore(pkts, i))
       ELSE pkts[i]]

Advanced(st, pkts) ==
    [st EXCEPT !.handshake_send_sequence =
                  st.handshake_send_sequence + HandshakesBefore(pkts, Len(pkts) + 1),
               !.local_epoch = IF \E i \in 1 .. Len(pkts) : pkts[i].epoch = 1 THEN 1 ELSE st.local_epoch]

(* Counting the handshake messages one by one. *)
LEMMA BeforeNext ==
    ASSUME NEW pkts, NEW i \in Nat, i >= 1
    PROVE  /\ HandshakesBefore(pkts, 1) = 0
           /\ HandshakesBefore(pkts, i) \in Nat
           /\ HandshakesBefore(pkts, i + 1)
                = HandshakesBefore(pkts, i) + (IF IsHandshake(pkts[i]) THEN 1 ELSE 0)
<1> DEFINE S(k) == {j \in 1 .. k - 1 : IsHandshake(pkts[j])}
<1>1. HandshakesBefore(pkts, 1) = 0
  <2>1. S(1) = {}
    OBVIOUS
  <2> QED BY <2>1, FS_EmptySet DEF HandshakesBefore
<1>2. IsFiniteSet(S(i)) /\ Cardinality(S(i)) \in Nat
  <2>1. i - 1 \in Int /\ 1 \in Int
    OBVIOUS
  <2>2. IsFiniteSet(1 .. i - 1)
    BY <2>1, FS_Interval
  <2>3. S(i) \subseteq 1 .. i - 1
    OBVIOUS
  <2>4. IsFiniteSet(S(i))
    BY <2>2, <2>3, FS_Subset
  <2> QED BY <2>4, FS_CardinalityType
<1>3. CASE IsHandshake(pkts[i])
  <2>1. S(i + 1) = S(i) \cup {i} /\ i \notin S(i)
    BY <1>3
  <2> DEFINE T == S(i)
  <2>2. IsFiniteSet(T) /\ i \notin T
    BY <1>2, <2>1
  <2> HIDE DEF T
  <2>3. Cardinality(T \cup {i}) = Cardinality(T) + 1
    BY <2>2, FS_AddElement
  <2> QED BY <1>1, <1>2, <1>3, <2>1, <2>3 DEF HandshakesBefore, T
<1>4. CASE ~IsHandshake(pkts[i])
  <2>1. S(i + 1) = S(i)
    BY <1>4
  <2> QED BY <1>1, <1>2, <1>4, <2>1 DEF HandshakesBefore
<1> QED BY <1>3, <1>4

(* The first six of these numbers. *)
LEMMA Before ==
    ASSUME NEW pkts
    PROVE  /\ HandshakesBefore(pkts, 1) = 0
           /\ \A i \in 1 .. 5 : /\ HandshakesBefore(pkts, i) \in Nat
                                /\ IsHandshake(pkts[i]) => HandshakesBefore(pkts, i + 1) = HandshakesBefore(pkts, i) + 1
                                /\ ~IsHandshake(pkts[i]) => HandshakesBefore(pkts, i + 1) = HandshakesBefore(pkts, i)
<1>1. 1 \in Nat /\ 1 >= 1
  OBVIOUS
<1>2. HandshakesBefore(pkts, 1) = 0
  BY <1>1, BeforeNext
<1>3. ASSUME NEW i \in 1 .. 5
      PROVE  /\ HandshakesBefore(pkts, i) \in Nat
             /\ IsHandshake(pkts[i]) => HandshakesBefore(pkts, i + 1) = HandshakesBefore(pkts, i) + 1
             /\ ~IsHandshake(pkts[i]) => HandshakesBefore(pkts, i + 1) = HandshakesBefore(pkts, i)
  <2>1. i \in Nat /\ i >= 1
    OBVIOUS
  <2>2. /\ HandshakesBefore(pkts, i) \in Nat
        /\ HandshakesBefore(pkts, i + 1)
             = HandshakesBefore(pkts, i) + (IF IsHandshake(pkts[i]) THEN 1 ELSE 0)
    BY <2>1, BeforeNext
  <2> QED BY <2>2
<1> QED BY <1>2, <1>3

(* A packet with a number. *)
LEMMA NumberedPacket ==
    ASSUME NEW e \in End, NEW n \in Number(e), NEW p,
           p = Packet(TypeOf(e, n), EpochOf(e, n), BodyOf(e, n))
    PROVE  IsHandshake(p) /\ WithSeq(p, n) = Pkt(e, n)
<1>1. TypeOf(e, n) \in HandshakeType
  BY Tables
<1> QED BY <1>1 DEF IsHandshake, Packet, Pkt, WithSeq

(* A flight of one message. *)
LEMMA NumberedOne ==
    ASSUME NEW e \in End, NEW n \in Number(e), NEW p,
           p = Packet(TypeOf(e, n), EpochOf(e, n), BodyOf(e, n))
    PROVE  Numbered(<<p>>, n) = <<Pkt(e, n)>> /\ HandshakesBefore(<<p>>, 2) = 1
<1>1. IsHandshake(p) /\ WithSeq(p, n) = Pkt(e, n) /\ n \in Nat
  BY NumberedPacket, Tables
<1>2. PICK pkts : pkts = <<p>>
  OBVIOUS
<1>3. Len(pkts) = 1 /\ pkts[1] = p /\ 1 .. 1 = {1}
  BY <1>2
<1>4. HandshakesBefore(pkts, 1) = 0 /\ HandshakesBefore(pkts, 1 + 1) = HandshakesBefore(pkts, 1) + 1
  BY <1>1, <1>3, Before
<1>5. Numbered(pkts, n) = [i \in 1 .. 1 |-> Pkt(e, n)]
  <2>1. n + HandshakesBefore(pkts, 1) = n
    BY <1>1, <1>4
  <2> QED BY <1>1, <1>3, <2>1 DEF Numbered
<1>6. [i \in 1 .. 1 |-> Pkt(e, n)] = <<Pkt(e, n)>>
  OBVIOUS
<1> QED BY <1>2, <1>4, <1>5, <1>6

(* Five packets, of which the fourth may be a ChangeCipherSpec. *)
LEMMA NumberedFive ==
    ASSUME NEW pkts, Len(pkts) = 5, NEW first \in Nat,
           IsHandshake(pkts[1]), IsHandshake(pkts[2]), IsHandshake(pkts[3]), IsHandshake(pkts[5])
    PROVE  /\ Len(Numbered(pkts, first)) = 5
           /\ Numbered(pkts, first)[1] = WithSeq(pkts[1], first)
           /\ Numbered(pkts, first)[2] = WithSeq(pkts[2], first + 1)
           /\ Numbered(pkts, first)[3] = WithSeq(pkts[3], first + 2)
           /\ IsHandshake(pkts[4]) =>
                /\ Numbered(pkts, first)[4] = WithSeq(pkts[4], first + 3)
                /\ Numbered(pkts, first)[5] = WithSeq(pkts[5], first + 4)
                /\ HandshakesBefore(pkts, 6) = 5
           /\ ~IsHandshake(pkts[4]) =>
                /\ Numbered(pkts, first)[4] = pkts[4]
                /\ Numbered(pkts, first)[5] = WithSeq(pkts[5], first + 3)
                /\ HandshakesBefore(pkts, 6) = 4
<1> DEFINE B(i) == HandshakesBefore(pkts, i)
<1>1. /\ B(1) = 0 /\ B(2) = 1 /\ B(3) = 2 /\ B(4) = 3
      /\ IsHandshake(pkts[4]) => B(5) = 4 /\ B(6) = 5
      /\ ~IsHandshake(pkts[4]) => B(5) = 3 /\ B(6) = 4
  <2>1. B(1) = 0 /\ B(1 + 1) = B(1) + 1
    BY Before
  <2>2. B(2) \in Nat /\ B(2 + 1) = B(2) + 1
    BY Before
  <2>3. B(3) \in Nat /\ B(3 + 1) = B(3) + 1
    BY Before
  <2>4. /\ B(4) \in Nat
        /\ IsHandshake(pkts[4]) => B(4 + 1) = B(4) + 1
        /\ ~IsHandshake(pkts[4]) => B(4 + 1) = B(4)
    BY Before
  <2>5. B(5) \in Nat /\ B(5 + 1) = B(5) + 1
    BY Before
  <2> HIDE DEF B
  <2> QED BY <2>1, <2>2, <2>3, <2>4, <2>5
<1>2. /\ Numbered(pkts, first) =
           [i \in 1 .. 5 |-> IF IsHandshake(pkts[i]) THEN WithSeq(pkts[i], first + B(i)) ELSE pkts[i]]
      /\ first + 0 = first
  BY DEF Numbered
<1>3. PICK ns : ns = Numbered(pkts, first)
  OBVIOUS
<1> HIDE DEF B
<1>4. /\ Len(ns) = 5
      /\ ns[1] = WithSeq(pkts[1], first) /\ ns[2] = WithSeq(pkts[2], first + 1)
      /\ ns[3] = WithSeq(pkts[3], first + 2)
      /\ IsHandshake(pkts[4]) => /\ ns[4] = WithSeq(pkts[4], first + 3)
                                 /\ ns[5] = WithSeq(pkts[5], first + 4)
      /\ ~IsHandshake(pkts[4]) => /\ ns[4] = pkts[4]
                                  /\ ns[5] = WithSeq(pkts[5], first + 3)
  BY <1>1, <1>2, <1>3
<1> QED BY <1>1, <1>3, <1>4 DEF B

(* Flight 6. *)
LEMMA NumberedTwo ==
    ASSUME NEW p1, NEW p2, NEW first \in Nat, ~IsHandshake(p1), IsHandshake(p2)
    PROVE  /\ Numbered(<<p1, p2>>, first) = <<p1, WithSeq(p2, first)>>
           /\ HandshakesBefore(<<p1, p2>>, 3) = 1
<1>1. PICK pkts : pkts = <<p1, p2>>
  OBVIOUS
<1>2. Len(pkts) = 2 /\ pkts[1] = p1 /\ pkts[2] = p2
  BY <1>1
<1>3. HandshakesBefore(pkts, 1) = 0 /\ HandshakesBefore(pkts, 1 + 1) = HandshakesBefore(pkts, 1)
  BY <1>2, Before
<1>4. HandshakesBefore(pkts, 2 + 1) = HandshakesBefore(pkts, 2) + 1
  BY <1>2, Before
<1>5. HandshakesBefore(pkts, 2) = 0 /\ HandshakesBefore(pkts, 3) = 1
  BY <1>3, <1>4
<1>6. PICK ns : ns = Numbered(pkts, first)
  OBVIOUS
<1>7. PICK q : q = WithSeq(p2, first)
  OBVIOUS
<1>8. first + 0 = first
  OBVIOUS
<1>9. ns = [i \in 1 .. 2 |-> IF i = 1 THEN p1 ELSE q]
  BY <1>2, <1>5, <1>6, <1>7, <1>8 DEF Numbered
<1>10. ns = <<p1, q>>
  BY <1>9
<1> QED BY <1>1, <1>5, <1>6, <1>7, <1>10

(* What prepare does with what a flight generates. *)
LEMMA PreparedIs ==
    ASSUME NEW e, Prepare(e), NEW st, NEW pkts, Generate(e) = Generated(st, pkts)
    PROVE  /\ fsm[e] = "Preparing" /\ fsm' = [fsm EXCEPT ![e] = "Sending"]
           /\ UNCHANGED <<flight, cache, ctx, decrypted, closed, net>>
           /\ flights' = [flights EXCEPT ![e] = Numbered(pkts, st.handshake_send_sequence)]
           /\ state' = [state EXCEPT ![e] = Advanced(st, pkts)]
<1>1. Generate(e).st = st /\ Generate(e).pkts = pkts
  BY DEF Generated
<1> QED BY <1>1 DEF Prepare, Numbered, Advanced, WithSeq

(* A flight that is prepared as the script has it. *)
LEMMA PrepareStep ==
    ASSUME IInv, NEW e \in End, fsm[e] = "Preparing", fsm' = [fsm EXCEPT ![e] = "Sending"],
           UNCHANGED <<flight, cache, ctx, decrypted, closed, net>>,
           NEW fl \in Seq(PacketType), flights' = [flights EXCEPT ![e] = fl],
           NEW s \in StateType, state' = [state EXCEPT ![e] = s],
           s.handshake_send_sequence = NextOf(flight[e]),
           s.handshake_recv_sequence = state[e].handshake_recv_sequence,
           s.cipher_suite = "initialized" => s.master_secret = Keys,
           Initialized(e) \/ flight[e] = "Flight5" => s.cipher_suite = "initialized",
           flight[e] \in {"Flight5", "Flight6"} => s.local_epoch = 1,
           s.remote_epoch = 1 => state[e].remote_epoch = 1,
           flight[e] \in {"Flight0", "Flight2", "Flight3", "Flight4", "Flight5", "Flight6"}
             => s.cookie = Cookie,
           s.verified = state[e].verified,
           \A i \in 1 .. Len(fl) :
             \/ fl[i] = CCS /\ flight[e] \in {"Flight5", "Flight6"}
             \/ \E n \in FirstOf(flight[e]) .. NextOf(flight[e]) - 1 : fl[i] = Pkt(e, n),
           \A n \in FirstOf(flight[e]) .. NextOf(flight[e]) - 1 : \E i \in 1 .. Len(fl) : fl[i] = Pkt(e, n),
           flight[e] = "Flight6" => fl = <<CCS, Pkt(e, 6)>>
    PROVE  IInv'
<1>1. /\ Peer(e) # e /\ Peer(e) \in End /\ OwnInv(e) /\ TypeOK
      /\ state \in [End -> StateType] /\ flights \in [End -> Seq(PacketType)]
      /\ fsm \in [End -> {"Preparing", "Sending", "Waiting", "Draining", "Completing", "Finished", "Failed"}]
  BY Ends, OwnFacts, TypeIs DEF IInv
<1>2. /\ state'[e] = s /\ state'[Peer(e)] = state[Peer(e)] /\ state' \in [End -> StateType]
      /\ flights'[e] = fl /\ flights'[Peer(e)] = flights[Peer(e)]
      /\ flights' \in [End -> Seq(PacketType)]
      /\ fsm'[e] = "Sending" /\ fsm'[Peer(e)] = fsm[Peer(e)]
      /\ fsm' \in [End -> {"Preparing", "Sending", "Waiting", "Draining", "Completing", "Finished", "Failed"}]
  BY <1>1
<1>3. TypeOK'
  BY <1>1, <1>2 DEF TypeOK, StateType
<1>4. OtherSame(e) /\ Progress(e) /\ Progress(Peer(e)) /\ Got(e)' = Got(e)
  BY <1>2 DEF OtherSame, Progress, Got
<1>5. RolesInv(e)'
  BY <1>1, <1>2 DEF OwnInv, RolesInv
<1>6. NumbersInv(e)'
  BY <1>1, <1>2, <1>4 DEF OwnInv, NumbersInv
<1>7. CacheInv(e)'
  <2>1. CacheInv(e) /\ NumbersInv(e)
    BY <1>1 DEF OwnInv
  <2>2. /\ state[e].handshake_send_sequence \in Nat /\ NextOf(flight[e]) \in Nat
        /\ state[e].handshake_send_sequence <= NextOf(flight[e])
    BY <2>1 DEF NumbersInv, FirstOf, NextOf
  <2>3. ASSUME NEW n \in Number(e), Msg(e, n) \in cache[e] PROVE n < s.handshake_send_sequence
    <3>1. n \in Nat /\ n < state[e].handshake_send_sequence
      BY <2>1, <2>3, Tables DEF CacheInv
    <3> QED BY <2>2, <3>1
  <2> QED BY <1>2, <1>4, <2>1, <2>3 DEF CacheInv
<1>8. LinkInv(e)'
  BY <1>1, <1>4 DEF OwnInv, LinkInv
<1>9. KeysInv(e)'
  <2>1. KeysInv(e)
    BY <1>1 DEF OwnInv
  <2>2. Initialized(e)' <=> s.cipher_suite = "initialized"
    BY <1>2 DEF Initialized
  <2> QED BY <1>2, <2>1, <2>2 DEF KeysInv
<1>10. FlightsInv(e)'
  BY <1>2 DEF FlightsInv
<1>11. RecordsInv(e)'
  BY <1>1, <1>4, RecordsInvStays DEF OwnInv
<1>12. decrypted'[e] > 0 => fsm'[e] \in {"Completing", "Finished"}
  BY <1>1 DEF OwnInv
<1>13. e = "server" => ServerInv' /\ (Msg("server", 6) \in cache'["server"] => fsm'["server"] \in {"Completing", "Finished"})
  <2> SUFFICES ASSUME e = "server" PROVE ServerInv'
    BY <1>1 DEF OwnInv
  <2>1. ServerInv
    BY DEF IInv
  <2> QED BY <1>2, <1>4, <2>1 DEF ServerInv
<1>14. e = "client" => ClientInv' /\ (fsm'["client"] \in {"Completing", "Finished"} => Got("client")' = 7)
  <2> SUFFICES ASSUME e = "client" PROVE ClientInv'
    BY <1>2
  <2>1. ClientInv
    BY DEF IInv
  <2> QED BY <1>2, <1>4, <2>1 DEF ClientInv
<1>15. OwnInv(e)'
  BY <1>5, <1>6, <1>7, <1>8, <1>9, <1>10, <1>11, <1>12, <1>13, <1>14 DEF OwnInv
<1>16. NetInv'
  <2>1. PICK ds : ds = {}
    OBVIOUS
  <2>2. /\ net' \subseteq net \cup ds
        /\ \A d \in ds : d.to = Peer(e) /\ RecordsOK(e, d.recs)' /\ (e = "server" => Whole(d.recs))
    BY <2>1
  <2> QED BY <1>4, <2>2, NetStep
<1> QED BY <1>3, <1>4, <1>15, <1>16, StepOfOne

(* The facts of an end that prepares a flight. *)
LEMMA PreparingFacts ==
    ASSUME IInv, NEW e \in End, fsm[e] = "Preparing"
    PROVE  /\ state[e] \in StateType
           /\ flight[e] # "Flight2" => state[e].handshake_send_sequence = FirstOf(flight[e])
           /\ Initialized(e) => state[e].master_secret = Keys
           /\ flight[e] \in {"Flight2", "Flight3", "Flight4", "Flight5", "Flight6"} => state[e].cookie = Cookie
           /\ flight[e] = "Flight6" => Initialized(e)
           /\ flight[e] \in {"Flight1", "Flight3", "Flight5"} => e = "client"
           /\ flight[e] \in {"Flight0", "Flight2", "Flight4", "Flight6"} => e = "server"
BY EndFacts, EndTypes DEF EndInv, NumbersInv, KeysInv, RolesInv, End

Reset(s, ck) == [s EXCEPT !.cookie = ck, !.local_epoch = 0, !.remote_epoch = 0]

(* generate of Flights 0 and 1 starts the connection anew. *)
LEMMA StateReset ==
    ASSUME NEW s \in StateType, NEW ck \in SUBSET Identity, NEW st, st = Reset(s, ck)
    PROVE  /\ st \in StateType /\ st.handshake_send_sequence = s.handshake_send_sequence
           /\ st.local_epoch = 0 /\ st.remote_epoch = 0 /\ st.cookie = ck /\ st.verified = s.verified
           /\ st.cipher_suite = s.cipher_suite /\ st.master_secret = s.master_secret
           /\ st.handshake_recv_sequence = s.handshake_recv_sequence
<1>1. PICK a : a = [s EXCEPT !.cookie = ck]
  OBVIOUS
<1>2. PICK b : b = [a EXCEPT !.local_epoch = 0]
  OBVIOUS
<1>3. /\ a \in StateType /\ a.handshake_send_sequence = s.handshake_send_sequence
      /\ a.cookie = ck /\ a.verified = s.verified
      /\ a.cipher_suite = s.cipher_suite /\ a.master_secret = s.master_secret
      /\ a.handshake_recv_sequence = s.handshake_recv_sequence
  BY <1>1 DEF StateType
<1>4. /\ b \in StateType /\ b.handshake_send_sequence = s.handshake_send_sequence
      /\ b.cookie = ck /\ b.verified = s.verified /\ b.local_epoch = 0
      /\ b.cipher_suite = s.cipher_suite /\ b.master_secret = s.master_secret
      /\ b.handshake_recv_sequence = s.handshake_recv_sequence
  BY <1>2, <1>3 DEF StateType
<1>5. st = [b EXCEPT !.remote_epoch = 0]
  BY <1>1, <1>2 DEF StateType, Reset
<1> QED BY <1>4, <1>5 DEF StateType

(* Flight 0 has no packets. *)
LEMMA PrepareFlight0 ==
    ASSUME IInv, NEW e \in End, Prepare(e), flight[e] = "Flight0"
    PROVE  IInv'
<1>1. fsm[e] = "Preparing"
  BY DEF Prepare
<1>2. PICK st : st = Reset(state[e], Cookie)
  OBVIOUS
<1>3. PICK pkts : pkts = <<>>
  OBVIOUS
<1>4. /\ state[e] \in StateType /\ e = "server" /\ state[e].handshake_send_sequence = 0
      /\ Initialized(e) => state[e].master_secret = Keys
  BY <1>1, PreparingFacts DEF FirstOf
<1>5. Generate(e) = Generated(st, pkts)
  BY <1>2, <1>3, <1>4 DEF Generate, Generate0, Cookie, Reset
<1>6. /\ st \in StateType /\ st.handshake_send_sequence = 0 /\ st.local_epoch = 0 /\ st.remote_epoch = 0
      /\ st.cookie = Cookie /\ st.verified = state[e].verified
      /\ st.cipher_suite = state[e].cipher_suite /\ st.master_secret = state[e].master_secret
      /\ st.handshake_recv_sequence = state[e].handshake_recv_sequence
  BY <1>2, <1>4, Bodies, StateReset
<1>7. Len(pkts) = 0 /\ 1 .. 0 = {} /\ HandshakesBefore(pkts, 1) = 0 /\ pkts \in Seq(PacketType)
  <2>1. <<>> \in Seq(PacketType) /\ Len(<<>>) = 0
    OBVIOUS
  <2>2. HandshakesBefore(pkts, 1) = 0
    BY Before
  <2> QED BY <1>3, <2>1, <2>2
<1>8. Numbered(pkts, 0) = pkts
  BY <1>3, <1>7 DEF Numbered
<1>9. Advanced(st, pkts) = st
  <2>1. 0 + HandshakesBefore(pkts, Len(pkts) + 1) = 0
    BY <1>7
  <2>2. (IF \E i \in 1 .. Len(pkts) : pkts[i].epoch = 1 THEN 1 ELSE st.local_epoch) = 0
    BY <1>6, <1>7
  <2> QED BY <1>6, <2>1, <2>2 DEF StateType, Advanced
<1>10. /\ fsm' = [fsm EXCEPT ![e] = "Sending"]
       /\ UNCHANGED <<flight, cache, ctx, decrypted, closed, net>>
       /\ flights' = [flights EXCEPT ![e] = pkts]
       /\ state' = [state EXCEPT ![e] = st]
  <2> DEFINE t == Advanced(st, pkts)
             ns == Numbered(pkts, st.handshake_send_sequence)
  <2>1. /\ fsm' = [fsm EXCEPT ![e] = "Sending"]
        /\ UNCHANGED <<flight, cache, ctx, decrypted, closed, net>>
        /\ flights' = [flights EXCEPT ![e] = ns]
        /\ state' = [state EXCEPT ![e] = t]
    BY <1>5, PreparedIs
  <2>2. ns = pkts /\ t = st
    BY <1>6, <1>8, <1>9
  <2> HIDE DEF ns, t
  <2> QED BY <2>1, <2>2
<1>11. FirstOf(flight[e]) = 0 /\ NextOf(flight[e]) = 0 /\ 0 .. 0 - 1 = {}
  BY DEF FirstOf, NextOf
<1>12. /\ \A i \in 1 .. Len(pkts) :
            \/ pkts[i] = CCS /\ flight[e] \in {"Flight5", "Flight6"}
            \/ \E n \in FirstOf(flight[e]) .. NextOf(flight[e]) - 1 : pkts[i] = Pkt(e, n)
       /\ \A n \in FirstOf(flight[e]) .. NextOf(flight[e]) - 1 : \E i \in 1 .. Len(pkts) : pkts[i] = Pkt(e, n)
  BY <1>7, <1>11
<1>13. /\ st.cipher_suite = "initialized" => st.master_secret = Keys
       /\ Initialized(e) \/ flight[e] = "Flight5" => st.cipher_suite = "initialized"
  BY <1>4, <1>6 DEF Initialized
<1>14. st.handshake_send_sequence = NextOf(flight[e]) /\ st.remote_epoch # 1
  BY <1>6, <1>11
<1> QED BY <1>1, <1>6, <1>7, <1>10, <1>12, <1>13, <1>14, PrepareStep

(* A flight of one message of epoch 0. *)
LEMMA PrepareOne ==
    ASSUME IInv, NEW e \in End, Prepare(e), NEW n \in Number(e), EpochOf(e, n) = 0,
           FirstOf(flight[e]) = n, NextOf(flight[e]) = n + 1, flight[e] \in {"Flight1", "Flight2", "Flight3"},
           NEW st \in StateType, NEW p, p = Packet(TypeOf(e, n), 0, BodyOf(e, n)),
           Generate(e) = Generated(st, <<p>>),
           st.handshake_send_sequence = n,
           st.handshake_recv_sequence = state[e].handshake_recv_sequence,
           st.cipher_suite = state[e].cipher_suite, st.master_secret = state[e].master_secret,
           st.remote_epoch \in {0, state[e].remote_epoch}, st.verified = state[e].verified,
           flight[e] \in {"Flight2", "Flight3"} => st.cookie = Cookie
    PROVE  IInv'
<1>1. fsm[e] = "Preparing"
  BY DEF Prepare
<1>2. PICK pkts : pkts = <<p>>
  OBVIOUS
<1>3. Len(pkts) = 1 /\ pkts[1] = p /\ 1 .. 1 = {1} /\ p.epoch = 0
  BY <1>2 DEF Packet
<1>4. Numbered(pkts, n) = <<Pkt(e, n)>> /\ HandshakesBefore(pkts, 2) = 1
  BY <1>2, NumberedOne
<1>5. PICK fl : fl = <<Pkt(e, n)>>
  OBVIOUS
<1>6. fl \in Seq(PacketType) /\ Len(fl) = 1 /\ fl[1] = Pkt(e, n)
  BY <1>5, MsgType
<1>7. PICK s : s = [st EXCEPT !.handshake_send_sequence = n + 1]
  OBVIOUS
<1>8. n \in Nat
  BY Tables
<1>9. /\ s \in StateType /\ s.handshake_send_sequence = n + 1 /\ s.local_epoch = st.local_epoch
      /\ s.remote_epoch = st.remote_epoch /\ s.cookie = st.cookie /\ s.verified = st.verified
      /\ s.cipher_suite = st.cipher_suite /\ s.master_secret = st.master_secret
      /\ s.handshake_recv_sequence = st.handshake_recv_sequence
  BY <1>7, <1>8 DEF StateType
<1>10. Advanced(st, pkts) = s
  <2>1. st.handshake_send_sequence + HandshakesBefore(pkts, Len(pkts) + 1) = n + 1
    BY <1>3, <1>4
  <2>2. (IF \E i \in 1 .. Len(pkts) : pkts[i].epoch = 1 THEN 1 ELSE st.local_epoch) = st.local_epoch
    BY <1>3
  <2> QED BY <1>7, <2>1, <2>2 DEF StateType, Advanced
<1>11. /\ fsm' = [fsm EXCEPT ![e] = "Sending"]
       /\ UNCHANGED <<flight, cache, ctx, decrypted, closed, net>>
       /\ flights' = [flights EXCEPT ![e] = fl]
       /\ state' = [state EXCEPT ![e] = s]
  <2> DEFINE t == Advanced(st, pkts)
             ns == Numbered(pkts, st.handshake_send_sequence)
  <2>0. Generate(e) = Generated(st, pkts)
    BY <1>2
  <2>1. /\ fsm' = [fsm EXCEPT ![e] = "Sending"]
        /\ UNCHANGED <<flight, cache, ctx, decrypted, closed, net>>
        /\ flights' = [flights EXCEPT ![e] = ns]
        /\ state' = [state EXCEPT ![e] = t]
    BY <2>0, PreparedIs
  <2>2. ns = fl /\ t = s
    BY <1>4, <1>5, <1>10
  <2> HIDE DEF ns, t
  <2> QED BY <2>1, <2>2
<1>12. FirstOf(flight[e]) .. NextOf(flight[e]) - 1 = {n}
  BY <1>8
<1>13. /\ Initialized(e) => state[e].master_secret = Keys
  BY <1>1, PreparingFacts
<1>14. /\ \A i \in 1 .. Len(fl) :
            \/ fl[i] = CCS /\ flight[e] \in {"Flight5", "Flight6"}
            \/ \E k \in FirstOf(flight[e]) .. NextOf(flight[e]) - 1 : fl[i] = Pkt(e, k)
       /\ \A k \in FirstOf(flight[e]) .. NextOf(flight[e]) - 1 : \E i \in 1 .. Len(fl) : fl[i] = Pkt(e, k)
  BY <1>3, <1>6, <1>12
<1>15. /\ s.cipher_suite = "initialized" => s.master_secret = Keys
       /\ Initialized(e) \/ flight[e] = "Flight5" => s.cipher_suite = "initialized"
  BY <1>9, <1>13 DEF Initialized
<1>16. /\ s.handshake_send_sequence = NextOf(flight[e]) /\ (s.remote_epoch = 1 => state[e].remote_epoch = 1)
       /\ s.handshake_recv_sequence = state[e].handshake_recv_sequence /\ s.verified = state[e].verified
       /\ flight[e] \in {"Flight0", "Flight2", "Flight3", "Flight4", "Flight5", "Flight6"} => s.cookie = Cookie
  BY <1>9
<1> QED BY <1>1, <1>6, <1>9, <1>11, <1>14, <1>15, <1>16, PrepareStep

(* Flights 1, 2 and 3. *)
LEMMA PrepareHellos ==
    ASSUME IInv, NEW e \in End, Prepare(e), flight[e] \in {"Flight1", "Flight2", "Flight3"}
    PROVE  IInv'
<1>1. fsm[e] = "Preparing"
  BY DEF Prepare
<1>2. /\ state[e] \in StateType
      /\ flight[e] # "Flight2" => state[e].handshake_send_sequence = FirstOf(flight[e])
      /\ flight[e] \in {"Flight2", "Flight3"} => state[e].cookie = Cookie
      /\ flight[e] \in {"Flight1", "Flight3"} => e = "client"
      /\ flight[e] = "Flight2" => e = "server"
  BY <1>1, PreparingFacts
<1>3. CASE flight[e] = "Flight1"
  <2>1. e = "client" /\ 0 \in Number(e) /\ EpochOf(e, 0) = 0 /\ TypeOf(e, 0) = "ClientHello" /\ BodyOf(e, 0) = {}
    BY <1>2, <1>3, Numbers DEF EpochOf, TypeOf, BodyOf, LastOf
  <2>2. PICK st : st = Reset(state[e], {})
    OBVIOUS
  <2>3. PICK p : p = Packet(TypeOf(e, 0), 0, BodyOf(e, 0))
    OBVIOUS
  <2>4. Generate(e) = Generated(st, <<p>>)
    BY <1>3, <2>1, <2>2, <2>3 DEF Generate, Generate1, Reset
  <2>5. /\ st \in StateType /\ st.handshake_send_sequence = 0 /\ st.remote_epoch = 0
        /\ st.handshake_recv_sequence = state[e].handshake_recv_sequence
        /\ st.cipher_suite = state[e].cipher_suite /\ st.master_secret = state[e].master_secret
        /\ st.verified = state[e].verified
    <3>1. {} \in SUBSET Identity /\ state[e].handshake_send_sequence = 0
      BY <1>2, <1>3 DEF FirstOf
    <3> QED BY <1>2, <2>2, <3>1, StateReset
  <2>6. FirstOf(flight[e]) = 0 /\ NextOf(flight[e]) = 0 + 1
    BY <1>3 DEF FirstOf, NextOf
  <2> QED BY <1>3, <2>1, <2>3, <2>4, <2>5, <2>6, PrepareOne
<1>4. CASE flight[e] = "Flight2"
  <2>1. /\ e = "server" /\ 0 \in Number(e) /\ EpochOf(e, 0) = 0
        /\ TypeOf(e, 0) = "HelloVerifyRequest" /\ BodyOf(e, 0) = Cookie
    BY <1>2, <1>4, Numbers DEF EpochOf, TypeOf, BodyOf, LastOf
  <2>2. PICK st : st = [state[e] EXCEPT !.handshake_send_sequence = 0]
    OBVIOUS
  <2>3. PICK p : p = Packet(TypeOf(e, 0), 0, BodyOf(e, 0))
    OBVIOUS
  <2>4. Generate(e) = Generated(st, <<p>>)
    BY <1>2, <1>4, <2>1, <2>2, <2>3 DEF Generate, Generate2
  <2>5. /\ st \in StateType /\ st.handshake_send_sequence = 0 /\ st.remote_epoch = state[e].remote_epoch
        /\ st.handshake_recv_sequence = state[e].handshake_recv_sequence
        /\ st.cipher_suite = state[e].cipher_suite /\ st.master_secret = state[e].master_secret
        /\ st.verified = state[e].verified /\ st.cookie = Cookie
    BY <1>2, <1>4, <2>2 DEF StateType
  <2>6. FirstOf(flight[e]) = 0 /\ NextOf(flight[e]) = 0 + 1
    BY <1>4 DEF FirstOf, NextOf
  <2> QED BY <1>4, <2>1, <2>3, <2>4, <2>5, <2>6, PrepareOne
<1>5. CASE flight[e] = "Flight3"
  <2>1. /\ e = "client" /\ 1 \in Number(e) /\ EpochOf(e, 1) = 0
        /\ TypeOf(e, 1) = "ClientHello" /\ BodyOf(e, 1) = Cookie
    BY <1>2, <1>5, Numbers DEF EpochOf, TypeOf, BodyOf, LastOf
  <2>2. PICK st : st = state[e]
    OBVIOUS
  <2>3. PICK p : p = Packet(TypeOf(e, 1), 0, BodyOf(e, 1))
    OBVIOUS
  <2>4. Generate(e) = Generated(st, <<p>>)
    BY <1>2, <1>5, <2>1, <2>2, <2>3 DEF Generate, Generate3
  <2>5. st \in StateType /\ st.handshake_send_sequence = 1 /\ st.cookie = Cookie
    BY <1>2, <1>5, <2>2 DEF FirstOf
  <2>6. FirstOf(flight[e]) = 1 /\ NextOf(flight[e]) = 1 + 1
    BY <1>5 DEF FirstOf, NextOf
  <2> QED BY <1>5, <2>1, <2>2, <2>3, <2>4, <2>5, <2>6, PrepareOne
<1> QED BY <1>3, <1>4, <1>5

(* Flight 4. *)
LEMMA PrepareFlight4 ==
    ASSUME IInv, NEW e \in End, Prepare(e), flight[e] = "Flight4"
    PROVE  IInv'
<1>1. fsm[e] = "Preparing"
  BY DEF Prepare
<1>2. /\ state[e] \in StateType /\ e = "server" /\ state[e].handshake_send_sequence = 1
      /\ Initialized(e) => state[e].master_secret = Keys
      /\ state[e].cookie = Cookie
  BY <1>1, PreparingFacts DEF FirstOf
<1> DEFINE P(n) == Packet(TypeOf(e, n), EpochOf(e, n), BodyOf(e, n))
<1>3. 1 \in Number(e) /\ 2 \in Number(e) /\ 3 \in Number(e) /\ 4 \in Number(e) /\ 5 \in Number(e)
  BY <1>2, Numbers
<1>4. /\ P(1) = Packet("ServerHello", 0, {}) /\ P(2) = Packet("Certificate", 0, {})
      /\ P(3) = Packet("ServerKeyExchange", 0, {}) /\ P(4) = Packet("CertificateRequest", 0, {})
      /\ P(5) = Packet("ServerHelloDone", 0, {})
  BY <1>2 DEF TypeOf, EpochOf, BodyOf, LastOf
<1>5. /\ P(1).epoch = 0 /\ P(2).epoch = 0 /\ P(3).epoch = 0 /\ P(4).epoch = 0 /\ P(5).epoch = 0
  BY <1>4 DEF Packet
<1>6. \A n \in {1, 2, 3, 4, 5} : IsHandshake(P(n)) /\ WithSeq(P(n), n) = Pkt(e, n)
  BY <1>3, NumberedPacket
<1>7. PICK pkts : pkts = <<P(1), P(2), P(3), P(4), P(5)>>
  OBVIOUS
<1>8. Generate(e) = Generated(state[e], pkts)
  <2>1. Generate(e) = Generate4(e)
    BY DEF Generate
  <2> QED BY <1>4, <1>7, <2>1 DEF Generate4
<1> HIDE DEF P
<1>9. Len(pkts) = 5 /\ \A i \in 1 .. 5 : pkts[i].epoch = 0
  BY <1>5, <1>7
<1>10. PICK fl : fl = Numbered(pkts, 1)
  OBVIOUS
<1>11. /\ Len(fl) = 5 /\ HandshakesBefore(pkts, 6) = 5
       /\ fl[1] = Pkt(e, 1) /\ fl[2] = Pkt(e, 2) /\ fl[3] = Pkt(e, 3) /\ fl[4] = Pkt(e, 4) /\ fl[5] = Pkt(e, 5)
  <2>0. pkts[1] = P(1) /\ pkts[2] = P(2) /\ pkts[3] = P(3) /\ pkts[4] = P(4) /\ pkts[5] = P(5)
    BY <1>7
  <2>1. /\ Len(fl) = 5 /\ HandshakesBefore(pkts, 6) = 5
        /\ fl[1] = WithSeq(pkts[1], 1) /\ fl[2] = WithSeq(pkts[2], 1 + 1)
        /\ fl[3] = WithSeq(pkts[3], 1 + 2) /\ fl[4] = WithSeq(pkts[4], 1 + 3)
        /\ fl[5] = WithSeq(pkts[5], 1 + 4)
    <3>1. /\ 1 \in Nat /\ IsHandshake(pkts[1]) /\ IsHandshake(pkts[2]) /\ IsHandshake(pkts[3])
          /\ IsHandshake(pkts[4]) /\ IsHandshake(pkts[5])
      BY <1>6, <2>0
    <3> QED BY <1>9, <1>10, <3>1, NumberedFive
  <2>2. 1 + 1 = 2 /\ 1 + 2 = 3 /\ 1 + 3 = 4 /\ 1 + 4 = 5
    OBVIOUS
  <2> QED BY <1>6, <2>0, <2>1, <2>2
<1>12. fl \in Seq(PacketType)
  <2>1. \A i \in 1 .. 5 : fl[i] \in PacketType
    BY <1>3, <1>11, MsgType
  <2>2. fl = [i \in 1 .. 5 |-> fl[i]]
    BY <1>9, <1>10 DEF Numbered
  <2> QED BY <2>1, <2>2, IsASeq
<1>13. PICK s : s = [state[e] EXCEPT !.handshake_send_sequence = 6]
  OBVIOUS
<1>14. /\ s \in StateType /\ s.handshake_send_sequence = 6 /\ s.local_epoch = state[e].local_epoch
       /\ s.remote_epoch = state[e].remote_epoch /\ s.cookie = state[e].cookie
       /\ s.verified = state[e].verified
       /\ s.cipher_suite = state[e].cipher_suite /\ s.master_secret = state[e].master_secret
       /\ s.handshake_recv_sequence = state[e].handshake_recv_sequence
  BY <1>2, <1>13 DEF StateType
<1>15. Advanced(state[e], pkts) = s
  <2>1. state[e].handshake_send_sequence + HandshakesBefore(pkts, Len(pkts) + 1) = 6
    BY <1>2, <1>9, <1>11
  <2>2. ~\E i \in 1 .. Len(pkts) : pkts[i].epoch = 1
    BY <1>9
  <2> QED BY <1>2, <1>13, <2>1, <2>2 DEF StateType, Advanced
<1>16. /\ fsm' = [fsm EXCEPT ![e] = "Sending"]
       /\ UNCHANGED <<flight, cache, ctx, decrypted, closed, net>>
       /\ flights' = [flights EXCEPT ![e] = fl]
       /\ state' = [state EXCEPT ![e] = s]
  <2> DEFINE t == Advanced(state[e], pkts)
             ns == Numbered(pkts, state[e].handshake_send_sequence)
  <2>1. /\ fsm' = [fsm EXCEPT ![e] = "Sending"]
        /\ UNCHANGED <<flight, cache, ctx, decrypted, closed, net>>
        /\ flights' = [flights EXCEPT ![e] = ns]
        /\ state' = [state EXCEPT ![e] = t]
    BY <1>8, PreparedIs
  <2>2. ns = fl /\ t = s
    BY <1>2, <1>10, <1>15
  <2> HIDE DEF ns, t
  <2> QED BY <2>1, <2>2
<1>17. /\ FirstOf(flight[e]) .. NextOf(flight[e]) - 1 = {1, 2, 3, 4, 5} /\ 1 .. 5 = {1, 2, 3, 4, 5}
       /\ NextOf(flight[e]) = 6
  BY DEF FirstOf, NextOf
<1>18. /\ \A i \in 1 .. Len(fl) :
            \/ fl[i] = CCS /\ flight[e] \in {"Flight5", "Flight6"}
            \/ \E k \in FirstOf(flight[e]) .. NextOf(flight[e]) - 1 : fl[i] = Pkt(e, k)
       /\ \A k \in FirstOf(flight[e]) .. NextOf(flight[e]) - 1 : \E i \in 1 .. Len(fl) : fl[i] = Pkt(e, k)
  <2>1. \A i \in {1, 2, 3, 4, 5} : fl[i] = Pkt(e, i)
    BY <1>11
  <2> QED BY <1>11, <1>17, <2>1
<1>19. /\ s.cipher_suite = "initialized" => s.master_secret = Keys
       /\ Initialized(e) \/ flight[e] = "Flight5" => s.cipher_suite = "initialized"
  BY <1>2, <1>14 DEF Initialized
<1>20. /\ s.handshake_send_sequence = NextOf(flight[e]) /\ s.cookie = Cookie
       /\ s.remote_epoch = 1 => state[e].remote_epoch = 1
       /\ flight[e] \notin {"Flight5", "Flight6"} /\ flight[e] # "Flight6"
  BY <1>2, <1>14, <1>17
<1>21. fl \in Seq(PacketType) /\ s \in StateType /\ s.verified = state[e].verified
       /\ s.handshake_recv_sequence = state[e].handshake_recv_sequence
  BY <1>12, <1>14
<1> QED BY <1>1, <1>16, <1>18, <1>19, <1>20, <1>21, PrepareStep

NextEpoch(s, n) == [s EXCEPT !.handshake_send_sequence = n, !.local_epoch = 1]

(* The state after a flight with a Finished. *)
LEMMA StateNextEpoch ==
    ASSUME NEW st \in StateType, NEW n \in Nat, NEW s, s = NextEpoch(st, n)
    PROVE  /\ s \in StateType /\ s.handshake_send_sequence = n /\ s.local_epoch = 1
           /\ s.remote_epoch = st.remote_epoch /\ s.cookie = st.cookie /\ s.verified = st.verified
           /\ s.cipher_suite = st.cipher_suite /\ s.master_secret = st.master_secret
           /\ s.handshake_recv_sequence = st.handshake_recv_sequence
<1>1. PICK a : a = [st EXCEPT !.handshake_send_sequence = n]
  OBVIOUS
<1>2. /\ a \in StateType /\ a.handshake_send_sequence = n
      /\ a.remote_epoch = st.remote_epoch /\ a.cookie = st.cookie /\ a.verified = st.verified
      /\ a.cipher_suite = st.cipher_suite /\ a.master_secret = st.master_secret
      /\ a.handshake_recv_sequence = st.handshake_recv_sequence
  BY <1>1 DEF StateType
<1>3. s = [a EXCEPT !.local_epoch = 1]
  BY <1>1 DEF StateType, NextEpoch
<1> QED BY <1>2, <1>3 DEF StateType

(* Flight 5: the keys and the verify_data are those of the script. *)
LEMMA PrepareFlight5 ==
    ASSUME IInv, NEW e \in End, Prepare(e), flight[e] = "Flight5"
    PROVE  IInv'
<1>1. fsm[e] = "Preparing"
  BY DEF Prepare
<1>2. /\ state[e] \in StateType /\ e = "client" /\ state[e].handshake_send_sequence = 2
      /\ Initialized(e) => state[e].master_secret = Keys
      /\ state[e].cookie = Cookie
  BY <1>1, PreparingFacts DEF FirstOf
<1> DEFINE P(n) == Packet(TypeOf(e, n), EpochOf(e, n), BodyOf(e, n))
<1>3. 2 \in Number(e) /\ 3 \in Number(e) /\ 4 \in Number(e) /\ 5 \in Number(e)
  BY <1>2, Numbers
<1>4. /\ P(2) = Packet("Certificate", 0, {}) /\ P(3) = Packet("ClientKeyExchange", 0, {})
      /\ P(4) = Packet("CertificateVerify", 0, Keys) /\ P(5) = Packet("Finished", 1, ClientVerifyData)
  BY <1>2 DEF TypeOf, EpochOf, BodyOf, LastOf
<1>5. P(5).epoch = 1
  BY <1>4 DEF Packet
<1>6. \A n \in {2, 3, 4, 5} : IsHandshake(P(n)) /\ WithSeq(P(n), n) = Pkt(e, n)
  BY <1>3, NumberedPacket
<1>7. ~IsHandshake(CCS) /\ CCS \in PacketType
  BY DEF IsHandshake, HandshakeType, CCS, Packet, PacketType, ContentType
<1>8. PICK pkts : pkts = <<P(2), P(3), P(4), CCS, P(5)>>
  OBVIOUS
<1>9. PICK st : st = InitializeCipherSuite(state[e], Keys)
  OBVIOUS
<1>10. Generate(e) = Generated(st, pkts)
  <2>1. Generate(e) = Generate5(e)
    BY DEF Generate
  <2> DEFINE exchange == {<<"client", "Certificate", 2>>, <<"client", "ClientKeyExchange", 3>>}
  <2>2. /\ SessionHash("client", exchange) = Keys
        /\ Merged("client", VerifyRules) \cup exchange \cup {<<"client", "CertificateVerify", 4>>} = ClientVerifyData
    BY <1>1, <1>2, ClientHash
  <2>3. {<<e, "Certificate", 2>>, <<e, "ClientKeyExchange", 2 + 1>>} = exchange
        /\ {<<e, "CertificateVerify", 2 + 2>>} = {<<"client", "CertificateVerify", 4>>}
    BY <1>2
  <2> HIDE DEF exchange
  <2>4. Generate5(e) = Generated(InitializeCipherSuite(state[e], Keys),
                         <<Packet("Certificate", 0, {}), Packet("ClientKeyExchange", 0, {}),
                           Packet("CertificateVerify", 0, Keys), Packet("ChangeCipherSpec", 0, {}),
                           Packet("Finished", 1, ClientVerifyData)>>)
    BY <1>2, <2>2, <2>3 DEF Generate5
  <2> QED BY <1>4, <1>8, <1>9, <2>1, <2>4 DEF CCS
<1> HIDE DEF P
<1>11. Len(pkts) = 5 /\ pkts[5].epoch = 1
  BY <1>5, <1>8
<1>12. PICK fl : fl = Numbered(pkts, 2)
  OBVIOUS
<1>13. /\ Len(fl) = 5 /\ HandshakesBefore(pkts, 6) = 4
       /\ fl[1] = Pkt(e, 2) /\ fl[2] = Pkt(e, 3) /\ fl[3] = Pkt(e, 4) /\ fl[4] = CCS /\ fl[5] = Pkt(e, 5)
  <2>0. pkts[1] = P(2) /\ pkts[2] = P(3) /\ pkts[3] = P(4) /\ pkts[4] = CCS /\ pkts[5] = P(5)
    BY <1>8
  <2>1. /\ Len(fl) = 5 /\ HandshakesBefore(pkts, 6) = 4
        /\ fl[1] = WithSeq(pkts[1], 2) /\ fl[2] = WithSeq(pkts[2], 2 + 1)
        /\ fl[3] = WithSeq(pkts[3], 2 + 2) /\ fl[4] = pkts[4]
        /\ fl[5] = WithSeq(pkts[5], 2 + 3)
    <3>1. /\ 2 \in Nat /\ IsHandshake(pkts[1]) /\ IsHandshake(pkts[2]) /\ IsHandshake(pkts[3])
          /\ ~IsHandshake(pkts[4]) /\ IsHandshake(pkts[5])
      BY <1>6, <1>7, <2>0
    <3> QED BY <1>11, <1>12, <3>1, NumberedFive
  <2>2. 2 + 1 = 3 /\ 2 + 2 = 4 /\ 2 + 3 = 5
    OBVIOUS
  <2> QED BY <1>6, <2>0, <2>1, <2>2
<1>14. fl \in Seq(PacketType)
  <2>1. \A i \in 1 .. 5 : fl[i] \in PacketType
    BY <1>3, <1>7, <1>13, MsgType
  <2>2. fl = [i \in 1 .. 5 |-> fl[i]]
    BY <1>11, <1>12 DEF Numbered
  <2> QED BY <2>1, <2>2, IsASeq
<1>15. /\ st \in StateType /\ st.handshake_send_sequence = 2
       /\ st.remote_epoch = state[e].remote_epoch /\ st.cookie = state[e].cookie
       /\ st.verified = state[e].verified
       /\ st.cipher_suite = "initialized" /\ st.master_secret = Keys
       /\ st.handshake_recv_sequence = state[e].handshake_recv_sequence
  <2>1. CASE state[e].cipher_suite = "initialized"
    BY <1>2, <1>9, <2>1 DEF InitializeCipherSuite, Initialized
  <2>2. CASE state[e].cipher_suite # "initialized"
    BY <1>2, <1>9, <2>2, Bodies DEF InitializeCipherSuite, StateType
  <2> QED BY <2>1, <2>2
<1>16. PICK s : s = NextEpoch(st, 6)
  OBVIOUS
<1>17. /\ s \in StateType /\ s.handshake_send_sequence = 6 /\ s.local_epoch = 1
       /\ s.remote_epoch = state[e].remote_epoch /\ s.cookie = state[e].cookie
       /\ s.verified = state[e].verified
       /\ s.cipher_suite = "initialized" /\ s.master_secret = Keys
       /\ s.handshake_recv_sequence = state[e].handshake_recv_sequence
  <2>1. 6 \in Nat
    OBVIOUS
  <2> QED BY <1>15, <1>16, <2>1, StateNextEpoch
<1>18. Advanced(st, pkts) = s
  <2>1. st.handshake_send_sequence + HandshakesBefore(pkts, Len(pkts) + 1) = 6
    BY <1>11, <1>13, <1>15
  <2>2. 5 \in 1 .. Len(pkts) /\ pkts[5].epoch = 1
    BY <1>11
  <2>3. \E i \in 1 .. Len(pkts) : pkts[i].epoch = 1
    BY <2>2
  <2> QED BY <1>15, <1>16, <2>1, <2>3 DEF StateType, Advanced, NextEpoch
<1>19. /\ fsm' = [fsm EXCEPT ![e] = "Sending"]
       /\ UNCHANGED <<flight, cache, ctx, decrypted, closed, net>>
       /\ flights' = [flights EXCEPT ![e] = fl]
       /\ state' = [state EXCEPT ![e] = s]
  <2> DEFINE t == Advanced(st, pkts)
             ns == Numbered(pkts, st.handshake_send_sequence)
  <2>1. /\ fsm' = [fsm EXCEPT ![e] = "Sending"]
        /\ UNCHANGED <<flight, cache, ctx, decrypted, closed, net>>
        /\ flights' = [flights EXCEPT ![e] = ns]
        /\ state' = [state EXCEPT ![e] = t]
    BY <1>10, PreparedIs
  <2>2. ns = fl /\ t = s
    BY <1>12, <1>15, <1>18
  <2> HIDE DEF ns, t
  <2> QED BY <2>1, <2>2
<1>20. /\ FirstOf(flight[e]) .. NextOf(flight[e]) - 1 = {2, 3, 4, 5} /\ 1 .. 5 = {1, 2, 3, 4, 5}
       /\ NextOf(flight[e]) = 6
  BY DEF FirstOf, NextOf
<1>21. /\ \A i \in 1 .. Len(fl) :
            \/ fl[i] = CCS /\ flight[e] \in {"Flight5", "Flight6"}
            \/ \E k \in FirstOf(flight[e]) .. NextOf(flight[e]) - 1 : fl[i] = Pkt(e, k)
       /\ \A k \in FirstOf(flight[e]) .. NextOf(flight[e]) - 1 : \E i \in 1 .. Len(fl) : fl[i] = Pkt(e, k)
  <2>1. \A i \in {1, 2, 3, 4, 5} : fl[i] = CCS \/ \E k \in {2, 3, 4, 5} : fl[i] = Pkt(e, k)
    BY <1>13
  <2>2. \A k \in {2, 3, 4, 5} : \E i \in {1, 2, 3, 4, 5} : fl[i] = Pkt(e, k)
    BY <1>13
  <2> QED BY <1>13, <1>20, <2>1, <2>2
<1>22. /\ s.handshake_send_sequence = NextOf(flight[e]) /\ flight[e] # "Flight6"
       /\ s.cookie = Cookie /\ s.local_epoch = 1
       /\ s.cipher_suite = "initialized" /\ s.master_secret = Keys
       /\ s.remote_epoch = 1 => state[e].remote_epoch = 1
  BY <1>2, <1>17, <1>20
<1>23. fl \in Seq(PacketType) /\ s \in StateType /\ s.verified = state[e].verified
       /\ s.handshake_recv_sequence = state[e].handshake_recv_sequence
  BY <1>14, <1>17
<1> QED BY <1>1, <1>19, <1>21, <1>22, <1>23, PrepareStep

(* Flight 6: so is the server's verify_data. *)
LEMMA PrepareFlight6 ==
    ASSUME IInv, NEW e \in End, Prepare(e), flight[e] = "Flight6"
    PROVE  IInv'
<1>1. fsm[e] = "Preparing"
  BY DEF Prepare
<1>2. /\ state[e] \in StateType /\ e = "server" /\ state[e].handshake_send_sequence = 6
      /\ Initialized(e) /\ state[e].master_secret = Keys
      /\ state[e].cookie = Cookie
  BY <1>1, PreparingFacts DEF FirstOf
<1>3. PICK p : p = Packet(TypeOf(e, 6), EpochOf(e, 6), BodyOf(e, 6))
  OBVIOUS
<1>4. 6 \in Number(e)
  BY <1>2, Numbers
<1>5. p = Packet("Finished", 1, ServerVerifyData) /\ p.epoch = 1
  BY <1>2, <1>3 DEF TypeOf, EpochOf, BodyOf, LastOf, Packet
<1>6. IsHandshake(p) /\ WithSeq(p, 6) = Pkt(e, 6)
  BY <1>3, <1>4, NumberedPacket
<1>7. ~IsHandshake(CCS) /\ CCS \in PacketType
  BY DEF IsHandshake, HandshakeType, CCS, Packet, PacketType, ContentType
<1>8. PICK pkts : pkts = <<CCS, p>>
  OBVIOUS
<1>9. Generate(e) = Generated(state[e], pkts)
  <2>1. Generate(e) = Generate6(e)
    BY DEF Generate
  <2>2. Merged(e, VerifyRules) = ServerVerifyData
    BY <1>2, ServerHash
  <2> QED BY <1>5, <1>8, <2>1, <2>2 DEF Generate6, CCS
<1>10. Len(pkts) = 2 /\ pkts[2] = p
  BY <1>8
<1>11. PICK fl : fl = <<CCS, Pkt(e, 6)>>
  OBVIOUS
<1>12. Len(fl) = 2 /\ fl[1] = CCS /\ fl[2] = Pkt(e, 6) /\ fl \in Seq(PacketType)
  <2>1. Pkt(e, 6) \in PacketType
    BY <1>4, MsgType
  <2>2. ASSUME NEW a \in PacketType, NEW b \in PacketType, NEW q, q = <<a, b>>
        PROVE  Len(q) = 2 /\ q[1] = a /\ q[2] = b /\ q \in Seq(PacketType)
    BY <2>2
  <2> QED BY <1>7, <1>11, <2>1, <2>2
<1>13. Numbered(pkts, 6) = fl /\ HandshakesBefore(pkts, 3) = 1
  <2>1. 6 \in Nat
    OBVIOUS
  <2> QED BY <1>6, <1>7, <1>8, <1>11, <2>1, NumberedTwo
<1>14. PICK s : s = NextEpoch(state[e], 7)
  OBVIOUS
<1>15. /\ s \in StateType /\ s.handshake_send_sequence = 7 /\ s.local_epoch = 1
       /\ s.remote_epoch = state[e].remote_epoch /\ s.cookie = state[e].cookie
       /\ s.verified = state[e].verified
       /\ s.cipher_suite = state[e].cipher_suite /\ s.master_secret = state[e].master_secret
       /\ s.handshake_recv_sequence = state[e].handshake_recv_sequence
  <2>1. 7 \in Nat /\ state[e] \in StateType
    BY <1>2
  <2> QED BY <1>14, <2>1, StateNextEpoch
<1>16. Advanced(state[e], pkts) = s
  <2>1. state[e].handshake_send_sequence + HandshakesBefore(pkts, Len(pkts) + 1) = 7
    BY <1>2, <1>10, <1>13
  <2>2. 2 \in 1 .. Len(pkts) /\ pkts[2].epoch = 1
    BY <1>5, <1>10
  <2>3. \E i \in 1 .. Len(pkts) : pkts[i].epoch = 1
    BY <2>2
  <2> QED BY <1>2, <1>14, <2>1, <2>3 DEF StateType, Advanced, NextEpoch
<1>17. /\ fsm' = [fsm EXCEPT ![e] = "Sending"]
       /\ UNCHANGED <<flight, cache, ctx, decrypted, closed, net>>
       /\ flights' = [flights EXCEPT ![e] = fl]
       /\ state' = [state EXCEPT ![e] = s]
  <2> DEFINE t == Advanced(state[e], pkts)
             ns == Numbered(pkts, state[e].handshake_send_sequence)
  <2>1. /\ fsm' = [fsm EXCEPT ![e] = "Sending"]
        /\ UNCHANGED <<flight, cache, ctx, decrypted, closed, net>>
        /\ flights' = [flights EXCEPT ![e] = ns]
        /\ state' = [state EXCEPT ![e] = t]
    BY <1>9, PreparedIs
  <2>2. ns = fl /\ t = s
    BY <1>2, <1>13, <1>16
  <2> HIDE DEF ns, t
  <2> QED BY <2>1, <2>2
<1>18. FirstOf(flight[e]) .. NextOf(flight[e]) - 1 = {6} /\ 1 .. 2 = {1, 2} /\ NextOf(flight[e]) = 7
  BY DEF FirstOf, NextOf
<1>19. /\ \A i \in 1 .. Len(fl) :
            \/ fl[i] = CCS /\ flight[e] \in {"Flight5", "Flight6"}
            \/ \E k \in FirstOf(flight[e]) .. NextOf(flight[e]) - 1 : fl[i] = Pkt(e, k)
       /\ \A k \in FirstOf(flight[e]) .. NextOf(flight[e]) - 1 : \E i \in 1 .. Len(fl) : fl[i] = Pkt(e, k)
  <2>1. \A i \in {1, 2} : fl[i] = CCS \/ fl[i] = Pkt(e, 6)
    BY <1>12
  <2>2. 2 \in 1 .. Len(fl) /\ fl[2] = Pkt(e, 6)
    BY <1>12
  <2> QED BY <1>12, <1>18, <2>1, <2>2
<1>20. /\ s.cipher_suite = "initialized" /\ s.master_secret = Keys
  BY <1>2, <1>15 DEF Initialized
<1>21. /\ s.handshake_send_sequence = NextOf(flight[e]) /\ s.cookie = Cookie /\ s.local_epoch = 1
       /\ s.remote_epoch = 1 => state[e].remote_epoch = 1
       /\ flight[e] = "Flight6" => fl = <<CCS, Pkt(e, 6)>>
  BY <1>2, <1>11, <1>15, <1>18
<1>22. fl \in Seq(PacketType) /\ s \in StateType /\ s.verified = state[e].verified
       /\ s.handshake_recv_sequence = state[e].handshake_recv_sequence
  BY <1>12, <1>15
<1> QED BY <1>1, <1>17, <1>19, <1>20, <1>21, <1>22, PrepareStep

(* Prepare. *)
LEMMA PrepareKeeps ==
    ASSUME IInv, NEW e \in End, Prepare(e)
    PROVE  IInv'
<1>1. flight[e] \in Flight
  BY EndTypes
<1> QED BY <1>1, PrepareFlight0, PrepareHellos, PrepareFlight4, PrepareFlight5, PrepareFlight6 DEF Flight

-----------------------------------------------------------------------------
(***************************************************************************)
(* wait: what the parsers find makes the next flight.                      *)
(***************************************************************************)

(* What a result of a parser other than an alert changes. *)
LEMMA HandledIs ==
    ASSUME IInv, NEW e \in End, NEW next \in Flight \cup {"keep_reading"}, NEW st,
           HandleResult(e, Parsed(next, st))
    PROVE  /\ state' = [state EXCEPT ![e] = st]
           /\ next = "keep_reading" => fsm' = [fsm EXCEPT ![e] = "Waiting"] /\ flight' = flight
           /\ next \in Flight /\ ~(next = "Flight5" /\ flight[e] = "Flight5") =>
                fsm' = [fsm EXCEPT ![e] = "Preparing"] /\ flight' = [flight EXCEPT ![e] = next]
           /\ next = "Flight5" /\ flight[e] = "Flight5" =>
                fsm' = [fsm EXCEPT ![e] = "Completing"] /\ flight' = flight
           /\ net' \subseteq net /\ Resume(e)
           /\ UNCHANGED <<flights, cache, decrypted, closed>>
<1> DEFINE p == Parsed(next, st)
<1>1. p.next = next /\ p.st = st
  BY DEF Parsed
<1>2. flight \in [End -> Flight] /\ "keep_reading" \notin Flight
  BY TypeIs DEF IInv, Flight
<1> HIDE DEF p
<1>3. HandleResult(e, p)
  BY DEF p
<1>4. /\ state' = [state EXCEPT ![e] = st] /\ Resume(e) /\ UNCHANGED <<flights, cache, decrypted, closed>>
      /\ flight' = [flight EXCEPT ![e] = IF next \in Flight THEN next ELSE @]
  BY <1>1, <1>3 DEF HandleResult
<1>5. net' \subseteq net
  <2>1. next \notin {"alert", "error"}
    BY DEF Flight
  <2>2. PICK ds : ds = {}
    OBVIOUS
  <2>3. Transmit(ds)
    BY <1>1, <1>3, <2>1, <2>2 DEF HandleResult
  <2> QED BY <2>2, <2>3, Transmitted
<1>6. /\ next = "keep_reading" => flight' = flight
      /\ next = flight[e] => flight' = flight
      /\ next \in Flight => flight' = [flight EXCEPT ![e] = next]
  BY <1>2, <1>4
<1>7. fsm' = [fsm EXCEPT ![e] =
                CASE next \in Flight /\ (next # flight[e] \/ next # "Flight5") -> "Preparing"
                  [] next = "Flight5" /\ flight[e] = "Flight5" -> "Completing"
                  [] next = "error" -> "Failed"
                  [] OTHER -> "Waiting"]
  BY <1>1, <1>3 DEF HandleResult
<1>8. CASE next = "keep_reading"
  <2>1. next \notin Flight /\ next # "Flight5" /\ next # "error"
    BY <1>2, <1>8
  <2> QED BY <1>4, <1>5, <1>6, <1>7, <1>8, <2>1
<1>9. CASE next \in Flight /\ ~(next = "Flight5" /\ flight[e] = "Flight5")
  <2>1. next # "keep_reading" /\ (next # flight[e] \/ next # "Flight5")
    BY <1>2, <1>9
  <2>2. /\ next \in Flight /\ (next # flight[e] \/ next # "Flight5")
        /\ ~(next = "Flight5" /\ flight[e] = "Flight5") /\ next # "error"
    BY <1>9, <2>1 DEF Flight
  <2>3. (CASE next \in Flight /\ (next # flight[e] \/ next # "Flight5") -> "Preparing"
           [] next = "Flight5" /\ flight[e] = "Flight5" -> "Completing"
           [] next = "error" -> "Failed"
           [] OTHER -> "Waiting") = "Preparing"
    BY <2>2
  <2>4. fsm' = [fsm EXCEPT ![e] = "Preparing"]
    BY <1>7, <2>3
  <2> QED BY <1>4, <1>5, <1>6, <1>9, <2>1, <2>4
<1>10. CASE next = "Flight5" /\ flight[e] = "Flight5"
  <2>1. next # "keep_reading" /\ next \in Flight
    BY <1>10 DEF Flight
  <2>2. fsm' = [fsm EXCEPT ![e] = "Completing"]
    BY <1>7, <1>10
  <2> QED BY <1>4, <1>5, <1>6, <1>10, <2>1, <2>2
<1> QED BY <1>8, <1>9, <1>10

(* Who has gone to epoch 1 has heard the whole of the peer's flights before: the *)
(* client is in Flight 5, the server past Flight 2.                              *)
LEMMA EpochFlight ==
    ASSUME IInv
    PROVE  /\ state["client"].remote_epoch = 1 => flight["client"] = "Flight5"
           /\ state["server"].remote_epoch = 1 => flight["server"] \in {"Flight4", "Flight6"}
<1>1. /\ EndInv("client") /\ EndInv("server")
      /\ Peer("client") = "server" /\ Peer("server") = "client"
      /\ LastOf("server") = 6 /\ LastOf("client") = 5
  BY EndFacts, Ends DEF LastOf
<1>2. ASSUME state["client"].remote_epoch = 1 PROVE flight["client"] = "Flight5"
  <2>1. Msg("server", 6) \in cache["server"]
    BY <1>1, <1>2 DEF EndInv, KeysInv
  <2>2. Msg("client", 5) \in cache["client"]
    BY <2>1, Order
  <2>3. 5 < state["client"].handshake_send_sequence
    BY <2>2, Holds
  <2> QED BY <1>1, <2>3 DEF EndInv, RolesInv, NumbersInv, FirstOf, NextOf
<1>3. ASSUME state["server"].remote_epoch = 1 PROVE flight["server"] \in {"Flight4", "Flight6"}
  <2>1. Msg("client", 5) \in cache["client"]
    BY <1>1, <1>3 DEF EndInv, KeysInv
  <2>2. Msg("server", 5) \in cache["server"]
    BY <2>1, Order
  <2>3. 5 < state["server"].handshake_send_sequence
    BY <2>2, Holds
  <2> QED BY <1>1, <2>3 DEF EndInv, RolesInv, NumbersInv, FirstOf, NextOf
<1> QED BY <1>2, <1>3

(* A result of a parser that fits its flight. *)
LEMMA WaitStep ==
    ASSUME IInv, NEW e \in End, fsm[e] \in {"Waiting", "Draining"}, ctx[e].reader = "wait",
           NEW x \in {"Waiting", "Preparing", "Completing"}, fsm' = [fsm EXCEPT ![e] = x],
           NEW fl \in Flight, flight' = [flight EXCEPT ![e] = fl],
           NEW st \in StateType, state' = [state EXCEPT ![e] = st],
           net' \subseteq net, Resume(e), UNCHANGED <<flights, cache, decrypted, closed>>,
           fl \in (IF e = "client" THEN {"Flight1", "Flight3", "Flight5"}
                   ELSE {"Flight0", "Flight2", "Flight4", "Flight6"}),
           x = "Completing" => e = "client" /\ fl = "Flight5" /\ Got(e) = 7,
           x # "Preparing" => fl = flight[e],
           x = "Preparing" =>
             /\ FirstOf(fl) <= NextOf(flight[e])
             /\ state[e].handshake_send_sequence =
                  IF fl = "Flight2" /\ Msg(e, 0) \in cache[e] THEN NextOf(fl) ELSE FirstOf(fl),
           st.handshake_send_sequence = state[e].handshake_send_sequence,
           st.handshake_recv_sequence = RecvOf(fl), RecvOf(fl) <= Got(e),
           st.cipher_suite = state[e].cipher_suite
             \/ (x = "Preparing" /\ fl # "Flight6" /\ st.cipher_suite # "initialized" /\ state[e].remote_epoch = 0),
           st.master_secret = state[e].master_secret,
           fl = "Flight6" => fsm[e] = "Draining" \/ flight[e] = "Flight6",
           st.local_epoch = state[e].local_epoch, st.remote_epoch = state[e].remote_epoch,
           fl \in {"Flight2", "Flight3", "Flight4", "Flight5", "Flight6"} => st.cookie = Cookie,
           x # "Preparing" => st.cookie = state[e].cookie,
           st.verified = state[e].verified, fl = "Flight6" => st.verified,
           e = "client" /\ state[e].remote_epoch = 1 => x = "Completing"
    PROVE  IInv'
<1>1. /\ Peer(e) # e /\ Peer(e) \in End /\ OwnInv(e) /\ TypeOK /\ ctx[e] \in CtxType
      /\ state \in [End -> StateType] /\ flight \in [End -> Flight] /\ ctx \in [End -> CtxType]
      /\ fsm \in [End -> {"Preparing", "Sending", "Waiting", "Draining", "Completing", "Finished", "Failed"}]
  BY Ends, OwnFacts, TypeIs, EndTypes DEF IInv
<1>2. PICK c : c = [ctx[e] EXCEPT !.reader = "recv"]
  OBVIOUS
<1>3. /\ c \in CtxType /\ c.reader = "recv" /\ c.rest = ctx[e].rest
      /\ c.has_handshake = ctx[e].has_handshake
      /\ c.encrypted_packets = ctx[e].encrypted_packets /\ c.fragments = ctx[e].fragments
      /\ c.current_message_sequence_number = ctx[e].current_message_sequence_number
  BY <1>1, <1>2 DEF CtxType
<1>4. ctx' = [ctx EXCEPT ![e] = c]
  BY <1>1, <1>2 DEF Resume
<1>5. /\ ctx'[e] = c /\ ctx'[Peer(e)] = ctx[Peer(e)] /\ ctx' \in [End -> CtxType]
      /\ state'[e] = st /\ state'[Peer(e)] = state[Peer(e)] /\ state' \in [End -> StateType]
  BY <1>1, <1>3, <1>4
<1>6. /\ fsm'[e] = x /\ fsm'[Peer(e)] = fsm[Peer(e)]
      /\ fsm' \in [End -> {"Preparing", "Sending", "Waiting", "Draining", "Completing", "Finished", "Failed"}]
      /\ flight'[e] = fl /\ flight'[Peer(e)] = flight[Peer(e)] /\ flight' \in [End -> Flight]
  BY <1>1
<1>7. TypeOK'
  <2>1. net' \in SUBSET [to : End, recs : Seq(RecordType)]
    BY <1>1, TypeIs
  <2> QED BY <1>1, <1>5, <1>6, <2>1 DEF TypeOK, StateType, CtxType
<1>8. OtherSame(e) /\ Progress(e) /\ Progress(Peer(e)) /\ Got(e)' = Got(e)
  BY <1>3, <1>5, <1>6 DEF OtherSame, Progress, Got
<1>9. RolesInv(e)'
  BY <1>6 DEF RolesInv
<1>10. NumbersInv(e)'
  <2>1. NumbersInv(e)
    BY <1>1 DEF OwnInv
  <2>2. x # "Preparing" => state[e].handshake_send_sequence = NextOf(fl)
    BY <2>1 DEF NumbersInv
  <2>3. st.handshake_send_sequence =
          IF x = "Preparing" /\ ~(fl = "Flight2" /\ Msg(e, 0) \in cache[e]) THEN FirstOf(fl) ELSE NextOf(fl)
    BY <2>2
  <2> QED BY <1>5, <1>6, <1>8, <2>1, <2>3 DEF NumbersInv
<1>11. CacheInv(e)'
  <2>1. CacheInv(e)
    BY <1>1 DEF OwnInv
  <2>2. \A n \in Number(e) : n < FirstOf(fl) => Msg(e, n) \in cache[e]
    <3>1. CASE x = "Preparing"
      <4> SUFFICES ASSUME NEW n \in Number(e), n < FirstOf(fl) PROVE Msg(e, n) \in cache[e]
        OBVIOUS
      <4>1. n \in Nat /\ FirstOf(fl) \in Nat /\ NextOf(flight[e]) \in Nat
        BY Tables DEF FirstOf, NextOf
      <4>2. n < NextOf(flight[e])
        BY <3>1, <4>1
      <4> QED BY <2>1, <4>2 DEF CacheInv
    <3>2. CASE x # "Preparing"
      BY <2>1, <3>2 DEF CacheInv
    <3> QED BY <3>1, <3>2
  <2>3. \A n \in Number(e) : n < NextOf(fl) /\ x \notin {"Preparing", "Sending"} => Msg(e, n) \in cache[e]
    BY <2>1 DEF CacheInv
  <2> QED BY <1>5, <1>6, <1>8, <2>1, <2>2, <2>3 DEF CacheInv
<1>12. LinkInv(e)'
  BY <1>1, <1>3, <1>5, <1>8 DEF OwnInv, LinkInv
<1>13. KeysInv(e)'
  <2>1. KeysInv(e)
    BY <1>1 DEF OwnInv
  <2>2. Initialized(e)' <=> st.cipher_suite = "initialized"
    BY <1>5 DEF Initialized
  <2>3. Initialized(e)' => Initialized(e) /\ st.master_secret = Keys
    BY <2>1, <2>2 DEF KeysInv, Initialized
  <2>4. fl = "Flight6" => Initialized(e)'
    BY <2>1, <2>2 DEF KeysInv, Initialized
  <2>5. fl = "Flight5" /\ x # "Preparing" => Initialized(e)'
    BY <2>1, <2>2 DEF KeysInv, Initialized
  <2>6. st.remote_epoch = 1 => Initialized(e)' /\ Msg(Peer(e), LastOf(Peer(e))) \in cache[Peer(e)]
    BY <2>1, <2>2 DEF KeysInv, Initialized
  <2>7. fl \in {"Flight5", "Flight6"} /\ x # "Preparing" => st.local_epoch = 1
    BY <2>1 DEF KeysInv
  <2>8. fl = "Flight0" /\ x # "Preparing" => st.cookie = Cookie
    BY <2>1 DEF KeysInv
  <2> QED BY <1>5, <1>6, <2>3, <2>4, <2>5, <2>6, <2>7, <2>8 DEF KeysInv
<1>14. FlightsInv(e)'
  <2>1. FlightsInv(e)
    BY <1>1 DEF OwnInv
  <2> QED BY <1>6, <2>1 DEF FlightsInv
<1>15. RecordsInv(e)'
  BY <1>1, <1>3, <1>5, <1>8, RecordsInvStays DEF OwnInv
<1>16. decrypted'[e] > 0 => fsm'[e] \in {"Completing", "Finished"}
  BY <1>1 DEF OwnInv
<1>17. e = "server" => ServerInv' /\ (Msg("server", 6) \in cache'["server"] => fsm'["server"] \in {"Completing", "Finished"})
  <2> SUFFICES ASSUME e = "server" PROVE ServerInv'
    BY <1>1 DEF OwnInv
  <2>1. ServerInv
    BY DEF IInv
  <2>2. LateOnly(ctx'["server"].encrypted_packets)
    BY <1>3, <1>5, <2>1 DEF ServerInv
  <2> QED BY <1>3, <1>5, <1>6, <2>2 DEF ServerInv
<1>18. e = "client" => ClientInv' /\ (fsm'["client"] \in {"Completing", "Finished"} => Got("client")' = 7)
  <2> SUFFICES ASSUME e = "client" PROVE ClientInv' /\ (x = "Completing" => Got(e) = 7)
    BY <1>6, <1>8
  <2>1. ClientInv
    BY DEF IInv
  <2>2. Whole(ctx'["client"].rest)
    BY <1>3, <1>5, <2>1 DEF ClientInv
  <2>3. fl = "Flight1" => flight[e] = "Flight1" \/ x = "Preparing"
    OBVIOUS
  <2>4. fl = "Flight1" => Got(e) >= 1 \/ ~ctx[e].has_handshake
    <3>1. flight[e] \in {"Flight1", "Flight3", "Flight5"} /\ (x = "Preparing" => state[e].handshake_send_sequence = FirstOf(fl))
      BY <1>1 DEF OwnInv, RolesInv
    <3>2. fl = "Flight1" => flight[e] = "Flight1"
      BY <1>1, <3>1 DEF OwnInv, NumbersInv, FirstOf, NextOf
    <3> QED BY <2>1, <3>2 DEF ClientInv
  <2>5. ctx'["client"].reader = "recv" /\ ctx'["client"].has_handshake = ctx["client"].has_handshake
    BY <1>3, <1>5
  <2> QED BY <1>5, <1>6, <1>8, <2>2, <2>4, <2>5 DEF ClientInv
<1>19. OwnInv(e)'
  BY <1>9, <1>10, <1>11, <1>12, <1>13, <1>14, <1>15, <1>16, <1>17, <1>18 DEF OwnInv
<1>20. NetInv'
  <2>1. PICK ds : ds = {}
    OBVIOUS
  <2>2. /\ net' \subseteq net \cup ds
        /\ \A d \in ds : d.to = Peer(e) /\ RecordsOK(e, d.recs)' /\ (e = "server" => Whole(d.recs))
    BY <2>1
  <2> QED BY <1>8, <2>2, NetStep
<1> QED BY <1>7, <1>8, <1>19, <1>20, StepOfOne

(* Nothing found: the task goes on waiting. *)
LEMMA KeepsReading ==
    ASSUME IInv, NEW e \in End, fsm[e] \in {"Waiting", "Draining"}, ctx[e].reader = "wait",
           e = "client" => state[e].remote_epoch # 1,
           HandleResult(e, Parsed("keep_reading", state[e]))
    PROVE  IInv'
<1>1. PICK next : next = "keep_reading"
  OBVIOUS
<1>2. next \in Flight \cup {"keep_reading"} /\ HandleResult(e, Parsed(next, state[e]))
  BY <1>1
<1>3. /\ state' = [state EXCEPT ![e] = state[e]]
      /\ fsm' = [fsm EXCEPT ![e] = "Waiting"] /\ flight' = flight
      /\ net' \subseteq net /\ Resume(e)
      /\ UNCHANGED <<flights, cache, decrypted, closed>>
  BY <1>1, <1>2, HandledIs
<1>4. flight' = [flight EXCEPT ![e] = flight[e]]
  BY <1>3, TypeIs DEF IInv
<1>5. /\ flight[e] \in Flight /\ state[e] \in StateType /\ EndInv(e)
      /\ "Waiting" \in {"Waiting", "Preparing", "Completing"}
  BY EndTypes, EndFacts
<1>6. PICK x : x = "Waiting"
  OBVIOUS
<1>7. /\ flight[e] \in (IF e = "client" THEN {"Flight1", "Flight3", "Flight5"}
                        ELSE {"Flight0", "Flight2", "Flight4", "Flight6"})
      /\ state[e].handshake_recv_sequence = RecvOf(flight[e]) /\ RecvOf(flight[e]) <= Got(e)
      /\ flight[e] \in {"Flight2", "Flight3", "Flight4", "Flight5", "Flight6"} => state[e].cookie = Cookie
  BY <1>5 DEF EndInv, RolesInv, NumbersInv, KeysInv
<1>8. flight[e] = "Flight6" => state[e].verified
  BY <1>7 DEF IInv, ServerInv, End
<1>9. /\ x \in {"Waiting", "Preparing", "Completing"} /\ fsm' = [fsm EXCEPT ![e] = x]
      /\ x # "Preparing" /\ x # "Completing"
  BY <1>3, <1>6
<1>10. e = "client" /\ state[e].remote_epoch = 1 => x = "Completing"
  OBVIOUS
<1> QED BY <1>3, <1>4, <1>5, <1>7, <1>8, <1>9, <1>10, WaitStep

(* A flight found: the task prepares it. *)
LEMMA FindsFlight ==
    ASSUME IInv, NEW e \in End, fsm[e] \in {"Waiting", "Draining"}, ctx[e].reader = "wait",
           NEW next \in Flight, ~(next = "Flight5" /\ flight[e] = "Flight5"), NEW st \in StateType,
           HandleResult(e, Parsed(next, st)),
           next \in (IF e = "client" THEN {"Flight1", "Flight3", "Flight5"}
                     ELSE {"Flight0", "Flight2", "Flight4", "Flight6"}),
           FirstOf(next) <= NextOf(flight[e]),
           state[e].handshake_send_sequence =
             IF next = "Flight2" /\ Msg(e, 0) \in cache[e] THEN NextOf(next) ELSE FirstOf(next),
           st.handshake_send_sequence = state[e].handshake_send_sequence,
           st.handshake_recv_sequence = RecvOf(next), RecvOf(next) <= Got(e),
           st.cipher_suite = state[e].cipher_suite
             \/ (next # "Flight6" /\ st.cipher_suite # "initialized" /\ state[e].remote_epoch = 0),
           st.master_secret = state[e].master_secret,
           next = "Flight6" => fsm[e] = "Draining" \/ flight[e] = "Flight6",
           st.local_epoch = state[e].local_epoch, st.remote_epoch = state[e].remote_epoch,
           next \in {"Flight2", "Flight3", "Flight4", "Flight5", "Flight6"} => st.cookie = Cookie,
           st.verified = state[e].verified, next = "Flight6" => st.verified,
           e = "client" => state[e].remote_epoch = 0
    PROVE  IInv'
<1>1. /\ state' = [state EXCEPT ![e] = st]
      /\ fsm' = [fsm EXCEPT ![e] = "Preparing"] /\ flight' = [flight EXCEPT ![e] = next]
      /\ net' \subseteq net /\ Resume(e)
      /\ UNCHANGED <<flights, cache, decrypted, closed>>
  BY HandledIs
<1>2. PICK x : x = "Preparing"
  OBVIOUS
<1>3. /\ x \in {"Waiting", "Preparing", "Completing"} /\ fsm' = [fsm EXCEPT ![e] = x]
      /\ x = "Preparing" /\ x # "Completing"
  BY <1>1, <1>2
<1>4. st.cipher_suite = state[e].cipher_suite
        \/ (x = "Preparing" /\ next # "Flight6" /\ st.cipher_suite # "initialized" /\ state[e].remote_epoch = 0)
  BY <1>3
<1>5. e = "client" /\ state[e].remote_epoch = 1 => x = "Completing"
  OBVIOUS
<1> QED BY <1>1, <1>3, <1>4, <1>5, WaitStep

(* The server in Flights 0 and 2, where Flight0.parse found the first hello. *)
LEMMA FirstHello ==
    ASSUME IInv, flight["server"] \in {"Flight0", "Flight2"}, Got("server") < 2,
           fsm["server"] = "Waiting", ctx["server"].reader = "wait",
           HandleResult("server", Parse0("server"))
    PROVE  IInv'
<1>1. "server" \in End /\ EndInv("server") /\ Peer("server") = "client"
  BY Ends, EndFacts
<1>2. CASE Parse0("server") = Parsed("keep_reading", state["server"])
  BY <1>1, <1>2, KeepsReading
<1>3. CASE Got("server") = 1 /\ Parse0("server") = Parsed("Flight2", [state["server"] EXCEPT
                                                          !.handshake_recv_sequence = 1,
                                                          !.cipher_suite = "chosen"])
  <2>1. PICK st : st = [state["server"] EXCEPT !.handshake_recv_sequence = 1, !.cipher_suite = "chosen"]
    OBVIOUS
  <2>2. state["server"] \in StateType
    BY <1>1, EndTypes
  <2>3. /\ st.handshake_recv_sequence = 1 /\ st.cipher_suite = "chosen"
        /\ st.handshake_send_sequence = state["server"].handshake_send_sequence
        /\ st.master_secret = state["server"].master_secret
        /\ st.local_epoch = state["server"].local_epoch
        /\ st.remote_epoch = state["server"].remote_epoch
        /\ st.cookie = state["server"].cookie /\ st.verified = state["server"].verified
        /\ st \in StateType
    BY <2>1, <2>2 DEF StateType
  <2>4. PICK next : next = "Flight2"
    OBVIOUS
  <2>5. next \in Flight /\ ~(next = "Flight5" /\ flight["server"] = "Flight5")
    BY <2>4 DEF Flight
  <2>6. HandleResult("server", Parsed(next, st))
    BY <1>3, <2>1, <2>4
  <2>7. next \in (IF "server" = "client" THEN {"Flight1", "Flight3", "Flight5"}
                  ELSE {"Flight0", "Flight2", "Flight4", "Flight6"})
    BY <2>4
  <2>8. FirstOf(next) <= NextOf(flight["server"])
    BY <2>4 DEF FirstOf, NextOf
  <2>9. state["server"].handshake_send_sequence =
          IF next = "Flight2" /\ Msg("server", 0) \in cache["server"] THEN NextOf(next) ELSE FirstOf(next)
    <3>1. state["server"].handshake_send_sequence = NextOf(flight["server"])
      BY <1>1 DEF EndInv, NumbersInv
    <3>2. CASE flight["server"] = "Flight0"
      <4>1. state["server"].handshake_send_sequence = 0
        BY <3>1, <3>2 DEF NextOf
      <4>2. Msg("server", 0) \notin cache["server"]
        BY <4>1, Holds
      <4> QED BY <2>4, <4>1, <4>2 DEF FirstOf
    <3>3. CASE flight["server"] = "Flight2"
      <4>1. state["server"].handshake_send_sequence = 1 /\ NextOf(flight["server"]) = 1
        BY <3>1, <3>3 DEF NextOf
      <4>2. Msg("server", 0) \in cache["server"]
        BY <4>1, Holds
      <4> QED BY <2>4, <4>1, <4>2 DEF NextOf
    <3> QED BY <3>2, <3>3
  <2>10. RecvOf(next) = 1 /\ RecvOf(next) <= Got("server")
    BY <1>3, <2>4 DEF RecvOf
  <2>11. state["server"].remote_epoch = 0
    BY <2>2, EpochFlight DEF StateType
  <2>12. st.cookie = Cookie
    BY <1>1, <2>3 DEF EndInv, KeysInv
  <2>13. next # "Flight6" /\ st.cipher_suite # "initialized" /\ st.handshake_recv_sequence = RecvOf(next)
    BY <2>3, <2>4, <2>10
  <2> QED BY <1>1, <2>3, <2>5, <2>6, <2>7, <2>8, <2>9, <2>10, <2>11, <2>12, <2>13, FindsFlight
<1> QED BY <1>2, <1>3, Parse0Is

(* WaitFlight0: no second hello comes before the first is answered. *)
LEMMA WaitFlight0Keeps ==
    ASSUME IInv, NEW e \in End, WaitFlight0(e)
    PROVE  IInv'
<1>1. /\ fsm[e] = "Waiting" /\ flight[e] = "Flight0" /\ ctx[e].reader = "wait"
      /\ HandleResult(e, Parse0(e)) /\ EndInv(e)
  BY EndFacts DEF WaitFlight0, HandshakeRecv
<1>2. e = "server"
  BY <1>1 DEF EndInv, RolesInv, End
<1>3. /\ EndInv("client") /\ EndInv("server") /\ Got("server") \in Nat /\ Got("client") \in Nat
      /\ "client" \in End
      /\ Peer("client") = "server" /\ Peer("server") = "client"
  BY EndFacts, Ends
<1>4. Got("server") < 2
  <2> SUFFICES ASSUME Got("server") >= 2 PROVE FALSE
    BY <1>3
  <2>1. state["server"].handshake_send_sequence = 0
    BY <1>1, <1>2 DEF EndInv, NumbersInv, NextOf
  <2>2. Msg("server", 0) \notin cache["server"]
    BY <2>1, Holds
  <2>3. Msg("client", 1) \in cache["client"]
    <3>1. 1 \in Number("client")
      BY Numbers
    <3> QED BY <1>3, <3>1 DEF EndInv, LinkInv
  <2>4. 1 < state["client"].handshake_send_sequence
    BY <2>3, Holds
  <2>5. Got("client") >= 1
    BY <1>3, <2>4 DEF EndInv, RolesInv, NumbersInv, FirstOf, NextOf, RecvOf
  <2>6. Msg("server", 0) \in cache["server"]
    <3>1. 0 \in Number("server")
      BY Numbers
    <3> QED BY <1>3, <2>5, <3>1 DEF EndInv, LinkInv
  <2> QED BY <2>2, <2>6
<1> QED BY <1>1, <1>2, <1>4, FirstHello

(* WaitFlight2: the hello with the cookie, or the first one again. *)
LEMMA WaitFlight2Keeps ==
    ASSUME IInv, NEW e \in End, WaitFlight2(e)
    PROVE  IInv'
<1>1. /\ fsm[e] = "Waiting" /\ flight[e] = "Flight2" /\ ctx[e].reader = "wait"
      /\ HandleResult(e, Parse2(e)) /\ EndInv(e)
  BY EndFacts DEF WaitFlight2, HandshakeRecv
<1>2. e = "server"
  BY <1>1 DEF EndInv, RolesInv, End
<1>3. Got("server") \in Nat
  BY EndFacts, Ends
<1>4. CASE Got("server") < 2
  <2>1. Parse2("server") = Parse0("server")
    BY <1>1, <1>2, <1>4, Parse2Is
  <2> QED BY <1>1, <1>2, <1>4, <2>1, FirstHello
<1>5. CASE Got("server") >= 2
  <2>1. PICK st : st = [state["server"] EXCEPT !.handshake_recv_sequence = 2]
    OBVIOUS
  <2>2. state["server"] \in StateType
    BY <1>2, EndTypes
  <2>3. /\ st.handshake_recv_sequence = 2 /\ st.cipher_suite = state[e].cipher_suite
        /\ st.handshake_send_sequence = state[e].handshake_send_sequence
        /\ st.master_secret = state[e].master_secret
        /\ st.local_epoch = state[e].local_epoch
        /\ st.remote_epoch = state[e].remote_epoch
        /\ st.cookie = state[e].cookie /\ st.verified = state[e].verified
        /\ st \in StateType
    BY <1>2, <2>1, <2>2 DEF StateType
  <2>4. PICK next : next = "Flight4"
    OBVIOUS
  <2>5. next \in Flight /\ ~(next = "Flight5" /\ flight[e] = "Flight5")
    BY <2>4 DEF Flight
  <2>6. HandleResult(e, Parsed(next, st))
    BY <1>1, <1>2, <1>5, <2>1, <2>4, Parse2Is
  <2>7. next \in (IF e = "client" THEN {"Flight1", "Flight3", "Flight5"}
                  ELSE {"Flight0", "Flight2", "Flight4", "Flight6"})
    BY <1>2, <2>4
  <2>8. FirstOf(next) <= NextOf(flight[e])
    BY <1>1, <2>4 DEF FirstOf, NextOf
  <2>9. state[e].handshake_send_sequence =
          IF next = "Flight2" /\ Msg(e, 0) \in cache[e] THEN NextOf(next) ELSE FirstOf(next)
    BY <1>1, <2>4 DEF EndInv, NumbersInv, FirstOf, NextOf
  <2>10. RecvOf(next) = 2 /\ RecvOf(next) <= Got(e)
    BY <1>2, <1>5, <2>4 DEF RecvOf
  <2>11. st.cookie = Cookie
    BY <1>1, <2>3 DEF EndInv, KeysInv
  <2>12. next # "Flight6" /\ e # "client" /\ st.handshake_recv_sequence = RecvOf(next)
    BY <1>2, <2>3, <2>4, <2>10
  <2> QED BY <1>1, <2>3, <2>5, <2>6, <2>7, <2>8, <2>9, <2>10, <2>11, <2>12, FindsFlight
<1> QED BY <1>3, <1>4, <1>5

(* WaitFlight1: the cookie makes the second hello. *)
LEMMA WaitFlight1Keeps ==
    ASSUME IInv, NEW e \in End, WaitFlight1(e)
    PROVE  IInv'
<1>1. /\ fsm[e] = "Waiting" /\ flight[e] = "Flight1" /\ ctx[e].reader = "wait"
      /\ HandleResult(e, Parse1(e)) /\ EndInv(e) /\ state[e] \in StateType
  BY EndFacts, EndTypes DEF WaitFlight1, HandshakeRecv
<1>2. e = "client"
  BY <1>1 DEF EndInv, RolesInv, End
<1>3. Got("client") >= 1
  BY <1>1, <1>2 DEF IInv, ClientInv
<1>4. PICK st : st = [state["client"] EXCEPT !.cookie = Cookie, !.handshake_recv_sequence = 1]
  OBVIOUS
<1>5. Cookie \in SUBSET Identity
  BY Bodies
<1>6. /\ st.handshake_recv_sequence = 1 /\ st.cipher_suite = state[e].cipher_suite
      /\ st.handshake_send_sequence = state[e].handshake_send_sequence
      /\ st.master_secret = state[e].master_secret
      /\ st.local_epoch = state[e].local_epoch
      /\ st.remote_epoch = state[e].remote_epoch
      /\ st.cookie = Cookie /\ st.verified = state[e].verified
      /\ st \in StateType
  BY <1>1, <1>2, <1>4, <1>5 DEF StateType
<1>7. PICK next : next = "Flight3"
  OBVIOUS
<1>8. next \in Flight /\ ~(next = "Flight5" /\ flight[e] = "Flight5")
  BY <1>7 DEF Flight
<1>9. HandleResult(e, Parsed(next, st))
  BY <1>1, <1>2, <1>3, <1>4, <1>7, Parse1Is
<1>10. next \in (IF e = "client" THEN {"Flight1", "Flight3", "Flight5"}
                 ELSE {"Flight0", "Flight2", "Flight4", "Flight6"})
  BY <1>2, <1>7
<1>11. FirstOf(next) <= NextOf(flight[e])
  BY <1>1, <1>7 DEF FirstOf, NextOf
<1>12. state[e].handshake_send_sequence =
         IF next = "Flight2" /\ Msg(e, 0) \in cache[e] THEN NextOf(next) ELSE FirstOf(next)
  BY <1>1, <1>7 DEF EndInv, NumbersInv, FirstOf, NextOf
<1>13. st.handshake_recv_sequence = RecvOf(next) /\ RecvOf(next) <= Got(e)
  BY <1>2, <1>3, <1>6, <1>7 DEF RecvOf
<1>14. state[e].remote_epoch = 0
  BY <1>1, <1>2, EpochFlight DEF StateType
<1>15. next # "Flight6"
  BY <1>7
<1> QED BY <1>1, <1>6, <1>8, <1>9, <1>10, <1>11, <1>12, <1>13, <1>14, <1>15, FindsFlight

(* WaitFlight3: the server's key exchange makes Flight 5. *)
LEMMA WaitFlight3Keeps ==
    ASSUME IInv, NEW e \in End, WaitFlight3(e)
    PROVE  IInv'
<1>1. /\ fsm[e] = "Waiting" /\ flight[e] = "Flight3" /\ ctx[e].reader = "wait"
      /\ HandleResult(e, Parse3(e)) /\ EndInv(e) /\ state[e] \in StateType
  BY EndFacts, EndTypes DEF WaitFlight3, HandshakeRecv
<1>2. e = "client"
  BY <1>1 DEF EndInv, RolesInv, End
<1>3. state[e].remote_epoch = 0
  BY <1>1, <1>2, EpochFlight DEF StateType
<1>4. CASE ~(Got("client") >= 6)
  <2>1. Parse3(e) = Parsed("keep_reading", state[e])
    BY <1>1, <1>2, <1>4, Parse3Is
  <2> QED BY <1>1, <1>3, <2>1, KeepsReading
<1>5. CASE Got("client") >= 6
  <2>1. PICK st : st = [state["client"] EXCEPT !.handshake_recv_sequence = 6, !.cipher_suite = "chosen",
                                               !.peer_certificates = TRUE]
    OBVIOUS
  <2>2. /\ st.handshake_recv_sequence = 6 /\ st.cipher_suite = "chosen"
        /\ st.handshake_send_sequence = state[e].handshake_send_sequence
        /\ st.master_secret = state[e].master_secret
        /\ st.local_epoch = state[e].local_epoch
        /\ st.remote_epoch = state[e].remote_epoch
        /\ st.cookie = state[e].cookie /\ st.verified = state[e].verified
        /\ st \in StateType
    BY <1>1, <1>2, <2>1 DEF StateType
  <2>3. PICK next : next = "Flight5"
    OBVIOUS
  <2>4. next \in Flight /\ ~(next = "Flight5" /\ flight[e] = "Flight5")
    BY <1>1, <2>3 DEF Flight
  <2>5. HandleResult(e, Parsed(next, st))
    BY <1>1, <1>2, <1>5, <2>1, <2>3, Parse3Is
  <2>6. next \in (IF e = "client" THEN {"Flight1", "Flight3", "Flight5"}
                  ELSE {"Flight0", "Flight2", "Flight4", "Flight6"})
    BY <1>2, <2>3
  <2>7. FirstOf(next) <= NextOf(flight[e])
    BY <1>1, <2>3 DEF FirstOf, NextOf
  <2>8. state[e].handshake_send_sequence =
          IF next = "Flight2" /\ Msg(e, 0) \in cache[e] THEN NextOf(next) ELSE FirstOf(next)
    BY <1>1, <2>3 DEF EndInv, NumbersInv, FirstOf, NextOf
  <2>9. st.handshake_recv_sequence = RecvOf(next) /\ RecvOf(next) <= Got(e)
    BY <1>2, <1>5, <2>2, <2>3 DEF RecvOf
  <2>10. st.cookie = Cookie
    BY <1>1, <2>2 DEF EndInv, KeysInv
  <2>11. next # "Flight6" /\ st.cipher_suite # "initialized"
    BY <2>2, <2>3
  <2> QED BY <1>1, <1>3, <2>2, <2>4, <2>5, <2>6, <2>7, <2>8, <2>9, <2>10, <2>11, FindsFlight
<1> QED BY <1>4, <1>5

(* WaitFlight5: the server's Finished ends the client's handshake. *)
LEMMA WaitFlight5Keeps ==
    ASSUME IInv, NEW e \in End, WaitFlight5(e)
    PROVE  IInv'
<1>1. /\ fsm[e] = "Waiting" /\ flight[e] = "Flight5" /\ ctx[e].reader = "wait"
      /\ HandleResult(e, Parse5(e)) /\ EndInv(e) /\ state[e] \in StateType
  BY EndFacts, EndTypes DEF WaitFlight5, HandshakeRecv
<1>2. e = "client"
  BY <1>1 DEF EndInv, RolesInv, End
<1>3. CASE Got("client") = 7
  <2>1. PICK next : next = "Flight5"
    OBVIOUS
  <2>2. next \in Flight \cup {"keep_reading"} /\ HandleResult(e, Parsed(next, state[e]))
    BY <1>1, <1>2, <1>3, <2>1, Parse5Is DEF Flight
  <2>3. /\ state' = [state EXCEPT ![e] = state[e]]
        /\ fsm' = [fsm EXCEPT ![e] = "Completing"] /\ flight' = flight
        /\ net' \subseteq net /\ Resume(e)
        /\ UNCHANGED <<flights, cache, decrypted, closed>>
    BY <1>1, <2>1, <2>2, HandledIs
  <2>4. flight' = [flight EXCEPT ![e] = flight[e]]
    BY <2>3, TypeIs DEF IInv
  <2>5. PICK x : x = "Completing"
    OBVIOUS
  <2>6. /\ x \in {"Waiting", "Preparing", "Completing"} /\ fsm' = [fsm EXCEPT ![e] = x]
        /\ x # "Preparing" /\ x = "Completing"
    BY <2>3, <2>5
  <2>7. /\ flight[e] \in Flight /\ flight[e] # "Flight6"
        /\ flight[e] \in (IF e = "client" THEN {"Flight1", "Flight3", "Flight5"}
                          ELSE {"Flight0", "Flight2", "Flight4", "Flight6"})
        /\ state[e].handshake_recv_sequence = RecvOf(flight[e]) /\ RecvOf(flight[e]) <= Got(e)
        /\ flight[e] \in {"Flight2", "Flight3", "Flight4", "Flight5", "Flight6"} => state[e].cookie = Cookie
    BY <1>1, <1>2 DEF EndInv, RolesInv, NumbersInv, KeysInv, Flight
  <2>8. Got(e) = 7
    BY <1>2, <1>3
  <2> QED BY <1>1, <1>2, <2>3, <2>4, <2>6, <2>7, <2>8, WaitStep
<1>4. CASE Got("client") # 7
  <2>1. Parse5(e) = Parsed("keep_reading", state[e])
    BY <1>1, <1>2, <1>4, Parse5Is
  <2>2. state[e].remote_epoch # 1
    <3>1. ClientInv
      BY DEF IInv
    <3> QED BY <1>1, <1>2, <1>4, <3>1 DEF ClientInv
  <2> QED BY <1>1, <2>1, <2>2, KeepsReading
<1> QED BY <1>3, <1>4

(* WaitFlight4, while the key exchange is not complete. *)
LEMMA WaitFlight4IncompleteKeeps ==
    ASSUME IInv, NEW e \in End, WaitFlight4Incomplete(e)
    PROVE  IInv'
<1>1. /\ fsm[e] = "Waiting" /\ flight[e] = "Flight4" /\ ctx[e].reader = "wait"
      /\ KeyExchange(e).ok => CertificateRefused(e, KeyExchange(e).types)
      /\ HandleResult(e, Parsed(IF KeyExchange(e).ok THEN "error" ELSE "keep_reading", state[e]))
      /\ EndInv(e)
  BY EndFacts DEF WaitFlight4Incomplete, HandshakeRecv
<1>2. e = "server"
  BY <1>1 DEF EndInv, RolesInv, End
<1>3. ~KeyExchange(e).ok
  BY <1>1, <1>2, CertificateAccepted
<1>4. HandleResult(e, Parsed("keep_reading", state[e]))
  BY <1>1, <1>3
<1> QED BY <1>1, <1>2, <1>4, KeepsReading

(* WaitFlight4, after the queue: the client's Finished makes Flight 6, and by then *)
(* its CertificateVerify has been checked.                                         *)
LEMMA WaitFlight4FinishedKeeps ==
    ASSUME IInv, NEW e \in End, WaitFlight4Finished(e)
    PROVE  IInv'
<1>1. /\ fsm[e] = "Draining" /\ ctx[e].reader # "drain"
      /\ HandleResult(e, Parse4Finished(e)) /\ EndInv(e) /\ state[e] \in StateType
  BY EndFacts, EndTypes DEF WaitFlight4Finished
<1>2. e = "server" /\ flight[e] = "Flight4"
  BY <1>1 DEF EndInv, RolesInv, End
<1>3. ctx[e].reader = "wait" /\ (Got("server") >= 5 => state["server"].verified)
  BY <1>1, <1>2 DEF IInv, ServerInv
<1>4. CASE Got("server") # 6
  <2>1. Parse4Finished(e) = Parsed("keep_reading", state[e])
    BY <1>1, <1>2, <1>4, Parse4FinishedIs
  <2> QED BY <1>1, <1>2, <1>3, <2>1, KeepsReading
<1>5. CASE Got("server") = 6
  <2>1. PICK st : st = [state["server"] EXCEPT !.handshake_recv_sequence = 6]
    OBVIOUS
  <2>2. /\ st.handshake_recv_sequence = 6 /\ st.cipher_suite = state[e].cipher_suite
        /\ st.handshake_send_sequence = state[e].handshake_send_sequence
        /\ st.master_secret = state[e].master_secret
        /\ st.local_epoch = state[e].local_epoch
        /\ st.remote_epoch = state[e].remote_epoch
        /\ st.cookie = state[e].cookie /\ st.verified = state[e].verified
        /\ st \in StateType
    BY <1>1, <1>2, <2>1 DEF StateType
  <2>3. PICK next : next = "Flight6"
    OBVIOUS
  <2>4. next \in Flight /\ ~(next = "Flight5" /\ flight[e] = "Flight5")
    BY <1>2, <2>3 DEF Flight
  <2>5. HandleResult(e, Parsed(next, st))
    BY <1>1, <1>2, <1>5, <2>1, <2>3, Parse4FinishedIs
  <2>6. next \in (IF e = "client" THEN {"Flight1", "Flight3", "Flight5"}
                  ELSE {"Flight0", "Flight2", "Flight4", "Flight6"})
    BY <1>2, <2>3
  <2>7. FirstOf(next) <= NextOf(flight[e])
    BY <1>2, <2>3 DEF FirstOf, NextOf
  <2>8. state[e].handshake_send_sequence =
          IF next = "Flight2" /\ Msg(e, 0) \in cache[e] THEN NextOf(next) ELSE FirstOf(next)
    BY <1>1, <1>2, <2>3 DEF EndInv, NumbersInv, FirstOf, NextOf
  <2>9. st.handshake_recv_sequence = RecvOf(next) /\ RecvOf(next) <= Got(e)
    BY <1>2, <1>5, <2>2, <2>3 DEF RecvOf
  <2>10. st.cookie = Cookie /\ st.verified /\ e # "client"
    BY <1>1, <1>2, <1>3, <1>5, <2>2 DEF EndInv, KeysInv
  <2> QED BY <1>1, <1>3, <2>2, <2>4, <2>5, <2>6, <2>7, <2>8, <2>9, <2>10, FindsFlight
<1> QED BY <1>4, <1>5

\* The State that the client's key exchange leaves.
Exchanged(st, types, secret) == InitializeCipherSuite(ClientCertificate(st, types), secret)

(* It has keys, and knows which of the optional messages came. *)
LEMMA ExchangedIs ==
    ASSUME NEW st \in StateType, NEW types, NEW secret \in SUBSET Identity
    PROVE  LET s == Exchanged(st, types, secret)
           IN  /\ s \in StateType /\ s.cipher_suite = "initialized"
               /\ s.master_secret = (IF st.cipher_suite = "initialized" THEN st.master_secret ELSE secret)
               /\ s.handshake_send_sequence = st.handshake_send_sequence
               /\ s.handshake_recv_sequence = st.handshake_recv_sequence
               /\ s.local_epoch = st.local_epoch /\ s.remote_epoch = st.remote_epoch
               /\ s.cookie = st.cookie
               /\ "Certificate" \in types => s.peer_certificates
               /\ "CertificateVerify" \in types => s.verified
<1>1. PICK c : c = ClientCertificate(st, types)
  OBVIOUS
<1>2. PICK b : b = (st.peer_certificates \/ "Certificate" \in types)
  OBVIOUS
<1>3. PICK v : v = (st.verified \/ "CertificateVerify" \in types)
  OBVIOUS
<1>4. b \in BOOLEAN /\ v \in BOOLEAN
  BY <1>2, <1>3
<1>5. c = [st EXCEPT !.peer_certificates = b, !.verified = v]
  BY <1>1, <1>2, <1>3 DEF ClientCertificate
<1>6. /\ c \in StateType /\ c.cipher_suite = st.cipher_suite /\ c.master_secret = st.master_secret
      /\ c.handshake_send_sequence = st.handshake_send_sequence
      /\ c.handshake_recv_sequence = st.handshake_recv_sequence
      /\ c.local_epoch = st.local_epoch /\ c.remote_epoch = st.remote_epoch /\ c.cookie = st.cookie
      /\ c.peer_certificates = b /\ c.verified = v
  BY <1>4, <1>5 DEF StateType
<1>7. PICK s : s = InitializeCipherSuite(c, secret)
  OBVIOUS
<1>8. /\ s \in StateType /\ s.cipher_suite = "initialized"
      /\ s.master_secret = (IF c.cipher_suite = "initialized" THEN c.master_secret ELSE secret)
      /\ s.handshake_send_sequence = c.handshake_send_sequence
      /\ s.handshake_recv_sequence = c.handshake_recv_sequence
      /\ s.local_epoch = c.local_epoch /\ s.remote_epoch = c.remote_epoch /\ s.cookie = c.cookie
      /\ s.peer_certificates = c.peer_certificates /\ s.verified = c.verified
  <2>1. CASE c.cipher_suite = "initialized"
    BY <1>6, <1>7, <2>1 DEF InitializeCipherSuite
  <2>2. CASE c.cipher_suite # "initialized"
    <3>1. s = [c EXCEPT !.cipher_suite = "initialized", !.master_secret = secret]
      BY <1>7, <2>2 DEF InitializeCipherSuite
    <3> QED BY <1>6, <2>2, <3>1 DEF StateType
  <2> QED BY <2>1, <2>2
<1>9. s = Exchanged(st, types, secret)
  BY <1>1, <1>7 DEF Exchanged
<1>10. /\ "Certificate" \in types => s.peer_certificates
       /\ "CertificateVerify" \in types => s.verified
  BY <1>2, <1>3, <1>6, <1>8
<1> QED BY <1>6, <1>8, <1>9, <1>10

(* WaitFlight4, once the key exchange is complete: the keys are the client's, and *)
(* the records that waited for them are handled.                                  *)
LEMMA WaitFlight4KeyExchangeKeeps ==
    ASSUME IInv, NEW e \in End, WaitFlight4KeyExchange(e)
    PROVE  IInv'
<1>1. /\ fsm[e] = "Waiting" /\ flight[e] = "Flight4" /\ ctx[e].reader = "wait" /\ KeyExchange(e).ok
      /\ state' = [state EXCEPT ![e] = Exchanged(state[e], KeyExchange(e).types, SessionHash(e, {}))]
      /\ fsm' = [fsm EXCEPT ![e] = "Draining"]
      /\ UNCHANGED <<flight, flights, cache, decrypted, closed, net>>
  BY DEF WaitFlight4KeyExchange, HandshakeRecv, Exchanged
<1>2. /\ Peer(e) # e /\ Peer(e) \in End /\ OwnInv(e) /\ TypeOK /\ ctx[e] \in CtxType /\ state[e] \in StateType
      /\ state \in [End -> StateType] /\ ctx \in [End -> CtxType]
      /\ fsm \in [End -> {"Preparing", "Sending", "Waiting", "Draining", "Completing", "Finished", "Failed"}]
  BY Ends, OwnFacts, TypeIs, EndTypes DEF IInv
<1>3. e = "server" /\ "server" \in End
  BY <1>1, <1>2 DEF OwnInv, RolesInv, End
<1>4. Got("server") >= 4 /\ Got("server") \in Nat
  BY <1>1, <1>3, KeyExchangeIs, EndFacts
<1>5. SessionHash(e, {}) = Keys
  BY <1>1, <1>3, <1>4, ServerKeys
<1>6. PICK types : types = KeyExchange(e).types
  OBVIOUS
<1>7. "Certificate" \in types /\ (Got("server") >= 5 => "CertificateVerify" \in types)
  BY <1>1, <1>3, <1>4, <1>6, KeyExchangeIs
<1>8. PICK st : st = Exchanged(state[e], types, Keys)
  OBVIOUS
<1>9. Keys \in SUBSET Identity
  BY Bodies
<1>10. /\ st \in StateType /\ st.cipher_suite = "initialized"
       /\ st.master_secret = (IF state[e].cipher_suite = "initialized" THEN state[e].master_secret ELSE Keys)
       /\ st.handshake_send_sequence = state[e].handshake_send_sequence
       /\ st.handshake_recv_sequence = state[e].handshake_recv_sequence
       /\ st.local_epoch = state[e].local_epoch /\ st.remote_epoch = state[e].remote_epoch
       /\ st.cookie = state[e].cookie
       /\ "Certificate" \in types => st.peer_certificates
       /\ "CertificateVerify" \in types => st.verified
  BY <1>2, <1>8, <1>9, ExchangedIs
<1>11. state' = [state EXCEPT ![e] = st]
  BY <1>1, <1>5, <1>6, <1>8
<1>12. PICK queue : queue = ctx[e].encrypted_packets
  OBVIOUS
<1>13. PICK c : c = [ctx[e] EXCEPT !.reader = "drain", !.rest = queue, !.encrypted_packets = <<>>]
  OBVIOUS
<1>14. queue \in Seq(RecordType) /\ <<>> \in Seq(RecordType)
  BY <1>2, <1>12 DEF CtxType
<1>15. /\ c \in CtxType /\ c.reader = "drain" /\ c.rest = queue /\ c.encrypted_packets = <<>>
       /\ c.fragments = ctx[e].fragments
       /\ c.current_message_sequence_number = ctx[e].current_message_sequence_number
  BY <1>2, <1>13, <1>14 DEF CtxType
<1>16. ctx' = [ctx EXCEPT ![e] = c]
  <2>1. ctx' = [ctx EXCEPT ![e].reader = "drain", ![e].rest = queue, ![e].encrypted_packets = <<>>]
    BY <1>12 DEF WaitFlight4KeyExchange
  <2> QED BY <1>2, <1>13, <2>1
<1>17. /\ ctx'[e] = c /\ ctx'[Peer(e)] = ctx[Peer(e)] /\ ctx' \in [End -> CtxType]
       /\ state'[e] = st /\ state'[Peer(e)] = state[Peer(e)] /\ state' \in [End -> StateType]
       /\ fsm'[e] = "Draining" /\ fsm'[Peer(e)] = fsm[Peer(e)]
       /\ fsm' \in [End -> {"Preparing", "Sending", "Waiting", "Draining", "Completing", "Finished", "Failed"}]
  BY <1>1, <1>2, <1>10, <1>11, <1>15, <1>16
<1>18. TypeOK'
  BY <1>1, <1>2, <1>17 DEF TypeOK, StateType, CtxType
<1>19. OtherSame(e) /\ Progress(e) /\ Progress(Peer(e)) /\ Got(e)' = Got(e)
  BY <1>1, <1>15, <1>17 DEF OtherSame, Progress, Got
<1>20. RolesInv(e)'
  BY <1>1, <1>2, <1>17 DEF OwnInv, RolesInv
<1>21. NumbersInv(e)'
  BY <1>1, <1>2, <1>10, <1>17, <1>19 DEF OwnInv, NumbersInv
<1>22. CacheInv(e)'
  BY <1>1, <1>2, <1>10, <1>17, <1>19 DEF OwnInv, CacheInv
<1>23. LinkInv(e)'
  BY <1>1, <1>2, <1>15, <1>17, <1>19 DEF OwnInv, LinkInv
<1>24. KeysInv(e)'
  <2>1. KeysInv(e)
    BY <1>2 DEF OwnInv
  <2>2. Initialized(e)' /\ st.master_secret = Keys
    BY <1>10, <1>17, <2>1 DEF KeysInv, Initialized
  <2> QED BY <1>1, <1>10, <1>17, <2>1, <2>2 DEF KeysInv
<1>25. FlightsInv(e)'
  <2>1. FlightsInv(e) /\ flights'[e] = flights[e] /\ flight'[e] = flight[e] /\ fsm[e] # "Preparing"
    BY <1>1, <1>2 DEF OwnInv
  <2> QED BY <2>1 DEF FlightsInv
<1>26. RecordsInv(e)'
  <2>1. RecordsOK(Peer(e), queue)
    BY <1>2, <1>12 DEF OwnInv, RecordsInv
  <2>2. RecordsOK(Peer(e), queue)'
    BY <1>2, <1>19, <2>1, RecordsStay
  <2>3. \A i \in 1 .. Len(queue) : RecordOK(Peer(e), queue[i])'
    BY <2>2 DEF RecordsOK
  <2>4. ctx'[e].rest = queue /\ ctx'[e].encrypted_packets = <<>> /\ Len(<<>>) = 0
    BY <1>15, <1>17
  <2>5. /\ \A i \in 1 .. Len(ctx'[e].rest) : RecordOK(Peer(e), ctx[e].rest[i])'
        /\ \A i \in 1 .. Len(ctx'[e].encrypted_packets) : RecordOK(Peer(e), ctx[e].encrypted_packets[i])'
    BY <2>3, <2>4
  <2> QED BY <2>5 DEF RecordsInv, RecordsOK
<1>27. decrypted'[e] > 0 => fsm'[e] \in {"Completing", "Finished"}
  BY <1>1, <1>2 DEF OwnInv
<1>28. ServerInv'
  <2>1. ServerInv
    BY DEF IInv
  <2>2. LateOnly(queue) /\ LateOnly(<<>>)
    BY <1>3, <1>12, <2>1 DEF ServerInv, LateOnly
  <2> QED BY <1>1, <1>3, <1>4, <1>7, <1>10, <1>15, <1>17, <1>19, <2>2 DEF ServerInv
<1>29. Msg("server", 6) \notin cache'["server"]
  BY <1>1, <1>2, <1>3 DEF OwnInv
<1>30. OwnInv(e)'
  BY <1>3, <1>20, <1>21, <1>22, <1>23, <1>24, <1>25, <1>26, <1>27, <1>28, <1>29 DEF OwnInv
<1>31. NetInv'
  <2>1. PICK ds : ds = {}
    OBVIOUS
  <2>2. /\ net' \subseteq net \cup ds
        /\ \A d \in ds : d.to = Peer(e) /\ RecordsOK(e, d.recs)' /\ (e = "server" => Whole(d.recs))
    BY <1>1, <2>1
  <2> QED BY <1>19, <2>2, NetStep
<1> QED BY <1>18, <1>19, <1>30, <1>31, StepOfOne

-----------------------------------------------------------------------------
(***************************************************************************)
(* The theorems.                                                           *)
(***************************************************************************)

(* The invariant holds when both connections start: the script has not begun. *)
LEMMA InitInv == Init => IInv
<1> SUFFICES ASSUME Init PROVE IInv
  OBVIOUS
<1>1. PICK s : s = InitialState
  OBVIOUS
<1>2. PICK c : c = InitialCtx
  OBVIOUS
<1>3. <<>> \in Seq(RecordType) /\ <<>> \in Seq(PacketType) /\ Len(<<>>) = 0
  OBVIOUS
<1>4. /\ s \in StateType /\ s.handshake_send_sequence = 0 /\ s.handshake_recv_sequence = 0
      /\ s.cipher_suite = "none" /\ s.remote_epoch = 0
  BY <1>1 DEF InitialState, StateType
<1>5. /\ c \in CtxType /\ c.reader = "recv" /\ c.rest = <<>> /\ c.encrypted_packets = <<>>
      /\ c.has_handshake = FALSE /\ c.fragments = {} /\ c.current_message_sequence_number = 0
  BY <1>2, <1>3 DEF InitialCtx, CtxType
<1>6. /\ fsm = [e \in End |-> "Preparing"]
      /\ flight = [e \in End |-> IF e = "client" THEN "Flight1" ELSE "Flight0"]
      /\ flights = [e \in End |-> <<>>] /\ state = [e \in End |-> s]
      /\ cache = [e \in End |-> {}] /\ ctx = [e \in End |-> c]
      /\ decrypted = [e \in End |-> 0] /\ closed = [e \in End |-> FALSE] /\ net = {}
  BY <1>1, <1>2 DEF Init
<1>7. TypeOK
  <2>1. /\ fsm \in [End -> {"Preparing", "Sending", "Waiting", "Draining", "Completing", "Finished", "Failed"}]
        /\ flight \in [End -> Flight]
    BY <1>6 DEF Flight
  <2>2. flights \in [End -> Seq(PacketType)] /\ state \in [End -> StateType] /\ ctx \in [End -> CtxType]
    BY <1>3, <1>4, <1>5, <1>6
  <2>3. /\ cache \in [End -> SUBSET MessageType] /\ decrypted \in [End -> 0 .. 1]
        /\ closed \in [End -> BOOLEAN] /\ net \in SUBSET [to : End, recs : Seq(RecordType)]
    BY <1>6
  <2> QED BY <2>1, <2>2, <2>3, TypeIs
<1>8. ASSUME NEW e \in End PROVE EndInv(e)
  <2>1. /\ fsm[e] = "Preparing" /\ flight[e] = (IF e = "client" THEN "Flight1" ELSE "Flight0")
        /\ state[e] = s /\ cache[e] = {} /\ ctx[e] = c
    BY <1>6
  <2>2. Got(e) = 0
    BY <1>5, <2>1 DEF Got
  <2>3. \A n \in Number(e) \cup Number(Peer(e)) : n \in Nat
    BY Tables, Ends
  <2>4. LastOf(Peer(e)) \in Nat /\ Peer(e) \in End
    BY Numbers, Ends
  <2>5. RolesInv(e)
    BY <2>1 DEF RolesInv
  <2>6. FirstOf(flight[e]) = 0 /\ RecvOf(flight[e]) = 0
    BY <2>1 DEF FirstOf, RecvOf
  <2>7. NumbersInv(e)
    BY <1>4, <2>1, <2>2, <2>4, <2>6 DEF NumbersInv
  <2>8. CacheInv(e)
    BY <2>1, <2>2, <2>3, <2>6 DEF CacheInv
  <2>9. LinkInv(e)
    BY <1>5, <2>1, <2>2, <2>3 DEF LinkInv
  <2>10. KeysInv(e)
    BY <1>4, <2>1 DEF KeysInv, Initialized
  <2>11. FlightsInv(e)
    BY <2>1 DEF FlightsInv
  <2>12. RecordsInv(e)
    BY <1>3, <1>5, <2>1 DEF RecordsInv, RecordsOK
  <2> QED BY <2>5, <2>7, <2>8, <2>9, <2>10, <2>11, <2>12 DEF EndInv
<1>9. /\ fsm["server"] = "Preparing" /\ fsm["client"] = "Preparing" /\ cache["server"] = {}
      /\ ctx["server"] = c /\ ctx["client"] = c /\ state["client"] = s
      /\ flight["server"] = "Flight0"
  BY <1>6 DEF End
<1>10. FinishInv
  BY <1>9 DEF FinishInv
<1>11. NetInv /\ NoEarlyData
  BY <1>6 DEF NetInv, NoEarlyData, Concluded
<1>12. ServerInv
  BY <1>3, <1>5, <1>9 DEF ServerInv, LateOnly
<1>13. ClientInv
  BY <1>3, <1>4, <1>5, <1>9 DEF ClientInv, Whole
<1> QED BY <1>7, <1>8, <1>10, <1>11, <1>12, <1>13 DEF IInv

(* The invariant depends on nothing but the variables. *)
LEMMA StutterKeeps ==
    ASSUME IInv, UNCHANGED vars
    PROVE  IInv'
<1>1. TypeOK'
  BY DEF vars, IInv, TypeOK
<1>2. PICK e \in End : TRUE
  BY Ends
<1>3. OwnInv(e) /\ ctx'[e] = ctx[e]
  BY OwnFacts DEF vars
<1>4. TaskSame(e) /\ OtherSame(e) /\ Progress(e) /\ Progress(Peer(e))
  BY DEF vars, TaskSame, OtherSame, Progress
<1>5. RolesInv(e)' /\ NumbersInv(e)' /\ CacheInv(e)' /\ LinkInv(e)' /\ KeysInv(e)' /\ FlightsInv(e)'
  BY <1>4, TaskStays
<1>6. RecordsInv(e)'
  BY <1>3, <1>4, RecordsInvStays DEF OwnInv
<1>7. ServerInv' /\ ClientInv'
  BY DEF vars, IInv, ServerInv, ClientInv, Got
<1>8. FinishInv' /\ NoEarlyData'
  BY DEF vars, IInv, FinishInv, NoEarlyData, Concluded, Got
<1>9. OwnInv(e)'
  BY <1>5, <1>6, <1>7, <1>8 DEF OwnInv, FinishInv, NoEarlyData, Concluded
<1>10. NetInv'
  <2>1. PICK ds : ds = {}
    OBVIOUS
  <2>2. /\ net' \subseteq net \cup ds
        /\ \A d \in ds : d.to = Peer(e) /\ RecordsOK(e, d.recs)' /\ (e = "server" => Whole(d.recs))
    BY <2>1 DEF vars
  <2> QED BY <1>4, <2>2, NetStep
<1> QED BY <1>1, <1>4, <1>9, <1>10, StepOfOne

(* Every step of either end keeps it. *)
LEMMA NextInv == IInv /\ [Next]_vars => IInv'
<1> SUFFICES ASSUME IInv, [Next]_vars PROVE IInv'
  OBVIOUS
<1>1. CASE UNCHANGED vars
  BY <1>1, StutterKeeps
<1>2. CASE Lose
  BY <1>2, ReadKeeps
<1>3. ASSUME NEW e \in End,
             \/ Prepare(e) \/ Send(e) \/ RetransmitTimer(e) \/ Wait(e) \/ Complete(e)
             \/ Recv(e) \/ HandleRecord(e)
             \/ Read(e) \/ Write(e) \/ Close(e)
      PROVE  IInv'
  <2>1. CASE Prepare(e)
    BY <2>1, PrepareKeeps
  <2>2. CASE Send(e)
    BY <2>2, SendKeeps
  <2>3. CASE RetransmitTimer(e)
    BY <2>3, RetransmitKeeps
  <2>4. CASE Wait(e)
    BY <2>4, WaitFlight0Keeps, WaitFlight1Keeps, WaitFlight2Keeps, WaitFlight3Keeps, WaitFlight5Keeps,
       WaitFlight4IncompleteKeeps, WaitFlight4KeyExchangeKeeps, WaitFlight4FinishedKeeps DEF Wait
  <2>5. CASE Recv(e)
    BY <2>5, RecvKeeps
  <2>6. CASE HandleRecord(e)
    BY <2>6, EnqueueKeeps, DiscardKeeps, BufferHandshakeKeeps, ChangeCipherSpecKeeps,
       ReadApplicationDataKeeps, ApplicationKeeps, RecordsDoneKeeps, QueueDoneKeeps DEF HandleRecord
  <2>7. CASE Read(e)
    BY <2>7, ReadKeeps
  <2>8. CASE Write(e) \/ Close(e)
    BY <2>8, ApplicationKeeps
  <2>9. CASE Complete(e)
    BY <2>9, CompleteKeeps
  <2> QED BY <1>3, <2>1, <2>2, <2>3, <2>4, <2>5, <2>6, <2>7, <2>8, <2>9
<1> QED BY <1>1, <1>2, <1>3 DEF Next

(* The inductive invariant. *)
LEMMA Invariant == Spec => []IInv
BY InitInv, NextInv, PTL DEF Spec

(* The invariant says what DtlsInv says: the caches hold messages of one script,  *)
(* who reads in epoch 1 has keys and a peer that went there, the client finishes  *)
(* with the server's Finished, and only a finished end delivers data.             *)
LEMMA InvImpliesDtls ==
    ASSUME IInv
    PROVE  DtlsInv
<1>1. /\ EndInv("client") /\ EndInv("server") /\ "client" \in End /\ "server" \in End
      /\ Peer("client") = "server" /\ Peer("server") = "client"
      /\ LastOf("client") = 5 /\ LastOf("server") = 6
      /\ Got("client") \in Nat
  BY EndFacts, Ends DEF LastOf
<1>2. CachesAgree
  <2> SUFFICES ASSUME NEW m \in cache["client"], NEW n \in cache["server"], m.from = n.from, m.seq = n.seq
               PROVE  m = n
    BY DEF CachesAgree
  <2>1. m \in Script /\ n \in Script
    BY <1>1 DEF EndInv, CacheInv
  <2>2. m = Msg(m.from, m.seq) /\ n = Msg(n.from, n.seq)
    BY <2>1, ScriptIs
  <2> QED BY <2>2
<1>3. state["client"].remote_epoch = 1 => Initialized("client") /\ state["server"].local_epoch = 1
  <2> SUFFICES ASSUME state["client"].remote_epoch = 1
               PROVE  Initialized("client") /\ state["server"].local_epoch = 1
    OBVIOUS
  <2>1. Initialized("client") /\ Msg("server", 6) \in cache["server"]
    BY <1>1 DEF EndInv, KeysInv
  <2>2. fsm["server"] \in {"Completing", "Finished"} /\ 6 < state["server"].handshake_send_sequence
    BY <2>1, Holds DEF IInv, FinishInv
  <2>3. flight["server"] = "Flight6"
    BY <1>1, <2>2 DEF EndInv, RolesInv, NumbersInv, FirstOf, NextOf
  <2> QED BY <1>1, <2>1, <2>2, <2>3 DEF EndInv, KeysInv
<1>4. state["server"].remote_epoch = 1 => Initialized("server") /\ state["client"].local_epoch = 1
  <2> SUFFICES ASSUME state["server"].remote_epoch = 1
               PROVE  Initialized("server") /\ state["client"].local_epoch = 1
    OBVIOUS
  <2>1. Initialized("server") /\ Msg("client", 5) \in cache["client"]
    BY <1>1 DEF EndInv, KeysInv
  <2>2. 5 < state["client"].handshake_send_sequence
    BY <2>1, Holds
  <2>3. flight["client"] = "Flight5" /\ fsm["client"] # "Preparing"
    BY <1>1, <2>2 DEF EndInv, RolesInv, NumbersInv, FirstOf, NextOf
  <2> QED BY <1>1, <2>1, <2>3 DEF EndInv, KeysInv
<1>5. EpochHasKeys
  BY <1>1, <1>3, <1>4 DEF EpochHasKeys, End
<1>6. FinishedInOrder
  <2> SUFFICES ASSUME fsm["client"] \in {"Completing", "Finished"} PROVE fsm["server"] \in {"Completing", "Finished"}
    BY DEF FinishedInOrder, Concluded
  <2>1. Got("client") = 7
    BY DEF IInv, FinishInv
  <2>2. 6 \in Number("server") /\ 6 < Got("client")
    BY <2>1, Numbers
  <2>3. Msg("server", 6) \in cache["server"]
    BY <1>1, <2>2 DEF EndInv, LinkInv
  <2> QED BY <2>3 DEF IInv, FinishInv
<1>7. TypeOK /\ NoEarlyData
  BY DEF IInv
<1> QED BY <1>2, <1>5, <1>6, <1>7 DEF DtlsInv

(* The two ends stay in step whatever is lost, delayed or overtaken: types, one   *)
(* transcript in both HandshakeCaches, no epoch without keys, the server finishes *)
(* before the client, and no application data is delivered before the handshake   *)
(* is over.                                                                       *)
THEOREM DtlsSafe == Spec => []DtlsInv
<1>1. IInv => DtlsInv
  BY InvImpliesDtls
<1> QED BY <1>1, Invariant, PTL

(* Loss, delay, reordering and retransmission never make the handshake fail: no   *)
(* parser ever meets a wrong cookie, a missing certificate or a verify_data other *)
(* than the one it computes, and no alert arrives before a connection is up.      *)
THEOREM HandshakeNeverFails == Spec => []NoFailure
<1>1. IInv => NoFailure
  BY DEF IInv, EndInv, RolesInv, NoFailure
<1> QED BY <1>1, Invariant, PTL

(* Extended Master Secret: the keys the client computes from the numbers it       *)
(* predicts are those the server computes from the messages it received.          *)
THEOREM SameKeys == Spec => []KeysAgree
<1>1. IInv => KeysAgree
  <2> SUFFICES ASSUME IInv PROVE KeysAgree
    OBVIOUS
  <2>1. EndInv("client") /\ EndInv("server")
    BY EndFacts, Ends
  <2> QED BY <2>1 DEF EndInv, KeysInv, KeysAgree
<1> QED BY <1>1, Invariant, PTL

(* RequireAnyClientCert: a server that has finished has checked the client's      *)
(* CertificateVerify.                                                             *)
THEOREM ServerVerifiesClient == Spec => []ClientVerified
<1>1. IInv => ClientVerified
  <2> SUFFICES ASSUME IInv, fsm["server"] \in {"Completing", "Finished"} PROVE state["server"].verified
    BY DEF ClientVerified, Concluded
  <2>1. EndInv("server")
    BY EndFacts, Ends
  <2>2. flight["server"] = "Flight6"
    BY <2>1 DEF EndInv, RolesInv
  <2> QED BY <2>2 DEF IInv, ServerInv
<1> QED BY <1>1, Invariant, PTL
=============================================================================
