------------------------ MODULE SctpHandshakeProofs ------------------------
(***************************************************************************)
(* Theorems about SctpHandshake, for every number of retransmissions, with *)
(* and without failing connections.  HandshakeInv is inductive; PeerHasEchoed *)
(* is inductive together with it and with AnswersAreTrue.                  *)
(***************************************************************************)
EXTENDS SctpHandshake, TLAPS

(* Each end has exactly one other end.                                       *)
LEMMA OtherEnd ==
    ASSUME NEW p \in Peer
    PROVE  /\ Other(p) \in Peer /\ Other(p) # p
           /\ \A q \in Peer : q = p \/ q = Other(p)
           /\ Other(Other(p)) = p
           /\ p \in Clients => Other(p) \notin Clients
<1>1. PICK a \in Peer, b \in Peer : a # b /\ Peer = {a, b}
  BY HandshakeAssumption DEF HandshakeAssumption
<1>2. \E q \in Peer : q # p
  BY <1>1
<1>3. Other(p) \in Peer /\ Other(p) # p
  BY <1>2 DEF Other
<1>4. \A q \in Peer : q = p \/ q = Other(p)
  BY <1>1, <1>3
<1>5. \E q \in Peer : q # Other(p)
  BY <1>3
<1>6. Other(Other(p)) \in Peer /\ Other(Other(p)) # Other(p)
  BY <1>5 DEF Other
<1>7. p \in Clients => Other(p) \notin Clients
  BY <1>3, HandshakeAssumption DEF HandshakeAssumption
<1> QED
  BY <1>3, <1>4, <1>6, <1>7

(* What starting and stopping timers leaves behind.                          *)
TimersAfter(p, stopped, begun) ==
    /\ timer' \in [Peer -> [TimerId -> Off .. MaxRetrans]]
    /\ late' \in [Peer -> SUBSET (TimerId \X (1 .. MaxRetrans + 1))]
    /\ \A q \in Peer : q # p => timer'[q] = timer[q] /\ late'[q] = late[q]
    /\ \A i \in TimerId :
        /\ i \in stopped => timer'[p][i] = Off
        /\ i \notin stopped /\ i \notin begun => timer'[p][i] = timer[p][i]
        /\ i \notin stopped /\ i \in begun => timer'[p][i] # Off
    /\ (\A i \in TimerId : timer[p][i] = Off) => late'[p] = late[p]

(* Timers keeps the types and touches only the timers it is told to.         *)
LEMMA TimersEffect ==
    ASSUME TypeOK, NEW p \in Peer, NEW stopped \in SUBSET TimerId, NEW begun \in SUBSET TimerId,
           Timers(p, stopped, begun)
    PROVE  TimersAfter(p, stopped, begun)
<1> USE HandshakeAssumption DEF HandshakeAssumption, Off
<1>1. /\ timer \in [Peer -> [TimerId -> Off .. MaxRetrans]]
      /\ late \in [Peer -> SUBSET (TimerId \X (1 .. MaxRetrans + 1))]
  BY DEF TypeOK
<1> DEFINE row == [i \in TimerId |-> IF i \in stopped THEN Off
                                     ELSE IF i \in begun /\ timer[p][i] = Off THEN 0
                                     ELSE timer[p][i]]
<1>2. timer' = [timer EXCEPT ![p] = row]
  BY DEF Timers
<1>3. row \in [TimerId -> Off .. MaxRetrans]
  BY <1>1
<1>4. PICK expired \in SUBSET {i \in stopped : timer[p][i] # Off} :
          late' = [late EXCEPT ![p] = @ \cup {<<i, timer[p][i] + 1>> : i \in expired}]
  BY DEF Timers
<1>5. \A i \in expired : i \in TimerId /\ timer[p][i] + 1 \in 1 .. MaxRetrans + 1
  BY <1>1
<1>6. {<<i, timer[p][i] + 1>> : i \in expired} \subseteq TimerId \X (1 .. MaxRetrans + 1)
  BY <1>5
<1>7. late[p] \cup {<<i, timer[p][i] + 1>> : i \in expired} \in
          SUBSET (TimerId \X (1 .. MaxRetrans + 1))
  BY <1>1, <1>6
<1>8. late' \in [Peer -> SUBSET (TimerId \X (1 .. MaxRetrans + 1))]
  BY <1>1, <1>4, <1>7
<1>9. ASSUME \A i \in TimerId : timer[p][i] = Off PROVE late'[p] = late[p]
  <2>1. expired = {}
    BY <1>9
  <2>2. {<<i, timer[p][i] + 1>> : i \in expired} = {}
    BY <2>1
  <2> QED
    BY <1>1, <1>4, <2>2
<1>10. timer'[p] = row
  BY <1>1, <1>2
<1>11. \A i \in TimerId :
                /\ i \in stopped => timer'[p][i] = Off
                /\ i \notin stopped /\ i \notin begun => timer'[p][i] = timer[p][i]
                /\ i \notin stopped /\ i \in begun => timer'[p][i] # Off
  BY <1>1, <1>10
<1>12. timer' \in [Peer -> [TimerId -> Off .. MaxRetrans]]
  BY <1>1, <1>2, <1>3
<1>13. \A q \in Peer : q # p => timer'[q] = timer[q] /\ late'[q] = late[q]
  BY <1>1, <1>2, <1>4
<1> QED
  BY <1>8, <1>9, <1>11, <1>12, <1>13 DEF TimersAfter

(* Nothing is under way but what was, and what one end queues.               *)
LEMMA QueueMore ==
    ASSUME TypeOK, NEW p \in Peer, NEW S \in SUBSET PacketType, net' \subseteq net,
           control_queue' = [control_queue EXCEPT ![p] = @ \cup S]
    PROVE  /\ UnderWay' \subseteq UnderWay \cup S
           /\ net' \subseteq PacketType /\ control_queue' \in [Peer -> SUBSET PacketType]
<1>1. net \subseteq PacketType /\ control_queue \in [Peer -> SUBSET PacketType]
  BY DEF TypeOK
<1>2. \A q \in Peer : control_queue'[q] = IF q = p THEN control_queue[p] \cup S ELSE control_queue[q]
  BY <1>1
<1>3. UnderWay' \subseteq UnderWay \cup S
  BY <1>2 DEF UnderWay
<1> QED
  BY <1>1, <1>3

(* Association::close: either nothing, or the state and the timers.          *)
LEMMA CloseEffect ==
    ASSUME TypeOK, TimersEnd, NEW p \in Peer, Close(p)
    PROVE  /\ state' = [state EXCEPT ![p] = "Closed"]
           /\ closing' \in [Peer -> BOOLEAN]
           /\ \A q \in Peer : /\ q # p => closing'[q] = closing[q]
                              /\ closing[q] => closing'[q]
           /\ state[p] # "Closed" => closing'[p]
           /\ state[p] = "Closed" => closing'[p] = closing[p]
           /\ timer' \in [Peer -> [TimerId -> Off .. MaxRetrans]]
           /\ late' \in [Peer -> SUBSET (TimerId \X (1 .. MaxRetrans + 1))]
           /\ \A q \in Peer : q # p => timer'[q] = timer[q] /\ late'[q] = late[q]
           /\ \A i \in TimerId : timer'[p][i] = Off
           /\ state[p] = "Closed" => late'[p] = late[p]
<1>1. CASE state[p] = "Closed"
  <2>1. UNCHANGED <<state, timer, late, closing>>
    BY <1>1 DEF Close
  <2>2. state = [state EXCEPT ![p] = "Closed"]
    BY <1>1 DEF TypeOK
  <2> QED
    BY <1>1, <2>1, <2>2 DEF TypeOK, TimersEnd
<1>2. CASE state[p] # "Closed"
  <2>1. /\ state' = [state EXCEPT ![p] = "Closed"]
        /\ Timers(p, TimerId, {})
        /\ closing' = [closing EXCEPT ![p] = TRUE]
    BY <1>2 DEF Close
  <2>2. /\ timer' \in [Peer -> [TimerId -> Off .. MaxRetrans]]
        /\ late' \in [Peer -> SUBSET (TimerId \X (1 .. MaxRetrans + 1))]
        /\ \A q \in Peer : q # p => timer'[q] = timer[q] /\ late'[q] = late[q]
        /\ \A i \in TimerId : timer'[p][i] = Off
    <3>1. TimerId \in SUBSET TimerId /\ {} \in SUBSET TimerId
      OBVIOUS
    <3>2. TimersAfter(p, TimerId, {})
      BY <2>1, <3>1, TimersEffect, Zenon
    <3> QED
      BY <3>2 DEF TimersAfter
  <2>3. closing' \in [Peer -> BOOLEAN] /\ closing'[p]
        /\ \A q \in Peer : q # p => closing'[q] = closing[q]
    BY <2>1 DEF TypeOK
  <2> QED
    BY <1>2, <2>1, <2>2, <2>3
<1> QED
  BY <1>1, <1>2

(* The inductive invariant.                                                  *)
IInv == HandshakeInv /\ AnswersAreTrue /\ PeerHasEchoed

(* The conjuncts of HandshakeInv that are about one end at a time.           *)
EndInv == CookieEchoIsRepeated /\ TimersEnd /\ OkMeansEstablished /\ TimersFollowState

(* HasEchoed and IsUp after a step.                                          *)
EchoedNext(q) == state'[q] \in {"CookieEchoed", "Established"} \/ closing'[q]
UpNext(q) == state'[q] = "Established" \/ closing'[q]

(* A packet that says what is so after the step, and ends that do not go back. *)
Truthful(k) == /\ k.type = "COOKIE_ECHO" => EchoedNext(Other(k.to))
               /\ k.type = "COOKIE_ACK" => UpNext(Other(k.to))
Onward == \A q \in Peer :
    /\ HasEchoed(q) => EchoedNext(q)
    /\ IsUp(q) => UpNext(q)
    /\ stored_cookie_echo'[q] => stored_cookie_echo[q] \/ EchoedNext(q)

(* A step keeps AnswersAreTrue if no end goes back and what it adds is true. *)
LEMMA AnswersStay ==
    ASSUME TypeOK, AnswersAreTrue, Onward,
           \A k \in UnderWay' : k \in UnderWay \/ Truthful(k)
    PROVE  AnswersAreTrue'
<1>1. \A k \in UnderWay : Other(k.to) \in Peer
  BY OtherEnd DEF UnderWay, TypeOK, PacketType
<1>2. \A k \in UnderWay' : /\ k.type = "COOKIE_ECHO" => EchoedNext(Other(k.to))
                           /\ k.type = "COOKIE_ACK" => UpNext(Other(k.to))
  BY <1>1 DEF AnswersAreTrue, Truthful, Onward
<1>3. \A q \in Peer : stored_cookie_echo'[q] => EchoedNext(q)
  BY DEF AnswersAreTrue, Onward
<1> QED
  BY <1>2, <1>3 DEF AnswersAreTrue, HasEchoed, IsUp, EchoedNext, UpNext

(* The second section of new().                                              *)
LEMMA StartStep ==
    ASSUME IInv, NEW p \in Peer, StartClient(p)
    PROVE  IInv'
<1> DEFINE m == Packet(Other(p), "INIT", peer_tag[p])
<1>0. TypeOK /\ EndInv /\ Roles /\ AnswersAreTrue /\ PeerHasEchoed
  BY DEF IInv, HandshakeInv, EndInv
<1>1. /\ p \in Clients /\ ~started[p] /\ started' = [started EXCEPT ![p] = TRUE]
      /\ state' = [state EXCEPT ![p] = "CookieWait"]
      /\ stored_init' = [stored_init EXCEPT ![p] = FALSE]
      /\ control_queue' = [control_queue EXCEPT ![p] = @ \cup {m}]
      /\ UNCHANGED <<peer_tag, my_cookie, stored_cookie_echo, use_forward_tsn, rwnd,
                     reading, writing, closing, conn, outcome, net>>
      /\ Timers(p, {}, {"T1Init"})
  BY DEF StartClient, SendInit
<1>2. /\ timer' \in [Peer -> [TimerId -> Off .. MaxRetrans]]
      /\ late' \in [Peer -> SUBSET (TimerId \X (1 .. MaxRetrans + 1))]
      /\ \A q \in Peer : q # p => timer'[q] = timer[q] /\ late'[q] = late[q]
      /\ timer'[p]["T1Cookie"] = timer[p]["T1Cookie"]
  <2>1. /\ {} \in SUBSET TimerId /\ {"T1Init"} \in SUBSET TimerId /\ "T1Cookie" \in TimerId
    BY DEF TimerId
  <2>2. TimersAfter(p, {}, {"T1Init"})
    BY <1>0, <1>1, <2>1, TimersEffect, Zenon
  <2> QED
    BY <2>1, <2>2 DEF TimersAfter
<1>3. m \in PacketType /\ m.type = "INIT" /\ m.to = Other(p) /\ Other(m.to) = p
  BY <1>0, OtherEnd DEF Packet, PacketType, TypeOK
<1>4. /\ UnderWay' \subseteq UnderWay \cup {m}
      /\ net' \subseteq PacketType /\ control_queue' \in [Peer -> SUBSET PacketType]
  BY <1>0, <1>1, <1>3, QueueMore
<1>5. TypeOK'
  BY <1>0, <1>1, <1>2, <1>4 DEF TypeOK, State
<1>6. /\ state[p] = "Closed" /\ outcome[p] = "waiting" /\ timer[p]["T1Cookie"] = Off
      /\ ~closing[p] /\ Other(p) \notin Clients
  BY <1>0, <1>1, OtherEnd DEF Roles, EndInv, TimersEnd, TimerId
<1>7. EndInv'
  BY <1>0, <1>1, <1>2, <1>6 DEF TypeOK, EndInv, CookieEchoIsRepeated, TimersEnd,
     OkMeansEstablished, TimersFollowState
<1>8. Roles'
  <2>1. \A k \in UnderWay' :
           (IF k.type \in {"INIT_ACK", "COOKIE_ACK"} THEN k.to ELSE Other(k.to)) \in Clients
    BY <1>0, <1>1, <1>3, <1>4 DEF Roles
  <2> QED
    BY <1>0, <1>1, <1>2, <2>1 DEF Roles, TypeOK
<1>9. AnswersAreTrue'
  <2>1. Onward
    BY <1>0, <1>1, <1>6 DEF Onward, HasEchoed, IsUp, EchoedNext, UpNext, TypeOK
  <2>2. \A k \in UnderWay' : k \in UnderWay \/ Truthful(k)
    BY <1>3, <1>4 DEF Truthful
  <2> QED
    BY <1>0, <2>1, <2>2, AnswersStay
<1>10. PeerHasEchoed'
  BY <1>0, <1>1, <1>6, OtherEnd DEF PeerHasEchoed, TypeOK
<1> QED
  BY <1>5, <1>7, <1>8, <1>9, <1>10 DEF IInv, HandshakeInv, EndInv

(* An INIT is only sent to the end that answers.                             *)
LEMMA InitStep ==
    ASSUME IInv, NEW p \in Peer, NEW m \in net, HandleInit(p, m)
    PROVE  IInv'
<1> DEFINE a == Packet(Other(p), "INIT_ACK", TRUE)
<1>0. TypeOK /\ EndInv /\ Roles /\ AnswersAreTrue /\ PeerHasEchoed
  BY DEF IInv, HandshakeInv, EndInv
<1>1. /\ m.to = p /\ m.type = "INIT" /\ net' \subseteq net /\ conn' = conn
      /\ UNCHANGED <<started, state, stored_init, stored_cookie_echo, rwnd, timer, late,
                     writing, closing, outcome>>
      /\ reading' \in [Peer -> {"run", "done", "ended"}]
      /\ peer_tag' \in [Peer -> BOOLEAN] /\ use_forward_tsn' \in [Peer -> BOOLEAN]
      /\ my_cookie' \in [Peer -> BOOLEAN]
      /\ \A q \in Peer : q # p => my_cookie'[q] = my_cookie[q]
      /\ \/ control_queue' = control_queue
         \/ control_queue' = [control_queue EXCEPT ![p] = @ \cup {a}]
  <2>1. /\ m.to = p /\ m.type = "INIT" /\ net' \subseteq net /\ conn' = conn
    BY DEF HandleInit, Receive
  <2>2. CASE UNCHANGED local
    BY <1>0, <2>1, <2>2 DEF local, TypeOK
  <2>3. CASE /\ reading' = [reading EXCEPT ![p] = "done"]
             /\ UNCHANGED <<started, state, peer_tag, my_cookie, stored_init,
                            stored_cookie_echo, use_forward_tsn, rwnd, control_queue, timer,
                            late, writing, closing, outcome>>
    BY <1>0, <2>1, <2>3 DEF TypeOK
  <2>4. CASE /\ peer_tag' = [peer_tag EXCEPT ![p] = TRUE]
             /\ use_forward_tsn' = [use_forward_tsn EXCEPT
                                      ![p] = @ \/ "SupportedExtensions" \in InitParams]
             /\ my_cookie' = [my_cookie EXCEPT ![p] = TRUE]
             /\ Reply(p, "INIT_ACK")
             /\ UNCHANGED <<started, state, stored_init, stored_cookie_echo, rwnd, timer, late,
                            reading, writing, closing, outcome>>
    <3>1. use_forward_tsn' \in [Peer -> BOOLEAN]
      BY <1>0, <2>4, Zenon DEF TypeOK, InitParams
    <3> QED
      BY <1>0, <2>1, <2>4, <3>1 DEF TypeOK, Reply
  <2> QED
    BY <2>2, <2>3, <2>4 DEF HandleInit, Discard
<1>2. p \notin Clients /\ Other(p) \in Clients
  BY <1>0, <1>1, OtherEnd DEF Roles, UnderWay
<1>3. a \in PacketType /\ a.type = "INIT_ACK" /\ a.to = Other(p)
  BY OtherEnd DEF Packet, PacketType
<1>4. /\ UnderWay' \subseteq UnderWay \cup {a}
      /\ net' \subseteq PacketType /\ control_queue' \in [Peer -> SUBSET PacketType]
  <2>1. CASE control_queue' = control_queue
    <3>1. UnderWay' \subseteq UnderWay
      BY <1>1, <2>1 DEF UnderWay
    <3> QED
      BY <1>0, <1>1, <2>1, <3>1 DEF TypeOK
  <2>2. CASE control_queue' = [control_queue EXCEPT ![p] = @ \cup {a}]
    <3>1. {a} \in SUBSET PacketType /\ net' \subseteq net
      BY <1>1, <1>3
    <3> QED
      BY <1>0, <2>2, <3>1, QueueMore, Zenon
  <2> QED
    BY <1>1, <2>1, <2>2
<1>5. TypeOK'
  BY <1>0, <1>1, <1>4 DEF TypeOK
<1>6. EndInv' /\ PeerHasEchoed'
  BY <1>0, <1>1 DEF EndInv, CookieEchoIsRepeated, TimersEnd, OkMeansEstablished,
     TimersFollowState, PeerHasEchoed
<1>7. Roles'
  <2>1. \A k \in UnderWay' :
           (IF k.type \in {"INIT_ACK", "COOKIE_ACK"} THEN k.to ELSE Other(k.to)) \in Clients
    BY <1>0, <1>2, <1>3, <1>4 DEF Roles
  <2> QED
    BY <1>0, <1>1, <1>2, <2>1 DEF Roles
<1>8. AnswersAreTrue'
  <2>1. Onward
    BY <1>1 DEF Onward, HasEchoed, IsUp, EchoedNext, UpNext
  <2>2. \A k \in UnderWay' : k \in UnderWay \/ Truthful(k)
    BY <1>3, <1>4 DEF Truthful
  <2> QED
    BY <1>0, <2>1, <2>2, AnswersStay
<1> QED
  BY <1>5, <1>6, <1>7, <1>8 DEF IInv, HandshakeInv, EndInv

(* A step that drops a packet and changes nothing else.                      *)
LEMMA DropStep ==
    ASSUME IInv, UNCHANGED local, net' \subseteq net, conn' \in [Peer -> BOOLEAN]
    PROVE  IInv'
<1>0. TypeOK /\ EndInv /\ Roles /\ AnswersAreTrue /\ PeerHasEchoed
  BY DEF IInv, HandshakeInv, EndInv
<1> USE DEF local
<1>1. UnderWay' \subseteq UnderWay
  BY DEF UnderWay
<1>2. TypeOK'
  BY <1>0 DEF TypeOK
<1>3. EndInv' /\ PeerHasEchoed'
  BY <1>0 DEF EndInv, CookieEchoIsRepeated, TimersEnd, OkMeansEstablished, TimersFollowState,
     PeerHasEchoed
<1>4. Roles'
  BY <1>0, <1>1 DEF Roles
<1>5. AnswersAreTrue'
  BY <1>0, <1>1 DEF AnswersAreTrue, HasEchoed, IsUp
<1> QED
  BY <1>2, <1>3, <1>4, <1>5 DEF IInv, HandshakeInv, EndInv

(* The cookie is echoed: T1-init stops, T1-cookie starts.                    *)
LEMMA InitAckStep ==
    ASSUME IInv, NEW p \in Peer, NEW m \in net, HandleInitAck(p, m)
    PROVE  IInv'
<1> DEFINE a == Packet(Other(p), "COOKIE_ECHO", TRUE)
<1>0. TypeOK /\ EndInv /\ Roles /\ AnswersAreTrue /\ PeerHasEchoed
  BY DEF IInv, HandshakeInv, EndInv
<1>1. m.to = p /\ m.type = "INIT_ACK" /\ net' \subseteq net /\ conn' = conn
  BY DEF HandleInitAck, Receive
<1>2. p \in Clients /\ Other(p) \notin Clients
  BY <1>0, <1>1, OtherEnd DEF Roles, UnderWay
<1>3. CASE state[p] # "CookieWait"
  <2>1. UNCHANGED local
    BY <1>3 DEF HandleInitAck, Discard
  <2> QED
    BY <1>0, <1>1, <2>1, DropStep DEF TypeOK
<1>4. CASE state[p] = "CookieWait"
  <2>1. /\ peer_tag' = [peer_tag EXCEPT ![p] = TRUE]
        /\ rwnd' = [rwnd EXCEPT ![p] = TRUE]
        /\ stored_init' = [stored_init EXCEPT ![p] = FALSE]
        /\ stored_cookie_echo' = [stored_cookie_echo EXCEPT ![p] = TRUE]
        /\ control_queue' = [control_queue EXCEPT ![p] = @ \cup {a}]
        /\ state' = [state EXCEPT ![p] = "CookieEchoed"]
        /\ Timers(p, {"T1Init"}, {"T1Cookie"})
        /\ UNCHANGED <<started, my_cookie, reading, writing, closing, outcome>>
    BY <1>4 DEF HandleInitAck, Reply
  <2>2. use_forward_tsn' \in [Peer -> BOOLEAN]
    <3>1. use_forward_tsn' = [use_forward_tsn EXCEPT ![p] =
             @ \/ InitParams \cap {"SupportedExtensions", "ForwardTsnSupported"} # {}]
      BY <1>4 DEF HandleInitAck
    <3> QED
      BY <1>0, <3>1, Zenon DEF TypeOK
  <2>3. /\ timer' \in [Peer -> [TimerId -> Off .. MaxRetrans]]
        /\ late' \in [Peer -> SUBSET (TimerId \X (1 .. MaxRetrans + 1))]
        /\ \A q \in Peer : q # p => timer'[q] = timer[q] /\ late'[q] = late[q]
        /\ timer'[p]["T1Init"] = Off /\ timer'[p]["T1Cookie"] # Off
    <3>1. /\ {"T1Init"} \in SUBSET TimerId /\ {"T1Cookie"} \in SUBSET TimerId
          /\ "T1Init" \in TimerId /\ "T1Cookie" \in TimerId
      BY DEF TimerId
    <3>2. TimersAfter(p, {"T1Init"}, {"T1Cookie"})
      BY <1>0, <2>1, <3>1, TimersEffect, Zenon
    <3> QED
      BY <3>1, <3>2 DEF TimersAfter
  <2>4. a \in PacketType /\ a.type = "COOKIE_ECHO" /\ a.to = Other(p) /\ Other(a.to) = p
    BY OtherEnd DEF Packet, PacketType
  <2>5. /\ UnderWay' \subseteq UnderWay \cup {a}
        /\ net' \subseteq PacketType /\ control_queue' \in [Peer -> SUBSET PacketType]
    <3>1. {a} \in SUBSET PacketType
      BY <2>4
    <3> QED
      BY <1>0, <1>1, <2>1, <3>1, QueueMore, Zenon
  <2>6. TypeOK'
    BY <1>0, <1>1, <2>1, <2>2, <2>3, <2>5 DEF TypeOK, State
  <2>7. started[p] /\ outcome[p] # "ok"
    BY <1>0, <1>2, <1>4 DEF Roles, EndInv, OkMeansEstablished
  <2>8. EndInv'
    BY <1>0, <2>1, <2>3, <2>7 DEF TypeOK, EndInv, CookieEchoIsRepeated, TimersEnd,
       OkMeansEstablished, TimersFollowState
  <2>9. Roles'
    <3>1. \A k \in UnderWay' :
             (IF k.type \in {"INIT_ACK", "COOKIE_ACK"} THEN k.to ELSE Other(k.to)) \in Clients
      BY <1>0, <1>2, <2>4, <2>5 DEF Roles
    <3> QED
      BY <1>0, <1>2, <2>1, <2>3, <2>7, <3>1 DEF Roles, TypeOK
  <2>10. \A q \in Peer : state[q] = "Established" <=> state'[q] = "Established"
    BY <1>0, <1>4, <2>1 DEF TypeOK
  <2>11. Onward
    BY <1>0, <1>4, <2>1 DEF Onward, HasEchoed, IsUp, EchoedNext, UpNext, TypeOK
  <2>12. AnswersAreTrue'
    <3>1. EchoedNext(p)
      BY <1>0, <2>1 DEF EchoedNext, TypeOK
    <3>2. \A k \in UnderWay' : k \in UnderWay \/ Truthful(k)
      BY <2>4, <2>5, <3>1 DEF Truthful
    <3> QED
      BY <1>0, <2>11, <3>2, AnswersStay
  <2>13. PeerHasEchoed'
    BY <1>0, <2>1, <2>10, OtherEnd DEF PeerHasEchoed, TypeOK
  <2> QED
    BY <2>6, <2>8, <2>9, <2>12, <2>13 DEF IInv, HandshakeInv, EndInv
<1> QED
  BY <1>3, <1>4

(* A COOKIE-ECHO reaches the end that answers, and the other one has echoed. *)
LEMMA CookieEchoStep ==
    ASSUME IInv, NEW p \in Peer, NEW m \in net, HandleCookieEcho(p, m)
    PROVE  IInv'
<1> DEFINE a == Packet(Other(p), "COOKIE_ACK", TRUE)
<1>0. TypeOK /\ EndInv /\ Roles /\ AnswersAreTrue /\ PeerHasEchoed
  BY DEF IInv, HandshakeInv, EndInv
<1>1. m.to = p /\ m.type = "COOKIE_ECHO" /\ net' \subseteq net /\ conn' = conn
  BY DEF HandleCookieEcho, Receive
<1>2. m \in UnderWay /\ p \notin Clients /\ Other(p) \in Clients /\ Other(p) \in Peer
  BY <1>0, <1>1, OtherEnd DEF Roles, UnderWay
<1>3. HasEchoed(Other(p))
  BY <1>0, <1>1, <1>2 DEF AnswersAreTrue
<1>4. CASE UNCHANGED local
  BY <1>0, <1>1, <1>4, DropStep DEF TypeOK
<1>5. ASSUME ~UNCHANGED local PROVE IInv'
  <2>1. \/ /\ state[p] = "Established" /\ control_queue' = [control_queue EXCEPT ![p] = @ \cup {a}]
           /\ UNCHANGED <<started, state, peer_tag, my_cookie, stored_init, stored_cookie_echo,
                          use_forward_tsn, rwnd, timer, late, reading, writing, closing, outcome>>
        \/ /\ state[p] # "Established" /\ control_queue' = [control_queue EXCEPT ![p] = @ \cup {a}]
           /\ Timers(p, TimerId, {})
           /\ stored_init' = [stored_init EXCEPT ![p] = FALSE]
           /\ stored_cookie_echo' = [stored_cookie_echo EXCEPT ![p] = FALSE]
           /\ state' = [state EXCEPT ![p] = "Established"]
           /\ outcome' = [outcome EXCEPT ![p] = IF @ = "waiting" THEN "ok" ELSE @]
           /\ UNCHANGED <<started, peer_tag, my_cookie, use_forward_tsn, rwnd, reading, writing,
                          closing>>
    BY <1>5 DEF HandleCookieEcho, Discard, Reply, Complete
  <2>2. /\ timer' \in [Peer -> [TimerId -> Off .. MaxRetrans]]
        /\ late' \in [Peer -> SUBSET (TimerId \X (1 .. MaxRetrans + 1))]
        /\ \A q \in Peer : q # p => timer'[q] = timer[q] /\ late'[q] = late[q]
        /\ \A i \in TimerId : timer'[p][i] = Off
    <3>1. CASE UNCHANGED <<timer, late>> /\ state[p] = "Established"
      BY <1>0, <3>1 DEF TypeOK, EndInv, TimersEnd
    <3>2. CASE Timers(p, TimerId, {})
      <4>1. TimerId \in SUBSET TimerId /\ {} \in SUBSET TimerId
        OBVIOUS
      <4>2. TimersAfter(p, TimerId, {})
        BY <1>0, <3>2, <4>1, TimersEffect, Zenon
      <4> QED
        BY <4>2 DEF TimersAfter
    <3> QED
      BY <2>1, <3>1, <3>2
  <2>3. /\ started' = started /\ my_cookie' = my_cookie /\ closing' = closing
        /\ state' = [state EXCEPT ![p] = "Established"]
        /\ stored_init' \in [Peer -> BOOLEAN] /\ stored_cookie_echo' \in [Peer -> BOOLEAN]
        /\ \A q \in Peer : /\ stored_init'[q] => stored_init[q]
                           /\ stored_cookie_echo'[q] => stored_cookie_echo[q]
                           /\ q # p => stored_cookie_echo'[q] = stored_cookie_echo[q]
                           /\ q # p => outcome'[q] = outcome[q]
        /\ outcome' \in [Peer -> {"waiting", "ok", "ErrHandshakeInitAck", "ErrHandshakeCookieEcho"}]
    <3>1. CASE state[p] = "Established"
      <4>1. state = [state EXCEPT ![p] = "Established"]
        BY <1>0, <3>1 DEF TypeOK
      <4> QED
        BY <1>0, <2>1, <3>1, <4>1 DEF TypeOK
    <3>2. CASE state[p] # "Established"
      BY <1>0, <2>1, <3>2, ZenonT(60) DEF TypeOK
    <3> QED
      BY <3>1, <3>2
  <2>4. a \in PacketType /\ a.type = "COOKIE_ACK" /\ a.to = Other(p) /\ Other(a.to) = p
    BY OtherEnd DEF Packet, PacketType
  <2>5. /\ UnderWay' \subseteq UnderWay \cup {a}
        /\ net' \subseteq PacketType /\ control_queue' \in [Peer -> SUBSET PacketType]
    <3>1. {a} \in SUBSET PacketType
      BY <2>4
    <3>2. control_queue' = [control_queue EXCEPT ![p] = @ \cup {a}]
      BY <2>1
    <3> QED
      BY <1>0, <1>1, <3>1, <3>2, QueueMore, Zenon
  <2>6. TypeOK'
    <3>1. UNCHANGED <<started, peer_tag, my_cookie, use_forward_tsn, rwnd, reading, writing,
                      closing, conn>>
      BY <1>1, <2>1
    <3> QED
      BY <1>0, <2>2, <2>3, <2>5, <3>1 DEF TypeOK, State
  <2>7. /\ state'[p] = "Established"
        /\ \A q \in Peer : q # p => state'[q] = state[q]
    BY <1>0, <2>3 DEF TypeOK
  <2>8. EndInv'
    BY <1>0, <2>2, <2>3, <2>7 DEF EndInv, CookieEchoIsRepeated, TimersEnd,
       OkMeansEstablished, TimersFollowState, TimerId
  <2>9. Roles'
    <3>1. \A k \in UnderWay' :
             (IF k.type \in {"INIT_ACK", "COOKIE_ACK"} THEN k.to ELSE Other(k.to)) \in Clients
      BY <1>0, <1>2, <2>4, <2>5 DEF Roles
    <3> QED
      BY <1>0, <1>2, <2>2, <2>3, <2>7, <3>1 DEF Roles
  <2>10. Onward
    BY <2>3, <2>7 DEF Onward, HasEchoed, IsUp, EchoedNext, UpNext
  <2>11. AnswersAreTrue'
    <3>1. UpNext(p)
      BY <2>7 DEF UpNext
    <3>2. \A k \in UnderWay' : k \in UnderWay \/ Truthful(k)
      BY <2>4, <2>5, <3>1 DEF Truthful
    <3> QED
      BY <1>0, <2>10, <3>2, AnswersStay
  <2>12. PeerHasEchoed'
    <3>1. \A q \in Peer : q = p \/ Other(q) = p
      BY OtherEnd
    <3>2. CASE state[Other(p)] = "CookieEchoed"
      <4>1. stored_cookie_echo[Other(p)] /\ Other(p) # p
        BY <1>0, <1>2, <3>2, OtherEnd DEF EndInv, CookieEchoIsRepeated
      <4> QED
        BY <1>2, <2>3, <2>7, <3>1, <3>2, <4>1 DEF PeerHasEchoed
    <3>3. CASE state[Other(p)] # "CookieEchoed"
      <4>1. (state[Other(p)] = "Established" \/ closing[Other(p)]) /\ Other(p) # p
        BY <1>2, <1>3, <3>3, OtherEnd DEF HasEchoed
      <4> QED
        BY <1>2, <2>3, <2>7, <3>1, <4>1 DEF PeerHasEchoed
    <3> QED
      BY <3>2, <3>3
  <2> QED
    BY <2>6, <2>8, <2>9, <2>11, <2>12 DEF IInv, HandshakeInv, EndInv
<1> QED
  BY <1>4, <1>5

(* A COOKIE-ACK reaches the end that asks, and the other one is Established. *)
LEMMA CookieAckStep ==
    ASSUME IInv, NEW p \in Peer, NEW m \in net, HandleCookieAck(p, m)
    PROVE  IInv'
<1>0. TypeOK /\ EndInv /\ Roles /\ AnswersAreTrue /\ PeerHasEchoed
  BY DEF IInv, HandshakeInv, EndInv
<1>1. m.to = p /\ m.type = "COOKIE_ACK" /\ net' \subseteq net /\ conn' = conn
  BY DEF HandleCookieAck, Receive
<1>2. m \in UnderWay /\ p \in Clients /\ Other(p) \notin Clients /\ Other(p) \in Peer
      /\ Other(p) # p
  BY <1>0, <1>1, OtherEnd DEF Roles, UnderWay
<1>3. IsUp(Other(p))
  BY <1>0, <1>1, <1>2 DEF AnswersAreTrue
<1>4. CASE state[p] # "CookieEchoed"
  <2>1. UNCHANGED local
    BY <1>4 DEF HandleCookieAck, Discard
  <2> QED
    BY <1>0, <1>1, <2>1, DropStep DEF TypeOK
<1>5. CASE state[p] = "CookieEchoed"
  <2>1. /\ Timers(p, {"T1Cookie"}, {})
        /\ stored_cookie_echo' = [stored_cookie_echo EXCEPT ![p] = FALSE]
        /\ state' = [state EXCEPT ![p] = "Established"]
        /\ outcome' = [outcome EXCEPT ![p] = IF @ = "waiting" THEN "ok" ELSE @]
        /\ UNCHANGED <<started, peer_tag, my_cookie, stored_init, use_forward_tsn, rwnd,
                       control_queue, reading, writing, closing>>
    BY <1>5 DEF HandleCookieAck, Complete
  <2>2. /\ timer' \in [Peer -> [TimerId -> Off .. MaxRetrans]]
        /\ late' \in [Peer -> SUBSET (TimerId \X (1 .. MaxRetrans + 1))]
        /\ \A q \in Peer : q # p => timer'[q] = timer[q] /\ late'[q] = late[q]
        /\ \A i \in TimerId : timer'[p][i] = Off
    <3>1. /\ {} \in SUBSET TimerId /\ {"T1Cookie"} \in SUBSET TimerId
          /\ \A i \in TimerId : i = "T1Cookie" \/ (i \notin {"T1Cookie"} /\ timer[p][i] = Off)
      BY <1>0, <1>5 DEF TimerId, EndInv, TimersFollowState
    <3>2. TimersAfter(p, {"T1Cookie"}, {})
      BY <1>0, <2>1, <3>1, TimersEffect, Zenon
    <3> QED
      BY <3>1, <3>2 DEF TimersAfter
  <2>3. UnderWay' \subseteq UnderWay
    BY <1>1, <2>1 DEF UnderWay
  <2>4. TypeOK'
    BY <1>0, <1>1, <2>1, <2>2 DEF TypeOK, State
  <2>5. /\ state'[p] = "Established" /\ stored_cookie_echo'[p] = FALSE
        /\ \A q \in Peer : q # p => /\ state'[q] = state[q] /\ outcome'[q] = outcome[q]
                                    /\ stored_cookie_echo'[q] = stored_cookie_echo[q]
    BY <1>0, <2>1 DEF TypeOK
  <2>6. EndInv'
    BY <1>0, <2>1, <2>2, <2>5 DEF EndInv, CookieEchoIsRepeated, TimersEnd,
       OkMeansEstablished, TimersFollowState, TimerId
  <2>7. Roles'
    <3>1. \A k \in UnderWay' :
             (IF k.type \in {"INIT_ACK", "COOKIE_ACK"} THEN k.to ELSE Other(k.to)) \in Clients
      BY <1>0, <2>3 DEF Roles
    <3>2. started[p]
      BY <1>0, <1>2, <1>5 DEF Roles
    <3> QED
      BY <1>0, <1>2, <2>1, <2>2, <2>5, <3>1, <3>2 DEF Roles
  <2>8. AnswersAreTrue'
    <3>1. Onward
      BY <2>1, <2>5 DEF Onward, HasEchoed, IsUp, EchoedNext, UpNext
    <3>2. \A k \in UnderWay' : k \in UnderWay \/ Truthful(k)
      BY <2>3
    <3> QED
      BY <1>0, <3>1, <3>2, AnswersStay
  <2>9. PeerHasEchoed'
    <3>1. \A q \in Peer : q = p \/ Other(q) = p
      BY OtherEnd
    <3> QED
      BY <1>2, <1>3, <2>1, <2>5, <3>1 DEF PeerHasEchoed, IsUp
  <2> QED
    BY <2>4, <2>6, <2>7, <2>8, <2>9 DEF IInv, HandshakeInv, EndInv
<1> QED
  BY <1>4, <1>5

(* What a callback of a T1 timer does: a COOKIE-ECHO that is stored is       *)
(* queued again, nothing else is, and a failure is reported once.            *)
Callback(p, id, n) ==
    /\ stored_init' = [stored_init EXCEPT ![p] = FALSE]
    /\ outcome' \in [Peer -> {"waiting", "ok", "ErrHandshakeInitAck", "ErrHandshakeCookieEcho"}]
    /\ \A q \in Peer : /\ outcome[q] # "waiting" => outcome'[q] = outcome[q]
                       /\ q # p => outcome'[q] = outcome[q]
                       /\ outcome'[q] = "ok" => outcome[q] = "ok"
    /\ IF n > MaxRetrans THEN outcome'[p] # "waiting" ELSE outcome' = outcome
    /\ control_queue' \in [Peer -> SUBSET PacketType]
    /\ \A k \in UnderWay' : k \in UnderWay \/ (/\ k = Packet(Other(p), "COOKIE_ECHO", TRUE)
                                              /\ stored_cookie_echo[p])

(* The callback of a timer sends again, fails the handshake, or does         *)
(* nothing.                                                                  *)
LEMMA OnTimeoutEffect ==
    ASSUME TypeOK, Roles, NEW p \in Peer, NEW id \in TimerId, NEW n \in Int, net' = net,
           OnTimeout(p, id, n)
    PROVE  Callback(p, id, n)
<1> DEFINE a == Packet(Other(p), "COOKIE_ECHO", TRUE)
<1>1. stored_init = [stored_init EXCEPT ![p] = FALSE] /\ ~stored_init[p]
  BY DEF TypeOK, Roles
<1>2. CASE n > MaxRetrans
  <2>1. PICK e \in {"ErrHandshakeInitAck", "ErrHandshakeCookieEcho"} :
            outcome' = [outcome EXCEPT ![p] = IF @ = "waiting" THEN e ELSE @]
    BY <1>2 DEF OnTimeout, Complete
  <2>2. UNCHANGED <<stored_init, control_queue>>
    BY <1>2 DEF OnTimeout
  <2>3. UnderWay' = UnderWay
    BY <2>2 DEF UnderWay
  <2> QED
    BY <1>1, <1>2, <2>1, <2>2, <2>3 DEF Callback, TypeOK
<1>3. CASE ~(n > MaxRetrans)
  <2>1. outcome' = outcome
    BY <1>3 DEF OnTimeout
  <2>2. CASE UNCHANGED <<stored_init, control_queue>>
    <3>1. UnderWay' = UnderWay
      BY <2>2 DEF UnderWay
    <3> QED
      BY <1>1, <1>3, <2>1, <2>2, <3>1 DEF Callback, TypeOK
  <2>3. CASE ~UNCHANGED <<stored_init, control_queue>>
    <3>1. /\ stored_cookie_echo[p] /\ stored_init' = stored_init
          /\ control_queue' = [control_queue EXCEPT ![p] = @ \cup {a}]
      <4>1. CASE id = "T1Init"
        <5>1. control_queue = [control_queue EXCEPT ![p] = control_queue[p]]
          BY DEF TypeOK
        <5> QED
          BY <1>1, <1>3, <2>3, <4>1, <5>1 DEF OnTimeout, SendInit
      <4>2. CASE id # "T1Init"
        BY <1>3, <2>3, <4>2 DEF OnTimeout, Reply
      <4> QED
        BY <4>1, <4>2
    <3>2. {a} \in SUBSET PacketType
      BY OtherEnd DEF Packet, PacketType
    <3>3. net' \subseteq net
      OBVIOUS
    <3>4. /\ UnderWay' \subseteq UnderWay \cup {a}
          /\ control_queue' \in [Peer -> SUBSET PacketType]
      BY <3>1, <3>2, <3>3, QueueMore, Zenon
    <3> QED
      BY <1>1, <1>3, <2>1, <3>1, <3>4 DEF Callback, TypeOK
  <2> QED
    BY <2>2, <2>3
<1> QED
  BY <1>2, <1>3

(* The timers of one end move, nothing else but what the callback does.      *)
LEMMA CallbackStep ==
    ASSUME IInv, NEW p \in Peer, NEW id \in TimerId, NEW n \in Int, Callback(p, id, n),
           UNCHANGED <<started, state, peer_tag, my_cookie, stored_cookie_echo, use_forward_tsn,
                       rwnd, reading, writing, closing, conn, net>>,
           timer' \in [Peer -> [TimerId -> Off .. MaxRetrans]],
           late' \in [Peer -> SUBSET (TimerId \X (1 .. MaxRetrans + 1))],
           \A q \in Peer : late[q] = {} => late'[q] = {},
           \A q \in Peer, i \in TimerId : timer'[q][i] # Off => timer[q][i] # Off,
           \A q \in Peer, i \in TimerId : timer'[q][i] = Off =>
                timer[q][i] = Off \/ (q = p /\ n > MaxRetrans),
           n > MaxRetrans => late[p] # {} \/ \E i \in TimerId : timer[p][i] # Off
    PROVE  IInv'
<1>0. TypeOK /\ EndInv /\ Roles /\ AnswersAreTrue /\ PeerHasEchoed
  BY DEF IInv, HandshakeInv, EndInv
<1>1. /\ stored_init' = [stored_init EXCEPT ![p] = FALSE]
      /\ outcome' \in [Peer -> {"waiting", "ok", "ErrHandshakeInitAck", "ErrHandshakeCookieEcho"}]
      /\ \A q \in Peer : /\ outcome[q] # "waiting" => outcome'[q] = outcome[q]
                         /\ q # p => outcome'[q] = outcome[q]
                         /\ outcome'[q] = "ok" => outcome[q] = "ok"
      /\ n > MaxRetrans => outcome'[p] # "waiting"
      /\ ~(n > MaxRetrans) => outcome' = outcome
      /\ control_queue' \in [Peer -> SUBSET PacketType]
  BY DEF Callback
<1>2. \A k \in UnderWay' : k \in UnderWay \/ (/\ k = Packet(Other(p), "COOKIE_ECHO", TRUE)
                                            /\ stored_cookie_echo[p])
  BY DEF Callback
<1>3. TypeOK'
  BY <1>0, <1>1 DEF TypeOK
<1>4. CookieEchoIsRepeated'
  BY <1>0, <1>1 DEF EndInv, CookieEchoIsRepeated, TimerId
<1>5. TimersEnd' /\ OkMeansEstablished' /\ TimersFollowState'
  BY <1>0, <1>1 DEF EndInv, TimersEnd, OkMeansEstablished, TimersFollowState, TimerId
<1>6. stored_cookie_echo[p] => p \in Clients /\ HasEchoed(p) /\ EchoedNext(p)
  BY <1>0 DEF Roles, AnswersAreTrue, HasEchoed, EchoedNext
<1>7. Roles'
  <2>1. \A k \in UnderWay' :
           (IF k.type \in {"INIT_ACK", "COOKIE_ACK"} THEN k.to ELSE Other(k.to)) \in Clients
    <3>1. /\ Packet(Other(p), "COOKIE_ECHO", TRUE).type = "COOKIE_ECHO"
          /\ Other(Packet(Other(p), "COOKIE_ECHO", TRUE).to) = p
      BY OtherEnd DEF Packet
    <3> QED
      BY <1>0, <1>2, <1>6, <3>1 DEF Roles
  <2>2. ASSUME NEW q \in Peer PROVE ~stored_init'[q]
    BY <1>0, <1>1 DEF Roles, TypeOK
  <2>3. ASSUME NEW q \in Peer, q \in Clients, ~started[q] PROVE outcome'[q] = "waiting"
    <3>1. state[q] = "Closed" /\ outcome[q] = "waiting" /\ late[q] = {}
      BY <1>0, <2>3 DEF Roles
    <3>2. \A i \in TimerId : timer[q][i] = Off
      BY <1>0, <3>1 DEF EndInv, TimersEnd
    <3> QED
      BY <1>1, <3>1, <3>2
  <2> QED
    BY <1>0, <2>1, <2>2, <2>3 DEF Roles
<1>8. AnswersAreTrue'
  <2>1. Onward
    BY DEF Onward, HasEchoed, IsUp, EchoedNext, UpNext
  <2>2. /\ Packet(Other(p), "COOKIE_ECHO", TRUE).type = "COOKIE_ECHO"
        /\ Other(Packet(Other(p), "COOKIE_ECHO", TRUE).to) = p
    BY OtherEnd DEF Packet
  <2>3. \A k \in UnderWay' : k \in UnderWay \/ Truthful(k)
    BY <1>2, <1>6, <2>2 DEF Truthful
  <2> QED
    BY <1>0, <2>1, <2>3, AnswersStay
<1>9. PeerHasEchoed'
  BY <1>0 DEF PeerHasEchoed
<1> QED
  BY <1>3, <1>4, <1>5, <1>7, <1>8, <1>9 DEF IInv, HandshakeInv

(* A T1 timer expires.                                                       *)
LEMMA TimeoutStep ==
    ASSUME IInv, NEW p \in Peer, NEW id \in TimerId, Timeout(p, id)
    PROVE  IInv'
<1> DEFINE n == timer[p][id] + 1
<1>0. TypeOK /\ Roles
  BY DEF IInv, HandshakeInv
<1>1. /\ timer[p][id] # Off /\ OnTimeout(p, id, n)
      /\ timer' = [timer EXCEPT ![p][id] = IF n > MaxRetrans THEN Off ELSE n]
      /\ UNCHANGED <<started, state, peer_tag, my_cookie, stored_cookie_echo, use_forward_tsn,
                     rwnd, late, reading, writing, closing, conn, net>>
  BY DEF Timeout
<1>2. /\ timer \in [Peer -> [TimerId -> Off .. MaxRetrans]] /\ MaxRetrans \in Nat
      /\ late \in [Peer -> SUBSET (TimerId \X (1 .. MaxRetrans + 1))]
  BY <1>0, HandshakeAssumption DEF TypeOK, HandshakeAssumption
<1>3. timer[p][id] \in Off .. MaxRetrans
  BY <1>2
<1>4. n \in Int /\ (IF n > MaxRetrans THEN Off ELSE n) \in Off .. MaxRetrans
      /\ n # Off
  BY <1>1, <1>2, <1>3 DEF Off
<1>5. /\ timer' \in [Peer -> [TimerId -> Off .. MaxRetrans]]
      /\ \A q \in Peer, i \in TimerId :
            timer'[q][i] = IF q = p /\ i = id THEN (IF n > MaxRetrans THEN Off ELSE n)
                                              ELSE timer[q][i]
  <2>1. /\ timer' \in [Peer -> [TimerId -> Off .. MaxRetrans]]
    BY <1>1, <1>2, <1>4
  <2> HIDE DEF n
  <2> QED
    BY <1>1, <1>2, <2>1
<1>6. Callback(p, id, n)
  BY <1>0, <1>1, <1>4, OnTimeoutEffect
<1>7. /\ \A q \in Peer, i \in TimerId : timer'[q][i] # Off => timer[q][i] # Off
      /\ \A q \in Peer, i \in TimerId : timer'[q][i] = Off =>
             timer[q][i] = Off \/ (q = p /\ n > MaxRetrans)
  <2> HIDE DEF n
  <2> QED
    BY <1>1, <1>4, <1>5
<1>8. \A q \in Peer : late[q] = {} => late'[q] = {}
  BY <1>1
<1>9. n > MaxRetrans => late[p] # {} \/ \E i \in TimerId : timer[p][i] # Off
  BY <1>1
<1>10. late' \in [Peer -> SUBSET (TimerId \X (1 .. MaxRetrans + 1))]
  BY <1>1, <1>2
<1> HIDE DEF n
<1> QED
  BY <1>1, <1>4, <1>5, <1>6, <1>7, <1>8, <1>9, <1>10, CallbackStep, Zenon

(* A task that was stopped after it had expired calls back.                  *)
LEMMA LateTimeoutStep ==
    ASSUME IInv, NEW p \in Peer, LateTimeout(p)
    PROVE  IInv'
<1>0. TypeOK /\ Roles
  BY DEF IInv, HandshakeInv
<1>1. PICK l \in late[p] :
        /\ OnTimeout(p, l[1], l[2])
        /\ late' = [late EXCEPT ![p] = @ \ {l}]
        /\ UNCHANGED <<started, state, peer_tag, my_cookie, stored_cookie_echo, use_forward_tsn,
                       rwnd, timer, reading, writing, closing, conn, net>>
  BY DEF LateTimeout
<1>2. /\ timer \in [Peer -> [TimerId -> Off .. MaxRetrans]] /\ MaxRetrans \in Nat
      /\ late \in [Peer -> SUBSET (TimerId \X (1 .. MaxRetrans + 1))]
  BY <1>0, HandshakeAssumption DEF TypeOK, HandshakeAssumption
<1>3. l[1] \in TimerId /\ l[2] \in Int
  BY <1>2
<1>4. Callback(p, l[1], l[2])
  BY <1>0, <1>1, <1>3, OnTimeoutEffect
<1>5. /\ timer' \in [Peer -> [TimerId -> Off .. MaxRetrans]]
      /\ late' \in [Peer -> SUBSET (TimerId \X (1 .. MaxRetrans + 1))]
      /\ \A q \in Peer : late[q] = {} => late'[q] = {}
      /\ \A q \in Peer, i \in TimerId : timer'[q][i] # Off => timer[q][i] # Off
      /\ \A q \in Peer, i \in TimerId : timer'[q][i] = Off =>
             timer[q][i] = Off \/ (q = p /\ l[2] > MaxRetrans)
      /\ l[2] > MaxRetrans => late[p] # {} \/ \E i \in TimerId : timer[p][i] # Off
  BY <1>1, <1>2
<1> QED
  BY <1>1, <1>3, <1>4, <1>5, CallbackStep, Zenon

(* A loop ends and closes the association; packets are at most dropped.      *)
LEMMA CloseStep ==
    ASSUME IInv, NEW p \in Peer, Close(p),
           UNCHANGED <<started, peer_tag, my_cookie, stored_init, stored_cookie_echo,
                       use_forward_tsn, rwnd, conn, outcome, net>>,
           reading' \in [Peer -> {"run", "done", "ended"}], writing' \in [Peer -> BOOLEAN],
           control_queue' = control_queue \/ control_queue' = [control_queue EXCEPT ![p] = {}]
    PROVE  IInv'
<1>0. TypeOK /\ EndInv /\ Roles /\ AnswersAreTrue /\ PeerHasEchoed
  BY DEF IInv, HandshakeInv, EndInv
<1>1. /\ state' = [state EXCEPT ![p] = "Closed"]
      /\ closing' \in [Peer -> BOOLEAN]
      /\ \A q \in Peer : /\ q # p => closing'[q] = closing[q]
                         /\ closing[q] => closing'[q]
      /\ state[p] # "Closed" => closing'[p]
      /\ state[p] = "Closed" => closing'[p] = closing[p]
      /\ timer' \in [Peer -> [TimerId -> Off .. MaxRetrans]]
      /\ late' \in [Peer -> SUBSET (TimerId \X (1 .. MaxRetrans + 1))]
      /\ \A q \in Peer : q # p => timer'[q] = timer[q] /\ late'[q] = late[q]
      /\ \A i \in TimerId : timer'[p][i] = Off
      /\ state[p] = "Closed" => late'[p] = late[p]
  BY <1>0, CloseEffect DEF EndInv
<1>2. /\ state'[p] = "Closed"
      /\ \A q \in Peer : q # p => state'[q] = state[q]
  BY <1>0, <1>1 DEF TypeOK
<1>3. /\ UnderWay' \subseteq UnderWay
      /\ control_queue' \in [Peer -> SUBSET PacketType]
  <2>1. /\ control_queue \in [Peer -> SUBSET PacketType]
        /\ control_queue' \in [Peer -> SUBSET PacketType]
    BY <1>0 DEF TypeOK
  <2>2. \A q \in Peer : control_queue'[q] \subseteq control_queue[q]
    BY <2>1
  <2> QED
    BY <2>1, <2>2 DEF UnderWay
<1>4. TypeOK'
  BY <1>0, <1>1, <1>3 DEF TypeOK, State
<1>5. EndInv'
  BY <1>0, <1>1, <1>2 DEF EndInv, CookieEchoIsRepeated, TimersEnd, OkMeansEstablished,
     TimersFollowState, TimerId
<1>6. Roles'
  <2>1. \A k \in UnderWay' :
           (IF k.type \in {"INIT_ACK", "COOKIE_ACK"} THEN k.to ELSE Other(k.to)) \in Clients
    BY <1>0, <1>3 DEF Roles
  <2> QED
    BY <1>0, <1>1, <1>2, <2>1 DEF Roles
<1>7. AnswersAreTrue'
  <2>1. Onward
    BY <1>1, <1>2 DEF Onward, HasEchoed, IsUp, EchoedNext, UpNext
  <2>2. \A k \in UnderWay' : k \in UnderWay \/ Truthful(k)
    BY <1>3
  <2> QED
    BY <1>0, <2>1, <2>2, AnswersStay
<1>8. PeerHasEchoed'
  <2>1. \A q \in Peer : q # p => Other(q) = p
    BY OtherEnd
  <2> QED
    BY <1>0, <1>1, <1>2, <2>1 DEF PeerHasEchoed
<1> QED
  BY <1>4, <1>5, <1>6, <1>7, <1>8 DEF IInv, HandshakeInv, EndInv

(* The write loop drains its queue or fails and closes.                      *)
LEMMA WriteLoopStep ==
    ASSUME IInv, NEW p \in Peer, WriteLoop(p)
    PROVE  IInv'
<1>0. TypeOK /\ EndInv /\ Roles /\ AnswersAreTrue /\ PeerHasEchoed
  BY DEF IInv, HandshakeInv, EndInv
<1>1. /\ control_queue' = [control_queue EXCEPT ![p] = {}]
      /\ UNCHANGED <<started, peer_tag, my_cookie, stored_init, stored_cookie_echo,
                     use_forward_tsn, rwnd, reading, conn, outcome>>
  BY DEF WriteLoop
<1>2. CASE conn[p]
  <2>1. /\ net' = net \cup control_queue[p]
        /\ UNCHANGED <<state, timer, late, closing, writing>>
    BY <1>2 DEF WriteLoop
  <2>2. UnderWay' \subseteq UnderWay
    BY <1>0, <1>1, <2>1 DEF UnderWay, TypeOK
  <2>3. TypeOK'
    BY <1>0, <1>1, <2>1 DEF TypeOK
  <2>4. EndInv' /\ PeerHasEchoed'
    BY <1>0, <1>1, <2>1 DEF EndInv, CookieEchoIsRepeated, TimersEnd, OkMeansEstablished,
       TimersFollowState, PeerHasEchoed
  <2>5. Roles'
    <3>1. \A k \in UnderWay' :
             (IF k.type \in {"INIT_ACK", "COOKIE_ACK"} THEN k.to ELSE Other(k.to)) \in Clients
      BY <1>0, <2>2 DEF Roles
    <3> QED
      BY <1>0, <1>1, <2>1, <3>1 DEF Roles
  <2>6. AnswersAreTrue'
    <3>1. Onward
      BY <1>1, <2>1 DEF Onward, HasEchoed, IsUp, EchoedNext, UpNext
    <3>2. \A k \in UnderWay' : k \in UnderWay \/ Truthful(k)
      BY <2>2
    <3> QED
      BY <1>0, <3>1, <3>2, AnswersStay
  <2> QED
    BY <2>3, <2>4, <2>5, <2>6 DEF IInv, HandshakeInv, EndInv
<1>3. CASE ~conn[p]
  <2>1. writing' = [writing EXCEPT ![p] = FALSE] /\ Close(p) /\ net' = net
    BY <1>3 DEF WriteLoop
  <2>2. writing' \in [Peer -> BOOLEAN] /\ reading' \in [Peer -> {"run", "done", "ended"}]
    BY <1>0, <1>1, <2>1 DEF TypeOK
  <2> QED
    BY <1>1, <2>1, <2>2, CloseStep
<1> QED
  BY <1>2, <1>3

(* Every step keeps the invariant.                                           *)
LEMMA NextStep ==
    ASSUME IInv, [Next]_vars
    PROVE  IInv'
<1>0. TypeOK
  BY DEF IInv, HandshakeInv
<1>1. ASSUME NEW p \in Peer, WriteLoopEnds(p) PROVE IInv'
  <2>1. writing' \in [Peer -> BOOLEAN] /\ reading' \in [Peer -> {"run", "done", "ended"}]
    BY <1>0, <1>1 DEF TypeOK, WriteLoopEnds
  <2> QED
    BY <1>1, <2>1, CloseStep DEF WriteLoopEnds
<1>2. ASSUME NEW p \in Peer, ReadLoopEnds(p) PROVE IInv'
  <2>1. writing' \in [Peer -> BOOLEAN] /\ reading' \in [Peer -> {"run", "done", "ended"}]
    BY <1>0, <1>2 DEF TypeOK, ReadLoopEnds
  <2> QED
    BY <1>2, <2>1, CloseStep DEF ReadLoopEnds
<1>3. ASSUME NEW p \in Peer, ConnFails(p) PROVE IInv'
  <2>1. conn' \in [Peer -> BOOLEAN] /\ net' \subseteq net /\ UNCHANGED local
    BY <1>0, <1>3 DEF TypeOK, ConnFails
  <2> QED
    BY <2>1, DropStep
<1>4. ASSUME NEW m \in net, Lose(m) PROVE IInv'
  <2>1. conn' \in [Peer -> BOOLEAN] /\ net' \subseteq net /\ UNCHANGED local
    BY <1>0, <1>4 DEF TypeOK, Lose
  <2> QED
    BY <2>1, DropStep
<1>5. CASE UNCHANGED vars
  <2>1. conn' \in [Peer -> BOOLEAN] /\ net' \subseteq net /\ UNCHANGED local
    BY <1>0, <1>5 DEF TypeOK, vars
  <2> QED
    BY <2>1, DropStep
<1> QED
  BY <1>1, <1>2, <1>3, <1>4, <1>5, StartStep, WriteLoopStep, TimeoutStep, LateTimeoutStep,
     InitStep, InitAckStep, CookieEchoStep, CookieAckStep DEF Next

(* The invariant holds when the associations have been created.              *)
LEMMA InitHolds ==
    ASSUME Init
    PROVE  IInv
<1> USE HandshakeAssumption DEF HandshakeAssumption, Init
<1>1. TypeOK
  BY DEF TypeOK, State, Off
<1>2. UnderWay = {}
  BY DEF UnderWay
<1>3. EndInv /\ PeerHasEchoed
  BY DEF EndInv, CookieEchoIsRepeated, TimersEnd, OkMeansEstablished, TimersFollowState,
     TimerId, PeerHasEchoed
<1>4. Roles /\ AnswersAreTrue
  BY <1>2 DEF Roles, AnswersAreTrue
<1> QED
  BY <1>1, <1>3, <1>4 DEF IInv, HandshakeInv, EndInv

(* The invariant holds in every reachable state.                             *)
LEMMA Inductive == Spec => []IInv
<1>1. Init => IInv
  BY InitHolds
<1>2. IInv /\ [Next]_vars => IInv'
  BY NextStep
<1> QED
  BY <1>1, <1>2, PTL DEF Spec

(* In whatever order chunks are lost, delayed and repeated, timers expire,   *)
(* late callbacks run and loops end, each end's timers, stored chunks and    *)
(* reported result agree with its state (the handlers, the T1 callbacks and  *)
(* close of AssociationInternal).                                            *)
THEOREM HandshakeSafe == Spec => []HandshakeInv
<1>1. IInv => HandshakeInv
  BY DEF IInv
<1> QED
  BY <1>1, Inductive, PTL

(* An end that is Established has a peer that is Established too, that will  *)
(* repeat its COOKIE-ECHO because T1-cookie runs, whose client() has          *)
(* returned the failure of the handshake, or that was closed.                *)
THEOREM NeverHalfOpen == Spec => []NoHalfOpen
<1>1. IInv => NoHalfOpen
  <2> SUFFICES ASSUME IInv, NEW p \in Peer, state[p] = "Established"
               PROVE  LET q == Other(p)
                      IN  state[q] = "Established" \/ AsksAgain(q) \/ ReportedFailure(q) \/ closing[q]
    BY DEF NoHalfOpen
  <2> DEFINE q == Other(p)
  <2>1. q \in Peer
    BY OtherEnd
  <2>2. \/ state[q] = "Established"
        \/ state[q] = "CookieEchoed" /\ stored_cookie_echo[q]
        \/ closing[q]
    BY DEF IInv, PeerHasEchoed
  <2> HIDE DEF q
  <2>3. ASSUME state[q] = "CookieEchoed", stored_cookie_echo[q]
        PROVE  AsksAgain(q) \/ ReportedFailure(q)
    <3>1. timer[q]["T1Cookie"] # Off \/ outcome[q] # "waiting"
      BY <2>1, <2>3 DEF IInv, HandshakeInv, CookieEchoIsRepeated
    <3>2. outcome[q] # "ok"
      BY <2>1, <2>3 DEF IInv, HandshakeInv, OkMeansEstablished
    <3>3. outcome[q] \in {"waiting", "ok", "ErrHandshakeInitAck", "ErrHandshakeCookieEcho"}
      BY <2>1 DEF IInv, HandshakeInv, TypeOK
    <3> QED
      BY <2>3, <3>1, <3>2, <3>3 DEF AsksAgain, ReportedFailure
  <2> QED
    BY <2>2, <2>3 DEF q
<1> QED
  BY <1>1, Inductive, PTL
=============================================================================
