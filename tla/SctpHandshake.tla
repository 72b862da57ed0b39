--------------------------- MODULE SctpHandshake ---------------------------
(***************************************************************************)
(* Setting up an SCTP association: Association::client and new, the four   *)
(* handlers of the INIT / INIT-ACK / COOKIE-ECHO / COOKIE-ACK exchange,    *)
(* the T1 timers, the read and write loops and close.  Both ends run this  *)
(* code; Clients are the ends that call client(), the other one only       *)
(* answers, as the server of the deployment does.  DTLS carries the        *)
(* packets: they are lost and reordered, never duplicated.                 *)
(*                                                                         *)
(* Each handler runs under the association lock, so it is one action.      *)
(* Tags, cookies and initial TSNs are random values that never change:     *)
(* what counts is whether an end has its peer's.                           *)
(***************************************************************************)
EXTENDS Integers

CONSTANTS
    Peer,        \* the two ends
    Clients,     \* the ends that call Association::client
    MaxRetrans,  \* MAX_INIT_RETRANS of both T1 timers
    MayFail      \* may net_conn fail (the DTLS connection be closed)?

ASSUME HandshakeAssumption ==
    /\ \E a, b \in Peer : a # b /\ Peer = {a, b}
    /\ Clients \subseteq Peer
    /\ \A p, q \in Clients : p = q    \* the other end only answers
    /\ MaxRetrans \in Nat \ {0}
    /\ MayFail \in BOOLEAN

VARIABLES
    started,            \* new() has run its second critical section
    state,
    peer_tag,           \* peer_verification_tag # 0
    my_cookie,          \* my_cookie.is_some()
    stored_init, stored_cookie_echo,
    use_forward_tsn,
    rwnd,               \* handle_init_ack has set rwnd and ssthresh
    control_queue,      \* packets for the write loop, which awake_write_loop wakes
    timer,              \* timer[p][id]: n_rtos of the running task, or Off
    late,               \* stopped tasks that had expired and wait for the lock
    reading,            \* the read loop: "run", "done" after an error, or "ended"
    writing,            \* the write loop runs
    closing,            \* close_loop_ch_tx was dropped
    conn,               \* net_conn is open
    outcome,            \* first message on handshake_completed_ch
    net

local == <<started, state, peer_tag, my_cookie, stored_init, stored_cookie_echo,
           use_forward_tsn, rwnd, control_queue, timer, late, reading, writing,
           closing, outcome>>
vars == <<local, conn, net>>

Other(p) == CHOOSE q \in Peer : q # p
TimerId == {"T1Init", "T1Cookie"}
Off == -1
State == {"Closed", "CookieWait", "CookieEchoed", "Established"}

(* What set_forward_tsn_supported puts into an INIT and an INIT-ACK.         *)
InitParams == {"ForwardTsnSupported"}

Packet(to, type, tagged) == [to |-> to, type |-> type, tagged |-> tagged]
PacketType ==
    [to : Peer, type : {"INIT", "INIT_ACK", "COOKIE_ECHO", "COOKIE_ACK"}, tagged : BOOLEAN]

(* The packets on their way or queued for the write loop.                    *)
UnderWay == net \cup UNION {control_queue[p] : p \in Peer}

TypeOK ==
    /\ started \in [Peer -> BOOLEAN]
    /\ state \in [Peer -> State]
    /\ peer_tag \in [Peer -> BOOLEAN] /\ my_cookie \in [Peer -> BOOLEAN]
    /\ stored_init \in [Peer -> BOOLEAN] /\ stored_cookie_echo \in [Peer -> BOOLEAN]
    /\ use_forward_tsn \in [Peer -> BOOLEAN] /\ rwnd \in [Peer -> BOOLEAN]
    /\ writing \in [Peer -> BOOLEAN] /\ closing \in [Peer -> BOOLEAN]
    /\ conn \in [Peer -> BOOLEAN]
    /\ reading \in [Peer -> {"run", "done", "ended"}]
    /\ net \subseteq PacketType /\ control_queue \in [Peer -> SUBSET PacketType]
    /\ timer \in [Peer -> [TimerId -> Off .. MaxRetrans]]
    /\ late \in [Peer -> SUBSET (TimerId \X (1 .. MaxRetrans + 1))]
    /\ outcome \in [Peer -> {"waiting", "ok", "ErrHandshakeInitAck", "ErrHandshakeCookieEcho"}]

(* new() has created the association and spawned its loops.                  *)
Init ==
    /\ started = [p \in Peer |-> p \notin Clients]
    /\ state = [p \in Peer |-> "Closed"]
    /\ peer_tag = [p \in Peer |-> FALSE] /\ my_cookie = [p \in Peer |-> FALSE]
    /\ stored_init = [p \in Peer |-> FALSE] /\ stored_cookie_echo = [p \in Peer |-> FALSE]
    /\ use_forward_tsn = [p \in Peer |-> FALSE] /\ rwnd = [p \in Peer |-> FALSE]
    /\ control_queue = [p \in Peer |-> {}]
    /\ timer = [p \in Peer |-> [i \in TimerId |-> Off]]
    /\ late = [p \in Peer |-> {}]
    /\ reading = [p \in Peer |-> "run"] /\ writing = [p \in Peer |-> TRUE]
    /\ closing = [p \in Peer |-> FALSE] /\ conn = [p \in Peer |-> TRUE]
    /\ outcome = [p \in Peer |-> "waiting"]
    /\ net = {}

-----------------------------------------------------------------------------
(* Mutant: stop has no effect.                                               *)
NeverStopped(p, stopped, begun) ==
    /\ timer' = [timer EXCEPT ![p] = [i \in TimerId |->
                                          IF i \in begun /\ @[i] = Off THEN 0 ELSE @[i]]]
    /\ UNCHANGED late

(* RtxTimer::stop of the timers stopped, start of the ones begun.  A stopped *)
(* task that has expired is past its select! and still calls back, with the  *)
(* count it had reached.                                                     *)
Timers(p, stopped, begun) ==
    /\ timer' = [timer EXCEPT ![p] = [i \in TimerId |-> IF i \in stopped THEN Off
                                          ELSE IF i \in begun /\ @[i] = Off THEN 0
                                          ELSE @[i]]]
    /\ \E expired \in SUBSET {i \in stopped : timer[p][i] # Off} :
          late' = [late EXCEPT ![p] = @ \cup {<<i, timer[p][i] + 1>> : i \in expired}]

(* handshake_completed_ch: client() takes the first message and drops it.    *)
Complete(p, result) ==
    outcome' = [outcome EXCEPT ![p] = IF @ = "waiting" THEN result ELSE @]

(* AssociationInternal::close.                                               *)
Close(p) ==
    IF state[p] = "Closed"
      THEN UNCHANGED <<state, timer, late, closing>>
      ELSE /\ state' = [state EXCEPT ![p] = "Closed"]
           /\ Timers(p, TimerId, {})
           /\ closing' = [closing EXCEPT ![p] = TRUE]

(* send_init moves the stored INIT into the packet it queues.                *)
SendInit(p, stored) ==
    /\ stored_init' = [stored_init EXCEPT ![p] = FALSE]
    /\ control_queue' = [control_queue EXCEPT
                            ![p] = IF stored THEN @ \cup {Packet(Other(p), "INIT", peer_tag[p])}
                                             ELSE @]

(* The second critical section of new(): the loops already run.              *)
StartClient(p) ==
    /\ p \in Clients /\ ~started[p]
    /\ started' = [started EXCEPT ![p] = TRUE]
    /\ state' = [state EXCEPT ![p] = "CookieWait"]
    /\ SendInit(p, TRUE)
    /\ Timers(p, {}, {"T1Init"})
    /\ UNCHANGED <<peer_tag, my_cookie, stored_cookie_echo, use_forward_tsn, rwnd,
                   reading, writing, closing, conn, outcome, net>>

-----------------------------------------------------------------------------
(* The handlers.  Receive(p, m): the read loop takes m from net_conn.        *)
Receive(p, m) ==
    /\ reading[p] = "run" /\ conn[p]
    /\ m.to = p
    /\ net' = net \ {m}

Reply(p, type) ==
    control_queue' = [control_queue EXCEPT ![p] = @ \cup {Packet(Other(p), type, TRUE)}]

Discard == UNCHANGED local

(* An INIT with a verification tag is invalid.  One in state Established is  *)
(* an error: the read loop ends and then closes the association.             *)
HandleInit(p, m) ==
    /\ Receive(p, m) /\ m.type = "INIT"
    /\ UNCHANGED conn
    /\ \/ m.tagged /\ Discard
       \/ /\ ~m.tagged /\ state[p] = "Established"
          /\ reading' = [reading EXCEPT ![p] = "done"]
          /\ UNCHANGED <<started, state, peer_tag, my_cookie, stored_init, stored_cookie_echo,
                         use_forward_tsn, rwnd, control_queue, timer, late, writing, closing,
                         outcome>>
       \/ /\ ~m.tagged /\ state[p] # "Established"
          /\ peer_tag' = [peer_tag EXCEPT ![p] = TRUE]
          /\ use_forward_tsn' = [use_forward_tsn EXCEPT
                                    ![p] = @ \/ "SupportedExtensions" \in InitParams]
          /\ my_cookie' = [my_cookie EXCEPT ![p] = TRUE]
          /\ Reply(p, "INIT_ACK")
          /\ UNCHANGED <<started, state, stored_init, stored_cookie_echo, rwnd, timer, late,
                         reading, writing, closing, outcome>>

HandleInitAck(p, m) ==
    /\ Receive(p, m) /\ m.type = "INIT_ACK"
    /\ UNCHANGED conn
    /\ IF state[p] # "CookieWait"
         THEN Discard
         ELSE /\ peer_tag' = [peer_tag EXCEPT ![p] = TRUE]
              /\ rwnd' = [rwnd EXCEPT ![p] = TRUE]
              /\ stored_init' = [stored_init EXCEPT ![p] = FALSE]
              /\ use_forward_tsn' = [use_forward_tsn EXCEPT
                    ![p] = @ \/ InitParams \cap {"SupportedExtensions", "ForwardTsnSupported"} # {}]
              /\ stored_cookie_echo' = [stored_cookie_echo EXCEPT ![p] = TRUE]
              /\ Reply(p, "COOKIE_ECHO")
              /\ state' = [state EXCEPT ![p] = "CookieEchoed"]
              /\ Timers(p, {"T1Init"}, {"T1Cookie"})
              /\ UNCHANGED <<started, my_cookie, reading, writing, closing, outcome>>

(* Mutant: the cookie is acknowledged and set_state is not called.           *)
HandleCookieEchoKeepsState(p, m) ==
    /\ Receive(p, m) /\ m.type = "COOKIE_ECHO"
    /\ my_cookie[p]
    /\ Complete(p, "ok")
    /\ Reply(p, "COOKIE_ACK")
    /\ UNCHANGED <<started, state, peer_tag, my_cookie, stored_init, stored_cookie_echo,
                   use_forward_tsn, rwnd, timer, late, reading, writing, closing, conn>>

HandleCookieEcho(p, m) ==
    /\ Receive(p, m) /\ m.type = "COOKIE_ECHO"
    /\ UNCHANGED conn
    /\ \/ ~my_cookie[p] /\ Discard
       \/ /\ my_cookie[p] /\ state[p] = "Established"
          /\ Reply(p, "COOKIE_ACK")
          /\ UNCHANGED <<started, state, peer_tag, my_cookie, stored_init, stored_cookie_echo,
                         use_forward_tsn, rwnd, timer, late, reading, writing, closing, outcome>>
       \/ /\ my_cookie[p] /\ state[p] # "Established"
          /\ Timers(p, TimerId, {})
          /\ stored_init' = [stored_init EXCEPT ![p] = FALSE]
          /\ stored_cookie_echo' = [stored_cookie_echo EXCEPT ![p] = FALSE]
          /\ state' = [state EXCEPT ![p] = "Established"]
          /\ Complete(p, "ok")
          /\ Reply(p, "COOKIE_ACK")
          /\ UNCHANGED <<started, peer_tag, my_cookie, use_forward_tsn, rwnd, reading, writing,
                         closing>>

HandleCookieAck(p, m) ==
    /\ Receive(p, m) /\ m.type = "COOKIE_ACK"
    /\ UNCHANGED conn
    /\ IF state[p] # "CookieEchoed"
         THEN Discard
         ELSE /\ Timers(p, {"T1Cookie"}, {})
              /\ stored_cookie_echo' = [stored_cookie_echo EXCEPT ![p] = FALSE]
              /\ state' = [state EXCEPT ![p] = "Established"]
              /\ Complete(p, "ok")
              /\ UNCHANGED <<started, peer_tag, my_cookie, stored_init, use_forward_tsn, rwnd,
                             control_queue, reading, writing, closing>>

-----------------------------------------------------------------------------
(* Mutant: a failure of T1-init is logged and not reported.                  *)
OnTimeoutSilent(p, id, n) ==
    IF n > MaxRetrans
      THEN /\ IF id = "T1Init" THEN UNCHANGED outcome ELSE Complete(p, "ErrHandshakeCookieEcho")
           /\ UNCHANGED <<stored_init, control_queue>>
      ELSE /\ UNCHANGED outcome
           /\ IF id = "T1Init"
                THEN SendInit(p, stored_init[p])
                ELSE /\ UNCHANGED stored_init
                     /\ IF stored_cookie_echo[p] THEN Reply(p, "COOKIE_ECHO")
                                                 ELSE UNCHANGED control_queue

(* The timer's task calls on_retransmission_timeout the first MaxRetrans     *)
(* times and on_retransmission_failure after that.                           *)
OnTimeout(p, id, n) ==
    IF n > MaxRetrans
      THEN /\ Complete(p, IF id = "T1Init" THEN "ErrHandshakeInitAck"
                                           ELSE "ErrHandshakeCookieEcho")
           /\ UNCHANGED <<stored_init, control_queue>>
      ELSE /\ UNCHANGED outcome
           /\ IF id = "T1Init"
                THEN SendInit(p, stored_init[p])
                ELSE /\ UNCHANGED stored_init
                     /\ IF stored_cookie_echo[p] THEN Reply(p, "COOKIE_ECHO")
                                                 ELSE UNCHANGED control_queue

Timeout(p, id) ==
    LET n == timer[p][id] + 1
    IN  /\ timer[p][id] # Off
        /\ OnTimeout(p, id, n)
        /\ timer' = [timer EXCEPT ![p][id] = IF n > MaxRetrans THEN Off ELSE n]
        /\ UNCHANGED <<started, state, peer_tag, my_cookie, stored_cookie_echo, use_forward_tsn,
                       rwnd, late, reading, writing, closing, conn, net>>

LateTimeout(p) ==
    \E l \in late[p] :
        /\ OnTimeout(p, l[1], l[2])
        /\ late' = [late EXCEPT ![p] = @ \ {l}]
        /\ UNCHANGED <<started, state, peer_tag, my_cookie, stored_cookie_echo, use_forward_tsn,
                       rwnd, timer, reading, writing, closing, conn, net>>

-----------------------------------------------------------------------------
(* The write loop drains the control queue, even after close: select! picks  *)
(* either of two ready branches.  A failed send ends it.                     *)
WriteLoop(p) ==
    /\ writing[p]
    /\ control_queue[p] # {}
    /\ control_queue' = [control_queue EXCEPT ![p] = {}]
    /\ IF conn[p]
         THEN /\ net' = net \cup control_queue[p]
              /\ UNCHANGED <<state, timer, late, closing, writing>>
         ELSE /\ writing' = [writing EXCEPT ![p] = FALSE]
              /\ Close(p)
              /\ UNCHANGED net
    /\ UNCHANGED <<started, peer_tag, my_cookie, stored_init, stored_cookie_echo,
                   use_forward_tsn, rwnd, reading, conn, outcome>>

(* A loop ends after close, the read loop also after an error; each closes.  *)
WriteLoopEnds(p) ==
    /\ writing[p] /\ closing[p]
    /\ writing' = [writing EXCEPT ![p] = FALSE]
    /\ Close(p)
    /\ UNCHANGED <<started, peer_tag, my_cookie, stored_init, stored_cookie_echo,
                   use_forward_tsn, rwnd, control_queue, reading, conn, outcome, net>>

ReadLoopEnds(p) ==
    /\ reading[p] = "done" \/ (reading[p] = "run" /\ (closing[p] \/ ~conn[p]))
    /\ reading' = [reading EXCEPT ![p] = "ended"]
    /\ Close(p)
    /\ UNCHANGED <<started, peer_tag, my_cookie, stored_init, stored_cookie_echo,
                   use_forward_tsn, rwnd, control_queue, writing, conn, outcome, net>>

ConnFails(p) ==
    /\ MayFail /\ conn[p]
    /\ conn' = [conn EXCEPT ![p] = FALSE]
    /\ UNCHANGED <<local, net>>

Lose(m) ==
    /\ net' = net \ {m}
    /\ UNCHANGED <<local, conn>>

Next ==
    \/ \E p \in Peer : StartClient(p)
    \/ \E p \in Peer : WriteLoop(p)
    \/ \E p \in Peer : WriteLoopEnds(p)
    \/ \E p \in Peer : ReadLoopEnds(p)
    \/ \E p \in Peer : ConnFails(p)
    \/ \E p \in Peer, id \in TimerId : Timeout(p, id)
    \/ \E p \in Peer : LateTimeout(p)
    \/ \E p \in Peer, m \in net : HandleInit(p, m)
    \/ \E p \in Peer, m \in net : HandleInitAck(p, m)
    \/ \E p \in Peer, m \in net : HandleCookieEcho(p, m)
    \/ \E p \in Peer, m \in net : HandleCookieAck(p, m)
    \/ \E m \in net : Lose(m)

Spec == Init /\ [][Next]_vars

(* The runtime schedules every task.  Nothing is assumed of the network.     *)
FairSpec ==
    /\ Spec
    /\ \A p \in Peer : /\ WF_vars(StartClient(p))
                       /\ WF_vars(WriteLoop(p))
                       /\ WF_vars(WriteLoopEnds(p))
                       /\ WF_vars(ReadLoopEnds(p))
                       /\ WF_vars(LateTimeout(p))
                       /\ \A id \in TimerId : WF_vars(Timeout(p, id))

-----------------------------------------------------------------------------
(* Properties.                                                               *)

(* An end in CookieEchoed can still get out: the COOKIE-ECHO is stored and   *)
(* T1-cookie runs, or the failure was reported.                              *)
CookieEchoIsRepeated ==
    \A p \in Peer : state[p] = "CookieEchoed" =>
        stored_cookie_echo[p] /\ (timer[p]["T1Cookie"] # Off \/ outcome[p] # "waiting")

(* No timer of the handshake outlives it, in whatever order repeated chunks  *)
(* and late callbacks come: one that did would fail a working association.   *)
TimersEnd ==
    \A p \in Peer : state[p] \in {"Established", "Closed"} =>
        \A id \in TimerId : timer[p][id] = Off

(* client() returns Ok only for an association that is, or was, Established. *)
OkMeansEstablished ==
    \A p \in Peer : outcome[p] = "ok" => state[p] \in {"Established", "Closed"}

(* T1-init runs only in CookieWait, T1-cookie only in CookieEchoed.          *)
TimersFollowState ==
    \A p \in Peer :
        /\ timer[p]["T1Init"] # Off => state[p] = "CookieWait"
        /\ timer[p]["T1Cookie"] # Off => state[p] = "CookieEchoed"

(* The parts of the two ends: who asks gets acknowledgements and never hands *)
(* out a cookie, who answers asks for nothing, and before new() has run its  *)
(* second section nothing has happened.                                      *)
Roles ==
    /\ \A m \in UnderWay :
        (IF m.type \in {"INIT_ACK", "COOKIE_ACK"} THEN m.to ELSE Other(m.to)) \in Clients
    /\ \A p \in Peer :
        /\ ~stored_init[p]
        /\ p \in Clients => ~my_cookie[p]
        /\ p \notin Clients => state[p] \in {"Closed", "Established"} /\ ~stored_cookie_echo[p]
        /\ p \in Clients /\ ~started[p] =>
              state[p] = "Closed" /\ outcome[p] = "waiting" /\ ~closing[p] /\ late[p] = {}

(* What holds at all times of an end: its fields keep their types, what it   *)
(* waits for is asked for again, its timers and its result follow its state. *)
(* The conjunction is inductive.                                             *)
HandshakeInv ==
    /\ TypeOK /\ CookieEchoIsRepeated /\ TimersEnd /\ OkMeansEstablished
    /\ TimersFollowState /\ Roles

(* An end that has echoed the cookie or is Established, or was and closed.   *)
HasEchoed(p) == state[p] \in {"CookieEchoed", "Established"} \/ closing[p]
IsUp(p) == state[p] = "Established" \/ closing[p]

(* What keeps the two ends together: a COOKIE-ECHO that is stored or under   *)
(* way comes from an end that has echoed the cookie, a COOKIE-ACK from one   *)
(* that is Established, unless it has been closed since.                     *)
AnswersAreTrue ==
    /\ \A p \in Peer : stored_cookie_echo[p] => HasEchoed(p)
    /\ \A m \in UnderWay :
        /\ m.type = "COOKIE_ECHO" => HasEchoed(Other(m.to))
        /\ m.type = "COOKIE_ACK" => IsUp(Other(m.to))

(* While an end is Established the other one is too, has echoed the cookie   *)
(* and keeps it, or has been closed.                                         *)
PeerHasEchoed ==
    \A p \in Peer : state[p] = "Established" =>
        LET q == Other(p)
        IN  \/ state[q] = "Established"
            \/ state[q] = "CookieEchoed" /\ stored_cookie_echo[q]
            \/ closing[q]

(* T1-cookie still runs: its callback will queue the COOKIE-ECHO again.      *)
AsksAgain(q) ==
    state[q] = "CookieEchoed" /\ stored_cookie_echo[q] /\ timer[q]["T1Cookie"] # Off

(* T1 has given up, and client() has returned the error to its caller.       *)
ReportedFailure(q) ==
    state[q] = "CookieEchoed" /\ outcome[q] \in {"ErrHandshakeInitAck", "ErrHandshakeCookieEcho"}

(* No association is half-open unnoticed: while an end is Established the    *)
(* other one is too, or will repeat its COOKIE-ECHO, or has told its caller  *)
(* that the handshake failed, or has been closed.  No end waits in           *)
(* CookieEchoed for an answer that it no longer asks for.                    *)
NoHalfOpen ==
    \A p \in Peer : state[p] = "Established" =>
        LET q == Other(p)
        IN  state[q] = "Established" \/ AsksAgain(q) \/ ReportedFailure(q) \/ closing[q]

(* While the DTLS connection is up every handshake ends in success or in a   *)
(* reported error, however many packets are lost and however late timers     *)
(* call back.                                                                *)
HandshakeEnds == \A p \in Clients : <>(outcome[p] # "waiting" \/ ~conn[p])
=============================================================================
