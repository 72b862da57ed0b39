--------------------------- MODULE PeerConnection ---------------------------
(***************************************************************************)
(* The client from Socket::connect to its two data loops: the connecting   *)
(* task, the task that gathers candidates, the operations queue that       *)
(* starts the ICE, DTLS and SCTP transports and opens the data channel,    *)
(* the routine that reports the states of the ICE agent, and the reading   *)
(* and writing loops.  The protocols below are the other modules; here     *)
(* they are calls that succeed, fail or never return.                      *)
(*                                                                         *)
(* Nobody closes anything: a task ends when the last owner of a channel is *)
(* dropped.  The operators *Held say who still owns what.                  *)
(***************************************************************************)
EXTENDS Naturals, Sequences

CONSTANTS
    Hosts,        \* the local addresses
    ChannelSize,  \* CLIENT_CHANNEL_SIZE
    MaxMessages   \* bound: messages in each direction

ASSUME PeerAssumption == ChannelSize \in Nat \ {0} /\ MaxMessages \in Nat

VARIABLES
    main,                   \* where connect stands, and its caller after it
    signaling_state,
    gatherer_state, to_gather, local_candidates,
    offered,                \* the local description that is posted
    op,                     \* where the queued operation stands
    aggregated,             \* the state it is about to store
    agent_state,            \* of the ICE agent
    on_connected,           \* dial may return
    chan_state,             \* at most one state of the agent
    routine,                \* the state being reported, and how far
    ice_transport_state, ice_connection_state, peer_connection_state,
    dtls_state, sctp_state,
    holder,                 \* the task that keeps dtls_transport
    mux_loop,
    data_channel, ready_state, on_open_handler, opening,
    association,            \* "none", "up" or "closed"
    panicked,
    to_server, to_client,   \* the channels between the application and the loops
    read_loop, write_loop,
    sent, written, received \* history: counts of messages

connectVars == <<main, signaling_state, offered>>
gatherVars == <<gatherer_state, to_gather, local_candidates>>
agentVars == <<agent_state, on_connected, chan_state>>
stateVars == <<routine, aggregated, ice_transport_state, ice_connection_state,
               peer_connection_state>>
transportVars == <<op, dtls_state, sctp_state, holder, mux_loop, association>>
openVars == <<data_channel, ready_state, on_open_handler, opening, panicked>>
dataVars == <<to_server, to_client, read_loop, write_loop, sent, written, received>>
vars == <<connectVars, gatherVars, agentVars, stateVars, transportVars, openVars, dataVars>>

Nothing == "nothing"

(* RTCIceGatherer::new and create_agent.                                     *)
NewGatherer == gatherer_state = "New" /\ to_gather = Hosts /\ local_candidates = {}

(* Agent::new.                                                               *)
NewAgent == agent_state = "New" /\ on_connected = FALSE /\ chan_state = <<>>

(* RTCSctpTransport::new: SCTP has no state New.                             *)
NewSctpTransport == sctp_state = "Connecting" /\ association = "none"

(* Socket::connect makes its two channels, and PeerConnectionInternal::new   *)
(* the parts of the connection.                                              *)
Init ==
    /\ main = "create" /\ signaling_state = "Stable" /\ offered = Nothing
    /\ NewGatherer /\ NewAgent /\ NewSctpTransport
    /\ op = "none" /\ aggregated = Nothing /\ routine = <<>>
    /\ ice_transport_state = "New" /\ ice_connection_state = "New"
    /\ peer_connection_state = "New" /\ dtls_state = "New"
    /\ holder = FALSE /\ mux_loop = "none"
    /\ data_channel = FALSE /\ ready_state = "none" /\ on_open_handler = FALSE
    /\ opening = 0 /\ panicked = FALSE
    /\ to_server = <<>> /\ to_client = <<>>
    /\ read_loop = "none" /\ write_loop = "none"
    /\ sent = 0 /\ written = <<>> /\ received = 0

-----------------------------------------------------------------------------
(* Ownership.                                                                *)

(* connect has the peer connection until it returns, the operation until it  *)
(* is done.                                                                  *)
InternalHeld == main \notin {"returned", "dropped", "panicked"} \/ op \notin {"none", "done"}

(* Mutant: the task that maybe_start_sctp spawns ends without waiting.       *)
HolderEnds == InternalHeld

(* dtls_transport is also kept by the task that maybe_start_sctp spawns.     *)
DtlsHeld == InternalHeld \/ holder

(* ice_transport, with the Mux, is a field of both.                          *)
IceHeld == InternalHeld \/ DtlsHeld

(* Mux::read_loop dispatches what it receives, and after a failed receive    *)
(* what it still has from the last (no change: what reaches an endpoint      *)
(* twice is the business of the protocol below).  It ends for good when the  *)
(* endpoint's buffer is full, and when closed_ch_tx is dropped with the Mux. *)
MuxReadLoop ==
    /\ mux_loop = "running"
    /\ mux_loop' \in {"failed"} \cup (IF IceHeld THEN {} ELSE {"closed"})
    /\ UNCHANGED <<connectVars, gatherVars, agentVars, stateVars, op, dtls_state, sctp_state,
                   holder, association, openVars, dataVars>>

-----------------------------------------------------------------------------
(* Socket::connect.                                                          *)

(* The data channel and its handlers.  SCTP is not connected yet, so it is   *)
(* not opened here.                                                          *)
CreateDataChannel ==
    /\ main = "create" /\ main' = "offer"
    /\ ready_state' = "Connecting" /\ on_open_handler' = TRUE
    /\ UNCHANGED <<signaling_state, offered, gatherVars, agentVars, stateVars, transportVars,
                   data_channel, opening, panicked, dataVars>>

(* create_offer: no candidate is known yet, as nothing was gathered.         *)
CreateOffer ==
    /\ main = "offer" /\ main' = "local"
    /\ offered' = [complete |-> gatherer_state = "Complete", candidates |-> local_candidates]
    /\ UNCHANGED <<signaling_state, gatherVars, agentVars, stateVars, transportVars, openVars,
                   dataVars>>

(* RTCIceGatherer::gather, which spawns the gathering task.                  *)
StartGathering ==
    IF gatherer_state = "New" THEN gatherer_state' = "Gathering" ELSE UNCHANGED gatherer_state

(* set_local_description, with the offer (module Signaling).                 *)
SetLocalDescription ==
    /\ main = "local" /\ main' = "describe"
    /\ signaling_state = "Stable" /\ signaling_state' = "HaveLocalOffer"
    /\ StartGathering
    /\ UNCHANGED <<offered, to_gather, local_candidates, agentVars, stateVars, transportVars,
                   openVars, dataVars>>

(* Mutant: the candidates are read first.                                    *)
CandidatesFirst ==
    \/ /\ main = "describe" /\ main' = "populate"
       /\ offered' = [complete |-> FALSE, candidates |-> local_candidates]
    \/ /\ main = "populate" /\ main' = "post"
       /\ offered' = [offered EXCEPT !.complete = gatherer_state = "Complete"]

(* local_description: the gathering state is read, and then the candidates   *)
(* are added; in the state Complete end-of-candidates is added too.          *)
PopulateLocalCandidates ==
    \/ /\ main = "describe" /\ main' = "populate"
       /\ offered' = [complete |-> gatherer_state = "Complete", candidates |-> {}]
    \/ /\ main = "populate" /\ main' = "post"
       /\ offered' = [offered EXCEPT !.candidates = local_candidates]

LocalDescription ==
    /\ PopulateLocalCandidates
    /\ UNCHANGED <<signaling_state, gatherVars, agentVars, stateVars, transportVars, openVars,
                   dataVars>>

(* The request fails and is repeated with the same body (no change), or the  *)
(* response is parsed, or is no session response.                            *)
Post ==
    /\ main = "post" /\ main' \in {"remote", "panicked"}
    /\ UNCHANGED <<signaling_state, offered, gatherVars, agentVars, stateVars, transportVars,
                   openVars, dataVars>>

(* Operations::enqueue: the task of the queue is idle until now.             *)
Enqueue == op = "none" /\ op' = "queued"

(* set_remote_description: the answer is parsed and taken, its candidates    *)
(* are added and the operation is queued.  Or it is no session description,  *)
(* or was taken and lacks credentials or a fingerprint, and connect panics.  *)
SetRemoteDescription ==
    /\ main = "remote" /\ signaling_state = "HaveLocalOffer"
    /\ \/ main' = "candidate" /\ signaling_state' = "Stable" /\ Enqueue
       \/ main' = "panicked" /\ signaling_state' \in {"HaveLocalOffer", "Stable"} /\ UNCHANGED op
    /\ UNCHANGED <<offered, gatherVars, agentVars, stateVars, dtls_state, sctp_state, holder,
                   mux_loop, association, openVars, dataVars>>

(* add_ice_candidate, and connect returns.                                   *)
AddIceCandidate ==
    /\ main = "candidate" /\ main' \in {"returned", "panicked"}
    /\ UNCHANGED <<signaling_state, offered, gatherVars, agentVars, stateVars, transportVars,
                   openVars, dataVars>>

-----------------------------------------------------------------------------
(* Gathering, in a task of its own.                                          *)

(* A socket is bound to an address and its candidate added, or it fails.     *)
GatherCandidate(h) ==
    /\ gatherer_state = "Gathering" /\ h \in to_gather
    /\ to_gather' = to_gather \ {h}
    /\ local_candidates' \in {local_candidates, local_candidates \cup {h}}
    /\ UNCHANGED <<gatherer_state, connectVars, agentVars, stateVars, transportVars, openVars,
                   dataVars>>

(* set_gathering_state sends None, and the handler stores Complete.          *)
GatheringComplete ==
    /\ gatherer_state = "Gathering" /\ to_gather = {}
    /\ gatherer_state' = "Complete"
    /\ UNCHANGED <<to_gather, local_candidates, connectVars, agentVars, stateVars,
                   transportVars, openVars, dataVars>>

-----------------------------------------------------------------------------
(* The ICE agent (IceAgent) and the routine that reports its states.         *)

(* update_connection_state of the agent: what may follow what.               *)
AgentNext(s) ==
    CASE s = "Checking" -> {"Connected", "Failed"}
      [] s = "Connected" -> {"Disconnected", "Failed"}
      [] s = "Disconnected" -> {"Connected", "Failed"}
      [] s = "Failed" -> {"Connected"}
      [] OTHER -> {}

(* The state goes into the channel, which has to be empty; on_connected_tx   *)
(* is dropped after that.                                                    *)
AgentChanges ==
    /\ chan_state = <<>>
    /\ \E s \in AgentNext(agent_state) :
          agent_state' = s /\ chan_state' = <<s>> /\ on_connected' = (on_connected \/ s = "Connected")
    /\ UNCHANGED <<connectVars, gatherVars, stateVars, transportVars, openVars, dataVars>>

(* The routine takes a state and waits for the lock of the handler, ...      *)
RoutineReceives ==
    /\ chan_state # <<>> /\ routine = <<>>
    /\ routine' = <<"store", Head(chan_state)>> /\ chan_state' = <<>>
    /\ UNCHANGED <<agent_state, on_connected, aggregated, ice_transport_state, ice_connection_state,
                   peer_connection_state, connectVars, gatherVars, transportVars, openVars,
                   dataVars>>

(* ... calls it, which stores the state of the ICE transport, ...            *)
RoutineStores ==
    /\ routine # <<>> /\ routine[1] = "store"
    /\ ice_transport_state' = routine[2]
    /\ routine' = <<"report", routine[2]>>
    /\ UNCHANGED <<aggregated, ice_connection_state, peer_connection_state, connectVars,
                   gatherVars, agentVars, transportVars, openVars, dataVars>>

(* update_connection_state: the state of both transports.                    *)
Aggregate(ice, dtls) ==
    IF ice = "Failed" \/ dtls = "Failed" THEN "Failed"
    ELSE IF ice = "Disconnected" THEN "Disconnected"
    ELSE IF ice = "Connected" /\ dtls = "Connected" THEN "Connected"
    ELSE IF ice = "Checking" /\ dtls = "Connecting" THEN "Connecting"
    ELSE "New"

(* The state of the default DTLS transport that the closure kept.            *)
CapturedDtlsState == "Unspecified"

(* ... then do_ice_connection_state_change and update_connection_state.      *)
RoutineReports ==
    /\ routine # <<>>
    /\ \/ /\ routine[1] = "report" /\ routine' = <<"aggregate", routine[2]>>
          /\ ice_connection_state' = routine[2]
          /\ UNCHANGED peer_connection_state
       \/ /\ routine[1] = "aggregate" /\ routine' = <<>>
          /\ peer_connection_state' = Aggregate(routine[2], CapturedDtlsState)
          /\ UNCHANGED ice_connection_state
    /\ UNCHANGED <<aggregated, ice_transport_state, connectVars, gatherVars, agentVars,
                   transportVars, openVars, dataVars>>

-----------------------------------------------------------------------------
(* The operation: start_transports, maybe_start_sctp.                        *)

(* RTCIceTransport::start: the handler is set and dial starts the checks; or *)
(* the credentials are empty, dial fails, and start_transports returns.      *)
StartIce ==
    /\ op = "queued" /\ ice_transport_state = "New"
    /\ \/ op' = "dialing" /\ agent_state' = "Checking" /\ chan_state' = <<"Checking">>
       \/ op' = "sctp" /\ UNCHANGED <<agent_state, chan_state>>
    /\ UNCHANGED <<on_connected, connectVars, gatherVars, stateVars, dtls_state, sctp_state,
                   holder, mux_loop, association, openVars, dataVars>>

(* dial returns when a pair was selected, and only then.                     *)
DialReturns ==
    /\ op = "dialing" /\ on_connected
    /\ op' = "dtls" /\ mux_loop' = "running"
    /\ UNCHANGED <<connectVars, gatherVars, agentVars, stateVars, dtls_state, sctp_state,
                   holder, association, openVars, dataVars>>

(* RTCDtlsTransport::start: ensure_ice_conn looks at the state the routine   *)
(* stores, so the routine may be late.                                       *)
StartDtls ==
    /\ op = "dtls"
    /\ IF ice_transport_state = "New"
         THEN op' = "aggregate" /\ UNCHANGED dtls_state
         ELSE op' = "handshaking" /\ dtls_state' = "Connecting"
    /\ UNCHANGED <<connectVars, gatherVars, agentVars, stateVars, sctp_state, holder, mux_loop,
                   association, openVars, dataVars>>

(* DTLSConn::new returns a connection or an error.                           *)
DtlsReturns ==
    /\ op = "handshaking" /\ op' = "aggregate"
    /\ dtls_state' \in {"Connected", "Failed"}
    /\ UNCHANGED <<connectVars, gatherVars, agentVars, stateVars, sctp_state, holder, mux_loop,
                   association, openVars, dataVars>>

(* start_transports calls update_connection_state: the two states are read   *)
(* as arguments, the result is stored afterwards.                            *)
OpAggregates ==
    /\ \/ /\ op = "aggregate" /\ op' = "store"
          /\ aggregated' = Aggregate(ice_connection_state, dtls_state)
          /\ UNCHANGED peer_connection_state
       \/ /\ op = "store" /\ op' = "sctp"
          /\ peer_connection_state' = aggregated /\ aggregated' = Nothing
    /\ UNCHANGED <<routine, ice_transport_state, ice_connection_state, connectVars, gatherVars,
                   agentVars, dtls_state, sctp_state, holder, mux_loop, association, openVars,
                   dataVars>>

(* Mutant: any DTLS transport that was started will do.                      *)
DtlsStarted == dtls_state # "New"

(* dtls_transport.conn is set only after the handshake.                      *)
DtlsConn == dtls_state = "Connected"

(* The task that keeps dtls_transport.                                       *)
SpawnHolder == holder' = TRUE

(* maybe_start_sctp and RTCSctpTransport::start, also after a failure; or    *)
(* the answer has no application section.                                    *)
MaybeStartSctp ==
    /\ op = "sctp" /\ SpawnHolder
    /\ \/ DtlsConn /\ op' = "associating" /\ UNCHANGED sctp_state
       \/ ~DtlsConn /\ op' = "done" /\ sctp_state' = "Closed"
       \/ op' = "done" /\ UNCHANGED sctp_state
    /\ UNCHANGED <<connectVars, gatherVars, agentVars, stateVars, dtls_state, mux_loop,
                   association, openVars, dataVars>>

(* Association::client returns an association, or an error and stop is       *)
(* called.                                                                   *)
AssociationReturns ==
    /\ op = "associating"
    /\ \/ op' = "open" /\ sctp_state' = "Connected" /\ association' = "up"
       \/ op' = "done" /\ sctp_state' = "Closed" /\ UNCHANGED association
    /\ UNCHANGED <<connectVars, gatherVars, agentVars, stateVars, dtls_state, holder, mux_loop,
                   openVars, dataVars>>

(* RTCDataChannel::open: the stream is opened and DATA_CHANNEL_OPEN written; *)
(* handle_open stores the channel, or the association is closed by now.      *)
OpenDataChannel ==
    /\ op = "open" /\ ready_state = "Connecting"
    /\ IF association = "up" THEN op' = "ready" /\ data_channel' = TRUE
                             ELSE op' = "done" /\ UNCHANGED data_channel
    /\ UNCHANGED <<connectVars, gatherVars, agentVars, stateVars, dtls_state, sctp_state, holder,
                   mux_loop, association, ready_state, on_open_handler, opening, panicked, dataVars>>

(* handle_open sets the ready state and do_open spawns the handler's task.   *)
AnnounceOpen ==
    /\ op = "ready" /\ op' = "done"
    /\ ready_state' = "Open" /\ opening' = opening + 1
    /\ UNCHANGED data_channel

DoOpen ==
    /\ AnnounceOpen
    /\ UNCHANGED <<connectVars, gatherVars, agentVars, stateVars, dtls_state, sctp_state, holder,
                   mux_loop, association, on_open_handler, panicked, dataVars>>

(* The task takes the handler, which detaches the channel and starts the     *)
(* two loops; without a channel its expect panics.                           *)
OnOpen ==
    /\ opening > 0 /\ opening' = opening - 1
    /\ on_open_handler' = FALSE
    /\ IF on_open_handler /\ data_channel
         THEN read_loop' = "running" /\ write_loop' = "running" /\ UNCHANGED panicked
         ELSE panicked' = (panicked \/ on_open_handler) /\ UNCHANGED <<read_loop, write_loop>>
    /\ UNCHANGED <<connectVars, gatherVars, agentVars, stateVars, transportVars, data_channel,
                   ready_state, to_server, to_client, sent, written, received>>

-----------------------------------------------------------------------------
(* The loops and the application.                                            *)

(* The association is closed: by an ABORT, a SHUTDOWN or an error.           *)
AssociationCloses ==
    /\ association = "up" /\ association' = "closed"
    /\ UNCHANGED <<connectVars, gatherVars, agentVars, stateVars, op, dtls_state, sctp_state,
                   holder, mux_loop, openVars, dataVars>>

(* The application has both channels once connect has returned; a send waits *)
(* while the channel is full, and fails when the receiver is gone.           *)
ApplicationSends ==
    /\ main = "returned" /\ sent < MaxMessages
    /\ write_loop # "failed" /\ Len(to_server) < ChannelSize
    /\ sent' = sent + 1 /\ to_server' = Append(to_server, sent + 1)
    /\ UNCHANGED <<connectVars, gatherVars, agentVars, stateVars, transportVars, openVars,
                   to_client, read_loop, write_loop, written, received>>

(* The application, or a connect that panics, drops the sender.              *)
ApplicationDrops ==
    /\ main = "returned" /\ main' = "dropped"
    /\ UNCHANGED <<signaling_state, offered, gatherVars, agentVars, stateVars, transportVars,
                   openVars, dataVars>>

SenderDropped == main \in {"dropped", "panicked"}

(* Mutant: an error of write is ignored.                                     *)
WriteGoesOn ==
    /\ to_server # <<>> /\ to_server' = Tail(to_server) /\ UNCHANGED write_loop
    /\ \/ association = "up" /\ written' = Append(written, Head(to_server))
       \/ UNCHANGED written

(* write_loop takes a message and DataChannel::write succeeds.  Or it fails, *)
(* as the association is closed or the message too long, and the loop ends   *)
(* with its receiver.                                                        *)
WriteNext ==
    /\ to_server # <<>>
    /\ \/ /\ association = "up" /\ UNCHANGED write_loop
          /\ written' = Append(written, Head(to_server)) /\ to_server' = Tail(to_server)
       \/ write_loop' = "failed" /\ to_server' = <<>> /\ UNCHANGED written

(* recv returns None once the sender is dropped and nothing is left.         *)
WriteEnds ==
    /\ to_server = <<>> /\ SenderDropped
    /\ write_loop' = "ended" /\ UNCHANGED <<written, to_server>>

WriteLoop ==
    /\ write_loop = "running" /\ (WriteNext \/ WriteEnds)
    /\ UNCHANGED <<connectVars, gatherVars, agentVars, stateVars, transportVars, openVars,
                   to_client, read_loop, sent, received>>

(* handle_dcep: an acknowledgement, or what cannot be read, is only logged   *)
(* (no change).  Any other message panics, which ends the task of the loop.  *)
HandleDcep ==
    /\ read_loop = "running" /\ association = "up"
    /\ read_loop' = "panicked"
    /\ UNCHANGED <<connectVars, gatherVars, agentVars, stateVars, transportVars, openVars,
                   to_server, to_client, write_loop, sent, written, received>>

(* read_loop gets a message from the stream and sends it on, waiting while   *)
(* the channel is full.                                                      *)
ReadLoop ==
    /\ read_loop = "running" /\ association = "up" /\ received < MaxMessages
    /\ main # "panicked" /\ Len(to_client) < ChannelSize
    /\ to_client' = Append(to_client, received + 1) /\ received' = received + 1
    /\ UNCHANGED <<connectVars, gatherVars, agentVars, stateVars, transportVars, openVars,
                   to_server, read_loop, write_loop, sent, written>>

(* read_data_channel fails: the association is closed, the stream was reset  *)
(* or a message is longer than the buffer; or the receiver of to_client is   *)
(* gone.  The loop ends with its sender, and after a failed read the stream  *)
(* is closed, which write does not look at.                                  *)
ReadLoopEnds ==
    /\ read_loop = "running" /\ read_loop' = "ended"
    /\ UNCHANGED <<connectVars, gatherVars, agentVars, stateVars, transportVars, openVars,
                   to_server, to_client, write_loop, sent, written, received>>

ApplicationReceives ==
    /\ to_client # <<>> /\ main \in {"returned", "dropped"}
    /\ to_client' = Tail(to_client)
    /\ UNCHANGED <<connectVars, gatherVars, agentVars, stateVars, transportVars, openVars,
                   to_server, read_loop, write_loop, sent, written, received>>

-----------------------------------------------------------------------------
Connect ==
    \/ CreateDataChannel \/ CreateOffer \/ SetLocalDescription \/ LocalDescription \/ Post
    \/ SetRemoteDescription \/ AddIceCandidate

Gather == GatheringComplete \/ \E h \in Hosts : GatherCandidate(h)

Report == AgentChanges \/ RoutineReceives \/ RoutineStores \/ RoutineReports

Operation ==
    \/ StartIce \/ DialReturns \/ StartDtls \/ DtlsReturns \/ OpAggregates
    \/ MaybeStartSctp \/ AssociationReturns \/ OpenDataChannel \/ DoOpen

Data ==
    \/ OnOpen \/ AssociationCloses \/ ApplicationSends \/ ApplicationDrops \/ WriteLoop \/ HandleDcep \/ ReadLoop
    \/ ReadLoopEnds \/ ApplicationReceives

Next == Connect \/ Gather \/ Report \/ Operation \/ Data \/ MuxReadLoop

Spec == Init /\ [][Next]_vars

-----------------------------------------------------------------------------
(* Properties.                                                               *)

(* The types; the channels stay within their capacity.                       *)
TypeOK ==
    /\ main \in {"create", "offer", "local", "describe", "populate", "post", "remote",
                 "candidate", "returned", "dropped", "panicked"}
    /\ op \in {"none", "queued", "dialing", "dtls", "handshaking", "aggregate", "store", "sctp",
              "associating", "open", "ready", "done"}
    /\ gatherer_state \in {"New", "Gathering", "Complete"} /\ local_candidates \subseteq Hosts
    /\ Len(chan_state) <= 1 /\ opening \in 0 .. 1
    /\ to_server \in Seq(Nat) /\ to_client \in Seq(Nat) /\ written \in Seq(Nat)
    /\ sent \in Nat /\ received \in Nat
    /\ Len(to_server) <= ChannelSize /\ Len(to_client) <= ChannelSize
    /\ association \in {"none", "up", "closed"}
    /\ dtls_state \in {"New", "Connecting", "Connected", "Failed"}
    /\ read_loop \in {"none", "running", "ended", "panicked"}
    /\ write_loop \in {"none", "running", "ended", "failed"}
    /\ mux_loop \in {"none", "running", "failed", "closed"}

(* An offer that announces the end of its candidates lists all of them,      *)
(* though gathering goes on while it is put together.                        *)
EndOfCandidatesIsTrue ==
    main = "post" /\ offered.complete => offered.candidates = local_candidates

(* What it rests on: Complete was read before the candidates, and is final.  *)
CompleteIsFinal ==
    main \in {"populate", "post"} =>
        /\ offered \in [complete : BOOLEAN, candidates : SUBSET Hosts]
        /\ offered.complete => gatherer_state = "Complete"

(* on_open finds the channel it detaches: its expect never panics.           *)
NoPanic == ~panicked

(* While the loops run, somebody holds the Mux that feeds them, although     *)
(* connect has dropped the peer connection and the operation has ended.      *)
MuxOutlivesConnect == "running" \in {read_loop, write_loop} => IceHeld

(* SCTP is started whatever became of DTLS, but an association exists only   *)
(* over a finished DTLS handshake.                                           *)
AssociationOverDtls == association # "none" => dtls_state = "Connected"

(* How far the operation has come: the task that keeps dtls_transport is     *)
(* there before SCTP is, DTLS before the association, the channel before     *)
(* on_open, and the loops come last, once.  Only a write that fails ends the *)
(* writing loop of an application that still has its sender.                 *)
OperationInOrder ==
    /\ op \in {"associating", "open", "ready", "done"} => holder
    /\ op \in {"associating", "open", "ready"} => DtlsConn
    /\ association # "none" => op \in {"open", "ready", "done"}
    /\ op # "done" => opening = 0 /\ read_loop = "none" /\ write_loop = "none"
    /\ op = "ready" \/ opening > 0 => data_channel
    /\ op # "none" => main \in {"candidate", "returned", "dropped", "panicked"}
    /\ on_open_handler => write_loop = "none"
    /\ write_loop = "ended" => SenderDropped

(* Whatever fails or comes late on the way: types, on_open finds the channel *)
(* it detaches, and no association without DTLS.  The conjunction is         *)
(* inductive.                                                                *)
ClientInv ==
    TypeOK /\ NoPanic /\ AssociationOverDtls /\ OperationInOrder /\ CompleteIsFinal

(* What the application sends, before or after the channel opens, is written *)
(* once and in order, until the first write that fails; and a loop that ends *)
(* because the sender was dropped has written everything.                    *)
WrittenInOrder ==
    /\ written = [i \in 1 .. Len(written) |-> i]
    /\ write_loop # "failed" => written \o to_server = [i \in 1 .. sent |-> i]
    /\ write_loop = "ended" => Len(written) = sent
=============================================================================
