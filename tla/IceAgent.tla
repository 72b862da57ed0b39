------------------------------ MODULE IceAgent ------------------------------
(***************************************************************************)
(* An ICE agent, in either role, and a peer that may do anything the       *)
(* network lets it do: answer any request once, several times, late, from  *)
(* another address or never, send requests and data at any time.           *)
(*                                                                         *)
(* No lock covers the agent: its check task, one receive task per local    *)
(* candidate and the tasks that add candidates run in parallel.  A handler *)
(* is one step here except where it reads shared state and writes it after *)
(* an await: the nomination, the selection, the keepalive and the pairing  *)
(* of candidates.  task[t] says where task t stands.  That the states      *)
(* reach the handler through a channel belongs to PeerConnection.          *)
(*                                                                         *)
(* Time is abstract: last_received is the class of the time since a remote *)
(* candidate was heard, and a pending request may expire at any time.  Of  *)
(* the requests of one kind sent on a pair only the last is pending here:  *)
(* the answers to the others count as answers that match nothing.  An      *)
(* answer may come in at any local candidate, as nobody remembers on which *)
(* the request went out.                                                   *)
(***************************************************************************)
EXTENDS Integers, Sequences, FiniteSets, SequencesExt

CONSTANTS
    Local, Remote,      \* the addresses of the candidates of both sides
    Answered,           \* bound: the remote ones that come first, before any local one
    MaxCandidates,      \* bound: candidates added, of both sides together
    CandidatePriority,  \* Candidate::priority of each address
    PriorityBase,       \* 2^32 - 1
    MaxBindingRequests  \* max_binding_requests

CheckTask == "check"

ASSUME IceAssumption ==
    /\ IsFiniteSet(Local) /\ IsFiniteSet(Remote) /\ Local \cap Remote = {}
    /\ CheckTask \notin Local
    /\ Answered \subseteq Remote
    /\ CandidatePriority \in [Local \cup Remote -> Nat]
    /\ PriorityBase \in Nat /\ MaxBindingRequests \in Nat /\ MaxCandidates \in Nat

VARIABLES
    is_controlling,
    connection_state,
    was_checking,             \* the check task's last_connection_state is Checking
    local_candidates, remote_candidates,
    adding,                   \* "todo", "inserted" (without its pairs) or "done"
    checklist,                \* sequence of pairs, never shortened
    nominated_pair, selected_pair,   \* index in checklist, or 0
    pending_binding_requests, \* set of BindingRequest
    last_received,            \* 0: just now, 1: longer than disconnected_timeout,
                              \* 2: longer than both timeouts, 3: never (the epoch)
    task,
    dial,                     \* "no", "waiting" or "connected"
    confirmed                 \* history: <<l, r>> if l got r's own answer to a request to r

cands == <<local_candidates, remote_candidates, adding>>
states == <<connection_state, was_checking>>
choice == <<nominated_pair, selected_pair>>
vars == <<is_controlling, states, cands, checklist, choice, pending_binding_requests,
          last_received, task, dial, confirmed>>

ConnectionState == {"New", "Checking", "Connected", "Disconnected", "Failed"}

(* A new pair; it keeps the role the agent has when it is made, which is     *)
(* controlled until the checks start.                                        *)
Waiting(l, r) ==
    [local |-> l, remote |-> r, controlling |-> is_controlling /\ dial # "no",
     state |-> "Waiting", count |-> 0]

(* Where a task stands: "nominate" and "select" have a pair; src is whom a   *)
(* receive task handles.                                                     *)
At(where, i, src) == [at |-> where, pair |-> i, src |-> src]
Idle == At("idle", 0, "")

Init ==
    /\ is_controlling \in BOOLEAN
    /\ connection_state = "New" /\ was_checking = FALSE
    /\ local_candidates = {} /\ remote_candidates = Answered
    /\ adding = [x \in Local \cup Remote |-> IF x \in Answered THEN "done" ELSE "todo"]
    /\ checklist = <<>> /\ nominated_pair = 0 /\ selected_pair = 0
    /\ pending_binding_requests = {}
    /\ last_received = [r \in Remote |-> 3]
    /\ task = [t \in Local \cup {CheckTask} |-> Idle]
    /\ dial = "no"
    /\ confirmed = {}

-----------------------------------------------------------------------------
(* Pairs.                                                                    *)

Lower(x, y) == IF x < y THEN x ELSE y
Higher(x, y) == IF x < y THEN y ELSE x

PairPriority(p) ==
    LET l == CandidatePriority[p.local]
        r == CandidatePriority[p.remote]
        g == IF p.controlling THEN l ELSE r
        d == IF p.controlling THEN r ELSE l
    IN  PriorityBase * Lower(g, d) + 2 * Higher(g, d) + (IF g > d THEN 1 ELSE 0)

(* The first of the pairs with the highest priority, 0 if there is none.     *)
Best(indices) ==
    IF indices = {} THEN 0
    ELSE CHOOSE i \in indices : \A j \in indices :
            \/ PairPriority(checklist[j]) < PairPriority(checklist[i])
            \/ PairPriority(checklist[j]) = PairPriority(checklist[i]) /\ i <= j

PairsIn(set) == {i \in DOMAIN checklist : checklist[i].state \in set}
GetBestAvailableCandidatePair == Best(PairsIn({"Waiting", "InProgress", "Succeeded"}))
GetBestValidCandidatePair == Best(PairsIn({"Succeeded"}))

(* Mutant: data goes where the next check would go.                          *)
AlwaysBestAvailable == GetBestAvailableCandidatePair

(* AgentConn::send: the pair that carries data; with 0 nothing is sent.      *)
SendPair == IF selected_pair # 0 THEN selected_pair ELSE GetBestAvailableCandidatePair

(* The first pair of two candidates, 0 if there is none.                     *)
FindPair(l, r) ==
    LET found == {i \in DOMAIN checklist : checklist[i].local = l /\ checklist[i].remote = r}
    IN  IF found = {} THEN 0 ELSE CHOOSE i \in found : \A j \in found : i <= j

Ends(i) == <<checklist[i].local, checklist[i].remote>>

(* A BindingRequest, as ping_candidate and nominate_pair build it; use is    *)
(* is_use_candidate.  The transaction id tells requests apart and nothing    *)
(* else; that it is the local address here says which of them are one.       *)
Request(l, r, use) == [transaction_id |-> l, destination |-> r, use |-> use]

(* ping_candidate and nominate_pair: send_binding_request on some pairs.    *)
SendBindingRequests(pairs, use) ==
    pending_binding_requests' =
        pending_binding_requests \cup {Request(p[1], p[2], use) : p \in pairs}

GoTo(t, where) == task' = [task EXCEPT ![t] = where]

(* Mutant: seen(true), which stamps last_sent.                               *)
SeenOutbound(src) == UNCHANGED last_received

(* candidate.seen(false).                                                    *)
Seen(src) == last_received' = [last_received EXCEPT ![src] = 0]

-----------------------------------------------------------------------------
(* Connection state.                                                         *)

(* The candidates are closed; their sockets and receive tasks end.           *)
DeleteAllCandidates == local_candidates' = {} /\ remote_candidates' = {}

(* update_connection_state; the checklist and the selected pair stay.        *)
UpdateConnectionState(s) ==
    /\ connection_state' = s
    /\ IF s = "Failed" /\ connection_state # s
         THEN DeleteAllCandidates
         ELSE UNCHANGED <<local_candidates, remote_candidates>>
    /\ UNCHANGED adding

StartConnectivityChecks == connection_state' = "Checking"

(* dial, or accept: the checks start and the caller waits for on_connected.  *)
Dial ==
    /\ dial = "no" /\ dial' = "waiting"
    /\ StartConnectivityChecks
    /\ UNCHANGED <<is_controlling, was_checking, cands, checklist, choice,
                   pending_binding_requests, last_received, task, confirmed>>

Started == dial # "no"

-----------------------------------------------------------------------------
(* Candidates.                                                               *)

(* add_candidate, called by gather_candidates_local, inserts a candidate and *)
(* starts its receive task ...                                               *)
AddLocal(x) ==
    /\ x \in Local
    /\ local_candidates' = local_candidates \cup {x}
    /\ UNCHANGED remote_candidates

(* ... and add_remote_candidate, in a task of its own, one of the peer ...   *)
AddRemote(x) ==
    /\ x \in Remote
    /\ remote_candidates' = remote_candidates \cup {x}
    /\ UNCHANGED local_candidates

AddCandidate(x) ==
    /\ adding[x] = "todo" /\ Cardinality({y \in DOMAIN adding : adding[y] # "todo"}) < MaxCandidates
    /\ adding' = [adding EXCEPT ![x] = "inserted"]
    /\ AddLocal(x) \/ AddRemote(x)
    /\ UNCHANGED <<is_controlling, states, checklist, choice, pending_binding_requests,
                   last_received, task, dial, confirmed>>

(* Mutant: gathering is taken to be over before remote candidates come.      *)
PartnersOfRemote(x) == IF x \in Local THEN {} ELSE local_candidates

(* The candidates x is paired with.                                          *)
Partners(x) == IF x \in Local THEN remote_candidates ELSE local_candidates

(* ... and then read the candidates of the other side and add the pairs.     *)
PairCandidate(x) ==
    /\ adding[x] = "inserted"
    /\ adding' = [adding EXCEPT ![x] = "done"]
    /\ checklist' = checklist \o SetToSeq(
          {IF x \in Local THEN Waiting(x, y) ELSE Waiting(y, x) : y \in Partners(x)})
    /\ UNCHANGED <<is_controlling, states, local_candidates, remote_candidates, choice,
                   pending_binding_requests, last_received, task, dial, confirmed>>

-----------------------------------------------------------------------------
(* The check task: contact.                                                  *)

Contacting == Started /\ task[CheckTask] = Idle

(* Mutant: contact goes on after a failure.                                  *)
ContactingAlways == Contacting

ContactingCandidates == Contacting /\ connection_state # "Failed"

EndOfContact == was_checking' = (connection_state = "Checking")

(* Checking for longer than disconnected_timeout + failed_timeout: the clock *)
(* started when contact first saw Checking.                                  *)
ContactTimedOut ==
    /\ Contacting /\ connection_state = "Checking" /\ was_checking
    /\ UpdateConnectionState("Failed") /\ was_checking' = FALSE
    /\ UNCHANGED <<is_controlling, checklist, choice, pending_binding_requests,
                   last_received,
                   task, dial, confirmed>>

SilenceOfSelected == last_received[checklist[selected_pair].remote]

(* contact_candidates with a selected pair: validate_selected_pair ...       *)
ValidateSelectedPair ==
    /\ ContactingCandidates /\ selected_pair # 0
    /\ UpdateConnectionState(
          IF SilenceOfSelected >= 2 THEN "Failed"
          ELSE IF SilenceOfSelected = 1 THEN "Disconnected" ELSE "Connected")
    /\ GoTo(CheckTask, At("keepalive", 0, ""))
    /\ UNCHANGED <<is_controlling, was_checking, checklist, choice,
                   pending_binding_requests,
                   last_received, dial, confirmed>>

(* ... and check_keepalive: a request if nothing was sent or received for    *)
(* keepalive_interval, which is shorter than disconnected_timeout.           *)
CheckKeepalive ==
    /\ task[CheckTask].at = "keepalive"
    /\ GoTo(CheckTask, Idle) /\ EndOfContact
    /\ \/ SendBindingRequests({Ends(selected_pair)}, FALSE)
       \/ SilenceOfSelected = 0 /\ UNCHANGED pending_binding_requests
    /\ UNCHANGED <<is_controlling, connection_state, cands, checklist, choice,
                   last_received,
                   dial, confirmed>>

(* ping_all_candidates for one entry of the checklist.                       *)
Pinged(p) ==
    IF p.state \notin {"Waiting", "InProgress"} THEN p
    ELSE IF p.count > MaxBindingRequests THEN [p EXCEPT !.state = "Failed"]
    ELSE [p EXCEPT !.state = "InProgress", !.count = @ + 1]

(* contact_candidates without a selected or nominated pair or, in the        *)
(* controlling agent, one that could be nominated.                           *)
PingAllCandidates ==
    /\ ContactingCandidates /\ selected_pair = 0
    /\ is_controlling => nominated_pair = 0 /\ GetBestValidCandidatePair = 0
    /\ checklist' = [i \in DOMAIN checklist |-> Pinged(checklist[i])]
    /\ SendBindingRequests({Ends(i) : i \in {j \in DOMAIN checklist :
                               checklist'[j].count > checklist[j].count}}, FALSE)
    /\ EndOfContact
    /\ UNCHANGED <<is_controlling, connection_state, cands, choice, last_received, task,
                   dial,
                   confirmed>>

(* The best valid pair was read; it is stored and nominated in another step. *)
(* A host candidate is nominatable at once: host_acceptance_min_wait is 0.   *)
FindNominatable ==
    /\ ContactingCandidates /\ is_controlling /\ selected_pair = 0 /\ nominated_pair = 0
    /\ GetBestValidCandidatePair # 0
    /\ GoTo(CheckTask, At("nominate", GetBestValidCandidatePair, ""))
    /\ UNCHANGED <<is_controlling, states, cands, checklist, choice,
                   pending_binding_requests, last_received,
                   dial, confirmed>>

(* nominate_pair by the check task, again at every contact until the answer. *)
NominateAgain ==
    /\ ContactingCandidates /\ is_controlling /\ selected_pair = 0 /\ nominated_pair # 0
    /\ SendBindingRequests({Ends(nominated_pair)}, TRUE)
    /\ EndOfContact
    /\ UNCHANGED <<is_controlling, connection_state, cands, checklist, choice,
                   last_received,
                   task, dial, confirmed>>

(* The nomination by either task: nominated_pair is stored, whatever it is   *)
(* by now, and the request is sent.                                          *)
NominatePair(t) ==
    /\ task[t].at = "nominate"
    /\ nominated_pair' = task[t].pair
    /\ SendBindingRequests({Ends(task[t].pair)}, TRUE)
    /\ GoTo(t, Idle)
    /\ IF t = CheckTask THEN EndOfContact /\ UNCHANGED last_received
                        ELSE Seen(task[t].src) /\ UNCHANGED was_checking
    /\ UNCHANGED <<is_controlling, connection_state, cands, checklist, selected_pair, dial,
                   confirmed>>

-----------------------------------------------------------------------------
(* The receive task of local candidate l: handle_inbound.                    *)

(* A message from src arrives: the task is idle, the candidate open and the  *)
(* source a known remote candidate.                                          *)
Arrives(l, src) ==
    Started /\ l \in local_candidates /\ task[l] = Idle /\ src \in remote_candidates

(* Mutant: the answer counts for the pair it came in on.                     *)
FromAnywhere(r, src) == TRUE

(* "Assert that NAT is not symmetric".                                       *)
FromDestination(r, src) == r.destination = src

(* handle_inbound_binding_success removes the request that is answered.      *)
HandleInboundBindingSuccess(r) ==
    pending_binding_requests' = pending_binding_requests \ {r}

(* handle_success_response: the answer to request r comes in at l from src.  *)
HandleSuccessResponse(l, src, r) ==
    LET i == FindPair(l, src)
        valid == i # 0 /\ FromDestination(r, src)
        selects == valid /\ is_controlling /\ selected_pair = 0 /\ r.use
    IN  /\ Arrives(l, src)
        /\ HandleInboundBindingSuccess(r)
        /\ checklist' = IF valid THEN [checklist EXCEPT ![i].state = "Succeeded"] ELSE checklist
        /\ confirmed' = IF r.destination = src THEN confirmed \cup {<<l, src>>} ELSE confirmed
        /\ IF selects THEN GoTo(l, At("select", i, src)) /\ UNCHANGED last_received
                      ELSE Seen(src) /\ UNCHANGED task
        /\ UNCHANGED <<is_controlling, states, cands, choice, dial>>

(* handle_binding_request of the controlling agent.                          *)
HandleRequestControlling(l, src) ==
    LET i == FindPair(l, src)
        nominates == /\ i # 0 /\ checklist[i].state = "Succeeded"
                     /\ nominated_pair = 0 /\ selected_pair = 0
                     /\ Ends(GetBestAvailableCandidatePair) = <<l, src>>
    IN  /\ is_controlling /\ Arrives(l, src)
        /\ checklist' = IF i = 0 THEN Append(checklist, Waiting(l, src)) ELSE checklist
        /\ IF nominates THEN GoTo(l, At("nominate", i, src)) /\ UNCHANGED last_received
                        ELSE Seen(src) /\ UNCHANGED task
        /\ UNCHANGED <<is_controlling, states, cands, choice, pending_binding_requests,
                       dial, confirmed>>

(* A nomination is taken for a pair whose own check succeeded.               *)
NominationTaken(i) == checklist[i].state = "Succeeded"

(* handle_binding_request of the controlled agent: a nomination of a pair    *)
(* that has not succeeded yet is not answered but triggers a check.          *)
HandleRequestControlled(l, src, use) ==
    LET i == FindPair(l, src)
        taken == use /\ i # 0 /\ NominationTaken(i)
        selects == taken /\ selected_pair = 0
    IN  /\ ~is_controlling /\ Arrives(l, src)
        /\ checklist' = IF i = 0 THEN Append(checklist, Waiting(l, src)) ELSE checklist
        /\ IF selects THEN GoTo(l, At("select", i, src)) /\ UNCHANGED last_received
                      ELSE Seen(src) /\ UNCHANGED task
        /\ IF taken THEN UNCHANGED pending_binding_requests ELSE SendBindingRequests({<<l, src>>}, FALSE)
        /\ UNCHANGED <<is_controlling, states, cands, choice, dial, confirmed>>

(* A binding indication, an answer that matches no pending request, or       *)
(* validate_non_stun_traffic and the packet buffer.                          *)
HandleData(l, src) ==
    /\ Arrives(l, src)
    /\ Seen(src)
    /\ UNCHANGED <<is_controlling, states, cands, checklist, choice,
                   pending_binding_requests, task, dial,
                   confirmed>>

(* set_selected_pair: the pair and the new state ...                         *)
SetSelectedPair(l) ==
    /\ task[l].at = "select"
    /\ selected_pair' = task[l].pair
    /\ UpdateConnectionState("Connected")
    /\ GoTo(l, At("signal", 0, task[l].src))
    /\ UNCHANGED <<is_controlling, was_checking, checklist, nominated_pair,
                   pending_binding_requests,
                   last_received, dial, confirmed>>

(* ... then dial or accept returns and the remote candidate is marked as     *)
(* heard.                                                                    *)
SignalConnected(l) ==
    /\ task[l].at = "signal"
    /\ dial' = "connected"
    /\ Seen(task[l].src)
    /\ GoTo(l, Idle)
    /\ UNCHANGED <<is_controlling, states, cands, checklist, choice,
                   pending_binding_requests, confirmed>>

(* Nothing is heard from the selected remote candidate for another timeout.  *)
Silence ==
    /\ selected_pair # 0 /\ SilenceOfSelected < 2
    /\ last_received' = [last_received EXCEPT ![checklist[selected_pair].remote] = @ + 1]
    /\ UNCHANGED <<is_controlling, states, cands, checklist, choice,
                   pending_binding_requests, task, dial,
                   confirmed>>

(* A request grows older than MAX_BINDING_REQUEST_TIMEOUT: the next call of  *)
(* invalidate_pending_binding_requests, which precedes every use, drops it.  *)
Expire(r) ==
    /\ pending_binding_requests' = pending_binding_requests \ {r}
    /\ UNCHANGED <<is_controlling, states, cands, checklist, choice, last_received, task,
                   dial,
                   confirmed>>

Contact ==
    \/ ContactTimedOut \/ ValidateSelectedPair \/ CheckKeepalive
    \/ PingAllCandidates \/ FindNominatable \/ NominateAgain

HandleInbound(l, src) ==
    \/ \E r \in pending_binding_requests : HandleSuccessResponse(l, src, r)
    \/ HandleRequestControlling(l, src)
    \/ \E use \in BOOLEAN : HandleRequestControlled(l, src, use)
    \/ HandleData(l, src)

Next ==
    \/ Dial
    \/ \E x \in Local \cup Remote : AddCandidate(x) \/ PairCandidate(x)
    \/ Contact
    \/ \E l \in Local, src \in Remote : HandleInbound(l, src)
    \/ \E t \in DOMAIN task : NominatePair(t)
    \/ \E l \in Local : SetSelectedPair(l) \/ SignalConnected(l)
    \/ Silence
    \/ \E r \in pending_binding_requests : Expire(r)

Spec == Init /\ [][Next]_vars

-----------------------------------------------------------------------------
(* Properties.                                                               *)

PairType ==
    [local : Local, remote : Remote, controlling : BOOLEAN,
     state : {"Waiting", "InProgress", "Succeeded", "Failed"},
     count : 0 .. MaxBindingRequests + 1]
TaskType ==
    [at : {"idle", "keepalive", "nominate", "select", "signal"}, pair : Nat,
     src : Remote \cup {""}]

(* A pair is asked at most max_binding_requests + 1 times, and the pairs     *)
(* that are nominated or selected are listed.                                *)
TypeOK ==
    /\ is_controlling \in BOOLEAN /\ was_checking \in BOOLEAN
    /\ connection_state \in ConnectionState
    /\ local_candidates \subseteq Local /\ remote_candidates \subseteq Remote
    /\ adding \in [Local \cup Remote -> {"todo", "inserted", "done"}]
    /\ checklist \in Seq(PairType)
    /\ nominated_pair \in 0 .. Len(checklist) /\ selected_pair \in 0 .. Len(checklist)
    /\ pending_binding_requests \subseteq [transaction_id : Local, destination : Remote, use : BOOLEAN]
    /\ last_received \in [Remote -> 0 .. 3]
    /\ task \in [Local \cup {CheckTask} -> TaskType]
    /\ dial \in {"no", "waiting", "connected"}
    /\ confirmed \subseteq Local \X Remote

(* Nothing is under way before dial or accept has started the checks, each   *)
(* task does its own work, a keepalive and on_connected follow a selection,  *)
(* and a receive task that waits knows whom it handles.                      *)
TasksInOrder ==
    /\ dial = "no" => /\ connection_state = "New"
                      /\ \A t \in DOMAIN task : task[t].at = "idle"
    /\ dial = "connected" => selected_pair # 0
    /\ task[CheckTask].at \in {"idle", "keepalive", "nominate"}
    /\ task[CheckTask].at = "keepalive" => selected_pair # 0
    /\ \A l \in Local :
          /\ task[l].at # "keepalive"
          /\ task[l].at = "signal" => selected_pair # 0
          /\ task[l].at # "idle" => task[l].src \in Remote

(* What a task is about to nominate or select, read before an await, has     *)
(* succeeded and still has when it is stored; so has what was nominated.     *)
ChosenSucceeded ==
    /\ nominated_pair # 0 => checklist[nominated_pair].state = "Succeeded"
    /\ \A t \in DOMAIN task : task[t].at \in {"nominate", "select"} =>
          /\ task[t].pair \in DOMAIN checklist
          /\ checklist[task[t].pair].state = "Succeeded"

(* No pair is missed: whichever of the two tasks adds its candidate last,    *)
(* once both are done every local and remote candidate form a pair.          *)
EveryPairListed ==
    \A l \in local_candidates, r \in remote_candidates :
        adding[l] = "done" /\ adding[r] = "done" => FindPair(l, r) # 0

(* In either role, whatever is answered late or from elsewhere, a pair is    *)
(* selected only if its remote candidate has answered a request that was     *)
(* sent to it, and the answer came in at the pair's local candidate.  (The   *)
(* request may have gone out on another one: the code does not look.)        *)
SelectedIsConfirmed ==
    selected_pair # 0 =>
        checklist[selected_pair].state = "Succeeded" /\ Ends(selected_pair) \in confirmed

(* The selected remote candidate has been heard: with last_received at the   *)
(* epoch the next contact would fail the agent at once.                      *)
SelectedWasHeard == selected_pair # 0 => SilenceOfSelected # 3

(* The same of every pair that has succeeded and of every nomination sent,   *)
(* which may still be answered: a selection by that answer marks its remote  *)
(* candidate as heard only after the pair is selected.                       *)
SucceededWasHeard ==
    /\ \A i \in PairsIn({"Succeeded"}) : last_received[checklist[i].remote] # 3
    /\ \A r \in pending_binding_requests : r.use => last_received[r.destination] # 3

(* The agent's fields keep their types, the tasks that wait hold what is     *)
(* still so, and validate_selected_pair finds a candidate that was heard     *)
(* whenever a pair is selected.                                              *)
AgentInv ==
    TypeOK /\ TasksInOrder /\ ChosenSucceeded /\ SucceededWasHeard /\ SelectedWasHeard

(* Once dial or accept has returned, data only goes out on a pair confirmed  *)
(* in this sense, though candidates and pairs of a higher priority still     *)
(* come in.                                                                  *)
DialedSendsOnConfirmed ==
    dial = "connected" => SendPair # 0 /\ Ends(SendPair) \in confirmed

(* The agent was connected, has failed, and no receive task stands before    *)
(* its set_selected_pair.                                                    *)
Lost ==
    /\ connection_state = "Failed" /\ selected_pair # 0
    /\ \A l \in Local : task[l].at # "select"

(* An agent that is lost stays lost, whatever is still answered or heard and *)
(* whichever candidates still come in: no later contact and no new selection *)
(* brings it back.  (One that a receive task had begun before the failure    *)
(* does, with all candidates closed.)                                        *)
LostForGood == [][Lost => Lost']_vars
=============================================================================
