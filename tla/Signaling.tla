----------------------------- MODULE Signaling -----------------------------
(***************************************************************************)
(* The offer/answer exchange of RTCPeerConnection: create_offer,           *)
(* set_local_description, set_remote_description and what they do with the *)
(* signalling state and the four descriptions.  The methods may be called  *)
(* in any order; Socket::connect calls each of them once.                  *)
(*                                                                         *)
(* A remote text is read line by line by the lexer of module Sdp, and then *)
(* handed to set_remote_description.                                       *)
(***************************************************************************)
EXTENDS Sdp, FiniteSets

CONSTANTS
    Hosts,        \* the addresses of local candidates
    Versions,     \* what the clock gives as session version
    Answer,       \* the lines of an answer, of which a text has the first ones
    Others,       \* other lines, right and wrong ones
    MaxOthers,    \* bound: other lines in a text
    MaxOffers     \* bound: calls of create_offer

ASSUME SignalingAssumption ==
    MaxOthers \in Nat /\ MaxOffers \in Nat

VARIABLES
    signaling_state,
    current_local_description, current_remote_description,
    pending_local_description, pending_remote_description,
    offers,           \* the offers made; last_offer is the last
    sdp_origin,       \* the session version that was saved
    local_candidates, ice_gathering_state,
    text, lexer,      \* the remote text so far, and the lexer after it
    queued            \* the operation that set_remote_description queued for this text

descriptions == <<current_local_description, current_remote_description,
                  pending_local_description, pending_remote_description>>
gatherer == <<local_candidates, ice_gathering_state>>
remote == <<text, lexer, queued>>
vars == <<signaling_state, descriptions, offers, sdp_origin, gatherer, remote>>

Types == {"Offer", "Pranswer", "Answer", "Rollback"}

Init ==
    /\ signaling_state = "Stable"
    /\ current_local_description = None /\ current_remote_description = None
    /\ pending_local_description = None /\ pending_remote_description = None
    /\ offers = <<>> /\ sdp_origin = 0
    /\ local_candidates = <<>> /\ ice_gathering_state = "New"
    /\ text = <<>> /\ lexer = Unmarshal(<<>>) /\ queued = None

-----------------------------------------------------------------------------
(* Descriptions made here.                                                   *)

ValueAttribute(key, value) == [key |-> <<key>>, value |-> <<value>>]
PropertyAttribute(parts) == [key |-> parts, value |-> None]

(* Mutant: candidates are added without looking.                             *)
AppendCandidate(m, c) ==
    [m EXCEPT !.attributes = Append(@, [key |-> <<"candidate">>, value |-> c])]

(* append_candidate_if_new.                                                  *)
AppendCandidateIfNew(m, c) ==
    IF \E i \in DOMAIN m.attributes : m.attributes[i].value = c THEN m
    ELSE [m EXCEPT !.attributes = Append(@, [key |-> <<"candidate">>, value |-> c])]

(* add_candidates_to_media_descriptions: each candidate with both            *)
(* components, and the mark of their end once they are all gathered.         *)
AddCandidatesToMediaDescriptions(m) ==
    LET listed == FoldLeft(LAMBDA n, h : AppendCandidateIfNew(
                               AppendCandidateIfNew(n, <<h, 1>>), <<h, 2>>),
                           m, local_candidates)
        marked == \E a \in Range(listed.attributes) : a.key = <<"end-of-candidates">>
    IN IF ice_gathering_state # "Complete" \/ marked THEN listed
       ELSE [listed EXCEPT !.attributes = Append(@, PropertyAttribute(<<"end-of-candidates">>))]

(* add_data_media_section.  The property sctp-port holds a colon.            *)
DataMediaSection ==
    AddCandidatesToMediaDescriptions(
        [media_name |-> [media |-> "application"], media_title |-> None,
         connection_information |-> "IN IP4 0.0.0.0", bandwidth |-> <<>>, encryption_key |-> None,
         attributes |-> <<ValueAttribute("setup", "actpass"), ValueAttribute("mid", "0"),
                          PropertyAttribute(<<"sendrecv">>),
                          PropertyAttribute(<<"sctp-port", "5000">>),
                          ValueAttribute("ice-ufrag", "ours"),
                          ValueAttribute("ice-pwd", "ours")>>])

(* new_jsep_session_description and populate_sdp.                            *)
PopulateSdp(version) ==
    [NoDescription EXCEPT
        !.origin = [session_id |-> "ours", session_version |-> version],
        !.session_name = "-",
        !.time_descriptions = <<[timing |-> "0 0", repeat_times |-> <<>>]>>,
        !.media_descriptions = <<DataMediaSection>>,
        !.attributes = <<ValueAttribute("fingerprint", "ours"),
                         ValueAttribute("group", "BUNDLE 0")>>]

(* update_sdp_origin: the first version is saved; later the saved one and    *)
(* the one at hand are both incremented, each for itself.                    *)
UpdateSdpOrigin(version) ==
    IF sdp_origin = 0 THEN [saved |-> version, version |-> version]
                      ELSE [saved |-> sdp_origin + 1, version |-> version + 1]

CreateOffer ==
    /\ Len(offers) < MaxOffers
    /\ \E v \in Versions :
          LET origin == UpdateSdpOrigin(v)
          IN /\ sdp_origin' = origin.saved
             /\ offers' = Append(offers, Marshal(PopulateSdp(origin.version)))
    /\ UNCHANGED <<signaling_state, descriptions, gatherer, remote>>

(* A candidate is gathered, after gather() was called, ...                   *)
Gathered(h) ==
    /\ ice_gathering_state = "Gathering"
    /\ h \notin ToSet(local_candidates)
    /\ local_candidates' = Append(local_candidates, h)
    /\ UNCHANGED <<signaling_state, descriptions, offers, sdp_origin, ice_gathering_state, remote>>

(* ... and there are no more.                                                *)
GatheringComplete ==
    /\ ice_gathering_state = "Gathering"
    /\ ice_gathering_state' = "Complete"
    /\ UNCHANGED <<signaling_state, descriptions, offers, sdp_origin, local_candidates, remote>>

(* local_description and populate_local_candidates: the text is parsed again *)
(* and the candidates go into its first media description.                   *)
LocalDescription ==
    LET sd == IF pending_local_description # None THEN pending_local_description
                                                  ELSE current_local_description
        parsed == Unmarshal(sd.sdp)
    IN IF ~IsParsed(parsed) \/ parsed.desc.media_descriptions = <<>> THEN sd.sdp
       ELSE Marshal([parsed.desc EXCEPT !.media_descriptions[1] =
                        AddCandidatesToMediaDescriptions(@)])

-----------------------------------------------------------------------------
(* set_description.                                                          *)

(* The state each description leads to.                                      *)
Proposed(op, type) ==
    CASE type = "Offer" -> IF op = "SetLocal" THEN "HaveLocalOffer" ELSE "HaveRemoteOffer"
      [] type = "Pranswer" ->
            IF op = "SetLocal" THEN "HaveLocalPranswer" ELSE "HaveRemotePranswer"
      [] OTHER -> "Stable"

(* check_next_signaling_state.  No state takes a rollback.                   *)
CheckNextSignalingState(cur, op, type) ==
    \/ cur = "Stable" /\ type = "Offer"
    \/ cur = "HaveLocalOffer" /\ op = "SetRemote" /\ type \in {"Answer", "Pranswer"}
    \/ cur = "HaveRemotePranswer" /\ op = "SetRemote" /\ type = "Answer"
    \/ cur = "HaveRemoteOffer" /\ op = "SetLocal" /\ type \in {"Answer", "Pranswer"}
    \/ cur = "HaveLocalPranswer" /\ op = "SetLocal" /\ type = "Answer"

(* A local description has to be the one that was made; no answer ever is,   *)
(* so last_answer stays empty.                                               *)
MatchesLast(sd) ==
    CASE sd.type = "Offer" -> offers # <<>> /\ sd.sdp = Last(offers)
      [] sd.type = "Rollback" -> TRUE
      [] OTHER -> sd.sdp = <<>>

(* What a local description changes once the state allows it, ...            *)
TakeLocal(sd) ==
    CASE sd.type = "Answer" ->
            /\ current_local_description' = sd
            /\ current_remote_description' = pending_remote_description
            /\ pending_local_description' = None /\ pending_remote_description' = None
      [] OTHER ->
            /\ pending_local_description' = IF sd.type = "Rollback" THEN None ELSE sd
            /\ UNCHANGED <<current_local_description, current_remote_description,
                           pending_remote_description>>

(* Mutant: the pending offer stays when it is answered.                      *)
TakeRemoteOnly(sd) ==
    CASE sd.type = "Answer" ->
            /\ current_remote_description' = sd
            /\ current_local_description' = pending_local_description
            /\ pending_remote_description' = None /\ UNCHANGED pending_local_description
      [] OTHER ->
            /\ pending_remote_description' = IF sd.type = "Rollback" THEN None ELSE sd
            /\ UNCHANGED <<current_local_description, current_remote_description,
                           pending_local_description>>

(* ... and what a remote one does.                                           *)
TakeRemote(sd) ==
    CASE sd.type = "Answer" ->
            /\ current_remote_description' = sd
            /\ current_local_description' = pending_local_description
            /\ pending_local_description' = None /\ pending_remote_description' = None
      [] OTHER ->
            /\ pending_remote_description' = IF sd.type = "Rollback" THEN None ELSE sd
            /\ UNCHANGED <<current_local_description, current_remote_description,
                           pending_local_description>>

(* set_local_description: an empty offer stands for the last one.  The calls *)
(* that fail change nothing.                                                 *)
SetLocalDescription(type) ==
    \E sdp \in ToSet(offers) \cup {<<>>} :
        LET empty == sdp = <<>> /\ type = "Offer" /\ offers # <<>>
            sd == [type |-> type, sdp |-> IF empty THEN Last(offers) ELSE sdp]
        IN /\ CheckNextSignalingState(signaling_state, "SetLocal", type)
           /\ MatchesLast(sd)
           /\ IsParsed(Unmarshal(sd.sdp))
           /\ signaling_state' = Proposed("SetLocal", type)
           /\ TakeLocal(sd)
           /\ ice_gathering_state' =
                 IF ice_gathering_state = "New" THEN "Gathering" ELSE ice_gathering_state
           /\ UNCHANGED <<offers, sdp_origin, local_candidates, remote>>

-----------------------------------------------------------------------------
(* The remote description.                                                   *)

(* One more line of the text, while the lexer has met no error: the next of  *)
(* the answer's lines or another.                                            *)
ReceiveLine ==
    /\ lexer.state \notin {"error", "taken"}
    /\ LET others == Cardinality({i \in DOMAIN text : text[i] \in Others})
           answered == Len(text) - others
       IN \E line \in (IF others < MaxOthers THEN Others ELSE {})
                      \cup {Answer[i] : i \in DOMAIN Answer \cap {answered + 1}} :
             text' = Append(text, line) /\ lexer' = ReadLine(lexer, line)
    /\ UNCHANGED <<signaling_state, descriptions, offers, sdp_origin, gatherer, queued>>

(* The value of the first attribute with a key.                              *)
Attribute(attributes, key) ==
    LET found == SelectSeq(attributes, LAMBDA a : a.key = <<key>>)
    IN IF found = <<>> THEN None ELSE found[1].value

(* The values of an attribute in the session and in each media description.  *)
Values(d, key) ==
    SelectSeq(<<Attribute(d.attributes, key)>>
              \o [i \in DOMAIN d.media_descriptions |->
                     Attribute(d.media_descriptions[i].attributes, key)],
              LAMBDA v : v # None)

(* Mutant: the session's value wins, without a comparison.                   *)
FirstValue(values) == values # <<>>

(* There is a value, and no other.                                           *)
Agreed(values) == values # <<>> /\ \A i \in DOMAIN values : values[i] = values[1]

(* Every candidate of a media description can be read.                       *)
CandidatesOk(d) ==
    \A i \in DOMAIN d.media_descriptions : \A a \in ToSet(d.media_descriptions[i].attributes) :
        a.key = <<"candidate">> => a.value # <<"unknown">>

(* extract_ice_details: candidates, user fragment and password.              *)
ExtractIceDetails(d) ==
    CandidatesOk(d) /\ Agreed(Values(d, "ice-ufrag")) /\ Agreed(Values(d, "ice-pwd"))

(* extract_fingerprint: a hash function and a value.                         *)
ExtractFingerprint(d) ==
    LET values == Values(d, "fingerprint") IN Agreed(values) /\ values[1] # <<"unknown">>

HaveApplicationMediaSection(d) ==
    \E i \in DOMAIN d.media_descriptions :
        d.media_descriptions[i].media_name.media = "application"

(* The operation that set_remote_description queues: start_transports, and   *)
(* SCTP if there is an application section.                                  *)
Operation(d) ==
    [ufrag |-> Values(d, "ice-ufrag")[1], pwd |-> Values(d, "ice-pwd")[1],
     fingerprint |-> Values(d, "fingerprint")[1], sctp |-> HaveApplicationMediaSection(d)]

(* set_remote_description.  When the details are missing or differ it fails, *)
(* after the description was taken.                                          *)
SetRemoteDescription(type) ==
    /\ IsParsed(lexer)
    /\ CheckNextSignalingState(signaling_state, "SetRemote", type)
    /\ signaling_state' = Proposed("SetRemote", type)
    /\ TakeRemote([type |-> type, sdp |-> None])
    /\ queued' = IF ExtractIceDetails(lexer.desc) /\ ExtractFingerprint(lexer.desc)
                   THEN Operation(lexer.desc) ELSE queued
    /\ lexer' = Lexer("taken", NoDescription)
    /\ UNCHANGED <<offers, sdp_origin, gatherer, text>>

(* Another text comes.                                                       *)
NewText ==
    /\ lexer.state \in {"error", "taken"}
    /\ text' = <<>> /\ lexer' = Unmarshal(<<>>) /\ queued' = None
    /\ UNCHANGED <<signaling_state, descriptions, offers, sdp_origin, gatherer>>

Next ==
    \/ CreateOffer
    \/ \E h \in Hosts : Gathered(h)
    \/ GatheringComplete
    \/ \E type \in Types : SetLocalDescription(type) \/ SetRemoteDescription(type)
    \/ ReceiveLine
    \/ NewText

Spec == Init /\ [][Next]_vars
-----------------------------------------------------------------------------
(* Properties.                                                               *)

(* The types, and the signalling states the exchange can be in: no local     *)
(* answer is ever accepted, so HaveLocalPranswer is never reached.           *)
TypeOK ==
    /\ signaling_state \in {"Stable", "HaveLocalOffer", "HaveRemoteOffer", "HaveRemotePranswer"}
    /\ \A d \in {current_local_description, pending_local_description} :
          d # None => d.type = "Offer" /\ d.sdp \in ToSet(offers)
    /\ current_remote_description # None => current_remote_description.type = "Answer"
    /\ Len(offers) <= MaxOffers /\ sdp_origin \in Nat
    /\ ToSet(local_candidates) \subseteq Hosts
    /\ ice_gathering_state \in {"New", "Gathering", "Complete"}

(* The pending descriptions are those of the exchange that is under way: in  *)
(* Stable there is none, otherwise those that led to the state.  The current *)
(* ones are an offer and its answer, or both absent.                         *)
DescriptionsFollowState ==
    /\ pending_local_description # None <=>
           signaling_state \in {"HaveLocalOffer", "HaveRemotePranswer"}
    /\ pending_remote_description # None <=>
           signaling_state \in {"HaveRemoteOffer", "HaveRemotePranswer"}
    /\ pending_remote_description # None =>
           (pending_remote_description.type = "Offer" <=> signaling_state = "HaveRemoteOffer")
    /\ (current_local_description = None) = (current_remote_description = None)

(* Whatever descriptions are set, in whatever order and of whatever type,    *)
(* the four that are kept follow the signalling state.                       *)
SignalingInv == TypeOK /\ DescriptionsFollowState

(* The order of the lines as RFC 4566 gives it.                              *)
SessionOrder == <<"v", "o", "s", "i", "u", "e", "p", "c", "b", "t", "z", "k", "a">>
MediaOrder == <<"m", "i", "c", "b", "k", "a">>
Repeated == {"b", "t", "r", "a", "m"}

Rank(order, key) == CHOOSE i \in DOMAIN order : order[i] = IF key = "r" THEN "t" ELSE key

(* Ascending, and only what may be repeated is repeated.                     *)
Ordered(order, keys) ==
    /\ \A i \in DOMAIN keys : keys[i] \in ToSet(order) \cup {"r"}
    /\ \A i \in 1 .. Len(keys) - 1 :
          LET before == Rank(order, keys[i]) after == Rank(order, keys[i + 1])
          IN before < after \/ (before = after /\ keys[i] \in Repeated)

KeysOf(t) == [i \in DOMAIN t |-> t[i].key]

(* The lines before the first m.                                             *)
SessionPart(t) ==
    LET m == {i \in DOMAIN t : t[i].key = "m"}
    IN IF m = {} THEN t ELSE SubSeq(t, 1, Min(m) - 1)
MediaPart(t) == SubSeq(t, Len(SessionPart(t)) + 1, Len(t))

(* v, o, s and a t are there, and r only follows t.                          *)
SessionGrammar(t) ==
    LET keys == KeysOf(SessionPart(t))
        times == SelectSeq(keys, LAMBDA k : k \in {"t", "r"})
    IN /\ Len(keys) >= 4 /\ SubSeq(keys, 1, 3) = <<"v", "o", "s">>
       /\ Ordered(SessionOrder, keys)
       /\ times # <<>> /\ times[1] = "t"

(* After m the code takes the lines of a media description in any order and  *)
(* number.                                                                   *)
Grammatical(t) ==
    SessionGrammar(t) /\ ToSet(KeysOf(MediaPart(t))) \subseteq ToSet(MediaOrder)

(* The order of RFC 4566 in the media descriptions too.                      *)
Strict(t) ==
    /\ SessionGrammar(t)
    /\ LET media == KeysOf(MediaPart(t))
       IN \A i \in DOMAIN media : media[i] = "m" =>
             LET next == {j \in i + 1 .. Len(media) : media[j] = "m"}
             IN Ordered(MediaOrder,
                        SubSeq(media, i, IF next = {} THEN Len(media) ELSE Min(next) - 1))

(* What is right in the value of a line, whatever the order.                 *)
ValueOk(line) ==
    CASE line.value = Malformed -> FALSE
      [] line.key = "v" -> line.value = 0
      [] line.key = "b" -> line.value.prefixes > 0 \/ line.value.type \in {"CT", "AS"}
      [] line.key \in {"r", "z"} ->
            /\ IF line.key = "r" THEN Len(line.value) >= 3 ELSE Len(line.value) % 2 = 0
            /\ \A i \in DOMAIN line.value :
                  LET x == line.value[i]
                  IN /\ Factor(x[2]) * x[1] <= MaxTime
                     /\ line.key = "z" /\ i % 2 = 1 => x[2] = ""
      [] OTHER -> TRUE


(* What was parsed is printed in the order of RFC 4566, and the print is     *)
(* parsed to the same description, whatever shorthands, repeated prefixes or *)
(* order the text had.                                                       *)
PrintedIsReadBack ==
    IsParsed(lexer) => Strict(Marshal(lexer.desc))
                       /\ LET again == Unmarshal(Marshal(lexer.desc))
                          IN IsParsed(again) /\ again.desc = lexer.desc

(* The local description, pending or in force, is the offer that was made    *)
(* with every candidate gathered since, once for each component though the   *)
(* offer may list some already, and with one mark of their end just when     *)
(* there will be no more; it is again a text that prints as itself.          *)
EachCandidateOnce ==
    LET offer == IF pending_local_description # None THEN pending_local_description
                                                     ELSE current_local_description
        sdp == LocalDescription
        Listed(key) == SelectSeq(sdp, LAMBDA l : l.key = "a" /\ l.value[1] = key)
    IN offer # None =>
          /\ ToSet(Listed("candidate")) = {Line("a", <<"candidate", h, c>>) :
                                              h \in ToSet(local_candidates), c \in 1 .. 2}
          /\ Len(Listed("candidate")) = 2 * Len(local_candidates)
          /\ Len(Listed("end-of-candidates")) = IF ice_gathering_state = "Complete" THEN 1 ELSE 0
          /\ ToSet(offer.sdp) \subseteq ToSet(sdp)
          /\ Marshal(Unmarshal(sdp).desc) = sdp

(* The attributes of a text that count: the first with its key in the        *)
(* session or the media description it belongs to.                           *)
Leading(t, key) ==
    {i \in DOMAIN t :
        /\ t[i].key = "a" /\ Head(t[i].value) = key
        /\ \A j \in 1 .. i - 1 :
              t[j].key = "a" /\ Head(t[j].value) = key =>
                  \E n \in j .. i : t[n].key = "m"}

(* Transports are started only with credentials and a fingerprint on which   *)
(* all parts of the text agree, and SCTP only for an application section.    *)
QueuedIsUnambiguous ==
    queued # None =>
        /\ \A i \in Leading(text, "ice-ufrag") : Tail(text[i].value) = queued.ufrag
        /\ \A i \in Leading(text, "ice-pwd") : Tail(text[i].value) = queued.pwd
        /\ \A i \in Leading(text, "fingerprint") : Tail(text[i].value) = queued.fingerprint
        /\ queued.sctp =
              (\E i \in DOMAIN text : text[i].key = "m" /\ text[i].value.media = "application")
=============================================================================
