--------------------------- MODULE IceAgentProofs ---------------------------
(***************************************************************************)
(* Theorems about IceAgent, for every finite set of candidates on either   *)
(* side, every priority and every number of checks.  IInv is inductive;    *)
(* Keeps says what a step may do to pairs, requests and tasks so that the  *)
(* parts of IInv about them carry over.                                    *)
(***************************************************************************)
EXTENDS IceAgent, FiniteSetTheorems, SequenceTheorems, TLAPS

(* A set of natural numbers has a least element.                             *)
LEMMA LeastNatural ==
    ASSUME NEW T \in SUBSET Nat, T # {}
    PROVE  \E x \in T : \A y \in T : x <= y
<1>1. IsWellFoundedOn(OpToRel(<, Nat), Nat)
  BY NatLessThanWellFounded
<1>2. \E x \in T : \A y \in T : ~(<<y, x>> \in OpToRel(<, Nat))
  BY <1>1, WFMin, Zenon
<1>3. PICK x \in T : \A y \in T : ~(<<y, x>> \in OpToRel(<, Nat))
  BY <1>2
<1>4. ASSUME NEW y \in T PROVE x <= y
  <2>1. ~(y < x)
    BY <1>3, <1>4 DEF OpToRel
  <2> QED
    BY <2>1
<1> QED
  BY <1>3, <1>4

(* The first of some indices is one of them.                                 *)
LEMMA FirstIndex ==
    ASSUME NEW T \in SUBSET Nat, T # {}
    PROVE  (CHOOSE i \in T : \A j \in T : i <= j) \in T
BY LeastNatural

(* A set of indices has a first one among those with the highest value.      *)
LEMMA BestIndex ==
    ASSUME NEW n \in Nat, NEW f \in [1 .. n -> Int], NEW T \in SUBSET (1 .. n), T # {}
    PROVE  \E i \in T : \A j \in T : f[j] < f[i] \/ (f[j] = f[i] /\ i <= j)
<1> DEFINE HasBest(k) == \E i \in T : /\ i <= k
                                      /\ \A j \in T : j <= k =>
                                            f[j] < f[i] \/ (f[j] = f[i] /\ i <= j)
           Bad == {k \in Nat : (\E i \in T : i <= k) /\ ~HasBest(k)}
<1>0. \A j \in T : j \in Int /\ 1 <= j /\ j <= n /\ f[j] \in Int
  OBVIOUS
<1>1. ASSUME Bad # {} PROVE FALSE
  <2>1. PICK k \in Bad : \A y \in Bad : k <= y
    <3>1. Bad \in SUBSET Nat
      OBVIOUS
    <3> HIDE DEF Bad
    <3> QED
      BY <1>1, <3>1, LeastNatural
  <2>2. k \in Nat /\ (\E i \in T : i <= k) /\ ~HasBest(k)
    OBVIOUS
  <2>3. k # 0
    BY <1>0, <2>2
  <2>4. k - 1 \in Nat /\ k - 1 \notin Bad
    <3> HIDE DEF Bad, HasBest
    <3> QED
      BY <2>1, <2>2, <2>3
  <2>5. CASE \E i \in T : i <= k - 1
    <3>1. HasBest(k - 1)
      BY <2>4, <2>5
    <3>2. PICK b \in T : /\ b <= k - 1
                         /\ \A j \in T : j <= k - 1 => f[j] < f[b] \/ (f[j] = f[b] /\ b <= j)
      BY <3>1
    <3>3. b \in Int /\ f[b] \in Int
      BY <1>0
    <3>4. CASE k \in T /\ f[b] < f[k]
      <4>1. \A j \in T : j <= k => f[j] < f[k] \/ (f[j] = f[k] /\ k <= j)
        <5> TAKE j \in T
        <5> HAVE j <= k
        <5>1. f[j] \in Int /\ f[k] \in Int /\ j \in Int
          BY <1>0, <3>4
        <5>2. j = k \/ j <= k - 1
          BY <5>1, <2>2
        <5> QED
          <6> HIDE DEF Bad, HasBest
          <6>1. CASE j = k
            BY <6>1, <2>2
          <6>2. CASE j <= k - 1
            BY <6>2, <3>2, <3>3, <3>4, <5>1
          <6> QED
            BY <5>2, <6>1, <6>2
      <4> QED
        BY <2>2, <3>4, <4>1
    <3>5. CASE ~(k \in T /\ f[b] < f[k])
      <4>1. \A j \in T : j <= k => f[j] < f[b] \/ (f[j] = f[b] /\ b <= j)
        <5> TAKE j \in T
        <5> HAVE j <= k
        <5>1. f[j] \in Int /\ j \in Int /\ (k \in T => f[k] \in Int)
          BY <1>0
        <5>2. j = k \/ j <= k - 1
          BY <5>1, <2>2
        <5> QED
          <6> HIDE DEF Bad, HasBest
          <6>1. CASE j = k
            BY <6>1, <2>2, <3>2, <3>3, <3>5, <5>1
          <6>2. CASE j <= k - 1
            BY <6>2, <3>2
          <6> QED
            BY <5>2, <6>1, <6>2
      <4> QED
        BY <2>2, <3>2, <3>3, <4>1
    <3> QED
      BY <3>4, <3>5
  <2>6. CASE ~\E i \in T : i <= k - 1
    <3>1. k \in T /\ \A j \in T : j <= k => j = k
      <4> HIDE DEF Bad, HasBest
      <4> QED
        BY <1>0, <2>2, <2>6
    <3> QED
      BY <2>2, <3>1
  <2> QED
    BY <2>5, <2>6
<1>2. n \notin Bad
  BY <1>1
<1>3. HasBest(n)
  BY <1>0, <1>2
<1> QED
  BY <1>0, <1>3

(* SetToSeq lists a finite set.                                              *)
LEMMA SetToSeqLists ==
    ASSUME NEW S, IsFiniteSet(S)
    PROVE  /\ SetToSeq(S) \in Seq(S)
           /\ \A x \in S : \E i \in 1 .. Len(SetToSeq(S)) : SetToSeq(S)[i] = x
<1> DEFINE n == Cardinality(S)
           s == SetToSeq(S)
<1>1. n \in Nat /\ ExistsBijection(1 .. n, S)
  BY FS_CardinalityType
<1>2. \E f \in [1 .. n -> S] : IsInjective(f)
  BY <1>1 DEF ExistsBijection, Bijection, Injection
<1>3. s \in [1 .. n -> S] /\ IsInjective(s)
  BY <1>2 DEF SetToSeq
<1>4. s \in Injection(1 .. n, S)
  BY <1>3 DEF Injection
<1>5. IsFiniteSet(1 .. n) /\ Cardinality(1 .. n) = n
  BY <1>1, FS_Interval
<1>6. s \in Surjection(1 .. n, S)
  BY <1>4, <1>5, FS_Injection
<1>7. s \in Seq(S) /\ Len(s) = n
  BY <1>1, <1>3
<1> QED
  BY <1>6, <1>7 DEF Surjection

-----------------------------------------------------------------------------
(* FindPair returns a pair of the two candidates, and one if there is one.   *)
LEMMA FindPairSpec ==
    ASSUME checklist \in Seq(PairType), NEW l, NEW r
    PROVE  /\ FindPair(l, r) # 0 =>
                 /\ FindPair(l, r) \in 1 .. Len(checklist)
                 /\ checklist[FindPair(l, r)].local = l
                 /\ checklist[FindPair(l, r)].remote = r
           /\ FindPair(l, r) = 0 => \A i \in 1 .. Len(checklist) :
                                       ~(checklist[i].local = l /\ checklist[i].remote = r)
<1> DEFINE found == {i \in DOMAIN checklist : checklist[i].local = l /\ checklist[i].remote = r}
<1>1. DOMAIN checklist = 1 .. Len(checklist) /\ Len(checklist) \in Nat
  OBVIOUS
<1>2. found \in SUBSET Nat
  BY <1>1
<1>3. CASE found = {}
  BY <1>1, <1>3 DEF FindPair
<1>4. CASE found # {}
  <2>1. FindPair(l, r) = CHOOSE i \in found : \A j \in found : i <= j
    BY <1>4 DEF FindPair
  <2>2. FindPair(l, r) \in found
    <3> HIDE DEF found
    <3> QED
      BY <1>2, <1>4, <2>1, FirstIndex
  <2> QED
    BY <1>1, <2>2
<1> QED
  BY <1>3, <1>4

(* What EveryPairListed says of the checklist.                               *)
Listed(list, ls, rs, done) ==
    \A l \in ls, r \in rs : done[l] = "done" /\ done[r] = "done" =>
        \E i \in 1 .. Len(list) : list[i].local = l /\ list[i].remote = r

(* Listed is EveryPairListed with the state as parameters.                   *)
LEMMA ListedDef ==
    checklist \in Seq(PairType) =>
        (EveryPairListed <=> Listed(checklist, local_candidates, remote_candidates, adding))
<1> SUFFICES ASSUME checklist \in Seq(PairType)
             PROVE  EveryPairListed <=>
                        Listed(checklist, local_candidates, remote_candidates, adding)
  OBVIOUS
<1>1. ASSUME NEW l, NEW r
      PROVE  FindPair(l, r) # 0 <=>
                 \E i \in 1 .. Len(checklist) : checklist[i].local = l /\ checklist[i].remote = r
  BY FindPairSpec
<1> QED
  BY <1>1 DEF EveryPairListed, Listed

(* The same after a step.                                                    *)
LEMMA ListedDefNext ==
    checklist' \in Seq(PairType) =>
        (EveryPairListed' <=> Listed(checklist', local_candidates', remote_candidates', adding'))
<1>1. (checklist \in Seq(PairType) =>
        (EveryPairListed <=> Listed(checklist, local_candidates, remote_candidates, adding)))'
  BY ListedDef, PTL
<1> QED
  BY <1>1 DEF Listed

(* A pair that has succeeded was confirmed.                                  *)
SucceededIsConfirmed ==
    \A i \in PairsIn({"Succeeded"}) : Ends(i) \in confirmed

(* The inductive invariant.                                                  *)
IInv == AgentInv /\ EveryPairListed /\ SelectedIsConfirmed /\ SucceededIsConfirmed

(* The checklist never loses a pair or a success.                            *)
ChecklistStays ==
    /\ checklist' \in Seq(PairType)
    /\ Len(checklist) <= Len(checklist')
    /\ \A i \in 1 .. Len(checklist) :
          /\ checklist'[i].local = checklist[i].local
          /\ checklist'[i].remote = checklist[i].remote
          /\ checklist[i].state = "Succeeded" => checklist'[i].state = "Succeeded"

(* A pair that has succeeded after the step.                                 *)
Good(i) == i \in 1 .. Len(checklist') /\ checklist'[i].state = "Succeeded"

(* A step that leaves pairs as they are or makes them succeed for cause.     *)
Keeps ==
    /\ ChecklistStays
    /\ \A i \in 1 .. Len(checklist') : checklist'[i].state = "Succeeded" =>
          \/ i \in 1 .. Len(checklist) /\ checklist[i].state = "Succeeded"
          \/ /\ <<checklist'[i].local, checklist'[i].remote>> \in confirmed'
             /\ last_received'[checklist'[i].remote] # 3
    /\ confirmed \subseteq confirmed'
    /\ \A r \in Remote : last_received[r] # 3 => last_received'[r] # 3
    /\ \A r \in pending_binding_requests' :
          r.use => r \in pending_binding_requests \/ last_received'[r.destination] # 3
    /\ nominated_pair' # nominated_pair => Good(nominated_pair')
    /\ selected_pair' # selected_pair => Good(selected_pair')
    /\ \A t \in Local \cup {CheckTask} :
          task'[t] = task[t] \/ (task'[t].at \in {"nominate", "select"} => Good(task'[t].pair))

(* A step that keeps pairs, requests and tasks as Keeps says keeps the rest  *)
(* of the invariant.                                                         *)
LEMMA KeepsEnough ==
    ASSUME IInv, TypeOK', TasksInOrder', EveryPairListed', Keeps
    PROVE  IInv'
<1>0. /\ TypeOK /\ TasksInOrder /\ ChosenSucceeded /\ SucceededWasHeard /\ SelectedWasHeard
      /\ SelectedIsConfirmed /\ SucceededIsConfirmed
  BY DEF IInv, AgentInv
<1>1. /\ checklist \in Seq(PairType) /\ checklist' \in Seq(PairType)
      /\ DOMAIN checklist = 1 .. Len(checklist) /\ DOMAIN checklist' = 1 .. Len(checklist')
      /\ Len(checklist) \in Nat /\ Len(checklist') \in Nat
      /\ nominated_pair \in 0 .. Len(checklist) /\ selected_pair \in 0 .. Len(checklist)
      /\ DOMAIN task = Local \cup {CheckTask} /\ DOMAIN task' = Local \cup {CheckTask}
      /\ \A i \in 1 .. Len(checklist) : checklist[i].remote \in Remote
      /\ \A r \in pending_binding_requests : r.destination \in Remote
  <2>1. /\ checklist \in Seq(PairType) /\ checklist' \in Seq(PairType)
        /\ nominated_pair \in 0 .. Len(checklist) /\ selected_pair \in 0 .. Len(checklist)
    BY <1>0 DEF TypeOK
  <2>2. \A i \in 1 .. Len(checklist) : checklist[i] \in PairType
    BY <2>1
  <2>3. \A i \in 1 .. Len(checklist) : checklist[i].remote \in Remote
    BY <2>2 DEF PairType
  <2>4. DOMAIN task = Local \cup {CheckTask} /\ DOMAIN task' = Local \cup {CheckTask}
    BY <1>0 DEF TypeOK
  <2>5. \A r \in pending_binding_requests : r.destination \in Remote
    BY <1>0 DEF TypeOK
  <2> QED
    BY <2>1, <2>3, <2>4, <2>5
<1>2. \A i \in 1 .. Len(checklist) : checklist[i].state = "Succeeded" => Good(i)
  BY <1>1 DEF Keeps, ChecklistStays, Good
<1>3. nominated_pair' # 0 => Good(nominated_pair')
  BY <1>0, <1>1, <1>2 DEF Keeps, ChosenSucceeded
<1>4. selected_pair' # 0 => Good(selected_pair')
  BY <1>0, <1>1, <1>2 DEF Keeps, SelectedIsConfirmed
<1>5. \A t \in Local \cup {CheckTask} : task'[t].at \in {"nominate", "select"} => Good(task'[t].pair)
  BY <1>0, <1>1, <1>2 DEF Keeps, ChosenSucceeded
<1>6. ASSUME NEW i, Good(i)
      PROVE  /\ <<checklist'[i].local, checklist'[i].remote>> \in confirmed'
             /\ last_received'[checklist'[i].remote] # 3
  <2>1. CASE i \in 1 .. Len(checklist) /\ checklist[i].state = "Succeeded"
    <3>1. <<checklist[i].local, checklist[i].remote>> \in confirmed
          /\ last_received[checklist[i].remote] # 3
      BY <1>0, <1>1, <2>1 DEF SucceededIsConfirmed, SucceededWasHeard, PairsIn, Ends
    <3> QED
      BY <1>1, <2>1, <3>1 DEF Keeps, ChecklistStays
  <2>2. CASE ~(i \in 1 .. Len(checklist) /\ checklist[i].state = "Succeeded")
    BY <1>6, <2>2 DEF Keeps, Good
  <2> QED
    BY <2>1, <2>2
<1>7. ChosenSucceeded'
  BY <1>1, <1>3, <1>5 DEF ChosenSucceeded, Good
<1>8. SucceededIsConfirmed'
  BY <1>1, <1>6 DEF SucceededIsConfirmed, PairsIn, Ends, Good
<1>9. SelectedIsConfirmed' /\ SelectedWasHeard'
  BY <1>4, <1>6 DEF SelectedIsConfirmed, SelectedWasHeard, SilenceOfSelected, Ends, Good
<1>10. SucceededWasHeard'
  <2>1. \A r \in pending_binding_requests' : r.use => last_received'[r.destination] # 3
    BY <1>0, <1>1 DEF Keeps, SucceededWasHeard
  <2> QED
    BY <1>1, <1>6, <2>1 DEF SucceededWasHeard, PairsIn, Good
<1> QED
  BY <1>7, <1>8, <1>9, <1>10 DEF IInv, AgentInv

(* No pair is unlisted by a step that adds no candidate.                     *)
LEMMA ListedStays ==
    ASSUME TypeOK, EveryPairListed, ChecklistStays,
           local_candidates' \subseteq local_candidates,
           remote_candidates' \subseteq remote_candidates, adding' = adding
    PROVE  EveryPairListed'
<1>1. checklist \in Seq(PairType) /\ checklist' \in Seq(PairType)
      /\ Len(checklist) \in Nat /\ Len(checklist') \in Nat
  BY DEF TypeOK, ChecklistStays
<1>2. Listed(checklist, local_candidates, remote_candidates, adding)
  BY <1>1, ListedDef
<1>3. Listed(checklist', local_candidates', remote_candidates', adding')
  BY <1>1, <1>2 DEF Listed, ChecklistStays
<1> QED
  BY <1>1, <1>3, ListedDefNext

-----------------------------------------------------------------------------
(* What the types say of the checklist.                                      *)
LEMMA ListFacts ==
    ASSUME TypeOK
    PROVE  /\ DOMAIN checklist = 1 .. Len(checklist) /\ Len(checklist) \in Nat
           /\ \A i \in 1 .. Len(checklist) :
                 /\ checklist[i] \in PairType
                 /\ checklist[i].local \in Local /\ checklist[i].remote \in Remote
<1>1. checklist \in Seq(PairType)
  BY DEF TypeOK
<1>2. \A i \in 1 .. Len(checklist) : checklist[i] \in PairType
  BY <1>1
<1> QED
  BY <1>1, <1>2 DEF PairType

(* The parts of IInv a step starts from.                                     *)
LEMMA Parts ==
    ASSUME IInv
    PROVE  /\ TypeOK /\ TasksInOrder /\ ChosenSucceeded /\ SucceededWasHeard
           /\ SelectedWasHeard /\ EveryPairListed /\ SelectedIsConfirmed
           /\ SucceededIsConfirmed
BY DEF IInv, AgentInv

(* A step that leaves the checklist alone keeps it.                          *)
LEMMA SameList ==
    ASSUME TypeOK, checklist' = checklist
    PROVE  ChecklistStays
BY ListFacts DEF ChecklistStays, TypeOK

(* dial and accept.                                                          *)
LEMMA DialStep ==
    ASSUME IInv, Dial
    PROVE  IInv'
<1>0. TypeOK /\ TasksInOrder /\ EveryPairListed
  BY Parts
<1> USE DEF Dial, StartConnectivityChecks, cands, choice
<1>1. TypeOK'
  BY <1>0 DEF TypeOK, ConnectionState
<1>2. TasksInOrder'
  BY <1>0 DEF TasksInOrder
<1>3. ChecklistStays
  BY <1>0, SameList
<1>4. EveryPairListed'
  BY <1>0, <1>3, ListedStays
<1>5. Keeps
  BY <1>3 DEF Keeps
<1> QED
  BY <1>1, <1>2, <1>4, <1>5, KeepsEnough

(* A candidate is inserted; it is not done.                                  *)
LEMMA AddCandidateStep ==
    ASSUME IInv, NEW x \in Local \cup Remote, AddCandidate(x)
    PROVE  IInv'
<1>0. TypeOK /\ TasksInOrder /\ EveryPairListed
  BY Parts
<1>a. /\ UNCHANGED <<is_controlling, connection_state, was_checking, checklist, nominated_pair,
                     selected_pair, pending_binding_requests, last_received, task, dial, confirmed>>
      /\ adding' = [adding EXCEPT ![x] = "inserted"]
      /\ \/ /\ x \in Local /\ local_candidates' = local_candidates \cup {x}
            /\ remote_candidates' = remote_candidates
         \/ /\ x \in Remote /\ remote_candidates' = remote_candidates \cup {x}
            /\ local_candidates' = local_candidates
  BY DEF AddCandidate, AddLocal, AddRemote, states, choice
<1>1. TypeOK'
  BY <1>0, <1>a DEF TypeOK
<1>2. TasksInOrder'
  BY <1>0, <1>a DEF TasksInOrder
<1>3. ChecklistStays
  BY <1>0, <1>a, SameList
<1>4. EveryPairListed'
  <2>1. checklist \in Seq(PairType) /\ checklist' \in Seq(PairType)
    BY <1>0, <1>1 DEF TypeOK
  <2>2. Listed(checklist, local_candidates, remote_candidates, adding)
    BY <1>0, <2>1, ListedDef
  <2>3. \A y \in Local \cup Remote : adding'[y] = "done" => y # x /\ adding[y] = "done"
    BY <1>0, <1>a DEF TypeOK
  <2>4. local_candidates' \subseteq Local /\ remote_candidates' \subseteq Remote
    BY <1>1 DEF TypeOK
  <2>5. Listed(checklist', local_candidates', remote_candidates', adding')
    BY <1>a, <2>2, <2>3, <2>4 DEF Listed
  <2> QED
    BY <2>1, <2>5, ListedDefNext
<1>5. Keeps
  BY <1>a, <1>3 DEF Keeps
<1> QED
  BY <1>1, <1>2, <1>4, <1>5, KeepsEnough

(* update_connection_state touches no pair.                                  *)
LEMMA UpdateEffect ==
    ASSUME TypeOK, NEW s \in ConnectionState, UpdateConnectionState(s)
    PROVE  /\ connection_state' \in ConnectionState
           /\ local_candidates' \subseteq local_candidates
           /\ remote_candidates' \subseteq remote_candidates /\ adding' = adding
BY DEF UpdateConnectionState, DeleteAllCandidates

(* The check task ends a contact.                                            *)
LEMMA EndType ==
    ASSUME EndOfContact
    PROVE  was_checking' \in BOOLEAN
BY DEF EndOfContact

(* contact gives up when checking took too long: only the state changes.     *)
LEMMA ContactTimedOutStep ==
    ASSUME IInv, ContactTimedOut
    PROVE  IInv'
<1>0. TypeOK /\ TasksInOrder /\ EveryPairListed
  BY Parts
<1>a. /\ UNCHANGED <<is_controlling, checklist, nominated_pair, selected_pair,
                     pending_binding_requests, last_received, task, dial, confirmed>>
      /\ was_checking' = FALSE /\ dial # "no"
      /\ UpdateConnectionState("Failed") /\ "Failed" \in ConnectionState
  BY DEF ContactTimedOut, choice, Contacting, Started, ConnectionState
<1>b. /\ connection_state' \in ConnectionState
      /\ local_candidates' \subseteq local_candidates
      /\ remote_candidates' \subseteq remote_candidates /\ adding' = adding
  BY <1>0, <1>a, UpdateEffect
<1>1. TypeOK'
  BY <1>0, <1>a, <1>b DEF TypeOK
<1>2. TasksInOrder'
  BY <1>0, <1>a DEF TasksInOrder
<1>3. ChecklistStays
  BY <1>0, <1>a, SameList
<1>4. EveryPairListed'
  BY <1>0, <1>3, <1>b, ListedStays
<1>5. Keeps
  BY <1>a, <1>3 DEF Keeps
<1> QED
  BY <1>1, <1>2, <1>4, <1>5, KeepsEnough

(* The state follows how long the selected pair was silent.                  *)
LEMMA ValidateSelectedPairStep ==
    ASSUME IInv, ValidateSelectedPair
    PROVE  IInv'
<1>0. TypeOK /\ TasksInOrder /\ EveryPairListed
  BY Parts
<1>a. /\ UNCHANGED <<is_controlling, was_checking, checklist, nominated_pair, selected_pair,
                     pending_binding_requests, last_received, dial, confirmed>>
      /\ dial # "no" /\ selected_pair # 0
      /\ task' = [task EXCEPT ![CheckTask] = At("keepalive", 0, "")]
  BY DEF ValidateSelectedPair, choice, ContactingCandidates, Contacting, Started, GoTo
<1>b. \E s \in ConnectionState : UpdateConnectionState(s)
  BY DEF ValidateSelectedPair, ConnectionState
<1>c. /\ connection_state' \in ConnectionState
      /\ local_candidates' \subseteq local_candidates
      /\ remote_candidates' \subseteq remote_candidates /\ adding' = adding
  BY <1>0, <1>b, UpdateEffect
<1>d. /\ task' \in [Local \cup {CheckTask} -> TaskType]
      /\ task'[CheckTask] = At("keepalive", 0, "")
      /\ \A l \in Local : task'[l] = task[l]
  BY <1>0, <1>a, IceAssumption DEF TypeOK, TaskType, At, IceAssumption
<1>1. TypeOK'
  BY <1>0, <1>a, <1>c, <1>d DEF TypeOK
<1>2. TasksInOrder'
  BY <1>0, <1>a, <1>d DEF TasksInOrder, At
<1>3. ChecklistStays
  BY <1>0, <1>a, SameList
<1>4. EveryPairListed'
  BY <1>0, <1>3, <1>c, ListedStays
<1>5. Keeps
  BY <1>a, <1>d, <1>3 DEF Keeps, At
<1> QED
  BY <1>1, <1>2, <1>4, <1>5, KeepsEnough

(* Requests go out on pairs of candidates; a nomination, on one that was     *)
(* heard.                                                                    *)
Requested(use) ==
    /\ pending_binding_requests' \subseteq [transaction_id : Local, destination : Remote, use : BOOLEAN]
    /\ \A r \in pending_binding_requests' :
          r \in pending_binding_requests \/ (r.use = use /\ (use => last_received[r.destination] # 3))

(* Sending requests adds them; a nomination goes to who was heard.           *)
LEMMA SendEffect ==
    ASSUME TypeOK, NEW S \in SUBSET (Local \X Remote), NEW use \in BOOLEAN,
           SendBindingRequests(S, use), use => \A p \in S : last_received[p[2]] # 3
    PROVE  Requested(use)
<1>1. \A p \in S : /\ Request(p[1], p[2], use) \in
                          [transaction_id : Local, destination : Remote, use : BOOLEAN]
                   /\ Request(p[1], p[2], use).use = use
                   /\ Request(p[1], p[2], use).destination = p[2]
  BY DEF Request
<1>2. pending_binding_requests' =
         pending_binding_requests \cup {Request(p[1], p[2], use) : p \in S}
  BY DEF SendBindingRequests
<1> QED
  BY <1>1, <1>2 DEF TypeOK, Requested

(* A remote candidate that was heard stays heard.                            *)
LEMMA SeenEffect ==
    ASSUME TypeOK, NEW src \in Remote, Seen(src)
    PROVE  /\ last_received' \in [Remote -> 0 .. 3] /\ last_received'[src] # 3
           /\ \A r \in Remote : last_received[r] # 3 => last_received'[r] # 3
BY DEF TypeOK, Seen

(* One task moves.                                                           *)
LEMMA GoToEffect ==
    ASSUME TypeOK, NEW t \in Local \cup {CheckTask}, NEW w \in TaskType, GoTo(t, w)
    PROVE  /\ task' \in [Local \cup {CheckTask} -> TaskType]
           /\ task'[t] = w
           /\ \A u \in Local \cup {CheckTask} : u # t => task'[u] = task[u]
BY DEF TypeOK, GoTo

(* A task that has nothing to do is a task.                                  *)
LEMMA IdleTask == Idle \in TaskType /\ Idle.at = "idle"
BY DEF Idle, At, TaskType

(* A keepalive request nominates nobody.                                     *)
LEMMA CheckKeepaliveStep ==
    ASSUME IInv, CheckKeepalive
    PROVE  IInv'
<1>0. TypeOK /\ TasksInOrder /\ EveryPairListed
  BY Parts
<1>a. /\ UNCHANGED <<is_controlling, connection_state, local_candidates, remote_candidates,
                     adding, checklist, nominated_pair, selected_pair, last_received, dial,
                     confirmed>>
      /\ task[CheckTask].at = "keepalive" /\ GoTo(CheckTask, Idle) /\ EndOfContact
      /\ \/ SendBindingRequests({Ends(selected_pair)}, FALSE)
         \/ pending_binding_requests' = pending_binding_requests
  BY DEF CheckKeepalive, choice, cands
<1>b. selected_pair \in 1 .. Len(checklist) /\ CheckTask \in Local \cup {CheckTask}
  BY <1>0, <1>a DEF TasksInOrder, TypeOK
<1>c. Requested(FALSE)
  <2>1. CASE SendBindingRequests({Ends(selected_pair)}, FALSE)
    <3>1. {Ends(selected_pair)} \in SUBSET (Local \X Remote) /\ FALSE \in BOOLEAN
      BY <1>0, <1>b, ListFacts DEF Ends
    <3> QED
      BY <1>0, <2>1, <3>1, SendEffect
  <2>2. CASE pending_binding_requests' = pending_binding_requests
    BY <1>0, <2>2 DEF Requested, TypeOK
  <2> QED
    BY <1>a, <2>1, <2>2
<1>d. /\ task' \in [Local \cup {CheckTask} -> TaskType]
      /\ task'[CheckTask].at = "idle"
      /\ \A u \in Local \cup {CheckTask} : u # CheckTask => task'[u] = task[u]
  BY <1>0, <1>a, <1>b, GoToEffect, IdleTask
<1>e. CheckTask \notin Local
  BY IceAssumption DEF IceAssumption
<1>1. TypeOK'
  BY <1>0, <1>a, <1>c, <1>d, EndType DEF TypeOK, Requested
<1>2. TasksInOrder'
  BY <1>0, <1>a, <1>d, <1>e DEF TasksInOrder, TypeOK
<1>3. ChecklistStays
  BY <1>0, <1>a, SameList
<1>4. EveryPairListed'
  BY <1>0, <1>a, <1>3, ListedStays
<1>5. Keeps
  BY <1>a, <1>c, <1>d, <1>3 DEF Keeps, Requested
<1> QED
  BY <1>1, <1>2, <1>4, <1>5, KeepsEnough

(* A ping changes the state and the count of a pair and no success.          *)
LEMMA PingedPair ==
    ASSUME NEW p \in PairType
    PROVE  /\ Pinged(p) \in PairType
           /\ Pinged(p).local = p.local /\ Pinged(p).remote = p.remote
           /\ Pinged(p).state = "Succeeded" <=> p.state = "Succeeded"
<1>1. MaxBindingRequests \in Nat
  BY IceAssumption DEF IceAssumption
<1>2. CASE p.state \notin {"Waiting", "InProgress"}
  BY <1>2 DEF Pinged
<1>3. CASE p.state \in {"Waiting", "InProgress"} /\ p.count > MaxBindingRequests
  BY <1>3 DEF Pinged, PairType
<1>4. CASE p.state \in {"Waiting", "InProgress"} /\ ~(p.count > MaxBindingRequests)
  <2>1. p.count + 1 \in 0 .. MaxBindingRequests + 1
    BY <1>1, <1>4 DEF PairType
  <2> QED
    BY <1>4, <2>1 DEF Pinged, PairType
<1> QED
  BY <1>2, <1>3, <1>4

(* Pinging moves pairs to InProgress or Failed, none that has succeeded.     *)
LEMMA PingAllCandidatesStep ==
    ASSUME IInv, PingAllCandidates
    PROVE  IInv'
<1>0. TypeOK /\ TasksInOrder /\ EveryPairListed
  BY Parts
<1> DEFINE asked == {Ends(i) : i \in {j \in DOMAIN checklist :
                                          checklist'[j].count > checklist[j].count}}
<1>a. /\ UNCHANGED <<is_controlling, connection_state, local_candidates, remote_candidates,
                     adding, nominated_pair, selected_pair, last_received, task, dial, confirmed>>
      /\ checklist' = [i \in DOMAIN checklist |-> Pinged(checklist[i])]
      /\ EndOfContact /\ SendBindingRequests(asked, FALSE)
  BY DEF PingAllCandidates, choice, cands
<1>b. Requested(FALSE)
  <2>1. asked \in SUBSET (Local \X Remote) /\ FALSE \in BOOLEAN
    BY <1>0, ListFacts DEF Ends
  <2> HIDE DEF asked
  <2> QED
    BY <1>0, <1>a, <2>1, SendEffect
<1>c. /\ checklist' \in Seq(PairType) /\ Len(checklist') = Len(checklist)
      /\ \A i \in 1 .. Len(checklist) : checklist'[i] = Pinged(checklist[i])
  <2>1. DOMAIN checklist = 1 .. Len(checklist) /\ Len(checklist) \in Nat
    BY <1>0, ListFacts
  <2>2. \A i \in 1 .. Len(checklist) : Pinged(checklist[i]) \in PairType
    BY <1>0, ListFacts, PingedPair
  <2> QED
    BY <1>a, <2>1, <2>2
<1>d. \A i \in 1 .. Len(checklist) :
         /\ checklist'[i].local = checklist[i].local
         /\ checklist'[i].remote = checklist[i].remote
         /\ checklist'[i].state = "Succeeded" <=> checklist[i].state = "Succeeded"
  BY <1>0, <1>c, ListFacts, PingedPair
<1>1. TypeOK'
  BY <1>0, <1>a, <1>b, <1>c, EndType DEF TypeOK, Requested
<1>2. TasksInOrder'
  BY <1>0, <1>a DEF TasksInOrder
<1>3. ChecklistStays
  BY <1>0, <1>c, <1>d, ListFacts DEF ChecklistStays
<1>4. EveryPairListed'
  BY <1>0, <1>a, <1>3, ListedStays
<1>5. Keeps
  BY <1>a, <1>b, <1>c, <1>d, <1>3 DEF Keeps, Requested
<1> QED
  BY <1>1, <1>2, <1>4, <1>5, KeepsEnough

(* Priorities can be compared.                                               *)
LEMMA PriorityIsInt ==
    ASSUME NEW p \in PairType
    PROVE  PairPriority(p) \in Int
<1>1. CandidatePriority[p.local] \in Nat /\ CandidatePriority[p.remote] \in Nat /\ PriorityBase \in Nat
  BY IceAssumption DEF IceAssumption, PairType
<1>2. \A x, y \in Nat : Lower(x, y) \in Nat /\ Higher(x, y) \in Nat
  BY DEF Lower, Higher
<1>3. \A g, d \in Nat :
        PriorityBase * Lower(g, d) + 2 * Higher(g, d) + (IF g > d THEN 1 ELSE 0) \in Int
  <2> TAKE g, d \in Nat
  <2>1. PICK x \in Nat, y \in Nat : x = Lower(g, d) /\ y = Higher(g, d)
    BY <1>2
  <2>2. PriorityBase * x \in Int
    BY <1>1
  <2>3. PICK z \in Int : z = PriorityBase * x
    BY <2>2
  <2>4. z + 2 * y + (IF g > d THEN 1 ELSE 0) \in Int
    OBVIOUS
  <2> QED
    BY <2>1, <2>3, <2>4
<1> QED
  BY <1>1, <1>3 DEF PairPriority

(* Best picks one of the indices it is given.                                *)
LEMMA BestSpec ==
    ASSUME TypeOK, NEW T \in SUBSET (1 .. Len(checklist)), Best(T) # 0
    PROVE  Best(T) \in T
<1> DEFINE f == [i \in 1 .. Len(checklist) |-> PairPriority(checklist[i])]
<1>1. T # {}
  BY DEF Best
<1>2. Len(checklist) \in Nat /\ f \in [1 .. Len(checklist) -> Int]
  BY ListFacts, PriorityIsInt
<1>3. \E i \in T : \A j \in T : f[j] < f[i] \/ (f[j] = f[i] /\ i <= j)
  <2> HIDE DEF f
  <2> QED
    BY <1>1, <1>2, BestIndex
<1>4. \A i \in T : f[i] = PairPriority(checklist[i])
  OBVIOUS
<1>5. \E i \in T : \A j \in T :
            \/ PairPriority(checklist[j]) < PairPriority(checklist[i])
            \/ PairPriority(checklist[j]) = PairPriority(checklist[i]) /\ i <= j
  <2> HIDE DEF f
  <2> QED
    BY <1>3, <1>4
<1> QED
  BY <1>1, <1>5 DEF Best

(* The best valid pair has succeeded, and is only remembered by the task     *)
(* until the nomination.                                                     *)
LEMMA FindNominatableStep ==
    ASSUME IInv, FindNominatable
    PROVE  IInv'
<1>0. TypeOK /\ TasksInOrder /\ EveryPairListed
  BY Parts
<1> DEFINE b == GetBestValidCandidatePair
<1>a. /\ UNCHANGED <<is_controlling, connection_state, was_checking, local_candidates,
                     remote_candidates, adding, checklist, nominated_pair, selected_pair,
                     pending_binding_requests, last_received, dial, confirmed>>
      /\ dial # "no" /\ b # 0 /\ GoTo(CheckTask, At("nominate", b, ""))
  BY DEF FindNominatable, ContactingCandidates, Contacting, Started, states, choice, cands
<1>b. b \in 1 .. Len(checklist) /\ checklist[b].state = "Succeeded"
  <2>1. PairsIn({"Succeeded"}) \in SUBSET (1 .. Len(checklist))
    BY <1>0, ListFacts DEF PairsIn
  <2>2. b = Best(PairsIn({"Succeeded"}))
    BY DEF GetBestValidCandidatePair
  <2>3. b \in PairsIn({"Succeeded"})
    <3> HIDE DEF b
    <3> QED
      BY <1>0, <1>a, <2>1, <2>2, BestSpec
  <2> HIDE DEF b
  <2> QED
    BY <2>1, <2>3 DEF PairsIn
<1> HIDE DEF b
<1>c. /\ At("nominate", b, "") \in TaskType /\ CheckTask \in Local \cup {CheckTask}
      /\ At("nominate", b, "").at = "nominate" /\ At("nominate", b, "").pair = b
  BY <1>b DEF TaskType, At
<1>d. /\ task' \in [Local \cup {CheckTask} -> TaskType]
      /\ task'[CheckTask].at = "nominate" /\ task'[CheckTask].pair = b
      /\ \A u \in Local \cup {CheckTask} : u # CheckTask => task'[u] = task[u]
  BY <1>0, <1>a, <1>c, GoToEffect
<1>e. CheckTask \notin Local
  BY IceAssumption DEF IceAssumption
<1>1. TypeOK'
  BY <1>0, <1>a, <1>d DEF TypeOK
<1>2. TasksInOrder'
  BY <1>0, <1>a, <1>d, <1>e DEF TasksInOrder, TypeOK
<1>3. ChecklistStays
  BY <1>0, <1>a, SameList
<1>4. EveryPairListed'
  BY <1>0, <1>a, <1>3, ListedStays
<1>5. Keeps
  BY <1>a, <1>b, <1>d, <1>3 DEF Keeps, Good
<1> QED
  BY <1>1, <1>2, <1>4, <1>5, KeepsEnough

(* The pair remembered across the await has still succeeded when it is       *)
(* nominated.                                                                *)
LEMMA NominateAgainStep ==
    ASSUME IInv, NominateAgain
    PROVE  IInv'
<1>0. TypeOK /\ TasksInOrder /\ EveryPairListed /\ ChosenSucceeded /\ SucceededWasHeard
  BY Parts
<1>a. /\ UNCHANGED <<is_controlling, connection_state, local_candidates, remote_candidates,
                     adding, checklist, nominated_pair, selected_pair, last_received, task,
                     dial, confirmed>>
      /\ nominated_pair # 0 /\ EndOfContact
      /\ SendBindingRequests({Ends(nominated_pair)}, TRUE)
  BY DEF NominateAgain, choice, cands
<1>b. nominated_pair \in 1 .. Len(checklist) /\ checklist[nominated_pair].state = "Succeeded"
  BY <1>0, <1>a DEF TypeOK, ChosenSucceeded
<1>c. Requested(TRUE)
  <2>1. {Ends(nominated_pair)} \in SUBSET (Local \X Remote) /\ TRUE \in BOOLEAN
    BY <1>0, <1>b, ListFacts DEF Ends
  <2>2. \A p \in {Ends(nominated_pair)} : last_received[p[2]] # 3
    BY <1>0, <1>b, ListFacts DEF Ends, SucceededWasHeard, PairsIn
  <2> QED
    BY <1>0, <1>a, <2>1, <2>2, SendEffect
<1>1. TypeOK'
  BY <1>0, <1>a, <1>c, EndType DEF TypeOK, Requested
<1>2. TasksInOrder'
  BY <1>0, <1>a DEF TasksInOrder
<1>3. ChecklistStays
  BY <1>0, <1>a, SameList
<1>4. EveryPairListed'
  BY <1>0, <1>a, <1>3, ListedStays
<1>5. Keeps
  BY <1>a, <1>c, <1>3 DEF Keeps, Requested
<1> QED
  BY <1>1, <1>2, <1>4, <1>5, KeepsEnough

(* What was read before the await is stored.                                 *)
LEMMA NominatePairStep ==
    ASSUME IInv, NEW t \in DOMAIN task, NominatePair(t)
    PROVE  IInv'
<1>0. TypeOK /\ TasksInOrder /\ EveryPairListed /\ ChosenSucceeded /\ SucceededWasHeard
  BY Parts
<1> DEFINE i == task[t].pair
<1>a. /\ UNCHANGED <<is_controlling, connection_state, local_candidates, remote_candidates,
                     adding, checklist, selected_pair, dial, confirmed>>
      /\ task[t].at = "nominate" /\ nominated_pair' = i /\ GoTo(t, Idle)
      /\ SendBindingRequests({Ends(i)}, TRUE)
      /\ \/ t = CheckTask /\ EndOfContact /\ last_received' = last_received
         \/ t # CheckTask /\ Seen(task[t].src) /\ was_checking' = was_checking
  BY DEF NominatePair, cands
<1>b. /\ t \in Local \cup {CheckTask} /\ i \in 1 .. Len(checklist)
      /\ checklist[i].state = "Succeeded" /\ dial # "no"
      /\ t # CheckTask => task[t].src \in Remote
  BY <1>0, <1>a, ListFacts DEF TypeOK, ChosenSucceeded, TasksInOrder
<1> HIDE DEF i
<1>c. Requested(TRUE)
  <2>1. {Ends(i)} \in SUBSET (Local \X Remote) /\ TRUE \in BOOLEAN
    BY <1>0, <1>b, ListFacts DEF Ends
  <2>2. \A p \in {Ends(i)} : last_received[p[2]] # 3
    BY <1>0, <1>b, ListFacts DEF Ends, SucceededWasHeard, PairsIn
  <2> QED
    BY <1>0, <1>a, <2>1, <2>2, SendEffect
<1>d. /\ task' \in [Local \cup {CheckTask} -> TaskType]
      /\ task'[t].at = "idle"
      /\ \A u \in Local \cup {CheckTask} : u # t => task'[u] = task[u]
  BY <1>0, <1>a, <1>b, GoToEffect, IdleTask
<1>e. /\ last_received' \in [Remote -> 0 .. 3] /\ was_checking' \in BOOLEAN
      /\ \A r \in Remote : last_received[r] # 3 => last_received'[r] # 3
  <2>1. CASE t = CheckTask /\ EndOfContact /\ last_received' = last_received
    BY <1>0, <2>1, EndType DEF TypeOK
  <2>2. CASE t # CheckTask /\ Seen(task[t].src) /\ was_checking' = was_checking
    BY <1>0, <1>b, <2>2, SeenEffect DEF TypeOK
  <2> QED
    BY <1>a, <2>1, <2>2
<1>1. TypeOK'
  BY <1>0, <1>a, <1>b, <1>c, <1>d, <1>e DEF TypeOK, Requested
<1>2. TasksInOrder'
  BY <1>0, <1>a, <1>b, <1>d DEF TasksInOrder, TypeOK
<1>3. ChecklistStays
  BY <1>0, <1>a, SameList
<1>4. EveryPairListed'
  BY <1>0, <1>a, <1>3, ListedStays
<1>5. Keeps
  <2>1. \A r \in pending_binding_requests' :
          r.use => r \in pending_binding_requests \/ last_received'[r.destination] # 3
    BY <1>c, <1>e DEF Requested
  <2> QED
    BY <1>a, <1>b, <1>d, <1>e, <1>3, <2>1 DEF Keeps, Good
<1> QED
  BY <1>1, <1>2, <1>4, <1>5, KeepsEnough

-----------------------------------------------------------------------------
(* The end of a handler of receive task l: it waits to nominate or to select *)
(* pair i, which has succeeded, or src is marked as heard.                   *)
Handled(l, src, i) ==
    /\ task' \in [Local \cup {CheckTask} -> TaskType]
    /\ last_received' \in [Remote -> 0 .. 3]
    /\ \A r \in Remote : last_received[r] # 3 => last_received'[r] # 3
    /\ \A u \in Local \cup {CheckTask} : u # l => task'[u] = task[u]
    /\ \/ task' = task /\ last_received'[src] # 3
       \/ /\ task'[l].at \in {"nominate", "select"} /\ task'[l].pair = i /\ task'[l].src = src
          /\ last_received' = last_received

(* Where a receive task stands after a message: waiting to write, or done    *)
(* with its sender marked as heard.                                          *)
LEMMA HandledEffect ==
    ASSUME TypeOK, NEW l \in Local, NEW src \in Remote, NEW i \in Nat,
           NEW w \in {"nominate", "select"},
           \/ GoTo(l, At(w, i, src)) /\ last_received' = last_received
           \/ Seen(src) /\ task' = task
    PROVE  Handled(l, src, i)
<1>1. CASE GoTo(l, At(w, i, src)) /\ last_received' = last_received
  <2>1. At(w, i, src) \in TaskType /\ l \in Local \cup {CheckTask}
    BY DEF At, TaskType
  <2>2. At(w, i, src).at = w /\ At(w, i, src).pair = i /\ At(w, i, src).src = src
    BY DEF At
  <2>3. /\ task' \in [Local \cup {CheckTask} -> TaskType]
        /\ task'[l] = At(w, i, src)
        /\ \A u \in Local \cup {CheckTask} : u # l => task'[u] = task[u]
    BY <1>1, <2>1, GoToEffect
  <2> QED
    BY <1>1, <2>2, <2>3 DEF Handled, TypeOK
<1>2. CASE Seen(src) /\ task' = task
  BY <1>2, SeenEffect DEF Handled, TypeOK
<1> QED
  BY <1>1, <1>2

(* A handler leaves the tasks in order.                                      *)
LEMMA HandledOrder ==
    ASSUME TypeOK, TasksInOrder, NEW l \in Local, NEW src \in Remote, NEW i,
           Handled(l, src, i), dial # "no", UNCHANGED <<dial, connection_state, selected_pair>>
    PROVE  TasksInOrder'
<1>1. CheckTask \notin Local
  BY IceAssumption DEF IceAssumption
<1>2. CASE task' = task
  BY <1>2 DEF TasksInOrder
<1>3. CASE task'[l].at \in {"nominate", "select"} /\ task'[l].src = src
  BY <1>1, <1>3 DEF TasksInOrder, Handled, TypeOK
<1> QED
  BY <1>2, <1>3 DEF Handled

(* An answer makes the pair it comes in on succeed, and confirms it.         *)
LEMMA SuccessResponseStep ==
    ASSUME IInv, NEW l \in Local, NEW src \in Remote, NEW r \in pending_binding_requests,
           HandleSuccessResponse(l, src, r)
    PROVE  IInv'
<1>0. TypeOK /\ TasksInOrder /\ EveryPairListed /\ ChosenSucceeded /\ SucceededWasHeard
  BY Parts
<1> DEFINE i == FindPair(l, src)
           valid == i # 0 /\ FromDestination(r, src)
<1>a. /\ UNCHANGED <<is_controlling, connection_state, was_checking, local_candidates,
                     remote_candidates, adding, nominated_pair, selected_pair, dial>>
      /\ dial # "no"
      /\ pending_binding_requests' = pending_binding_requests \ {r}
      /\ checklist' = IF valid THEN [checklist EXCEPT ![i].state = "Succeeded"] ELSE checklist
      /\ confirmed' = IF r.destination = src THEN confirmed \cup {<<l, src>>} ELSE confirmed
      /\ \/ /\ GoTo(l, At("select", i, src)) /\ last_received' = last_received
            /\ valid /\ r.use
         \/ Seen(src) /\ task' = task
  BY DEF HandleSuccessResponse, HandleInboundBindingSuccess, Arrives, Started, states, cands,
     choice
<1>b. i # 0 => i \in 1 .. Len(checklist) /\ checklist[i].local = l /\ checklist[i].remote = src
  BY <1>0, FindPairSpec DEF TypeOK
<1>c. i \in Nat
  BY <1>0, <1>b, ListFacts
<1>d. valid => r.destination = src
  BY DEF FromDestination
<1> HIDE DEF i, valid
<1>e. valid => i # 0
  BY DEF valid
<1>f. /\ Handled(l, src, i)
  <2>1. "select" \in {"nominate", "select"}
    OBVIOUS
  <2>2. \/ GoTo(l, At("select", i, src)) /\ last_received' = last_received
        \/ Seen(src) /\ task' = task
    BY <1>a
  <2> QED
    BY <1>0, <1>c, <2>1, <2>2, HandledEffect
<1>g. valid => last_received'[src] # 3
  <2>1. CASE last_received' = last_received /\ r.use
    BY <1>0, <1>d, <2>1 DEF SucceededWasHeard
  <2>2. CASE Seen(src)
    BY <1>0, <2>2, SeenEffect
  <2> QED
    BY <1>a, <2>1, <2>2
<1>h. /\ checklist' \in Seq(PairType) /\ Len(checklist') = Len(checklist)
      /\ \A j \in 1 .. Len(checklist) :
            /\ checklist'[j].local = checklist[j].local
            /\ checklist'[j].remote = checklist[j].remote
            /\ checklist'[j] = checklist[j] \/ (valid /\ j = i /\ checklist'[j].state = "Succeeded")
      /\ valid => checklist'[i].state = "Succeeded"
  <2>1. CASE valid
    <3>1. i \in 1 .. Len(checklist) /\ checklist[i] \in PairType
      BY <1>0, <1>b, <1>e, <2>1, ListFacts
    <3> DEFINE e == [checklist[i] EXCEPT !.state = "Succeeded"]
    <3>2. e \in PairType /\ e.local = checklist[i].local /\ e.remote = checklist[i].remote
          /\ e.state = "Succeeded"
      BY <3>1 DEF PairType
    <3>3. checklist' = [checklist EXCEPT ![i] = e]
      BY <1>a, <2>1
    <3> HIDE DEF e
    <3>4. checklist \in Seq(PairType)
      BY <1>0 DEF TypeOK
    <3>5. /\ checklist' \in Seq(PairType) /\ Len(checklist') = Len(checklist)
          /\ \A j \in 1 .. Len(checklist) : checklist'[j] = IF j = i THEN e ELSE checklist[j]
      BY <3>1, <3>2, <3>3, <3>4, ExceptSeq
    <3> QED
      BY <2>1, <3>1, <3>2, <3>5
  <2>2. CASE ~valid
    BY <1>0, <1>a, <2>2 DEF TypeOK
  <2> QED
    BY <2>1, <2>2
<1>1. TypeOK'
  BY <1>0, <1>a, <1>f, <1>h DEF TypeOK, Handled
<1>2. TasksInOrder'
  BY <1>0, <1>a, <1>f, HandledOrder
<1>3. ChecklistStays
  BY <1>0, <1>h, ListFacts DEF ChecklistStays
<1>4. EveryPairListed'
  BY <1>0, <1>a, <1>3, ListedStays
<1>5. Keeps
  <2>1. valid => <<l, src>> \in confirmed'
    BY <1>a, <1>d
  <2>2. \A j \in 1 .. Len(checklist') : checklist'[j].state = "Succeeded" =>
          \/ j \in 1 .. Len(checklist) /\ checklist[j].state = "Succeeded"
          \/ /\ <<checklist'[j].local, checklist'[j].remote>> \in confirmed'
             /\ last_received'[checklist'[j].remote] # 3
    BY <1>b, <1>e, <1>g, <1>h, <2>1, SMTT(30)
  <2>3. \A u \in Local \cup {CheckTask} :
          task'[u] = task[u] \/ (task'[u].at \in {"nominate", "select"} => Good(task'[u].pair))
    <3>1. CASE task' = task
      BY <3>1
    <3>2. CASE valid /\ GoTo(l, At("select", i, src))
      <4>1. At("select", i, src) \in TaskType /\ l \in Local \cup {CheckTask}
            /\ At("select", i, src).pair = i
        BY <1>c DEF At, TaskType
      <4>2. task'[l] = At("select", i, src)
            /\ \A u \in Local \cup {CheckTask} : u # l => task'[u] = task[u]
        BY <1>0, <3>2, <4>1, GoToEffect
      <4>3. Good(i)
        BY <1>b, <1>e, <1>h, <3>2 DEF Good
      <4> QED
        BY <4>1, <4>2, <4>3
    <3> QED
      BY <1>a, <3>1, <3>2
  <2>4. confirmed \subseteq confirmed'
    BY <1>a
  <2> QED
    BY <1>a, <1>f, <1>3, <2>2, <2>3, <2>4 DEF Keeps, Handled
<1> QED
  BY <1>1, <1>2, <1>4, <1>5, KeepsEnough

(* A new pair is Waiting.                                                    *)
LEMMA WaitingPair ==
    ASSUME TypeOK, NEW l \in Local, NEW r \in Remote
    PROVE  /\ Waiting(l, r) \in PairType /\ Waiting(l, r).state = "Waiting"
           /\ Waiting(l, r).local = l /\ Waiting(l, r).remote = r
<1>1. MaxBindingRequests \in Nat /\ (is_controlling /\ dial # "no") \in BOOLEAN
  BY IceAssumption DEF IceAssumption, TypeOK
<1> QED
  BY <1>1 DEF Waiting, PairType

(* No pair of the checklist after the step has newly succeeded.              *)
NothingNew ==
    \A j \in 1 .. Len(checklist') : checklist'[j].state = "Succeeded" =>
        j \in 1 .. Len(checklist) /\ checklist[j].state = "Succeeded"

(* Pairs that are added at the end are waiting.                              *)
LEMMA ListGrows ==
    ASSUME TypeOK, NEW s \in Seq(PairType), checklist' = checklist \o s,
           \A k \in 1 .. Len(s) : s[k].state = "Waiting"
    PROVE  /\ ChecklistStays /\ NothingNew
           /\ Len(checklist') = Len(checklist) + Len(s)
           /\ \A k \in 1 .. Len(s) : checklist'[Len(checklist) + k] = s[k]
<1>1. checklist \in Seq(PairType) /\ Len(checklist) \in Nat /\ Len(s) \in Nat
  BY DEF TypeOK
<1>2. /\ checklist' \in Seq(PairType) /\ Len(checklist') = Len(checklist) + Len(s)
      /\ \A j \in 1 .. Len(checklist) + Len(s) :
            checklist'[j] = IF j <= Len(checklist) THEN checklist[j] ELSE s[j - Len(checklist)]
  BY <1>1, ConcatProperties
<1>3. \A j \in 1 .. Len(checklist) : checklist'[j] = checklist[j]
  BY <1>1, <1>2
<1>4. \A k \in 1 .. Len(s) : checklist'[Len(checklist) + k] = s[k]
  BY <1>1, <1>2
<1>5. ASSUME NEW j \in 1 .. Len(checklist'), checklist'[j].state = "Succeeded"
      PROVE  j \in 1 .. Len(checklist) /\ checklist[j].state = "Succeeded"
  <2>1. CASE j <= Len(checklist)
    BY <1>1, <1>2, <1>3, <1>5, <2>1
  <2>2. CASE ~(j <= Len(checklist))
    <3>1. j - Len(checklist) \in 1 .. Len(s) /\ checklist'[j] = s[j - Len(checklist)]
      BY <1>1, <1>2, <2>2
    <3> QED
      BY <1>5, <3>1
  <2> QED
    BY <2>1, <2>2
<1> QED
  BY <1>1, <1>2, <1>3, <1>4, <1>5 DEF ChecklistStays, NothingNew

(* An unknown pair is added when a request comes in on it.                   *)
LEMMA AddPairEffect ==
    ASSUME TypeOK, NEW l \in Local, NEW src \in Remote,
           checklist' = IF FindPair(l, src) = 0 THEN Append(checklist, Waiting(l, src))
                                                ELSE checklist
    PROVE  ChecklistStays /\ NothingNew
<1>1. CASE FindPair(l, src) = 0
  <2> DEFINE w == Waiting(l, src)
  <2>1. w \in PairType /\ w.state = "Waiting"
    BY WaitingPair
  <2>2. checklist \in Seq(PairType)
    BY DEF TypeOK
  <2> HIDE DEF w
  <2>3. checklist' = checklist \o <<w>>
    BY <1>1, <2>1, <2>2, AppendIsConcat DEF w
  <2>4. <<w>> \in Seq(PairType) /\ \A k \in 1 .. Len(<<w>>) : <<w>>[k].state = "Waiting"
    BY <2>1
  <2>5. ASSUME NEW s, s = <<w>> PROVE ChecklistStays /\ NothingNew
    <3>1. s \in Seq(PairType) /\ checklist' = checklist \o s
          /\ \A k \in 1 .. Len(s) : s[k].state = "Waiting"
      BY <2>3, <2>4, <2>5
    <3> QED
      BY <3>1, ListGrows
  <2> QED
    BY <2>5
<1>2. CASE FindPair(l, src) # 0
  BY <1>2, SameList DEF NothingNew
<1> QED
  BY <1>1, <1>2

(* A request comes in, to either role: the pair is added if it is unknown,   *)
(* a request may be sent back, and the task may wait with a pair that has    *)
(* succeeded.                                                                *)
LEMMA RequestStep ==
    ASSUME IInv, NEW l \in Local, NEW src \in Remote, dial # "no",
           NEW w \in {"nominate", "select"},
           \/ /\ GoTo(l, At(w, FindPair(l, src), src)) /\ last_received' = last_received
              /\ FindPair(l, src) # 0 /\ checklist[FindPair(l, src)].state = "Succeeded"
           \/ Seen(src) /\ task' = task,
           checklist' = IF FindPair(l, src) = 0 THEN Append(checklist, Waiting(l, src))
                                                ELSE checklist,
           \/ SendBindingRequests({<<l, src>>}, FALSE)
           \/ pending_binding_requests' = pending_binding_requests,
           UNCHANGED <<is_controlling, states, cands, choice, dial, confirmed>>
    PROVE  IInv'
<1>0. TypeOK /\ TasksInOrder /\ EveryPairListed
  BY Parts
<1>a. UNCHANGED <<is_controlling, connection_state, was_checking, local_candidates,
                  remote_candidates, adding, nominated_pair, selected_pair, dial, confirmed>>
  BY DEF states, cands, choice
<1>b. ChecklistStays /\ NothingNew
  BY <1>0, AddPairEffect
<1> DEFINE i == FindPair(l, src)
<1>c. i # 0 => i \in 1 .. Len(checklist)
  BY <1>0, FindPairSpec DEF TypeOK
<1>d. i \in Nat
  BY <1>0, <1>c, ListFacts
<1>e. Handled(l, src, i)
  <2>1. \/ GoTo(l, At(w, i, src)) /\ last_received' = last_received
        \/ Seen(src) /\ task' = task
    OBVIOUS
  <2> HIDE DEF i
  <2> QED
    BY <1>0, <1>d, <2>1, HandledEffect
<1>f. Requested(FALSE)
  <2>1. CASE SendBindingRequests({<<l, src>>}, FALSE)
    <3>1. {<<l, src>>} \in SUBSET (Local \X Remote) /\ FALSE \in BOOLEAN
      OBVIOUS
    <3> QED
      BY <1>0, <2>1, <3>1, SendEffect
  <2>2. CASE pending_binding_requests' = pending_binding_requests
    BY <1>0, <2>2 DEF Requested, TypeOK
  <2> QED
    BY <2>1, <2>2
<1>g. task' = task \/ Good(i)
  <2>1. CASE i # 0 /\ checklist[i].state = "Succeeded"
    <3>1. i \in 1 .. Len(checklist) /\ Len(checklist) \in Nat /\ Len(checklist') \in Nat
      BY <1>0, <1>b, <1>c, <2>1, ListFacts DEF ChecklistStays
    <3> HIDE DEF i
    <3> QED
      BY <1>b, <2>1, <3>1 DEF ChecklistStays, Good
  <2> QED
    BY <2>1
<1> HIDE DEF i
<1>1. TypeOK'
  <2>1. checklist' \in Seq(PairType) /\ Len(checklist) <= Len(checklist')
        /\ Len(checklist) \in Nat /\ Len(checklist') \in Nat
    BY <1>0, <1>b, ListFacts DEF ChecklistStays
  <2> QED
    BY <1>0, <1>a, <1>e, <1>f, <2>1 DEF TypeOK, Handled, Requested
<1>2. TasksInOrder'
  BY <1>0, <1>a, <1>e, HandledOrder
<1>4. EveryPairListed'
  BY <1>0, <1>a, <1>b, ListedStays
<1>5. Keeps
  BY <1>a, <1>b, <1>e, <1>f, <1>g DEF Keeps, Handled, Requested, NothingNew
<1> QED
  BY <1>1, <1>2, <1>4, <1>5, KeepsEnough

(* A request to the controlling agent may nominate a pair that has           *)
(* succeeded.                                                                *)
LEMMA RequestControllingStep ==
    ASSUME IInv, NEW l \in Local, NEW src \in Remote, HandleRequestControlling(l, src)
    PROVE  IInv'
<1>1. /\ dial # "no"
      /\ \/ /\ GoTo(l, At("nominate", FindPair(l, src), src)) /\ last_received' = last_received
            /\ FindPair(l, src) # 0 /\ checklist[FindPair(l, src)].state = "Succeeded"
         \/ Seen(src) /\ task' = task
      /\ checklist' = IF FindPair(l, src) = 0 THEN Append(checklist, Waiting(l, src))
                                              ELSE checklist
      /\ pending_binding_requests' = pending_binding_requests
      /\ UNCHANGED <<is_controlling, states, cands, choice, dial, confirmed>>
  BY DEF HandleRequestControlling, Arrives, Started
<1>2. "nominate" \in {"nominate", "select"}
  OBVIOUS
<1> QED
  BY <1>1, <1>2, RequestStep

(* A request to the controlled agent may select a pair that has succeeded.   *)
LEMMA RequestControlledStep ==
    ASSUME IInv, NEW l \in Local, NEW src \in Remote, NEW use \in BOOLEAN,
           HandleRequestControlled(l, src, use)
    PROVE  IInv'
<1>1. /\ dial # "no"
      /\ \/ /\ GoTo(l, At("select", FindPair(l, src), src)) /\ last_received' = last_received
            /\ FindPair(l, src) # 0 /\ checklist[FindPair(l, src)].state = "Succeeded"
         \/ Seen(src) /\ task' = task
      /\ checklist' = IF FindPair(l, src) = 0 THEN Append(checklist, Waiting(l, src))
                                              ELSE checklist
      /\ \/ SendBindingRequests({<<l, src>>}, FALSE)
         \/ pending_binding_requests' = pending_binding_requests
      /\ UNCHANGED <<is_controlling, states, cands, choice, dial, confirmed>>
  BY DEF HandleRequestControlled, Arrives, Started, NominationTaken
<1>2. "select" \in {"nominate", "select"}
  OBVIOUS
<1> QED
  BY <1>1, <1>2, RequestStep

(* Steps that leave the pairs, the tasks and the connection alone.           *)
LEMMA QuietStep ==
    ASSUME IInv,
           UNCHANGED <<is_controlling, connection_state, was_checking, local_candidates,
                       remote_candidates, adding, checklist, nominated_pair, selected_pair,
                       task, dial, confirmed>>,
           pending_binding_requests' \subseteq pending_binding_requests,
           last_received' \in [Remote -> 0 .. 3],
           \A r \in Remote : last_received[r] # 3 => last_received'[r] # 3
    PROVE  IInv'
<1>0. TypeOK /\ TasksInOrder /\ EveryPairListed
  BY Parts
<1>1. TypeOK'
  BY <1>0 DEF TypeOK
<1>2. TasksInOrder'
  BY <1>0 DEF TasksInOrder
<1>3. ChecklistStays
  BY <1>0, SameList
<1>4. EveryPairListed'
  BY <1>0, <1>3, ListedStays
<1>5. Keeps
  BY <1>3 DEF Keeps
<1> QED
  BY <1>1, <1>2, <1>4, <1>5, KeepsEnough

(* Data marks its sender as heard.                                           *)
LEMMA DataStep ==
    ASSUME IInv, NEW l \in Local, NEW src \in Remote, HandleData(l, src)
    PROVE  IInv'
<1>0. TypeOK
  BY Parts
<1>1. /\ last_received' \in [Remote -> 0 .. 3]
      /\ \A r \in Remote : last_received[r] # 3 => last_received'[r] # 3
  BY <1>0, SeenEffect DEF HandleData
<1> QED
  BY <1>1, QuietStep DEF HandleData, states, cands, choice

(* Time passes for a candidate that was heard.                               *)
LEMMA SilenceStep ==
    ASSUME IInv, Silence
    PROVE  IInv'
<1>0. TypeOK
  BY Parts
<1> DEFINE x == checklist[selected_pair].remote
<1>1. selected_pair \in 1 .. Len(checklist)
  BY <1>0 DEF Silence, TypeOK
<1>2. x \in Remote
  BY <1>0, <1>1, ListFacts
<1>3. last_received[x] < 2 /\ last_received' = [last_received EXCEPT ![x] = last_received[x] + 1]
  BY DEF Silence, SilenceOfSelected
<1>4. last_received \in [Remote -> 0 .. 3]
  BY <1>0 DEF TypeOK
<1> HIDE DEF x
<1>5. /\ last_received' \in [Remote -> 0 .. 3]
      /\ \A r \in Remote : last_received[r] # 3 => last_received'[r] # 3
  BY <1>2, <1>3, <1>4
<1> QED
  BY <1>5, QuietStep DEF Silence, states, cands, choice

(* An expired request is forgotten.                                          *)
LEMMA ExpireStep ==
    ASSUME IInv, NEW r \in pending_binding_requests, Expire(r)
    PROVE  IInv'
<1>0. TypeOK
  BY Parts
<1>1. pending_binding_requests' \subseteq pending_binding_requests
  BY DEF Expire
<1>2. last_received' = last_received /\ last_received' \in [Remote -> 0 .. 3]
  BY <1>0 DEF Expire, TypeOK
<1> QED
  BY <1>1, <1>2, QuietStep DEF Expire, states, cands, choice

(* Nothing changes.                                                          *)
LEMMA StutterStep ==
    ASSUME IInv, UNCHANGED vars
    PROVE  IInv'
<1>0. TypeOK
  BY Parts
<1>2. last_received' = last_received /\ last_received' \in [Remote -> 0 .. 3]
  BY <1>0 DEF vars, TypeOK
<1> QED
  BY <1>2, QuietStep DEF vars, states, cands, choice

(* The pair that was read before the await is selected.                      *)
LEMMA SetSelectedPairStep ==
    ASSUME IInv, NEW l \in Local, SetSelectedPair(l)
    PROVE  IInv'
<1>0. TypeOK /\ TasksInOrder /\ EveryPairListed /\ ChosenSucceeded
  BY Parts
<1> DEFINE i == task[l].pair
           w == At("signal", 0, task[l].src)
<1>a. /\ UNCHANGED <<is_controlling, was_checking, checklist, nominated_pair,
                     pending_binding_requests, last_received, dial, confirmed>>
      /\ task[l].at = "select" /\ selected_pair' = i /\ GoTo(l, w)
      /\ UpdateConnectionState("Connected") /\ "Connected" \in ConnectionState
  BY DEF SetSelectedPair, ConnectionState
<1>b. /\ connection_state' \in ConnectionState
      /\ local_candidates' \subseteq local_candidates
      /\ remote_candidates' \subseteq remote_candidates /\ adding' = adding
  BY <1>0, <1>a, UpdateEffect
<1>c. /\ l \in Local \cup {CheckTask} /\ i \in 1 .. Len(checklist)
      /\ checklist[i].state = "Succeeded" /\ dial # "no" /\ task[l].src \in Remote
  BY <1>0, <1>a, ListFacts DEF TypeOK, ChosenSucceeded, TasksInOrder
<1>d. w \in TaskType /\ w.at = "signal" /\ w.src = task[l].src
  BY <1>c DEF At, TaskType
<1> HIDE DEF i, w
<1>e. /\ task' \in [Local \cup {CheckTask} -> TaskType]
      /\ task'[l] = w
      /\ \A u \in Local \cup {CheckTask} : u # l => task'[u] = task[u]
  BY <1>0, <1>a, <1>c, <1>d, GoToEffect
<1>f. CheckTask \notin Local
  BY IceAssumption DEF IceAssumption
<1>1. TypeOK'
  BY <1>0, <1>a, <1>b, <1>c, <1>e DEF TypeOK
<1>2. TasksInOrder'
  BY <1>0, <1>a, <1>c, <1>d, <1>e, <1>f, SMTT(30) DEF TasksInOrder, TypeOK
<1>3. ChecklistStays
  BY <1>0, <1>a, SameList
<1>4. EveryPairListed'
  BY <1>0, <1>3, <1>b, ListedStays
<1>5. Keeps
  BY <1>a, <1>c, <1>d, <1>e, <1>3 DEF Keeps, Good
<1> QED
  BY <1>1, <1>2, <1>4, <1>5, KeepsEnough

(* on_connected is signalled after the selection, which stays.               *)
LEMMA SignalConnectedStep ==
    ASSUME IInv, NEW l \in Local, SignalConnected(l)
    PROVE  IInv'
<1>0. TypeOK /\ TasksInOrder /\ EveryPairListed
  BY Parts
<1>a. /\ UNCHANGED <<is_controlling, connection_state, was_checking, local_candidates,
                     remote_candidates, adding, checklist, nominated_pair, selected_pair,
                     pending_binding_requests, confirmed>>
      /\ task[l].at = "signal" /\ dial' = "connected" /\ Seen(task[l].src) /\ GoTo(l, Idle)
  BY DEF SignalConnected, states, cands, choice
<1>b. l \in Local \cup {CheckTask} /\ task[l].src \in Remote /\ selected_pair # 0
  BY <1>0, <1>a DEF TasksInOrder
<1>c. /\ last_received' \in [Remote -> 0 .. 3]
      /\ \A r \in Remote : last_received[r] # 3 => last_received'[r] # 3
  BY <1>0, <1>a, <1>b, SeenEffect
<1>d. /\ task' \in [Local \cup {CheckTask} -> TaskType]
      /\ task'[l].at = "idle"
      /\ \A u \in Local \cup {CheckTask} : u # l => task'[u] = task[u]
  BY <1>0, <1>a, <1>b, GoToEffect, IdleTask
<1>e. CheckTask \notin Local
  BY IceAssumption DEF IceAssumption
<1>1. TypeOK'
  BY <1>0, <1>a, <1>c, <1>d DEF TypeOK
<1>2. TasksInOrder'
  BY <1>0, <1>a, <1>b, <1>d, <1>e DEF TasksInOrder, TypeOK
<1>3. ChecklistStays
  BY <1>0, <1>a, SameList
<1>4. EveryPairListed'
  BY <1>0, <1>a, <1>3, ListedStays
<1>5. Keeps
  BY <1>a, <1>c, <1>d, <1>3 DEF Keeps
<1> QED
  BY <1>1, <1>2, <1>4, <1>5, KeepsEnough

(* The pairs of a candidate: whoever comes last finds the other one.         *)
LEMMA PairCandidateStep ==
    ASSUME IInv, NEW x \in Local \cup Remote, PairCandidate(x)
    PROVE  IInv'
<1>0. TypeOK /\ TasksInOrder /\ EveryPairListed
  BY Parts
<1> DEFINE new(y) == IF x \in Local THEN Waiting(x, y) ELSE Waiting(y, x)
           f == [y \in Partners(x) |-> new(y)]
           S == {new(y) : y \in Partners(x)}
           s == SetToSeq(S)
<1>a. /\ UNCHANGED <<is_controlling, connection_state, was_checking, local_candidates,
                     remote_candidates, nominated_pair, selected_pair,
                     pending_binding_requests, last_received, task, dial, confirmed>>
      /\ adding' = [adding EXCEPT ![x] = "done"] /\ checklist' = checklist \o s
  BY DEF PairCandidate, states, choice
<1>b. /\ IsFiniteSet(Local) /\ IsFiniteSet(Remote) /\ Local \cap Remote = {}
      /\ local_candidates \in SUBSET Local /\ remote_candidates \in SUBSET Remote
  BY <1>0, IceAssumption DEF IceAssumption, TypeOK
<1>c. IsFiniteSet(Partners(x))
  BY <1>b, FS_Subset DEF Partners
<1>d. f \in Surjection(Partners(x), S)
  BY DEF Surjection
<1>e. IsFiniteSet(S)
  <2> HIDE DEF f, S
  <2> QED
    BY <1>c, <1>d, FS_Surjection
<1>f. \A y \in Partners(x) :
         /\ new(y) \in PairType /\ new(y).state = "Waiting"
         /\ x \in Local => y \in Remote /\ new(y).local = x /\ new(y).remote = y
         /\ x \notin Local => y \in Local /\ new(y).local = y /\ new(y).remote = x
  <2>1. CASE x \in Local
    BY <1>0, <1>b, <2>1, WaitingPair DEF Partners
  <2>2. CASE x \notin Local
    BY <1>0, <1>b, <2>2, WaitingPair DEF Partners
  <2> QED
    BY <2>1, <2>2
<1>g. S \subseteq PairType /\ \A z \in S : z.state = "Waiting"
  BY <1>f
<1>h. s \in Seq(S) /\ \A z \in S : \E k \in 1 .. Len(s) : s[k] = z
  <2> HIDE DEF S
  <2> QED
    BY <1>e, SetToSeqLists
<1>i. \A y \in Partners(x) : \E k \in 1 .. Len(s) : s[k] = new(y)
  <2>1. \A y \in Partners(x) : new(y) \in S
    OBVIOUS
  <2> HIDE DEF S, s, new
  <2> QED
    BY <1>h, <2>1
<1> HIDE DEF s, S, new
<1>j. s \in Seq(PairType) /\ \A k \in 1 .. Len(s) : s[k].state = "Waiting"
  <2>1. \A k \in 1 .. Len(s) : s[k] \in S
    BY <1>h
  <2> QED
    BY <1>g, <1>h, <2>1, SeqMonotonic
<1>k. /\ ChecklistStays /\ NothingNew
      /\ Len(checklist') = Len(checklist) + Len(s)
      /\ \A k \in 1 .. Len(s) : checklist'[Len(checklist) + k] = s[k]
  BY <1>0, <1>a, <1>j, ListGrows
<1>l. /\ Len(checklist) \in Nat /\ Len(s) \in Nat
      /\ checklist \in Seq(PairType) /\ checklist' \in Seq(PairType)
  BY <1>0, <1>j, <1>k DEF TypeOK, ChecklistStays
<1>1. TypeOK'
  <2>1. Len(checklist) <= Len(checklist') /\ Len(checklist') \in Nat
    BY <1>k, <1>l
  <2> QED
    BY <1>0, <1>a, <1>l, <2>1 DEF TypeOK
<1>2. TasksInOrder'
  BY <1>0, <1>a DEF TasksInOrder
<1>4. EveryPairListed'
  <2>1. Listed(checklist, local_candidates, remote_candidates, adding)
    BY <1>0, <1>l, ListedDef
  <2>2. ASSUME NEW l \in local_candidates, NEW r \in remote_candidates,
               adding'[l] = "done", adding'[r] = "done"
        PROVE  \E i \in 1 .. Len(checklist') : checklist'[i].local = l /\ checklist'[i].remote = r
    <3>0. l \in Local /\ r \in Remote /\ l # r
      BY <1>b
    <3>1. CASE l = x \/ r = x
      <4>1. PICK y \in Partners(x) : new(y).local = l /\ new(y).remote = r
        <5>1. CASE l = x
          BY <1>f, <3>0, <5>1 DEF Partners
        <5>2. CASE r = x
          BY <1>b, <1>f, <3>0, <5>2 DEF Partners
        <5> QED
          BY <3>1, <5>1, <5>2
      <4>2. PICK k \in 1 .. Len(s) : s[k] = new(y)
        BY <1>i
      <4>3. Len(checklist) + k \in 1 .. Len(checklist') /\ checklist'[Len(checklist) + k] = new(y)
        BY <1>k, <1>l, <4>2
      <4> QED
        BY <4>1, <4>3
    <3>2. CASE l # x /\ r # x
      <4>1. adding[l] = "done" /\ adding[r] = "done"
        BY <1>0, <1>a, <2>2, <3>0, <3>2 DEF TypeOK
      <4>2. PICK i \in 1 .. Len(checklist) : checklist[i].local = l /\ checklist[i].remote = r
        BY <2>1, <4>1 DEF Listed
      <4> QED
        BY <1>k, <1>l, <4>2 DEF ChecklistStays
    <3> QED
      BY <3>1, <3>2
  <2>3. Listed(checklist', local_candidates', remote_candidates', adding')
    BY <1>a, <2>2 DEF Listed
  <2> QED
    BY <1>l, <2>3, ListedDefNext
<1>5. Keeps
  BY <1>a, <1>k DEF Keeps, NothingNew
<1> QED
  BY <1>1, <1>2, <1>4, <1>5, KeepsEnough

-----------------------------------------------------------------------------
(* A new agent has no pair, no request and no task under way.                *)
LEMMA InitHolds ==
    ASSUME Init
    PROVE  IInv
<1> USE IceAssumption DEF IceAssumption, Init
<1>1. checklist \in Seq(PairType) /\ Len(checklist) = 0 /\ DOMAIN checklist = 1 .. 0
  OBVIOUS
<1>2. TypeOK
  <2>1. task \in [Local \cup {CheckTask} -> TaskType]
    BY IdleTask
  <2>2. adding \in [Local \cup Remote -> {"todo", "inserted", "done"}]
        /\ last_received \in [Remote -> 0 .. 3]
    OBVIOUS
  <2>3. nominated_pair \in 0 .. Len(checklist) /\ selected_pair \in 0 .. Len(checklist)
    BY <1>1
  <2> QED
    BY <1>1, <2>1, <2>2, <2>3 DEF TypeOK, ConnectionState
<1>3. TasksInOrder /\ ChosenSucceeded /\ SelectedWasHeard /\ SelectedIsConfirmed
  BY IdleTask DEF TasksInOrder, ChosenSucceeded, SelectedWasHeard, SelectedIsConfirmed
<1>4. PairsIn({"Succeeded"}) = {}
  BY <1>1 DEF PairsIn
<1>5. SucceededWasHeard /\ SucceededIsConfirmed
  BY <1>4 DEF SucceededWasHeard, SucceededIsConfirmed
<1>6. EveryPairListed
  BY DEF EveryPairListed
<1> QED
  BY <1>2, <1>3, <1>5, <1>6 DEF IInv, AgentInv

(* Every step keeps the invariant, by the lemmas of its actions.             *)
LEMMA NextStep ==
    ASSUME IInv, [Next]_vars
    PROVE  IInv'
<1>1. ASSUME Contact PROVE IInv'
  BY <1>1, ContactTimedOutStep, ValidateSelectedPairStep, CheckKeepaliveStep,
     PingAllCandidatesStep, FindNominatableStep, NominateAgainStep DEF Contact
<1>2. ASSUME NEW l \in Local, NEW src \in Remote, HandleInbound(l, src) PROVE IInv'
  BY <1>2, SuccessResponseStep, RequestControllingStep, RequestControlledStep, DataStep
     DEF HandleInbound
<1> QED
  BY <1>1, <1>2, DialStep, AddCandidateStep, PairCandidateStep, NominatePairStep,
     SetSelectedPairStep, SignalConnectedStep, SilenceStep, ExpireStep, StutterStep DEF Next

(* The invariant holds in every reachable state.                             *)
LEMMA Inductive == Spec => []IInv
<1>1. Init => IInv
  BY InitHolds
<1>2. IInv /\ [Next]_vars => IInv'
  BY NextStep
<1> QED
  BY <1>1, <1>2, PTL DEF Spec

(* However the tasks interleave, what one of them stores after an await is   *)
(* still so, and a selected remote candidate has been heard, so that the     *)
(* next contact does not fail the agent (nominate_pair, set_selected_pair,   *)
(* validate_selected_pair).                                                  *)
THEOREM AgentSafe == Spec => []AgentInv
<1>1. IInv => AgentInv
  BY DEF IInv
<1> QED
  BY <1>1, Inductive, PTL

(* add_candidate and add_remote_candidate, which insert and then read the    *)
(* other side without a common lock, miss no pair.                           *)
THEOREM NoPairMissed == Spec => []EveryPairListed
<1>1. IInv => EveryPairListed
  BY DEF IInv
<1> QED
  BY <1>1, Inductive, PTL

(* In either role only a pair is selected whose remote candidate answered a  *)
(* request sent to it, at the pair's local candidate, whichever one sent it  *)
(* (handle_success_response, handle_binding_request).                        *)
THEOREM SelectionConfirmed == Spec => []SelectedIsConfirmed
<1>1. IInv => SelectedIsConfirmed
  BY DEF IInv
<1> QED
  BY <1>1, Inductive, PTL

(* After dial or accept has returned AgentConn::send uses a confirmed pair.  *)
THEOREM DataOnConfirmedPair == Spec => []DialedSendsOnConfirmed
<1>1. IInv => DialedSendsOnConfirmed
  BY DEF IInv, AgentInv, TasksInOrder, SelectedIsConfirmed, DialedSendsOnConfirmed, SendPair
<1> QED
  BY <1>1, Inductive, PTL

(* An agent that failed after it had been connected stays failed:            *)
(* contact_candidates does nothing in Failed, and handle_success_response    *)
(* and handle_binding_request begin no selection while a pair is selected.   *)
THEOREM FailureIsFinal == Spec => LostForGood
<1>1. IInv /\ [Next]_vars => [Lost => Lost']_vars
  <2> SUFFICES ASSUME IInv, [Next]_vars, Lost PROVE Lost'
    OBVIOUS
  <2>0. /\ TypeOK /\ TasksInOrder /\ DOMAIN task = Local \cup {CheckTask} /\ CheckTask \notin Local
        /\ connection_state = "Failed" /\ selected_pair # 0 /\ dial # "no"
        /\ \A l \in Local : task[l].at # "select"
    BY Parts, IceAssumption DEF Lost, TypeOK, TasksInOrder
  <2>1. CASE UNCHANGED <<connection_state, selected_pair, task>>
    BY <2>1 DEF Lost
  <2>2. ASSUME UNCHANGED <<connection_state, selected_pair>>, NEW t \in Local \cup {CheckTask},
               NEW x, GoTo(t, x), t \in Local => x.at # "select"
        PROVE  Lost'
    BY <2>0, <2>2 DEF Lost, GoTo, TypeOK
  <2>3. Idle.at # "select" /\ \A i, src : At("nominate", i, src).at # "select"
    BY DEF Idle, At
  <2>4. ~Dial
    BY <2>0 DEF Dial
  <2>5. CASE Contact
    <3>1. ~ContactTimedOut /\ ~ValidateSelectedPair /\ ~FindNominatable /\ ~NominateAgain
          /\ ~PingAllCandidates
      BY <2>0 DEF ContactTimedOut, ValidateSelectedPair, FindNominatable, NominateAgain,
         PingAllCandidates, ContactingCandidates
    <3>2. GoTo(CheckTask, Idle) /\ UNCHANGED <<connection_state, selected_pair>>
      BY <2>5, <3>1 DEF Contact, CheckKeepalive, choice
    <3> QED
      BY <2>0, <2>2, <2>3, <3>2
  <2>6. CASE \E x \in Local \cup Remote : AddCandidate(x) \/ PairCandidate(x)
    BY <2>1, <2>6 DEF AddCandidate, PairCandidate, states, choice
  <2>7. ASSUME NEW l \in Local, NEW src \in Remote, HandleInbound(l, src) PROVE Lost'
    <3>1. CASE \E r \in pending_binding_requests : HandleSuccessResponse(l, src, r)
      BY <2>0, <2>1, <3>1 DEF HandleSuccessResponse, states, choice
    <3>2. CASE HandleRequestControlling(l, src)
      BY <2>0, <2>1, <3>2 DEF HandleRequestControlling, states, choice
    <3>3. CASE \E use \in BOOLEAN : HandleRequestControlled(l, src, use)
      BY <2>0, <2>1, <3>3 DEF HandleRequestControlled, states, choice
    <3>4. CASE HandleData(l, src)
      BY <2>1, <3>4 DEF HandleData, states, choice
    <3> QED
      BY <2>7, <3>1, <3>2, <3>3, <3>4 DEF HandleInbound
  <2>8. ASSUME NEW t \in DOMAIN task, NominatePair(t) PROVE Lost'
    <3>1. GoTo(t, Idle) /\ UNCHANGED <<connection_state, selected_pair>>
      BY <2>8 DEF NominatePair
    <3> QED
      BY <2>0, <2>2, <2>3, <3>1
  <2>9. ASSUME NEW l \in Local, SetSelectedPair(l) \/ SignalConnected(l) PROVE Lost'
    <3>1. GoTo(l, Idle) /\ UNCHANGED <<connection_state, selected_pair>>
      BY <2>0, <2>9 DEF SetSelectedPair, SignalConnected, states, choice
    <3> QED
      BY <2>2, <2>3, <3>1
  <2>10. CASE Silence \/ (\E r \in pending_binding_requests : Expire(r)) \/ UNCHANGED vars
    BY <2>1, <2>10 DEF Silence, Expire, vars, states, choice
  <2> QED
    BY <2>4, <2>5, <2>6, <2>7, <2>8, <2>9, <2>10 DEF Next
<1> QED
  BY <1>1, Inductive, PTL DEF Spec, LostForGood
=============================================================================
