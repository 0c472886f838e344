------------------------------ MODULE NodeProofs ------------------------------
(***************************************************************************)
(* Proofs about Nodes: their registration (NodeRegistry) and their audits  *)
(* and rewards (NodeRewards), for any Nodes, URIs, IPs, requests,          *)
(* instances, rounds, minutes and faults.                                  *)
(*                                                                         *)
(* Of the registry, that Nodes share a URI or a source IP only by overlap  *)
(* and that responses tell what is stored: what a handler has checked may  *)
(* stop to hold while it waits; the invariant says that then a write must  *)
(* have come after the check.  Of the rewards, that the poll misses no     *)
(* balance check but one that was written late, and that rewards, payments *)
(* and resets are accounted for.                                           *)
(***************************************************************************)
EXTENDS NodeRegistry, NodeRewards, SequenceTheorems, FiniteSetTheorems, TLAPS

-----------------------------------------------------------------------------
(* The registry.                                                           *)

(* No row and no handler knows of a write that is still to come. *)
Counted ==
    /\ \A n \in TntAddr : /\ inserted[n] <= writes /\ ipChecked[n] <= writes
                       /\ uriWritten[n] <= writes /\ uriChecked[n] <= writes
    /\ \A r \in Request : request[r].checked <= writes /\ request[r].ipChecked <= writes

(* A row with the URI of a handler that has looked it up was written since *)
(* then, unless it is the handler's own.                                   *)
UriChecks ==
    \A r \in Request : \A n \in TntAddr :
        /\ request[r].at \in {"ip", "balance", "write"}
        /\ n # request[r].tntAddr /\ HasUri(n, request[r].publicUri)
        => uriWritten[n] > request[r].checked

(* And so was a row with its source IP. *)
IpChecks ==
    \A r \in Request : \A n \in registered \intersect recent :
        /\ request[r].method = "POST" /\ request[r].at \in {"balance", "write"}
        /\ createdFromIp[n] = request[r].sourceIp /\ createdFromIp[n] # NoIp
        => inserted[n] > request[r].ipChecked

(* The row that a PUT has found is there, and is as it was found unless it *)
(* was written since then.                                                 *)
RowsFound ==
    \A r \in Request :
        request[r].method = "PUT" /\ request[r].at \in {"ip", "balance", "write"} =>
            /\ request[r].tntAddr \in registered
            /\ \/ publicUri[request[r].tntAddr] = request[r].found
               \/ uriWritten[request[r].tntAddr] > request[r].checked

RegistryInv ==
    RegistryTypeOK /\ Counted /\ UriChecks /\ IpChecks /\ RowsFound /\ SharedOnlyByOverlap

-----------------------------------------------------------------------------

(* The table is empty and no handler has checked anything. *)
LEMMA RegistryInitInv == RegistryInit => RegistryInv
BY NoUriAssumption, NoIpAssumption
   DEF RegistryInit, RegistryInv, RegistryTypeOK, Counted, UriChecks, IpChecks, RowsFound,
       SharedOnlyByOverlap, RequestState, Uris, Ips

(* A handler that moves on without looking at the table or writing it. *)
LEMMA QuietStep ==
    ASSUME RegistryInv, NEW r \in Request, Receive(r) \/ Refuse(r)
    PROVE  RegistryInv'
<1> USE DEF RegistryInv, Receive, Refuse, Go, table, history
<1>1. RegistryTypeOK'
  BY DEF RegistryTypeOK, RequestState
<1>2. Counted'
  BY DEF RegistryTypeOK, RequestState, Counted
<1>3. UriChecks'
  BY DEF RegistryTypeOK, RequestState, UriChecks, HasUri
<1>4. IpChecks'
  BY DEF RegistryTypeOK, RequestState, IpChecks
<1>5. RowsFound'
  BY DEF RegistryTypeOK, RequestState, RowsFound
<1>6. SharedOnlyByOverlap'
  BY DEF SharedOnlyByOverlap, Concurrent
<1> QED
  BY <1>1, <1>2, <1>3, <1>4, <1>5, <1>6

(* The lookup of a POST finds no row with its URI. *)
LEMMA FindConflictStep ==
    ASSUME RegistryInv, NEW r \in Request, FindConflict(r)
    PROVE  RegistryInv'
<1> USE DEF RegistryInv, FindConflict, At, table, history
<1>1. RegistryTypeOK'
  <2> DEFINE h == [request[r] EXCEPT !.at = IF Matches(request[r]) = {} THEN "ip" ELSE "refused",
                                  !.checked = writes]
  <2>1. h \in RequestState
    BY DEF RegistryTypeOK, RequestState
  <2>2. request' = [request EXCEPT ![r] = h]
    BY DEF RegistryTypeOK, RequestState
  <2>3. request' \in [Request -> RequestState]
    BY <2>1, <2>2 DEF RegistryTypeOK
  <2> QED
    BY <2>3 DEF RegistryTypeOK
<1>2. Counted'
  BY DEF RegistryTypeOK, RequestState, Counted
<1>3. UriChecks'
  BY DEF RegistryTypeOK, RequestState, UriChecks, HasUri, Matches
<1>4. IpChecks'
  BY DEF RegistryTypeOK, RequestState, IpChecks
<1>5. RowsFound'
  BY DEF RegistryTypeOK, RequestState, RowsFound
<1>6. SharedOnlyByOverlap'
  BY DEF SharedOnlyByOverlap, Concurrent
<1> QED
  BY <1>1, <1>2, <1>3, <1>4, <1>5, <1>6

(* The count finds no recent row with the source IP. *)
LEMMA CountFromIpStep ==
    ASSUME RegistryInv, NEW r \in Request, CountFromIp(r)
    PROVE  RegistryInv'
<1> USE DEF RegistryInv, CountFromIp, At, table, history
<1>1. RegistryTypeOK'
  <2> PICK place \in {"refused", "balance"} :
             request' = [request EXCEPT ![r].at = place, ![r].ipChecked = writes]
    OBVIOUS
  <2> DEFINE h == [request[r] EXCEPT !.at = place, !.ipChecked = writes]
  <2> HIDE DEF CountFromIp
  <2>1. h \in RequestState
    BY DEF RegistryTypeOK, RequestState
  <2>2. request' = [request EXCEPT ![r] = h]
    BY DEF RegistryTypeOK, RequestState
  <2>3. request' \in [Request -> RequestState]
    BY <2>1, <2>2 DEF RegistryTypeOK
  <2> QED
    BY <2>3 DEF RegistryTypeOK, CountFromIp
<1>2. Counted'
  BY DEF RegistryTypeOK, RequestState, Counted
<1>3. UriChecks'
  BY DEF RegistryTypeOK, RequestState, UriChecks, HasUri
<1>4. IpChecks'
  BY DEF RegistryTypeOK, RequestState, IpChecks
<1>5. RowsFound'
  BY DEF RegistryTypeOK, RequestState, RowsFound
<1>6. SharedOnlyByOverlap'
  BY DEF SharedOnlyByOverlap, Concurrent
<1> QED
  BY <1>1, <1>2, <1>3, <1>4, <1>5, <1>6

(* The lookup of a PUT finds its own row and no other with its URI. *)
LEMMA FindNodeStep ==
    ASSUME RegistryInv, NEW r \in Request, FindNode(r)
    PROVE  RegistryInv'
<1> USE DEF RegistryInv, FindNode, At, table, history
<1>1. RegistryTypeOK'
  <2> DEFINE h == [request[r] EXCEPT !.at = IF OnlyOwnRow(request[r]) THEN "balance" ELSE "refused",
                                  !.found = publicUri[request[r].tntAddr],
                                  !.checked = writes]
  <2>1. h \in RequestState
    BY DEF RegistryTypeOK, RequestState
  <2>2. request' = [request EXCEPT ![r] = h]
    BY DEF RegistryTypeOK, RequestState
  <2>3. request' \in [Request -> RequestState]
    BY <2>1, <2>2 DEF RegistryTypeOK
  <2> QED
    BY <2>3 DEF RegistryTypeOK
<1>2. Counted'
  BY DEF RegistryTypeOK, RequestState, Counted
<1>3. UriChecks'
  <2> SUFFICES ASSUME NEW s \in Request, NEW n \in TntAddr,
                      request'[s].at \in {"ip", "balance", "write"},
                      n # request'[s].tntAddr, HasUri(n, request'[s].publicUri)
               PROVE  uriWritten[n] > request'[s].checked
    BY DEF UriChecks, HasUri
  <2>1. CASE s # r
    BY <2>1 DEF RegistryTypeOK, UriChecks
  <2>2. CASE s = r
    <3>1. request'[r].tntAddr = request[r].tntAddr /\ request'[r].publicUri = request[r].publicUri
      BY DEF RegistryTypeOK, RequestState
    <3>2. OnlyOwnRow(request[r])
      BY <2>2 DEF RegistryTypeOK, RequestState
    <3> QED
      BY <2>2, <3>1, <3>2 DEF OnlyOwnRow, Matches, HasUri
  <2> QED
    BY <2>1, <2>2
<1>4. IpChecks'
  BY DEF RegistryTypeOK, RequestState, IpChecks
<1>5. RowsFound'
  BY DEF RegistryTypeOK, RequestState, RowsFound, Matches, OnlyOwnRow
<1>6. SharedOnlyByOverlap'
  BY DEF SharedOnlyByOverlap, Concurrent
<1> QED
  BY <1>1, <1>2, <1>3, <1>4, <1>5, <1>6

(* The balance is good, and its key written. *)
LEMMA CheckBalanceStep ==
    ASSUME RegistryInv, NEW r \in Request, CheckBalance(r)
    PROVE  RegistryInv'
<1>0. PICK place \in {"write", "refused"} : Go(r, place)
  BY DEF CheckBalance
<1>a. /\ request[r].at = "balance" /\ UNCHANGED <<table, history>>
      /\ balanceCheckKeys' = balanceCheckKeys \union {request[r].tntAddr}
  BY DEF CheckBalance
<1> USE <1>0, <1>a DEF RegistryInv, Go, table, history
<1> HIDE DEF CheckBalance
<1>1. RegistryTypeOK'
  BY DEF RegistryTypeOK, RequestState
<1>2. Counted'
  BY DEF RegistryTypeOK, RequestState, Counted
<1>3. UriChecks'
  BY DEF RegistryTypeOK, RequestState, UriChecks, HasUri
<1>4. IpChecks'
  BY DEF RegistryTypeOK, RequestState, IpChecks
<1>5. RowsFound'
  BY DEF RegistryTypeOK, RequestState, RowsFound
<1>6. SharedOnlyByOverlap'
  BY DEF SharedOnlyByOverlap, Concurrent
<1> QED
  BY <1>1, <1>2, <1>3, <1>4, <1>5, <1>6

(* A new row is the latest write, and what has its URI or its source IP    *)
(* was written after the check of it.                                      *)
LEMMA CreateNodeStep ==
    ASSUME RegistryInv, NEW r \in Request, CreateNode(r)
    PROVE  RegistryInv'
<1> DEFINE q == request[r]
<1> USE DEF RegistryInv, CreateNode, At, Go, WriteUri
<1>1. q \in RequestState /\ q.at = "write" /\ q.method = "POST"
  BY DEF RegistryTypeOK
<1>2. RegistryTypeOK'
  BY <1>1 DEF RegistryTypeOK, RequestState
<1>3. Counted'
  BY <1>1 DEF RegistryTypeOK, RequestState, Counted
<1>4. UriChecks'
  BY <1>1 DEF RegistryTypeOK, RequestState, Counted, UriChecks, HasUri
<1>5. IpChecks'
  BY <1>1 DEF RegistryTypeOK, RequestState, Counted, IpChecks
<1>6. RowsFound'
  BY <1>1 DEF RegistryTypeOK, RequestState, RowsFound
<1>7. SharedOnlyByOverlap'
  BY <1>1 DEF RegistryTypeOK, RequestState, Counted, UriChecks, IpChecks, HasUri,
              SharedOnlyByOverlap, Concurrent
<1> QED
  BY <1>2, <1>3, <1>4, <1>5, <1>6, <1>7

(* So is a row whose URI is changed; one that is not is left alone. *)
LEMMA SaveNodeStep ==
    ASSUME RegistryInv, NEW r \in Request, SaveNode(r)
    PROVE  RegistryInv'
<1> DEFINE q == request[r]
<1> USE DEF RegistryInv, SaveNode, At, Go, WriteUri, UriChanged
<1>1. /\ q \in RequestState /\ q.at = "write" /\ q.method = "PUT"
      /\ q.tntAddr \in registered
  BY DEF RegistryTypeOK, RowsFound
<1>2. RegistryTypeOK'
  BY <1>1 DEF RegistryTypeOK, RequestState
<1>3. Counted'
  BY <1>1 DEF RegistryTypeOK, RequestState, Counted
<1>4. UriChecks'
  <2> SUFFICES ASSUME NEW s \in Request, NEW n \in TntAddr,
                      request'[s].at \in {"ip", "balance", "write"},
                      n # request'[s].tntAddr, HasUri(n, request[s].publicUri)'
               PROVE  uriWritten'[n] > request'[s].checked
    BY DEF UriChecks
  <2>1. s # r /\ request'[s] = request[s]
    BY DEF RegistryTypeOK, RequestState
  <2>2. CASE n = q.tntAddr /\ UriChanged(q)
    BY <1>1, <2>1, <2>2 DEF RegistryTypeOK, RequestState, Counted
  <2>3. CASE n # q.tntAddr \/ ~UriChanged(q)
    <3>1. uriWritten'[n] = uriWritten[n] /\ publicUri'[n] = publicUri[n]
      BY <1>1, <2>3 DEF RegistryTypeOK, RequestState
    <3> QED
      BY <2>1, <3>1 DEF UriChecks, HasUri
  <2> QED
    BY <2>2, <2>3
<1>5. IpChecks'
  BY <1>1 DEF RegistryTypeOK, RequestState, IpChecks
<1>6. RowsFound'
  BY <1>1 DEF RegistryTypeOK, RequestState, Counted, RowsFound
<1>7. SharedOnlyByOverlap'
  BY <1>1 DEF RegistryTypeOK, RequestState, Counted, UriChecks, HasUri, SharedOnlyByOverlap,
              Concurrent
<1> QED
  BY <1>2, <1>3, <1>4, <1>5, <1>6, <1>7

(* Every step keeps the invariant. *)
LEMMA RegistryStepInv == RegistryInv /\ [RegistryNext]_registryVars => RegistryInv'
<1> SUFFICES ASSUME RegistryInv, [RegistryNext]_registryVars
             PROVE  RegistryInv'
  OBVIOUS
<1>1. ASSUME NEW r \in Request, Step(r)
      PROVE  RegistryInv'
  BY <1>1, QuietStep, FindConflictStep, CountFromIpStep, FindNodeStep, CheckBalanceStep,
     CreateNodeStep, SaveNodeStep DEF Step
<1>2. ASSUME NEW n \in TntAddr, ThirtyDaysPass(n)
      PROVE  RegistryInv'
  BY <1>2 DEF ThirtyDaysPass, RegistryInv, history, RegistryTypeOK, Counted, UriChecks, HasUri,
              IpChecks, RowsFound, SharedOnlyByOverlap, Concurrent
<1>3. ASSUME NEW n \in TntAddr, BalanceKeyExpires(n)
      PROVE  RegistryInv'
  BY <1>3 DEF BalanceKeyExpires, RegistryInv, table, history, RegistryTypeOK, Counted, UriChecks,
              HasUri, IpChecks, RowsFound, SharedOnlyByOverlap, Concurrent
<1>4. CASE UNCHANGED registryVars
  BY <1>4 DEF registryVars, table, history, RegistryInv, RegistryTypeOK, Counted, UriChecks,
              HasUri, IpChecks, RowsFound, SharedOnlyByOverlap, Concurrent
<1> QED
  BY <1>1, <1>2, <1>3, <1>4 DEF RegistryNext

(* The invariant holds in every reachable state. *)
THEOREM RegistryInvariance == RegistrySpec => []RegistryInv
BY RegistryInitInv, RegistryStepInv, PTL DEF RegistrySpec

(* The variables have their types, and a Node with a URI is registered.    *)
THEOREM RegistryTypeCorrect == RegistrySpec => []RegistryTypeOK
BY RegistryInvariance, PTL DEF RegistryInv

(* Two Nodes share a URI or a recent source IP only if their requests      *)
(* overlapped.                                                             *)
THEOREM OnlyOverlapShares == RegistrySpec => []SharedOnlyByOverlap
BY RegistryInvariance, PTL DEF RegistryInv

(* Only a write answers, and it has stored what it answers, or found it    *)
(* stored.                                                                 *)
LEMMA StepAnswers ==
    ASSUME RegistryInv, [RegistryNext]_registryVars, NEW r \in Request,
           request[r].at # "answered", request'[r].at = "answered"
    PROVE  AnswerIsStored(request[r])
<1>1. CASE UNCHANGED registryVars
  BY <1>1 DEF registryVars
<1>2. ASSUME NEW n \in TntAddr, ThirtyDaysPass(n) \/ BalanceKeyExpires(n)
      PROVE  FALSE
  BY <1>2 DEF ThirtyDaysPass, BalanceKeyExpires
<1>3. ASSUME NEW s \in Request, Step(s)
      PROVE  AnswerIsStored(request[r])
  <2>1. CreateNode(s) \/ SaveNode(s)
    BY <1>3 DEF Step, Receive, Refuse, FindConflict, CountFromIp, FindNode, CheckBalance, Go,
                RegistryInv, RegistryTypeOK, RequestState
  <2>2. s = r
    BY <2>1 DEF CreateNode, SaveNode, Go, RegistryInv, RegistryTypeOK
  <2>3. CASE CreateNode(r)
    BY <2>3 DEF CreateNode, WriteUri, AnswerIsStored, RegistryInv, RegistryTypeOK, RequestState
  <2>4. CASE SaveNode(r)
    BY <2>4 DEF SaveNode, At, WriteUri, UriChanged, AnswerIsStored, RegistryInv, RegistryTypeOK,
                RequestState, RowsFound
  <2> QED
    BY <2>1, <2>2, <2>3, <2>4
<1> QED
  BY <1>1, <1>2, <1>3 DEF RegistryNext

(* No response tells of a URI that was not stored. *)
THEOREM AnswersTrue == RegistrySpec => AnswersAreStored
<1>1. RegistryInv /\ [RegistryNext]_registryVars =>
        [\A r \in Request :
            request[r].at # "answered" /\ request'[r].at = "answered"
                => AnswerIsStored(request[r])]_registryVars
  BY StepAnswers
<1> QED
  BY <1>1, RegistryInvariance, PTL DEF RegistrySpec, AnswersAreStored

-----------------------------------------------------------------------------
(* Audits and rewards.                                                     *)

(* A sequence is a function on the numbers up to its length. *)
LEMMA MapSeq ==
    ASSUME NEW S, NEW T, NEW s \in Seq(S), NEW f \in [DOMAIN s -> T]
    PROVE  f \in Seq(T) /\ Len(f) = Len(s)
<1>1. Len(s) \in Nat /\ DOMAIN s = 1..Len(s)
  BY LenProperties
<1>2. f \in [1..Len(s) -> T]
  BY <1>1
<1>3. f \in Seq(T)
  BY <1>1, <1>2, SeqDef
<1>4. DOMAIN f = 1..Len(f) /\ Len(f) \in Nat
  BY <1>3, LenProperties
<1> QED
  BY <1>1, <1>2, <1>3, <1>4

(* The update of an element. *)
LEMMA ExceptKeepsSeq ==
    ASSUME NEW S, NEW s \in Seq(S), NEW m \in DOMAIN s, NEW e \in S
    PROVE  [s EXCEPT ![m] = e] \in Seq(S) /\ Len([s EXCEPT ![m] = e]) = Len(s)
BY LenProperties, ExceptSeq

(* A history counts one more, or two. *)
LEMMA CountUp ==
    ASSUME NEW s \in Seq(Nat), NEW m \in DOMAIN s, NEW k \in Nat
    PROVE  [s EXCEPT ![m] = @ + k] \in Seq(Nat) /\ Len([s EXCEPT ![m] = @ + k]) = Len(s)
<1>1. s[m] + k \in Nat
  BY LenProperties, ElementOfSeq
<1> QED
  BY <1>1, ExceptKeepsSeq

(* A score stays a natural number. *)
LEMMA ScoreType ==
    ASSUME NEW score \in Nat, NEW addend \in Int
    PROVE  AddToScore(score, addend) \in Nat
BY DEF AddToScore

(* Faults stay within their bound. *)
LEMMA FaultType ==
    ASSUME faults \in 0..MaxFaults, Fault \/ NoFault
    PROVE  faults' \in 0..MaxFaults
BY BoundsAssumption DEF Fault, NoFault

(* The initial state. *)
LEMMA InitTypes == Init => TypeOK
BY BoundsAssumption
   DEF Init, TypeOK, AuditsTyped, RewardsTyped, PaymentsTyped, Task, Reward, Idle, Audit, Poll,
       NoPoll

-----------------------------------------------------------------------------
(* The steps of the audits. *)

AuditStep ==
    \/ AuditNodes
    \/ \E a \in Audit : \/ PerformAudit(a) \/ AuditThrows(a) \/ RequeueFailedJob(a)
                        \/ WriteAuditLog(a) \/ UpdateAuditScore(a)
    \/ \E p \in Poller : PollStep(p)

(* A task is moved to another place. *)
LEMMA TaskMoves ==
    ASSUME AuditsTyped, NEW a \in Audit, NEW place \in {"none", "queued", "failed", "performed"}
    PROVE  /\ [task[a] EXCEPT !.at = place] \in Task
           /\ [task EXCEPT ![a].at = place] \in [Audit -> Task]
<1> DEFINE e == [task[a] EXCEPT !.at = place]
<1>1. e \in Task
  BY DEF AuditsTyped, Task
<1>2. [task EXCEPT ![a].at = place] = [task EXCEPT ![a] = e]
  BY DEF AuditsTyped
<1>3. [task EXCEPT ![a] = e] \in [Audit -> Task]
  BY <1>1 DEF AuditsTyped
<1> QED
  BY <1>1, <1>2, <1>3

(* The conjuncts of AuditsTyped about the polls. *)
Polls(polls, rowCount) ==
    polls \in [Poller -> Poll] /\ \A p \in Poller : polls[p].upTo <= rowCount

(* The steps of a poll keep the types of what it reads and writes. *)
LEMMA PollStepTypes ==
    ASSUME AuditsTyped, NEW p \in Poller, PollStep(p)
    PROVE  AuditsTyped'
<1>0. /\ lastAuditAt \in Int /\ minute \in Int /\ windowStart \in Int /\ StartWindow \in Int
      /\ poll \in [Poller -> Poll] /\ Len(rows) \in Nat /\ NoPoll \in Poll
  BY BoundsAssumption, LenProperties DEF AuditsTyped, NotSet, NoPoll, Poll
<1>1. UNCHANGED <<minute, audits, auditScore>>
  BY DEF PollStep, PollReads, PollFinds, PollStores
<1>2. ASSUME lastAuditAt' \in (0..MaxMinute) \union {NotSet}, balanceKeys' \subseteq Node,
             Polls(poll', Len(rows)), windowStart' \in Int
      PROVE  AuditsTyped'
  BY <1>1, <1>2 DEF AuditsTyped, audits, Polls
<1>a. ASSUME NEW e \in Poll, e.upTo <= Len(rows), poll' = [poll EXCEPT ![p] = e]
      PROVE  Polls(poll', Len(rows))
  BY <1>0, <1>a DEF AuditsTyped, Polls
<1>3. CASE PollReads(p)
  <2> DEFINE e == [at |-> "find", since |-> Since, upTo |-> 0]
  <2>1. e \in Poll /\ e.upTo <= Len(rows)
    BY <1>0 DEF Poll, Since
  <2>2. poll' = [poll EXCEPT ![p] = e] /\ windowStart' \in Int
    BY <1>0, <1>3 DEF PollReads
  <2> HIDE DEF e
  <2>3. UNCHANGED <<lastAuditAt, balanceKeys>>
    BY <1>3 DEF PollReads
  <2> QED
    BY <1>2, <1>a, <2>1, <2>2, <2>3 DEF AuditsTyped
<1>4. CASE PollFinds(p)
  <2> DEFINE e == [at |-> "exec", since |-> poll[p].since, upTo |-> Len(rows)]
  <2>1. e \in Poll /\ e.upTo <= Len(rows) /\ NoPoll.upTo <= Len(rows)
    BY <1>0 DEF Poll, NoPoll
  <2>3. poll' = [poll EXCEPT ![p] = e] \/ poll' = [poll EXCEPT ![p] = NoPoll]
    BY <1>4 DEF PollFinds
  <2> HIDE DEF e
  <2>4. Polls(poll', Len(rows))
    BY <1>0, <1>a, <2>1, <2>3
  <2> QED
    BY <1>2, <1>4, <2>4 DEF PollFinds, AuditsTyped
<1>5. CASE PollStores(p)
  <2>1. \A n \in DOMAIN rows : rows[n] \in Audit
    BY LenProperties, ElementOfSeq DEF AuditsTyped
  <2>2. \A n \in DOMAIN rows : task[rows[n]].time \in 0..MaxMinute /\ rows[n][2] \in Node
    BY <2>1 DEF AuditsTyped, Task, Audit
  <2>3. Polls(poll', Len(rows)) /\ windowStart' \in Int
    <3>1. NoPoll.upTo <= Len(rows) /\ poll' = [poll EXCEPT ![p] = NoPoll]
      BY <1>0, <1>5 DEF PollStores, NoPoll
    <3>2. windowStart' = windowStart
      BY <1>5 DEF PollStores
    <3> QED
      BY <1>0, <1>a, <3>1, <3>2
  <2>4. CASE Fault /\ UNCHANGED <<lastAuditAt, balanceKeys>>
    BY <1>2, <2>3, <2>4 DEF AuditsTyped
  <2>5. CASE RememberNewest(p) /\ balanceKeys' = balanceKeys \union
                  {rows[n][2] : n \in {k \in FoundRows(p) : task[rows[k]].balancePass}}
    <3>1. FoundRows(p) \subseteq DOMAIN rows
      BY <1>0, LenProperties DEF AuditsTyped, FoundRows, RowsSince, Poll
    <3> QED
      BY <1>2, <2>2, <2>3, <2>5, <3>1 DEF RememberNewest, AuditsTyped
  <2> QED
    BY <1>5, <2>4, <2>5 DEF PollStores
<1> QED
  BY <1>3, <1>4, <1>5 DEF PollStep

(* The steps of the audits keep the types. *)
LEMMA AuditStepTypes ==
    ASSUME TypeOK, AuditStep
    PROVE  TypeOK'
<1>0. AuditsTyped /\ RewardsTyped /\ PaymentsTyped /\ faults \in 0..MaxFaults
  BY DEF TypeOK
<1>1. UNCHANGED <<rewarding, paying>> /\ (Fault \/ NoFault)
  BY DEF AuditStep, AuditNodes, PerformAudit, AuditThrows, RequeueFailedJob, WriteAuditLog,
         UpdateAuditScore, PollStep, PollReads, PollFinds, PollStores, NoFault
<1>2. RewardsTyped' /\ PaymentsTyped' /\ faults' \in 0..MaxFaults
  BY <1>0, <1>1, FaultType DEF rewarding, paying, RewardsTyped, PaymentsTyped
<1>3. ASSUME AuditNodes
      PROVE  AuditsTyped'
  <2>1. auditScore' \in [Node -> Nat]
    BY <1>0, <1>3, ScoreType DEF AuditNodes, AuditsTyped
  <2>2. \A a \in Audit : [task[a] EXCEPT !.at = "queued"] \in Task /\ task[a] \in Task
    BY <1>0, TaskMoves DEF AuditsTyped
  <2>3. task' \in [Audit -> Task]
    BY <1>3, <2>2 DEF AuditNodes
  <2>4. /\ round < MaxRounds /\ round' = round + 1
        /\ UNCHANGED <<minute, unlogged, unscored, rows, polled>>
    BY <1>3 DEF AuditNodes
  <2> QED
    BY <1>0, <2>1, <2>3, <2>4, BoundsAssumption DEF AuditsTyped, polled
<1>4. ASSUME NEW a \in Audit, PerformAudit(a)
      PROVE  AuditsTyped'
  <2> PICK f \in Findings(a) :
             task' = [task EXCEPT ![a] = [at |-> "performed", time |-> minute, pass |-> f.pass,
                                          balancePass |-> f.balancePass]]
    BY <1>4 DEF PerformAudit
  <2> DEFINE e == [at |-> "performed", time |-> minute, pass |-> f.pass,
                   balancePass |-> f.balancePass]
  <2>1. e \in Task
    BY <1>0, BoundsAssumption DEF Findings, Task, AuditsTyped
  <2>2. task' \in [Audit -> Task]
    BY <1>0, <2>1 DEF AuditsTyped
  <2>3. unlogged' \subseteq Audit /\ unscored' \subseteq Audit
    BY <1>0, <1>4 DEF PerformAudit, AuditsTyped
  <2>4. UNCHANGED <<minute, round, rows, polled, auditScore>>
    BY <1>4 DEF PerformAudit
  <2> QED
    BY <1>0, <2>2, <2>3, <2>4 DEF AuditsTyped, polled
<1>5. ASSUME NEW a \in Audit, AuditThrows(a) \/ RequeueFailedJob(a)
      PROVE  AuditsTyped'
  <2>1. task' \in [Audit -> Task]
    BY <1>0, <1>5, TaskMoves DEF AuditThrows, RequeueFailedJob
  <2> QED
    BY <1>0, <1>5, <2>1 DEF AuditThrows, RequeueFailedJob, AuditsTyped, polled
<1>6. ASSUME NEW a \in Audit, WriteAuditLog(a)
      PROVE  AuditsTyped'
  <2>1. /\ rows' \in Seq(Audit) /\ Len(rows') = Len(rows) + 1 /\ Len(rows) \in Nat
        /\ \A p \in Poller : poll[p].upTo \in Nat
    BY <1>0, <1>6, LenProperties, AppendProperties DEF WriteAuditLog, AuditsTyped, Poll
  <2>2. \A p \in Poller : poll[p].upTo <= Len(rows')
    BY <1>0, <2>1 DEF AuditsTyped
  <2> QED
    BY <1>0, <1>6, <2>1, <2>2 DEF WriteAuditLog, AuditsTyped, polled
<1>7. ASSUME NEW a \in Audit, UpdateAuditScore(a)
      PROVE  AuditsTyped'
  <2>1. a[2] \in Node /\ (IF task[a].pass THEN 1 ELSE -1) \in Int
    BY DEF Audit
  <2>2. AddToScore(auditScore[a[2]], IF task[a].pass THEN 1 ELSE -1) \in Nat
    BY <1>0, <2>1, ScoreType DEF AuditsTyped
  <2>3. auditScore' \in [Node -> Nat]
    BY <1>0, <1>7, <2>1, <2>2 DEF UpdateAuditScore, AuditsTyped
  <2> QED
    BY <1>0, <1>7, <2>3 DEF UpdateAuditScore, AuditsTyped, polled
<1>8. ASSUME NEW p \in Poller, PollStep(p)
      PROVE  AuditsTyped'
  BY <1>0, <1>8, PollStepTypes
<1> QED
  BY <1>2, <1>3, <1>4, <1>5, <1>6, <1>7, <1>8 DEF AuditStep, TypeOK

-----------------------------------------------------------------------------
(* The steps of the reward service, and of time. *)

ServiceStep ==
    \/ Tick \/ SessionExpires
    \/ \E s \in Service : GainLeadership(s) \/ LeadershipError(s) \/ RewardStep(s)

(* The conjuncts of RewardsTyped about the rewards. *)
RewardPlaced(rewards) ==
    /\ rewards \in [Service -> Reward]
    /\ \A s \in Service : rewards[s].at \in {"publish", "reset"} => rewards[s].node \in Public

(* A reward is moved on. *)
LEMMA RewardMoves ==
    ASSUME RewardsTyped, NEW s \in Service, NEW place \in {"idle", "select", "publish", "reset"},
           place \in {"publish", "reset"} => reward[s].node \in Public
    PROVE  RewardPlaced([reward EXCEPT ![s].at = place])
<1> DEFINE e == [reward[s] EXCEPT !.at = place]
<1>1. e \in Reward /\ e.at = place /\ e.node = reward[s].node
  BY DEF RewardsTyped, Reward
<1>2. [reward EXCEPT ![s].at = place] = [reward EXCEPT ![s] = e]
  BY DEF RewardsTyped
<1> QED
  BY <1>1, <1>2 DEF RewardsTyped, RewardPlaced

(* A reward is given another value. *)
LEMMA RewardReplaced ==
    ASSUME RewardsTyped, NEW s \in Service, NEW e \in Reward,
           e.at \in {"publish", "reset"} => e.node \in Public
    PROVE  RewardPlaced([reward EXCEPT ![s] = e])
BY DEF RewardsTyped, RewardPlaced

(* The steps of the reward service keep the types. *)
LEMMA ServiceStepTypes ==
    ASSUME TypeOK, ServiceStep
    PROVE  TypeOK'
<1>0. AuditsTyped /\ RewardsTyped /\ PaymentsTyped /\ faults \in 0..MaxFaults
  BY DEF TypeOK
<1>a. Idle \in Reward /\ Idle.at \notin {"publish", "reset"}
  BY DEF Idle, Reward
<1>1. CASE Tick
  BY <1>0, <1>1, BoundsAssumption
     DEF Tick, TypeOK, AuditsTyped, RewardsTyped, PaymentsTyped, audits, polled, rewarding, paying
<1>2. ASSUME SessionExpires \/ \E s \in Service : GainLeadership(s) \/ LeadershipError(s)
      PROVE  TypeOK'
  <2>1. UNCHANGED <<minute, audits, polled, auditScore, paying>> /\ (Fault \/ NoFault)
    BY <1>2 DEF SessionExpires, GainLeadership, LeadershipError, NoFault
  <2>2. AuditsTyped' /\ PaymentsTyped' /\ faults' \in 0..MaxFaults
    BY <1>0, <2>1, FaultType DEF AuditsTyped, PaymentsTyped, audits, polled, paying
  <2>3. RewardsTyped'
    BY <1>0, <1>2 DEF RewardsTyped, SessionExpires, GainLeadership, LeadershipError
  <2> QED
    BY <2>2, <2>3 DEF TypeOK
<1>3. ASSUME NEW s \in Service, RewardTrigger(s)
      PROVE  TypeOK'
  <2>1. RewardPlaced(reward')
    BY <1>0, <1>3, RewardMoves DEF RewardTrigger, RewardsTyped, RewardPlaced
  <2>2. currentMinute' \in [Service -> 1..MaxMinute]
    BY <1>0, <1>3 DEF RewardTrigger, RememberMinute, RewardsTyped, AuditsTyped
  <2>3. UNCHANGED <<minute, audits, polled, auditScore, holder, IS_LEADER, resets, lostRewards,
                    paying, faults>>
    BY <1>3 DEF RewardTrigger
  <2> QED
    BY <1>0, <2>1, <2>2, <2>3
       DEF TypeOK, AuditsTyped, RewardsTyped, RewardPlaced, PaymentsTyped, audits, polled, paying
<1>4. ASSUME NEW s \in Service, SelectNode(s)
      PROVE  TypeOK'
  <2>1. \A n \in Public : [at |-> "publish", node |-> n] \in Reward
    BY DEF Reward
  <2>2. RewardPlaced(reward')
    <3>1. PICK e \in Reward : /\ reward' = [reward EXCEPT ![s] = e]
                              /\ e.at \in {"publish", "reset"} => e.node \in Public
      BY <1>4, <1>a, <2>1 DEF SelectNode, Candidates
    <3> QED
      BY <1>0, <3>1, RewardReplaced
  <2>3. UNCHANGED <<minute, audits, polled, auditScore, holder, IS_LEADER, currentMinute,
                    resets, lostRewards, paying>> /\ (Fault \/ NoFault)
    BY <1>4 DEF SelectNode
  <2> QED
    BY <1>0, <2>2, <2>3, FaultType
       DEF TypeOK, AuditsTyped, RewardsTyped, RewardPlaced, PaymentsTyped, audits, polled, paying
<1>5. ASSUME NEW s \in Service, PublishReward(s)
      PROVE  TypeOK'
  <2>1. reward[s].node \in Public /\ reward[s].node \in Node
    BY <1>0, <1>5, NodeAssumption DEF PublishReward, RewardsTyped
  <2>2. RewardPlaced(reward')
    <3>1. CASE reward' = [reward EXCEPT ![s].at = "reset"]
      BY <1>0, <2>1, <3>1, RewardMoves
    <3>2. CASE reward' = [reward EXCEPT ![s] = Idle]
      BY <1>0, <1>a, <3>2, RewardReplaced
    <3> QED
      BY <1>5, <3>1, <3>2 DEF PublishReward
  <2>3. lostRewards' \in [Node -> Nat] /\ (Fault \/ NoFault)
    BY <1>0, <1>5, <2>1 DEF PublishReward, SendReward, LoseReward, RewardsTyped, NoFault
  <2>4. UNCHANGED <<minute, audits, polled, auditScore, holder, IS_LEADER, currentMinute, resets,
                    handlers>>
    BY <1>5 DEF PublishReward
  <2>5. PaymentsTyped'
    <3>1. CASE SendReward(s)
      <4>1. Message(reward[s].node, minute) \in RewardMessage
        BY <1>0, <2>1 DEF Message, RewardMessage, AuditsTyped
      <4>2. messages' \in Seq(RewardMessage) /\ Len(messages') = Len(messages) + 1
        BY <1>0, <3>1, <4>1 DEF SendReward, PaymentsTyped
      <4>3. /\ paid' \in Seq(Nat) /\ Len(paid') = Len(messages) + 1
            /\ blocks' \in Seq(Nat) /\ Len(blocks') = Len(messages) + 1
            /\ excused' \in Seq(Nat) /\ Len(excused') = Len(messages) + 1
        BY <1>0, <3>1 DEF SendReward, PaymentsTyped
      <4>4. DOMAIN messages = 1..Len(messages) /\ DOMAIN messages' = 1..(Len(messages) + 1)
            /\ Len(messages) \in Nat
        BY <1>0, <4>2, LenProperties DEF PaymentsTyped
      <4>5. \A m \in DOMAIN messages : m \in DOMAIN messages'
        BY <4>4
      <4> QED
        BY <1>0, <2>4, <4>2, <4>3, <4>5 DEF PaymentsTyped
    <3>2. CASE UNCHANGED <<messages, paid, blocks, excused>>
      BY <1>0, <2>4, <3>2 DEF PaymentsTyped
    <3> QED
      BY <1>5, <3>1, <3>2 DEF PublishReward, LoseReward
  <2> QED
    BY <1>0, <2>2, <2>3, <2>4, <2>5, FaultType
       DEF TypeOK, AuditsTyped, RewardsTyped, RewardPlaced, audits, polled
<1>6. ASSUME NEW s \in Service, ResetScore(s)
      PROVE  TypeOK'
  <2>1. reward[s].node \in Node
    BY <1>0, <1>6, NodeAssumption DEF ResetScore, RewardsTyped
  <2>2. RewardPlaced(reward')
    BY <1>0, <1>6, <1>a, RewardReplaced DEF ResetScore
  <2>3. auditScore' \in [Node -> Nat] /\ resets' \in [Node -> Nat] /\ (Fault \/ NoFault)
    <3>1. resets[reward[s].node] + 1 \in Nat /\ 0 \in Nat
      BY <1>0, <2>1 DEF RewardsTyped
    <3>2. CASE UNCHANGED <<auditScore, resets>>
      BY <1>0, <1>6, <3>2 DEF ResetScore, AuditsTyped, RewardsTyped
    <3>3. CASE ~UNCHANGED <<auditScore, resets>>
      BY <1>0, <1>6, <2>1, <3>1, <3>3 DEF ResetScore, AuditsTyped, RewardsTyped
    <3> QED
      BY <3>2, <3>3
  <2>4. UNCHANGED <<minute, audits, polled, holder, IS_LEADER, currentMinute, lostRewards, paying>>
    BY <1>6 DEF ResetScore
  <2> QED
    BY <1>0, <2>2, <2>3, <2>4, FaultType
       DEF TypeOK, AuditsTyped, RewardsTyped, RewardPlaced, PaymentsTyped, audits, polled, paying
<1> QED
  BY <1>1, <1>2, <1>3, <1>4, <1>5, <1>6 DEF ServiceStep, RewardStep

-----------------------------------------------------------------------------
(* The steps of the calendar service. *)

ConsumerStep == CalendarStep \/ LoseCalendarChannel \/ CrashCalendar

(* Messages stay where they are in the sequence, so handlers keep theirs. *)
LEMMA PaymentsKept ==
    ASSUME PaymentsTyped,
           messages' \in Seq(RewardMessage), Len(messages') = Len(messages),
           handlers' \subseteq Call, \A h \in handlers' : h.msg \in DOMAIN messages,
           paid' \in Seq(Nat), Len(paid') = Len(messages),
           blocks' \in Seq(Nat), Len(blocks') = Len(messages),
           excused' \in Seq(Nat), Len(excused') = Len(messages)
    PROVE  PaymentsTyped'
<1>1. DOMAIN messages' = DOMAIN messages
  BY LenProperties DEF PaymentsTyped
<1> QED
  BY <1>1 DEF PaymentsTyped

(* A message is delivered or settled. *)
LEMMA SettleTypes ==
    ASSUME PaymentsTyped, NEW m \in DOMAIN messages, NEW place \in {"ready", "unacked", "acked"}
    PROVE  /\ [messages EXCEPT ![m].at = place] \in Seq(RewardMessage)
           /\ Len([messages EXCEPT ![m].at = place]) = Len(messages)
<1> DEFINE e == [messages[m] EXCEPT !.at = place]
<1>1. messages[m] \in RewardMessage
  BY LenProperties, ElementOfSeq DEF PaymentsTyped
<1>2. e \in RewardMessage
  BY <1>1 DEF RewardMessage
<1>3. [messages EXCEPT ![m].at = place] = [messages EXCEPT ![m] = e]
  OBVIOUS
<1> HIDE DEF e
<1>4. messages \in Seq(RewardMessage)
  BY DEF PaymentsTyped
<1> QED
  BY <1>2, <1>3, <1>4, ExceptKeepsSeq

(* Messages are queued again, and may be paid once more. *)
LEMMA RequeueTypes ==
    ASSUME PaymentsTyped, Requeue
    PROVE  /\ messages' \in Seq(RewardMessage) /\ Len(messages') = Len(messages)
           /\ excused' \in Seq(Nat) /\ Len(excused') = Len(messages)
<1>1. \A m \in DOMAIN messages : messages[m] \in RewardMessage /\ excused[m] \in Nat
  <2>1. DOMAIN messages = 1..Len(messages) /\ DOMAIN excused = 1..Len(messages)
    BY LenProperties DEF PaymentsTyped
  <2>2. messages \in Seq(RewardMessage) /\ excused \in Seq(Nat)
    BY DEF PaymentsTyped
  <2> QED
    BY <2>1, <2>2, LenProperties, ElementOfSeq
<1>2. messages' \in [DOMAIN messages -> RewardMessage]
  BY <1>1 DEF Requeue, RewardMessage
<1>3. excused' \in [DOMAIN messages -> Nat]
  BY <1>1 DEF Requeue
<1>4. messages \in Seq(RewardMessage)
  BY DEF PaymentsTyped
<1> QED
  BY <1>2, <1>3, <1>4, MapSeq

(* The steps of the calendar service keep the types. *)
LEMMA ConsumerStepTypes ==
    ASSUME TypeOK, ConsumerStep
    PROVE  TypeOK'
<1>0. AuditsTyped /\ RewardsTyped /\ PaymentsTyped /\ faults \in 0..MaxFaults
  BY DEF TypeOK
<1>1. UNCHANGED <<minute, audits, polled, auditScore, rewarding>> /\ (Fault \/ NoFault)
  BY DEF ConsumerStep, CalendarStep, DeliverReward, TransferReward, TransferUnanswered,
         CreateRewardBlock, LoseCalendarChannel, CrashCalendar, NoFault
<1>2. AuditsTyped' /\ RewardsTyped' /\ faults' \in 0..MaxFaults
  BY <1>0, <1>1, FaultType DEF AuditsTyped, RewardsTyped, audits, polled, rewarding
<1>3. /\ messages \in Seq(RewardMessage)
      /\ paid \in Seq(Nat) /\ Len(paid) = Len(messages)
      /\ blocks \in Seq(Nat) /\ Len(blocks) = Len(messages)
      /\ excused \in Seq(Nat) /\ Len(excused) = Len(messages)
      /\ handlers \subseteq Call /\ \A h \in handlers : h.msg \in DOMAIN messages
  BY <1>0 DEF PaymentsTyped
<1>4. \A m \in DOMAIN messages : /\ m \in Nat /\ m \in DOMAIN paid
                                 /\ m \in DOMAIN blocks /\ m \in DOMAIN excused
  BY <1>3, LenProperties
<1>5. ASSUME NEW m \in DOMAIN messages, DeliverReward(m)
      PROVE  PaymentsTyped'
  <2>1. messages' \in Seq(RewardMessage) /\ Len(messages') = Len(messages)
    BY <1>0, <1>5, SettleTypes DEF DeliverReward
  <2>2. excused[m] \in Nat
    BY <1>3, <1>4, LenProperties, ElementOfSeq
  <2>3. Handler(m) \in Call /\ Handler(m).msg = m
    BY <1>4, <2>2 DEF Handler, Call
  <2>4. handlers' \subseteq Call /\ \A h \in handlers' : h.msg \in DOMAIN messages
    BY <1>3, <1>5, <2>3 DEF DeliverReward
  <2>5. UNCHANGED <<paid, blocks, excused>>
    BY <1>5 DEF DeliverReward
  <2> QED
    BY <1>0, <1>3, <2>1, <2>4, <2>5, PaymentsKept
<1>6. ASSUME NEW h \in handlers, MoveOn(h) \/ AckAndLeave(h)
      PROVE  /\ messages' \in Seq(RewardMessage) /\ Len(messages') = Len(messages)
             /\ handlers' \subseteq Call /\ \A g \in handlers' : g.msg \in DOMAIN messages
  <2>1. h.msg \in DOMAIN messages /\ h \in Call
    BY <1>3
  <2>2. [h EXCEPT !.at = "block"] \in Call /\ [h EXCEPT !.at = "block"].msg = h.msg
    BY <2>1 DEF Call
  <2>3. CASE MoveOn(h)
    BY <1>3, <2>1, <2>2, <2>3 DEF MoveOn
  <2>4. CASE AckAndLeave(h)
    BY <1>0, <1>3, <2>1, <2>4, SettleTypes DEF AckAndLeave
  <2> QED
    BY <1>6, <2>3, <2>4
<1>7. ASSUME NEW h \in handlers, TransferReward(h) \/ TransferUnanswered(h)
      PROVE  PaymentsTyped'
  <2>1. h.msg \in DOMAIN paid /\ h.msg \in DOMAIN excused
    BY <1>3, <1>4
  <2>2. /\ paid' = paid \/ paid' = [paid EXCEPT ![h.msg] = @ + 1]
        /\ excused' = excused \/ excused' = [excused EXCEPT ![h.msg] = @ + 1]
        /\ MoveOn(h) \/ AckAndLeave(h) \/ UNCHANGED <<messages, handlers>>
        /\ blocks' = blocks
    BY <1>7 DEF TransferReward, TransferUnanswered
  <2>3. paid' \in Seq(Nat) /\ Len(paid') = Len(messages)
    <3>1. /\ [paid EXCEPT ![h.msg] = @ + 1] \in Seq(Nat)
          /\ Len([paid EXCEPT ![h.msg] = @ + 1]) = Len(paid)
      BY <1>3, <2>1, CountUp
    <3> QED
      BY <1>3, <2>2, <3>1
  <2>4. excused' \in Seq(Nat) /\ Len(excused') = Len(messages)
    <3>1. /\ [excused EXCEPT ![h.msg] = @ + 1] \in Seq(Nat)
          /\ Len([excused EXCEPT ![h.msg] = @ + 1]) = Len(excused)
      BY <1>3, <2>1, CountUp
    <3> QED
      BY <1>3, <2>2, <3>1
  <2>5. CASE MoveOn(h) \/ AckAndLeave(h)
    BY <1>0, <1>3, <1>6, <2>2, <2>3, <2>4, <2>5, PaymentsKept
  <2>6. CASE UNCHANGED <<messages, handlers>>
    BY <1>0, <1>3, <2>2, <2>3, <2>4, <2>6, PaymentsKept
  <2> QED
    BY <2>2, <2>5, <2>6
<1>8. ASSUME NEW h \in handlers, CreateRewardBlock(h)
      PROVE  PaymentsTyped'
  <2>1. h.msg \in DOMAIN blocks
    BY <1>3, <1>4
  <2>2. blocks' \in Seq(Nat) /\ Len(blocks') = Len(messages)
    <3>1. blocks' = blocks \/ blocks' = [blocks EXCEPT ![h.msg] = @ + 1]
      BY <1>8 DEF CreateRewardBlock
    <3>2. /\ [blocks EXCEPT ![h.msg] = @ + 1] \in Seq(Nat)
          /\ Len([blocks EXCEPT ![h.msg] = @ + 1]) = Len(blocks)
      BY <1>3, <2>1, CountUp
    <3> QED
      BY <1>3, <3>1, <3>2
  <2>3. AckAndLeave(h) /\ UNCHANGED <<paid, excused>>
    BY <1>8 DEF CreateRewardBlock
  <2> QED
    BY <1>0, <1>3, <1>6, <2>2, <2>3, PaymentsKept
<1>9. ASSUME LoseCalendarChannel \/ CrashCalendar
      PROVE  PaymentsTyped'
  <2>1. Requeue /\ UNCHANGED <<paid, blocks>>
    BY <1>9 DEF LoseCalendarChannel, CrashCalendar
  <2>2. handlers' \subseteq Call /\ \A g \in handlers' : g.msg \in DOMAIN messages
    BY <1>3, <1>9 DEF LoseCalendarChannel, CrashCalendar, Call
  <2> QED
    BY <1>0, <1>3, <2>1, <2>2, RequeueTypes, PaymentsKept
<1>10. PaymentsTyped'
  BY <1>5, <1>7, <1>8, <1>9 DEF ConsumerStep, CalendarStep
<1> QED
  BY <1>2, <1>10 DEF TypeOK

-----------------------------------------------------------------------------

(* Every step keeps the types. *)
LEMMA StepTypes == TypeOK /\ [Next]_vars => TypeOK'
<1>1. ASSUME TypeOK, UNCHANGED vars
      PROVE  TypeOK'
  BY <1>1 DEF vars, audits, polled, rewarding, paying, TypeOK, AuditsTyped, RewardsTyped,
              PaymentsTyped
<1>2. Next => AuditStep \/ ServiceStep \/ ConsumerStep
  BY DEF Next, AuditStep, ServiceStep, ConsumerStep
<1> QED
  BY <1>1, <1>2, AuditStepTypes, ServiceStepTypes, ConsumerStepTypes

(* The variables have their types: scores are never negative, no period is *)
(* past the last one, every message has its history, and every handler its *)
(* message.                                                                *)
THEOREM TypeCorrect == Spec => []TypeOK
BY InitTypes, StepTypes, PTL DEF Spec

-----------------------------------------------------------------------------
(* What the audit log and the poll know. *)

(* Audits of later rounds have no task, a row is written of an audit that  *)
(* was performed, at a time, and the time remembered is that of a row.     *)
LaterRounds == \A a \in Audit : a[1] > round => task[a].at = "none"
OnlyPerformed ==
    /\ \A a \in unlogged : task[a].at = "performed"
    /\ \A n \in DOMAIN rows : task[rows[n]].at = "performed"

(* A time up to which the log has been seen: that of a row, or the start   *)
(* of a poll's window; the balance checks that were passed by then have    *)
(* their keys, with the exceptions that BalanceChecksSeen makes.           *)
Reached(t) == t <= windowStart \/ \E n \in DOMAIN rows : task[rows[n]].time = t
Excepted(n) == ~task[rows[n]].balancePass \/ WrittenLate(n) \/ BeforeWindow(n)
Covered(t) ==
    \A n \in DOMAIN rows : task[rows[n]].time <= t => Excepted(n) \/ rows[n][2] \in balanceKeys
SeenTimes == {t \in Int : Reached(t) /\ Covered(t)}

(* The stored time is such a time, and so is the one each poll has read,   *)
(* which may have been stored before.                                      *)
StoredSeen == lastAuditAt # NotSet => lastAuditAt \in SeenTimes
PollsSeen ==
    \A p \in Poller : /\ poll[p].at # "idle" => poll[p].since \in SeenTimes
                      /\ poll[p].at = "exec" => FoundRows(p) # {}

LogInv == TypeOK /\ LaterRounds /\ OnlyPerformed /\ StoredSeen /\ PollsSeen

(* The log is empty at first, and nobody polls it. *)
LEMMA InitLog == Init => LogInv
BY InitTypes
   DEF Init, LogInv, LaterRounds, OnlyPerformed, StoredSeen, PollsSeen, NoPoll

(* The rows are audits, each with its time. *)
LEMMA RowTypes ==
    ASSUME TypeOK
    PROVE  /\ DOMAIN rows = 1..Len(rows) /\ Len(rows) \in Nat
           /\ lastAuditAt \in Int /\ windowStart \in Int /\ minute \in Int
           /\ \A n \in DOMAIN rows : rows[n] \in Audit /\ task[rows[n]].time \in Int
           /\ \A p \in Poller : /\ poll[p] \in Poll /\ poll[p].since \in Int
                                 /\ poll[p].upTo \in 0..Len(rows)
<1>1. /\ rows \in Seq(Audit) /\ task \in [Audit -> Task] /\ lastAuditAt \in Int
      /\ windowStart \in Int /\ minute \in Int /\ poll \in [Poller -> Poll]
      /\ \A p \in Poller : poll[p].upTo <= Len(rows)
  BY BoundsAssumption DEF TypeOK, AuditsTyped, NotSet
<1>2. DOMAIN rows = 1..Len(rows) /\ Len(rows) \in Nat
  BY <1>1, LenProperties
<1>3. \A n \in DOMAIN rows : rows[n] \in Audit
  BY <1>1, <1>2, ElementOfSeq
<1> QED
  BY <1>1, <1>2, <1>3, BoundsAssumption DEF Task, Poll

(* What is known of the log is what BalanceChecksSeen says. *)
LEMMA LogSeen == LogInv => BalanceChecksSeen
<1> SUFFICES ASSUME LogInv, NEW n \in DOMAIN rows, ~Excepted(n), lastAuditAt # NotSet,
                    ~(task[rows[n]].time > lastAuditAt)
             PROVE  rows[n][2] \in balanceKeys
  BY DEF BalanceChecksSeen, Excepted
<1>1. task[rows[n]].time <= lastAuditAt
  BY RowTypes DEF LogInv
<1> QED
  BY <1>1 DEF LogInv, StoredSeen, SeenTimes, Covered

(* A time stays seen while no row is added, no key is taken away and the   *)
(* window of no poll moves back.                                           *)
LEMMA SeenStays ==
    ASSUME TypeOK, TypeOK', rows' = rows, balanceKeys \subseteq balanceKeys',
           windowStart <= windowStart', \A n \in DOMAIN rows : task'[rows[n]] = task[rows[n]]
    PROVE  SeenTimes \subseteq SeenTimes'
<1> SUFFICES ASSUME NEW t \in Int, Reached(t), Covered(t)
             PROVE  Reached(t)' /\ Covered(t)'
  BY DEF SeenTimes
<1>1. /\ DOMAIN rows = 1..Len(rows) /\ Len(rows) \in Nat
      /\ windowStart \in Int /\ windowStart' \in Int
      /\ \A n \in DOMAIN rows : task[rows[n]].time \in Int
  BY RowTypes DEF TypeOK, AuditsTyped
<1>2. Reached(t)'
  BY <1>1 DEF Reached
<1>3. \A n \in DOMAIN rows : Excepted(n) => Excepted(n)'
  BY <1>1 DEF Excepted, WrittenLate, BeforeWindow
<1>4. Covered(t)'
  BY <1>3 DEF Covered
<1> QED
  BY <1>2, <1>4

(* A step that leaves the log, the polls and the tasks in the log alone.   *)
LEMMA SeenKept ==
    ASSUME LogInv, TypeOK', UNCHANGED <<rows, polled>>,
           \A n \in DOMAIN rows : task'[rows[n]] = task[rows[n]]
    PROVE  StoredSeen' /\ PollsSeen'
<1>1. /\ TypeOK /\ StoredSeen /\ PollsSeen
      /\ UNCHANGED <<lastAuditAt, balanceKeys, poll, windowStart>>
  BY DEF LogInv, polled
<1>2. /\ lastAuditAt \in Int /\ windowStart <= windowStart'
      /\ \A p \in Poller : poll[p].since \in Int /\ FoundRows(p) \subseteq DOMAIN rows
  BY <1>1, RowTypes DEF FoundRows, RowsSince
<1>3. SeenTimes \subseteq SeenTimes'
  BY <1>1, <1>2, SeenStays
<1>4. StoredSeen'
  BY <1>1, <1>2, <1>3 DEF StoredSeen
<1>5. \A p \in Poller : FoundRows(p)' = FoundRows(p)
  BY <1>1, RowTypes DEF FoundRows, RowsSince
<1>6. PollsSeen'
  BY <1>1, <1>2, <1>3, <1>5 DEF PollsSeen
<1> QED
  BY <1>4, <1>6

(* The steps that change tasks: none of them one that was performed.       *)
LEMMA TaskSteps ==
    ASSUME LogInv, TypeOK',
           \/ AuditNodes
           \/ \E a \in Audit : PerformAudit(a) \/ AuditThrows(a) \/ RequeueFailedJob(a)
    PROVE  LogInv'
<1>0. /\ task \in [Audit -> Task] /\ round \in Nat /\ minute >= 1
      /\ unlogged \subseteq Audit /\ \A a \in Audit : a[1] \in Nat
  BY BoundsAssumption DEF LogInv, TypeOK, AuditsTyped, Audit
<1>1. UNCHANGED <<rows, polled>>
  BY DEF AuditNodes, PerformAudit, AuditThrows, RequeueFailedJob
<1>2. ASSUME AuditNodes
      PROVE  /\ \A a \in Audit : task[a].at = "performed" => task'[a] = task[a]
             /\ LaterRounds' /\ OnlyPerformed'
  <2>1. round' = round + 1 /\ unlogged' = unlogged /\ rows' = rows
    BY <1>2 DEF AuditNodes
  <2>2. \A a \in Audit : \/ task'[a] = task[a]
                         \/ a[1] = round' /\ task'[a] = [task[a] EXCEPT !.at = "queued"]
    <3>1. PICK skipped \in SUBSET Node :
                 task' = [a \in Audit |-> IF a[1] = round' /\ a[2] \notin skipped
                                         THEN [task[a] EXCEPT !.at = "queued"] ELSE task[a]]
      BY <1>2 DEF AuditNodes
    <3>2. ASSUME NEW a \in Audit
          PROVE  task'[a] = IF a[1] = round' /\ a[2] \notin skipped
                            THEN [task[a] EXCEPT !.at = "queued"] ELSE task[a]
      BY <3>1, Zenon
    <3> QED
      BY <3>2
  <2>3. \A a \in Audit : [task[a] EXCEPT !.at = "queued"].at = "queued"
    BY <1>0 DEF Task
  <2>4. \A a \in Audit : a[1] = round' => task[a].at = "none"
    BY <1>0, <2>1 DEF LogInv, LaterRounds
  <2>5. \A a \in Audit : task[a].at = "performed" => task'[a] = task[a]
    BY <2>2, <2>4
  <2>6. LaterRounds'
    <3> SUFFICES ASSUME NEW a \in Audit, a[1] > round + 1
                 PROVE  task'[a].at = "none"
      BY <2>1 DEF LaterRounds
    <3>1. a[1] > round /\ a[1] # round'
      BY <1>0, <2>1
    <3> QED
      BY <2>2, <3>1 DEF LogInv, LaterRounds
  <2>8. \A n \in DOMAIN rows : rows[n] \in Audit
    BY RowTypes DEF LogInv
  <2>9. OnlyPerformed'
    BY <1>0, <2>1, <2>5, <2>8 DEF LogInv, OnlyPerformed
  <2> QED
    BY <2>5, <2>6, <2>9
<1>3. ASSUME NEW a \in Audit, PerformAudit(a) \/ AuditThrows(a) \/ RequeueFailedJob(a)
      PROVE  /\ \A b \in Audit : task[b].at = "performed" => task'[b] = task[b]
             /\ LaterRounds' /\ OnlyPerformed'
  <2>1. /\ \A b \in Audit \ {a} : task'[b] = task[b]
        /\ task[a].at \in {"queued", "failed"} /\ UNCHANGED <<round, rows>>
    BY <1>0, <1>3 DEF PerformAudit, AuditThrows, RequeueFailedJob
  <2>2. \A b \in Audit : task[b].at = "performed" => task'[b] = task[b]
    BY <2>1
  <2>3. LaterRounds'
    BY <2>1 DEF LogInv, LaterRounds
  <2>4. \/ task'[a].at # "performed" /\ unlogged' = unlogged
        \/ /\ task'[a].at = "performed" /\ task'[a].time = minute
           /\ unlogged' \subseteq unlogged \union {a}
    BY <1>0, <1>3 DEF PerformAudit, AuditThrows, RequeueFailedJob, Task
  <2>6. \A n \in DOMAIN rows : rows[n] \in Audit
    BY RowTypes DEF LogInv
  <2>7. OnlyPerformed'
    BY <1>0, <2>1, <2>2, <2>4, <2>6 DEF LogInv, OnlyPerformed
  <2> QED
    BY <2>2, <2>3, <2>7
<1>4. /\ \A a \in Audit : task[a].at = "performed" => task'[a] = task[a]
      /\ LaterRounds' /\ OnlyPerformed'
  BY <1>2, <1>3
<1>5. \A n \in DOMAIN rows : task'[rows[n]] = task[rows[n]]
  BY <1>4, RowTypes DEF LogInv, OnlyPerformed
<1>6. StoredSeen' /\ PollsSeen'
  BY <1>1, <1>5, SeenKept
<1> QED
  BY <1>4, <1>6 DEF LogInv

(* A new row is newer than a time that has been reached, or written behind *)
(* the row of that time, or before a window.                               *)
LEMMA WriteStep ==
    ASSUME LogInv, TypeOK', NEW a \in Audit, WriteAuditLog(a)
    PROVE  LogInv'
<1> DEFINE n0 == Len(rows) + 1
<1>0. TypeOK /\ LaterRounds /\ OnlyPerformed /\ StoredSeen /\ PollsSeen
  BY DEF LogInv
<1>1. /\ DOMAIN rows = 1..Len(rows) /\ Len(rows) \in Nat /\ lastAuditAt \in Int
      /\ windowStart \in Int
      /\ \A n \in DOMAIN rows : rows[n] \in Audit /\ task[rows[n]].time \in Int
      /\ \A p \in Poller : poll[p].since \in Int /\ poll[p].upTo \in 0..Len(rows)
  BY <1>0, RowTypes
<1>2. /\ UNCHANGED <<round, task, lastAuditAt, balanceKeys, poll, windowStart>>
      /\ a \in unlogged /\ unlogged' \subseteq unlogged /\ rows' = Append(rows, a)
  BY DEF WriteAuditLog, polled
<1>3. /\ DOMAIN rows' = 1..n0 /\ rows'[n0] = a
      /\ \A n \in 1..Len(rows) : rows'[n] = rows[n]
  BY <1>0, <1>1, <1>2, AppendProperties DEF TypeOK, AuditsTyped
<1>4. task[a].at = "performed" /\ task[a].time \in Int
  BY <1>0, <1>2, BoundsAssumption DEF OnlyPerformed, TypeOK, AuditsTyped, Task
<1>5. LaterRounds' /\ OnlyPerformed'
  BY <1>0, <1>1, <1>2, <1>3, <1>4 DEF LaterRounds, OnlyPerformed
<1>6. SeenTimes \subseteq SeenTimes'
  <2> SUFFICES ASSUME NEW t \in Int, Reached(t), Covered(t)
               PROVE  Reached(t)' /\ Covered(t)'
    BY DEF SeenTimes
  <2>1. Reached(t)'
    BY <1>1, <1>2, <1>3 DEF Reached
  <2>2. \A n \in 1..Len(rows) : Excepted(n)' <=> Excepted(n)
    BY <1>1, <1>2, <1>3 DEF Excepted, WrittenLate, BeforeWindow
  <2>3. ASSUME NEW n \in Nat, n = n0, task[a].time <= t
        PROVE  Excepted(n)'
    <3>1. CASE t <= windowStart
      BY <1>1, <1>2, <1>3, <1>4, <2>3, <3>1 DEF Excepted, BeforeWindow
    <3>2. CASE \E k \in DOMAIN rows : task[rows[k]].time = t
      <4>1. PICK k \in 1..Len(rows) : task[rows[k]].time = t
        BY <1>1, <3>2
      <4>2. k \in 1..(n - 1) /\ task'[rows'[k]].time >= task'[rows'[n]].time
        BY <1>1, <1>2, <1>3, <1>4, <2>3, <4>1
      <4>3. WrittenLate(n)'
        BY <4>2 DEF WrittenLate
      <4> QED
        BY <4>3 DEF Excepted
    <3> QED
      BY <3>1, <3>2 DEF Reached
  <2>4. Covered(t)'
    BY <1>1, <1>2, <1>3, <2>2, <2>3 DEF Covered
  <2> QED
    BY <2>1, <2>4
<1>7. StoredSeen'
  BY <1>0, <1>1, <1>2, <1>6 DEF StoredSeen
<1>8. \A p \in Poller : FoundRows(p)' = FoundRows(p)
  BY <1>1, <1>2, <1>3 DEF FoundRows, RowsSince
<1>9. PollsSeen'
  BY <1>0, <1>1, <1>2, <1>6, <1>8 DEF PollsSeen
<1> QED
  BY <1>5, <1>7, <1>9 DEF LogInv

(* A poll begins at the stored time, or at its window. *)
LEMMA ReadStep ==
    ASSUME LogInv, TypeOK', NEW p \in Poller, PollReads(p)
    PROVE  LogInv'
<1>0. TypeOK /\ LaterRounds /\ OnlyPerformed /\ StoredSeen /\ PollsSeen
  BY DEF LogInv
<1>1. /\ DOMAIN rows = 1..Len(rows) /\ lastAuditAt \in Int /\ windowStart \in Int
      /\ minute \in Int /\ StartWindow \in Int
      /\ \A n \in DOMAIN rows : task[rows[n]].time \in Int
      /\ \A q \in Poller : poll[q].since \in Int
  BY <1>0, RowTypes, BoundsAssumption
<1>2. /\ UNCHANGED <<round, task, unlogged, rows, lastAuditAt, balanceKeys>>
      /\ poll' = [poll EXCEPT ![p] = [at |-> "find", since |-> Since, upTo |-> 0]]
      /\ windowStart' = IF lastAuditAt = NotSet /\ minute - StartWindow > windowStart
                        THEN minute - StartWindow ELSE windowStart
  BY DEF PollReads, audits
<1>3. LaterRounds' /\ OnlyPerformed'
  BY <1>0, <1>2 DEF LaterRounds, OnlyPerformed
<1>4. SeenTimes \subseteq SeenTimes'
  BY <1>0, <1>1, <1>2, SeenStays
<1>5. StoredSeen'
  BY <1>0, <1>1, <1>2, <1>4 DEF StoredSeen
<1>6. Since \in Int
  BY <1>1 DEF Since
<1>7. Since \in SeenTimes'
  <2>1. CASE lastAuditAt # NotSet
    BY <1>0, <1>4, <2>1 DEF StoredSeen, Since
  <2>2. CASE lastAuditAt = NotSet
    <3>1. Since \in Int /\ Since <= windowStart'
      BY <1>1, <1>2, <2>2 DEF Since
    <3>2. windowStart' \in Int /\ \A n \in DOMAIN rows : task[rows[n]].time <= Since =>
                                                         BeforeWindow(n)'
      BY <1>1, <1>2, <3>1 DEF BeforeWindow
    <3>3. \A t \in Int : t <= windowStart' /\ (\A n \in DOMAIN rows : task[rows[n]].time <= t =>
                                                  BeforeWindow(n)') => t \in SeenTimes'
      BY <1>2 DEF SeenTimes, Reached, Covered, Excepted
    <3> QED
      BY <3>1, <3>2, <3>3
  <2> QED
    BY <2>1, <2>2
<1>8. PollsSeen'
  <2>1. ASSUME NEW q \in Poller
        PROVE  \/ poll'[q] = poll[q]
               \/ poll'[q].at = "find" /\ poll'[q].since = Since
    BY <1>0, <1>2 DEF TypeOK, AuditsTyped
  <2>2. ASSUME NEW q \in Poller, poll'[q] = poll[q]
        PROVE  FoundRows(q)' = FoundRows(q)
    BY <1>2, <2>2 DEF FoundRows, RowsSince
  <2> QED
    BY <1>0, <1>4, <1>7, <2>1, <2>2 DEF PollsSeen
<1> QED
  BY <1>3, <1>5, <1>8 DEF LogInv

(* A poll takes the rows found with it, or is over. *)
LEMMA FindStep ==
    ASSUME LogInv, TypeOK', NEW p \in Poller, PollFinds(p)
    PROVE  LogInv'
<1>0. TypeOK /\ LaterRounds /\ OnlyPerformed /\ StoredSeen /\ PollsSeen
  BY DEF LogInv
<1>1. /\ lastAuditAt \in Int /\ windowStart \in Int /\ poll \in [Poller -> Poll]
      /\ \A q \in Poller : poll[q].since \in Int
  BY <1>0, RowTypes DEF TypeOK, AuditsTyped
<1>2. UNCHANGED <<round, task, unlogged, rows, lastAuditAt, balanceKeys, windowStart>>
  BY DEF PollFinds, audits
<1>3. LaterRounds' /\ OnlyPerformed'
  BY <1>0, <1>2 DEF LaterRounds, OnlyPerformed
<1>4. SeenTimes \subseteq SeenTimes'
  BY <1>1, <1>2, <1>0, SeenStays
<1>5. StoredSeen'
  BY <1>0, <1>1, <1>2, <1>4 DEF StoredSeen
<1>6. /\ \A q \in Poller \ {p} : poll'[q] = poll[q]
      /\ \/ poll'[p].at = "idle"
         \/ /\ poll[p].at = "find" /\ poll'[p].at = "exec" /\ poll'[p].since = poll[p].since
            /\ poll'[p].upTo = Len(rows) /\ RowsSince(poll[p].since, Len(rows)) # {}
  BY <1>1 DEF PollFinds, NoPoll, Poll
<1>7. \A q \in Poller \ {p} : FoundRows(q)' = FoundRows(q)
  BY <1>2, <1>6 DEF FoundRows, RowsSince
<1>8. poll'[p].at = "exec" => FoundRows(p)' # {}
  BY <1>2, <1>6 DEF FoundRows, RowsSince
<1>9. \A q \in Poller : poll'[q].at # "idle" => /\ poll'[q].since = poll[q].since
                                                /\ poll[q].at # "idle"
  BY <1>6
<1>10. PollsSeen'
  BY <1>0, <1>4, <1>6, <1>7, <1>8, <1>9 DEF PollsSeen
<1> QED
  BY <1>3, <1>5, <1>10 DEF LogInv

(* The time stored is that of a row the poll has found: what came behind   *)
(* that row is written late, what the poll did not look at was seen        *)
(* before, and the rest gets its keys.                                     *)
LEMMA StoreStep ==
    ASSUME LogInv, TypeOK', NEW p \in Poller, PollStores(p)
    PROVE  LogInv'
<1>0. TypeOK /\ LaterRounds /\ OnlyPerformed /\ StoredSeen /\ PollsSeen
  BY DEF LogInv
<1>1. /\ DOMAIN rows = 1..Len(rows) /\ Len(rows) \in Nat
      /\ lastAuditAt \in Int /\ windowStart \in Int /\ poll \in [Poller -> Poll]
      /\ \A n \in DOMAIN rows : task[rows[n]].time \in Int
      /\ \A q \in Poller : poll[q].since \in Int /\ poll[q].upTo \in 0..Len(rows)
  BY <1>0, RowTypes DEF TypeOK, AuditsTyped
<1>2. /\ UNCHANGED <<round, task, unlogged, rows, windowStart>>
      /\ balanceKeys \subseteq balanceKeys' /\ poll' = [poll EXCEPT ![p] = NoPoll]
  BY DEF PollStores, audits
<1>3. LaterRounds' /\ OnlyPerformed'
  BY <1>0, <1>2 DEF LaterRounds, OnlyPerformed
<1>4. SeenTimes \subseteq SeenTimes'
  BY <1>0, <1>1, <1>2, SeenStays
<1>5. StoredSeen'
  <2>1. CASE UNCHANGED <<lastAuditAt, balanceKeys>>
    BY <1>0, <1>1, <1>4, <2>1 DEF StoredSeen
  <2>2. CASE RememberNewest(p) /\ balanceKeys' = balanceKeys \union
                  {rows[n][2] : n \in {k \in FoundRows(p) : task[rows[k]].balancePass}}
    <3>1. PICK k \in FoundRows(p) : lastAuditAt' = task[rows[k]].time
      BY <2>2 DEF RememberNewest
    <3>2. /\ k \in 1..poll[p].upTo /\ k \in DOMAIN rows /\ lastAuditAt' \in Int
          /\ poll[p].since \in SeenTimes /\ poll[p].since \in Int
      BY <1>0, <1>1, <3>1 DEF FoundRows, RowsSince, PollStores, PollsSeen
    <3>3. \E n \in DOMAIN rows : task[rows[n]].time = lastAuditAt'
      BY <3>1, <3>2
    <3>4. ASSUME NEW n \in DOMAIN rows, task[rows[n]].time <= lastAuditAt', ~Excepted(n)
          PROVE  rows[n][2] \in balanceKeys'
      <4>1. CASE task[rows[n]].time <= poll[p].since
        BY <1>2, <3>2, <3>4, <4>1 DEF SeenTimes, Covered
      <4>2. CASE n \in FoundRows(p)
        BY <2>2, <3>4, <4>2 DEF Excepted
      <4>3. CASE n > poll[p].upTo
        <5>1. k \in 1..(n - 1) /\ task[rows[k]].time >= task[rows[n]].time
          BY <1>1, <3>1, <3>2, <3>4, <4>3
        <5> QED
          BY <3>4, <5>1 DEF Excepted, WrittenLate
      <4> QED
        BY <1>1, <3>2, <4>1, <4>2, <4>3 DEF FoundRows, RowsSince
    <3>5. \A n \in DOMAIN rows : Excepted(n)' <=> Excepted(n)
      BY <1>1, <1>2 DEF Excepted, WrittenLate, BeforeWindow
    <3>6. ASSUME NEW t \in Int, \E n \in DOMAIN rows : task[rows[n]].time = t,
                 \A n \in DOMAIN rows : task[rows[n]].time <= t =>
                                            Excepted(n)' \/ rows[n][2] \in balanceKeys'
          PROVE  t \in SeenTimes'
      BY <1>2, <3>6 DEF SeenTimes, Reached, Covered
    <3> QED
      BY <3>2, <3>3, <3>4, <3>5, <3>6 DEF StoredSeen
  <2> QED
    BY <2>1, <2>2 DEF PollStores
<1>6. /\ \A q \in Poller \ {p} : poll'[q] = poll[q]
      /\ poll'[p].at = "idle"
  BY <1>1, <1>2 DEF NoPoll
<1>7. \A q \in Poller \ {p} : FoundRows(q)' = FoundRows(q)
  BY <1>2, <1>6 DEF FoundRows, RowsSince
<1>8. PollsSeen'
  BY <1>0, <1>1, <1>4, <1>6, <1>7 DEF PollsSeen
<1> QED
  BY <1>3, <1>5, <1>8 DEF LogInv

(* Every step keeps what is known of the log. *)
LEMMA StepLog == LogInv /\ [Next]_vars => LogInv'
<1> SUFFICES ASSUME LogInv, [Next]_vars
             PROVE  LogInv'
  OBVIOUS
<1>1. TypeOK /\ TypeOK'
  BY StepTypes DEF LogInv
<1>2. ASSUME UNCHANGED <<round, task, unlogged, rows, polled>>
      PROVE  LogInv'
  <2>1. LaterRounds' /\ OnlyPerformed'
    BY <1>2 DEF LogInv, LaterRounds, OnlyPerformed
  <2>2. StoredSeen' /\ PollsSeen'
    BY <1>1, <1>2, SeenKept
  <2> QED
    BY <1>1, <2>1, <2>2 DEF LogInv
<1>3. ASSUME NEW a \in Audit, UpdateAuditScore(a)
      PROVE  LogInv'
  BY <1>2, <1>3 DEF UpdateAuditScore
<1>4. ASSUME AuditStep
      PROVE  LogInv'
  BY <1>1, <1>3, <1>4, TaskSteps, WriteStep, ReadStep, FindStep, StoreStep DEF AuditStep, PollStep
<1>5. ASSUME ServiceStep
      PROVE  LogInv'
  BY <1>2, <1>5 DEF ServiceStep, Tick, SessionExpires, GainLeadership, LeadershipError, RewardStep,
                    RewardTrigger, SelectNode, PublishReward, ResetScore, audits
<1>6. ASSUME ConsumerStep
      PROVE  LogInv'
  BY <1>2, <1>6 DEF ConsumerStep, CalendarStep, DeliverReward, TransferReward,
                    TransferUnanswered, CreateRewardBlock, LoseCalendarChannel, CrashCalendar,
                    audits
<1>7. CASE UNCHANGED vars
  BY <1>2, <1>7 DEF vars, audits
<1>8. Next => AuditStep \/ ServiceStep \/ ConsumerStep
  BY DEF Next, AuditStep, ServiceStep, ConsumerStep
<1> QED
  BY <1>4, <1>5, <1>6, <1>7, <1>8

(* Whatever the order in which rows arrive, and however polls overlap,     *)
(* fail and set the time back: the time stored passes no passed balance    *)
(* check without a key, but those in rows written behind one that is as    *)
(* new or newer, and those before the window of a poll that found no       *)
(* stored time.                                                            *)
THEOREM PollMissesOnlyLate == Spec => []BalanceChecksSeen
<1>1. Spec => []LogInv
  BY InitLog, StepLog, PTL DEF Spec
<1> QED
  BY <1>1, LogSeen, PTL

-----------------------------------------------------------------------------
(* Rewards, payments and resets are counted.  Each count is bounded with   *)
(* what may still be added to it: by the instances that are about to send  *)
(* a reward and the leadership that is to be had, by the handlers that are *)
(* about to pay or to write a block and the message that will be delivered *)
(* again, and by the instances that are about to reset a score.            *)

(* Lemmas on finite sets: a set that gets no new element, at most one, or  *)
(* that loses one.                                                         *)
LEMMA NoneAdded ==
    ASSUME NEW S, NEW T, IsFiniteSet(S), T \subseteq S
    PROVE  /\ IsFiniteSet(T) /\ Cardinality(T) \in Nat /\ Cardinality(S) \in Nat
           /\ Cardinality(T) <= Cardinality(S)
BY FS_Subset, FS_CardinalityType

LEMMA OneAdded ==
    ASSUME NEW S, NEW T, NEW x, IsFiniteSet(S), T \subseteq S \union {x}
    PROVE  /\ IsFiniteSet(T) /\ Cardinality(T) \in Nat /\ Cardinality(S) \in Nat
           /\ Cardinality(T) <= Cardinality(S) + 1
<1>1. /\ IsFiniteSet(S \union {x}) /\ Cardinality(S) \in Nat
      /\ Cardinality(S \union {x}) <= Cardinality(S) + 1
  <2>1. Cardinality(S) \in Nat
    BY FS_CardinalityType
  <2>2. /\ IsFiniteSet(S \union {x})
        /\ Cardinality(S \union {x}) = IF x \in S THEN Cardinality(S) ELSE Cardinality(S) + 1
    BY FS_AddElement
  <2> QED
    BY <2>1, <2>2
<1>2. /\ IsFiniteSet(T) /\ Cardinality(T) \in Nat /\ Cardinality(S \union {x}) \in Nat
      /\ Cardinality(T) <= Cardinality(S \union {x})
  BY <1>1, NoneAdded
<1> QED
  BY <1>1, <1>2

LEMMA OneRemoved ==
    ASSUME NEW S, NEW T, NEW x \in S, IsFiniteSet(S), T \subseteq S \ {x}
    PROVE  /\ IsFiniteSet(T) /\ Cardinality(T) \in Nat /\ Cardinality(S) \in Nat
           /\ Cardinality(T) + 1 <= Cardinality(S)
<1>1. /\ IsFiniteSet(S \ {x}) /\ Cardinality(S) \in Nat
      /\ Cardinality(S \ {x}) = Cardinality(S) - 1
  BY FS_RemoveElement, FS_CardinalityType
<1>2. /\ IsFiniteSet(T) /\ Cardinality(T) \in Nat /\ Cardinality(S \ {x}) \in Nat
      /\ Cardinality(T) <= Cardinality(S \ {x})
  BY <1>1, NoneAdded
<1> QED
  BY <1>1, <1>2

(* Who believes that it leads, and who sends a reward, or will, in the     *)
(* current period.                                                         *)
Vacant == IF holder = NoService THEN 1 ELSE 0
Leaders == {s \in Service : IS_LEADER[s]}
Claimants ==
    {s \in Service : \/ IS_LEADER[s] /\ currentMinute[s] # minute
                     \/ reward[s].at \in {"select", "publish"}}

PeriodInv ==
    /\ IsFiniteSet(Leaders) /\ IsFiniteSet(Claimants)
    /\ Cardinality(Leaders) + Vacant <= 1 + faults
    /\ Cardinality(RewardsOf(minute)) + Cardinality(Claimants) + Vacant <= 1 + faults
    /\ \A t \in 1..MaxMinute : Cardinality(RewardsOf(t)) <= 1 + faults
    /\ \A m \in DOMAIN messages : messages[m].minute <= minute
    /\ \A s \in Service : reward[s] # Idle => currentMinute[s] = minute

InTransfer(m) == {h \in handlers : h.msg = m /\ h.at = "transfer"}
InBlock(m) == {h \in handlers : h.msg = m /\ h.at = "block"}
Ready(m) == IF messages[m].at = "ready" THEN 1 ELSE 0

PaidOnce(m) == paid[m] + Cardinality(InTransfer(m)) + Ready(m) <= 1 + excused[m]
BlockPaid(m) == blocks[m] + Cardinality(InBlock(m)) <= paid[m]

PaymentInv == IsFiniteSet(handlers) /\ \A m \in DOMAIN messages : PaidOnce(m) /\ BlockPaid(m)

ToReset(n) == {s \in Service : reward[s].at = "reset" /\ reward[s].node = n}
MessagesTo(n) == {m \in DOMAIN messages : messages[m].node = n}

ResetInv ==
    \A n \in Node :
        /\ IsFiniteSet(ToReset(n))
        /\ resets[n] + Cardinality(ToReset(n)) <= Cardinality(MessagesTo(n)) + lostRewards[n]

RewardInv == TypeOK /\ PeriodInv /\ PaymentInv /\ ResetInv

(* Nothing is counted at first. *)
LEMMA InitReward == Init => RewardInv
<1> SUFFICES ASSUME Init
             PROVE  RewardInv
  OBVIOUS
<1>1. /\ messages = <<>> /\ handlers = {} /\ faults = 0 /\ holder = NoService /\ minute = 1
      /\ \A s \in Service : ~IS_LEADER[s] /\ reward[s] = Idle
      /\ \A n \in Node : resets[n] = 0 /\ lostRewards[n] = 0
      /\ DOMAIN messages = {}
  BY DEF Init
<1>2. /\ Leaders = {} /\ Claimants = {} /\ \A t : RewardsOf(t) = {}
      /\ \A n : ToReset(n) = {} /\ MessagesTo(n) = {}
  BY <1>1 DEF Leaders, Claimants, RewardsOf, ToReset, MessagesTo, Idle
<1>3. IsFiniteSet({}) /\ Cardinality({}) = 0
  BY FS_EmptySet
<1>0. /\ IsFiniteSet(Leaders) /\ Cardinality(Leaders) = 0
      /\ IsFiniteSet(Claimants) /\ Cardinality(Claimants) = 0
  BY <1>2, <1>3
<1>a. \A t : Cardinality(RewardsOf(t)) = 0
  BY <1>2, <1>3
<1>b. \A n : /\ IsFiniteSet(ToReset(n)) /\ Cardinality(ToReset(n)) = 0
             /\ Cardinality(MessagesTo(n)) = 0
  BY <1>2, <1>3
<1>4. PeriodInv
  <2>1. Cardinality(RewardsOf(minute)) = 0
    BY <1>a
  <2> QED
    BY <1>0, <1>1, <1>a, <2>1 DEF PeriodInv, Vacant
<1>5. PaymentInv
  BY <1>1, <1>3 DEF PaymentInv
<1>6. ResetInv
  BY <1>1, <1>b DEF ResetInv
<1> QED
  BY <1>4, <1>5, <1>6, InitTypes DEF RewardInv

(* Messages keep their Node and their period. *)
SameRewards ==
    /\ DOMAIN messages' = DOMAIN messages
    /\ \A m \in DOMAIN messages :
          messages'[m].minute = messages[m].minute /\ messages'[m].node = messages[m].node

LEMMA SameRewardsCounted ==
    ASSUME SameRewards
    PROVE  /\ \A t : RewardsOf(t)' = RewardsOf(t)
           /\ \A n : MessagesTo(n)' = MessagesTo(n)
BY DEF SameRewards, RewardsOf, MessagesTo

(* A message changes its place, and nothing else. *)
LEMMA PlaceChanges ==
    ASSUME PaymentsTyped, NEW m \in DOMAIN messages, NEW place,
           messages' = [messages EXCEPT ![m].at = place]
    PROVE  /\ SameRewards /\ messages'[m].at = place
           /\ \A k \in DOMAIN messages : k # m => messages'[k] = messages[k]
<1>1. messages[m] \in RewardMessage /\ messages \in [DOMAIN messages -> RewardMessage]
  BY LenProperties, ElementOfSeq DEF PaymentsTyped
<1> QED
  BY <1>1 DEF SameRewards, RewardMessage

(* A count is a number; the messages of a period, or to a Node, are finite *)
(* in number.                                                              *)
LEMMA CountTypes ==
    ASSUME TypeOK
    PROVE  /\ faults \in Nat /\ minute \in Nat
           /\ DOMAIN messages = 1..Len(messages) /\ Len(messages) \in Nat
           /\ \A counts \in {paid, blocks, excused} :
                 \A m \in DOMAIN messages : m \in DOMAIN counts /\ counts[m] \in Nat
           /\ \A t : IsFiniteSet(RewardsOf(t)) /\ Cardinality(RewardsOf(t)) \in Nat
           /\ \A n : IsFiniteSet(MessagesTo(n)) /\ Cardinality(MessagesTo(n)) \in Nat
<1>1. faults \in Nat /\ minute \in Nat
  BY BoundsAssumption DEF TypeOK, AuditsTyped
<1>2. DOMAIN messages = 1..Len(messages) /\ Len(messages) \in Nat
  BY LenProperties DEF TypeOK, PaymentsTyped
<1>3. ASSUME NEW counts \in {paid, blocks, excused}, NEW m \in DOMAIN messages
      PROVE  m \in DOMAIN counts /\ counts[m] \in Nat
  <2>1. counts \in Seq(Nat) /\ Len(counts) = Len(messages)
    BY DEF TypeOK, PaymentsTyped
  <2>2. DOMAIN counts = 1..Len(messages)
    BY <2>1, LenProperties
  <2> QED
    BY <1>2, <2>1, <2>2, ElementOfSeq
<1>4. IsFiniteSet(DOMAIN messages)
  BY <1>2, FS_Interval
<1>5. \A t : IsFiniteSet(RewardsOf(t)) /\ Cardinality(RewardsOf(t)) \in Nat
  BY <1>4, NoneAdded DEF RewardsOf
<1>6. \A n : IsFiniteSet(MessagesTo(n)) /\ Cardinality(MessagesTo(n)) \in Nat
  BY <1>4, NoneAdded DEF MessagesTo
<1> QED
  BY <1>1, <1>2, <1>3, <1>5, <1>6

-----------------------------------------------------------------------------
(* The rewards of a period. *)

(* What is bounded stays so in a step that adds no reward and counts no    *)
(* more than the faults it costs.                                          *)
LEMMA PeriodStep ==
    ASSUME TypeOK, TypeOK', PeriodInv, SameRewards, minute' = minute, faults' >= faults,
           IsFiniteSet(Leaders'), IsFiniteSet(Claimants'),
           Cardinality(Leaders') + Vacant' + faults <= Cardinality(Leaders) + Vacant + faults',
           Cardinality(Claimants') + Vacant' + faults
              <= Cardinality(Claimants) + Vacant + faults',
           \A s \in Service : reward'[s] # Idle => currentMinute'[s] = minute
    PROVE  PeriodInv'
<1>1. faults \in Nat /\ \A t : Cardinality(RewardsOf(t)) \in Nat
  BY CountTypes
<1>2. faults' \in Nat /\ Vacant \in {0, 1} /\ Vacant' \in {0, 1}
  BY BoundsAssumption DEF TypeOK, Vacant
<1>3. /\ Cardinality(Leaders) \in Nat /\ Cardinality(Claimants) \in Nat
      /\ Cardinality(Leaders') \in Nat /\ Cardinality(Claimants') \in Nat
  BY FS_CardinalityType DEF PeriodInv
<1>4. /\ \A t : RewardsOf(t)' = RewardsOf(t)
      /\ RewardsOf(minute)' = RewardsOf(minute)
  BY SameRewardsCounted DEF RewardsOf
<1>5. Cardinality(Leaders') + Vacant' <= 1 + faults'
  BY <1>1, <1>2, <1>3 DEF PeriodInv
<1>6. Cardinality(RewardsOf(minute)') + Cardinality(Claimants') + Vacant' <= 1 + faults'
  <2>1. Cardinality(RewardsOf(minute)) \in Nat
    BY <1>1
  <2>2. Cardinality(RewardsOf(minute)) + Cardinality(Claimants) + Vacant <= 1 + faults
    BY DEF PeriodInv
  <2> QED
    BY <1>1, <1>2, <1>3, <1>4, <2>1, <2>2
<1>7. \A t \in 1..MaxMinute : Cardinality(RewardsOf(t)') <= 1 + faults'
  <2> SUFFICES ASSUME NEW t \in 1..MaxMinute
               PROVE  Cardinality(RewardsOf(t)') <= 1 + faults'
    OBVIOUS
  <2>1. Cardinality(RewardsOf(t)) \in Nat /\ Cardinality(RewardsOf(t)) <= 1 + faults
    BY <1>1 DEF PeriodInv
  <2> QED
    BY <1>1, <1>2, <1>4, <2>1
<1>8. \A m \in DOMAIN messages' : messages'[m].minute <= minute'
  BY DEF PeriodInv, SameRewards
<1> QED
  BY <1>5, <1>6, <1>7, <1>8 DEF PeriodInv

(* Audits, payments and resets do not count. *)
LEMMA PeriodKept ==
    ASSUME TypeOK, TypeOK', PeriodInv, SameRewards, faults' >= faults,
           UNCHANGED <<minute, holder, IS_LEADER, currentMinute, reward>>
    PROVE  PeriodInv'
<1>1. Leaders' = Leaders /\ Claimants' = Claimants /\ Vacant' = Vacant
  BY DEF Leaders, Claimants, Vacant
<1>2. faults \in Nat /\ faults' \in Nat /\ Vacant \in {0, 1}
  BY BoundsAssumption DEF TypeOK, Vacant
<1>3. /\ IsFiniteSet(Leaders) /\ IsFiniteSet(Claimants)
      /\ Cardinality(Leaders) \in Nat /\ Cardinality(Claimants) \in Nat
      /\ \A s \in Service : reward[s] # Idle => currentMinute[s] = minute
  BY FS_CardinalityType DEF PeriodInv
<1> QED
  BY <1>1, <1>2, <1>3, PeriodStep

(* Leadership changes hands. *)
LEMMA PeriodLeaders ==
    ASSUME TypeOK, TypeOK', PeriodInv,
           SessionExpires \/ \E s \in Service : GainLeadership(s) \/ LeadershipError(s)
    PROVE  PeriodInv'
<1>1. /\ SameRewards /\ minute' = minute
      /\ \A s \in Service : reward'[s] # Idle => currentMinute'[s] = minute
  BY DEF SessionExpires, GainLeadership, LeadershipError, paying, SameRewards, PeriodInv
<1>2. faults \in Nat /\ faults' \in Nat
  BY BoundsAssumption DEF TypeOK
<1>3. IsFiniteSet(Leaders) /\ IsFiniteSet(Claimants)
  BY DEF PeriodInv
<1>4. IS_LEADER \in [Service -> BOOLEAN]
  BY DEF TypeOK, RewardsTyped
<1>5. CASE SessionExpires
  <2>1. /\ Leaders' = Leaders /\ Claimants' = Claimants /\ Vacant = 0 /\ Vacant' = 1
        /\ faults' = faults + 1
    BY <1>5 DEF SessionExpires, Leaders, Claimants, Vacant, Fault
  <2>2. Cardinality(Leaders) \in Nat /\ Cardinality(Claimants) \in Nat
    BY <1>3, FS_CardinalityType
  <2> QED
    BY <1>1, <1>2, <1>3, <2>1, <2>2, PeriodStep
<1>6. ASSUME NEW s \in Service, GainLeadership(s)
      PROVE  PeriodInv'
  <2>1. /\ Leaders' \subseteq Leaders \union {s} /\ Claimants' \subseteq Claimants \union {s}
        /\ faults' = faults
    BY <1>4, <1>6 DEF GainLeadership, Leaders, Claimants
  <2>2. Vacant = 1 /\ Vacant' = 0
    BY <1>6, NoServiceAssumption DEF GainLeadership, Vacant
  <2>3. /\ IsFiniteSet(Leaders') /\ Cardinality(Leaders') \in Nat /\ Cardinality(Leaders) \in Nat
        /\ Cardinality(Leaders') <= Cardinality(Leaders) + 1
    BY <1>3, <2>1, OneAdded
  <2>4. /\ IsFiniteSet(Claimants') /\ Cardinality(Claimants') \in Nat
        /\ Cardinality(Claimants) \in Nat
        /\ Cardinality(Claimants') <= Cardinality(Claimants) + 1
    BY <1>3, <2>1, OneAdded
  <2> QED
    BY <1>1, <1>2, <2>1, <2>2, <2>3, <2>4, PeriodStep
<1>7. ASSUME NEW s \in Service, LeadershipError(s)
      PROVE  PeriodInv'
  <2>1. /\ Leaders' \subseteq Leaders /\ Claimants' \subseteq Claimants
        /\ faults' = faults /\ Vacant' = Vacant /\ Vacant \in {0, 1}
    BY <1>4, <1>7 DEF LeadershipError, Leaders, Claimants, Vacant
  <2>2. /\ IsFiniteSet(Leaders') /\ Cardinality(Leaders') \in Nat /\ Cardinality(Leaders) \in Nat
        /\ Cardinality(Leaders') <= Cardinality(Leaders)
    BY <1>3, <2>1, NoneAdded
  <2>3. /\ IsFiniteSet(Claimants') /\ Cardinality(Claimants') \in Nat
        /\ Cardinality(Claimants) \in Nat
        /\ Cardinality(Claimants') <= Cardinality(Claimants)
    BY <1>3, <2>1, NoneAdded
  <2> QED
    BY <1>1, <1>2, <2>1, <2>2, <2>3, PeriodStep
<1> QED
  BY <1>5, <1>6, <1>7

(* The steps of a reward that send nothing.  An instance that notes the    *)
(* new period has a claim only if it led.                                  *)
LEMMA PeriodUnsent ==
    ASSUME TypeOK, TypeOK', PeriodInv, NEW s \in Service, RewardStep(s),
           messages' = messages
    PROVE  PeriodInv'
<1>1. reward \in [Service -> Reward] /\ currentMinute \in [Service -> 1..MaxMinute]
  BY DEF TypeOK, RewardsTyped
<1>2. faults \in Nat /\ faults' \in Nat /\ Vacant \in {0, 1}
  BY BoundsAssumption DEF TypeOK, Vacant
<1>3. UNCHANGED <<minute, holder, IS_LEADER>> /\ faults' >= faults
  BY <1>2 DEF RewardStep, RewardTrigger, SelectNode, PublishReward, SendReward, LoseReward,
              ResetScore, Fault, NoFault
<1>4. /\ \A r \in Service \ {s} :
            reward'[r] = reward[r] /\ currentMinute'[r] = currentMinute[r]
      /\ \/ currentMinute'[s] = minute
         \/ currentMinute'[s] = currentMinute[s] /\ reward[s] # Idle
      /\ \/ reward'[s].at \notin {"select", "publish"}
         \/ reward[s].at \in {"select", "publish"}
         \/ IS_LEADER[s] /\ currentMinute[s] # minute
  <2>1. CASE RewardTrigger(s)
    BY <1>1, <2>1 DEF RewardTrigger, RememberMinute, Idle
  <2>2. CASE SelectNode(s)
    BY <1>1, <2>2 DEF SelectNode, Idle
  <2>3. CASE PublishReward(s)
    BY <1>1, <2>3 DEF PublishReward, Idle
  <2>4. CASE ResetScore(s)
    BY <1>1, <2>4 DEF ResetScore, Idle
  <2> QED
    BY <2>1, <2>2, <2>3, <2>4 DEF RewardStep
<1>5. /\ currentMinute'[s] = minute
      /\ \A r \in Service : reward'[r] # Idle => currentMinute'[r] = minute
  BY <1>4 DEF PeriodInv
<1>6. Leaders' = Leaders /\ Claimants' \subseteq Claimants /\ Vacant' = Vacant /\ SameRewards
  BY <1>3, <1>4, <1>5 DEF Leaders, Claimants, Vacant, SameRewards
<1>7. /\ IsFiniteSet(Claimants') /\ Cardinality(Claimants') \in Nat
      /\ Cardinality(Claimants) \in Nat
      /\ Cardinality(Claimants') <= Cardinality(Claimants)
  BY <1>6, NoneAdded DEF PeriodInv
<1>8. IsFiniteSet(Leaders) /\ Cardinality(Leaders) \in Nat
  BY FS_CardinalityType DEF PeriodInv
<1> QED
  BY <1>2, <1>3, <1>5, <1>6, <1>7, <1>8, PeriodStep

(* A reward that is sent: its instance has no other claim. *)
LEMMA SendAppends ==
    ASSUME TypeOK, NEW s \in Service, SendReward(s), NEW n, n = Len(messages) + 1
    PROVE  /\ DOMAIN messages' = DOMAIN messages \union {n} /\ n \notin DOMAIN messages
           /\ messages'[n] = Message(reward[s].node, minute)
           /\ \A m \in DOMAIN messages : messages'[m] = messages[m]
           /\ paid'[n] = 0 /\ blocks'[n] = 0 /\ excused'[n] = 0
           /\ \A m \in DOMAIN messages :
                 /\ paid'[m] = paid[m] /\ blocks'[m] = blocks[m]
                 /\ excused'[m] = excused[m]
<1>1. /\ messages \in Seq(RewardMessage) /\ paid \in Seq(Nat) /\ blocks \in Seq(Nat)
      /\ excused \in Seq(Nat)
      /\ Len(paid) = Len(messages) /\ Len(blocks) = Len(messages)
      /\ Len(excused) = Len(messages)
  BY DEF TypeOK, PaymentsTyped
<1>2. DOMAIN messages = 1..Len(messages) /\ Len(messages) \in Nat
  BY CountTypes
<1>3. /\ messages' = Append(messages, Message(reward[s].node, minute))
      /\ paid' = Append(paid, 0) /\ blocks' = Append(blocks, 0) /\ excused' = Append(excused, 0)
  BY DEF SendReward
<1>4. /\ DOMAIN messages' = 1..(Len(messages) + 1)
      /\ messages'[Len(messages) + 1] = Message(reward[s].node, minute)
      /\ \A m \in 1..Len(messages) : messages'[m] = messages[m]
  <2>1. Message(reward[s].node, minute) \in RewardMessage \union {Message(reward[s].node, minute)}
    OBVIOUS
  <2>2. messages \in Seq(RewardMessage \union {Message(reward[s].node, minute)})
    BY <1>1
  <2> QED
    BY <1>3, <2>1, <2>2, AppendProperties
<1>5. /\ paid'[Len(messages) + 1] = 0 /\ \A m \in 1..Len(messages) : paid'[m] = paid[m]
      /\ blocks'[Len(messages) + 1] = 0 /\ \A m \in 1..Len(messages) : blocks'[m] = blocks[m]
      /\ excused'[Len(messages) + 1] = 0
      /\ \A m \in 1..Len(messages) : excused'[m] = excused[m]
  BY <1>1, <1>2, <1>3, AppendProperties
<1> QED
  BY <1>2, <1>4, <1>5

LEMMA PeriodSent ==
    ASSUME TypeOK, TypeOK', PeriodInv, NEW s \in Service, PublishReward(s), SendReward(s)
    PROVE  PeriodInv'
<1> PICK n : n = Len(messages) + 1
  OBVIOUS
<1>1. /\ DOMAIN messages' = DOMAIN messages \union {n}
      /\ messages'[n].minute = minute
      /\ \A m \in DOMAIN messages : messages'[m] = messages[m]
  <2>1. Message(reward[s].node, minute).minute = minute
    BY DEF Message
  <2> QED
    BY <2>1, SendAppends
<1>2. reward \in [Service -> Reward] /\ minute \in 1..MaxMinute /\ MaxMinute \in Nat
  BY BoundsAssumption DEF TypeOK, RewardsTyped, AuditsTyped
<1>3. faults' = faults \/ faults' = faults + 1
  BY DEF PublishReward, Fault, LoseReward
<1>4. faults \in Nat /\ faults' \in Nat /\ faults' >= faults /\ Vacant \in {0, 1}
  BY <1>3, BoundsAssumption DEF TypeOK, Vacant
<1>5. /\ UNCHANGED <<minute, holder, IS_LEADER, currentMinute>>
      /\ reward[s].at = "publish" /\ reward'[s].at \notin {"select", "publish"}
      /\ \A r \in Service \ {s} : reward'[r] = reward[r]
  <2>1. /\ UNCHANGED <<minute, holder, IS_LEADER, currentMinute>> /\ reward[s].at = "publish"
        /\ \/ reward' = [reward EXCEPT ![s].at = "reset"]
           \/ reward' = [reward EXCEPT ![s] = Idle]
    BY DEF PublishReward
  <2>2. reward[s] \in Reward
    BY <1>2
  <2> QED
    BY <1>2, <2>1, <2>2 DEF Idle, Reward
<1>6. currentMinute[s] = minute
  BY <1>5 DEF PeriodInv, Idle
<1>7. /\ Leaders' = Leaders /\ Vacant' = Vacant
      /\ s \in Claimants /\ Claimants' \subseteq Claimants \ {s}
  BY <1>5, <1>6 DEF Leaders, Claimants, Vacant
<1>8. /\ IsFiniteSet(Claimants') /\ Cardinality(Claimants') \in Nat
      /\ Cardinality(Claimants) \in Nat
      /\ Cardinality(Claimants') + 1 <= Cardinality(Claimants)
  BY <1>7, OneRemoved DEF PeriodInv
<1>9. \A t \in 1..MaxMinute :
         RewardsOf(t)' \subseteq IF t = minute THEN RewardsOf(t) \union {n} ELSE RewardsOf(t)
  BY <1>1 DEF RewardsOf
<1>10. RewardsOf(minute)' \subseteq RewardsOf(minute) \union {n}
  BY <1>1, <1>5 DEF RewardsOf
<1>11. /\ Cardinality(RewardsOf(minute)') <= Cardinality(RewardsOf(minute)) + 1
       /\ Cardinality(RewardsOf(minute)') \in Nat /\ Cardinality(RewardsOf(minute)) \in Nat
  BY <1>10, CountTypes, OneAdded
<1>12. Cardinality(RewardsOf(minute)') + Cardinality(Claimants') + Vacant' <= 1 + faults'
  <2>1. Cardinality(RewardsOf(minute)) + Cardinality(Claimants) + Vacant <= 1 + faults
    BY DEF PeriodInv
  <2> QED
    BY <1>4, <1>7, <1>8, <1>11, <2>1
<1>13. ASSUME NEW t \in 1..MaxMinute
       PROVE  Cardinality(RewardsOf(t)') <= 1 + faults'
  <2>1. CASE t = minute
    <3>1. RewardsOf(t)' = RewardsOf(minute)'
      BY <1>5, <2>1 DEF RewardsOf
    <3>2. Vacant' \in Nat /\ Cardinality(Claimants') \in Nat
      BY <1>4, <1>7, <1>8
    <3> QED
      BY <1>4, <1>11, <1>12, <3>1, <3>2
  <2>2. CASE t # minute
    <3>1. RewardsOf(t)' \subseteq RewardsOf(t)
      BY <1>9, <2>2
    <3>2. /\ Cardinality(RewardsOf(t)') <= Cardinality(RewardsOf(t))
          /\ Cardinality(RewardsOf(t)') \in Nat /\ Cardinality(RewardsOf(t)) \in Nat
      BY <3>1, CountTypes, NoneAdded
    <3>3. Cardinality(RewardsOf(t)) <= 1 + faults
      BY DEF PeriodInv
    <3> QED
      BY <1>4, <3>2, <3>3
  <2> QED
    BY <2>1, <2>2
<1>14. Cardinality(Leaders') + Vacant' <= 1 + faults' /\ IsFiniteSet(Leaders')
  <2>1. Cardinality(Leaders) \in Nat
    BY FS_CardinalityType DEF PeriodInv
  <2> QED
    BY <1>4, <1>7, <2>1 DEF PeriodInv
<1>15. \A m \in DOMAIN messages' : messages'[m].minute <= minute'
  BY <1>1, <1>2, <1>5 DEF PeriodInv
<1>16. \A r \in Service : reward'[r] # Idle => currentMinute'[r] = minute'
  BY <1>5, <1>6 DEF PeriodInv
<1> QED
  BY <1>8, <1>12, <1>13, <1>14, <1>15, <1>16 DEF PeriodInv

(* In a new period those that lead have a claim, and nobody else. *)
LEMMA PeriodTick ==
    ASSUME TypeOK, TypeOK', PeriodInv, Tick
    PROVE  PeriodInv'
<1>1. /\ minute' = minute + 1 /\ minute \in Nat /\ faults' = faults
      /\ UNCHANGED <<holder, IS_LEADER, currentMinute, reward, messages>>
      /\ \A s \in Service : currentMinute[s] = minute /\ reward[s] = Idle
  BY CountTypes DEF Tick, rewarding, paying
<1>2. /\ faults \in Nat /\ Vacant \in {0, 1}
      /\ \A t : Cardinality(RewardsOf(t)) \in Nat
      /\ \A m \in DOMAIN messages : messages[m].minute \in Nat
  <2>1. \A m \in DOMAIN messages : messages[m] \in RewardMessage
    BY LenProperties, ElementOfSeq DEF TypeOK, PaymentsTyped
  <2> QED
    BY <2>1, CountTypes DEF Vacant, RewardMessage
<1>3. Leaders' = Leaders /\ Claimants' = Leaders /\ Vacant' = Vacant
  BY <1>1 DEF Leaders, Claimants, Vacant, Idle
<1>4. Cardinality(RewardsOf(minute)') = 0
  <2>1. RewardsOf(minute)' = {}
    BY <1>1, <1>2 DEF RewardsOf, PeriodInv
  <2> QED
    BY <2>1, FS_EmptySet
<1>5. \A t : RewardsOf(t)' = RewardsOf(t)
  BY <1>1 DEF RewardsOf
<1>6. \A m \in DOMAIN messages' : messages'[m].minute <= minute'
  BY <1>1, <1>2 DEF PeriodInv
<1>7. Cardinality(Leaders) \in Nat
  BY FS_CardinalityType DEF PeriodInv
<1> QED
  BY <1>1, <1>2, <1>3, <1>4, <1>5, <1>6, <1>7 DEF PeriodInv

-----------------------------------------------------------------------------
(* Payments and blocks. *)

(* What is counted for a message is finite. *)
LEMMA CallCounts ==
    ASSUME IsFiniteSet(handlers), NEW m
    PROVE  /\ IsFiniteSet(InTransfer(m)) /\ Cardinality(InTransfer(m)) \in Nat
           /\ IsFiniteSet(InBlock(m)) /\ Cardinality(InBlock(m)) \in Nat
           /\ Ready(m) \in {0, 1}
<1>1. InTransfer(m) \subseteq handlers /\ InBlock(m) \subseteq handlers
  BY DEF InTransfer, InBlock
<1> QED
  BY <1>1, NoneAdded DEF Ready

(* What is bounded for a message stays so when no more is counted. *)
LEMMA PaymentSame ==
    ASSUME TypeOK, PaymentInv, NEW m \in DOMAIN messages,
           paid'[m] = paid[m], blocks'[m] = blocks[m],
           IsFiniteSet(handlers'),
           Cardinality(InTransfer(m)') <= Cardinality(InTransfer(m)),
           Cardinality(InBlock(m)') <= Cardinality(InBlock(m)),
           NEW e \in {0, 1}, excused'[m] = excused[m] + e, Ready(m)' <= Ready(m) + e
    PROVE  PaidOnce(m)' /\ BlockPaid(m)'
<1>1. /\ paid[m] \in Nat /\ blocks[m] \in Nat /\ excused[m] \in Nat
      /\ PaidOnce(m) /\ BlockPaid(m)
  BY CountTypes DEF PaymentInv
<1>2. /\ Cardinality(InTransfer(m)) \in Nat /\ Cardinality(InBlock(m)) \in Nat
      /\ Ready(m) \in {0, 1}
  BY CallCounts DEF PaymentInv
<1>3. Ready(m)' \in {0, 1}
  BY DEF Ready
<1>4. Cardinality(InTransfer(m)') \in Nat /\ Cardinality(InBlock(m)') \in Nat
  <2>1. InTransfer(m)' \subseteq handlers' /\ InBlock(m)' \subseteq handlers'
    BY DEF InTransfer, InBlock
  <2> QED
    BY <2>1, NoneAdded
<1> QED
  BY <1>1, <1>2, <1>3, <1>4 DEF PaidOnce, BlockPaid

(* A step that does not touch the payments. *)
LEMMA PaymentsUntouched ==
    ASSUME PaymentInv, UNCHANGED <<messages, handlers, paid, blocks, excused>>
    PROVE  PaymentInv'
BY DEF PaymentInv, PaidOnce, BlockPaid, InTransfer, InBlock, Ready

(* A new message has not been paid, and has no handler. *)
LEMMA PaymentSent ==
    ASSUME TypeOK, PaymentInv, NEW s \in Service, SendReward(s), handlers' = handlers
    PROVE  PaymentInv'
<1> PICK n : n = Len(messages) + 1
  OBVIOUS
<1>1. /\ DOMAIN messages' = DOMAIN messages \union {n} /\ n \notin DOMAIN messages
      /\ messages'[n] = Message(reward[s].node, minute)
      /\ \A m \in DOMAIN messages : messages'[m] = messages[m]
      /\ paid'[n] = 0 /\ blocks'[n] = 0 /\ excused'[n] = 0
      /\ \A m \in DOMAIN messages :
            paid'[m] = paid[m] /\ blocks'[m] = blocks[m] /\ excused'[m] = excused[m]
  BY SendAppends
<1>2. \A m : InTransfer(m)' = InTransfer(m) /\ InBlock(m)' = InBlock(m)
  BY DEF InTransfer, InBlock
<1>3. PaidOnce(n)' /\ BlockPaid(n)'
  <2>1. InTransfer(n)' = {} /\ InBlock(n)' = {}
    BY <1>1, <1>2 DEF InTransfer, InBlock, TypeOK, PaymentsTyped
  <2>2. Cardinality(InTransfer(n)') = 0 /\ Cardinality(InBlock(n)') = 0
    BY <2>1, FS_EmptySet
  <2>3. Ready(n)' = 1
    BY <1>1 DEF Ready, Message
  <2> QED
    BY <1>1, <2>2, <2>3 DEF PaidOnce, BlockPaid
<1>4. ASSUME NEW m \in DOMAIN messages
      PROVE  PaidOnce(m)' /\ BlockPaid(m)'
  BY <1>1, <1>2 DEF PaymentInv, PaidOnce, BlockPaid, Ready
<1> QED
  BY <1>1, <1>3, <1>4 DEF PaymentInv

(* A delivery turns a message that is ready into a call that is to pay. *)
LEMMA PaymentDelivered ==
    ASSUME TypeOK, PaymentInv, NEW k \in DOMAIN messages, DeliverReward(k)
    PROVE  PaymentInv'
<1>1. /\ messages[k].at = "ready" /\ messages'[k].at = "unacked" /\ SameRewards
      /\ \A m \in DOMAIN messages : m # k => messages'[m] = messages[m]
  BY PlaceChanges DEF DeliverReward, TypeOK
<1>2. handlers' = handlers \union {Handler(k)} /\ UNCHANGED <<paid, blocks, excused>>
  BY DEF DeliverReward
<1>3. Handler(k).msg = k /\ Handler(k).at = "transfer"
  BY DEF Handler
<1>4. IsFiniteSet(handlers')
  BY <1>2, FS_AddElement DEF PaymentInv
<1>5. ASSUME NEW m \in DOMAIN messages, m # k
      PROVE  PaidOnce(m)' /\ BlockPaid(m)'
  <2>1. InTransfer(m)' = InTransfer(m) /\ InBlock(m)' = InBlock(m) /\ Ready(m)' = Ready(m)
    BY <1>1, <1>2, <1>3, <1>5 DEF InTransfer, InBlock, Ready
  <2> QED
    BY <1>2, <2>1 DEF PaymentInv, PaidOnce, BlockPaid
<1>6. PaidOnce(k)' /\ BlockPaid(k)'
  <2>1. /\ InTransfer(k)' \subseteq InTransfer(k) \union {Handler(k)}
        /\ InBlock(k)' = InBlock(k) /\ Ready(k) = 1 /\ Ready(k)' = 0
    BY <1>1, <1>2, <1>3 DEF InTransfer, InBlock, Ready
  <2>2. /\ Cardinality(InTransfer(k)') \in Nat /\ Cardinality(InTransfer(k)) \in Nat
        /\ Cardinality(InTransfer(k)') <= Cardinality(InTransfer(k)) + 1
    BY <2>1, CallCounts, OneAdded DEF PaymentInv
  <2>3. paid[k] \in Nat /\ excused[k] \in Nat /\ PaidOnce(k) /\ BlockPaid(k)
    BY CountTypes DEF PaymentInv
  <2> QED
    BY <1>2, <2>1, <2>2, <2>3 DEF PaidOnce, BlockPaid
<1> QED
  BY <1>1, <1>4, <1>5, <1>6 DEF PaymentInv, SameRewards

(* A handler that returns: its message is acknowledged, or was queued      *)
(* again before.                                                           *)
LEMMA HandlerLeaves ==
    ASSUME TypeOK, PaymentInv, NEW h \in handlers, AckAndLeave(h)
    PROVE  /\ SameRewards /\ handlers' = handlers \ {h}
           /\ \A m \in DOMAIN messages : Ready(m)' <= Ready(m)
<1>1. h.msg \in DOMAIN messages
  BY DEF TypeOK, PaymentsTyped
<1>2. CASE messages' = messages
  BY <1>2 DEF AckAndLeave, SameRewards, Ready
<1>3. CASE messages' = [messages EXCEPT ![h.msg].at = "acked"]
  <2>1. /\ SameRewards /\ messages'[h.msg].at = "acked"
        /\ \A m \in DOMAIN messages : m # h.msg => messages'[m] = messages[m]
    BY <1>1, <1>3, PlaceChanges DEF TypeOK
  <2>2. \A m \in DOMAIN messages : Ready(m)' <= Ready(m)
    <3> SUFFICES ASSUME NEW m \in DOMAIN messages
                 PROVE  Ready(m)' <= Ready(m)
      OBVIOUS
    <3>1. CASE m = h.msg
      BY <2>1, <3>1 DEF Ready
    <3>2. CASE m # h.msg
      BY <2>1, <3>2 DEF Ready
    <3> QED
      BY <3>1, <3>2
  <2> QED
    BY <2>1, <2>2 DEF AckAndLeave
<1> QED
  BY <1>2, <1>3 DEF AckAndLeave

(* A transfer that was made and reported an error is excused. *)
LEMMA PaymentRepeated ==
    ASSUME TypeOK, PaymentInv, NEW h \in handlers, TransferReward(h), ~MoveOn(h)
    PROVE  PaymentInv' /\ SameRewards
<1>1. /\ paid' = [paid EXCEPT ![h.msg] = @ + 1]
      /\ excused' = [excused EXCEPT ![h.msg] = @ + 1]
      /\ UNCHANGED <<messages, handlers, blocks>>
  BY DEF TransferReward
<1>2. \A m \in DOMAIN messages : /\ m \in DOMAIN paid /\ paid[m] \in Nat
                                 /\ m \in DOMAIN excused /\ excused[m] \in Nat
  BY CountTypes
<1>3. ASSUME NEW m \in DOMAIN messages
      PROVE  PaidOnce(m)' /\ BlockPaid(m)'
  <2>1. \E k \in {0, 1} : paid'[m] = paid[m] + k /\ excused'[m] = excused[m] + k
    BY <1>1, <1>2
  <2>2. InTransfer(m)' = InTransfer(m) /\ InBlock(m)' = InBlock(m) /\ Ready(m)' = Ready(m)
    BY <1>1 DEF InTransfer, InBlock, Ready
  <2>3. /\ paid[m] \in Nat /\ blocks[m] \in Nat /\ excused[m] \in Nat
        /\ Cardinality(InTransfer(m)) \in Nat /\ Cardinality(InBlock(m)) \in Nat
        /\ Ready(m) \in Nat /\ PaidOnce(m) /\ BlockPaid(m)
    BY CountTypes, CallCounts DEF PaymentInv
  <2> QED
    BY <1>1, <2>1, <2>2, <2>3 DEF PaidOnce, BlockPaid
<1> QED
  BY <1>1, <1>3 DEF PaymentInv, SameRewards

(* A call that is to pay pays once and goes on to its block, or leaves.    *)
LEMMA PaymentTransfer ==
    ASSUME TypeOK, PaymentInv, NEW h \in handlers,
           (TransferReward(h) /\ MoveOn(h)) \/ TransferUnanswered(h)
    PROVE  PaymentInv' /\ SameRewards
<1> DEFINE i == h.msg
           g == [h EXCEPT !.at = "block"]
<1>1. i \in DOMAIN messages /\ h \in Call /\ h.at = "transfer"
  BY DEF TransferReward, TransferUnanswered, TypeOK, PaymentsTyped
<1>a. \A m \in DOMAIN messages : /\ m \in DOMAIN paid /\ paid[m] \in Nat
                                 /\ m \in DOMAIN excused /\ excused[m] \in Nat
  BY CountTypes
<1>2. g.msg = i /\ g.at = "block"
  BY <1>1 DEF Call
<1>b. \/ /\ paid' = [paid EXCEPT ![i] = @ + 1]
         /\ excused' \in {excused, [excused EXCEPT ![i] = @ + 1]} /\ MoveOn(h)
      \/ paid' \in {paid, [paid EXCEPT ![i] = @ + 1]} /\ excused' = excused /\ AckAndLeave(h)
  BY DEF TransferReward, TransferUnanswered
<1>3. /\ blocks' = blocks
      /\ \E k \in {0, 1}, e \in {0, 1} :
            /\ paid'[i] = paid[i] + k /\ excused'[i] = excused[i] + e /\ k <= 1 + e
            /\ (k >= 1 /\ MoveOn(h)) \/ AckAndLeave(h)
      /\ \A m \in DOMAIN messages : m # i => paid'[m] = paid[m] /\ excused'[m] = excused[m]
  <2>1. blocks' = blocks
    BY DEF TransferReward, TransferUnanswered
  <2> QED
    BY <1>1, <1>a, <1>b, <2>1
<1> HIDE DEF g
<1>4. /\ SameRewards /\ \A m \in DOMAIN messages : Ready(m)' <= Ready(m)
      /\ handlers' \subseteq (handlers \ {h}) \union {g}
      /\ AckAndLeave(h) => handlers' = handlers \ {h}
  <2>1. CASE MoveOn(h)
    BY <2>1 DEF MoveOn, AckAndLeave, SameRewards, Ready, g
  <2>2. CASE AckAndLeave(h)
    BY <2>2, HandlerLeaves
  <2> QED
    BY <1>3, <2>1, <2>2
<1>5. IsFiniteSet(handlers')
  BY <1>4, OneAdded, FS_RemoveElement DEF PaymentInv
<1>6. ASSUME NEW m \in DOMAIN messages, m # i
      PROVE  PaidOnce(m)' /\ BlockPaid(m)'
  <2>1. InTransfer(m)' \subseteq InTransfer(m) /\ InBlock(m)' \subseteq InBlock(m)
    BY <1>2, <1>4, <1>6 DEF InTransfer, InBlock
  <2>2. /\ Cardinality(InTransfer(m)') <= Cardinality(InTransfer(m))
        /\ Cardinality(InBlock(m)') <= Cardinality(InBlock(m))
    BY <2>1, CallCounts, NoneAdded DEF PaymentInv
  <2>3. /\ paid'[m] = paid[m] /\ blocks'[m] = blocks[m] /\ excused'[m] = excused[m] + 0
        /\ Ready(m)' <= Ready(m) + 0
    BY <1>3, <1>4, <1>6, CountTypes, CallCounts DEF PaymentInv
  <2> QED
    BY <1>5, <2>2, <2>3, PaymentSame
<1>7. PaidOnce(i)' /\ BlockPaid(i)'
  <2>0. /\ paid[i] \in Nat /\ excused[i] \in Nat /\ blocks[i] \in Nat
        /\ PaidOnce(i) /\ BlockPaid(i)
    BY <1>1, CountTypes DEF PaymentInv
  <2>1. h \in InTransfer(i) /\ InTransfer(i)' \subseteq InTransfer(i) \ {h}
    BY <1>1, <1>2, <1>4 DEF InTransfer
  <2>2. /\ Cardinality(InTransfer(i)') \in Nat /\ Cardinality(InTransfer(i)) \in Nat
        /\ Cardinality(InTransfer(i)') + 1 <= Cardinality(InTransfer(i))
    BY <2>1, CallCounts, OneRemoved DEF PaymentInv
  <2>3. InBlock(i)' \subseteq InBlock(i) \union {g}
    BY <1>4 DEF InBlock
  <2>4. /\ Cardinality(InBlock(i)') \in Nat /\ Cardinality(InBlock(i)) \in Nat
        /\ Cardinality(InBlock(i)') <= Cardinality(InBlock(i)) + 1
    BY <2>3, CallCounts, OneAdded DEF PaymentInv
  <2>5. AckAndLeave(h) => Cardinality(InBlock(i)') <= Cardinality(InBlock(i))
    <3>1. AckAndLeave(h) => InBlock(i)' \subseteq InBlock(i)
      BY <1>4 DEF InBlock
    <3> QED
      BY <3>1, CallCounts, NoneAdded DEF PaymentInv
  <2>6. Ready(i) \in {0, 1} /\ Ready(i)' \in {0, 1} /\ Ready(i)' <= Ready(i)
    BY <1>1, <1>4 DEF Ready
  <2>7. PICK k \in {0, 1}, e \in {0, 1} :
           /\ paid'[i] = paid[i] + k /\ excused'[i] = excused[i] + e /\ k <= 1 + e
           /\ (k >= 1 /\ MoveOn(h)) \/ AckAndLeave(h)
    BY <1>3
  <2>8. PaidOnce(i)'
    BY <2>0, <2>2, <2>6, <2>7 DEF PaidOnce
  <2>9. blocks'[i] + Cardinality(InBlock(i)') <= paid'[i]
    BY <1>3, <2>0, <2>4, <2>5, <2>7 DEF BlockPaid
  <2> QED
    BY <2>8, <2>9 DEF BlockPaid
<1> QED
  BY <1>4, <1>5, <1>6, <1>7 DEF PaymentInv, SameRewards

(* A block is written of what was paid. *)
LEMMA PaymentBlock ==
    ASSUME TypeOK, PaymentInv, NEW h \in handlers, CreateRewardBlock(h)
    PROVE  PaymentInv' /\ SameRewards
<1> DEFINE i == h.msg
<1>1. /\ i \in DOMAIN messages /\ h.at = "block" /\ AckAndLeave(h)
  BY DEF CreateRewardBlock, TypeOK, PaymentsTyped
<1>a. \A m \in DOMAIN messages : m \in DOMAIN blocks /\ blocks[m] \in Nat
  BY CountTypes
<1>2. /\ UNCHANGED <<paid, excused>>
      /\ blocks'[i] = blocks[i] \/ blocks'[i] = blocks[i] + 1
      /\ \A m \in DOMAIN messages : m # i => blocks'[m] = blocks[m]
  BY <1>1, <1>a DEF CreateRewardBlock
<1>3. /\ SameRewards /\ handlers' = handlers \ {h}
      /\ \A m \in DOMAIN messages : Ready(m)' <= Ready(m)
  BY <1>1, HandlerLeaves
<1>4. IsFiniteSet(handlers')
  BY <1>3, FS_RemoveElement DEF PaymentInv
<1>5. ASSUME NEW m \in DOMAIN messages
      PROVE  /\ Cardinality(InTransfer(m)') \in Nat /\ Cardinality(InTransfer(m)) \in Nat
             /\ Cardinality(InTransfer(m)') <= Cardinality(InTransfer(m))
             /\ Cardinality(InBlock(m)') \in Nat /\ Cardinality(InBlock(m)) \in Nat
             /\ Cardinality(InBlock(m)') <= Cardinality(InBlock(m))
             /\ Ready(m) \in {0, 1} /\ Ready(m)' \in {0, 1}
             /\ paid[m] \in Nat /\ blocks[m] \in Nat /\ excused[m] \in Nat
  <2>1. InTransfer(m)' \subseteq InTransfer(m) /\ InBlock(m)' \subseteq InBlock(m)
    BY <1>3 DEF InTransfer, InBlock
  <2>2. IsFiniteSet(InTransfer(m)) /\ IsFiniteSet(InBlock(m))
    BY CallCounts DEF PaymentInv
  <2> QED
    BY <2>1, <2>2, NoneAdded, CountTypes DEF Ready
<1>6. ASSUME NEW m \in DOMAIN messages, m # i
      PROVE  PaidOnce(m)' /\ BlockPaid(m)'
  <2>1. /\ paid'[m] = paid[m] /\ blocks'[m] = blocks[m] /\ excused'[m] = excused[m] + 0
        /\ Ready(m)' <= Ready(m) + 0
    BY <1>2, <1>3, <1>5, <1>6
  <2> QED
    BY <1>4, <1>5, <2>1, PaymentSame
<1>7. PaidOnce(i)' /\ BlockPaid(i)'
  <2>1. PaidOnce(i) /\ BlockPaid(i) /\ Ready(i)' <= Ready(i)
    BY <1>1, <1>3 DEF PaymentInv
  <2>2. h \in InBlock(i) /\ InBlock(i)' \subseteq InBlock(i) \ {h} /\ IsFiniteSet(InBlock(i))
    BY <1>1, <1>3, CallCounts DEF InBlock, PaymentInv
  <2>3. Cardinality(InBlock(i)') + 1 <= Cardinality(InBlock(i))
    BY <2>2, OneRemoved
  <2>4. PaidOnce(i)'
    BY <1>1, <1>2, <1>5, <2>1 DEF PaidOnce
  <2>5. BlockPaid(i)'
    BY <1>1, <1>2, <1>5, <2>1, <2>3 DEF BlockPaid
  <2> QED
    BY <2>4, <2>5
<1> QED
  BY <1>3, <1>4, <1>6, <1>7 DEF PaymentInv, SameRewards

(* The image of a finite set has no more elements. *)
Image(T, S, f) == \A t \in T : \E x \in S : t = f[x]

LEMMA ImageCount ==
    ASSUME NEW S, NEW f, IsFiniteSet(S), NEW T, Image(T, S, f)
    PROVE  IsFiniteSet(T) /\ Cardinality(T) <= Cardinality(S)
<1> DEFINE R == {f[x] : x \in S}
           g == [x \in S |-> f[x]]
<1>1. g \in Surjection(S, R)
  BY DEF Surjection
<1>2. IsFiniteSet(R) /\ Cardinality(R) <= Cardinality(S)
  BY <1>1, FS_Surjection
<1>3. T \subseteq R
  BY DEF Image
<1>4. /\ IsFiniteSet(T) /\ Cardinality(T) \in Nat /\ Cardinality(R) \in Nat
      /\ Cardinality(T) <= Cardinality(R)
  BY <1>2, <1>3, NoneAdded
<1>5. Cardinality(S) \in Nat
  BY FS_CardinalityType
<1> QED
  BY <1>2, <1>4, <1>5

(* What was not acknowledged is excused when it is queued again. *)
LEMMA PaymentRequeued ==
    ASSUME TypeOK, PaymentInv, LoseCalendarChannel \/ CrashCalendar
    PROVE  PaymentInv' /\ SameRewards
<1>1. Requeue /\ UNCHANGED <<paid, blocks>>
  BY DEF LoseCalendarChannel, CrashCalendar
<1>2. \A m \in DOMAIN messages : messages[m] \in RewardMessage
  BY LenProperties, ElementOfSeq DEF TypeOK, PaymentsTyped
<1>3. /\ DOMAIN messages' = DOMAIN messages
      /\ \A m \in DOMAIN messages :
            /\ messages'[m] = [messages[m] EXCEPT !.at = IF m \in Unacked THEN "ready" ELSE @]
            /\ excused'[m] = excused[m] + (IF m \in Unacked THEN 1 ELSE 0)
  BY <1>1 DEF Requeue
<1>4. SameRewards
  BY <1>2, <1>3 DEF SameRewards, RewardMessage
<1>5. ASSUME NEW m \in DOMAIN messages
      PROVE  \E e \in {0, 1} : excused'[m] = excused[m] + e /\ Ready(m)' <= Ready(m) + e
  <2>1. CASE m \in Unacked
    <3>1. excused'[m] = excused[m] + 1 /\ Ready(m)' <= 1 /\ Ready(m) = 0
      BY <1>3, <2>1 DEF Ready, Unacked
    <3> QED
      BY <3>1
  <2>2. CASE m \notin Unacked
    <3>1. excused'[m] = excused[m] + 0 /\ messages'[m].at = messages[m].at
      BY <1>2, <1>3, <2>2 DEF RewardMessage
    <3> QED
      BY <3>1 DEF Ready
  <2> QED
    BY <2>1, <2>2
<1>6. /\ IsFiniteSet(handlers')
      /\ \A m : /\ Cardinality(InTransfer(m)') <= Cardinality(InTransfer(m))
                /\ Cardinality(InBlock(m)') <= Cardinality(InBlock(m))
  <2>1. CASE LoseCalendarChannel
    <3> PICK f : f = [h \in handlers |-> [h EXCEPT !.current = FALSE]]
      OBVIOUS
    <3>1. \A h \in handlers : f[h].msg = h.msg /\ f[h].at = h.at
      BY DEF TypeOK, PaymentsTyped, Call
    <3>2. Image(handlers', handlers, f)
      BY <2>1 DEF LoseCalendarChannel, Image
    <3>3. IsFiniteSet(handlers')
      BY <3>2, ImageCount DEF PaymentInv
    <3>4. ASSUME NEW m
          PROVE  /\ Cardinality(InTransfer(m)') <= Cardinality(InTransfer(m))
                 /\ Cardinality(InBlock(m)') <= Cardinality(InBlock(m))
      <4>1. Image(InTransfer(m)', InTransfer(m), f) /\ Image(InBlock(m)', InBlock(m), f)
        BY <3>1, <3>2 DEF InTransfer, InBlock, Image
      <4>2. IsFiniteSet(InTransfer(m)) /\ IsFiniteSet(InBlock(m))
        BY CallCounts DEF PaymentInv
      <4> QED
        BY <4>1, <4>2, ImageCount
    <3> QED
      BY <3>3, <3>4
  <2>2. CASE CrashCalendar
    <3>1. handlers' = {}
      BY <2>2 DEF CrashCalendar
    <3>2. \A m : InTransfer(m)' = {} /\ InBlock(m)' = {}
      BY <3>1 DEF InTransfer, InBlock
    <3>3. IsFiniteSet(handlers') /\ \A m : /\ Cardinality(InTransfer(m)') = 0
                                         /\ Cardinality(InBlock(m)') = 0
      BY <3>1, <3>2, FS_EmptySet
    <3>4. \A m : Cardinality(InTransfer(m)) \in Nat /\ Cardinality(InBlock(m)) \in Nat
      BY CallCounts DEF PaymentInv
    <3> QED
      BY <3>3, <3>4
  <2> QED
    BY <2>1, <2>2
<1>7. ASSUME NEW m \in DOMAIN messages
      PROVE  PaidOnce(m)' /\ BlockPaid(m)'
  BY <1>1, <1>5, <1>6, PaymentSame
<1> QED
  BY <1>3, <1>4, <1>6, <1>7 DEF PaymentInv

-----------------------------------------------------------------------------
(* Resets. *)

(* What is counted for a Node. *)
LEMMA ResetTypes ==
    ASSUME TypeOK, ResetInv, NEW n \in Node
    PROVE  /\ resets[n] \in Nat /\ lostRewards[n] \in Nat
           /\ IsFiniteSet(ToReset(n)) /\ Cardinality(ToReset(n)) \in Nat
           /\ Cardinality(MessagesTo(n)) \in Nat
           /\ resets[n] + Cardinality(ToReset(n)) <= Cardinality(MessagesTo(n)) + lostRewards[n]
BY CountTypes, FS_CardinalityType DEF ResetInv, TypeOK, RewardsTyped

(* A step after which nobody new is about to reset a score. *)
LEMMA ResetKept ==
    ASSUME TypeOK, ResetInv, SameRewards, UNCHANGED <<resets, lostRewards>>,
           \A s \in Service : reward'[s].at = "reset" => reward'[s] = reward[s]
    PROVE  ResetInv'
<1>1. \A n : MessagesTo(n)' = MessagesTo(n)
  BY SameRewardsCounted
<1>2. ASSUME NEW n \in Node
      PROVE  /\ IsFiniteSet(ToReset(n)')
             /\ resets'[n] + Cardinality(ToReset(n)')
                   <= Cardinality(MessagesTo(n)') + lostRewards'[n]
  <2>1. ToReset(n)' \subseteq ToReset(n)
    BY DEF ToReset
  <2>2. IsFiniteSet(ToReset(n)') /\ Cardinality(ToReset(n)') \in Nat
        /\ Cardinality(ToReset(n)') <= Cardinality(ToReset(n))
    BY <2>1, ResetTypes, NoneAdded
  <2> QED
    BY <1>1, <2>2, ResetTypes
<1> QED
  BY <1>2 DEF ResetInv

(* An instance that is about to reset a score has sent a reward, or has    *)
(* written it to a dead socket.                                            *)
LEMMA ResetPublished ==
    ASSUME TypeOK, ResetInv, NEW s \in Service, PublishReward(s)
    PROVE  ResetInv'
<1>0. reward \in [Service -> Reward] /\ reward[s].at = "publish"
  BY DEF TypeOK, RewardsTyped, PublishReward
<1>1. CASE SendReward(s) /\ reward' = [reward EXCEPT ![s].at = "reset"] /\ UNCHANGED lostRewards
  <2> PICK k : k = Len(messages) + 1
    OBVIOUS
  <2> DEFINE p == reward[s].node
  <2>1. /\ DOMAIN messages' = DOMAIN messages \union {k} /\ k \notin DOMAIN messages
        /\ messages'[k] = Message(p, minute)
        /\ \A m \in DOMAIN messages : messages'[m] = messages[m]
    BY <1>1, SendAppends
  <2>2. resets' = resets
    BY DEF PublishReward
  <2>3. ASSUME NEW n \in Node
        PROVE  /\ IsFiniteSet(ToReset(n)')
               /\ resets'[n] + Cardinality(ToReset(n)')
                     <= Cardinality(MessagesTo(n)') + lostRewards'[n]
    <3>1. CASE n = p
      <4>1. ToReset(n)' \subseteq ToReset(n) \union {s}
        BY <1>0, <1>1 DEF ToReset
      <4>2. /\ IsFiniteSet(ToReset(n)') /\ Cardinality(ToReset(n)') \in Nat
            /\ Cardinality(ToReset(n)') <= Cardinality(ToReset(n)) + 1
        BY <4>1, ResetTypes, OneAdded
      <4>3. MessagesTo(n)' = MessagesTo(n) \union {k} /\ k \notin MessagesTo(n)
        BY <2>1, <3>1 DEF MessagesTo, Message
      <4>4. Cardinality(MessagesTo(n)') = Cardinality(MessagesTo(n)) + 1
        BY <4>3, CountTypes, FS_AddElement
      <4> QED
        BY <1>1, <2>2, <4>2, <4>4, ResetTypes
    <3>2. CASE n # p
      <4>1. ToReset(n)' \subseteq ToReset(n)
        BY <1>0, <1>1, <3>2 DEF ToReset, Reward
      <4>2. /\ IsFiniteSet(ToReset(n)') /\ Cardinality(ToReset(n)') \in Nat
            /\ Cardinality(ToReset(n)') <= Cardinality(ToReset(n))
        BY <4>1, ResetTypes, NoneAdded
      <4>3. MessagesTo(n)' = MessagesTo(n)
        BY <2>1, <3>2 DEF MessagesTo, Message
      <4> QED
        BY <1>1, <2>2, <4>2, <4>3, ResetTypes
    <3> QED
      BY <3>1, <3>2
  <2> QED
    BY <2>3 DEF ResetInv
<1>2. CASE LoseReward(s) /\ reward' = [reward EXCEPT ![s].at = "reset"]
  <2> DEFINE p == reward[s].node
  <2>1. /\ SameRewards /\ resets' = resets /\ lostRewards \in [Node -> Nat] /\ p \in Node
        /\ lostRewards' = [lostRewards EXCEPT ![p] = @ + 1]
    BY <1>0, <1>2, NodeAssumption
       DEF TypeOK, RewardsTyped, PublishReward, LoseReward, SameRewards
  <2>2. \A n : MessagesTo(n)' = MessagesTo(n)
    BY <2>1, SameRewardsCounted
  <2>3. ASSUME NEW n \in Node
        PROVE  /\ IsFiniteSet(ToReset(n)')
               /\ resets'[n] + Cardinality(ToReset(n)')
                     <= Cardinality(MessagesTo(n)') + lostRewards'[n]
    <3>1. CASE n = p
      <4>1. ToReset(n)' \subseteq ToReset(n) \union {s}
        BY <1>0, <1>2 DEF ToReset
      <4>2. /\ IsFiniteSet(ToReset(n)') /\ Cardinality(ToReset(n)') \in Nat
            /\ Cardinality(ToReset(n)') <= Cardinality(ToReset(n)) + 1
        BY <4>1, ResetTypes, OneAdded
      <4>3. lostRewards'[n] = lostRewards[n] + 1
        BY <2>1, <3>1
      <4> QED
        BY <2>1, <2>2, <4>2, <4>3, ResetTypes
    <3>2. CASE n # p
      <4>1. ToReset(n)' \subseteq ToReset(n)
        BY <1>0, <1>2, <3>2 DEF ToReset, Reward
      <4>2. /\ IsFiniteSet(ToReset(n)') /\ Cardinality(ToReset(n)') \in Nat
            /\ Cardinality(ToReset(n)') <= Cardinality(ToReset(n))
        BY <4>1, ResetTypes, NoneAdded
      <4>3. lostRewards'[n] = lostRewards[n]
        BY <2>1, <3>2
      <4> QED
        BY <2>1, <2>2, <4>2, <4>3, ResetTypes
    <3> QED
      BY <3>1, <3>2
  <2> QED
    BY <2>3 DEF ResetInv
<1>3. CASE reward' = [reward EXCEPT ![s] = Idle] /\ UNCHANGED <<messages, lostRewards>>
  <2>1. \A r \in Service : reward'[r].at = "reset" => reward'[r] = reward[r]
    BY <1>0, <1>3 DEF Idle
  <2>2. SameRewards /\ resets' = resets
    BY <1>3 DEF SameRewards, PublishReward
  <2> QED
    BY <1>3, <2>1, <2>2, ResetKept
<1> QED
  BY <1>1, <1>2, <1>3 DEF PublishReward

(* A reset is made by an instance that was about to. *)
LEMMA ResetMade ==
    ASSUME TypeOK, ResetInv, NEW s \in Service, ResetScore(s)
    PROVE  ResetInv'
<1>1. /\ reward \in [Service -> Reward] /\ resets \in [Node -> Nat]
      /\ reward[s].at = "reset" /\ reward[s].node \in Node
  BY NodeAssumption DEF TypeOK, RewardsTyped, ResetScore
<1> DEFINE p == reward[s].node
<1>2. /\ SameRewards /\ lostRewards' = lostRewards
      /\ reward' = [reward EXCEPT ![s] = Idle]
      /\ resets' = resets \/ resets' = [resets EXCEPT ![p] = @ + 1]
  BY DEF ResetScore, paying, SameRewards
<1>3. \A n : MessagesTo(n)' = MessagesTo(n)
  BY <1>2, SameRewardsCounted
<1>4. ASSUME NEW n \in Node
      PROVE  /\ IsFiniteSet(ToReset(n)')
             /\ resets'[n] + Cardinality(ToReset(n)')
                   <= Cardinality(MessagesTo(n)') + lostRewards'[n]
  <2>1. CASE n = p
    <3>1. s \in ToReset(n) /\ ToReset(n)' \subseteq ToReset(n) \ {s}
      BY <1>1, <1>2, <2>1 DEF ToReset, Idle
    <3>2. /\ IsFiniteSet(ToReset(n)') /\ Cardinality(ToReset(n)') \in Nat
          /\ Cardinality(ToReset(n)') + 1 <= Cardinality(ToReset(n))
      BY <3>1, ResetTypes, OneRemoved
    <3>3. resets'[n] = resets[n] \/ resets'[n] = resets[n] + 1
      BY <1>1, <1>2
    <3> QED
      BY <1>2, <1>3, <3>2, <3>3, ResetTypes
  <2>2. CASE n # p
    <3>1. ToReset(n)' \subseteq ToReset(n)
      BY <1>1, <1>2 DEF ToReset, Idle
    <3>2. /\ IsFiniteSet(ToReset(n)') /\ Cardinality(ToReset(n)') \in Nat
          /\ Cardinality(ToReset(n)') <= Cardinality(ToReset(n))
      BY <3>1, ResetTypes, NoneAdded
    <3>3. resets'[n] = resets[n]
      BY <1>1, <1>2, <2>2
    <3> QED
      BY <1>2, <1>3, <3>2, <3>3, ResetTypes
  <2> QED
    BY <2>1, <2>2
<1> QED
  BY <1>4 DEF ResetInv

-----------------------------------------------------------------------------

(* Every step keeps the accounts. *)
LEMMA StepReward == RewardInv /\ [Next]_vars => RewardInv'
<1> SUFFICES ASSUME RewardInv, [Next]_vars
             PROVE  RewardInv'
  OBVIOUS
<1>0. TypeOK /\ TypeOK' /\ PeriodInv /\ PaymentInv /\ ResetInv /\ faults \in Nat
  BY StepTypes, CountTypes DEF RewardInv
<1>1. CASE AuditStep \/ UNCHANGED vars
  <2>1. UNCHANGED <<minute, rewarding, paying>> /\ faults' >= faults
    <3>1. UNCHANGED <<minute, rewarding, paying>> /\ (Fault \/ NoFault)
      BY <1>1
         DEF AuditStep, AuditNodes, PerformAudit, AuditThrows, RequeueFailedJob, WriteAuditLog,
             UpdateAuditScore, PollStep, PollReads, PollFinds, PollStores, vars, NoFault
    <3> QED
      BY <1>0, <3>1 DEF Fault, NoFault
  <2>2. SameRewards /\ \A s \in Service : reward'[s] = reward[s]
    BY <2>1 DEF SameRewards, paying, rewarding
  <2>3. PeriodInv'
    BY <1>0, <2>1, <2>2, PeriodKept DEF rewarding
  <2>4. PaymentInv'
    BY <1>0, <2>1, PaymentsUntouched DEF paying
  <2>5. ResetInv'
    BY <1>0, <2>1, <2>2, ResetKept DEF rewarding
  <2> QED
    BY <1>0, <2>3, <2>4, <2>5 DEF RewardInv
<1>2. CASE Tick
  <2>1. UNCHANGED <<rewarding, paying>>
    BY <1>2 DEF Tick
  <2>2. SameRewards /\ \A s \in Service : reward'[s] = reward[s]
    BY <2>1 DEF SameRewards, paying, rewarding
  <2>3. PaymentInv'
    BY <1>0, <2>1, PaymentsUntouched DEF paying
  <2>4. ResetInv'
    BY <1>0, <2>1, <2>2, ResetKept DEF rewarding
  <2> QED
    BY <1>0, <1>2, <2>3, <2>4, PeriodTick DEF RewardInv
<1>3. CASE SessionExpires \/ \E s \in Service : GainLeadership(s) \/ LeadershipError(s)
  <2>1. UNCHANGED <<reward, resets, lostRewards, paying>>
    BY <1>3 DEF SessionExpires, GainLeadership, LeadershipError
  <2>2. SameRewards /\ \A s \in Service : reward'[s] = reward[s]
    BY <2>1 DEF SameRewards, paying
  <2>3. PaymentInv'
    BY <1>0, <2>1, PaymentsUntouched DEF paying
  <2>4. ResetInv'
    BY <1>0, <2>1, <2>2, ResetKept
  <2> QED
    BY <1>0, <1>3, <2>3, <2>4, PeriodLeaders DEF RewardInv
<1>4. ASSUME NEW s \in Service, RewardTrigger(s) \/ SelectNode(s)
      PROVE  RewardInv'
  <2>1. UNCHANGED <<resets, lostRewards, paying>>
    BY <1>4 DEF RewardTrigger, SelectNode
  <2>2. PeriodInv'
    BY <1>0, <1>4, <2>1, PeriodUnsent DEF RewardStep, paying
  <2>3. PaymentInv'
    BY <1>0, <2>1, PaymentsUntouched DEF paying
  <2>4. \A r \in Service : reward'[r].at = "reset" => reward'[r] = reward[r]
    BY <1>0, <1>4 DEF RewardTrigger, SelectNode, Idle, TypeOK, RewardsTyped
  <2>5. ResetInv'
    BY <1>0, <2>1, <2>4, ResetKept DEF SameRewards, paying
  <2> QED
    BY <1>0, <2>2, <2>3, <2>5 DEF RewardInv
<1>5. ASSUME NEW s \in Service, PublishReward(s)
      PROVE  RewardInv'
  <2>1. CASE SendReward(s)
    BY <1>0, <1>5, <2>1, PeriodSent, PaymentSent, ResetPublished DEF RewardInv, PublishReward
  <2>2. CASE ~SendReward(s)
    <3>1. UNCHANGED <<messages, handlers, paid, blocks, excused>>
      BY <1>5, <2>2 DEF PublishReward, LoseReward
    <3> QED
      BY <1>0, <1>5, <3>1, PeriodUnsent, PaymentsUntouched, ResetPublished
         DEF RewardInv, RewardStep
  <2> QED
    BY <2>1, <2>2
<1>6. ASSUME NEW s \in Service, ResetScore(s)
      PROVE  RewardInv'
  <2>1. UNCHANGED paying
    BY <1>6 DEF ResetScore
  <2> QED
    BY <1>0, <1>6, <2>1, PeriodUnsent, PaymentsUntouched, ResetMade
       DEF RewardInv, RewardStep, paying
<1>7. CASE ConsumerStep
  <2>1. UNCHANGED <<minute, rewarding>> /\ faults' >= faults
    BY <1>0, <1>7
       DEF ConsumerStep, CalendarStep, DeliverReward, TransferReward, TransferUnanswered,
           CreateRewardBlock, LoseCalendarChannel, CrashCalendar, Fault, NoFault
  <2>2. PaymentInv' /\ SameRewards
    <3>1. ASSUME NEW m \in DOMAIN messages, DeliverReward(m)
          PROVE  PaymentInv' /\ SameRewards
      BY <1>0, <3>1, PaymentDelivered, PlaceChanges DEF DeliverReward, TypeOK
    <3> QED
      BY <1>0, <1>7, <3>1, PaymentTransfer, PaymentRepeated, PaymentBlock,
         PaymentRequeued
         DEF ConsumerStep, CalendarStep, TransferReward
  <2>3. PeriodInv'
    BY <1>0, <2>1, <2>2, PeriodKept DEF rewarding
  <2>4. ResetInv'
    BY <1>0, <2>1, <2>2, ResetKept DEF rewarding
  <2> QED
    BY <1>0, <2>2, <2>3, <2>4 DEF RewardInv
<1> QED
  BY <1>1, <1>2, <1>3, <1>4, <1>5, <1>6, <1>7
     DEF Next, AuditStep, RewardStep, ConsumerStep

(* Whoever leads, however often the leadership changes hands, the channel  *)
(* is lost and transfers are repeated: a period has one reward more than   *)
(* faults at most, a reward has a block only if it was paid and is paid    *)
(* again only when that is excused, and no score is reset for nothing.     *)
THEOREM RewardsStayAccountedFor == Spec => []RewardsAccountedFor
<1>1. RewardInv => RewardsAccountedFor
  <2> SUFFICES ASSUME RewardInv
               PROVE  RewardsAccountedFor
    OBVIOUS
  <2>1. TypeOK /\ PeriodInv /\ PaymentInv /\ ResetInv
    BY DEF RewardInv
  <2>2. \A t \in 1..MaxMinute : Cardinality(RewardsOf(t)) <= 1 + faults
    BY <2>1 DEF PeriodInv
  <2>3. ASSUME NEW m \in DOMAIN messages
        PROVE  blocks[m] <= paid[m] /\ paid[m] <= 1 + excused[m]
    <3>1. paid[m] \in Nat /\ blocks[m] \in Nat /\ excused[m] \in Nat
      BY <2>1, CountTypes
    <3>2. /\ Cardinality(InTransfer(m)) \in Nat /\ Cardinality(InBlock(m)) \in Nat
          /\ Ready(m) \in {0, 1}
      BY <2>1, CallCounts DEF PaymentInv
    <3> QED
      BY <2>1, <3>1, <3>2 DEF PaymentInv, PaidOnce, BlockPaid
  <2>4. ASSUME NEW n \in Node
        PROVE  resets[n] <= Cardinality({m \in DOMAIN messages : messages[m].node = n})
                               + lostRewards[n]
    BY <2>1, ResetTypes DEF MessagesTo
  <2> QED
    BY <2>2, <2>3, <2>4 DEF RewardsAccountedFor
<1> QED
  BY <1>1, InitReward, StepReward, PTL DEF Spec

=============================================================================
