----------------------------- MODULE NodeRegistry -----------------------------
(***************************************************************************)
(* The registration of Nodes: POST /node and PUT /node/:tnt_addr of        *)
(* node-api-service, on the table of registered Nodes.                     *)
(*                                                                         *)
(* A handler checks that the address and the public URI are free and that  *)
(* no Node was registered from the same source IP in the last thirty days, *)
(* looks up the balance of the address, and then writes its row.  Each of  *)
(* these is awaited, any number of handlers run at a time, in any number   *)
(* of instances, and the only key of the table that two requests can have  *)
(* in common is the address.                                               *)
(*                                                                         *)
(* What a handler checks of the request alone (its format, the version of  *)
(* the Node) has happened before it is received here.  The other services  *)
(* neither remove rows nor write the columns modelled.                     *)
(***************************************************************************)
EXTENDS Naturals

CONSTANTS
    TntAddr,           \* addresses, tntAddr
    Uri,            \* public URIs
    NoUri,          \* of a private Node
    Ip,             \* source IPs
    NoIp,           \* the source IP is not known
    Request         \* calls of the two handlers

ASSUME NoUriAssumption == NoUri \notin Uri
ASSUME NoIpAssumption == NoIp \notin Ip

VARIABLES
    registered,     \* rows of the table, by their key
    publicUri,      \* columns of the rows
    createdFromIp,
    recent,         \* rows created within the last thirty days
    balanceCheckKeys,    \* addresses with a balance check key in Redis
    request,        \* the handlers
    writes,         \* history: inserts and updates of URIs so far
    inserted,       \* history, per row: the number of its insert,
    ipChecked,      \* writes so far when its source IP was checked,
    uriWritten,     \* the number of the last write of its URI,
    uriChecked      \* writes so far when that URI was checked

table == <<registered, publicUri, createdFromIp, recent>>
history == <<writes, inserted, ipChecked, uriWritten, uriChecked>>
registryVars == <<table, balanceCheckKeys, request, history>>

Uris == Uri \union {NoUri}
Ips == Ip \union {NoIp}

RequestState == [at : {"none", "lookup", "ip", "balance", "write", "answered", "refused"},
            method : {"POST", "PUT"},
            tntAddr : TntAddr, publicUri : Uris, sourceIp : Ips,
            found : Uris,              \* publicUri of the row a PUT has read
            checked : Nat,             \* writes so far at the lookup
            ipChecked : Nat]           \* and at the check of the source IP

RegistryInit ==
    /\ registered = {} /\ recent = {} /\ balanceCheckKeys = {}
    /\ publicUri = [n \in TntAddr |-> NoUri]
    /\ createdFromIp = [n \in TntAddr |-> NoIp]
    /\ request \in [Request -> [at : {"none"}, method : {"POST", "PUT"}, tntAddr : TntAddr,
                                publicUri : Uris, sourceIp : Ips, found : {NoUri},
                                checked : {0}, ipChecked : {0}]]
    /\ writes = 0
    /\ inserted = [n \in TntAddr |-> 0] /\ ipChecked = [n \in TntAddr |-> 0]
    /\ uriWritten = [n \in TntAddr |-> 0] /\ uriChecked = [n \in TntAddr |-> 0]

-----------------------------------------------------------------------------

At(r, method, place) == request[r].at = place /\ request[r].method = method
Go(r, place) == request' = [request EXCEPT ![r].at = place]

Receive(r) ==
    /\ request[r].at = "none"
    /\ Go(r, "lookup")
    /\ UNCHANGED <<table, balanceCheckKeys, history>>

(* An error, whichever call has failed (the count, outside any try block,  *)
(* leaves the request without a response), a balance that is too low, or a *)
(* PUT that its Node has not signed.                                       *)
Refuse(r) ==
    /\ request[r].at \in {"lookup", "ip", "balance", "write"}
    /\ Go(r, "refused")
    /\ UNCHANGED <<table, balanceCheckKeys, history>>

(* The rows with the address or the public URI of the request. *)
HasUri(n, uri) == n \in registered /\ uri # NoUri /\ publicUri[n] = uri
Matches(q) == {n \in registered : n = q.tntAddr \/ HasUri(n, q.publicUri)}

(* POST: neither may be registered. *)
FindConflict(r) ==
    /\ At(r, "POST", "lookup")
    /\ request' = [request EXCEPT
                      ![r].at = IF Matches(request[r]) = {} THEN "ip" ELSE "refused",
                      ![r].checked = writes]
    /\ UNCHANGED <<table, balanceCheckKeys, history>>

(* "ensure a unique source ip" *)
CountFromIp(r) ==
    LET ip == request[r].sourceIp IN
    /\ At(r, "POST", "ip")
    /\ request' = [request EXCEPT
                      ![r].at = IF \E n \in registered \intersect recent :
                                       ip # NoIp /\ createdFromIp[n] = ip
                                THEN "refused" ELSE "balance",
                      ![r].ipChecked = writes]
    /\ UNCHANGED <<table, balanceCheckKeys, history>>

(* Mutant: only the address is looked up.                                  *)
OwnRow(q) == q.tntAddr \in registered

(* PUT: the row found must be the Node's own, and the only one. *)
OnlyOwnRow(q) == Matches(q) = {q.tntAddr}

FindNode(r) ==
    /\ At(r, "PUT", "lookup")
    /\ request' = [request EXCEPT
                      ![r].at = IF OnlyOwnRow(request[r]) THEN "balance" ELSE "refused",
                      ![r].found = publicUri[request[r].tntAddr],
                      ![r].checked = writes]
    /\ UNCHANGED <<table, balanceCheckKeys, history>>

(* "create a balance check entry for this tnt address": it is there before *)
(* the row is, and stays when the row is not written.  The reply of Redis  *)
(* may be lost.                                                            *)
CheckBalance(r) ==
    /\ request[r].at = "balance"
    /\ balanceCheckKeys' = balanceCheckKeys \union {request[r].tntAddr}
    /\ Go(r, "write") \/ Go(r, "refused")
    /\ UNCHANGED <<table, history>>

WriteUri(q) ==
    /\ writes' = writes + 1
    /\ publicUri' = [publicUri EXCEPT ![q.tntAddr] = q.publicUri]
    /\ uriWritten' = [uriWritten EXCEPT ![q.tntAddr] = writes + 1]
    /\ uriChecked' = [uriChecked EXCEPT ![q.tntAddr] = q.checked]

(* RegisteredNode.create; its answer may be lost. *)
CreateNode(r) ==
    LET q == request[r] IN
    /\ At(r, "POST", "write")
    /\ q.tntAddr \notin registered
    /\ registered' = registered \union {q.tntAddr}
    /\ recent' = recent \union {q.tntAddr}
    /\ createdFromIp' = [createdFromIp EXCEPT ![q.tntAddr] = q.sourceIp]
    /\ inserted' = [inserted EXCEPT ![q.tntAddr] = writes + 1]
    /\ ipChecked' = [ipChecked EXCEPT ![q.tntAddr] = q.ipChecked]
    /\ WriteUri(q)
    /\ Go(r, "answered") \/ Go(r, "refused")
    /\ UNCHANGED balanceCheckKeys

(* Mutant: only a new URI is saved, not that there is none any more. *)
PublicUriChanged(q) == q.publicUri \notin {q.found, NoUri}

(* regNode.save() writes the columns that differ from what was read. *)
UriChanged(q) == q.publicUri # q.found

SaveNode(r) ==
    LET q == request[r] IN
    /\ At(r, "PUT", "write")
    /\ IF UriChanged(q)
       THEN WriteUri(q)
       ELSE UNCHANGED <<publicUri, writes, uriWritten, uriChecked>>
    /\ Go(r, "answered") \/ Go(r, "refused")
    /\ UNCHANGED <<registered, createdFromIp, recent, balanceCheckKeys, inserted, ipChecked>>

ThirtyDaysPass(n) ==
    /\ n \in recent
    /\ recent' = recent \ {n}
    /\ UNCHANGED <<registered, publicUri, createdFromIp, balanceCheckKeys, request, history>>

BalanceKeyExpires(n) ==
    /\ n \in balanceCheckKeys
    /\ balanceCheckKeys' = balanceCheckKeys \ {n}
    /\ UNCHANGED <<table, request, history>>

-----------------------------------------------------------------------------

Step(r) ==
    \/ Receive(r) \/ Refuse(r)
    \/ FindConflict(r) \/ CountFromIp(r) \/ FindNode(r) \/ CheckBalance(r)
    \/ CreateNode(r) \/ SaveNode(r)

RegistryNext ==
    \/ \E r \in Request : Step(r)
    \/ \E n \in TntAddr : ThirtyDaysPass(n) \/ BalanceKeyExpires(n)

RegistrySpec == RegistryInit /\ [][RegistryNext]_registryVars

-----------------------------------------------------------------------------

(* Types of the variables; only registered Nodes have a URI.               *)
RegistryTypeOK ==
    /\ recent \subseteq registered
    /\ registered \subseteq TntAddr /\ balanceCheckKeys \subseteq TntAddr
    /\ publicUri \in [TntAddr -> Uris] /\ createdFromIp \in [TntAddr -> Ips]
    /\ request \in [Request -> RequestState]
    /\ writes \in Nat
    /\ inserted \in [TntAddr -> Nat] /\ ipChecked \in [TntAddr -> Nat]
    /\ uriWritten \in [TntAddr -> Nat] /\ uriChecked \in [TntAddr -> Nat]
    /\ \A n \in TntAddr : n \notin registered => publicUri[n] = NoUri

(* 'the public URI provided is already registered', "ensure a unique       *)
(* source ip": two Nodes have a public URI, or for thirty days a source    *)
(* IP, in common only if each was checked before the other was written.    *)
Concurrent(writtenA, checkedA, writtenB, checkedB) ==
    writtenA > checkedB /\ writtenB > checkedA

SharedOnlyByOverlap ==
    \A a, b \in registered :
        a # b =>
            /\ publicUri[a] = publicUri[b] /\ publicUri[a] # NoUri =>
                   Concurrent(uriWritten[a], uriChecked[a], uriWritten[b], uriChecked[b])
            /\ /\ {a, b} \subseteq recent
               /\ createdFromIp[a] = createdFromIp[b] /\ createdFromIp[a] # NoIp
               => Concurrent(inserted[a], ipChecked[a], inserted[b], ipChecked[b])

(* A response with a public URI (or without one) tells what is stored,     *)
(* unless another request has written the row since this one read it.      *)
AnswerIsStored(q) ==
    /\ q.tntAddr \in registered'
    /\ publicUri'[q.tntAddr] = q.publicUri \/ uriWritten[q.tntAddr] > q.checked

AnswersAreStored ==
    [][\A r \in Request :
          request[r].at # "answered" /\ request'[r].at = "answered"
              => AnswerIsStored(request[r])]_registryVars

=============================================================================
