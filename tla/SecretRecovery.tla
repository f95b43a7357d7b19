--------------------------- MODULE SecretRecovery ---------------------------
(***************************************************************************)
(* The recoverable secrets of identity LOCs, and the requests of those who *)
(* lost them.                                                              *)
(*                                                                         *)
(* Secrets are added to a valid identity LOC by its requester.  Anyone may *)
(* ask for one by its name, with a challenge; once the legal officer has   *)
(* accepted, whoever knows the challenge may download the value, once and  *)
(* within some days.  The value is read before the transaction that uses   *)
(* the request up, and returned after it.                                  *)
(***************************************************************************)
EXTENDS IdentityLoc

CONSTANTS
    Names,                   \* of secrets
    Requests,                \* the requests that may ever be made
    MAX_SECRETS,
    SECRET_EXPIRATION_DAYS,
    DAY,                     \* ticks in a day
    MaxValues                \* bound on the values ever given to secrets

ASSUME SecretAssumption ==
    /\ None \notin Names /\ None \notin Requests
    /\ MAX_SECRETS \in Nat /\ SECRET_EXPIRATION_DAYS \in Nat
    /\ DAY \in Nat \ {0} /\ MaxValues \in Nat
    /\ None \notin Nat /\ IsFiniteSet(Names)

VARIABLES
    secrets,  \* of every LOC: the value of every name, numbered in the order they came
    values,   \* how many values were given so far
    removed,  \* history: the names that were removed from a LOC
    request,  \* the rows of requests
    answers,  \* history: what was returned, to whom
    crashed   \* history: requests whose download was cut off after its transaction

secretVars == << secrets, values, removed, request, answers, crashed >>
vars == << identityVars, secretVars >>

Has(l) == { n \in Names : secrets[l][n] # None }

\* one value per name of a LOC
RecoverableSecrets == [Names -> (1 .. MaxValues) \union { None }]

SecretRecoveryRequest ==
    [ status : { "PENDING", "REJECTED", "ACCEPTED" }, loc : Locs, name : Names,
      asked : 1 .. MaxValues, challenge : Clients,
      age : 0 .. (SECRET_EXPIRATION_DAYS + 1) * DAY, downloaded : BOOLEAN ]

NoRequest == [status |-> "NONE", loc |-> None, name |-> None, asked |-> None,
              challenge |-> None, age |-> 0, downloaded |-> FALSE]

Init ==
    /\ IdentityInit
    /\ secrets = [l \in Locs |-> [n \in Names |-> None]]
    /\ values = 0
    /\ removed = {}
    /\ request = [r \in Requests |-> NoRequest]
    /\ answers = {}
    /\ crashed = {}

-----------------------------------------------------------------------------
(***************************************************************************)
(* Secrets.                                                                *)
(***************************************************************************)

isValidIdentityLoc(l) == loc[l].status = "CLOSED" /\ ~isVoid(l)

setSecret(l, n, value) == secrets' = [secrets EXCEPT ![l][n] = value]

\* Seeded fault: the number of secrets is not looked at.
addToUnlimited(l, n) == isValidIdentityLoc(l) /\ n \notin Has(l) /\ setSecret(l, n, values + 1)

\* The limit is compared with the number before the addition.
addTo(l, n) ==
    /\ isValidIdentityLoc(l)
    /\ n \notin Has(l)
    /\ Cardinality(Has(l)) <= MAX_SECRETS
    /\ setSecret(l, n, values + 1)

removeFrom(l, n) == n \in Has(l) /\ setSecret(l, n, None)

\* by the requester of the LOC
addSecret(l, n) ==
    /\ values < MaxValues
    /\ addTo(l, n)
    /\ values' = values + 1
    /\ UNCHANGED << identityVars, removed, request, answers, crashed >>

removeSecret(l, n) ==
    /\ removeFrom(l, n)
    /\ removed' = removed \union { << l, n >> }
    /\ UNCHANGED << identityVars, values, request, answers, crashed >>

\* deleteRequest removes the secrets as well: there are some only when the LOC
\* was closed, and its closing cancelled.
deleteLoc(l) ==
    /\ deleteRequest(l)
    /\ secrets' = [secrets EXCEPT ![l] = [n \in Names |-> None]]
    /\ removed' = removed \union { << l, n >> : n \in Has(l) }
    /\ UNCHANGED << values, request, answers, crashed >>

-----------------------------------------------------------------------------
(***************************************************************************)
(* Requests.                                                               *)
(***************************************************************************)

onlyRequest == UNCHANGED << loc, session, late, raced, secrets, values, removed, answers, crashed >>

\* The LOC and the secret are looked up, then the request is added.  The
\* challenge is the client's.
createSecretRecoveryRequest(c, l, n) ==
    /\ n \in Has(l)
    /\ starts(c, "ask", << l, n >>, secrets[l][n])
    /\ onlyRequest
    /\ UNCHANGED request

addRecoveryRequest(c, r) ==
    /\ client[c].at = "ask"
    /\ request[r].status = "NONE"
    /\ request' = [request EXCEPT ![r] =
                      [NoRequest EXCEPT !.status = "PENDING", !.challenge = c,
                                        !.loc = client[c].of[1], !.name = client[c].of[2],
                                        !.asked = client[c].value]]
    /\ ends(c)
    /\ onlyRequest

\* SecretRecoveryRequestService.update: a transaction on one request
updateRequest(r, row) == request' = [request EXCEPT ![r] = row]

\* accept, reject
decide(r, decision) ==
    /\ request[r].status = "PENDING"
    /\ updateRequest(r, [request[r] EXCEPT !.status = decision])

\* The LOC must still be there: its owner decides.
acceptOrReject(r, decision) ==
    /\ decide(r, decision)
    /\ Exists(request[r].loc)
    /\ UNCHANGED client
    /\ onlyRequest

acceptRequest(r) == acceptOrReject(r, "ACCEPTED")
rejectRequest(r) == acceptOrReject(r, "REJECTED")

\* Time passes since the acceptance.
tick(r) ==
    /\ request[r].status = "ACCEPTED"
    /\ request[r].age < (SECRET_EXPIRATION_DAYS + 1) * DAY
    /\ request' = [request EXCEPT ![r].age = @ + 1]
    /\ UNCHANGED client
    /\ onlyRequest

\* Seeded fault: it is decided on what was read before the transaction.
canDownloadWhenRead(r, now) ==
    /\ request[r].status = "ACCEPTED"
    /\ now.age \div DAY <= SECRET_EXPIRATION_DAYS

\* `now` is taken before the transaction; days are counted in whole.
canDownload(r, now) ==
    /\ request[r].status = "ACCEPTED"
    /\ ~request[r].downloaded
    /\ now.age \div DAY <= SECRET_EXPIRATION_DAYS

\* Reads the request, then the LOC, then the time.
downloadSecret(c, r) ==
    LET l == request[r].loc
    IN  /\ request[r].status # "NONE"
        /\ Exists(l)
        /\ starts(c, "mark", r, [value |-> secrets[l][request[r].name], age |-> request[r].age])
        /\ onlyRequest
        /\ UNCHANGED request

\* Seeded fault: the request is used up before the challenge is compared.
markDownloadedAnyway(c) ==
    LET r == client[c].of
    IN  /\ client[c].at = "mark"
        /\ canDownload(r, client[c].value)
        /\ updateRequest(r, [request[r] EXCEPT !.downloaded = TRUE])
        /\ client' = [client EXCEPT ![c] =
                         IF request[r].challenge = c THEN [@ EXCEPT !.at = "answer"] ELSE Idle]
        /\ onlyRequest

markDownloaded(c) ==
    LET r == client[c].of
    IN  /\ client[c].at = "mark"
        /\ request[r].challenge = c
        /\ canDownload(r, client[c].value)
        /\ updateRequest(r, [request[r] EXCEPT !.downloaded = TRUE])
        /\ client' = [client EXCEPT ![c].at = "answer"]
        /\ onlyRequest

\* getSecretOrThrow, of the LOC that was read before the transaction
getSecretOrThrow(c) ==
    /\ client[c].at = "answer"
    /\ client[c].value.value # None
    /\ answers' = answers \union
                     { [of |-> client[c].of, to |-> c, value |-> client[c].value.value,
                        age |-> client[c].value.age, first |-> ~\E a \in answers : a.of = client[c].of] }
    /\ ends(c)
    /\ UNCHANGED << loc, session, late, raced, secrets, values, removed, request, crashed >>

secretFails(c) ==
    /\ client[c].at \in { "ask", "mark", "answer" }
    /\ crashed' = crashed \union { r \in Requests : client[c].at = "answer" /\ client[c].of = r
                                                      /\ client[c].value.value # None }
    /\ ends(c)
    /\ UNCHANGED << loc, session, late, raced, secrets, values, removed, request, answers >>

Next ==
    \/ IdentityStep /\ UNCHANGED secretVars
    \/ \E l \in Locs : deleteLoc(l) \/ \E n \in Names : addSecret(l, n) \/ removeSecret(l, n)
    \/ \E c \in Clients :
        \/ \E l \in Locs, n \in Names : createSecretRecoveryRequest(c, l, n)
        \/ \E r \in Requests : addRecoveryRequest(c, r) \/ downloadSecret(c, r)
        \/ markDownloaded(c) \/ getSecretOrThrow(c) \/ secretFails(c)
    \/ \E r \in Requests : acceptRequest(r) \/ rejectRequest(r) \/ tick(r)

Spec == Init /\ [][Next]_vars

-----------------------------------------------------------------------------
(***************************************************************************)
(* Properties                                                              *)
(***************************************************************************)

\* Columns have the values the code gives them.  A LOC holds one secret more
\* than MAX_SECRETS at most.
TypeOK ==
    /\ \A l \in Locs :
          /\ loc[l].status \in Status \union { "NONE", "DELETED" }
          /\ loc[l].idenfy \in Verdict \union { "PENDING", None }
          /\ (loc[l].idenfy = None) = (loc[l].scan = None)
          /\ loc[l].files \subseteq Sessions
          /\ secrets[l] \in RecoverableSecrets
          /\ \A n \in Has(l) : secrets[l][n] <= values
          /\ Cardinality(Has(l)) <= MAX_SECRETS + 1
          /\ ~Exists(l) => Has(l) = {}
    /\ \A r \in Requests :
          /\ request[r] \in SecretRecoveryRequest \union { NoRequest }
          /\ request[r].downloaded => request[r].status = "ACCEPTED"

\* A secret is only returned for a request that was accepted, to who knows its
\* challenge, once whatever downloads overlap, before the day after the last
\* has passed, and never an older value than the one that was asked for.
ReturnedAsAccepted ==
    \A a \in answers :
        LET r == request[a.of]
        IN  /\ r.status = "ACCEPTED" /\ r.challenge = a.to
            /\ a.first
            /\ a.age < (SECRET_EXPIRATION_DAYS + 1) * DAY
            /\ a.value >= r.asked

\* A request that is used up, and not being answered, was answered, unless the
\* secret it is about was removed, or the process stopped at the very end.
UsedUpForAReason ==
    \A r \in Requests :
        /\ request[r].downloaded
        /\ ~(\E c \in Clients : client[c].at = "answer" /\ client[c].of = r)
        =>
            \/ \E a \in answers : a.of = r
            \/ << request[r].loc, request[r].name >> \in removed
            \/ r \in crashed
=============================================================================
