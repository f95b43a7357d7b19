----------------------------- MODULE IdentityLoc -----------------------------
(***************************************************************************)
(* The identity LOCs of one requester with one legal officer, and their    *)
(* verification by iDenfy.                                                 *)
(*                                                                         *)
(* Whether a requester may have another identity LOC is checked before the *)
(* transaction that inserts it.  A verification session is created by a    *)
(* request to iDenfy, between a check of the LOC and the transaction that  *)
(* records it; iDenfy calls back with its verdict, once or several times,  *)
(* and the files of the verdict are imported before they are added to the  *)
(* LOC.  Items and reviews are those of LocRequest: here only the status   *)
(* of the LOC matters.                                                     *)
(***************************************************************************)
EXTENDS Integers, FiniteSets

CONSTANTS
    Locs,      \* the rows that may ever be inserted
    Sessions,  \* the sessions that iDenfy may ever create
    Clients,   \* the requests that may be served at the same time
    None

ASSUME IdentityAssumption ==
    /\ None \notin Locs /\ None \notin Sessions /\ None \notin Clients
    /\ None \notin { "PENDING", "APPROVED", "SUSPECTED", "DENIED", "EXPIRED" }

VARIABLES
    loc,      \* the rows
    session,  \* iDenfy's sessions, and what became of them
    client,   \* what every request carries over its awaits
    late,     \* history: LOCs inserted, or made valid again, after another was there
    raced     \* history: LOCs that had left DRAFT when their session was recorded

identityVars == << loc, session, client, late, raced >>

Status   == { "DRAFT", "REVIEW_PENDING", "REVIEW_REJECTED", "REVIEW_ACCEPTED", "OPEN", "CLOSED" }
Verdict  == { "APPROVED", "SUSPECTED", "DENIED", "EXPIRED" }
WithFiles == { "APPROVED", "SUSPECTED" }

Row(status) ==
    [ status |-> status, reason |-> FALSE, voidedOn |-> FALSE,
      idenfy |-> None, scan |-> None, files |-> {} ]

\* A session: its URL was returned to the user; the verdict of iDenfy; whether
\* a callback with it was recorded, and its files were removed (history).
NoSession == [loc |-> None, url |-> FALSE, verdict |-> None, told |-> FALSE, removed |-> FALSE]

Exists(l) == loc[l].status \in Status
Idle == [at |-> "idle", of |-> None, value |-> None, sure |-> TRUE]

IdentityInit ==
    /\ loc = [l \in Locs |-> Row("NONE")]
    /\ session = [s \in Sessions |-> NoSession]
    /\ client = [c \in Clients |-> Idle]
    /\ late = {}
    /\ raced = {}

goto(c, from, to) == client[c].at = from /\ client' = [client EXCEPT ![c].at = to]
starts(c, at, of, value) ==
    /\ client[c].at = "idle"
    /\ client' = [client EXCEPT ![c] = [Idle EXCEPT !.at = at, !.of = of, !.value = value]]
ends(c) == client' = [client EXCEPT ![c] = Idle]

update(l, row) == loc' = [loc EXCEPT ![l] = row]
onlyLoc == UNCHANGED << session, client, late, raced >>
onlyClient == UNCHANGED << loc, session, late, raced >>

-----------------------------------------------------------------------------
(***************************************************************************)
(* Creation.                                                               *)
(***************************************************************************)

\* The void info of a loaded row is always there: it is void iff it has a reason.
isVoid(l) == loc[l].reason

getValidPolkadotIdentityLocs == { l \in Locs : loc[l].status = "CLOSED" /\ ~isVoid(l) }
getNonVoidIdentityLocs       == { l \in Locs : Exists(l) /\ ~isVoid(l) }

\* By the requester, as a draft or not, or by the legal officer (OPEN).
createLocRequest(c, status) ==
    /\ status \in { "DRAFT", "REVIEW_PENDING", "OPEN" }
    /\ getNonVoidIdentityLocs = {}
    /\ starts(c, "insert", None, status)
    /\ onlyClient

\* The requester opens a LOC directly: only a closed one stands in the way.
createOpenLoc(c) ==
    /\ getValidPolkadotIdentityLocs = {}
    /\ client[c].at = "idle"
    /\ client' = [client EXCEPT ![c] = [ Idle EXCEPT !.at = "insert", !.value = "OPEN",
                                         !.sure = \A l \in Locs : ~Exists(l) \/ isVoid(l) ]]
    /\ onlyClient

\* The other creations under way made their check too early.
addNewRequest(c, l) ==
    /\ client[c].at = "insert"
    /\ loc[l].status = "NONE"
    /\ update(l, Row(client[c].value))
    /\ client' = [d \in Clients |->
                     IF d = c THEN Idle
                     ELSE IF client[d].at = "insert" THEN [client[d] EXCEPT !.sure = FALSE]
                     ELSE client[d]]
    /\ late' = late \union { m \in { l } : ~client[c].sure }
    /\ UNCHANGED << session, raced >>

-----------------------------------------------------------------------------
(***************************************************************************)
(* The life of a LOC, as far as its identity is concerned.                 *)
(***************************************************************************)

\* Seeded fault: a verification in progress is not looked at.
submitAnyway(l) ==
    /\ loc[l].status = "DRAFT"
    /\ update(l, [loc[l] EXCEPT !.status = "REVIEW_PENDING"])
    /\ onlyLoc

submit(l) ==
    /\ loc[l].status = "DRAFT"
    /\ loc[l].idenfy # "PENDING"
    /\ update(l, [loc[l] EXCEPT !.status = "REVIEW_PENDING"])
    /\ onlyLoc

\* reject, accept, rework, preOpen, cancelPreOpen, preClose (or close), cancelPreClose
Moves == { << "REVIEW_PENDING", "REVIEW_REJECTED" >>, << "REVIEW_PENDING", "REVIEW_ACCEPTED" >>,
           << "REVIEW_REJECTED", "DRAFT" >>, << "REVIEW_ACCEPTED", "DRAFT" >>,
           << "REVIEW_ACCEPTED", "OPEN" >>, << "OPEN", "REVIEW_ACCEPTED" >>,
           << "OPEN", "CLOSED" >>, << "CLOSED", "OPEN" >> }

moves(l) ==
    \E m \in Moves :
        /\ loc[l].status = m[1]
        /\ update(l, [loc[l] EXCEPT !.status = m[2]])
        /\ onlyLoc

\* deleteDraftRejectedOrAccepted, deleteOpen: an identifier is never used again
canDelete(l) == Exists(l) /\ loc[l].status \notin { "REVIEW_PENDING", "CLOSED" }
deleteRequest(l) == canDelete(l) /\ update(l, Row("DELETED")) /\ onlyLoc

preVoid(l) ==
    /\ Exists(l)
    /\ ~isVoid(l)
    /\ update(l, [loc[l] EXCEPT !.reason = TRUE])
    /\ onlyLoc

cancelPreVoid(l) ==
    /\ Exists(l)
    /\ isVoid(l)
    /\ ~loc[l].voidedOn
    /\ update(l, [loc[l] EXCEPT !.reason = FALSE])
    /\ late' = late \union { l }
    /\ UNCHANGED << session, client, raced >>

\* The synchronizer: without the announcement there is a date and no reason.
voidLoc(l) ==
    /\ loc[l].status \in { "OPEN", "CLOSED" }
    /\ update(l, [loc[l] EXCEPT !.voidedOn = TRUE])
    /\ onlyLoc

-----------------------------------------------------------------------------
(***************************************************************************)
(* Verification.                                                           *)
(***************************************************************************)

canInitIdenfyVerification(l) ==
    /\ loc[l].status = "DRAFT"
    /\ loc[l].idenfy \notin { "PENDING", "APPROVED" }

createVerificationSession(c, l) ==
    /\ canInitIdenfyVerification(l)
    /\ starts(c, "token", l, None)
    /\ onlyClient

\* iDenfy answers POST /token.
token(c, s) ==
    /\ client[c].at = "token"
    /\ session[s].loc = None
    /\ session' = [session EXCEPT ![s].loc = client[c].of]
    /\ client' = [client EXCEPT ![c].at = "init", ![c].value = s]
    /\ UNCHANGED << loc, late, raced >>

\* Nothing is checked any more, but that the row is there.
initIdenfyVerification(c) ==
    LET l == client[c].of
    IN  /\ client[c].at = "init"
        /\ Exists(l)
        /\ update(l, [loc[l] EXCEPT !.idenfy = "PENDING", !.scan = client[c].value])
        /\ session' = [session EXCEPT ![client[c].value].url = TRUE]
        /\ raced' = raced \union { m \in { l } : loc[l].status # "DRAFT" }
        /\ ends(c)
        /\ UNCHANGED << late >>

\* iDenfy (external): a session ends with the user who got its URL, or expires.
verdict(s, result) ==
    /\ session[s].loc # None
    /\ session[s].verdict = None
    /\ ~\E c \in Clients : client[c].at = "init" /\ client[c].value = s
    /\ result \in (IF session[s].url THEN Verdict ELSE { "EXPIRED" })
    /\ session' = [session EXCEPT ![s].verdict = result]
    /\ UNCHANGED << loc, client, late, raced >>

\* The callback carries the LOC and the verdict, and is not compared with the
\* session that the LOC recorded.  Only verdicts with files need the LOC first.
callback(c, s) ==
    /\ session[s].verdict # None
    /\ session[s].verdict \in WithFiles => Exists(session[s].loc)
    /\ starts(c, "verdict", session[s].loc, s)
    /\ onlyClient

canUpdate(l, s) ==
    /\ Exists(l)
    /\ loc[l].idenfy = "PENDING"
    /\ session[s].verdict \in WithFiles =>
          loc[l].status \in { "DRAFT", "OPEN" } /\ s \notin loc[l].files

recorded(c, s) ==
    /\ session' = [session EXCEPT ![s].told = TRUE]
    /\ ends(c)
    /\ UNCHANGED << late, raced >>

\* Seeded fault: the verdict is recorded although its files cannot be added.
updateVerdictOnly(c) ==
    LET l == client[c].of
        s == client[c].value
    IN  /\ client[c].at = "verdict"
        /\ Exists(l)
        /\ loc[l].idenfy = "PENDING"
        /\ update(l, [loc[l] EXCEPT !.idenfy = session[s].verdict])
        /\ recorded(c, s)

\* The verdict and the files, in one transaction.
updateIdenfyVerification(c) ==
    LET l == client[c].of
        s == client[c].value
        v == session[s].verdict
    IN  /\ client[c].at = "verdict"
        /\ canUpdate(l, s)
        /\ update(l, [loc[l] EXCEPT !.idenfy = v,
                                    !.files = IF v \in WithFiles THEN @ \union { s } ELSE @])
        /\ recorded(c, s)

\* removeFile, by the legal officer, in whose name they were added
removeFiles(l, s) ==
    /\ loc[l].status \in { "DRAFT", "OPEN" }
    /\ s \in loc[l].files
    /\ update(l, [loc[l] EXCEPT !.files = @ \ { s }])
    /\ session' = [session EXCEPT ![s].removed = TRUE]
    /\ UNCHANGED << client, late, raced >>

\* An exception or a crash at any of the awaits, or in the transaction.
identityFails(c) ==
    /\ client[c].at \in { "insert", "token", "init", "verdict" }
    /\ ends(c)
    /\ onlyClient

IdentityStep ==
    \/ \E c \in Clients :
        \/ createOpenLoc(c) \/ initIdenfyVerification(c) \/ updateIdenfyVerification(c)
        \/ identityFails(c)
        \/ \E status \in Status : createLocRequest(c, status)
        \/ \E l \in Locs : addNewRequest(c, l) \/ createVerificationSession(c, l)
        \/ \E s \in Sessions : token(c, s) \/ callback(c, s)
    \/ \E l \in Locs :
        \/ submit(l) \/ moves(l) \/ preVoid(l) \/ cancelPreVoid(l) \/ voidLoc(l)
        \/ \E s \in Sessions : removeFiles(l, s)
    \/ \E s \in Sessions, result \in Verdict : verdict(s, result)

-----------------------------------------------------------------------------
(***************************************************************************)
(* Properties                                                              *)
(***************************************************************************)

\* Two identity LOCs of one requester with one legal officer are never both
\* there without being void, except when one of them was opened directly while
\* the other was not closed, was inserted after the check made for another
\* one, or had its voiding announced and the announcement cancelled.
OneIdentityLoc ==
    \A l, m \in getNonVoidIdentityLocs : l = m \/ { l, m } \intersect late # {}

\* A verification in progress keeps its LOC from being submitted.  So its LOC is
\* a draft, unless it was already gone from the drafts when a session that was
\* being created was recorded; and no callback of its session was recorded, which
\* would leave it in progress for good.
PendingIsAwaited ==
    \A l \in Locs :
        loc[l].idenfy = "PENDING" =>
            /\ loc[l].status \in Status \ { "DRAFT" } => l \in raced
            /\ ~session[loc[l].scan].told

\* A recorded verdict was given by iDenfy for that LOC, and came with its files:
\* they are in the LOC, or were removed from it.
VerdictIsGenuine ==
    \A l \in Locs :
        loc[l].idenfy \in Verdict =>
            \E s \in Sessions :
                /\ session[s].loc = l
                /\ session[s].verdict = loc[l].idenfy
                /\ loc[l].idenfy \in WithFiles => s \in loc[l].files \/ session[s].removed
=============================================================================
