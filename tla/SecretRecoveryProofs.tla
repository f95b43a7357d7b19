------------------------ MODULE SecretRecoveryProofs ------------------------
(***************************************************************************)
(* The safety of identity LOCs, of their verification and of secret        *)
(* recovery, for any number of LOCs, sessions, secrets, requests and       *)
(* concurrent clients.                                                     *)
(*                                                                         *)
(* The invariant is about what every client carries over its awaits: what  *)
(* it read before still implies something when it is used.  IdInv is what  *)
(* the identity LOCs and the verification need, SecInv what the secrets    *)
(* need; each only depends on the clients that are about it.               *)
(***************************************************************************)
EXTENDS SecretRecovery, FiniteSetTheorems, TLAPS

LocRow ==
    [ status : Status \union { "NONE", "DELETED" }, reason : BOOLEAN, voidedOn : BOOLEAN,
      idenfy : Verdict \union { "PENDING", None }, scan : Sessions \union { None },
      files : SUBSET Sessions ]

Session ==
    [ loc : Locs \union { None }, url : BOOLEAN, verdict : Verdict \union { None },
      told : BOOLEAN, removed : BOOLEAN ]

\* what downloadSecret reads
Reading == [ value : (1 .. MaxValues) \union { None }, age : Nat ]

About == Locs \union (Locs \X Names) \union Requests \union { None }
Carried == Status \union Sessions \union (1 .. MaxValues) \union Reading \union { None }

IdentityAt == { "insert", "token", "init", "verdict" }
SecretAt   == { "ask", "mark", "answer" }

Client == [ at : IdentityAt \union SecretAt \union { "idle" }, of : About, value : Carried,
            sure : BOOLEAN ]

Typed ==
    /\ loc \in [Locs -> LocRow]
    /\ session \in [Sessions -> Session]
    /\ client \in [Clients -> Client]

NonVoid(l) == Exists(l) /\ ~isVoid(l)

-----------------------------------------------------------------------------
(***************************************************************************)
(* The invariant of identity LOCs.                                         *)
(***************************************************************************)

\* what the LOC records of a session
Recorded ==
    \A l \in Locs :
        /\ loc[l].idenfy = None <=> loc[l].scan = None
        /\ loc[l].idenfy = "PENDING" => session[loc[l].scan].loc = l

ToldHasVerdict ==
    \A s \in Sessions :
        /\ session[s].told => session[s].verdict # None
        /\ session[s].verdict # None => session[s].loc \in Locs

\* a check that still holds: no LOC came since, but those of `late`
SureOfNone ==
    \A c \in Clients :
        client[c].at = "insert" =>
            /\ client[c].value \in Status
            /\ client[c].sure => \A l \in Locs : NonVoid(l) => l \in late

\* the LOC and the session that a verification request carries
AboutSession ==
    \A c \in Clients :
        /\ client[c].at = "token" => client[c].of \in Locs
        /\ client[c].at \in { "init", "verdict" } =>
              /\ client[c].of \in Locs /\ client[c].value \in Sessions
              /\ session[client[c].value].loc = client[c].of
        /\ client[c].at = "init" => session[client[c].value].verdict = None
        /\ client[c].at = "verdict" => session[client[c].value].verdict # None

IdInv ==
    /\ Typed
    /\ Recorded /\ ToldHasVerdict /\ SureOfNone /\ AboutSession
    /\ OneIdentityLoc /\ PendingIsAwaited /\ VerdictIsGenuine

USE IdentityAssumption, SecretAssumption DEF IdentityAssumption, SecretAssumption

LEMMA IdleTyped == Idle \in Client /\ Idle.at = "idle"
  BY DEF Idle, Client, About, Carried

\* One client goes on, the others do not.
LEMMA ClientChanges ==
    ASSUME Typed, NEW c \in Clients, NEW new \in Client,
           client' = [client EXCEPT ![c] = new]
    PROVE  /\ client' \in [Clients -> Client]
           /\ client'[c] = new
           /\ \A d \in Clients : d # c => client'[d] = client[d]
  BY DEF Typed

LEMMA RowChanges ==
    ASSUME Typed, NEW l \in Locs, NEW row \in LocRow, update(l, row)
    PROVE  /\ loc' \in [Locs -> LocRow]
           /\ loc'[l] = row
           /\ \A m \in Locs : m # l => loc'[m] = loc[m]
  BY DEF Typed, update

LEMMA SessionChanges ==
    ASSUME Typed, NEW s \in Sessions, NEW new \in Session,
           session' = [session EXCEPT ![s] = new]
    PROVE  /\ session' \in [Sessions -> Session]
           /\ session'[s] = new
           /\ \A t \in Sessions : t # s => session'[t] = session[t]
  BY DEF Typed

\* The requests about anything else leave it alone.
LEMMA OtherClients ==
    ASSUME IdInv, client' \in [Clients -> Client],
           UNCHANGED << loc, session, late, raced >>,
           \A d \in Clients : client'[d].at \in IdentityAt => client'[d] = client[d]
    PROVE  IdInv'
<1>1. Typed' /\ Recorded' /\ ToldHasVerdict'
  BY DEF IdInv, Typed, Recorded, ToldHasVerdict
<1>2. SureOfNone'
  BY DEF IdInv, SureOfNone, NonVoid, Exists, isVoid, IdentityAt
<1>3. AboutSession'
  BY DEF IdInv, AboutSession, IdentityAt
<1>4. OneIdentityLoc' /\ PendingIsAwaited' /\ VerdictIsGenuine'
  BY DEF IdInv, OneIdentityLoc, getNonVoidIdentityLocs, Exists, isVoid, PendingIsAwaited,
         VerdictIsGenuine
<1> QED
  BY <1>1, <1>2, <1>3, <1>4 DEF IdInv

-----------------------------------------------------------------------------
(***************************************************************************)
(* The steps of the clients that leave the LOCs and the sessions alone.    *)
(***************************************************************************)

LEMMA Starts ==
    ASSUME Typed, NEW c \in Clients, NEW at \in IdentityAt \union SecretAt,
    NEW of \in About,
           NEW value \in Carried, starts(c, at, of, value)
    PROVE  /\ client[c].at = "idle"
           /\ client' \in [Clients -> Client]
           /\ client'[c].at = at /\ client'[c].of = of /\ client'[c].value = value
           /\ \A d \in Clients : d # c => client'[d] = client[d]
<1> DEFINE new == [Idle EXCEPT !.at = at, !.of = of, !.value = value]
<1>1. new.at = at /\ new.of = of /\ new.value = value
  BY DEF Idle
<1>2. new \in Client
  BY DEF Client, Idle
<1>3. client' = [client EXCEPT ![c] = new] /\ client[c].at = "idle"
  BY DEF starts
<1> HIDE DEF new
<1> QED
  BY <1>1, <1>2, <1>3, ClientChanges

LEMMA Ends ==
    ASSUME Typed, NEW c \in Clients, ends(c)
    PROVE  /\ client' \in [Clients -> Client]
           /\ client'[c] = Idle /\ client'[c].at = "idle"
           /\ \A d \in Clients : d # c => client'[d] = client[d]
  BY IdleTyped, ClientChanges DEF ends

\* What a new carrier of a check, or of a session, has to satisfy.
LEMMA ClientsKeepIdInv ==
    ASSUME IdInv, NEW c \in Clients, client' \in [Clients -> Client],
           UNCHANGED << loc, session, late, raced >>,
           \A d \in Clients : d # c => client'[d] = client[d],
           client'[c].at = "insert" =>
              /\ client'[c].value \in Status
              /\ client'[c].sure => \A l \in Locs : NonVoid(l) => l \in late,
           client'[c].at = "token" => client'[c].of \in Locs,
           client'[c].at # "init",
           client'[c].at = "verdict" =>
              /\ client'[c].of \in Locs /\ client'[c].value \in Sessions
              /\ session[client'[c].value].loc = client'[c].of
              /\ session[client'[c].value].verdict # None
    PROVE  IdInv'
<1>1. Typed' /\ Recorded' /\ ToldHasVerdict'
  BY DEF IdInv, Typed, Recorded, ToldHasVerdict
<1>2. \A l \in Locs : NonVoid(l)' <=> NonVoid(l)
  BY DEF NonVoid, Exists, isVoid
<1>3. SureOfNone'
  BY <1>2 DEF IdInv, SureOfNone
<1>4. AboutSession'
  BY DEF IdInv, AboutSession
<1>5. OneIdentityLoc' /\ PendingIsAwaited' /\ VerdictIsGenuine'
  BY DEF IdInv, OneIdentityLoc, getNonVoidIdentityLocs, Exists, isVoid, PendingIsAwaited,
         VerdictIsGenuine
<1> QED
  BY <1>1, <1>3, <1>4, <1>5 DEF IdInv

LEMMA CreationKeepsIdInv ==
    ASSUME IdInv, NEW c \in Clients,
           createOpenLoc(c) \/ \E status \in Status : createLocRequest(c, status)
    PROVE  IdInv'
<1>1. CASE createOpenLoc(c)
  <2> DEFINE sure == \A l \in Locs : ~Exists(l) \/ isVoid(l)
  <2>1. PICK b \in BOOLEAN : b = sure
    OBVIOUS
  <2> DEFINE new == [Idle EXCEPT !.at = "insert", !.value = "OPEN", !.sure = b]
  <2>2. new \in Client /\ new.at = "insert" /\ new.value = "OPEN" /\ new.sure = b
    BY DEF Client, About, Carried, IdentityAt, Status, Idle
  <2>3. client' = [client EXCEPT ![c] = new] /\ UNCHANGED << loc, session, late, raced >>
    BY <1>1, <2>1 DEF createOpenLoc, onlyClient
  <2>4. b => \A l \in Locs : ~NonVoid(l)
    BY <2>1 DEF NonVoid
  <2> HIDE DEF new
  <2>5. /\ client' \in [Clients -> Client] /\ client'[c] = new
        /\ \A d \in Clients : d # c => client'[d] = client[d]
    BY <2>2, <2>3, ClientChanges DEF IdInv
  <2> QED
    BY <2>2, <2>3, <2>4, <2>5, ClientsKeepIdInv DEF Status
<1>2. ASSUME NEW status \in Status, createLocRequest(c, status)
      PROVE  IdInv'
  <2>1. "insert" \in IdentityAt /\ None \in About /\ status \in Carried /\ Typed
    BY DEF IdentityAt, About, Carried, IdInv
  <2>2. starts(c, "insert", None, status) /\ UNCHANGED << loc, session, late, raced >>
    BY <1>2 DEF createLocRequest, onlyClient
  <2>3. /\ client' \in [Clients -> Client]
        /\ client'[c].at = "insert" /\ client'[c].value = status
        /\ \A d \in Clients : d # c => client'[d] = client[d]
    BY <2>1, <2>2, Starts
  <2>4. \A l \in Locs : ~NonVoid(l)
    BY <1>2 DEF createLocRequest, getNonVoidIdentityLocs, NonVoid
  <2> QED
    BY <2>2, <2>3, <2>4, ClientsKeepIdInv
<1> QED
  BY <1>1, <1>2

LEMMA VerificationStartsKeepIdInv ==
    ASSUME IdInv, NEW c \in Clients,
           \/ \E l \in Locs : createVerificationSession(c, l)
           \/ \E s \in Sessions : callback(c, s)
           \/ identityFails(c)
    PROVE  IdInv'
<1> USE DEF IdentityAt, About, Carried
<1>1. ASSUME NEW l \in Locs, createVerificationSession(c, l)
      PROVE  IdInv'
  <2>1. starts(c, "token", l, None) /\ UNCHANGED << loc, session, late, raced >> /\ Typed
    BY <1>1 DEF createVerificationSession, onlyClient, IdInv
  <2>2. /\ client' \in [Clients -> Client]
        /\ client'[c].at = "token" /\ client'[c].of = l
        /\ \A d \in Clients : d # c => client'[d] = client[d]
    BY <2>1, Starts
  <2> QED
    BY <2>1, <2>2, ClientsKeepIdInv
<1>2. ASSUME NEW s \in Sessions, callback(c, s)
      PROVE  IdInv'
  <2>1. starts(c, "verdict", session[s].loc, s) /\ UNCHANGED << loc, session, late, raced >>
        /\ Typed /\ session[s].verdict # None
    BY <1>2 DEF callback, onlyClient, IdInv
  <2>2. session[s].loc \in Locs
    BY <2>1 DEF IdInv, ToldHasVerdict
  <2>3. /\ client' \in [Clients -> Client]
        /\ client'[c].at = "verdict"
        /\ client'[c].of = session[s].loc /\ client'[c].value = s
        /\ \A d \in Clients : d # c => client'[d] = client[d]
    BY <2>1, <2>2, Starts
  <2> QED
    BY <2>1, <2>2, <2>3, ClientsKeepIdInv
<1>3. CASE identityFails(c)
  <2>1. ends(c) /\ UNCHANGED << loc, session, late, raced >> /\ Typed
    BY <1>3 DEF identityFails, onlyClient, IdInv
  <2> QED
    BY <2>1, Ends, ClientsKeepIdInv
<1> QED
  BY <1>1, <1>2, <1>3

-----------------------------------------------------------------------------
(***************************************************************************)
(* The steps of a LOC's life.                                              *)
(***************************************************************************)

LEMMA RowsTyped == \A status \in Status \union { "NONE", "DELETED" } :
    Row(status) \in LocRow /\ Row(status).idenfy = None /\ Row(status).scan = None
                           /\ Row(status).status = status
  BY DEF Row, LocRow

\* No LOC is valid that was not, but those of `late`.
LEMMA OneIdentityKept ==
    ASSUME OneIdentityLoc, SureOfNone, late \subseteq late', UNCHANGED client,
           \A l \in Locs : NonVoid(l)' => NonVoid(l) \/ l \in late'
    PROVE  OneIdentityLoc' /\ SureOfNone'
<1>1. OneIdentityLoc'
  <2> SUFFICES ASSUME NEW l \in Locs, NEW m \in Locs, NonVoid(l)', NonVoid(m)'
               PROVE  l = m \/ l \in late' \/ m \in late'
    BY DEF OneIdentityLoc, getNonVoidIdentityLocs, NonVoid
  <2>1. NonVoid(l) /\ NonVoid(m) => l = m \/ l \in late \/ m \in late
    BY DEF OneIdentityLoc, getNonVoidIdentityLocs, NonVoid
  <2> QED
    BY <2>1
<1>2. SureOfNone'
  BY DEF SureOfNone
<1> QED
  BY <1>1, <1>2

\* One row changes, and neither its session nor a request.
LEMMA LifeKeepsIdInv ==
    ASSUME IdInv, NEW l \in Locs, NEW row \in LocRow, update(l, row),
           UNCHANGED << session, client, raced >>, late \subseteq late',
           \/ row.idenfy = None /\ row.scan = None
           \/ /\ row.idenfy = loc[l].idenfy /\ row.scan = loc[l].scan /\ row.files = loc[l].files
              /\ \/ row.status = loc[l].status
                 \/ /\ loc[l].status \in Status
                    /\ loc[l].status = "DRAFT" => loc[l].idenfy # "PENDING",
           row.status \in Status /\ ~row.reason => NonVoid(l) \/ l \in late'
    PROVE  IdInv'
<1>1. /\ loc' \in [Locs -> LocRow] /\ loc'[l] = row
      /\ \A m \in Locs : m # l => loc'[m] = loc[m]
  BY RowChanges DEF IdInv
<1>2. Typed'
  BY <1>1 DEF IdInv, Typed
<1>3. Recorded'
  BY <1>1 DEF IdInv, Recorded
<1>4. ToldHasVerdict' /\ AboutSession'
  BY DEF IdInv, ToldHasVerdict, AboutSession
<1>5. \A m \in Locs : NonVoid(m)' => NonVoid(m) \/ m \in late'
  BY <1>1 DEF NonVoid, Exists, isVoid
<1>6. OneIdentityLoc' /\ SureOfNone'
  BY <1>5, OneIdentityKept DEF IdInv
<1>7. PendingIsAwaited'
  BY <1>1 DEF IdInv, PendingIsAwaited
<1>8. VerdictIsGenuine'
  <2> SUFFICES ASSUME NEW m \in Locs, loc'[m].idenfy \in Verdict
               PROVE  /\ loc[m].idenfy = loc'[m].idenfy /\ loc[m].files = loc'[m].files
    BY DEF IdInv, VerdictIsGenuine
  <2> QED
    BY <1>1 DEF Verdict
<1> QED
  BY <1>2, <1>3, <1>4, <1>6, <1>7, <1>8 DEF IdInv

LEMMA StatusKeepsIdInv ==
    ASSUME IdInv, NEW l \in Locs, submit(l) \/ moves(l)
    PROVE  IdInv'
<1>1. loc[l] \in LocRow /\ UNCHANGED << session, client, raced, late >>
  BY DEF IdInv, Typed, submit, moves, onlyLoc
<1>2. PICK status \in Status : update(l, [loc[l] EXCEPT !.status = status])
  BY DEF submit, moves, Moves, Status
<1>3. loc[l].status \in Status /\ (loc[l].status = "DRAFT" => loc[l].idenfy # "PENDING")
  BY DEF submit, moves, Moves, Status
<1> DEFINE row == [loc[l] EXCEPT !.status = status]
<1>4. /\ row \in LocRow /\ row.status = status /\ row.reason = loc[l].reason
      /\ row.idenfy = loc[l].idenfy /\ row.scan = loc[l].scan /\ row.files = loc[l].files
  BY <1>1 DEF LocRow
<1>5. ~row.reason => NonVoid(l)
  BY <1>3, <1>4 DEF NonVoid, Exists, isVoid
<1> HIDE DEF row
<1> QED
  BY <1>1, <1>2, <1>3, <1>4, <1>5, LifeKeepsIdInv DEF row

LEMMA VoidKeepsIdInv ==
    ASSUME IdInv, NEW l \in Locs, preVoid(l) \/ cancelPreVoid(l) \/ voidLoc(l)
    PROVE  IdInv'
<1>1. loc[l] \in LocRow
  BY DEF IdInv, Typed
<1>2. CASE preVoid(l)
  <2> DEFINE row == [loc[l] EXCEPT !.reason = TRUE]
  <2>1. /\ row \in LocRow /\ row.status = loc[l].status /\ row.reason
        /\ row.idenfy = loc[l].idenfy /\ row.scan = loc[l].scan /\ row.files = loc[l].files
    BY <1>1 DEF LocRow
  <2>2. update(l, row) /\ UNCHANGED << session, client, raced, late >>
    BY <1>2 DEF preVoid, onlyLoc
  <2> HIDE DEF row
  <2> QED
    BY <2>1, <2>2, LifeKeepsIdInv
<1>3. CASE cancelPreVoid(l)
  <2> DEFINE row == [loc[l] EXCEPT !.reason = FALSE]
  <2>1. /\ row \in LocRow /\ row.status = loc[l].status
        /\ row.idenfy = loc[l].idenfy /\ row.scan = loc[l].scan /\ row.files = loc[l].files
    BY <1>1 DEF LocRow
  <2>2. update(l, row) /\ UNCHANGED << session, client,
  raced >> /\ late' = late \union { l }
    BY <1>3 DEF cancelPreVoid
  <2> HIDE DEF row
  <2> QED
    BY <2>1, <2>2, LifeKeepsIdInv
<1>4. CASE voidLoc(l)
  <2> DEFINE row == [loc[l] EXCEPT !.voidedOn = TRUE]
  <2>1. /\ row \in LocRow /\ row.status = loc[l].status /\ row.reason = loc[l].reason
        /\ row.idenfy = loc[l].idenfy /\ row.scan = loc[l].scan /\ row.files = loc[l].files
    BY <1>1 DEF LocRow
  <2>2. update(l, row) /\ UNCHANGED << session, client, raced, late >>
    BY <1>4 DEF voidLoc, onlyLoc
  <2>3. row.status \in Status /\ ~row.reason => NonVoid(l)
    BY <2>1 DEF NonVoid, Exists, isVoid
  <2> HIDE DEF row
  <2> QED
    BY <2>1, <2>2, <2>3, LifeKeepsIdInv
<1> QED
  BY <1>2, <1>3, <1>4

LEMMA DeletionKeepsIdInv ==
    ASSUME IdInv, NEW l \in Locs, deleteRequest(l)
    PROVE  IdInv'
<1>1. update(l, Row("DELETED")) /\ UNCHANGED << session, client, raced, late >>
  BY DEF deleteRequest, onlyLoc
<1>2. /\ Row("DELETED") \in LocRow /\ Row("DELETED").status = "DELETED"
      /\ Row("DELETED").idenfy = None /\ Row("DELETED").scan = None
  BY RowsTyped
<1> QED
  BY <1>1, <1>2, LifeKeepsIdInv DEF Status

\* The inserted LOC is in `late` unless the check of its client still holds.
LEMMA InsertKeepsIdInv ==
    ASSUME IdInv, NEW c \in Clients, NEW l \in Locs, addNewRequest(c, l)
    PROVE  IdInv'
<1> DEFINE row == Row(client[c].value)
<1>1. /\ client[c].at = "insert" /\ update(l, row) /\ UNCHANGED << session, raced >>
      /\ late' = late \union { m \in { l } : ~client[c].sure }
  BY DEF addNewRequest
<1>2. client[c].value \in Status
  BY <1>1 DEF IdInv, SureOfNone
<1>3. row \in LocRow /\ row.idenfy = None /\ row.scan = None
  BY <1>2, RowsTyped
<1> HIDE DEF row
<1>4. /\ loc' \in [Locs -> LocRow] /\ loc'[l] = row
      /\ \A m \in Locs : m # l => loc'[m] = loc[m]
  BY <1>1, <1>3, RowChanges DEF IdInv
<1>5. /\ client' \in [Clients -> Client]
      /\ \A d \in Clients :
            /\ client'[d].at # client[d].at => client'[d].at = "idle"
            /\ client'[d].at = "insert" => ~client'[d].sure /\ client'[d].value = client[d].value
            /\ client'[d].at \in { "token", "init", "verdict" } => client'[d] = client[d]
  <2>1. client' = [d \in Clients |->
                     IF d = c THEN Idle
                     ELSE IF client[d].at = "insert" THEN [client[d] EXCEPT !.sure = FALSE]
                     ELSE client[d]]
    BY DEF addNewRequest
  <2>2. ASSUME NEW d \in Clients
        PROVE  /\ client'[d] \in Client
               /\ client'[d].at # client[d].at => client'[d].at = "idle"
               /\ client'[d].at = "insert" => ~client'[d].sure /\ client'[d].value = client[d].value
               /\ client'[d].at \in { "token", "init", "verdict" } => client'[d] = client[d]
    <3>1. client[d] \in Client
      BY DEF IdInv, Typed
    <3> DEFINE new == [client[d] EXCEPT !.sure = FALSE]
    <3>2. new \in Client /\ new.at = client[d].at /\ new.value = client[d].value /\ ~new.sure
      BY <3>1 DEF Client
    <3>3. client'[d] = IF d = c THEN Idle
                       ELSE IF client[d].at = "insert" THEN new ELSE client[d]
      BY <2>1
    <3> HIDE DEF new
    <3> QED
      BY <3>1, <3>2, <3>3, IdleTyped
  <2> QED
    BY <2>1, <2>2
<1>6. Typed'
  BY <1>1, <1>4, <1>5 DEF IdInv, Typed
<1>7. Recorded' /\ ToldHasVerdict'
  BY <1>1, <1>3, <1>4 DEF IdInv, Recorded, ToldHasVerdict
<1>8. AboutSession'
  BY <1>1, <1>5 DEF IdInv, AboutSession
<1>9. SureOfNone'
  BY <1>5 DEF IdInv, SureOfNone
<1>10. OneIdentityLoc'
  <2> SUFFICES ASSUME NEW p \in Locs, NEW q \in Locs, NonVoid(p)', NonVoid(q)', p # q
               PROVE  p \in late' \/ q \in late'
    BY DEF OneIdentityLoc, getNonVoidIdentityLocs, NonVoid
  <2>1. \A m \in Locs : m # l /\ NonVoid(m)' => NonVoid(m)
    BY <1>4 DEF NonVoid, Exists, isVoid
  <2>2. CASE p # l /\ q # l
    BY <1>1, <2>1, <2>2 DEF IdInv, OneIdentityLoc, getNonVoidIdentityLocs, NonVoid
  <2>3. CASE client[c].sure /\ (p = l \/ q = l)
    BY <1>1, <2>1, <2>3 DEF IdInv, SureOfNone
  <2>4. CASE ~client[c].sure /\ (p = l \/ q = l)
    BY <1>1, <2>4
  <2> QED
    BY <2>2, <2>3, <2>4
<1>11. PendingIsAwaited' /\ VerdictIsGenuine'
  <2>1. \A m \in Locs : loc'[m].idenfy \in Verdict \union { "PENDING" } => loc'[m] = loc[m]
    BY <1>3, <1>4 DEF Verdict
  <2>2. PendingIsAwaited'
    BY <1>1, <2>1 DEF IdInv, PendingIsAwaited
  <2>3. VerdictIsGenuine'
    BY <1>1, <2>1 DEF IdInv, VerdictIsGenuine
  <2> QED
    BY <2>2, <2>3
<1> QED
  BY <1>6, <1>7, <1>8, <1>9, <1>10, <1>11 DEF IdInv

-----------------------------------------------------------------------------
(***************************************************************************)
(* The steps of a verification.                                            *)
(***************************************************************************)

LEMMA TokenKeepsIdInv ==
    ASSUME IdInv, NEW c \in Clients, NEW s \in Sessions, token(c, s)
    PROVE  IdInv'
<1> DEFINE sessionNow == [session[s] EXCEPT !.loc = client[c].of]
           clientNow  == [client[c] EXCEPT !.at = "init", !.value = s]
<1>1. /\ client[c].at = "token" /\ session[s].loc = None
      /\ session' = [session EXCEPT ![s] = sessionNow]
      /\ client' = [client EXCEPT ![c] = clientNow]
      /\ UNCHANGED << loc, late, raced >>
      /\ client[c] \in Client /\ session[s] \in Session /\ client[c].of \in Locs
  BY DEF token, IdInv, Typed, AboutSession
<1>2. /\ sessionNow \in Session /\ sessionNow.loc = client[c].of
      /\ sessionNow.verdict = session[s].verdict /\ sessionNow.told = session[s].told
      /\ sessionNow.removed = session[s].removed
  BY <1>1 DEF Session
<1>3. /\ clientNow \in Client /\ clientNow.at = "init"
      /\ clientNow.of = client[c].of /\ clientNow.value = s
  BY <1>1 DEF Client, IdentityAt, Carried
<1>4. session[s].verdict = None
  BY <1>1 DEF IdInv, ToldHasVerdict
<1> HIDE DEF sessionNow, clientNow
<1>5. /\ session' \in [Sessions -> Session] /\ session'[s] = sessionNow
      /\ \A t \in Sessions : t # s => session'[t] = session[t]
  BY <1>1, <1>2, SessionChanges DEF IdInv
<1>6. /\ client' \in [Clients -> Client] /\ client'[c] = clientNow
      /\ \A d \in Clients : d # c => client'[d] = client[d]
  BY <1>1, <1>3, ClientChanges DEF IdInv
<1>7. Typed'
  BY <1>1, <1>5, <1>6 DEF IdInv, Typed
<1>8. Recorded'
  <2> SUFFICES ASSUME NEW l \in Locs, loc[l].idenfy = "PENDING"
               PROVE  session'[loc[l].scan].loc = l
    BY <1>1 DEF IdInv, Recorded
  <2>1. session[loc[l].scan].loc = l /\ loc[l].scan \in Sessions
    BY DEF IdInv, Recorded, Typed, LocRow
  <2> QED
    BY <1>1, <1>5, <2>1
<1>9. ToldHasVerdict'
  BY <1>1, <1>2, <1>5 DEF IdInv, ToldHasVerdict
<1>10. AboutSession'
  BY <1>1, <1>2, <1>3, <1>4, <1>5, <1>6 DEF IdInv, AboutSession
<1>11. SureOfNone'
  BY <1>1, <1>3, <1>6 DEF IdInv, SureOfNone, NonVoid, Exists, isVoid
<1>12. OneIdentityLoc'
  BY <1>1 DEF IdInv, OneIdentityLoc, getNonVoidIdentityLocs, Exists, isVoid
<1>13. PendingIsAwaited'
  <2> SUFFICES ASSUME NEW l \in Locs, loc[l].idenfy = "PENDING"
               PROVE  session'[loc[l].scan].told = session[loc[l].scan].told
    BY <1>1 DEF IdInv, PendingIsAwaited
  <2>1. loc[l].scan \in Sessions
    BY DEF IdInv, Recorded, Typed, LocRow
  <2> QED
    BY <1>2, <1>5, <2>1
<1>14. VerdictIsGenuine'
  <2> SUFFICES ASSUME NEW l \in Locs, loc[l].idenfy \in Verdict
               PROVE  \E t \in Sessions :
                         /\ session'[t].loc = l /\ session'[t].verdict = loc[l].idenfy
                         /\ loc[l].idenfy \in WithFiles => t \in loc[l].files \/ session'[t].removed
    BY <1>1 DEF VerdictIsGenuine
  <2>1. PICK t \in Sessions :
           /\ session[t].loc = l /\ session[t].verdict = loc[l].idenfy
           /\ loc[l].idenfy \in WithFiles => t \in loc[l].files \/ session[t].removed
    BY DEF IdInv, VerdictIsGenuine
  <2>2. t # s
    BY <1>1, <2>1
  <2> QED
    BY <1>5, <2>1, <2>2
<1> QED
  BY <1>7, <1>8, <1>9, <1>10, <1>11, <1>12, <1>13, <1>14 DEF IdInv

LEMMA InitVerificationKeepsIdInv ==
    ASSUME IdInv, NEW c \in Clients, initIdenfyVerification(c)
    PROVE  IdInv'
<1> DEFINE l == client[c].of
           s == client[c].value
           row == [loc[l] EXCEPT !.idenfy = "PENDING", !.scan = s]
           sessionNow == [session[s] EXCEPT !.url = TRUE]
<1>1. /\ client[c].at = "init" /\ Exists(l) /\ update(l, row) /\ ends(c)
      /\ session' = [session EXCEPT ![s] = sessionNow]
      /\ raced' = raced \union { m \in { l } : loc[l].status # "DRAFT" } /\ late' = late
  BY DEF initIdenfyVerification
<1>2. /\ l \in Locs /\ s \in Sessions /\ session[s].loc = l /\ session[s].verdict = None
      /\ loc[l] \in LocRow /\ session[s] \in Session
  BY <1>1 DEF IdInv, AboutSession, Typed
<1> HIDE DEF l, s
<1>3. /\ row \in LocRow /\ row.idenfy = "PENDING" /\ row.scan = s
      /\ row.status = loc[l].status /\ row.reason = loc[l].reason
  BY <1>2 DEF LocRow
<1>4. /\ sessionNow \in Session /\ sessionNow.loc = session[s].loc
      /\ sessionNow.verdict = session[s].verdict /\ sessionNow.told = session[s].told
      /\ sessionNow.removed = session[s].removed
  BY <1>2 DEF Session
<1> HIDE DEF row, sessionNow
<1>5. /\ loc' \in [Locs -> LocRow] /\ loc'[l] = row
      /\ \A m \in Locs : m # l => loc'[m] = loc[m]
  BY <1>1, <1>2, <1>3, RowChanges DEF IdInv
<1>6. /\ session' \in [Sessions -> Session] /\ session'[s] = sessionNow
      /\ \A t \in Sessions : t # s => session'[t] = session[t]
  BY <1>1, <1>2, <1>4, SessionChanges DEF IdInv
<1>7. /\ client' \in [Clients -> Client] /\ client'[c].at = "idle"
      /\ \A d \in Clients : d # c => client'[d] = client[d]
  BY <1>1, Ends DEF IdInv
<1>8. \A t \in Sessions :
         /\ session'[t].loc = session[t].loc /\ session'[t].verdict = session[t].verdict
         /\ session'[t].told = session[t].told /\ session'[t].removed = session[t].removed
  BY <1>4, <1>6
<1>9. \A m \in Locs : NonVoid(m)' <=> NonVoid(m)
  BY <1>3, <1>5 DEF NonVoid, Exists, isVoid
<1>10. Typed'
  BY <1>5, <1>6, <1>7 DEF Typed
<1>11. \A m \in Locs : loc[m].idenfy = "PENDING" => loc[m].scan \in Sessions
  BY DEF IdInv, Recorded, Typed, LocRow
<1>12. Recorded'
  BY <1>2, <1>3, <1>5, <1>8, <1>11 DEF IdInv, Recorded
<1>13. ToldHasVerdict'
  BY <1>8 DEF IdInv, ToldHasVerdict
<1>14. AboutSession'
  BY <1>7, <1>8 DEF IdInv, AboutSession
<1>15. SureOfNone'
  BY <1>1, <1>7, <1>9 DEF IdInv, SureOfNone
<1>16. OneIdentityLoc'
  BY <1>1, <1>9 DEF IdInv, OneIdentityLoc, getNonVoidIdentityLocs, NonVoid
<1>17. PendingIsAwaited'
  <2>1. ~session[s].told
    BY <1>2 DEF IdInv, ToldHasVerdict
  <2>2. loc'[l].status # "DRAFT" => l \in raced'
    BY <1>1, <1>3, <1>5
  <2>3. raced \subseteq raced'
    BY <1>1
  <2>4. ASSUME NEW m \in Locs, loc'[m].idenfy = "PENDING"
        PROVE  /\ loc'[m].status \in Status \ { "DRAFT" } => m \in raced'
               /\ ~session'[loc'[m].scan].told
    <3>1. CASE m = l
      BY <1>2, <1>3, <1>5, <1>8, <2>1, <2>2, <3>1
    <3>2. CASE m # l
      BY <1>5, <1>8, <1>11, <2>3, <2>4, <3>2 DEF IdInv, PendingIsAwaited
    <3> QED
      BY <3>1, <3>2
  <2> QED
    BY <2>4 DEF PendingIsAwaited
<1>18. VerdictIsGenuine'
  <2>1. \A m \in Locs : loc'[m].idenfy \in Verdict => loc'[m] = loc[m]
    BY <1>3, <1>5 DEF Verdict
  <2> QED
    BY <1>8, <2>1 DEF IdInv, VerdictIsGenuine
<1> QED
  BY <1>10, <1>12, <1>13, <1>14, <1>15, <1>16, <1>17, <1>18 DEF IdInv

LEMMA VerdictKeepsIdInv ==
    ASSUME IdInv, NEW s \in Sessions, NEW result \in Verdict, verdict(s, result)
    PROVE  IdInv'
<1> DEFINE sessionNow == [session[s] EXCEPT !.verdict = result]
<1>1. /\ session[s].loc # None /\ session[s].verdict = None
      /\ ~\E c \in Clients : client[c].at = "init" /\ client[c].value = s
      /\ session' = [session EXCEPT ![s] = sessionNow]
      /\ UNCHANGED << loc, client, late, raced >>
      /\ session[s] \in Session
  BY DEF verdict, IdInv, Typed
<1>2. /\ sessionNow \in Session /\ sessionNow.loc = session[s].loc /\ sessionNow.verdict = result
      /\ sessionNow.told = session[s].told /\ sessionNow.removed = session[s].removed
  BY <1>1 DEF Session
<1>3. result # None /\ session[s].loc \in Locs
  BY <1>1 DEF Verdict, Session
<1> HIDE DEF sessionNow
<1>4. /\ session' \in [Sessions -> Session] /\ session'[s] = sessionNow
      /\ \A t \in Sessions : t # s => session'[t] = session[t]
  BY <1>1, <1>2, SessionChanges DEF IdInv
<1>5. \A t \in Sessions :
         /\ session'[t].loc = session[t].loc /\ session'[t].told = session[t].told
         /\ session'[t].removed = session[t].removed
  BY <1>2, <1>4
<1>6. \A t \in Sessions : session[t].verdict # None => session'[t].verdict = session[t].verdict
  BY <1>1, <1>4
<1>7. \A m \in Locs : loc[m].idenfy = "PENDING" => loc[m].scan \in Sessions
  BY DEF IdInv, Recorded, Typed, LocRow
<1>8. Typed'
  BY <1>1, <1>4 DEF IdInv, Typed
<1>9. Recorded' /\ ToldHasVerdict'
  BY <1>1, <1>2, <1>3, <1>4, <1>5, <1>6, <1>7 DEF IdInv, Recorded, ToldHasVerdict
<1>10. AboutSession'
  BY <1>1, <1>4, <1>5, <1>6 DEF IdInv, AboutSession
<1>11. SureOfNone' /\ OneIdentityLoc'
  BY <1>1 DEF IdInv, SureOfNone, OneIdentityLoc, getNonVoidIdentityLocs, NonVoid, Exists,
              isVoid
<1>12. PendingIsAwaited'
  BY <1>1, <1>5, <1>7 DEF IdInv, PendingIsAwaited
<1>13. VerdictIsGenuine'
  <2>1. \A m \in Locs : loc[m].idenfy \in Verdict => loc[m].idenfy # None
    BY DEF Verdict
  <2> QED
    BY <1>1, <1>5, <1>6, <2>1 DEF IdInv, VerdictIsGenuine
<1> QED
  BY <1>8, <1>9, <1>10, <1>11, <1>12, <1>13 DEF IdInv

\* A callback that is recorded ends the verification it is about.
LEMMA CallbackKeepsIdInv ==
    ASSUME IdInv, NEW c \in Clients, updateIdenfyVerification(c)
    PROVE  IdInv'
<1> DEFINE l == client[c].of
           s == client[c].value
           v == session[s].verdict
           files == IF v \in WithFiles THEN loc[l].files \union { s } ELSE loc[l].files
           row == [loc[l] EXCEPT !.idenfy = v, !.files = files]
           sessionNow == [session[s] EXCEPT !.told = TRUE]
<1>1. /\ client[c].at = "verdict" /\ canUpdate(l, s)
      /\ update(l, [loc[l] EXCEPT !.idenfy = v,
                                  !.files = IF v \in WithFiles THEN @ \union { s } ELSE @])
      /\ session' = [session EXCEPT ![s] = sessionNow] /\ ends(c)
      /\ UNCHANGED << late, raced >>
  BY DEF updateIdenfyVerification, recorded
<1>2. /\ l \in Locs /\ s \in Sessions /\ session[s].loc = l /\ v # None
      /\ loc[l] \in LocRow /\ session[s] \in Session
  BY <1>1 DEF IdInv, AboutSession, Typed
<1>3. v \in Verdict /\ v # "PENDING"
  BY <1>2 DEF Session, Verdict
<1>4. update(l, row) /\ loc[l].idenfy = "PENDING"
  BY <1>1 DEF canUpdate
<1> HIDE DEF l, s, v
<1>5. /\ row \in LocRow /\ row.idenfy = v /\ row.scan = loc[l].scan
      /\ row.status = loc[l].status /\ row.reason = loc[l].reason
      /\ v \in WithFiles => s \in row.files
  BY <1>2, <1>3 DEF LocRow
<1>6. /\ sessionNow \in Session /\ sessionNow.loc = session[s].loc
      /\ sessionNow.verdict = session[s].verdict /\ sessionNow.removed = session[s].removed
  BY <1>2 DEF Session
<1> HIDE DEF row, sessionNow
<1>7. /\ loc' \in [Locs -> LocRow] /\ loc'[l] = row
      /\ \A m \in Locs : m # l => loc'[m] = loc[m]
  BY <1>2, <1>4, <1>5, RowChanges DEF IdInv
<1>8. /\ session' \in [Sessions -> Session] /\ session'[s] = sessionNow
      /\ \A t \in Sessions : t # s => session'[t] = session[t]
  BY <1>1, <1>2, <1>6, SessionChanges DEF IdInv
<1>9. /\ client' \in [Clients -> Client] /\ client'[c].at = "idle"
      /\ \A d \in Clients : d # c => client'[d] = client[d]
  BY <1>1, Ends DEF IdInv
<1>10. \A t \in Sessions :
          /\ session'[t].loc = session[t].loc /\ session'[t].verdict = session[t].verdict
          /\ session'[t].removed = session[t].removed
  BY <1>6, <1>8
<1>11. \A m \in Locs : NonVoid(m)' <=> NonVoid(m)
  BY <1>5, <1>7 DEF NonVoid, Exists, isVoid
<1>12. \A m \in Locs : loc[m].idenfy = "PENDING" =>
          loc[m].scan \in Sessions /\ session[loc[m].scan].loc = m
  BY DEF IdInv, Recorded, Typed, LocRow
<1>13. loc[l].scan # None
  BY <1>2, <1>4, <1>12
<1>14. Typed'
  BY <1>7, <1>8, <1>9 DEF Typed
<1>15. Recorded'
  <2> SUFFICES ASSUME NEW m \in Locs
               PROVE  /\ loc'[m].idenfy = None <=> loc'[m].scan = None
                      /\ loc'[m].idenfy = "PENDING" => session'[loc'[m].scan].loc = m
    BY DEF Recorded
  <2>1. CASE m = l
    BY <1>2, <1>3, <1>5, <1>7, <1>13, <2>1
  <2>2. CASE m # l
    BY <1>7, <1>10, <1>12, <2>2 DEF IdInv, Recorded
  <2> QED
    BY <2>1, <2>2
<1>16. ToldHasVerdict'
  <2> SUFFICES ASSUME NEW t \in Sessions
               PROVE  /\ session'[t].told => session'[t].verdict # None
                      /\ session'[t].verdict # None => session'[t].loc \in Locs
    BY DEF ToldHasVerdict
  <2>1. session[t].verdict # None => session[t].loc \in Locs
    BY DEF IdInv, ToldHasVerdict
  <2>2. CASE t = s
    BY <1>2, <1>10, <2>2 DEF v
  <2>3. CASE t # s
    BY <1>8, <2>3 DEF IdInv, ToldHasVerdict
  <2> QED
    BY <1>10, <2>1, <2>2, <2>3
<1>17. AboutSession'
  BY <1>9, <1>10 DEF IdInv, AboutSession
<1>18. SureOfNone'
  BY <1>1, <1>9, <1>11 DEF IdInv, SureOfNone
<1>19. OneIdentityLoc'
  BY <1>1, <1>11 DEF IdInv, OneIdentityLoc, getNonVoidIdentityLocs, NonVoid
<1>20. PendingIsAwaited'
  <2> SUFFICES ASSUME NEW m \in Locs, loc'[m].idenfy = "PENDING"
               PROVE  /\ loc'[m].status \in Status \ { "DRAFT" } => m \in raced'
                      /\ ~session'[loc'[m].scan].told
    BY DEF PendingIsAwaited
  <2>1. m # l /\ loc'[m] = loc[m]
    BY <1>3, <1>5, <1>7
  <2>2. loc[m].scan # s /\ loc[m].scan \in Sessions
    BY <1>2, <1>12, <2>1
  <2> QED
    BY <1>1, <1>8, <2>1, <2>2 DEF IdInv, PendingIsAwaited
<1>21. VerdictIsGenuine'
  <2> SUFFICES ASSUME NEW m \in Locs, loc'[m].idenfy \in Verdict
               PROVE  \E t \in Sessions :
                         /\ session'[t].loc = m /\ session'[t].verdict = loc'[m].idenfy
                         /\ loc'[m].idenfy \in WithFiles =>
                               t \in loc'[m].files \/ session'[t].removed
    BY DEF VerdictIsGenuine
  <2>1. CASE m = l
    BY <1>2, <1>5, <1>7, <1>10, <2>1 DEF v
  <2>2. CASE m # l
    BY <1>7, <1>10, <2>2 DEF IdInv, VerdictIsGenuine
  <2> QED
    BY <2>1, <2>2
<1> QED
  BY <1>14, <1>15, <1>16, <1>17, <1>18, <1>19, <1>20, <1>21 DEF IdInv

LEMMA RemovalKeepsIdInv ==
    ASSUME IdInv, NEW l \in Locs, NEW s \in Sessions, removeFiles(l, s)
    PROVE  IdInv'
<1> DEFINE row == [loc[l] EXCEPT !.files = @ \ { s }]
           sessionNow == [session[s] EXCEPT !.removed = TRUE]
<1>1. /\ update(l, row) /\ session' = [session EXCEPT ![s] = sessionNow]
      /\ UNCHANGED << client, late, raced >>
      /\ loc[l] \in LocRow /\ session[s] \in Session
  BY DEF removeFiles, IdInv, Typed
<1>2. /\ row \in LocRow /\ row.idenfy = loc[l].idenfy /\ row.scan = loc[l].scan
      /\ row.status = loc[l].status /\ row.reason = loc[l].reason
      /\ row.files = loc[l].files \ { s }
  BY <1>1 DEF LocRow
<1>3. /\ sessionNow \in Session /\ sessionNow.loc = session[s].loc
      /\ sessionNow.verdict = session[s].verdict /\ sessionNow.told = session[s].told
      /\ sessionNow.removed
  BY <1>1 DEF Session
<1> HIDE DEF row, sessionNow
<1>4. /\ loc' \in [Locs -> LocRow] /\ loc'[l] = row
      /\ \A m \in Locs : m # l => loc'[m] = loc[m]
  BY <1>1, <1>2, RowChanges DEF IdInv
<1>5. /\ session' \in [Sessions -> Session] /\ session'[s] = sessionNow
      /\ \A t \in Sessions : t # s => session'[t] = session[t]
  BY <1>1, <1>3, SessionChanges DEF IdInv
<1>6. \A t \in Sessions :
         /\ session'[t].loc = session[t].loc /\ session'[t].verdict = session[t].verdict
         /\ session'[t].told = session[t].told
         /\ session[t].removed => session'[t].removed
  BY <1>3, <1>5
<1>7. \A m \in Locs :
         /\ loc'[m].idenfy = loc[m].idenfy /\ loc'[m].scan = loc[m].scan
         /\ loc'[m].status = loc[m].status /\ loc'[m].reason = loc[m].reason
         /\ \A t \in loc[m].files : t \in loc'[m].files \/ t = s
  BY <1>2, <1>4
<1>8. \A m \in Locs : loc[m].idenfy = "PENDING" => loc[m].scan \in Sessions
  BY DEF IdInv, Recorded, Typed, LocRow
<1>9. Typed'
  BY <1>1, <1>4, <1>5 DEF IdInv, Typed
<1>10. Recorded' /\ ToldHasVerdict' /\ AboutSession'
  BY <1>1, <1>6, <1>7, <1>8 DEF IdInv, Recorded, ToldHasVerdict, AboutSession
<1>11. SureOfNone' /\ OneIdentityLoc'
  BY <1>1, <1>7 DEF IdInv, SureOfNone, OneIdentityLoc, getNonVoidIdentityLocs, NonVoid,
                    Exists, isVoid
<1>12. PendingIsAwaited'
  BY <1>1, <1>6, <1>7, <1>8 DEF IdInv, PendingIsAwaited
<1>13. VerdictIsGenuine'
  <2> SUFFICES ASSUME NEW m \in Locs, loc[m].idenfy \in Verdict
               PROVE  \E t \in Sessions :
                         /\ session'[t].loc = m /\ session'[t].verdict = loc[m].idenfy
                         /\ loc[m].idenfy \in WithFiles =>
                               t \in loc'[m].files \/ session'[t].removed
    BY <1>7 DEF VerdictIsGenuine
  <2>1. PICK t \in Sessions :
           /\ session[t].loc = m /\ session[t].verdict = loc[m].idenfy
           /\ loc[m].idenfy \in WithFiles => t \in loc[m].files \/ session[t].removed
    BY DEF IdInv, VerdictIsGenuine
  <2>2. t = s => session'[t].removed
    BY <1>3, <1>5
  <2> QED
    BY <1>6, <1>7, <2>1, <2>2
<1> QED
  BY <1>9, <1>10, <1>11, <1>12, <1>13 DEF IdInv

LEMMA IdentityStepKeepsIdInv ==
    ASSUME IdInv, IdentityStep
    PROVE  IdInv'
<1>1. CASE \E c \in Clients :
              \/ createOpenLoc(c) \/ initIdenfyVerification(c) \/ updateIdenfyVerification(c)
              \/ identityFails(c)
              \/ \E status \in Status : createLocRequest(c, status)
              \/ \E l \in Locs : addNewRequest(c, l) \/ createVerificationSession(c, l)
              \/ \E s \in Sessions : token(c, s) \/ callback(c, s)
  BY <1>1, CreationKeepsIdInv, VerificationStartsKeepIdInv, InsertKeepsIdInv,
  TokenKeepsIdInv,
     InitVerificationKeepsIdInv, CallbackKeepsIdInv
<1>2. CASE \E l \in Locs :
              \/ submit(l) \/ moves(l) \/ preVoid(l) \/ cancelPreVoid(l) \/ voidLoc(l)
              \/ \E s \in Sessions : removeFiles(l, s)
  BY <1>2, StatusKeepsIdInv, VoidKeepsIdInv, RemovalKeepsIdInv
<1>3. CASE \E s \in Sessions, result \in Verdict : verdict(s, result)
  BY <1>3, VerdictKeepsIdInv
<1> QED
  BY <1>1, <1>2, <1>3 DEF IdentityStep

\* What the secrets rely on: no LOC disappears, and the requests about secrets
\* are left alone.
LEMMA IdentityStepLeavesSecrets ==
    ASSUME IdInv, IdentityStep
    PROVE  /\ \A l \in Locs : Exists(l) => Exists(l)'
           /\ \A d \in Clients :
                 client[d].at \in SecretAt \/ client'[d].at \in SecretAt => client'[d] = client[d]
<1> DEFINE Kept ==
      /\ \A l \in Locs : Exists(l) => Exists(l)'
      /\ \A d \in Clients :
            client[d].at \in SecretAt \/ client'[d].at \in SecretAt => client'[d] = client[d]
<1>1. Typed
  BY DEF IdInv
<1>2. ASSUME NEW c \in Clients, client' \in [Clients -> Client],
             client[c].at \notin SecretAt, client'[c].at \notin SecretAt,
             \A d \in Clients : d # c => client'[d] = client[d]
      PROVE  \A d \in Clients :
                client[d].at \in SecretAt \/ client'[d].at \in SecretAt => client'[d] = client[d]
  BY <1>2
<1>3. ASSUME NEW c \in Clients, NEW at \in IdentityAt, NEW of \in About,
NEW value \in Carried,
             starts(c, at, of, value), UNCHANGED loc
      PROVE  Kept
  <2>1. at \in IdentityAt \union SecretAt /\ at \notin SecretAt
    BY DEF IdentityAt, SecretAt
  <2>2. /\ client[c].at = "idle" /\ client' \in [Clients -> Client] /\ client'[c].at = at
        /\ \A d \in Clients : d # c => client'[d] = client[d]
    BY <1>1, <1>3, <2>1, Starts
  <2> QED
    BY <1>2, <1>3, <2>1, <2>2 DEF SecretAt, Exists
<1>4. ASSUME NEW c \in Clients, ends(c), client[c].at \notin SecretAt
      PROVE  \A d \in Clients :
                client[d].at \in SecretAt \/ client'[d].at \in SecretAt => client'[d] = client[d]
  BY <1>1, <1>2, <1>4, Ends DEF SecretAt
<1>5. ASSUME NEW l \in Locs, NEW row \in LocRow, update(l, row),
Exists(l) => row.status \in Status
      PROVE  \A m \in Locs : Exists(m) => Exists(m)'
  BY <1>1, <1>5, RowChanges DEF Exists
<1>6. ASSUME NEW c \in Clients,
             \/ createOpenLoc(c)
             \/ \E status \in Status : createLocRequest(c, status)
             \/ \E l \in Locs : createVerificationSession(c, l)
             \/ \E s \in Sessions : callback(c, s)
             \/ identityFails(c)
      PROVE  Kept
  <2> USE DEF IdentityAt, About, Carried
  <2>1. CASE createOpenLoc(c)
    <3>1. client[c].at = "idle" /\ UNCHANGED loc
          /\ client' = [client EXCEPT ![c] =
                          [Idle EXCEPT !.at = "insert", !.value = "OPEN",
                                       !.sure = \A l \in Locs : ~Exists(l) \/ isVoid(l)]]
      BY <2>1 DEF createOpenLoc, onlyClient
    <3>2. client'[c].at = "insert" /\ \A d \in Clients : d # c => client'[d] = client[d]
      BY <1>1, <3>1 DEF Typed, Idle
    <3> QED
      BY <3>1, <3>2 DEF SecretAt, Exists
  <2>2. ASSUME NEW status \in Status, createLocRequest(c, status)
        PROVE  Kept
    BY <1>3, <2>2 DEF createLocRequest, onlyClient
  <2>3. ASSUME NEW l \in Locs, createVerificationSession(c, l)
        PROVE  Kept
    BY <1>3, <2>3 DEF createVerificationSession, onlyClient
  <2>4. ASSUME NEW s \in Sessions, callback(c, s)
        PROVE  Kept
    <3>1. session[s].loc \in About
      BY <1>1 DEF Typed, Session
    <3> QED
      BY <1>3, <2>4, <3>1 DEF callback, onlyClient
  <2>5. CASE identityFails(c)
    BY <1>4, <2>5 DEF identityFails, onlyClient, SecretAt, Exists
  <2> QED
    BY <1>6, <2>1, <2>2, <2>3, <2>4, <2>5
<1>7. ASSUME NEW c \in Clients, NEW l \in Locs, addNewRequest(c, l)
      PROVE  Kept
  <2>1. client[c].value \in Status /\ client[c].at = "insert" /\ loc[l].status = "NONE"
    BY <1>7 DEF addNewRequest, IdInv, SureOfNone
  <2>2. Row(client[c].value) \in LocRow /\ update(l, Row(client[c].value))
    BY <1>7, <2>1, RowsTyped DEF addNewRequest
  <2>3. \A m \in Locs : Exists(m) => Exists(m)'
    BY <1>5, <2>1, <2>2, RowsTyped
  <2>4. client' = [d \in Clients |->
                     IF d = c THEN Idle
                     ELSE IF client[d].at = "insert" THEN [client[d] EXCEPT !.sure = FALSE]
                     ELSE client[d]]
    BY <1>7 DEF addNewRequest
  <2>5. ASSUME NEW d \in Clients
        PROVE  client[d].at \in SecretAt \/ client'[d].at \in SecretAt => client'[d] = client[d]
    <3>1. [client[d] EXCEPT !.sure = FALSE].at = client[d].at
      BY <1>1 DEF Typed, Client
    <3>2. CASE client[d].at = "insert"
      BY <2>1, <2>4, <3>1, <3>2, IdleTyped DEF SecretAt
    <3>3. CASE client[d].at # "insert"
      BY <2>1, <2>4, <3>3
    <3> QED
      BY <3>2, <3>3
  <2> QED
    BY <2>3, <2>5
<1>8. ASSUME NEW c \in Clients, NEW s \in Sessions, token(c, s)
      PROVE  Kept
  <2>1. /\ client[c].at = "token" /\ UNCHANGED loc
        /\ client' = [client EXCEPT ![c] = [client[c] EXCEPT !.at = "init", !.value = s]]
    BY <1>8 DEF token
  <2>2. [client[c] EXCEPT !.at = "init", !.value = s].at = "init"
    BY <1>1 DEF Typed, Client
  <2>3. client'[c].at = "init" /\ \A d \in Clients : d # c => client'[d] = client[d]
    BY <1>1, <2>1, <2>2 DEF Typed
  <2> QED
    BY <2>1, <2>3 DEF SecretAt, Exists
<1>9. ASSUME NEW c \in Clients, initIdenfyVerification(c) \/ updateIdenfyVerification(c)
      PROVE  Kept
  <2>1. ends(c) /\ client[c].at \in { "init", "verdict" }
    BY <1>9 DEF initIdenfyVerification, updateIdenfyVerification, recorded
  <2>2. client[c].of \in Locs
    BY <2>1 DEF IdInv, AboutSession
  <2>3. \A m \in Locs : loc'[m].status = loc[m].status
    <3>1. CASE initIdenfyVerification(c)
      BY <1>1, <2>2, <3>1 DEF initIdenfyVerification, update, Typed, LocRow
    <3>2. CASE updateIdenfyVerification(c)
      BY <1>1, <2>2, <3>2 DEF updateIdenfyVerification, update, Typed, LocRow
    <3> QED
      BY <1>9, <3>1, <3>2
  <2> QED
    BY <1>4, <2>1, <2>3 DEF SecretAt, Exists
<1>10. ASSUME NEW l \in Locs,
              \/ submit(l) \/ moves(l) \/ preVoid(l) \/ cancelPreVoid(l) \/ voidLoc(l)
              \/ \E s \in Sessions : removeFiles(l, s)
       PROVE  Kept
  <2>1. UNCHANGED client
    BY <1>10 DEF submit, moves, preVoid, cancelPreVoid, voidLoc, removeFiles, onlyLoc
  <2>2. CASE submit(l) \/ moves(l)
    <3>1. PICK status \in Status : update(l, [loc[l] EXCEPT !.status = status])
      BY <2>2 DEF submit, moves, Moves, Status
    <3> QED
      BY <1>1, <2>1, <3>1 DEF Typed, LocRow, update, Exists
  <2>3. CASE preVoid(l) \/ cancelPreVoid(l) \/ voidLoc(l)
    BY <1>1, <2>1, <2>3 DEF preVoid, cancelPreVoid, voidLoc, Typed, LocRow, update, Exists
  <2>4. CASE \E s \in Sessions : removeFiles(l, s)
    BY <1>1, <2>1, <2>4 DEF removeFiles, Typed, LocRow, update, Exists
  <2> QED
    BY <1>10, <2>2, <2>3, <2>4
<1>11. ASSUME NEW s \in Sessions, NEW result \in Verdict, verdict(s, result)
       PROVE  Kept
  BY <1>11 DEF verdict, Exists
<1> QED
  BY <1>6, <1>7, <1>8, <1>9, <1>10, <1>11 DEF IdentityStep

-----------------------------------------------------------------------------
(***************************************************************************)
(* The invariant of secrets.                                               *)
(***************************************************************************)

SecretsTyped ==
    /\ secrets \in [Locs -> RecoverableSecrets]
    /\ values \in 0 .. MaxValues
    /\ request \in [Requests -> SecretRecoveryRequest \union { NoRequest }]

SecretsOfLocs ==
    \A l \in Locs :
        /\ Cardinality(Has(l)) <= MAX_SECRETS + 1
        /\ ~Exists(l) => Has(l) = {}
        /\ \A n \in Has(l) : secrets[l][n] <= values

\* The value is not older than v, unless the secret was removed.
Since(l, n, v) ==
    /\ v <= values
    /\ secrets[l][n] # None => secrets[l][n] >= v
    /\ secrets[l][n] = None => << l, n >> \in removed

Made(r) == request[r].status # "NONE"

RequestsOfSecrets ==
    \A r \in Requests :
        /\ Made(r) => Since(request[r].loc, request[r].name, request[r].asked)
        /\ request[r].downloaded => request[r].status = "ACCEPTED"

\* what was read of the secret of a request
Read(r, value) ==
    /\ value # None => value >= request[r].asked
    /\ value = None => << request[r].loc, request[r].name >> \in removed

AboutSecret(c) ==
    /\ client[c].at = "ask" =>
          /\ client[c].of \in Locs \X Names /\ client[c].value \in 1 .. MaxValues
          /\ Since(client[c].of[1], client[c].of[2], client[c].value)
    /\ client[c].at \in { "mark", "answer" } =>
          /\ client[c].of \in Requests /\ client[c].value \in Reading
          /\ Made(client[c].of) /\ Read(client[c].of, client[c].value.value)
    /\ client[c].at = "answer" =>
          /\ request[client[c].of].challenge = c /\ request[client[c].of].downloaded
          /\ client[c].value.age < (SECRET_EXPIRATION_DAYS + 1) * DAY
          /\ \A a \in answers : a.of # client[c].of

\* A request is answered by one client only: it is used up by then.
AnsweredIsUsedUp ==
    \A a \in answers : a.of \in Requests /\ request[a.of].downloaded

AnsweringAlone ==
    \A c, d \in Clients :
        client[c].at = "answer" /\ client[d].at = "answer" /\ client[c].of = client[d].of => c = d

SecInv ==
    /\ SecretsTyped /\ SecretsOfLocs /\ RequestsOfSecrets
    /\ \A c \in Clients : AboutSecret(c)
    /\ AnsweredIsUsedUp /\ AnsweringAlone
    /\ ReturnedAsAccepted /\ UsedUpForAReason

Inv == IdInv /\ SecInv

LEMMA RequestIsTyped ==
    ASSUME SecretsTyped, NEW r \in Requests
    PROVE  /\ request[r] \in SecretRecoveryRequest \/ request[r] = NoRequest
           /\ Made(r) <=> request[r] \in SecretRecoveryRequest
           /\ ~Made(r) => request[r] = NoRequest /\ ~request[r].downloaded
           /\ Made(r) => request[r].loc \in Locs /\ request[r].name \in Names
                         /\ request[r].asked \in 1 .. MaxValues
  BY DEF SecretsTyped, SecretRecoveryRequest, NoRequest, Made

\* The other steps leave the secrets and their requests alone.
LEMMA OthersKeepSecInv ==
    ASSUME SecInv, UNCHANGED secretVars,
           \A l \in Locs : Exists(l) => Exists(l)',
           \A d \in Clients :
              client[d].at \in SecretAt \/ client'[d].at \in SecretAt => client'[d] = client[d]
    PROVE  SecInv'
<1>1. UNCHANGED << secrets, values, removed, request, answers, crashed >>
  BY DEF secretVars
<1>2. SecretsTyped' /\ SecretsOfLocs' /\ RequestsOfSecrets'
  BY <1>1 DEF SecInv, SecretsTyped, SecretsOfLocs, Has, RequestsOfSecrets, Since, Made
<1>3. \A c \in Clients : AboutSecret(c)'
  BY <1>1 DEF SecInv, AboutSecret, SecretAt, Since, Made, Read
<1>4. AnsweredIsUsedUp' /\ AnsweringAlone' /\ ReturnedAsAccepted'
  BY <1>1 DEF SecInv, AnsweredIsUsedUp, AnsweringAlone, ReturnedAsAccepted, SecretAt
<1>5. UsedUpForAReason'
  BY <1>1 DEF SecInv, UsedUpForAReason, SecretAt
<1> QED
  BY <1>2, <1>3, <1>4, <1>5 DEF SecInv

-----------------------------------------------------------------------------
(***************************************************************************)
(* The secrets change.                                                     *)
(***************************************************************************)

\* A newer value, or none and a trace of it, changes nothing for who asked.
LEMMA SecretChangeKeepsSecInv ==
    ASSUME SecInv, SecretsTyped', SecretsOfLocs',
           UNCHANGED << client, request, answers, crashed >>,
           values <= values', removed \subseteq removed',
           \A l \in Locs, n \in Names :
              \/ secrets'[l][n] = secrets[l][n]
              \/ secrets'[l][n] # None /\ secrets'[l][n] > values
              \/ secrets'[l][n] = None /\ << l, n >> \in removed'
    PROVE  SecInv'
<1>1. values \in Nat /\ values' \in Nat
  BY DEF SecInv, SecretsTyped
<1>2. \A l \in Locs, n \in Names :
         (secrets[l][n] = None \/ secrets[l][n] \in Nat) /\ (secrets'[l][n] = None \/ secrets'[l][n] \in Nat)
  BY DEF SecInv, SecretsTyped, RecoverableSecrets
<1>3. ASSUME NEW l \in Locs, NEW n \in Names, NEW v \in 1 .. MaxValues, Since(l, n, v)
      PROVE  /\ v <= values'
             /\ secrets'[l][n] # None => secrets'[l][n] >= v
             /\ secrets'[l][n] = None => << l, n >> \in removed'
  BY <1>1, <1>2, <1>3 DEF Since
<1>4. RequestsOfSecrets'
  <2> SUFFICES ASSUME NEW r \in Requests, Made(r)
               PROVE  Since(request[r].loc, request[r].name, request[r].asked)'
    BY DEF SecInv, RequestsOfSecrets, Made
  <2>1. /\ request[r].loc \in Locs /\ request[r].name \in Names
        /\ request[r].asked \in 1 .. MaxValues
        /\ Since(request[r].loc, request[r].name, request[r].asked)
    BY RequestIsTyped DEF SecInv, RequestsOfSecrets
  <2> QED
    BY <1>3, <2>1 DEF Since
<1>5. ASSUME NEW c \in Clients
      PROVE  AboutSecret(c)'
  <2>1. AboutSecret(c)
    BY DEF SecInv
  <2>2. client[c].at = "ask" => Since(client[c].of[1], client[c].of[2], client[c].value)'
    <3> SUFFICES ASSUME client[c].at = "ask"
                 PROVE  Since(client[c].of[1], client[c].of[2], client[c].value)'
      OBVIOUS
    <3>1. /\ client[c].of[1] \in Locs /\ client[c].of[2] \in Names
          /\ client[c].value \in 1 .. MaxValues
          /\ Since(client[c].of[1], client[c].of[2], client[c].value)
      BY <2>1 DEF AboutSecret
    <3> QED
      BY <1>3, <3>1 DEF Since
  <2>3. client[c].at \in { "mark", "answer" } => Read(client[c].of, client[c].value.value)'
    BY <2>1 DEF AboutSecret, Read
  <2> QED
    BY <2>1, <2>2, <2>3 DEF AboutSecret, Made
<1>6. AnsweredIsUsedUp' /\ AnsweringAlone' /\ ReturnedAsAccepted'
  BY DEF SecInv, AnsweredIsUsedUp, AnsweringAlone, ReturnedAsAccepted
<1>7. UsedUpForAReason'
  BY DEF SecInv, UsedUpForAReason
<1> QED
  BY <1>4, <1>5, <1>6, <1>7 DEF SecInv

LEMMA HasIsFinite == \A l : IsFiniteSet(Has(l)) /\ Cardinality(Has(l)) \in Nat
<1> SUFFICES ASSUME NEW l
             PROVE  IsFiniteSet(Has(l)) /\ Cardinality(Has(l)) \in Nat
  OBVIOUS
<1>1. Has(l) \subseteq Names
  BY DEF Has
<1> QED
  BY <1>1, FS_Subset, FS_CardinalityType

LEMMA AddKeepsInv ==
    ASSUME Inv, NEW l \in Locs, NEW n \in Names, addSecret(l, n)
    PROVE  Inv'
<1>1. /\ values < MaxValues /\ values' = values + 1
      /\ isValidIdentityLoc(l) /\ n \notin Has(l)
      /\ Cardinality(Has(l)) <= MAX_SECRETS
      /\ secrets' = [secrets EXCEPT ![l][n] = values + 1]
      /\ UNCHANGED << loc, session, client, late, raced, removed, request, answers,
                      crashed >>
  BY DEF addSecret, addTo, setSecret, identityVars
<1>2. /\ secrets \in [Locs -> RecoverableSecrets] /\ values \in 0 .. MaxValues
      /\ SecretsTyped /\ SecretsOfLocs
  BY DEF Inv, SecInv, SecretsTyped
<1>3. values + 1 \in 1 .. MaxValues /\ values + 1 # None /\ values' \in 0 .. MaxValues
      /\ values <= values'
  BY <1>1, <1>2
<1>4. /\ secrets' \in [Locs -> RecoverableSecrets]
      /\ secrets'[l][n] = values + 1
      /\ \A m \in Locs, o \in Names : m # l \/ o # n => secrets'[m][o] = secrets[m][o]
  BY <1>1, <1>2, <1>3 DEF RecoverableSecrets
<1>5. SecretsTyped'
  BY <1>1, <1>2, <1>3, <1>4 DEF SecretsTyped
<1>6. Has(l)' = Has(l) \union { n } /\ \A m \in Locs : m # l => Has(m)' = Has(m)
  BY <1>3, <1>4 DEF Has
<1>7. Cardinality(Has(l)') <= MAX_SECRETS + 1
  <2>1. IsFiniteSet(Has(l)) /\ Cardinality(Has(l)) \in Nat
    BY HasIsFinite
  <2>2. Cardinality(Has(l) \union { n }) = Cardinality(Has(l)) + 1
    BY <1>1, <2>1, FS_AddElement
  <2>3. Cardinality(Has(l)') = Cardinality(Has(l)) + 1
    BY <1>6, <2>2
  <2> QED
    BY <1>1, <2>1, <2>3
<1>8. Exists(l)
  BY <1>1 DEF isValidIdentityLoc, Exists, Status
<1>9. \A m \in Locs : \A o \in Has(m)' : secrets'[m][o] <= values'
  <2> SUFFICES ASSUME NEW m \in Locs, NEW o \in Has(m)'
               PROVE  secrets'[m][o] <= values'
    OBVIOUS
  <2>1. o \in Names
    BY DEF Has
  <2>2. CASE m = l /\ o = n
    BY <1>1, <1>2, <1>4, <2>2
  <2>3. CASE m # l \/ o # n
    <3>1. o \in Has(m) /\ secrets'[m][o] = secrets[m][o]
      BY <1>4, <2>1, <2>3 DEF Has
    <3>2. secrets[m][o] <= values
      BY <1>2, <3>1 DEF SecretsOfLocs
    <3>3. secrets[m][o] # None
      BY <3>1 DEF Has
    <3>4. secrets[m][o] \in 1 .. MaxValues
      BY <1>2, <2>1, <3>3 DEF RecoverableSecrets
    <3> QED
      BY <1>1, <1>2, <3>1, <3>2, <3>4
  <2> QED
    BY <2>2, <2>3
<1>10. SecretsOfLocs'
  BY <1>1, <1>2, <1>6, <1>7, <1>8, <1>9 DEF SecretsOfLocs, Exists
<1>11. SecInv'
  <2>1. \A m \in Locs, o \in Names :
           secrets'[m][o] = secrets[m][o] \/ (secrets'[m][o] # None /\ secrets'[m][o] > values)
    BY <1>2, <1>3, <1>4
  <2> QED
    BY <1>1, <1>3, <1>5, <1>10, <2>1, SecretChangeKeepsSecInv DEF Inv
<1>12. IdInv'
  BY <1>1, OtherClients DEF Inv, IdInv, Typed
<1> QED
  BY <1>11, <1>12 DEF Inv

\* Some secrets of a LOC are removed.
LEMMA SecretsRemoved ==
    ASSUME Inv, NEW l \in Locs, NEW gone \in SUBSET Names,
           secrets' \in [Locs -> RecoverableSecrets],
           \A m \in Locs, n \in Names :
              secrets'[m][n] = IF m = l /\ n \in gone THEN None ELSE secrets[m][n],
           \A n \in gone \intersect Has(l) : << l, n >> \in removed',
           removed \subseteq removed',
           UNCHANGED << client, values, request, answers, crashed >>,
           \A m \in Locs : m # l => (Exists(m) => Exists(m)'),
           ~Exists(l)' => ~Exists(l) \/ gone = Names
    PROVE  SecInv'
<1>1. SecretsTyped' /\ SecretsOfLocs /\ values \in Nat
  BY DEF Inv, SecInv, SecretsTyped
<1>2. ASSUME NEW m \in Locs
      PROVE  /\ Has(m)' \subseteq Has(m)
             /\ Cardinality(Has(m)') <= MAX_SECRETS + 1
             /\ ~Exists(m)' => Has(m)' = {}
             /\ \A n \in Has(m)' : secrets'[m][n] <= values
  <2>1. Has(m)' \subseteq Has(m)
    BY DEF Has
  <2>2. Cardinality(Has(m)') <= Cardinality(Has(m)) /\ Cardinality(Has(m)') \in Nat
    BY <2>1, HasIsFinite, FS_Subset, FS_CardinalityType
  <2>3. Cardinality(Has(m)) <= MAX_SECRETS + 1 /\ Cardinality(Has(m)) \in Nat
    BY <1>1, HasIsFinite DEF SecretsOfLocs
  <2>4. ~Exists(m)' => Has(m)' = {}
    <3>1. CASE m = l /\ gone = Names
      BY <3>1 DEF Has
    <3>2. CASE m # l \/ gone # Names
      BY <1>1, <2>1, <3>2 DEF SecretsOfLocs
    <3> QED
      BY <3>1, <3>2
  <2>5. \A n \in Has(m)' : secrets'[m][n] <= values
    BY <1>1, <2>1 DEF SecretsOfLocs, Has
  <2> QED
    BY <2>1, <2>2, <2>3, <2>4, <2>5
<1>3. SecretsOfLocs'
  BY <1>2 DEF SecretsOfLocs
<1>4. \A m \in Locs, n \in Names :
         \/ secrets'[m][n] = secrets[m][n]
         \/ secrets'[m][n] = None /\ << m, n >> \in removed'
  BY DEF Has
<1> QED
  BY <1>1, <1>3, <1>4, SecretChangeKeepsSecInv DEF Inv

LEMMA RemoveKeepsInv ==
    ASSUME Inv, NEW l \in Locs, NEW n \in Names, removeSecret(l, n)
    PROVE  Inv'
<1>1. /\ secrets' = [secrets EXCEPT ![l][n] = None]
      /\ removed' = removed \union { << l, n >> }
      /\ UNCHANGED << loc, session, client, late, raced, values, request, answers,
                      crashed >>
      /\ secrets \in [Locs -> RecoverableSecrets]
  BY DEF removeSecret, removeFrom, setSecret, identityVars, Inv, SecInv, SecretsTyped
<1>2. secrets' \in [Locs -> RecoverableSecrets]
  BY <1>1 DEF RecoverableSecrets
<1>3. \A m \in Locs, o \in Names :
         secrets'[m][o] = IF m = l /\ o \in { n } THEN None ELSE secrets[m][o]
  BY <1>1 DEF RecoverableSecrets
<1>4. SecInv'
  <2> DEFINE gone == { n }
  <2>1. /\ gone \in SUBSET Names
        /\ \A m \in Locs, o \in Names :
              secrets'[m][o] = IF m = l /\ o \in gone THEN None ELSE secrets[m][o]
    BY <1>3
  <2>2. \A o \in gone \intersect Has(l) : << l, o >> \in removed'
    BY <1>1
  <2>3. removed \subseteq removed' /\ UNCHANGED << client, values, request, answers,
  crashed >>
    BY <1>1
  <2>4. /\ \A m \in Locs : m # l => (Exists(m) => Exists(m)')
        /\ ~Exists(l)' => ~Exists(l) \/ gone = Names
    BY <1>1 DEF Exists
  <2> HIDE DEF gone
  <2> QED
    BY <1>2, <2>1, <2>2, <2>3, <2>4, SecretsRemoved
<1>5. IdInv'
  BY <1>1, OtherClients DEF Inv, IdInv, Typed
<1> QED
  BY <1>4, <1>5 DEF Inv

LEMMA DeleteKeepsInv ==
    ASSUME Inv, NEW l \in Locs, deleteLoc(l)
    PROVE  Inv'
<1>1. /\ deleteRequest(l)
      /\ secrets' = [secrets EXCEPT ![l] = [n \in Names |-> None]]
      /\ removed' = removed \union { << l, n >> : n \in Has(l) }
      /\ UNCHANGED << client, values, request, answers, crashed >>
      /\ secrets \in [Locs -> RecoverableSecrets]
  BY DEF deleteLoc, deleteRequest, onlyLoc, Inv, SecInv, SecretsTyped
<1>2. secrets' \in [Locs -> RecoverableSecrets]
  BY <1>1 DEF RecoverableSecrets
<1>3. \A m \in Locs, o \in Names :
         secrets'[m][o] = IF m = l /\ o \in Names THEN None ELSE secrets[m][o]
  BY <1>1 DEF RecoverableSecrets
<1>4. \A m \in Locs : m # l => (Exists(m) => Exists(m)')
  BY <1>1 DEF deleteRequest, update, Exists, Inv, IdInv, Typed
<1>5. SecInv'
  BY <1>1, <1>2, <1>3, <1>4, SecretsRemoved
<1>6. IdInv'
  BY <1>1, DeletionKeepsIdInv DEF Inv
<1> QED
  BY <1>5, <1>6 DEF Inv

-----------------------------------------------------------------------------
(***************************************************************************)
(* The requests change.                                                    *)
(***************************************************************************)

\* what never changes of a request that was made
Kept(r) ==
    /\ Made(r) =>
          /\ Made(r)'
          /\ request'[r].loc = request[r].loc /\ request'[r].name = request[r].name
          /\ request'[r].asked = request[r].asked
          /\ request'[r].challenge = request[r].challenge
    /\ request[r].status = "ACCEPTED" => request'[r].status = "ACCEPTED"
    /\ request[r].downloaded => request'[r].downloaded

SameSecrets == UNCHANGED << loc, session, late, raced, secrets, values, removed >>

LEMMA AboutSecretKept ==
    ASSUME NEW d \in Clients, AboutSecret(d), client'[d] = client[d], SameSecrets,
           \A r \in Requests : Kept(r),
           \A a \in answers' : client[d].at = "answer" /\ a.of = client[d].of => a \in answers
    PROVE  AboutSecret(d)'
<1>1. UNCHANGED << secrets, values, removed >>
  BY DEF SameSecrets
<1>2. client[d].at = "ask" => Since(client[d].of[1], client[d].of[2], client[d].value)'
  BY <1>1 DEF AboutSecret, Since
<1>3. client[d].at \in { "mark", "answer" } =>
         Made(client[d].of)' /\ Read(client[d].of, client[d].value.value)'
  BY <1>1 DEF AboutSecret, Read, Kept
<1>4. client[d].at = "answer" =>
         request'[client[d].of].challenge = d /\ request'[client[d].of].downloaded
  BY DEF AboutSecret, Kept
<1> QED
  BY <1>2, <1>3, <1>4 DEF AboutSecret

LEMMA SecretsOfLocsKept ==
    ASSUME SecretsOfLocs, UNCHANGED << loc, secrets, values >>
    PROVE  SecretsOfLocs'
<1>1. \A l \in Locs : Has(l)' = Has(l) /\ (Exists(l)' <=> Exists(l))
  BY DEF Has, Exists
<1> QED
  BY <1>1 DEF SecretsOfLocs

\* A step of one client, or none, that is not about the answers.
LEMMA RequestStepKeepsInv ==
    ASSUME Inv, SecretsTyped', SameSecrets, client' \in [Clients -> Client],
           UNCHANGED << answers, crashed >>,
           \A r \in Requests : Kept(r),
           RequestsOfSecrets',
           \A d \in Clients :
              \/ client'[d] = client[d]
              \/ /\ client[d].at # "answer" /\ client'[d].at \notin IdentityAt
                 /\ AboutSecret(d)'
                 /\ client'[d].at = "answer" => ~request[client'[d].of].downloaded,
           \A c, d \in Clients :
              client'[c] # client[c] /\ client'[d] # client[d] => c = d,
           \A r \in Requests :
              request'[r].downloaded /\ ~request[r].downloaded =>
                 \E c \in Clients : client'[c].at = "answer" /\ client'[c].of = r
    PROVE  Inv'
<1>1. UNCHANGED << loc, session, late, raced >> /\ UNCHANGED << secrets, values, removed >>
  BY DEF SameSecrets
<1>2. IdInv'
  BY <1>1, OtherClients DEF Inv
<1>3. SecretsOfLocs'
  BY <1>1, SecretsOfLocsKept DEF Inv, SecInv
<1>4. \A d \in Clients : AboutSecret(d)'
  BY AboutSecretKept DEF Inv, SecInv
<1>5. AnsweredIsUsedUp'
  BY DEF Inv, SecInv, AnsweredIsUsedUp, Kept
<1>6. AnsweringAlone'
  <2> SUFFICES ASSUME NEW c \in Clients, NEW d \in Clients,
                      client'[c].at = "answer", client'[d].at = "answer",
                      client'[c].of = client'[d].of
               PROVE  c = d
    BY DEF AnsweringAlone
  <2>1. \A e \in Clients : client[e].at = "answer" => request[client[e].of].downloaded
    BY DEF Inv, SecInv, AboutSecret
  <2>2. CASE client'[c] = client[c] /\ client'[d] = client[d]
    BY <2>2 DEF Inv, SecInv, AnsweringAlone
  <2>3. CASE client'[c] # client[c] /\ client'[d] # client[d]
    BY <2>3
  <2>4. CASE client'[c] = client[c] <=> client'[d] # client[d]
    BY <2>1, <2>4
  <2> QED
    BY <2>2, <2>3, <2>4
<1>7. ReturnedAsAccepted'
  <2> SUFFICES ASSUME NEW a \in answers
               PROVE  /\ request'[a.of].status = "ACCEPTED" /\ request'[a.of].challenge = a.to
                      /\ a.first
                      /\ a.age < (SECRET_EXPIRATION_DAYS + 1) * DAY
                      /\ a.value >= request'[a.of].asked
    BY DEF ReturnedAsAccepted
  <2>1. /\ request[a.of].status = "ACCEPTED" /\ request[a.of].challenge = a.to
        /\ a.first
        /\ a.age < (SECRET_EXPIRATION_DAYS + 1) * DAY
        /\ a.value >= request[a.of].asked
        /\ a.of \in Requests /\ Made(a.of)
    BY DEF Inv, SecInv, ReturnedAsAccepted, AnsweredIsUsedUp, Made
  <2> QED
    BY <2>1 DEF Kept
<1>8. UsedUpForAReason'
  <2> SUFFICES ASSUME NEW r \in Requests, request'[r].downloaded,
                      ~\E c \in Clients : client'[c].at = "answer" /\ client'[c].of = r
               PROVE  \/ \E a \in answers : a.of = r
                      \/ << request'[r].loc, request'[r].name >> \in removed
                      \/ r \in crashed
    BY <1>1 DEF UsedUpForAReason
  <2>1. request[r].downloaded
    OBVIOUS
  <2>2. Made(r)
    BY <2>1 DEF Inv, SecInv, RequestsOfSecrets, Made
  <2>3. ~\E c \in Clients : client[c].at = "answer" /\ client[c].of = r
    OBVIOUS
  <2> QED
    BY <2>1, <2>2, <2>3 DEF Inv, SecInv, UsedUpForAReason, Kept
<1> QED
  BY <1>2, <1>3, <1>4, <1>5, <1>6, <1>7, <1>8 DEF Inv, SecInv

LEMMA AskKeepsInv ==
    ASSUME Inv, NEW c \in Clients, NEW l \in Locs, NEW n \in Names,
           createSecretRecoveryRequest(c, l, n)
    PROVE  Inv'
<1>1. /\ n \in Has(l) /\ starts(c, "ask", << l, n >>, secrets[l][n])
      /\ SameSecrets /\ UNCHANGED << answers, crashed, request >> /\ Typed
  BY DEF createSecretRecoveryRequest, onlyRequest, SameSecrets, Inv, IdInv
<1>2. secrets[l][n] \in 1 .. MaxValues /\ secrets[l][n] # None /\ secrets[l][n] <= values
  <2>1. secrets[l][n] # None /\ secrets[l][n] <= values
    BY <1>1 DEF Inv, SecInv, SecretsOfLocs, Has
  <2> QED
    BY <2>1 DEF Inv, SecInv, SecretsTyped, RecoverableSecrets
<1>3. /\ client[c].at = "idle" /\ client' \in [Clients -> Client]
      /\ client'[c].at = "ask" /\ client'[c].of = << l, n >>
      /\ client'[c].value = secrets[l][n]
      /\ \A d \in Clients : d # c => client'[d] = client[d]
  BY <1>1, <1>2, Starts DEF SecretAt, About, Carried
<1>4. Since(l, n, secrets[l][n])'
  BY <1>1, <1>2 DEF Since, SameSecrets, Inv, SecInv, SecretsTyped, RecoverableSecrets
<1>5. AboutSecret(c)'
  <2>1. UNCHANGED secrets
    BY <1>1 DEF SameSecrets
  <2> QED
    BY <1>2, <1>3, <1>4, <2>1 DEF AboutSecret, Since
<1>6. SecretsTyped' /\ RequestsOfSecrets' /\ \A r \in Requests : Kept(r)
  BY <1>1 DEF Inv, SecInv, SecretsTyped, RequestsOfSecrets, Kept, Made, SameSecrets, Since
<1> QED
  BY <1>1, <1>3, <1>5, <1>6, RequestStepKeepsInv DEF IdentityAt

LEMMA OneRequestChanges ==
    ASSUME SecInv, NEW r \in Requests, NEW row \in SecretRecoveryRequest,
           request' = [request EXCEPT ![r] = row], SameSecrets, UNCHANGED values,
           Since(row.loc, row.name, row.asked),
           row.downloaded => row.status = "ACCEPTED",
           Made(r) =>
              /\ row.loc = request[r].loc /\ row.name = request[r].name
              /\ row.asked = request[r].asked /\ row.challenge = request[r].challenge,
           request[r].status = "ACCEPTED" => row.status = "ACCEPTED",
           request[r].downloaded => row.downloaded
    PROVE  /\ SecretsTyped' /\ RequestsOfSecrets' /\ \A q \in Requests : Kept(q)
           /\ request'[r] = row /\ \A q \in Requests : q # r => request'[q] = request[q]
<1>1. /\ request' \in [Requests -> SecretRecoveryRequest \union { NoRequest }]
      /\ request'[r] = row /\ \A q \in Requests : q # r => request'[q] = request[q]
  BY DEF SecInv, SecretsTyped
<1>2. SecretsTyped'
  BY <1>1 DEF SecInv, SecretsTyped, SameSecrets
<1>3. row.status # "NONE"
  BY DEF SecretRecoveryRequest
<1>4. \A q \in Requests : Kept(q)
  BY <1>1, <1>3 DEF Kept, Made
<1>5. RequestsOfSecrets'
  <2> SUFFICES ASSUME NEW q \in Requests
               PROVE  /\ Made(q)' => Since(request'[q].loc, request'[q].name,
                                            request'[q].asked)
                      /\ request'[q].downloaded => request'[q].status = "ACCEPTED"
    BY DEF RequestsOfSecrets, Since, SameSecrets
  <2>1. CASE q = r
    BY <1>1, <2>1
  <2>2. CASE q # r
    BY <1>1, <2>2 DEF SecInv, RequestsOfSecrets, Made
  <2> QED
    BY <2>1, <2>2
<1> QED
  BY <1>1, <1>2, <1>4, <1>5

LEMMA NewRequestKeepsInv ==
    ASSUME Inv, NEW c \in Clients, NEW r \in Requests, addRecoveryRequest(c, r)
    PROVE  Inv'
<1> DEFINE row == [NoRequest EXCEPT !.status = "PENDING", !.challenge = c,
                                    !.loc = client[c].of[1], !.name = client[c].of[2],
                                    !.asked = client[c].value]
<1>1. /\ client[c].at = "ask" /\ ~Made(r) /\ request' = [request EXCEPT ![r] = row] /\ ends(c)
      /\ SameSecrets /\ UNCHANGED << values, answers, crashed >>
  BY DEF addRecoveryRequest, onlyRequest, SameSecrets, Made
<1>2. /\ client[c].of[1] \in Locs /\ client[c].of[2] \in Names
      /\ client[c].value \in 1 .. MaxValues
      /\ Since(client[c].of[1], client[c].of[2], client[c].value)
  BY <1>1 DEF Inv, SecInv, AboutSecret
<1>3. /\ row.status = "PENDING" /\ ~row.downloaded
      /\ row.loc = client[c].of[1] /\ row.name = client[c].of[2] /\ row.asked = client[c].value
  BY DEF NoRequest
<1>4. row \in SecretRecoveryRequest
  <2>1. 0 \in 0 .. (SECRET_EXPIRATION_DAYS + 1) * DAY
    OBVIOUS
  <2> QED
    BY <1>2, <2>1 DEF NoRequest, SecretRecoveryRequest
<1> HIDE DEF row
<1>5. request[r].status # "ACCEPTED" /\ ~request[r].downloaded
  BY <1>1, RequestIsTyped DEF Inv, SecInv, Made
<1>6. /\ SecretsTyped' /\ RequestsOfSecrets' /\ \A q \in Requests : Kept(q)
      /\ request'[r] = row /\ \A q \in Requests : q # r => request'[q] = request[q]
  BY <1>1, <1>2, <1>3, <1>4, <1>5, OneRequestChanges DEF Inv
<1>7. /\ client' \in [Clients -> Client] /\ client'[c].at = "idle"
      /\ \A d \in Clients : d # c => client'[d] = client[d]
  BY <1>1, Ends DEF Inv, IdInv
<1>8. AboutSecret(c)'
  BY <1>7 DEF AboutSecret
<1> QED
  BY <1>1, <1>3, <1>6, <1>7, <1>8, RequestStepKeepsInv DEF IdentityAt

LEMMA DecisionKeepsInv ==
    ASSUME Inv, NEW r \in Requests, acceptRequest(r) \/ rejectRequest(r) \/ tick(r)
    PROVE  Inv'
<1>1. /\ Made(r) /\ SameSecrets /\ UNCHANGED << client, values, answers, crashed >>
      /\ request[r].status \in { "PENDING", "ACCEPTED" }
  BY DEF acceptRequest, rejectRequest, acceptOrReject, decide, tick, onlyRequest,
         SameSecrets, Made
<1>2. /\ request[r] \in SecretRecoveryRequest
      /\ Since(request[r].loc, request[r].name, request[r].asked)
      /\ request[r].downloaded => request[r].status = "ACCEPTED"
  BY <1>1, RequestIsTyped DEF Inv, SecInv, RequestsOfSecrets
<1>3. PICK row \in SecretRecoveryRequest :
         /\ request' = [request EXCEPT ![r] = row]
         /\ row.loc = request[r].loc /\ row.name = request[r].name
         /\ row.asked = request[r].asked /\ row.challenge = request[r].challenge
         /\ request[r].status = "ACCEPTED" => row.status = "ACCEPTED"
         /\ row.downloaded = request[r].downloaded
  <2>1. CASE acceptRequest(r) \/ rejectRequest(r)
    <3>1. PICK decision \in { "ACCEPTED", "REJECTED" } :
             request' = [request EXCEPT ![r] = [request[r] EXCEPT !.status = decision]]
      BY <2>1 DEF acceptRequest, rejectRequest, acceptOrReject, decide, updateRequest
    <3>2. request[r].status = "PENDING"
      BY <2>1 DEF acceptRequest, rejectRequest, acceptOrReject, decide
    <3> DEFINE row == [request[r] EXCEPT !.status = decision]
    <3>3. /\ row \in SecretRecoveryRequest
          /\ row.loc = request[r].loc /\ row.name = request[r].name
          /\ row.asked = request[r].asked /\ row.challenge = request[r].challenge
          /\ row.downloaded = request[r].downloaded
      BY <1>2 DEF SecretRecoveryRequest
    <3> HIDE DEF row
    <3> QED
      BY <3>1, <3>2, <3>3 DEF row
  <2>2. CASE tick(r)
    <3> DEFINE row == [request[r] EXCEPT !.age = @ + 1]
    <3>1. request' = [request EXCEPT ![r] = row]
      BY <2>2 DEF tick
    <3>2. request[r].age + 1 \in 0 .. (SECRET_EXPIRATION_DAYS + 1) * DAY
      <4> DEFINE last == (SECRET_EXPIRATION_DAYS + 1) * DAY
      <4>1. request[r].age < last /\ request[r].age \in 0 .. last /\ last \in Nat
        BY <1>2, <2>2 DEF tick, SecretRecoveryRequest
      <4> HIDE DEF last
      <4>2. request[r].age + 1 \in 0 .. last
        BY <4>1
      <4> QED
        BY <4>2 DEF last
    <3>3. /\ row \in SecretRecoveryRequest
          /\ row.loc = request[r].loc /\ row.name = request[r].name
          /\ row.asked = request[r].asked /\ row.challenge = request[r].challenge
          /\ row.status = request[r].status /\ row.downloaded = request[r].downloaded
      BY <1>2, <3>2 DEF SecretRecoveryRequest
    <3> HIDE DEF row
    <3> QED
      BY <3>1, <3>3
  <2> QED
    BY <2>1, <2>2
<1>4. row.downloaded => row.status = "ACCEPTED"
  BY <1>2, <1>3
<1>5. /\ SecretsTyped' /\ RequestsOfSecrets' /\ \A q \in Requests : Kept(q)
      /\ request'[r] = row /\ \A q \in Requests : q # r => request'[q] = request[q]
  BY <1>1, <1>2, <1>3, <1>4, OneRequestChanges DEF Inv
<1>6. client' \in [Clients -> Client]
  BY <1>1 DEF Inv, IdInv, Typed
<1>7. \A q \in Requests : request'[q].downloaded = request[q].downloaded
  BY <1>3, <1>5
<1> QED
  BY <1>1, <1>5, <1>6, <1>7, RequestStepKeepsInv

LEMMA DownloadKeepsInv ==
    ASSUME Inv, NEW c \in Clients, NEW r \in Requests, downloadSecret(c, r)
    PROVE  Inv'
<1> DEFINE l == request[r].loc
           reading == [value |-> secrets[l][request[r].name], age |-> request[r].age]
<1>1. /\ Made(r) /\ starts(c, "mark", r, reading) /\ SameSecrets
      /\ UNCHANGED << values, request, answers, crashed >> /\ Typed
  BY DEF downloadSecret, onlyRequest, SameSecrets, Made, Inv, IdInv
<1>2. /\ request[r] \in SecretRecoveryRequest
      /\ Since(request[r].loc, request[r].name, request[r].asked)
  BY <1>1, RequestIsTyped DEF Inv, SecInv, RequestsOfSecrets
<1>3. reading \in Reading
  <2>1. l \in Locs /\ request[r].name \in Names
    BY <1>2 DEF SecretRecoveryRequest
  <2>2. secrets[l][request[r].name] \in (1 .. MaxValues) \union { None }
    BY <2>1 DEF Inv, SecInv, SecretsTyped, RecoverableSecrets
  <2>3. request[r].age \in Nat
    BY <1>2 DEF SecretRecoveryRequest
  <2> QED
    BY <2>2, <2>3 DEF Reading
<1>4. Read(r, reading.value)
  BY <1>2 DEF Read, Since
<1> HIDE DEF reading
<1>5. /\ client[c].at = "idle" /\ client' \in [Clients -> Client]
      /\ client'[c].at = "mark" /\ client'[c].of = r /\ client'[c].value = reading
      /\ \A d \in Clients : d # c => client'[d] = client[d]
  BY <1>1, <1>3, Starts DEF SecretAt, About, Carried
<1>6. AboutSecret(c)'
  <2>1. /\ request'[r].status # "NONE"
        /\ reading.value # None => reading.value >= request'[r].asked
        /\ reading.value = None => << request'[r].loc, request'[r].name >> \in removed'
    BY <1>1, <1>4 DEF Made, Read, SameSecrets
  <2> QED
    BY <1>3, <1>5, <2>1 DEF AboutSecret, Made, Read
<1>7. SecretsTyped' /\ RequestsOfSecrets' /\ \A q \in Requests : Kept(q)
  BY <1>1 DEF Inv, SecInv, SecretsTyped, RequestsOfSecrets, Kept, Made, SameSecrets, Since
<1> QED
  BY <1>1, <1>5, <1>6, <1>7, RequestStepKeepsInv DEF IdentityAt

\* counting whole days
LEMMA WholeDays ==
    ASSUME NEW age \in Nat, NEW days \in Nat, NEW d \in Nat \ { 0 }, age \div d <= days
    PROVE  age < (days + 1) * d
<1> DEFINE q == age \div d
           m == age % d
<1>1. age = d * q + m /\ m \in 0 .. d - 1 /\ q \in Int
  OBVIOUS
<1> HIDE DEF q, m
<1>2. q <= days
  BY DEF q
<1>3. d * q <= d * days
  BY <1>1, <1>2
<1>4. (days + 1) * d = d * days + d
  OBVIOUS
<1> QED
  BY <1>1, <1>3, <1>4

\* The request is used up by the only client that will answer it.
LEMMA MarkKeepsInv ==
    ASSUME Inv, NEW c \in Clients, markDownloaded(c)
    PROVE  Inv'
<1> DEFINE r == client[c].of
           row == [request[r] EXCEPT !.downloaded = TRUE]
           clientNow == [client[c] EXCEPT !.at = "answer"]
<1>1. /\ client[c].at = "mark" /\ request[r].challenge = c
      /\ canDownload(r, client[c].value)
      /\ request' = [request EXCEPT ![r] = row]
      /\ client' = [client EXCEPT ![c] = clientNow]
      /\ SameSecrets /\ UNCHANGED << values, answers, crashed >>
  BY DEF markDownloaded, updateRequest, onlyRequest, SameSecrets
<1>2. /\ r \in Requests /\ Made(r) /\ client[c].value \in Reading
      /\ Read(r, client[c].value.value)
  BY <1>1 DEF Inv, SecInv, AboutSecret
<1>3. /\ request[r] \in SecretRecoveryRequest
      /\ Since(request[r].loc, request[r].name, request[r].asked)
      /\ request[r].status = "ACCEPTED" /\ ~request[r].downloaded
  BY <1>1, <1>2, RequestIsTyped DEF canDownload, Inv, SecInv, RequestsOfSecrets
<1>4. client[c].value.age < (SECRET_EXPIRATION_DAYS + 1) * DAY
  BY <1>1, <1>2, WholeDays DEF canDownload, Reading
<1>5. client[c] \in Client
  BY DEF Inv, IdInv, Typed
<1> HIDE DEF r
<1>6. /\ row \in SecretRecoveryRequest
      /\ row.loc = request[r].loc /\ row.name = request[r].name
      /\ row.asked = request[r].asked /\ row.challenge = request[r].challenge
      /\ row.status = request[r].status /\ row.downloaded
  BY <1>3 DEF SecretRecoveryRequest
<1>7. /\ clientNow \in Client /\ clientNow.at = "answer" /\ clientNow.of = r
      /\ clientNow.value = client[c].value
  BY <1>5 DEF Client, SecretAt, r
<1> HIDE DEF row, clientNow
<1>8. /\ SecretsTyped' /\ RequestsOfSecrets' /\ \A q \in Requests : Kept(q)
      /\ request'[r] = row /\ \A q \in Requests : q # r => request'[q] = request[q]
  <2>1. /\ Since(row.loc, row.name, row.asked) /\ row.status = "ACCEPTED"
        /\ request' = [request EXCEPT ![r] = row]
        /\ SecInv /\ UNCHANGED values
    BY <1>1, <1>3, <1>6 DEF Inv
  <2> QED
    BY <1>1, <1>2, <1>3, <1>6, <2>1, OneRequestChanges
<1>9. /\ client' \in [Clients -> Client] /\ client'[c] = clientNow
      /\ \A d \in Clients : d # c => client'[d] = client[d]
  BY <1>1, <1>7, ClientChanges DEF Inv, IdInv
<1>10. \A a \in answers : a.of # r
  BY <1>3 DEF Inv, SecInv, AnsweredIsUsedUp
<1>11. AboutSecret(c)'
  <2>1. /\ request'[r].status # "NONE"
        /\ client[c].value.value # None => client[c].value.value >= request'[r].asked
        /\ client[c].value.value = None =>
              << request'[r].loc, request'[r].name >> \in removed'
        /\ request'[r].challenge = c /\ request'[r].downloaded
        /\ answers' = answers
    BY <1>1, <1>2, <1>3, <1>6, <1>8 DEF Read, SameSecrets
  <2> QED
    BY <1>2, <1>4, <1>7, <1>9, <1>10, <2>1 DEF AboutSecret, Made, Read
<1>12. \A q \in Requests : request'[q].downloaded /\ ~request[q].downloaded => q = r
  BY <1>8
<1> QED
  BY <1>1, <1>2, <1>3, <1>7, <1>8, <1>9, <1>11, <1>12, RequestStepKeepsInv DEF IdentityAt

LEMMA AnswerKeepsInv ==
    ASSUME Inv, NEW c \in Clients, getSecretOrThrow(c)
    PROVE  Inv'
<1> DEFINE r == client[c].of
           answer == [of |-> r, to |-> c, value |-> client[c].value.value,
                      age |-> client[c].value.age, first |-> ~\E a \in answers : a.of = r]
<1>1. /\ client[c].at = "answer" /\ client[c].value.value # None
      /\ answers' = answers \union { answer } /\ ends(c)
      /\ SameSecrets /\ UNCHANGED << values, request, crashed >>
  BY DEF getSecretOrThrow, SameSecrets
<1>2. /\ r \in Requests /\ Made(r) /\ Read(r, client[c].value.value)
      /\ request[r].challenge = c /\ request[r].downloaded
      /\ client[c].value.age < (SECRET_EXPIRATION_DAYS + 1) * DAY
      /\ \A a \in answers : a.of # r
  BY <1>1 DEF Inv, SecInv, AboutSecret
<1>3. request[r].status = "ACCEPTED"
  BY <1>2 DEF Inv, SecInv, RequestsOfSecrets
<1>4. /\ client' \in [Clients -> Client] /\ client'[c].at = "idle"
      /\ \A d \in Clients : d # c => client'[d] = client[d]
  BY <1>1, Ends DEF Inv, IdInv
<1>5. /\ answer.of = r /\ answer.to = c /\ answer.value = client[c].value.value
      /\ answer.age = client[c].value.age /\ answer.first
  BY <1>2
<1> HIDE DEF r, answer
<1>6. IdInv'
  BY <1>1, <1>4, OtherClients DEF Inv, SameSecrets, IdentityAt
<1>7. SecretsTyped' /\ SecretsOfLocs' /\ RequestsOfSecrets' /\ \A q \in Requests : Kept(q)
  BY <1>1 DEF Inv, SecInv, SecretsTyped, SecretsOfLocs, Has, Exists, RequestsOfSecrets,
              Kept,
              Made, SameSecrets, Since
<1>8. ASSUME NEW d \in Clients
      PROVE  AboutSecret(d)'
  <2>1. CASE d = c
    BY <1>4, <2>1 DEF AboutSecret
  <2>2. CASE d # c
    <3>1. client'[d] = client[d] /\ AboutSecret(d)
      BY <1>4, <2>2 DEF Inv, SecInv
    <3>2. client[d].at = "answer" => client[d].of # r
      BY <1>1, <2>2 DEF Inv, SecInv, AnsweringAlone, r
    <3>3. \A a \in answers' : client[d].at = "answer" /\ a.of = client[d].of => a \in answers
      BY <1>1, <1>5, <3>2
    <3> QED
      BY <1>1, <1>7, <3>1, <3>3, AboutSecretKept
  <2> QED
    BY <2>1, <2>2
<1>9. AnsweredIsUsedUp'
  BY <1>1, <1>2, <1>5 DEF Inv, SecInv, AnsweredIsUsedUp
<1>10. AnsweringAlone'
  BY <1>4 DEF Inv, SecInv, AnsweringAlone
<1>11. ReturnedAsAccepted'
  <2>1. /\ answer.age < (SECRET_EXPIRATION_DAYS + 1) * DAY
        /\ answer.value >= request[r].asked
    BY <1>1, <1>2, <1>5 DEF Read
  <2> QED
    BY <1>1, <1>2, <1>3, <1>5, <2>1 DEF Inv, SecInv, ReturnedAsAccepted
<1>12. UsedUpForAReason'
  <2> SUFFICES ASSUME NEW q \in Requests, request[q].downloaded,
                      ~\E d \in Clients : client'[d].at = "answer" /\ client'[d].of = q
               PROVE  \/ \E a \in answers' : a.of = q
                      \/ << request[q].loc, request[q].name >> \in removed
                      \/ q \in crashed
    BY <1>1 DEF UsedUpForAReason, SameSecrets
  <2>1. CASE q = r
    BY <1>1, <1>5, <2>1
  <2>2. CASE q # r
    <3>1. ~\E d \in Clients : client[d].at = "answer" /\ client[d].of = q
      BY <1>4, <2>2 DEF r
    <3> QED
      BY <1>1, <3>1 DEF Inv, SecInv, UsedUpForAReason
  <2> QED
    BY <2>1, <2>2
<1> QED
  BY <1>6, <1>7, <1>8, <1>9, <1>10, <1>11, <1>12 DEF Inv, SecInv

LEMMA FailureKeepsInv ==
    ASSUME Inv, NEW c \in Clients, secretFails(c)
    PROVE  Inv'
<1>1. /\ client[c].at \in SecretAt /\ ends(c)
      /\ crashed' = crashed \union { r \in Requests : client[c].at = "answer" /\ client[c].of = r
                                                        /\ client[c].value.value # None }
      /\ SameSecrets /\ UNCHANGED << values, request, answers >>
  BY DEF secretFails, SameSecrets, SecretAt
<1>2. /\ client' \in [Clients -> Client] /\ client'[c].at = "idle"
      /\ \A d \in Clients : d # c => client'[d] = client[d]
  BY <1>1, Ends DEF Inv, IdInv
<1>3. IdInv'
  BY <1>1, <1>2, OtherClients DEF Inv, SameSecrets, IdentityAt
<1>4. SecretsTyped' /\ SecretsOfLocs' /\ RequestsOfSecrets' /\ \A q \in Requests : Kept(q)
  BY <1>1 DEF Inv, SecInv, SecretsTyped, SecretsOfLocs, Has, Exists, RequestsOfSecrets,
              Kept,
              Made, SameSecrets, Since
<1>5. \A d \in Clients : AboutSecret(d)'
  <2>1. AboutSecret(c)'
    BY <1>2 DEF AboutSecret
  <2>2. \A d \in Clients : d # c => AboutSecret(d)'
    BY <1>1, <1>2, <1>4, AboutSecretKept DEF Inv, SecInv
  <2> QED
    BY <2>1, <2>2
<1>6. AnsweredIsUsedUp' /\ ReturnedAsAccepted'
  BY <1>1 DEF Inv, SecInv, AnsweredIsUsedUp, ReturnedAsAccepted
<1>7. AnsweringAlone'
  BY <1>2 DEF Inv, SecInv, AnsweringAlone
<1>8. UsedUpForAReason'
  <2> SUFFICES ASSUME NEW q \in Requests, request[q].downloaded,
                      ~\E d \in Clients : client'[d].at = "answer" /\ client'[d].of = q
               PROVE  \/ \E a \in answers : a.of = q
                      \/ << request[q].loc, request[q].name >> \in removed
                      \/ q \in crashed'
    BY <1>1 DEF UsedUpForAReason, SameSecrets
  <2>1. CASE client[c].at = "answer" /\ client[c].of = q
    BY <1>1, <2>1 DEF Inv, SecInv, AboutSecret, Read
  <2>2. CASE ~(client[c].at = "answer" /\ client[c].of = q)
    <3>1. ~\E d \in Clients : client[d].at = "answer" /\ client[d].of = q
      BY <1>2, <2>2
    <3> QED
      BY <1>1, <3>1 DEF Inv, SecInv, UsedUpForAReason
  <2> QED
    BY <2>1, <2>2
<1> QED
  BY <1>3, <1>4, <1>5, <1>6, <1>7, <1>8 DEF Inv, SecInv

-----------------------------------------------------------------------------
(***************************************************************************)
(* The theorems.                                                           *)
(***************************************************************************)

LEMMA InitInv == Init => Inv
<1> SUFFICES ASSUME Init PROVE Inv
  OBVIOUS
<1>1. /\ loc = [l \in Locs |-> Row("NONE")] /\ session = [s \in Sessions |-> NoSession]
      /\ client = [c \in Clients |-> Idle]
      /\ secrets = [l \in Locs |-> [n \in Names |-> None]] /\ values = 0
      /\ request = [r \in Requests |-> NoRequest] /\ answers = {}
  BY DEF Init, IdentityInit
<1>2. /\ Row("NONE") \in LocRow /\ Row("NONE").status = "NONE"
      /\ Row("NONE").idenfy = None /\ Row("NONE").scan = None
  BY RowsTyped
<1>3. /\ NoSession \in Session /\ NoSession.loc = None /\ NoSession.verdict = None
      /\ ~NoSession.told
  BY DEF NoSession, Session
<1>4. Typed
  BY <1>1, <1>2, <1>3, IdleTyped DEF Typed
<1>5. \A l \in Locs : ~Exists(l) /\ loc[l].idenfy = None /\ loc[l].scan = None
  BY <1>1, <1>2 DEF Exists, Status
<1>6. \A c \in Clients : client[c].at = "idle"
  BY <1>1, IdleTyped
<1>7. Recorded /\ ToldHasVerdict /\ SureOfNone /\ AboutSession
  BY <1>1, <1>3, <1>5, <1>6 DEF Recorded, ToldHasVerdict, SureOfNone, AboutSession
<1>8. OneIdentityLoc /\ PendingIsAwaited /\ VerdictIsGenuine
  BY <1>5 DEF OneIdentityLoc, getNonVoidIdentityLocs, PendingIsAwaited, VerdictIsGenuine,
              Verdict
<1>9. SecretsTyped
  BY <1>1 DEF SecretsTyped, RecoverableSecrets
<1>10. \A l \in Locs : Has(l) = {}
  BY <1>1 DEF Has
<1>11. SecretsOfLocs
  BY <1>10, FS_EmptySet DEF SecretsOfLocs
<1>12. \A r \in Requests : ~Made(r) /\ ~request[r].downloaded
  BY <1>1 DEF Made, NoRequest
<1>13. RequestsOfSecrets /\ AnsweredIsUsedUp /\ ReturnedAsAccepted /\ UsedUpForAReason
  BY <1>1, <1>12 DEF RequestsOfSecrets, AnsweredIsUsedUp, ReturnedAsAccepted,
                     UsedUpForAReason
<1>14. AnsweringAlone /\ \A c \in Clients : AboutSecret(c)
  BY <1>6 DEF AnsweringAlone, AboutSecret
<1> QED
  BY <1>4, <1>7, <1>8, <1>9, <1>11, <1>13, <1>14 DEF Inv, IdInv, SecInv

LEMMA InvStep ==
    ASSUME Inv, [Next]_vars
    PROVE  Inv'
<1>1. CASE IdentityStep /\ UNCHANGED secretVars
  BY <1>1, IdentityStepKeepsIdInv, IdentityStepLeavesSecrets, OthersKeepSecInv DEF Inv
<1>2. CASE \E l \in Locs : deleteLoc(l) \/ \E n \in Names : addSecret(l,
n) \/ removeSecret(l, n)
  BY <1>2, DeleteKeepsInv, AddKeepsInv, RemoveKeepsInv
<1>3. CASE \E c \in Clients :
              \/ \E l \in Locs, n \in Names : createSecretRecoveryRequest(c, l, n)
              \/ \E r \in Requests : addRecoveryRequest(c, r) \/ downloadSecret(c, r)
              \/ markDownloaded(c) \/ getSecretOrThrow(c) \/ secretFails(c)
  BY <1>3, AskKeepsInv, NewRequestKeepsInv, DownloadKeepsInv, MarkKeepsInv, AnswerKeepsInv,
     FailureKeepsInv
<1>4. CASE \E r \in Requests : acceptRequest(r) \/ rejectRequest(r) \/ tick(r)
  BY <1>4, DecisionKeepsInv
<1>5. CASE UNCHANGED vars
  <2>1. UNCHANGED << loc, session, client, late, raced >> /\ UNCHANGED secretVars
    BY <1>5 DEF vars, identityVars
  <2>2. IdInv'
    BY <2>1, OtherClients DEF Inv, IdInv, Typed
  <2>3. SecInv'
    BY <2>1, OthersKeepSecInv DEF Inv, Exists
  <2> QED
    BY <2>2, <2>3 DEF Inv
<1> QED
  BY <1>1, <1>2, <1>3, <1>4, <1>5 DEF Next

\* The invariant, whatever overlaps and fails.
THEOREM Invariance == Spec => []Inv
<1>1. Init => Inv
  BY InitInv
<1>2. Inv /\ [Next]_vars => Inv'
  BY InvStep
<1> QED BY <1>1, <1>2, PTL DEF Spec

\* Columns keep their values; a LOC holds at most one secret more than the
\* limit (addSecret compares the number before the addition).
THEOREM TypeCorrect == Spec => []TypeOK
<1>1. Inv => TypeOK
  <2> SUFFICES ASSUME Inv PROVE TypeOK
    OBVIOUS
  <2>1. ASSUME NEW l \in Locs
        PROVE  /\ loc[l].status \in Status \union { "NONE", "DELETED" }
               /\ loc[l].idenfy \in Verdict \union { "PENDING", None }
               /\ (loc[l].idenfy = None) = (loc[l].scan = None)
               /\ loc[l].files \subseteq Sessions
               /\ secrets[l] \in RecoverableSecrets
               /\ \A n \in Has(l) : secrets[l][n] <= values
               /\ Cardinality(Has(l)) <= MAX_SECRETS + 1
               /\ ~Exists(l) => Has(l) = {}
    <3>1. loc[l] \in LocRow
      BY DEF Inv, IdInv, Typed
    <3>2. loc[l].idenfy = None <=> loc[l].scan = None
      BY DEF Inv, IdInv, Recorded
    <3> QED
      BY <3>1, <3>2 DEF LocRow, Inv, SecInv, SecretsTyped, SecretsOfLocs
  <2>2. \A r \in Requests :
           /\ request[r] \in SecretRecoveryRequest \union { NoRequest }
           /\ request[r].downloaded => request[r].status = "ACCEPTED"
    BY DEF Inv, SecInv, SecretsTyped, RequestsOfSecrets
  <2> QED
    BY <2>1, <2>2 DEF TypeOK
<1> QED BY <1>1, Invariance, PTL

\* Two identity LOCs only meet through the gaps that are named (createOpenLoc,
\* the check before the insertion, cancelPreVoid).
THEOREM OneLoc == Spec => []OneIdentityLoc
<1>1. Inv => OneIdentityLoc
  BY DEF Inv, IdInv
<1> QED BY <1>1, Invariance, PTL

\* A verification in progress is never overtaken by its own callback.
THEOREM Awaited == Spec => []PendingIsAwaited
<1>1. Inv => PendingIsAwaited
  BY DEF Inv, IdInv
<1> QED BY <1>1, Invariance, PTL

\* A verdict is iDenfy's, about that LOC, with its files.
THEOREM Genuine == Spec => []VerdictIsGenuine
<1>1. Inv => VerdictIsGenuine
  BY DEF Inv, IdInv
<1> QED BY <1>1, Invariance, PTL

\* A secret is returned once, to who asked, after acceptance and in time.
THEOREM ReturnedOnce == Spec => []ReturnedAsAccepted
<1>1. Inv => ReturnedAsAccepted
  BY DEF Inv, SecInv
<1> QED BY <1>1, Invariance, PTL

\* A request is not used up for nothing.
THEOREM NotWasted == Spec => []UsedUpForAReason
<1>1. Inv => UsedUpForAReason
  BY DEF Inv, SecInv
<1> QED BY <1>1, Invariance, PTL
=============================================================================
