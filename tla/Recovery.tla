------------------------------ MODULE Recovery ------------------------------
(***************************************************************************)
(* Account recovery requests, the vault transfers they give access to, and *)
(* the synchronizer that activates them.                                   *)
(*                                                                         *)
(* One user, whose identity LOC one legal officer keeps, asks to recover   *)
(* accounts it lost.  The handlers of the REST API are transactions.  The  *)
(* synchronizer is not: it reads the accepted requests, then activates     *)
(* each of them in a transaction of its own, and starts over from the      *)
(* extrinsic if it is interrupted.                                         *)
(***************************************************************************)
EXTENDS Integers, FiniteSets

CONSTANTS
    Requests,       \* the recovery requests of the user with the legal officer
    Transfers,      \* its vault transfer requests with the same legal officer
    Accounts,       \* the accounts it may lose
    User,           \* its own account
    MaxExtrinsics,  \* bound on the createRecovery extrinsics
    MaxCrashes      \* bound on the interruptions of the synchronizer

ASSUME ConstantsAssumption ==
    /\ User \notin Accounts
    /\ MaxExtrinsics \in Nat
    /\ MaxCrashes \in Nat

VARIABLES
    recovery,   \* the account recovery requests
    transfer,   \* the vault transfer requests
    identity,   \* is the identity LOC of the user valid?
    feed,       \* the createRecovery extrinsics not yet applied
    sent,       \* how many were ever signed
    activating, \* what the synchronizer still has to activate, or Idle
    crashes,
    due         \* history: the requests that were accepted when such an extrinsic was signed

vars == << recovery, transfer, identity, feed, sent, activating, crashes, due >>
syncVars == << feed, sent, activating, crashes, due >>

AccountRecoveryRequestStatus ==
    { "PENDING", "REJECTED", "ACCEPTED", "ACTIVATED",
      "CANCELLED", "REJECTED_CANCELLED", "ACCEPTED_CANCELLED" }

VaultTransferRequestStatus ==
    { "PENDING", "REJECTED", "ACCEPTED", "CANCELLED", "REJECTED_CANCELLED" }

Absent == [status |-> "ABSENT"]
Idle   == [running |-> FALSE]

\* stands for decisionOn and rejectReason
LegalOfficerDecision == { "NONE", "REJECTED", "ACCEPTED" }

AccountRecoveryRequest ==
    [ status : AccountRecoveryRequestStatus,
      addressToRecover : Accounts,
      decision : LegalOfficerDecision ]

\* which of the columns are set
VaultTransferRequestDecision == [ decidedOn : BOOLEAN, rejectReason : BOOLEAN ]

VaultTransferRequest ==
    [ status : VaultTransferRequestStatus,
      origin : Accounts \union { User },
      decision : VaultTransferRequestDecision ]

Init ==
    /\ recovery = [r \in Requests |-> Absent]
    /\ transfer = [t \in Transfers |-> Absent]
    /\ identity \in BOOLEAN
    /\ feed = 0 /\ sent = 0
    /\ activating = Idle
    /\ crashes = 0
    /\ due = {}

-----------------------------------------------------------------------------
(***************************************************************************)
(* Account recovery requests.                                              *)
(***************************************************************************)

findBy(statuses) == { r \in Requests : recovery[r].status \in statuses }

\* The methods of the aggregate root: the request after the call.

newAccountRecoveryRequest(address) ==
    [ status |-> "PENDING", addressToRecover |-> address, decision |-> "NONE" ]

reject(request) == [request EXCEPT !.status = "REJECTED", !.decision = "REJECTED"]

accept(request) == [request EXCEPT !.status = "ACCEPTED", !.decision = "ACCEPTED"]

\* only warns when the request is not accepted
activate(request) == [request EXCEPT !.status = "ACTIVATED"]

cancelled(request) ==
    [request EXCEPT !.status = CASE @ = "PENDING"  -> "CANCELLED"
                                 [] @ = "REJECTED" -> "REJECTED_CANCELLED"
                                 [] OTHER          -> "ACCEPTED_CANCELLED"]

\* The handlers.

updateRecovery(r, request) ==
    /\ recovery' = [recovery EXCEPT ![r] = request]
    /\ UNCHANGED << transfer, identity, syncVars >>

createRequest(r, address) ==
    /\ recovery[r] = Absent
    /\ identity
    /\ updateRecovery(r, newAccountRecoveryRequest(address))

rejectRequest(r) ==
    /\ r \in findBy({ "PENDING" })
    /\ updateRecovery(r, reject(recovery[r]))

\* Seeded fault: a rejected request can be accepted after all.
acceptUndecidedOrRejected(r) ==
    /\ r \in findBy({ "PENDING", "REJECTED" })
    /\ updateRecovery(r, accept(recovery[r]))

acceptRequest(r) ==
    /\ r \in findBy({ "PENDING" })
    /\ updateRecovery(r, accept(recovery[r]))

\* Seeded fault: an activated recovery can be cancelled.
cancelAny(r) ==
    /\ recovery[r] # Absent
    /\ updateRecovery(r, cancelled(recovery[r]))

\* Anything but an activated request can be cancelled, a cancelled one again.
cancel(r) ==
    /\ recovery[r] # Absent
    /\ r \notin findBy({ "ACTIVATED" })
    /\ updateRecovery(r, cancelled(recovery[r]))

-----------------------------------------------------------------------------
(***************************************************************************)
(* Vault transfer requests.                                                *)
(***************************************************************************)

\* The methods of the aggregate root: the request after the call.

newVaultTransferRequest(origin) ==
    [ status |-> "PENDING", origin |-> origin,
      decision |-> [ decidedOn |-> FALSE, rejectReason |-> FALSE ] ]

rejectTransfer(request) ==
    [request EXCEPT !.status = "REJECTED",
                    !.decision = [ decidedOn |-> TRUE, rejectReason |-> TRUE ]]

acceptTransfer(request) ==
    [request EXCEPT !.status = "ACCEPTED", !.decision.decidedOn = TRUE]

cancelTransfer(request) ==
    [request EXCEPT !.status = IF @ = "PENDING" THEN "CANCELLED" ELSE "REJECTED_CANCELLED",
                    !.decision.decidedOn = TRUE]

\* clear() sets the decision to undefined, and saving the row of an aggregate
\* root leaves the columns of undefined properties alone: the decision stays.
resubmit(request) == [request EXCEPT !.status = "PENDING"]

\* The handlers.

updateTransfer(t, request) ==
    /\ transfer' = [transfer EXCEPT ![t] = request]
    /\ UNCHANGED << recovery, identity, syncVars >>

findActiveRecovery == findBy({ "ACTIVATED" })

\* userAuthorizedAndProtected.  Of several active recoveries the query returns
\* any one first, and only that one is compared with the origin.  Without one,
\* the origin has to be protected on chain, which it may be (external), and its
\* identity LOC to be valid.
createVaultTransferRequest(t, origin) ==
    /\ transfer[t] = Absent
    /\ \/ /\ findActiveRecovery = {}
          /\ origin = User
          /\ identity
       \/ \E active \in findActiveRecovery :
             origin = User \/ origin = recovery[active].addressToRecover
    /\ updateTransfer(t, newVaultTransferRequest(origin))

rejectVaultTransferRequest(t) ==
    /\ transfer[t].status = "PENDING"
    /\ updateTransfer(t, rejectTransfer(transfer[t]))

acceptVaultTransferRequest(t) ==
    /\ transfer[t].status = "PENDING"
    /\ updateTransfer(t, acceptTransfer(transfer[t]))

cancelVaultTransferRequest(t) ==
    /\ transfer[t].status \in { "PENDING", "REJECTED" }
    /\ updateTransfer(t, cancelTransfer(transfer[t]))

resubmitVaultTransferRequest(t) ==
    /\ transfer[t].status = "REJECTED"
    /\ updateTransfer(t, resubmit(transfer[t]))

-----------------------------------------------------------------------------
(***************************************************************************)
(* The synchronizer, and what happens around it (external).                *)
(***************************************************************************)

\* The user signs createRecovery with its legal officers, accepted or not.
createRecovery ==
    /\ sent < MaxExtrinsics
    /\ sent' = sent + 1
    /\ feed' = feed + 1
    /\ due' = due \union findBy({ "ACCEPTED" })
    /\ UNCHANGED << recovery, transfer, identity, activating, crashes >>

\* The identity LOC is closed, or made void.
identityChanges ==
    /\ identity' = ~identity
    /\ UNCHANGED << recovery, transfer, syncVars >>

\* Seeded fault: the pending requests are activated with the accepted ones.
findUndecidedRequests ==
    /\ activating = Idle
    /\ feed > 0
    /\ activating' = [running |-> TRUE, requests |-> findBy({ "PENDING", "ACCEPTED" })]
    /\ UNCHANGED << recovery, transfer, identity, feed, sent, crashes, due >>

\* updateAccountRecoveryRequests up to its loop on the requests
findAcceptedRequests ==
    /\ activating = Idle
    /\ feed > 0
    /\ activating' = [running |-> TRUE, requests |-> findBy({ "ACCEPTED" })]
    /\ UNCHANGED << recovery, transfer, identity, feed, sent, crashes, due >>

setActivated(r) ==
    /\ activating.running
    /\ r \in activating.requests
    /\ recovery' = [recovery EXCEPT ![r] = activate(@)]
    /\ activating' = [activating EXCEPT !.requests = @ \ { r }]
    /\ UNCHANGED << transfer, identity, feed, sent, crashes, due >>

\* Seeded fault: the synchronizer goes on with the extrinsic it has done.
extrinsicDoneAgain ==
    /\ activating.running
    /\ activating.requests = {}
    /\ feed' = feed - 1
    /\ UNCHANGED << recovery, transfer, identity, activating, sent, crashes, due >>

extrinsicDone ==
    /\ activating.running
    /\ activating.requests = {}
    /\ activating' = Idle
    /\ feed' = feed - 1
    /\ UNCHANGED << recovery, transfer, identity, sent, crashes, due >>

\* Seeded fault: an interrupted extrinsic is not applied again.
interruptAndForget ==
    /\ activating.running
    /\ crashes < MaxCrashes
    /\ crashes' = crashes + 1
    /\ activating' = Idle
    /\ feed' = feed - 1
    /\ UNCHANGED << recovery, transfer, identity, sent, due >>

\* The database fails or the process dies: the extrinsic will be applied again.
interrupt ==
    /\ activating.running
    /\ crashes < MaxCrashes
    /\ crashes' = crashes + 1
    /\ activating' = Idle
    /\ UNCHANGED << recovery, transfer, identity, feed, sent, due >>

-----------------------------------------------------------------------------
RequestHandler(r) ==
    \/ \E address \in Accounts : createRequest(r, address)
    \/ rejectRequest(r) \/ acceptRequest(r) \/ cancel(r)

TransferHandler(t) ==
    \/ \E origin \in Accounts \union { User } : createVaultTransferRequest(t, origin)
    \/ rejectVaultTransferRequest(t) \/ acceptVaultTransferRequest(t)
    \/ cancelVaultTransferRequest(t) \/ resubmitVaultTransferRequest(t)

SyncStep == findAcceptedRequests \/ (\E r \in Requests : setActivated(r)) \/ extrinsicDone

Next ==
    \/ \E r \in Requests : RequestHandler(r)
    \/ \E t \in Transfers : TransferHandler(t)
    \/ createRecovery \/ identityChanges
    \/ SyncStep \/ interrupt

\* The block consumer retries until it succeeds (module BlockConsumer).
Spec == Init /\ [][Next]_vars /\ WF_vars(SyncStep)

-----------------------------------------------------------------------------
(***************************************************************************)
(* Properties.                                                             *)
(***************************************************************************)

\* Every variable has its type.
TypeOK ==
    /\ recovery \in [Requests -> AccountRecoveryRequest \union { Absent }]
    /\ transfer \in [Transfers -> VaultTransferRequest \union { Absent }]
    /\ identity \in BOOLEAN
    /\ feed \in 0 .. sent
    /\ sent \in 0 .. MaxExtrinsics
    /\ activating \in [running : { TRUE }, requests : SUBSET Requests] \union { Idle }
    /\ crashes \in 0 .. MaxCrashes
    /\ due \subseteq Requests

\* A recovery is activated only if the legal officer accepted it, although
\* what the synchronizer read may be stale when it activates (setActivated
\* only warns), and whatever was cancelled or replayed meanwhile.
ActivatedWasAccepted ==
    \A r \in findBy({ "ACTIVATED" }) : recovery[r].decision = "ACCEPTED"

\* The legal officer decides once: no sequence of calls changes the decision.
DecidedOnce ==
    [][\A r \in Requests : recovery[r] # Absent /\ recovery[r].decision # "NONE"
          => recovery'[r].decision = recovery[r].decision]_vars

\* A vault transfer of somebody else's account exists only while a recovery
\* of that account is active: cancelling cannot take back what gave access.
TransfersOfRecoveredAccounts ==
    \A t \in Transfers :
        transfer[t] # Absent /\ transfer[t].origin # User
            => \E r \in findBy({ "ACTIVATED" }) : recovery[r].addressToRecover = transfer[t].origin

\* A request that is accepted when the user signs createRecovery ends up
\* activated, unless the user cancels it, however often the synchronizer is
\* interrupted between its transactions.
AcceptedIsActivated ==
    \A r \in Requests :
        r \in due ~> r \in findBy({ "ACTIVATED", "ACCEPTED_CANCELLED" })

-----------------------------------------------------------------------------
\* "cancels an accepted protection request": ACCEPTED_CANCELLED is what
\* becomes of an accepted one.  It also is what becomes of any request that
\* is cancelled twice.
AcceptedCancelledWasAccepted ==
    \A r \in findBy({ "ACCEPTED_CANCELLED" }) : recovery[r].decision = "ACCEPTED"
=============================================================================
