--------------------------- MODULE RecoveryProofs ---------------------------
(***************************************************************************)
(* The safety of account recovery, for any number of requests, transfers,  *)
(* accounts, extrinsics and interruptions.                                 *)
(*                                                                         *)
(* The invariant adds to the properties what the synchronizer relies on    *)
(* without checking it: a request it once read as accepted was accepted,   *)
(* whatever became of it, and it still works on an extrinsic of the feed.  *)
(***************************************************************************)
EXTENDS Recovery, TLAPS

Decided ==
    \A r \in Requests :
        /\ recovery[r].status = "PENDING" => recovery[r].decision = "NONE"
        /\ recovery[r].status \in { "ACCEPTED", "ACTIVATED" } =>
              recovery[r].decision = "ACCEPTED"

\* What was read may be stale, but its decision is not.
Activating ==
    activating.running =>
        /\ feed > 0
        /\ \A r \in activating.requests :
              recovery[r] \in AccountRecoveryRequest /\ recovery[r].decision = "ACCEPTED"

Inv == TypeOK /\ Decided /\ Activating /\ TransfersOfRecoveredAccounts

USE ConstantsAssumption DEF ConstantsAssumption

LEMMA RequestIsTyped ==
    ASSUME TypeOK, NEW r \in Requests
    PROVE  /\ recovery[r] \in AccountRecoveryRequest \/ recovery[r] = Absent
           /\ recovery[r].status = "ABSENT" <=> recovery[r] = Absent
           /\ recovery[r] # Absent <=> recovery[r] \in AccountRecoveryRequest
  BY DEF TypeOK, AccountRecoveryRequest, AccountRecoveryRequestStatus, Absent

LEMMA TransferIsTyped ==
    ASSUME TypeOK, NEW t \in Transfers
    PROVE  /\ transfer[t] \in VaultTransferRequest \/ transfer[t] = Absent
           /\ transfer[t].status = "ABSENT" <=> transfer[t] = Absent
           /\ transfer[t] # Absent <=> transfer[t] \in VaultTransferRequest
  BY DEF TypeOK, VaultTransferRequest, VaultTransferRequestStatus, Absent

LEMMA ActivatingIsTyped ==
    ASSUME TypeOK
    PROVE  \/ activating = Idle /\ ~activating.running
           \/ /\ activating \in [running : { TRUE }, requests : SUBSET Requests]
              /\ activating.running /\ activating.requests \subseteq Requests
<1>1. CASE activating = Idle
  BY <1>1 DEF Idle
<1>2. CASE activating \in [running : { TRUE }, requests : SUBSET Requests]
  BY <1>2
<1> QED
  BY <1>1, <1>2 DEF TypeOK

-----------------------------------------------------------------------------
(***************************************************************************)
(* What a step does to a request, and to a transfer.                       *)
(***************************************************************************)

Created(r) ==
    /\ recovery[r] = Absent
    /\ recovery'[r] \in AccountRecoveryRequest
    /\ recovery'[r].status = "PENDING" /\ recovery'[r].decision = "NONE"

\* a method of the root was called
Updated(r) ==
    /\ recovery[r] \in AccountRecoveryRequest /\ recovery'[r] \in AccountRecoveryRequest
    /\ recovery'[r].addressToRecover = recovery[r].addressToRecover
    /\ \/ /\ recovery[r].status = "PENDING"
          /\ recovery'[r].status \in { "REJECTED", "ACCEPTED" }
          /\ recovery'[r].decision = recovery'[r].status
       \/ /\ recovery[r].status # "ACTIVATED"
          /\ recovery'[r].status \in { "CANCELLED", "REJECTED_CANCELLED",
                                       "ACCEPTED_CANCELLED" }
          /\ recovery'[r].decision = recovery[r].decision
       \/ /\ activating.running /\ r \in activating.requests
          /\ recovery'[r].status = "ACTIVATED"
          /\ recovery'[r].decision = recovery[r].decision

RequestMove(r) == recovery'[r] = recovery[r] \/ Created(r) \/ Updated(r)

LEMMA HandlerMoves ==
    ASSUME Inv, NEW q \in Requests, RequestHandler(q)
    PROVE  /\ \A r \in Requests : RequestMove(r)
           /\ recovery' \in [Requests -> AccountRecoveryRequest \union { Absent }]
           /\ UNCHANGED << transfer, identity, feed, sent, activating, crashes, due >>
<1> DEFINE Update(request) ==
      /\ recovery' = [recovery EXCEPT ![q] = request]
      /\ UNCHANGED << transfer, identity, feed, sent, activating, crashes, due >>
<1>1. /\ TypeOK
      /\ recovery \in [Requests -> AccountRecoveryRequest \union { Absent }]
  BY DEF Inv, TypeOK
<1>2. ASSUME NEW request \in AccountRecoveryRequest, Update(request),
             recovery'[q] = request => Created(q) \/ Updated(q)
      PROVE  /\ \A r \in Requests : RequestMove(r)
             /\ recovery' \in [Requests -> AccountRecoveryRequest \union { Absent }]
  <2>1. recovery'[q] = request /\ \A r \in Requests \ { q } : recovery'[r] = recovery[r]
    BY <1>1, <1>2
  <2>2. recovery' \in [Requests -> AccountRecoveryRequest \union { Absent }]
    BY <1>1, <1>2
  <2> QED
    BY <1>2, <2>1, <2>2 DEF RequestMove
<1>3. ASSUME NEW address \in Accounts, createRequest(q, address)
      PROVE  /\ \A r \in Requests : RequestMove(r)
             /\ recovery' \in [Requests -> AccountRecoveryRequest \union { Absent }]
  <2> DEFINE request == newAccountRecoveryRequest(address)
  <2>1. request \in AccountRecoveryRequest /\ request.status = "PENDING" /\ request.decision = "NONE"
    BY DEF newAccountRecoveryRequest, AccountRecoveryRequest, AccountRecoveryRequestStatus,
           LegalOfficerDecision
  <2>2. Update(request) /\ recovery[q] = Absent
    BY <1>3 DEF createRequest, updateRecovery, syncVars
  <2> HIDE DEF request
  <2>3. recovery'[q] = request => Created(q)
    BY <2>1, <2>2 DEF Created
  <2> QED
    BY <1>2, <2>1, <2>2, <2>3
<1>4. ASSUME rejectRequest(q) \/ acceptRequest(q)
      PROVE  /\ \A r \in Requests : RequestMove(r)
             /\ recovery' \in [Requests -> AccountRecoveryRequest \union { Absent }]
  <2>1. PICK request \in { reject(recovery[q]), accept(recovery[q]) } : Update(request)
    BY <1>4 DEF rejectRequest, acceptRequest, updateRecovery, syncVars
  <2>2. recovery[q].status = "PENDING" /\ recovery[q] \in AccountRecoveryRequest
    BY <1>1, <1>4, RequestIsTyped DEF rejectRequest, acceptRequest, findBy
  <2>3. /\ request \in AccountRecoveryRequest
        /\ request.addressToRecover = recovery[q].addressToRecover
        /\ request.status \in { "REJECTED", "ACCEPTED" }
        /\ request.decision = request.status
    BY <2>1, <2>2 DEF reject, accept, AccountRecoveryRequest, AccountRecoveryRequestStatus,
                      LegalOfficerDecision
  <2>4. recovery'[q] = request => Updated(q)
    BY <2>2, <2>3 DEF Updated
  <2> QED
    BY <1>2, <2>1, <2>3, <2>4
<1>5. ASSUME cancel(q)
      PROVE  /\ \A r \in Requests : RequestMove(r)
             /\ recovery' \in [Requests -> AccountRecoveryRequest \union { Absent }]
  <2> DEFINE request == cancelled(recovery[q])
  <2>1. Update(request)
    BY <1>5 DEF cancel, updateRecovery, syncVars
  <2>2. recovery[q].status # "ACTIVATED" /\ recovery[q] \in AccountRecoveryRequest
    BY <1>1, <1>5, RequestIsTyped DEF cancel, findBy
  <2>3. /\ request \in AccountRecoveryRequest
        /\ request.addressToRecover = recovery[q].addressToRecover
        /\ request.status \in { "CANCELLED", "REJECTED_CANCELLED", "ACCEPTED_CANCELLED" }
        /\ request.decision = recovery[q].decision
    BY <2>2 DEF cancelled, AccountRecoveryRequest, AccountRecoveryRequestStatus
  <2> HIDE DEF request
  <2>4. recovery'[q] = request => Updated(q)
    BY <2>2, <2>3 DEF Updated
  <2> QED
    BY <1>2, <2>1, <2>3, <2>4
<1>6. UNCHANGED << transfer, identity, feed, sent, activating, crashes, due >>
  BY DEF RequestHandler, createRequest, rejectRequest, acceptRequest, cancel,
         updateRecovery,
         syncVars
<1> QED
  BY <1>3, <1>4, <1>5, <1>6 DEF RequestHandler

LEMMA ActivationMoves ==
    ASSUME Inv, NEW q \in Requests, setActivated(q)
    PROVE  /\ \A r \in Requests : RequestMove(r)
           /\ recovery' \in [Requests -> AccountRecoveryRequest \union { Absent }]
           /\ activating.running /\ activating'.running
           /\ activating' \in [running : { TRUE }, requests : SUBSET Requests]
           /\ activating'.requests \subseteq activating.requests
           /\ UNCHANGED << transfer, identity, feed, sent, crashes, due >>
<1>1. /\ recovery \in [Requests -> AccountRecoveryRequest \union { Absent }]
      /\ activating.running /\ q \in activating.requests
      /\ activating \in [running : { TRUE }, requests : SUBSET Requests]
  BY ActivatingIsTyped DEF Inv, TypeOK, setActivated
<1>2. recovery[q] \in AccountRecoveryRequest
  BY <1>1 DEF Inv, Activating
<1> DEFINE request == activate(recovery[q])
<1>3. /\ request \in AccountRecoveryRequest
      /\ request.addressToRecover = recovery[q].addressToRecover
      /\ request.status = "ACTIVATED" /\ request.decision = recovery[q].decision
  BY <1>2 DEF activate, AccountRecoveryRequest, AccountRecoveryRequestStatus
<1>4. recovery' = [recovery EXCEPT ![q] = request]
  BY DEF setActivated
<1> HIDE DEF request
<1>5. recovery'[q] = request /\ \A r \in Requests \ { q } : recovery'[r] = recovery[r]
  BY <1>1, <1>4
<1>6. Updated(q)
  BY <1>1, <1>2, <1>3, <1>5 DEF Updated
<1>7. recovery' \in [Requests -> AccountRecoveryRequest \union { Absent }]
  BY <1>1, <1>3, <1>4
<1>8. /\ activating' = [activating EXCEPT !.requests = @ \ { q }]
      /\ UNCHANGED << transfer, identity, feed, sent, crashes, due >>
  BY DEF setActivated
<1>9. /\ activating'.running
      /\ activating' \in [running : { TRUE }, requests : SUBSET Requests]
      /\ activating'.requests \subseteq activating.requests
  BY <1>1, <1>8
<1> QED
  BY <1>1, <1>5, <1>6, <1>7, <1>8, <1>9 DEF RequestMove

\* a transfer is asked for an account that an active recovery gives access to
TransferMove(t) ==
    \/ transfer'[t] = transfer[t]
    \/ /\ transfer'[t] \in VaultTransferRequest
       /\ \/ transfer[t] # Absent /\ transfer'[t].origin = transfer[t].origin
          \/ transfer'[t].origin = User
          \/ \E r \in findActiveRecovery : transfer'[t].origin = recovery[r].addressToRecover

LEMMA TransferMoves ==
    ASSUME Inv, NEW q \in Transfers, TransferHandler(q)
    PROVE  /\ \A t \in Transfers : TransferMove(t)
           /\ transfer' \in [Transfers -> VaultTransferRequest \union { Absent }]
           /\ UNCHANGED << recovery, identity, feed, sent, activating, crashes, due >>
<1>1. /\ TypeOK
      /\ transfer \in [Transfers -> VaultTransferRequest \union { Absent }]
  BY DEF Inv, TypeOK
<1>2. PICK request \in VaultTransferRequest :
         /\ transfer' = [transfer EXCEPT ![q] = request]
         /\ \/ transfer[q] # Absent /\ request.origin = transfer[q].origin
            \/ request.origin = User
            \/ \E r \in findActiveRecovery : request.origin = recovery[r].addressToRecover
  <2>1. ASSUME NEW origin \in Accounts \union { User }, createVaultTransferRequest(q,
  origin)
        PROVE  \E request \in VaultTransferRequest :
                  /\ transfer' = [transfer EXCEPT ![q] = request]
                  /\ \/ request.origin = User
                     \/ \E r \in findActiveRecovery :
                           request.origin = recovery[r].addressToRecover
    <3> DEFINE request == newVaultTransferRequest(origin)
    <3>1. request \in VaultTransferRequest /\ request.origin = origin
      BY DEF newVaultTransferRequest, VaultTransferRequest, VaultTransferRequestStatus,
             VaultTransferRequestDecision
    <3>2. transfer' = [transfer EXCEPT ![q] = request]
      BY <2>1 DEF createVaultTransferRequest, updateTransfer
    <3>3. origin = User \/ \E r \in findActiveRecovery : origin = recovery[r].addressToRecover
      BY <2>1 DEF createVaultTransferRequest
    <3> HIDE DEF request
    <3> QED
      BY <3>1, <3>2, <3>3
  <2>2. ASSUME \/ rejectVaultTransferRequest(q) \/ acceptVaultTransferRequest(q)
               \/ cancelVaultTransferRequest(q) \/ resubmitVaultTransferRequest(q)
        PROVE  \E request \in VaultTransferRequest :
                  /\ transfer' = [transfer EXCEPT ![q] = request]
                  /\ transfer[q] # Absent /\ request.origin = transfer[q].origin
    <3>1. transfer[q] \in VaultTransferRequest /\ transfer[q] # Absent
      BY <1>1, <2>2, TransferIsTyped
         DEF rejectVaultTransferRequest, acceptVaultTransferRequest,
             cancelVaultTransferRequest, resubmitVaultTransferRequest
    <3>2. \E request \in { rejectTransfer(transfer[q]), acceptTransfer(transfer[q]),
                           cancelTransfer(transfer[q]), resubmit(transfer[q]) } :
             transfer' = [transfer EXCEPT ![q] = request]
      BY <2>2 DEF rejectVaultTransferRequest, acceptVaultTransferRequest,
                  cancelVaultTransferRequest, resubmitVaultTransferRequest, updateTransfer
    <3>3. \A request \in { rejectTransfer(transfer[q]), acceptTransfer(transfer[q]),
                           cancelTransfer(transfer[q]), resubmit(transfer[q]) } :
             request \in VaultTransferRequest /\ request.origin = transfer[q].origin
      <4> DEFINE Keeps(request) ==
            request \in VaultTransferRequest /\ request.origin = transfer[q].origin
      <4>1. Keeps(rejectTransfer(transfer[q]))
        BY <3>1 DEF rejectTransfer, VaultTransferRequest, VaultTransferRequestStatus,
                    VaultTransferRequestDecision
      <4>2. Keeps(acceptTransfer(transfer[q]))
        BY <3>1 DEF acceptTransfer, VaultTransferRequest, VaultTransferRequestStatus,
                    VaultTransferRequestDecision
      <4>3. Keeps(cancelTransfer(transfer[q]))
        BY <3>1 DEF cancelTransfer, VaultTransferRequest, VaultTransferRequestStatus,
                    VaultTransferRequestDecision
      <4>4. Keeps(resubmit(transfer[q]))
        BY <3>1 DEF resubmit, VaultTransferRequest, VaultTransferRequestStatus
      <4> QED
        BY <4>1, <4>2, <4>3, <4>4
    <3> QED
      BY <3>1, <3>2, <3>3
  <2> QED
    BY <2>1, <2>2 DEF TransferHandler
<1>3. transfer'[q] = request /\ \A t \in Transfers \ { q } : transfer'[t] = transfer[t]
  BY <1>1, <1>2
<1>4. transfer' \in [Transfers -> VaultTransferRequest \union { Absent }]
  BY <1>1, <1>2
<1>5. UNCHANGED << recovery, identity, feed, sent, activating, crashes, due >>
  BY DEF TransferHandler, createVaultTransferRequest, rejectVaultTransferRequest,
         acceptVaultTransferRequest, cancelVaultTransferRequest,
         resubmitVaultTransferRequest, updateTransfer, syncVars
<1> QED
  BY <1>2, <1>3, <1>4, <1>5 DEF TransferMove

-----------------------------------------------------------------------------
(***************************************************************************)
(* The steps.                                                              *)
(***************************************************************************)

\* When the requests only change as their methods allow, the decisions, what
\* is being activated and the access to the accounts are kept.
LEMMA RequestMovesKeep ==
    ASSUME Inv, TypeOK', \A r \in Requests : RequestMove(r),
           UNCHANGED << transfer, feed >>,
           activating'.running => activating.running,
           activating'.running => activating'.requests \subseteq activating.requests
    PROVE  Inv'
<1>1. Decided'
  <2> SUFFICES ASSUME NEW r \in Requests
               PROVE  /\ recovery'[r].status = "PENDING" => recovery'[r].decision = "NONE"
                      /\ recovery'[r].status \in { "ACCEPTED", "ACTIVATED" }
                            => recovery'[r].decision = "ACCEPTED"
    BY DEF Decided
  <2>1. RequestMove(r) /\ (activating.running /\ r \in activating.requests
                              => recovery[r].decision = "ACCEPTED")
    BY DEF Inv, Activating
  <2>2. CASE recovery'[r] = recovery[r]
    BY <2>2 DEF Inv, Decided
  <2>3. CASE Created(r)
    BY <2>3 DEF Created
  <2>4. CASE Updated(r)
    BY <2>1, <2>4 DEF Updated
  <2> QED
    BY <2>1, <2>2, <2>3, <2>4 DEF RequestMove
<1>2. Activating'
  <2> SUFFICES ASSUME activating'.running
               PROVE  /\ feed > 0
                      /\ \A r \in activating'.requests :
                            /\ recovery'[r] \in AccountRecoveryRequest
                            /\ recovery'[r].decision = "ACCEPTED"
    BY DEF Activating
  <2>1. feed > 0
    BY DEF Inv, Activating
  <2>2. ASSUME NEW r \in activating'.requests
        PROVE  /\ recovery'[r] \in AccountRecoveryRequest
               /\ recovery'[r].decision = "ACCEPTED"
    <3>1. r \in Requests /\ r \in activating.requests
      BY <2>2, ActivatingIsTyped DEF Inv
    <3>2. /\ recovery[r] \in AccountRecoveryRequest /\ recovery[r] # Absent
          /\ recovery[r].decision = "ACCEPTED" /\ recovery[r].status # "PENDING"
      BY <3>1, RequestIsTyped DEF Inv, Activating, Decided
    <3> QED
      BY <3>1, <3>2 DEF RequestMove, Created, Updated
  <2> QED
    BY <2>1, <2>2
<1>3. \A r \in Requests : recovery[r].status = "ACTIVATED" =>
         /\ recovery'[r].status = "ACTIVATED"
         /\ recovery'[r].addressToRecover = recovery[r].addressToRecover
  BY DEF RequestMove, Created, Updated, Absent
<1>4. TransfersOfRecoveredAccounts'
  BY <1>3 DEF Inv, TransfersOfRecoveredAccounts, findBy
<1> QED
  BY <1>1, <1>2, <1>4 DEF Inv

LEMMA HandlerKeepsInv ==
    ASSUME Inv, NEW r \in Requests, RequestHandler(r)
    PROVE  Inv'
<1>1. TypeOK'
  BY HandlerMoves DEF Inv, TypeOK
<1> QED
  BY <1>1, HandlerMoves, RequestMovesKeep

LEMMA ActivationKeepsInv ==
    ASSUME Inv, NEW r \in Requests, setActivated(r)
    PROVE  Inv'
<1>1. TypeOK'
  BY ActivationMoves DEF Inv, TypeOK
<1> QED
  BY <1>1, ActivationMoves, RequestMovesKeep

LEMMA TransferKeepsInv ==
    ASSUME Inv, NEW t \in Transfers, TransferHandler(t)
    PROVE  Inv'
<1>1. TypeOK'
  BY TransferMoves DEF Inv, TypeOK
<1>2. Decided' /\ Activating'
  BY TransferMoves DEF Inv, Decided, Activating
<1>3. TransfersOfRecoveredAccounts'
  <2> SUFFICES ASSUME NEW u \in Transfers, transfer'[u] # Absent, transfer'[u].origin # User
               PROVE  \E r \in findBy({ "ACTIVATED" }) :
                         recovery[r].addressToRecover = transfer'[u].origin
    BY TransferMoves DEF TransfersOfRecoveredAccounts, findBy
  <2>1. TransferMove(u)
    BY TransferMoves
  <2>2. CASE transfer'[u].origin = transfer[u].origin /\ transfer[u] # Absent
    BY <2>2 DEF Inv, TransfersOfRecoveredAccounts
  <2>3. CASE \E r \in findActiveRecovery : transfer'[u].origin = recovery[r].addressToRecover
    BY <2>3 DEF findActiveRecovery
  <2> QED
    BY <2>1, <2>2, <2>3 DEF TransferMove
<1> QED
  BY <1>1, <1>2, <1>3 DEF Inv

\* the steps that neither change a request nor a transfer
LEMMA OthersKeepInv ==
    ASSUME Inv, \/ createRecovery \/ identityChanges \/ findAcceptedRequests
                \/ extrinsicDone \/ interrupt
    PROVE  Inv'
<1>1. UNCHANGED << recovery, transfer >> /\ TypeOK
  BY DEF Inv, createRecovery, identityChanges, findAcceptedRequests, extrinsicDone,
         interrupt
<1>2. Decided' /\ TransfersOfRecoveredAccounts'
  BY <1>1 DEF Inv, Decided, TransfersOfRecoveredAccounts, findBy
<1>3. feed \in 0 .. sent /\ sent \in 0 .. MaxExtrinsics /\ crashes \in 0 .. MaxCrashes
  BY <1>1 DEF TypeOK
<1>4. CASE createRecovery
  <2>1. feed' \in 0 .. sent' /\ sent' \in 0 .. MaxExtrinsics /\ feed' > 0
    BY <1>3, <1>4 DEF createRecovery
  <2>2. TypeOK'
    BY <1>1, <1>4, <2>1 DEF TypeOK, createRecovery, findBy
  <2>3. Activating'
    BY <1>1, <1>4, <2>1 DEF Inv, Activating, createRecovery
  <2> QED
    BY <1>2, <2>2, <2>3 DEF Inv
<1>5. CASE identityChanges
  <2>1. TypeOK'
    BY <1>1, <1>5 DEF TypeOK, identityChanges, syncVars
  <2>2. Activating'
    BY <1>1, <1>5 DEF Inv, Activating, identityChanges, syncVars
  <2> QED
    BY <1>2, <2>1, <2>2 DEF Inv
<1>6. CASE findAcceptedRequests
  <2> DEFINE accepted == findBy({ "ACCEPTED" })
  <2>1. \A r \in accepted : r \in Requests /\ recovery[r].status = "ACCEPTED"
    BY DEF findBy
  <2>2. \A r \in accepted : recovery[r] \in AccountRecoveryRequest
                           /\ recovery[r].decision = "ACCEPTED"
    BY <1>1, <2>1, RequestIsTyped DEF Inv, Decided
  <2>3. /\ activating' = [running |-> TRUE, requests |-> accepted] /\ feed > 0
        /\ UNCHANGED << identity, feed, sent, crashes, due >>
    BY <1>6 DEF findAcceptedRequests
  <2> HIDE DEF accepted
  <2>4. activating' \in [running : { TRUE }, requests : SUBSET Requests]
    BY <2>1, <2>3
  <2>5. TypeOK'
    BY <1>1, <2>3, <2>4 DEF TypeOK
  <2>6. Activating'
    BY <1>1, <2>2, <2>3 DEF Activating
  <2> QED
    BY <1>2, <2>5, <2>6 DEF Inv
<1>7. CASE extrinsicDone \/ interrupt
  <2>1. activating' = Idle /\ ~activating'.running /\ UNCHANGED << identity, sent, due >>
    BY <1>7 DEF extrinsicDone, interrupt, Idle
  <2>2. feed' \in 0 .. sent /\ crashes' \in 0 .. MaxCrashes
    <3>1. CASE extrinsicDone
      <4>1. feed > 0 /\ feed' = feed - 1 /\ crashes' = crashes
        BY <3>1 DEF Inv, Activating, extrinsicDone
      <4> QED
        BY <1>3, <4>1
    <3>2. CASE interrupt
      BY <1>3, <3>2 DEF interrupt
    <3> QED
      BY <1>7, <3>1, <3>2
  <2>3. TypeOK'
    BY <1>1, <2>1, <2>2 DEF TypeOK
  <2> QED
    BY <1>2, <2>1, <2>3 DEF Inv, Activating
<1> QED
  BY <1>4, <1>5, <1>6, <1>7

LEMMA InitInv == Init => Inv
<1> SUFFICES ASSUME Init PROVE Inv
  OBVIOUS
<1>1. TypeOK
  BY DEF Init, TypeOK
<1>2. ~activating.running
  BY DEF Init, Idle
<1> QED
  BY <1>1, <1>2 DEF Init, Inv, Decided, Activating, TransfersOfRecoveredAccounts, Absent

LEMMA InvStep ==
    ASSUME Inv, [Next]_vars
    PROVE  Inv'
<1>1. CASE UNCHANGED vars
  BY <1>1 DEF vars, Inv, TypeOK, Decided, Activating, TransfersOfRecoveredAccounts, findBy
<1> QED
  BY <1>1, HandlerKeepsInv, TransferKeepsInv, ActivationKeepsInv, OthersKeepInv
     DEF Next, SyncStep

-----------------------------------------------------------------------------
(***************************************************************************)
(* The theorems.                                                           *)
(***************************************************************************)

\* The invariant, however often the synchronizer is interrupted.
THEOREM Invariance == Spec => []Inv
<1>1. Init => Inv
  BY InitInv
<1>2. Inv /\ [Next]_vars => Inv'
  BY InvStep
<1> QED BY <1>1, <1>2, PTL DEF Spec

\* Every variable keeps its type; the synchronizer never ends an extrinsic that
\* is not there.
THEOREM TypeCorrect == Spec => []TypeOK
<1>1. Inv => TypeOK
  BY DEF Inv
<1> QED BY <1>1, Invariance, PTL

\* setActivated never activates what the legal officer did not accept.
THEOREM ActivationAccepted == Spec => []ActivatedWasAccepted
<1>1. Inv => ActivatedWasAccepted
  BY DEF Inv, Decided, ActivatedWasAccepted, findBy
<1> QED BY <1>1, Invariance, PTL

\* A vault transfer of another account rests on an active recovery of it.
THEOREM AccessRecovered == Spec => []TransfersOfRecoveredAccounts
<1>1. Inv => TransfersOfRecoveredAccounts
  BY DEF Inv
<1> QED BY <1>1, Invariance, PTL

\* No sequence of calls, cancellations and activations changes a decision.
THEOREM DecisionIsFinal == Spec => DecidedOnce
<1> DEFINE Kept ==
      \A r \in Requests : recovery[r] # Absent /\ recovery[r].decision # "NONE"
                            => recovery'[r].decision = recovery[r].decision
<1>1. ASSUME Inv, [Next]_vars
      PROVE  Kept
  <2>1. \A r \in Requests : RequestMove(r)
    <3>1. CASE UNCHANGED recovery
      BY <3>1 DEF RequestMove
    <3>2. CASE \E t \in Transfers : TransferHandler(t)
      BY <1>1, <3>2, TransferMoves DEF RequestMove
    <3>3. CASE \E q \in Requests : RequestHandler(q) \/ setActivated(q)
      BY <1>1, <3>3, HandlerMoves, ActivationMoves
    <3>4. CASE \/ createRecovery \/ identityChanges \/ findAcceptedRequests
               \/ extrinsicDone \/ interrupt \/ UNCHANGED vars
      BY <3>1, <3>4 DEF createRecovery, identityChanges, findAcceptedRequests,
                        extrinsicDone, interrupt, vars
    <3> QED
      BY <1>1, <3>2, <3>3, <3>4 DEF Next, SyncStep
  <2> QED
    BY <1>1, <2>1 DEF RequestMove, Created, Updated, Inv, Decided
<1>2. Kept => [Kept]_vars
  OBVIOUS
<1> QED BY <1>1, <1>2, Invariance, PTL DEF Spec, DecidedOnce
=============================================================================
