---------------------------- MODULE Transactions ----------------------------
(***************************************************************************)
(* From the extrinsics of a block to the rows of the transaction table,    *)
(* and from the rows to the list an account is shown.                      *)
(*                                                                         *)
(* What an account pays is an event of the extrinsic, named by its         *)
(* position, and position 0 stands for the inclusion fee and the tip.  An  *)
(* amount of a row is the set of the events it adds up.  Extrinsics of sudo *)
(* are left out by the code, hence here.                                   *)
(***************************************************************************)
EXTENDS Integers, Sequences, FiniteSets, SequencesExt, FiniteSetsExt

CONSTANTS Accounts, None

-----------------------------------------------------------------------------
(***************************************************************************)
(* ExtrinsicsBuilder: the extrinsics of a block, with their fees.          *)
(***************************************************************************)

\* an extrinsic with the events of its phase; `failure` tells its dispatch error
ExtrinsicBuilder(call, signer, events, failure) ==
    [call |-> call, signer |-> signer, events |-> events, failure |-> failure]

\* Only the error of a pallet is noticed: another failure (a bad origin, a
\* lack of funds) passes for a success.
error(e) == e.failure = "module"

Events(e, method) == { i \in 1 .. Len(e.events) : e.events[i].method = method }

\* The last event of its kind replaces the others.
fee(e, method) ==
    IF Events(e, method) = {} THEN {} ELSE { Max(Events(e, method)) }

withdrawnFrom(e, event) == IF event = 0 THEN e.signer ELSE e.events[event].from

-----------------------------------------------------------------------------
(***************************************************************************)
(* TransactionExtractor.                                                   *)
(***************************************************************************)

determineType(e) ==
    CASE e.call.section = "balances" -> "TRANSFER"
      [] /\ e.call.section = "recovery"
         /\ e.call.method = "asRecovered"
         /\ e.call.call.section = "balances" -> "TRANSFER_FROM_RECOVERED"
      [] /\ e.call.section = "vault"
         /\ e.call.method = "approveCall"
         /\ e.call.call.section = "balances" -> "TRANSFER_FROM_VAULT"
      [] OTHER -> "GENERIC_TRANSACTION"

transferValue(e) ==
    IF Events(e, "Transfer") = {} THEN {} ELSE { Min(Events(e, "Transfer")) }

SignerFees ==
    { "StorageFeeWithdrawn", "LegalFeeWithdrawn", "CertificateFeeWithdrawn",
      "ValueFeeWithdrawn", "CollectionItemFeeWithdrawn" }

\* the fees paid by the signer; those of a tokens record have rows of their own
fees(e) ==
    { 0 } \union { i \in UNION { fee(e, m) : m \in SignerFees } : withdrawnFrom(e, i) = e.signer }

reservedBy(e, account) ==
    { i \in Events(e, "Reserved") \union Events(e, "Unreserved") : withdrawnFrom(e, i) = account }

TransactionType ==
    { "EXTRINSIC", "LEGAL_FEE", "VAULT_OUT", "STORAGE_FEE", "CERTIFICATE_FEE", "VALUE_FEE",
      "RESERVE", "COLLECTION_ITEM_FEE", "TOKENS_RECORD_FEE" }

\* which events the columns add up
EmbeddableFees == SUBSET Nat

Transaction ==
    [ type : TransactionType, from : Accounts, to : Accounts \union { None },
      fees : EmbeddableFees, reserved : SUBSET Nat, value : SUBSET Nat,
      successful : BOOLEAN, hiddenFrom : { None, "FROM", "TO" } ]

row(type, from) ==
    [ type |-> type, from |-> from, to |-> None, fees |-> {}, reserved |-> {}, value |-> {},
      successful |-> TRUE, hiddenFrom |-> None ]

onlyInclusion(amount) == amount \intersect { 0 }

\* TransactionFactory.newTransaction
newTransaction(e, r) ==
    IF error(e) THEN [r EXCEPT !.fees = onlyInclusion(@), !.successful = FALSE] ELSE r

vaultOut(e) ==
    IF determineType(e) = "TRANSFER_FROM_VAULT" /\ ~error(e)
    THEN { [row("VAULT_OUT", e.call.vault) EXCEPT !.value = transferValue(e),
                                                  !.to = e.call.call.dest] }
    ELSE {}

\* The actual extrinsic, with the fees of the signer; the one made for a
\* recovered account is attributed to that account.
actualExtrinsic(e) ==
    LET charged(from) == [row("EXTRINSIC", from) EXCEPT !.fees = fees(e),
                                                        !.reserved = reservedBy(e, e.signer)]
    IN  { newTransaction(e,
            CASE determineType(e) = "TRANSFER" ->
                   [charged(e.signer) EXCEPT !.value = transferValue(e), !.to = e.call.dest]
              [] determineType(e) = "TRANSFER_FROM_RECOVERED" ->
                   [charged(e.call.account) EXCEPT !.value = transferValue(e),
                                                   !.to = e.call.call.dest]
              [] OTHER -> charged(e.signer)) }

\* the events of a kind that someone else than the signer paid for
paidByOther(e, method) == { i \in fee(e, method) : withdrawnFrom(e, i) # e.signer }

storageFee(e) ==
    { [row("STORAGE_FEE", withdrawnFrom(e, i)) EXCEPT !.fees = { i }] :
        i \in paidByOther(e, "StorageFeeWithdrawn") }

certificateFee(e) ==
    { [row("CERTIFICATE_FEE", withdrawnFrom(e, i)) EXCEPT !.fees = { i }] :
        i \in paidByOther(e, "CertificateFeeWithdrawn") }

legalFee(e) ==
    { [row("LEGAL_FEE", withdrawnFrom(e, i)) EXCEPT !.value = { i }, !.to = e.events[i].to] :
        i \in paidByOther(e, "LegalFeeWithdrawn") }

\* The payer's reserve goes along.
valueFee(e) ==
    { [row("VALUE_FEE", withdrawnFrom(e, i)) EXCEPT
           !.value = { i }, !.reserved = reservedBy(e, withdrawnFrom(e, i))] :
        i \in paidByOther(e, "ValueFeeWithdrawn") }

toBeneficiary(e, i, type) ==
    [row(type, withdrawnFrom(e, i)) EXCEPT !.value = { i }, !.to = e.events[i].to,
                                           !.hiddenFrom = "FROM"]

collectionItemFee(e) ==
    { toBeneficiary(e, i, "COLLECTION_ITEM_FEE") :
        i \in { j \in fee(e, "CollectionItemFeeWithdrawn") : e.events[j].to # None } }

tokensRecordFee(e) ==
    UNION { { [row("TOKENS_RECORD_FEE", withdrawnFrom(e, i)) EXCEPT !.fees = { i }],
              toBeneficiary(e, i, "TOKENS_RECORD_FEE") } :
              i \in fee(e, "TokensRecordFeeWithdrawn") }

\* Seeded fault: the reserve shown with the value fee is shown again.
reserveAll(e) ==
    { [row("RESERVE", a) EXCEPT !.reserved = reservedBy(e, a)] :
        a \in { b \in Accounts \ { e.signer } : reservedBy(e, b) # {} } }

\* what is reserved from the accounts that remain in reservedMap
reserve(e) ==
    { [row("RESERVE", a) EXCEPT !.reserved = reservedBy(e, a)] :
        a \in { b \in Accounts :
                  /\ reservedBy(e, b) # {}
                  /\ b # e.signer
                  /\ \A i \in paidByOther(e, "ValueFeeWithdrawn") : withdrawnFrom(e, i) # b } }

\* The rows of an extrinsic; the order in which they are saved is left open.
extractTransactions(e) ==
    IF e.signer = None THEN {}
    ELSE vaultOut(e) \union actualExtrinsic(e) \union storageFee(e) \union certificateFee(e)
           \union legalFee(e) \union valueFee(e) \union collectionItemFee(e)
           \union tokensRecordFee(e) \union reserve(e)

-----------------------------------------------------------------------------
(***************************************************************************)
(* TransactionRepository.findBy and TransactionController.                 *)
(***************************************************************************)

\* Seeded fault: the hidden side of a row is not looked at.
isListedHidden(r, account) == r.from = account \/ (r.to = account /\ r.successful)

isListed(r, account) ==
    \/ r.from = account /\ r.hiddenFrom # "FROM"
    \/ r.to = account /\ r.successful /\ r.hiddenFrom # "TO"

\* The type of a row is checked when it is read: one of the types that are
\* written is not expected, and the whole list of its account is an error.
asTransactionType(type) == type # "CERTIFICATE_FEE"

\* toView: what a row adds to the total
total(r) == r.fees \union r.reserved \union (IF r.successful THEN r.value ELSE {})
=============================================================================
