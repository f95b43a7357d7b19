------------------------- MODULE ChainRecordsProofs -------------------------
(***************************************************************************)
(* What the back end records of the chain follows the chain, for any       *)
(* accounts, officers, issuers, bounds and size of the batches.            *)
(***************************************************************************)
EXTENDS ChainRecords, FiniteSetTheorems, SequenceTheorems, WellFoundedInduction, TLAPS

-----------------------------------------------------------------------------
(***************************************************************************)
(* What a finalized extrinsic looks like.                                  *)
(***************************************************************************)

OfficerCalls == VoteCalls \union IssuerCalls

VoteEvent ==
    [method : { "VoteCreated" }, vote : VoteId]
      \union [method : { "VoteUpdated" }, vote : VoteId, voter : Officers,
              result : VoteResult, closed : BOOLEAN, approved : BOOLEAN]

Accepted(e) ==
    /\ e.failure = "none" /\ e.signer \in Officers /\ e.events \in Seq(VoteEvent)
    /\ e.call \in OfficerCalls \/ \E a, b \in OfficerCalls : e.call = batchAll(a, b)

Refused(e) ==
    /\ e.signer \in Accounts /\ e.events = << >>
    /\ \/ /\ e.failure = "module"
          /\ e.call \in OfficerCalls \/ \E a, b \in VoteCalls : e.call = batchAll(a, b)
       \/ e.failure = "other" /\ e.signer \notin Officers /\ e.call \in OfficerCalls
       \/ e.failure = "none" /\ e.call = Batch

Moves(e, from, call) ==
    \/ e.failure = "none" /\ e.events = moved(from, call)
    \/ e.failure \in { "module", "other" } /\ e.events = << >>

Charging(e) ==
    /\ e.signer \in Accounts
    /\ \/ e.call = Other /\ e.failure = "none" /\ e.events \in Seq(Charges(e.signer))
       \/ e.call \in Transfers /\ Moves(e, e.signer, e.call)
       \/ e.call \in Recovered /\ e.call.account # e.signer /\ Moves(e, e.call.account, e.call.call)
       \/ /\ e.call \in Approvals /\ e.call.vault # e.signer
          /\ Moves(e, e.call.vault, e.call.call) \/ (e.failure = "none" /\ e.events = << >>)

Finalized(e) == Accepted(e) \/ Refused(e) \/ Charging(e)

\* what it tells of a vote
isVote(x)  == isCreation(x) \/ isBallot(x)
Created(e) == Len(e.events) = 1 /\ e.events[1].method = "VoteCreated"
Cast(e)    == Len(e.events) = 1 /\ e.events[1].method = "VoteUpdated"
Told(e)    == Created(e) \/ Cast(e)
of(e)      == e.events[1].vote

\* An extrinsic with one call about votes has one event, of that call.
TellsOneVote(e) ==
    LET u == unwrapExtrinsics(e)
    IN  ~(Cardinality(voteCalls(e)) > 1) =>
          /\ \A j, k \in DOMAIN u : isVote(u[j]) /\ isVote(u[k]) => j = k
          /\ \A k \in DOMAIN u : isCreation(u[k]) => Created(e) \/ e.failure = "other"
          /\ \A k \in DOMAIN u : isBallot(u[k]) => Cast(e) \/ e.failure = "other"
          /\ Told(e) => \E k \in DOMAIN u : isVote(u[k])

-----------------------------------------------------------------------------
(***************************************************************************)
(* The shape of the state.                                                 *)
(***************************************************************************)

Calls(b) == unwrapExtrinsics(blocks[b])

Chain ==
    [votes : Seq(Vote), nominated : SUBSET (Locs \X Issuers), selected : SUBSET (Locs \X Issuers)]

OneVoteEach(c) == \A v, w \in DOMAIN c.votes : c.votes[v].loc = c.votes[w].loc => v = w

Write ==
    [issuer : Issuers, loc : { None }] \union [issuer : Issuers, loc : Locs, selected : BOOLEAN]

Running ==
    /\ job.running
    /\ job = [ running |-> job.running, at |-> job.at, stop |-> job.stop,
               rows |-> job.rows, todo |-> job.todo ]
    /\ job.at \in Nat /\ job.stop \in Nat
    /\ syncPoint < job.at /\ job.at <= job.stop /\ job.stop <= Len(blocks)
    /\ job.rows \subseteq extractTransactions(blocks[job.at])
    /\ job.todo \in Seq(ToSet(Calls(job.at)))
    /\ Len(job.todo) <= Len(Calls(job.at))
    /\ \A j \in DOMAIN job.todo :
          job.todo[j] = Calls(job.at)[Len(Calls(job.at)) - Len(job.todo) + j]

Typed ==
    /\ blocks \in Seq(ToSet(blocks))
    /\ \A b \in DOMAIN blocks : Finalized(blocks[b]) /\ TellsOneVote(blocks[b])
    /\ chain \in Chain
    /\ OneVoteEach(chain)
    /\ syncPoint \in 0 .. Len(blocks)
    /\ job = Idle \/ Running
    /\ votes \in [VoteId -> Vote \union { NoVote }]
    /\ selection \in [Locs \X Issuers -> Selection]
    /\ pending \subseteq Write
    /\ drops \in 0 .. MaxDrops
    /\ unsure \subseteq Issuers

\* where the job is, or would begin: what it did of which block
At   == IF job.running THEN job.at ELSE syncPoint + 1
Upto == IF job.running THEN Len(Calls(job.at)) - Len(job.todo) ELSE 0

\* the k-th call of block b is applied, by this job or before the sync point
Done(b, k) == b < At \/ (b = At /\ k <= Upto)

-----------------------------------------------------------------------------
(***************************************************************************)
(* Selections.                                                             *)
(***************************************************************************)

\* a call that changes whether the issuer is shown as selected for the LOC
tells(x, l, i) ==
    /\ isIssuerCall(x) /\ x.call.issuer = i
    /\ \/ x.call.method = "dismissIssuer"
       \/ x.call.method = "setIssuerSelection" /\ x.signer = l

selects(x) == x.call.method = "setIssuerSelection" /\ x.call.selected

\* ... and whether it is selected on chain
own(x, l, i) == tells(x, l, i) /\ x.signer = l

After(c, j, b, k) == b < c \/ (b = c /\ k < j)

concerns(w, l, i) == w.issuer = i /\ w.loc \in { None, l }

\* what the row will show when the pending writes are done
shown(l, i) ==
    IF \E w \in pending : concerns(w, l, i)
    THEN \E w \in pending : concerns(w, l, i) /\ w.loc # None /\ w.selected
    ELSE selection[<< l, i >>] = TRUE

OneWrite ==
    \A v, w \in pending : v.issuer = w.issuer /\ v.issuer \notin unsure => v = w

\* the last call that tells of the issuer and the LOC selects
LastSelects(l, i) ==
    \E b \in DOMAIN blocks : \E k \in DOMAIN Calls(b) :
        /\ tells(Calls(b)[k], l, i) /\ selects(Calls(b)[k])
        /\ \A c \in DOMAIN blocks : \A j \in DOMAIN Calls(c) :
              tells(Calls(c)[j], l, i) => ~After(c, j, b, k)

LastOwnSelects(l, i) ==
    \E b \in DOMAIN blocks : \E k \in DOMAIN Calls(b) :
        /\ own(Calls(b)[k], l, i) /\ selects(Calls(b)[k])
        /\ \A c \in DOMAIN blocks : \A j \in DOMAIN Calls(c) :
              own(Calls(c)[j], l, i) => ~After(c, j, b, k)

AllToldDone(l, i) ==
    \A b \in DOMAIN blocks : \A k \in DOMAIN Calls(b) : tells(Calls(b)[k], l, i) => Done(b, k)

ShownFollows ==
    \A l \in Locs, i \in Issuers \ unsure :
        AllToldDone(l, i) => (shown(l, i) <=> LastSelects(l, i))

ChainFollows ==
    \A l \in Locs, i \in Issuers : << l, i >> \in chain.selected <=> LastOwnSelects(l, i)

-----------------------------------------------------------------------------
(***************************************************************************)
(* Votes.                                                                  *)
(***************************************************************************)

outcomeOf(event) == IF event.approved THEN "APPROVED" ELSE "REJECTED"

CreationsTold ==
    /\ \A b \in DOMAIN blocks : Created(blocks[b]) =>
          /\ of(blocks[b]) \in DOMAIN chain.votes
          /\ chain.votes[of(blocks[b])].loc = blocks[b].signer
    /\ \A v \in DOMAIN chain.votes : \E b \in DOMAIN blocks : Created(blocks[b]) /\ of(blocks[b]) = v

BallotsTold ==
    /\ \A b \in DOMAIN blocks : Cast(blocks[b]) =>
          LET event == blocks[b].events[1]
          IN  /\ event.vote \in DOMAIN chain.votes
              /\ chain.votes[event.vote].ballots[event.voter] = event.result
              /\ event.closed => chain.votes[event.vote].status = outcomeOf(event)
              /\ \E a \in 1 .. b - 1 : Created(blocks[a]) /\ of(blocks[a]) = event.vote
    /\ \A v \in DOMAIN chain.votes, o \in Officers :
          chain.votes[v].ballots[o] # None =>
              \E b \in DOMAIN blocks : Cast(blocks[b]) /\ of(blocks[b]) = v /\ blocks[b].events[1].voter = o
    /\ \A v \in DOMAIN chain.votes :
          chain.votes[v].status # "PENDING" =>
              \E b \in DOMAIN blocks : Cast(blocks[b]) /\ of(blocks[b]) = v /\ blocks[b].events[1].closed

\* A ballot is cast once, a vote closed once, and both after its creation.
ToldOnce ==
    \A a, b \in DOMAIN blocks :
      Told(blocks[a]) /\ Cast(blocks[b]) /\ of(blocks[a]) = of(blocks[b]) =>
        /\ Created(blocks[a]) => a < b
        /\ Cast(blocks[a]) /\ blocks[a].events[1].voter = blocks[b].events[1].voter => a = b
        /\ Cast(blocks[a]) /\ blocks[a].events[1].closed /\ blocks[b].events[1].closed => a = b

VotesTold == ~severalVotesInBatch => CreationsTold /\ BallotsTold /\ ToldOnce

\* the call of block b about a vote is applied
Passed(b) == \A k \in DOMAIN Calls(b) : isVote(Calls(b)[k]) => Done(b, k)

\* A row holds nothing else than the vote of the chain.
RowsOfChain ==
    \A v \in VoteId : votes[v] # NoVote =>
        /\ v \in DOMAIN chain.votes
        /\ votes[v].loc = chain.votes[v].loc
        /\ \A o \in Officers :
              votes[v].ballots[o] # None => votes[v].ballots[o] = chain.votes[v].ballots[o]
        /\ votes[v].status # "PENDING" => votes[v].status = chain.votes[v].status

\* It holds what was told of it so far.
PassedInRows ==
    \A b \in DOMAIN blocks : Passed(b) =>
        LET event == blocks[b].events[1]
        IN  /\ Told(blocks[b]) => votes[event.vote] # NoVote
            /\ Cast(blocks[b]) =>
                  /\ votes[event.vote].ballots[event.voter] = event.result
                  /\ event.closed => votes[event.vote].status = outcomeOf(event)

\* A ballot is there before it closes the vote, and only a dropped job leaves
\* one that is to be told again.
BallotsInRows ==
    \A b \in DOMAIN blocks : Cast(blocks[b]) /\ votes[of(blocks[b])] # NoVote =>
        LET event == blocks[b].events[1]
            vote  == votes[event.vote]
        IN  /\ event.closed /\ vote.status # "PENDING" => vote.ballots[event.voter] # None
            /\ drops = 0 /\ vote.ballots[event.voter] # None => Passed(b)

VotesRecorded == ~severalVotesInBatch => RowsOfChain /\ PassedInRows /\ BallotsInRows

-----------------------------------------------------------------------------
(***************************************************************************)
(* Transactions.                                                           *)
(***************************************************************************)

RowsExtracted ==
    \A t \in transactions :
        /\ t = [block |-> t.block, attempt |-> t.attempt, row |-> t.row]
        /\ t.block \in DOMAIN blocks /\ t.attempt \in 0 .. drops
        /\ t.row \in extractTransactions(blocks[t.block])

\* row r of block b is saved, by this job or before the sync point
Saved(b, r) == b < At \/ (job.running /\ b = At /\ r \notin job.rows)

RowsStored ==
    \A b \in DOMAIN blocks : \A r \in extractTransactions(blocks[b]) :
        Saved(b, r) => \E t \in transactions : t.block = b /\ t.row = r

Inv ==
    /\ Typed /\ OneWrite /\ ShownFollows /\ ChainFollows
    /\ VotesTold /\ VotesRecorded
    /\ RowsExtracted /\ RowsStored

-----------------------------------------------------------------------------
(***************************************************************************)
(* Extremes of finite sets, and sequences that grow.                       *)
(***************************************************************************)

LEMMA Least ==
    ASSUME NEW S \in SUBSET Nat, S # {}
    PROVE  \E x \in S : \A y \in S : x <= y
<1>1. \E x \in S : \A y \in S : << y, x >> \notin OpToRel(<, Nat)
  BY NatLessThanWellFounded, WFMin
<1>2. \A x, y \in Nat : << y, x >> \notin OpToRel(<, Nat) => x <= y
  BY DEF OpToRel
<1> QED  BY <1>1, <1>2

LEMMA Greatest ==
    ASSUME NEW n \in Nat, NEW S \in SUBSET (0 .. n), S # {}
    PROVE  \E x \in S : \A y \in S : x >= y
<1> DEFINE T == { n - x : x \in S }
<1>1. T \in SUBSET Nat /\ T # {}
  <2>1. \A x \in S : n - x \in Nat
    OBVIOUS
  <2>2. PICK x \in S : TRUE
    OBVIOUS
  <2>3. n - x \in T
    OBVIOUS
  <2> QED  BY <2>1, <2>3
<1> HIDE DEF T
<1>2. PICK x \in T : \A y \in T : x <= y
  BY <1>1, Least
<1>3. PICK m \in S : x = n - m
  BY DEF T
<1>4. \A y \in S : n - y \in T
  BY DEF T
<1>5. \A y \in S : x <= n - y
  BY <1>2, <1>4
<1>6. \A y \in S : m >= y
  BY <1>3, <1>5
<1> WITNESS m \in S
<1> QED  BY <1>6

LEMMA Extremes ==
    ASSUME NEW n \in Nat, NEW S \in SUBSET (1 .. n), S # {}
    PROVE  /\ Min(S) \in S /\ Max(S) \in S
           /\ \A y \in S : Min(S) <= y /\ y <= Max(S)
<1>1. \E x \in S : \A y \in S : x <= y
  BY Least
<1>2. \E x \in S : \A y \in S : x >= y
  <2>1. S \in SUBSET (0 .. n)
    OBVIOUS
  <2> QED  BY <2>1, Greatest
<1> QED  BY <1>1, <1>2 DEF Min, Max

LEMMA Appended ==
    ASSUME NEW s, s \in Seq(ToSet(s)), NEW x
    PROVE  LET t == Append(s, x)
           IN  /\ t \in Seq(ToSet(t))
               /\ Len(t) = Len(s) + 1 /\ Len(s) \in Nat
               /\ DOMAIN s = 1 .. Len(s) /\ DOMAIN t = 1 .. Len(s) + 1
               /\ \A i \in DOMAIN s : t[i] = s[i]
               /\ t[Len(s) + 1] = x
<1> DEFINE t == Append(s, x)
<1> DEFINE S == ToSet(s) \union { x }
<1>1. s \in Seq(S) /\ x \in S
  BY DEF ToSet
<1>2. /\ t \in Seq(S) /\ Len(t) = Len(s) + 1 /\ Len(s) \in Nat
      /\ DOMAIN s = 1 .. Len(s) /\ DOMAIN t = 1 .. Len(s) + 1
      /\ \A i \in DOMAIN s : t[i] = s[i]
      /\ t[Len(s) + 1] = x
  BY <1>1
<1>3. t \in Seq(ToSet(t))
  BY <1>2 DEF ToSet
<1> QED
  BY <1>2, <1>3

-----------------------------------------------------------------------------
(***************************************************************************)
(* The calls of an extrinsic.                                              *)
(***************************************************************************)

\* x is the call, with what the extrinsic around it tells
IsCallOf(x, e, call) == x.call = call /\ x.signer = e.signer /\ x.events = e.events

Alone(e, u) ==
    /\ Len(u) = 1 /\ IsCallOf(u[1], e, e.call) /\ (u[1].failed <=> error(e))
    /\ ~\E a, b \in OfficerCalls : e.failure = "none" /\ e.call = batchAll(a, b)

InBatch(e, u) ==
    /\ e.failure = "none" /\ Len(u) = 3
    /\ \E a, b \in OfficerCalls :
          /\ e.call = batchAll(a, b)
          /\ IsCallOf(u[1], e, e.call)
          /\ IsCallOf(u[2], e, a) /\ ~u[2].failed
          /\ IsCallOf(u[3], e, b) /\ ~u[3].failed

\* An extrinsic is one call, or a batch and its two calls.
LEMMA Unwrapped ==
    ASSUME NEW e, Finalized(e)
    PROVE  LET u == unwrapExtrinsics(e)
           IN  /\ u \in Seq(ToSet(u)) /\ DOMAIN u = 1 .. Len(u) /\ Len(u) \in Nat
               /\ Alone(e, u) \/ InBatch(e, u)
<1> DEFINE u == unwrapExtrinsics(e)
<1>1. CASE \E a, b \in OfficerCalls : e.failure = "none" /\ e.call = batchAll(a, b)
  <2>1. PICK a, b \in OfficerCalls : e.failure = "none" /\ e.call = batchAll(a, b)
    BY <1>1
  <2>2. /\ ~error(e) /\ e.call.section = "utility" /\ e.call.method = "batchAll"
        /\ e.call.calls = << a, b >>
    BY <2>1 DEF batchAll, error
  <2> DEFINE inner(c) == [extrinsic(e, c) EXCEPT !.failed = FALSE]
  <2> DEFINE f == [k \in 1 .. 2 |-> inner(<< a, b >>[k])]
  <2>3. \A c : IsCallOf(extrinsic(e, c), e, c) /\ IsCallOf(inner(c), e, c) /\ ~inner(c).failed
    BY DEF extrinsic, IsCallOf
  <2>4. u = << extrinsic(e, e.call) >> \o f
    <3>1. DOMAIN << a, b >> = 1 .. 2
      OBVIOUS
    <3> QED
      BY <2>2, <3>1 DEF unwrapExtrinsics
  <2>5. f[1] = inner(a) /\ f[2] = inner(b)
    <3> HIDE DEF inner
    <3> QED  OBVIOUS
  <2> DEFINE S == { extrinsic(e, e.call), inner(a), inner(b) }
  <2>6. f \in Seq(S) /\ Len(f) = 2 /\ << extrinsic(e, e.call) >> \in Seq(S) /\ Len(<< extrinsic(e, e.call) >>) = 1
    <3> HIDE DEF inner
    <3> QED  OBVIOUS
  <2>7. /\ u \in Seq(S) /\ Len(u) = 3
        /\ u[1] = extrinsic(e, e.call) /\ u[2] = inner(a) /\ u[3] = inner(b)
    <3> HIDE DEF inner, f, S
    <3> DEFINE g == << extrinsic(e, e.call) >>
    <3>1. g[1] = extrinsic(e, e.call)
      OBVIOUS
    <3>2. u = g \o f /\ g \in Seq(S) /\ Len(g) = 1
      BY <2>4, <2>6
    <3> HIDE DEF g, u
    <3>3. /\ u \in Seq(S) /\ Len(u) = 3
          /\ \A i \in 1 .. 3 : u[i] = IF i <= 1 THEN g[i] ELSE f[i - 1]
      BY <2>6, <3>2, ConcatProperties
    <3> QED
      BY <2>5, <3>1, <3>3
  <2> HIDE DEF inner, f, u
  <2>8. InBatch(e, u)
    BY <2>1, <2>3, <2>7 DEF InBatch
  <2>9. u \in Seq(ToSet(u)) /\ DOMAIN u = 1 .. Len(u)
    BY <2>7 DEF ToSet
  <2> QED
    BY <2>7, <2>8, <2>9 DEF u
<1>2. CASE e.failure = "module" \/ e.call.section # "utility" \/ e.call.method # "batchAll"
  <2>1. u = << extrinsic(e, e.call) >> \o << >>
    BY <1>2, Zenon DEF unwrapExtrinsics, error
  <2>2. u = << extrinsic(e, e.call) >>
    BY <2>1
  <2>3. ~\E a, b \in OfficerCalls : e.failure = "none" /\ e.call = batchAll(a, b)
    <3>1. \A a, b : batchAll(a, b).section = "utility" /\ batchAll(a, b).method = "batchAll"
      BY DEF batchAll
    <3> QED
      BY <1>2, <3>1
  <2> QED
    BY <2>2, <2>3 DEF Alone, ToSet, extrinsic, IsCallOf
<1>3. \A c \in OfficerCalls : c.section # "utility"
  BY DEF OfficerCalls, VoteCalls, CreateVote, CastVote, IssuerCalls
<1>4. Accepted(e) => <1>1!1 \/ <1>2!1
  BY <1>3 DEF Accepted
<1>5. Refused(e) => <1>2!1
  BY <1>3 DEF Refused, Batch
<1>6. Charging(e) => <1>2!1
  BY DEF Charging, Other, Transfers, Recovered, Approvals
<1> QED
  BY <1>1, <1>2, <1>4, <1>5, <1>6 DEF Finalized

\* What the recorded calls of an extrinsic are.
LEMMA CallsUnwrapped ==
    ASSUME NEW e, Finalized(e), NEW k \in DOMAIN unwrapExtrinsics(e)
    PROVE  LET x == unwrapExtrinsics(e)[k]
           IN  /\ x.signer = e.signer /\ x.events = e.events
               /\ isIssuerCall(x) => Accepted(e) /\ x.call \in IssuerCalls
               /\ isVote(x) => x.call \in VoteCalls /\ (Accepted(e) \/ (e.failure = "other" /\ e.events = << >>))
               /\ Accepted(e) /\ x.call \in IssuerCalls => isIssuerCall(x)
               /\ Accepted(e) /\ x.call \in VoteCalls => isVote(x)
<1> DEFINE u == unwrapExtrinsics(e)
<1>1. DOMAIN u = 1 .. Len(u) /\ (Alone(e, u) \/ InBatch(e, u))
  BY Unwrapped
<1> DEFINE x == u[k]
<1>2. IsCallOf(x, e, x.call)
  BY <1>1 DEF Alone, InBatch, IsCallOf
<1> SUFFICES /\ isIssuerCall(x) => Accepted(e) /\ x.call \in IssuerCalls
             /\ isVote(x) => x.call \in VoteCalls /\ (Accepted(e) \/ (e.failure = "other" /\ e.events = << >>))
             /\ Accepted(e) /\ x.call \in IssuerCalls => isIssuerCall(x)
             /\ Accepted(e) /\ x.call \in VoteCalls => isVote(x)
  BY <1>2 DEF IsCallOf
<1>3. \A c \in OfficerCalls : \/ c \in VoteCalls /\ c.section = "vote"
                              \/ c \in IssuerCalls /\ c.section = "logionLoc"
  BY DEF OfficerCalls, VoteCalls, CreateVote, CastVote, IssuerCalls
<1>4. \A c \in VoteCalls : c.section = "vote" /\ c.method \in { "createVoteForAllLegalOfficers", "vote" }
  BY DEF VoteCalls, CreateVote, CastVote
<1>5. \A c \in IssuerCalls : c.section = "logionLoc" /\ c.method \in { "nominateIssuer", "dismissIssuer", "setIssuerSelection" }
  BY DEF IssuerCalls
<1>6. CASE x.call \in OfficerCalls /\ Accepted(e) /\ ~x.failed
  BY <1>2, <1>3, <1>4, <1>5, <1>6
     DEF isIssuerCall, isVote, isCreation, isBallot, isCall, IsCallOf, Accepted
<1>7. CASE x.call \in OfficerCalls /\ e.failure = "other" /\ e.signer \notin Officers /\ e.events = << >>
  BY <1>2, <1>3, <1>4, <1>5, <1>7
     DEF isIssuerCall, isVote, isCreation, isBallot, isCall, IsCallOf, Accepted
<1>8. CASE x.failed /\ ~Accepted(e)
  BY <1>8 DEF isIssuerCall, isVote, isCreation, isBallot, isCall
<1>9. CASE /\ x.call.section # "vote"
           /\ x.call.section # "logionLoc" \/ x.call.method = "createLoc"
  BY <1>4, <1>5, <1>9 DEF isIssuerCall, isVote, isCreation, isBallot, isCall
<1>10. InBatch(e, u) => <1>6!1 \/ <1>9!1
  <2> SUFFICES ASSUME InBatch(e, u), k # 1 PROVE <1>6!1
    BY <1>1 DEF InBatch, batchAll, IsCallOf
  <2>1. x.call \in OfficerCalls /\ ~x.failed
    BY <1>1 DEF InBatch, IsCallOf
  <2>2. ~Charging(e) /\ ~Refused(e)
    BY <1>3 DEF InBatch, Charging, Refused, Other, Transfers, Recovered, Approvals, batchAll, Batch
  <2> QED
    BY <2>1, <2>2 DEF Finalized
<1>11. Alone(e, u) => <1>6!1 \/ <1>7!1 \/ <1>8!1 \/ <1>9!1
  <2> SUFFICES ASSUME Alone(e, u) PROVE <1>6!1 \/ <1>7!1 \/ <1>8!1 \/ <1>9!1
    OBVIOUS
  <2>1. x.call = e.call /\ (x.failed <=> e.failure = "module")
    BY <1>1 DEF Alone, IsCallOf, error
  <2>2. CASE Accepted(e)
    <3>1. ~x.failed
      BY <2>1, <2>2 DEF Accepted
    <3>2. CASE e.call \in OfficerCalls
      BY <2>1, <2>2, <3>1, <3>2
    <3>3. CASE \E a, b \in OfficerCalls : e.call = batchAll(a, b)
      BY <2>1, <3>3 DEF batchAll
    <3> QED
      BY <2>2, <3>2, <3>3 DEF Accepted
  <2>3. CASE Refused(e)
    <3>1. CASE e.failure = "module"
      BY <2>1, <3>1 DEF Accepted
    <3>2. CASE e.failure = "other"
      BY <2>1, <2>3, <3>2 DEF Refused
    <3>3. CASE e.call = Batch
      BY <2>1, <3>3 DEF Batch
    <3> QED
      BY <2>3, <3>1, <3>2, <3>3 DEF Refused
  <2>4. CASE Charging(e)
    BY <2>1, <2>4 DEF Charging, Other, Transfers, Recovered, Approvals
  <2> QED
    BY <2>2, <2>3, <2>4 DEF Finalized
<1> QED
  BY <1>1, <1>6, <1>7, <1>8, <1>9, <1>10, <1>11

-----------------------------------------------------------------------------
(***************************************************************************)
(* What the chain accepts.                                                 *)
(***************************************************************************)

\* An officer has one vote: the votes are at most as many as the officers.
LEMMA VotesFit ==
    ASSUME NEW c \in Chain, OneVoteEach(c)
    PROVE  DOMAIN c.votes = 1 .. Len(c.votes) /\ Len(c.votes) \in Nat /\ DOMAIN c.votes \subseteq VoteId
<1> DEFINE n == Len(c.votes)
<1> DEFINE f == [v \in 1 .. n |-> c.votes[v].loc]
<1>1. n \in Nat /\ DOMAIN c.votes = 1 .. n /\ \A v \in 1 .. n : c.votes[v] \in Vote
  BY DEF Chain
<1>2. f \in Injection(1 .. n, Locs)
  BY <1>1 DEF Injection, IsInjective, OneVoteEach, Vote
<1>3. IsFiniteSet(Locs) /\ Cardinality(Locs) \in Nat
  BY ConstantsAssumption, FS_CardinalityType DEF Locs
<1>4. Cardinality(1 .. n) = n
  BY <1>1, FS_Interval
<1>5. Cardinality(1 .. n) <= Cardinality(Locs)
  BY <1>2, <1>3, FS_Injection
<1> QED
  BY <1>1, <1>3, <1>4, <1>5 DEF VoteId

\* d is c after an officer's call, which left the events es
VoteAdded(c, d, o, es) ==
    /\ d.votes = Append(c.votes, newVote(o))
    /\ Len(es) = 1 /\ es[1].method = "VoteCreated" /\ es[1].vote = Len(c.votes) + 1
    /\ \A v \in DOMAIN c.votes : c.votes[v].loc # o

BallotAdded(c, d, o, es) ==
    LET event == es[1]
        v     == event.vote
    IN  /\ Len(es) = 1 /\ event.method = "VoteUpdated"
        /\ v \in DOMAIN c.votes /\ c.votes[v].status = "PENDING" /\ c.votes[v].ballots[o] = None
        /\ event.voter = o /\ event.result \in VoteResult
        /\ d.votes = [c.votes EXCEPT ![v] =
              [ loc     |-> c.votes[v].loc,
                status  |-> IF event.closed THEN outcomeOf(event) ELSE "PENDING",
                ballots |-> [c.votes[v].ballots EXCEPT ![o] = event.result] ]]

VotesSame(c, d, es) == d.votes = c.votes /\ es = << >>

\* the issuers that d selects after the call, given those of c
Selects(c, d, o, a) ==
    \A l \in Locs, i \in Issuers :
        << l, i >> \in d.selected <=>
            IF l = o /\ i = a.issuer /\ a.method # "nominateIssuer"
            THEN a.method = "setIssuerSelection" /\ a.selected
            ELSE << l, i >> \in c.selected

GoodChain(c) == c \in Chain /\ OneVoteEach(c)

LEMMA ChainWithVotes ==
    ASSUME NEW c \in Chain, NEW s \in Seq(Vote)
    PROVE  LET d == [c EXCEPT !.votes = s]
           IN  d \in Chain /\ d.votes = s /\ d.selected = c.selected
  BY DEF Chain

LEMMA Creating ==
    ASSUME NEW c, GoodChain(c), NEW o \in Officers, NEW x \in createdVotes(c, o)
    PROVE  /\ GoodChain(x.chain) /\ x.events \in Seq(VoteEvent)
           /\ VoteAdded(c, x.chain, o, x.events)
           /\ x.chain.selected = c.selected
<1> DEFINE n == Len(c.votes)
<1> DEFINE ev == [method |-> "VoteCreated", vote |-> n + 1]
<1>1. /\ \A v \in DOMAIN c.votes : c.votes[v].loc # o
      /\ x = [chain |-> [c EXCEPT !.votes = Append(c.votes, newVote(o))], events |-> << ev >>]
  BY DEF createdVotes
<1> DEFINE d == [c EXCEPT !.votes = Append(c.votes, newVote(o))]
<1>2. newVote(o) \in Vote /\ newVote(o).loc = o
  BY DEF newVote, Vote, Locs, VoteStatus, Ballots
<1>3. n \in Nat /\ DOMAIN c.votes = 1 .. n /\ c.votes \in Seq(Vote)
  BY DEF GoodChain, Chain
<1> HIDE DEF n
<1>4. d.votes = Append(c.votes, newVote(o)) /\ d.selected = c.selected /\ d \in Chain
  <2>1. Append(c.votes, newVote(o)) \in Seq(Vote)
    BY <1>2, <1>3
  <2> QED
    BY <2>1, ChainWithVotes DEF GoodChain
<1> HIDE DEF d
<1>5. /\ DOMAIN d.votes = 1 .. n + 1
      /\ \A v \in 1 .. n : d.votes[v] = c.votes[v]
      /\ d.votes[n + 1] = newVote(o)
  BY <1>2, <1>3, <1>4 DEF n
<1>6. OneVoteEach(d)
  <2> SUFFICES ASSUME NEW v \in 1 .. n + 1, NEW w \in 1 .. n + 1, d.votes[v].loc = d.votes[w].loc
               PROVE  v = w
    BY <1>5 DEF OneVoteEach
  <2>1. \A u \in 1 .. n : d.votes[u].loc # o
    BY <1>1, <1>3, <1>5
  <2>2. CASE v \in 1 .. n /\ w \in 1 .. n
    BY <1>3, <1>5, <2>2 DEF OneVoteEach, GoodChain
  <2> QED
    BY <1>2, <1>3, <1>5, <2>1, <2>2
<1>7. n + 1 \in VoteId
  BY <1>3, <1>4, <1>5, <1>6, VotesFit
<1>8. ev \in VoteEvent
  BY <1>7 DEF VoteEvent
<1>9. << ev >> \in Seq(VoteEvent) /\ Len(<< ev >>) = 1 /\ << ev >>[1] = ev
  <2> HIDE DEF ev
  <2> QED  BY <1>8
<1>10. x.chain = d /\ x.events = << ev >>
  BY <1>1 DEF d
<1> HIDE DEF ev
<1>11. VoteAdded(c, d, o, << ev >>)
  BY <1>1, <1>4, <1>9 DEF VoteAdded, ev, n
<1> QED
  BY <1>4, <1>6, <1>9, <1>10, <1>11 DEF GoodChain

LEMMA VoteWith ==
    ASSUME NEW r \in Vote, NEW o, NEW result, NEW status
    PROVE  withBallot(r, o, result, status)
             = [ loc |-> r.loc, status |-> status, ballots |-> [r.ballots EXCEPT ![o] = result] ]
<1> DEFINE b == [r.ballots EXCEPT ![o] = result]
<1> DEFINE l == r.loc
<1> DEFINE q == [r EXCEPT !.ballots = b]
<1>1. withBallot(r, o, result, status) = [q EXCEPT !.status = status]
  BY DEF withBallot
<1>2. q = [ loc |-> l, status |-> r.status, ballots |-> b ]
  <2> HIDE DEF b
  <2> QED  BY DEF Vote
<1> HIDE DEF b, l, q
<1>3. [q EXCEPT !.status = status] = [ loc |-> l, status |-> status, ballots |-> b ]
  BY <1>2
<1> QED
  BY <1>1, <1>3 DEF b, l

LEMMA Casting ==
    ASSUME NEW c, GoodChain(c), NEW o \in Officers, NEW x \in castVotes(c, o)
    PROVE  /\ GoodChain(x.chain) /\ x.events \in Seq(VoteEvent)
           /\ BallotAdded(c, x.chain, o, x.events)
           /\ x.chain.selected = c.selected
<1>1. PICK y \in [v : DOMAIN c.votes, result : VoteResult, status : VoteStatus] :
        /\ c.votes[y.v].status = "PENDING" /\ c.votes[y.v].ballots[o] = None
        /\ x = [chain |-> [c EXCEPT !.votes[y.v] = withBallot(@, o, y.result, y.status)],
                events |-> << [method |-> "VoteUpdated", vote |-> y.v, voter |-> o, result |-> y.result,
                               closed |-> y.status # "PENDING", approved |-> y.status = "APPROVED"] >>]
  BY DEF castVotes
<1> DEFINE ev == [method |-> "VoteUpdated", vote |-> y.v, voter |-> o, result |-> y.result,
                  closed |-> y.status # "PENDING", approved |-> y.status = "APPROVED"]
<1> DEFINE d == [c EXCEPT !.votes[y.v] = withBallot(@, o, y.result, y.status)]
<1> DEFINE w == [ loc |-> c.votes[y.v].loc, status |-> y.status,
                  ballots |-> [c.votes[y.v].ballots EXCEPT ![o] = y.result] ]
<1>2. y.v \in DOMAIN c.votes /\ y.result \in VoteResult /\ y.status \in VoteStatus
  OBVIOUS
<1>3. c.votes \in Seq(Vote) /\ c.votes[y.v] \in Vote
  BY <1>2 DEF GoodChain, Chain
<1>4. w \in Vote
  BY <1>2, <1>3 DEF Vote, Ballots
<1>5. withBallot(c.votes[y.v], o, y.result, y.status) = w
  BY <1>3, VoteWith
<1>6. d = [c EXCEPT !.votes = [c.votes EXCEPT ![y.v] = w]]
  <2> DEFINE r == withBallot(c.votes[y.v], o, y.result, y.status)
  <2>1. d = [c EXCEPT !.votes = [c.votes EXCEPT ![y.v] = r]]
    OBVIOUS
  <2> QED
    BY <1>5, <2>1
<1>7. [c.votes EXCEPT ![y.v] = w] \in Seq(Vote)
  <2> HIDE DEF w
  <2> QED  BY <1>2, <1>3, <1>4
<1>8. d \in Chain /\ d.votes = [c.votes EXCEPT ![y.v] = w] /\ d.selected = c.selected
  <2> HIDE DEF d, w
  <2> QED  BY <1>6, <1>7, ChainWithVotes DEF GoodChain
<1>9. OneVoteEach(d)
  BY <1>2, <1>3, <1>8 DEF OneVoteEach, GoodChain
<1>10. y.v \in VoteId
  BY <1>2, VotesFit DEF GoodChain
<1>11. ev \in VoteEvent
  BY <1>2, <1>10 DEF VoteEvent
<1>12. << ev >> \in Seq(VoteEvent) /\ Len(<< ev >>) = 1 /\ << ev >>[1] = ev
  <2> HIDE DEF ev
  <2> QED  BY <1>11
<1>13. y.status = IF ev.closed THEN outcomeOf(ev) ELSE "PENDING"
  BY <1>2 DEF outcomeOf, VoteStatus
<1>14. x.chain = d /\ x.events = << ev >>
  BY <1>1
<1>15. BallotAdded(c, d, o, << ev >>)
  <2>1. ev.method = "VoteUpdated" /\ ev.vote = y.v /\ ev.voter = o /\ ev.result = y.result
    OBVIOUS
  <2> HIDE DEF ev, d
  <2> QED
    BY <1>1, <1>2, <1>8, <1>12, <1>13, <2>1 DEF BallotAdded
<1> HIDE DEF d, ev
<1> QED
  BY <1>8, <1>9, <1>12, <1>14, <1>15 DEF GoodChain

LEMMA ChangingIssuers ==
    ASSUME NEW c, GoodChain(c), NEW o \in Officers, NEW a \in IssuerCalls, NEW x \in issuerChanges(c, o, a)
    PROVE  /\ GoodChain(x.chain) /\ VotesSame(c, x.chain, x.events)
           /\ Selects(c, x.chain, o, a)
<1> DEFINE p == << o, a.issuer >>
<1>1. a.issuer \in Issuers /\ p \in Locs \X Issuers
  BY DEF IssuerCalls, Locs
<1>2. CASE a.method = "nominateIssuer"
  <2>1. x = [chain |-> [c EXCEPT !.nominated = @ \union { p }], events |-> << >>]
    BY <1>2 DEF issuerChanges
  <2>2. x.chain \in Chain /\ x.chain.votes = c.votes /\ x.chain.selected = c.selected
    BY <1>1, <2>1 DEF GoodChain, Chain
  <2>3. x.events = << >>
    BY <2>1
  <2>4. Selects(c, x.chain, o, a)
    BY <1>2, <2>2 DEF Selects
  <2> QED
    BY <2>2, <2>3, <2>4 DEF GoodChain, OneVoteEach, VotesSame
<1>3. CASE a.method = "dismissIssuer"
  <2>1. x = [chain |-> [c EXCEPT !.nominated = @ \ { p }, !.selected = @ \ { p }], events |-> << >>]
    BY <1>3 DEF issuerChanges
  <2>2. x.chain \in Chain /\ x.chain.votes = c.votes /\ x.chain.selected = c.selected \ { p }
    BY <1>1, <2>1 DEF GoodChain, Chain
  <2>3. x.events = << >>
    BY <2>1
  <2>4. Selects(c, x.chain, o, a)
    BY <1>3, <2>2 DEF Selects
  <2> QED
    BY <2>2, <2>3, <2>4 DEF GoodChain, OneVoteEach, VotesSame
<1>4. CASE a.method = "setIssuerSelection"
  <2>1. x = [chain |-> [c EXCEPT !.selected = IF a.selected THEN @ \union { p } ELSE @ \ { p }],
             events |-> << >>]
    BY <1>4 DEF issuerChanges
  <2>2. /\ x.chain \in Chain /\ x.chain.votes = c.votes
        /\ x.chain.selected = IF a.selected THEN c.selected \union { p } ELSE c.selected \ { p }
    BY <1>1, <2>1 DEF GoodChain, Chain
  <2>3. x.events = << >>
    BY <2>1
  <2>4. Selects(c, x.chain, o, a)
    BY <1>4, <2>2 DEF Selects
  <2> QED
    BY <2>2, <2>3, <2>4 DEF GoodChain, OneVoteEach, VotesSame
<1> QED
  BY <1>2, <1>3, <1>4 DEF IssuerCalls

\* what one call changes, and the events it leaves
Outcome(c, d, o, a, es) ==
    /\ GoodChain(d) /\ es \in Seq(VoteEvent)
    /\ \/ a = CreateVote /\ VoteAdded(c, d, o, es) /\ d.selected = c.selected
       \/ a = CastVote /\ BallotAdded(c, d, o, es) /\ d.selected = c.selected
       \/ a \in IssuerCalls /\ VotesSame(c, d, es) /\ Selects(c, d, o, a)

LEMMA Outcomes ==
    ASSUME NEW c, GoodChain(c), NEW o \in Officers, NEW a \in OfficerCalls, NEW x \in outcomes(c, o, a)
    PROVE  Outcome(c, x.chain, o, a, x.events)
<1>1. CreateVote # CastVote /\ CreateVote \notin IssuerCalls /\ CastVote \notin IssuerCalls
  BY DEF CreateVote, CastVote, IssuerCalls
<1>2. CASE a = CreateVote
  <2>1. x \in createdVotes(c, o)
    BY <1>1, <1>2 DEF outcomes
  <2> QED
    BY <1>2, <2>1, Creating DEF Outcome
<1>3. CASE a = CastVote
  <2>1. x \in castVotes(c, o)
    BY <1>1, <1>3 DEF outcomes
  <2> QED
    BY <1>3, <2>1, Casting DEF Outcome
<1>4. CASE a \in IssuerCalls
  <2>1. x \in issuerChanges(c, o, a)
    BY <1>1, <1>4 DEF outcomes
  <2>2. << >> \in Seq(VoteEvent)
    OBVIOUS
  <2> QED
    BY <1>4, <2>1, <2>2, ChangingIssuers DEF Outcome, VotesSame
<1> QED
  BY <1>2, <1>3, <1>4 DEF OfficerCalls, VoteCalls

\* the selections of the chain after the calls of an extrinsic
SelectedAfter(u, c, d) ==
    \A l \in Locs, i \in Issuers :
       << l, i >> \in d.selected <=>
         \/ \E k \in DOMAIN u : /\ own(u[k], l, i) /\ selects(u[k])
                                /\ \A j \in DOMAIN u : own(u[j], l, i) => j <= k
         \/ << l, i >> \in c.selected /\ \A k \in DOMAIN u : ~own(u[k], l, i)

\* the votes of the chain after it
VoteStep(e, c, d) ==
    ~(Cardinality(voteCalls(e)) > 1) =>
        \/ d.votes = c.votes /\ ~Told(e)
        \/ VoteAdded(c, d, e.signer, e.events)
        \/ BallotAdded(c, d, e.signer, e.events)

Step(e, c, d) ==
    /\ Finalized(e) /\ GoodChain(d) /\ TellsOneVote(e)
    /\ SelectedAfter(unwrapExtrinsics(e), c, d) /\ VoteStep(e, c, d)

\* the call decides on the selection of the officer's own issuers
Decides(a, o, l, i) == a \in IssuerCalls /\ l = o /\ i = a.issuer /\ a.method # "nominateIssuer"

LEMMA Deciding ==
    ASSUME NEW e, Accepted(e), NEW k \in DOMAIN unwrapExtrinsics(e),
           NEW l \in Locs, NEW i \in Issuers
    PROVE  LET x == unwrapExtrinsics(e)[k]
           IN  own(x, l, i) <=> Decides(x.call, e.signer, l, i)
<1> DEFINE x == unwrapExtrinsics(e)[k]
<1>1. /\ x.signer = e.signer
      /\ isIssuerCall(x) => x.call \in IssuerCalls
      /\ x.call \in IssuerCalls => isIssuerCall(x)
  BY CallsUnwrapped DEF Finalized
<1>2. \A a \in IssuerCalls : a.method \in { "nominateIssuer", "dismissIssuer", "setIssuerSelection" }
  BY DEF IssuerCalls
<1> QED
  BY <1>1, <1>2 DEF own, tells, Decides

LEMMA OutcomeSelects ==
    ASSUME NEW c, NEW d, NEW o, NEW a, NEW es, Outcome(c, d, o, a, es),
           NEW l \in Locs, NEW i \in Issuers
    PROVE  << l, i >> \in d.selected <=>
             IF Decides(a, o, l, i) THEN a.method = "setIssuerSelection" /\ a.selected
             ELSE << l, i >> \in c.selected
<1>1. CreateVote \notin IssuerCalls /\ CastVote \notin IssuerCalls
  BY DEF CreateVote, CastVote, IssuerCalls
<1> QED
  BY <1>1 DEF Outcome, Selects, Decides

LEMMA AcceptedAlone ==
    ASSUME NEW c, GoodChain(c), NEW o \in Officers, NEW a \in OfficerCalls, NEW x \in outcomes(c, o, a)
    PROVE  Step(ExtrinsicBuilder(a, o, x.events, "none"), c, x.chain)
<1> DEFINE e == ExtrinsicBuilder(a, o, x.events, "none")
<1> DEFINE u == unwrapExtrinsics(e)
<1> DEFINE d == x.chain
<1>1. Outcome(c, d, o, a, x.events)
  BY Outcomes
<1>2. e.call = a /\ e.signer = o /\ e.events = x.events /\ e.failure = "none"
  BY DEF ExtrinsicBuilder
<1> HIDE DEF e
<1>3. Accepted(e) /\ Finalized(e)
  BY <1>1, <1>2 DEF Accepted, Finalized, Outcome
<1>4. a.section # "utility"
  BY DEF OfficerCalls, VoteCalls, CreateVote, CastVote, IssuerCalls
<1>5. Alone(e, u) /\ DOMAIN u = { 1 }
  <2>1. ~InBatch(e, u)
    BY <1>2, <1>4 DEF InBatch, batchAll
  <2> QED
    BY <1>3, <2>1, Unwrapped DEF Alone
<1>6. u[1].call = a
  BY <1>2, <1>5 DEF Alone, IsCallOf
<1>7. SelectedAfter(u, c, d)
  <2>1. \A l \in Locs, i \in Issuers : own(u[1], l, i) <=> Decides(a, o, l, i)
    BY <1>2, <1>3, <1>5, <1>6, Deciding
  <2> HIDE DEF u
  <2> SUFFICES ASSUME NEW l \in Locs, NEW i \in Issuers
               PROVE  << l, i >> \in d.selected <=>
                        \/ \E k \in DOMAIN u : /\ own(u[k], l, i) /\ selects(u[k])
                                               /\ \A j \in DOMAIN u : own(u[j], l, i) => j <= k
                        \/ << l, i >> \in c.selected /\ \A k \in DOMAIN u : ~own(u[k], l, i)
    BY DEF SelectedAfter
  <2>2. << l, i >> \in d.selected <=> \/ own(u[1], l, i) /\ selects(u[1])
                                      \/ << l, i >> \in c.selected /\ ~own(u[1], l, i)
    BY <1>1, <1>6, <2>1, OutcomeSelects DEF selects
  <2> QED
    BY <1>5, <2>2
<1>8. VoteStep(e, c, d)
  BY <1>1, <1>2 DEF Outcome, VoteStep, VotesSame, Told, Created, Cast
<1>9. TellsOneVote(e)
  <2>1. CreateVote.method = "createVoteForAllLegalOfficers" /\ CastVote.method = "vote"
    BY DEF CreateVote, CastVote
  <2>2. isCreation(u[1]) => a = CreateVote
    BY <1>3, <1>5, <1>6, <2>1, CallsUnwrapped DEF isVote, VoteCalls, isCreation, isCall
  <2>3. isBallot(u[1]) => a = CastVote
    BY <1>3, <1>5, <1>6, <2>1, CallsUnwrapped DEF isVote, VoteCalls, isBallot, isCall
  <2>4. a \in VoteCalls => isVote(u[1])
    BY <1>3, <1>5, <1>6, CallsUnwrapped
  <2>5. CreateVote \notin IssuerCalls /\ CastVote \notin IssuerCalls
    BY DEF CreateVote, CastVote, IssuerCalls
  <2>e. CreateVote # CastVote
    BY <2>1
  <2>f. /\ a = CreateVote => VoteAdded(c, d, o, x.events)
        /\ a = CastVote => BallotAdded(c, d, o, x.events)
    BY <1>1, <2>5, <2>e DEF Outcome
  <2>g. a = CreateVote => Created(e)
    BY <1>2, <2>f DEF VoteAdded, Created
  <2>h. a = CastVote => Cast(e)
    BY <1>2, <2>f DEF BallotAdded, Cast
  <2>6. (a = CreateVote => Created(e)) /\ (a = CastVote => Cast(e))
    BY <2>g, <2>h
  <2>7. Told(e) => a \in VoteCalls
    BY <1>1, <1>2 DEF Outcome, VotesSame, Told, Created, Cast, VoteCalls
  <2> HIDE DEF u
  <2> QED
    BY <1>5, <2>2, <2>3, <2>4, <2>6, <2>7 DEF TellsOneVote, u
<1> QED
  BY <1>1, <1>3, <1>7, <1>8, <1>9 DEF Step, Outcome, e

\* Two calls, of which one at most is about votes, have the events of that one.
LEMMA TwoOutcomes ==
    ASSUME NEW c, NEW m, NEW d, NEW o, NEW a \in OfficerCalls, NEW b \in OfficerCalls, NEW es, NEW fs,
           Outcome(c, m, o, a, es), Outcome(m, d, o, b, fs)
    PROVE  /\ es \o fs \in Seq(VoteEvent)
           /\ \/ a \in VoteCalls /\ b \in VoteCalls
              \/ a = CreateVote /\ b \in IssuerCalls /\ VoteAdded(c, d, o, es \o fs)
              \/ a = CastVote /\ b \in IssuerCalls /\ BallotAdded(c, d, o, es \o fs)
              \/ a \in IssuerCalls /\ b = CreateVote /\ VoteAdded(c, d, o, es \o fs)
              \/ a \in IssuerCalls /\ b = CastVote /\ BallotAdded(c, d, o, es \o fs)
              \/ a \in IssuerCalls /\ b \in IssuerCalls /\ d.votes = c.votes /\ es \o fs = << >>
<1>1. es \in Seq(VoteEvent) /\ fs \in Seq(VoteEvent)
  BY DEF Outcome
<1>2. /\ es \o fs \in Seq(VoteEvent)
      /\ es = << >> => es \o fs = fs
      /\ fs = << >> => es \o fs = es
  BY <1>1
<1>3. \/ a = CreateVote /\ VoteAdded(c, m, o, es)
      \/ a = CastVote /\ BallotAdded(c, m, o, es)
      \/ a \in IssuerCalls /\ m.votes = c.votes /\ es = << >>
  BY DEF Outcome, VotesSame
<1>4. \/ b = CreateVote /\ VoteAdded(m, d, o, fs)
      \/ b = CastVote /\ BallotAdded(m, d, o, fs)
      \/ b \in IssuerCalls /\ d.votes = m.votes /\ fs = << >>
  BY DEF Outcome, VotesSame
<1>5. CASE a \in IssuerCalls /\ m.votes = c.votes /\ es = << >>
  <2>1. CASE b = CreateVote /\ VoteAdded(m, d, o, fs)
    BY <1>2, <1>5, <2>1 DEF VoteAdded
  <2>2. CASE b = CastVote /\ BallotAdded(m, d, o, fs)
    BY <1>2, <1>5, <2>2 DEF BallotAdded
  <2>3. CASE b \in IssuerCalls /\ d.votes = m.votes /\ fs = << >>
    BY <1>2, <1>5, <2>3
  <2> QED
    BY <1>4, <2>1, <2>2, <2>3
<1>6. CASE b \in IssuerCalls /\ d.votes = m.votes /\ fs = << >>
  <2>1. CASE a = CreateVote /\ VoteAdded(c, m, o, es)
    BY <1>2, <1>6, <2>1 DEF VoteAdded
  <2>2. CASE a = CastVote /\ BallotAdded(c, m, o, es)
    BY <1>2, <1>6, <2>2 DEF BallotAdded
  <2> QED
    BY <1>3, <1>5, <2>1, <2>2
<1> QED
  BY <1>2, <1>3, <1>4, <1>5, <1>6 DEF VoteCalls

LEMMA AcceptedBatch ==
    ASSUME NEW c, GoodChain(c), NEW o \in Officers, NEW a \in OfficerCalls, NEW b \in OfficerCalls,
           NEW x \in batchOutcomes(c, o, a, b)
    PROVE  Step(ExtrinsicBuilder(batchAll(a, b), o, x.events, "none"), c, x.chain)
<1> DEFINE e == ExtrinsicBuilder(batchAll(a, b), o, x.events, "none")
<1> DEFINE u == unwrapExtrinsics(e)
<1> DEFINE d == x.chain
<1>1. PICK y \in outcomes(c, o, a) : \E z \in outcomes(y.chain, o, b) :
        x = [chain |-> z.chain, events |-> y.events \o z.events]
  BY DEF batchOutcomes
<1>2. PICK z \in outcomes(y.chain, o, b) : x = [chain |-> z.chain, events |-> y.events \o z.events]
  BY <1>1
<1> DEFINE m == y.chain
<1> DEFINE es == y.events
<1> DEFINE fs == z.events
<1>3. d = z.chain /\ x.events = es \o fs
  BY <1>2
<1>4. Outcome(c, m, o, a, es)
  BY Outcomes
<1>5. Outcome(m, d, o, b, fs)
  BY <1>3, <1>4, Outcomes DEF Outcome
<1>6. e.call = batchAll(a, b) /\ e.signer = o /\ e.events = es \o fs /\ e.failure = "none"
  BY <1>3 DEF ExtrinsicBuilder
<1> HIDE DEF e, d, m, es, fs
<1>7. es \o fs \in Seq(VoteEvent)
  BY <1>4, <1>5, TwoOutcomes
<1>8. Accepted(e) /\ Finalized(e)
  BY <1>6, <1>7 DEF Accepted, Finalized
<1>9. InBatch(e, u) /\ DOMAIN u = 1 .. 3
  <2>1. ~Alone(e, u)
    BY <1>6, Zenon DEF Alone
  <2> QED
    BY <1>8, <2>1, Unwrapped DEF InBatch
<1>10. u[2].call = a /\ u[3].call = b /\ u[1].call.section = "utility"
  BY <1>6, <1>9 DEF InBatch, IsCallOf, batchAll
<1> HIDE DEF u
<1>11. ~isIssuerCall(u[1]) /\ ~isVote(u[1])
  BY <1>10 DEF isIssuerCall, isVote, isCreation, isBallot, isCall
<1>12. SelectedAfter(u, c, d)
  <2> SUFFICES ASSUME NEW l \in Locs, NEW i \in Issuers
               PROVE  << l, i >> \in d.selected <=>
                        \/ \E k \in DOMAIN u : /\ own(u[k], l, i) /\ selects(u[k])
                                               /\ \A j \in DOMAIN u : own(u[j], l, i) => j <= k
                        \/ << l, i >> \in c.selected /\ \A k \in DOMAIN u : ~own(u[k], l, i)
    BY DEF SelectedAfter
  <2>1. ~own(u[1], l, i)
    BY <1>11 DEF own, tells
  <2>2. (own(u[2], l, i) <=> Decides(a, o, l, i)) /\ (own(u[3], l, i) <=> Decides(b, o, l, i))
    BY <1>6, <1>8, <1>9, <1>10, Deciding DEF u
  <2>3. << l, i >> \in m.selected <=> \/ own(u[2], l, i) /\ selects(u[2])
                                      \/ << l, i >> \in c.selected /\ ~own(u[2], l, i)
    BY <1>4, <1>10, <2>2, OutcomeSelects DEF selects
  <2>4. << l, i >> \in d.selected <=> \/ own(u[3], l, i) /\ selects(u[3])
                                      \/ << l, i >> \in m.selected /\ ~own(u[3], l, i)
    BY <1>5, <1>10, <2>2, OutcomeSelects DEF selects
  <2> HIDE DEF d
  <2> QED
    BY <1>9, <2>1, <2>3, <2>4
<1>13. ~(Cardinality(voteCalls(e)) > 1) => ~(a \in VoteCalls /\ b \in VoteCalls)
  <2> SUFFICES ASSUME a \in VoteCalls, b \in VoteCalls PROVE Cardinality(voteCalls(e)) = 2
    OBVIOUS
  <2>1. a.section = "vote" /\ b.section = "vote"
    BY DEF VoteCalls, CreateVote, CastVote
  <2>2. e.call.calls = << a, b >> /\ e.call.section = "utility" /\ e.call.method = "batchAll"
    BY <1>6 DEF batchAll
  <2> DEFINE n == 2
  <2>3. voteCalls(e) = 1 .. n
    <3>1. voteCalls(e) = { k \in DOMAIN << a, b >> : << a, b >>[k].section = "vote" }
      BY <1>6, <2>2 DEF voteCalls
    <3>2. DOMAIN << a, b >> = 1 .. 2
      OBVIOUS
    <3>3. \A k \in 1 .. 2 : << a, b >>[k].section = "vote"
      BY <2>1
    <3> QED
      BY <3>1, <3>2, <3>3
  <2>4. n \in Nat
    OBVIOUS
  <2> HIDE DEF n
  <2>5. Cardinality(1 .. n) = n
    BY <2>4, FS_Interval
  <2> QED
    BY <2>3, <2>5 DEF n
<1>a. \/ a \in VoteCalls /\ b \in VoteCalls
      \/ a = CreateVote /\ b \in IssuerCalls /\ VoteAdded(c, d, o, es \o fs)
      \/ a = CastVote /\ b \in IssuerCalls /\ BallotAdded(c, d, o, es \o fs)
      \/ a \in IssuerCalls /\ b = CreateVote /\ VoteAdded(c, d, o, es \o fs)
      \/ a \in IssuerCalls /\ b = CastVote /\ BallotAdded(c, d, o, es \o fs)
      \/ a \in IssuerCalls /\ b \in IssuerCalls /\ d.votes = c.votes /\ es \o fs = << >>
  <2> HIDE DEF Outcome
  <2> QED
    BY <1>4, <1>5, TwoOutcomes
<1>14. VoteStep(e, c, d)
  BY <1>6, <1>13, <1>a DEF VoteStep, Told, Created, Cast
<1>15. TellsOneVote(e)
  <2>1. CreateVote.method = "createVoteForAllLegalOfficers" /\ CastVote.method = "vote"
    BY DEF CreateVote, CastVote
  <2>2. CreateVote \notin IssuerCalls /\ CastVote \notin IssuerCalls /\ CreateVote # CastVote
    BY DEF CreateVote, CastVote, IssuerCalls
  <2>3. \A k \in DOMAIN u : /\ isVote(u[k]) => u[k].call \in VoteCalls
                            /\ u[k].call \in VoteCalls => isVote(u[k])
    BY <1>8, CallsUnwrapped DEF u
  <2>4. \A k \in DOMAIN u : /\ isCreation(u[k]) => u[k].call = CreateVote
                            /\ isBallot(u[k]) => u[k].call = CastVote
    BY <2>1, <2>3 DEF isVote, VoteCalls, isCreation, isBallot, isCall
  <2> SUFFICES ASSUME ~(Cardinality(voteCalls(e)) > 1)
               PROVE  /\ \A j, k \in DOMAIN u : isVote(u[j]) /\ isVote(u[k]) => j = k
                      /\ \A k \in DOMAIN u : isCreation(u[k]) => Created(e)
                      /\ \A k \in DOMAIN u : isBallot(u[k]) => Cast(e)
                      /\ Told(e) => \E k \in DOMAIN u : isVote(u[k])
    BY DEF TellsOneVote, u
  <2>5. ~(isVote(u[2]) /\ isVote(u[3]))
    BY <1>9, <1>10, <1>13, <2>3
  <2>6. VoteAdded(c, d, o, es \o fs) => Created(e)
    BY <1>6 DEF VoteAdded, Created
  <2>7. BallotAdded(c, d, o, es \o fs) => Cast(e)
    BY <1>6 DEF BallotAdded, Cast
  <2>8. es \o fs = << >> => ~Told(e)
    BY <1>6 DEF Told, Created, Cast
  <2>9. /\ a = CreateVote \/ b = CreateVote => Created(e)
        /\ a = CastVote \/ b = CastVote => Cast(e)
        /\ Told(e) => a \in VoteCalls \/ b \in VoteCalls
    <3>1. CreateVote \notin IssuerCalls /\ CastVote \notin IssuerCalls
      BY <2>2
    <3> QED
      BY <1>13, <1>a, <2>2, <2>6, <2>7, <2>8 DEF VoteCalls
  <2> QED
    BY <1>9, <1>10, <1>11, <2>3, <2>4, <2>5, <2>9 DEF isVote
<1> QED
  BY <1>5, <1>8, <1>12, <1>14, <1>15 DEF Step, Outcome, e, d, u

\* An extrinsic that is no accepted call changes nothing and tells nothing.
LEMMA Unheeded ==
    ASSUME NEW c, GoodChain(c), NEW e, Refused(e) \/ Charging(e)
    PROVE  Step(e, c, c)
<1> DEFINE u == unwrapExtrinsics(e)
<1>1. \A a, b : batchAll(a, b).section = "utility" /\ batchAll(a, b).method = "batchAll"
  BY DEF batchAll
<1>2. \A a \in OfficerCalls : \/ a.section = "vote"
                              \/ a.section = "logionLoc" /\ a.method # "createLoc"
  BY DEF OfficerCalls, VoteCalls, CreateVote, CastVote, IssuerCalls
<1>3. Charging(e) => /\ e.call.section \in { "balances", "recovery", "vault", "logionLoc" }
                     /\ e.call.section = "logionLoc" => e.call.method = "createLoc"
  BY DEF Charging, Other, Transfers, Recovered, Approvals
<1>4. Batch.section = "utility" /\ Batch.method = "batch"
  BY DEF Batch
<1>5. ~\E a, b \in OfficerCalls : e.failure = "none" /\ e.call = batchAll(a, b)
  <2>1. CASE Refused(e)
    BY <1>1, <1>2, <1>4, <2>1 DEF Refused
  <2>2. CASE Charging(e)
    BY <1>1, <1>3, <2>2
  <2> QED
    BY <2>1, <2>2
<1>6. ~Accepted(e)
  <2>1. CASE Refused(e)
    BY <1>1, <1>2, <1>4, <2>1 DEF Refused, Accepted
  <2>2. CASE Charging(e)
    BY <1>1, <1>2, <1>3, <2>2 DEF Accepted
  <2> QED
    BY <2>1, <2>2
<1>7. Finalized(e)
  BY DEF Finalized
<1>8. ~Told(e)
  <2> SUFFICES ASSUME Len(e.events) = 1 PROVE e.events[1].method \notin { "VoteCreated", "VoteUpdated" }
    BY DEF Told, Created, Cast
  <2>1. e.events # << >>
    OBVIOUS
  <2>2. \A from, call : moved(from, call)[1].method = "Transfer"
    BY DEF moved
  <2>3. \A s : \A x \in Charges(s) : x.method \notin { "VoteCreated", "VoteUpdated" }
    BY DEF Charges
  <2>4. CASE e.events \in Seq(Charges(e.signer))
    BY <2>3, <2>4
  <2> QED
    BY <2>1, <2>2, <2>4 DEF Refused, Charging, Moves
<1>9. DOMAIN u = { 1 }
  <2>1. ~InBatch(e, u)
    BY <1>5 DEF InBatch
  <2> QED
    BY <1>7, <2>1, Unwrapped DEF Alone
<1>10. \A k \in DOMAIN u : ~isIssuerCall(u[k]) /\ (isVote(u[k]) => e.failure = "other")
  BY <1>6, <1>7, CallsUnwrapped
<1> HIDE DEF u
<1>11. SelectedAfter(u, c, c)
  BY <1>10 DEF SelectedAfter, own, tells
<1>12. VoteStep(e, c, c)
  BY <1>8 DEF VoteStep
<1>13. TellsOneVote(e)
  BY <1>8, <1>9, <1>10 DEF TellsOneVote, u, isVote
<1> QED
  BY <1>7, <1>11, <1>12, <1>13 DEF Step, u

Finalize == finalizeCall \/ finalizeFailed \/ finalizeCharges

\* Every extrinsic that is finalized is one of these.
LEMMA Finalizing ==
    ASSUME GoodChain(chain), Officers \subseteq Accounts, Finalize
    PROVE  \E e : /\ blocks' = Append(blocks, e)
                  /\ Step(e, chain, chain')
                  /\ UNCHANGED << syncPoint, job, drops, unsure, transactions, votes, selection, pending >>
<1> DEFINE Appends(e) == /\ blocks' = Append(blocks, e)
                         /\ UNCHANGED << syncPoint, job, drops, unsure, transactions, votes, selection, pending >>
<1>1. \A call, s, es, f : finalized(call, s, es, f) => Appends(ExtrinsicBuilder(call, s, es, f))
  BY DEF finalized, records
<1> HIDE DEF Appends
<1> SUFFICES \E e : Appends(e) /\ Step(e, chain, chain')
  BY DEF Appends
<1>2. CASE finalizeCall
  <2>1. PICK o \in Officers :
          \/ \E a \in OfficerCalls : \E x \in outcomes(chain, o, a) :
                chain' = x.chain /\ finalized(a, o, x.events, "none")
          \/ \E a, b \in OfficerCalls : \E x \in batchOutcomes(chain, o, a, b) :
                chain' = x.chain /\ finalized(batchAll(a, b), o, x.events, "none")
    BY <1>2 DEF finalizeCall, OfficerCalls
  <2>2. CASE \E a \in OfficerCalls : \E x \in outcomes(chain, o, a) :
                chain' = x.chain /\ finalized(a, o, x.events, "none")
    BY <1>1, <2>2, AcceptedAlone
  <2>3. CASE \E a, b \in OfficerCalls : \E x \in batchOutcomes(chain, o, a, b) :
                chain' = x.chain /\ finalized(batchAll(a, b), o, x.events, "none")
    BY <1>1, <2>3, AcceptedBatch
  <2> QED
    BY <2>1, <2>2, <2>3
<1>3. ASSUME NEW call, NEW s, NEW es, NEW f, finalized(call, s, es, f), chain' = chain,
             LET e == ExtrinsicBuilder(call, s, es, f) IN Refused(e) \/ Charging(e)
      PROVE  \E e : Appends(e) /\ Step(e, chain, chain')
  <2> DEFINE e == ExtrinsicBuilder(call, s, es, f)
  <2>1. Refused(e) \/ Charging(e)
    BY <1>3
  <2> HIDE DEF e
  <2>2. Step(e, chain, chain')
    BY <1>3, <2>1, Unheeded
  <2>3. Appends(e)
    BY <1>1, <1>3 DEF e
  <2> QED
    BY <2>2, <2>3
<1>4. CASE finalizeFailed
  <2>1. chain' = chain
    BY <1>4 DEF finalizeFailed
  <2>2. ASSUME NEW o \in Officers, NEW a \in OfficerCalls, finalized(a, o, << >>, "module")
        PROVE  \E e : Appends(e) /\ Step(e, chain, chain')
    BY <1>3, <2>1, <2>2 DEF Refused, ExtrinsicBuilder
  <2>3. ASSUME NEW s \in Accounts \ Officers, NEW a \in OfficerCalls, finalized(a, s, << >>, "other")
        PROVE  \E e : Appends(e) /\ Step(e, chain, chain')
    BY <1>3, <2>1, <2>3 DEF Refused, ExtrinsicBuilder
  <2>4. ASSUME NEW o \in Officers, NEW a \in VoteCalls, NEW b \in VoteCalls,
               finalized(batchAll(a, b), o, << >>, "module")
        PROVE  \E e : Appends(e) /\ Step(e, chain, chain')
    BY <1>3, <2>1, <2>4 DEF Refused, ExtrinsicBuilder
  <2>5. ASSUME NEW o \in Officers, finalized(Batch, o, << >>, "none")
        PROVE  \E e : Appends(e) /\ Step(e, chain, chain')
    BY <1>3, <2>1, <2>5 DEF Refused, ExtrinsicBuilder
  <2> QED
    BY <1>4, <2>2, <2>3, <2>4, <2>5, Zenon DEF finalizeFailed, OfficerCalls
<1>5. CASE finalizeCharges
  <2>1. chain' = chain
    BY <1>5 DEF finalizeCharges
  <2>2. PICK s \in Accounts :
          \/ \E es \in BoundedSeq(Charges(s), MaxEvents) : finalized(Other, s, es, "none")
          \/ \E t \in Transfers : finalized(t, s, moved(s, t), "none")
          \/ \E r \in { r \in Recovered : r.account # s } :
                finalized(r, s, moved(r.account, r.call), "none")
          \/ \E a \in { a \in Approvals : a.vault # s } :
                finalized(a, s, moved(a.vault, a.call), "none") \/ finalized(a, s, << >>, "none")
          \/ \E c \in Transfers \union { r \in Recovered : r.account # s }
                      \union { a \in Approvals : a.vault # s } :
                \E failure \in { "module", "other" } : finalized(c, s, << >>, failure)
    BY <1>5 DEF finalizeCharges
  <2>3. ASSUME NEW es \in BoundedSeq(Charges(s), MaxEvents), finalized(Other, s, es, "none")
        PROVE  \E e : Appends(e) /\ Step(e, chain, chain')
    <3>1. es \in Seq(Charges(s))
      BY <2>3 DEF BoundedSeq, SeqOf
    <3> QED
      BY <1>3, <2>1, <2>3, <3>1 DEF Charging, ExtrinsicBuilder
  <2>4. ASSUME NEW t \in Transfers, finalized(t, s, moved(s, t), "none")
        PROVE  \E e : Appends(e) /\ Step(e, chain, chain')
    BY <1>3, <2>1, <2>4 DEF Charging, Moves, ExtrinsicBuilder
  <2>5. ASSUME NEW r \in Recovered, r.account # s, finalized(r, s, moved(r.account, r.call), "none")
        PROVE  \E e : Appends(e) /\ Step(e, chain, chain')
    BY <1>3, <2>1, <2>5 DEF Charging, Moves, ExtrinsicBuilder
  <2>6. ASSUME NEW a \in Approvals, a.vault # s,
               finalized(a, s, moved(a.vault, a.call), "none") \/ finalized(a, s, << >>, "none")
        PROVE  \E e : Appends(e) /\ Step(e, chain, chain')
    BY <1>3, <2>1, <2>6 DEF Charging, Moves, ExtrinsicBuilder
  <2>7. ASSUME NEW c \in Transfers \union { r \in Recovered : r.account # s }
                           \union { a \in Approvals : a.vault # s },
               NEW failure \in { "module", "other" }, finalized(c, s, << >>, failure)
        PROVE  \E e : Appends(e) /\ Step(e, chain, chain')
    BY <1>3, <2>1, <2>7 DEF Charging, Moves, ExtrinsicBuilder
  <2> DEFINE G == \E e : Appends(e) /\ Step(e, chain, chain')
  <2> HIDE DEF G
  <2>8. (\E es \in BoundedSeq(Charges(s), MaxEvents) : finalized(Other, s, es, "none")) => G
    BY <2>3 DEF G
  <2>9. (\E t \in Transfers : finalized(t, s, moved(s, t), "none")) => G
    BY <2>4 DEF G
  <2>10. (\E r \in { r \in Recovered : r.account # s } :
             finalized(r, s, moved(r.account, r.call), "none")) => G
    BY <2>5 DEF G
  <2>11. (\E a \in { a \in Approvals : a.vault # s } :
             finalized(a, s, moved(a.vault, a.call), "none") \/ finalized(a, s, << >>, "none")) => G
    BY <2>6 DEF G
  <2>12. (\E c \in Transfers \union { r \in Recovered : r.account # s }
                     \union { a \in Approvals : a.vault # s } :
             \E failure \in { "module", "other" } : finalized(c, s, << >>, failure)) => G
    BY <2>7 DEF G
  <2> QED
    BY <2>2, <2>8, <2>9, <2>10, <2>11, <2>12, Zenon DEF G
<1> QED
  BY <1>2, <1>4, <1>5 DEF Finalize

-----------------------------------------------------------------------------
(***************************************************************************)
(* Where the job is.                                                       *)
(***************************************************************************)

LEMMA Shape ==
    ASSUME Typed
    PROVE  /\ Len(blocks) \in Nat /\ DOMAIN blocks = 1 .. Len(blocks)
           /\ \A b \in DOMAIN blocks : /\ Finalized(blocks[b])
                                       /\ Len(Calls(b)) \in Nat
                                       /\ DOMAIN Calls(b) = 1 .. Len(Calls(b))
                                       /\ Calls(b) \in Seq(ToSet(Calls(b)))
<1>1. \A b \in DOMAIN blocks : Finalized(blocks[b])
  BY DEF Typed
<1>2. ASSUME NEW b \in DOMAIN blocks
      PROVE  /\ Len(Calls(b)) \in Nat
             /\ DOMAIN Calls(b) = 1 .. Len(Calls(b))
             /\ Calls(b) \in Seq(ToSet(Calls(b)))
  BY <1>1, Unwrapped DEF Calls
<1>3. Len(blocks) \in Nat /\ DOMAIN blocks = 1 .. Len(blocks)
  BY DEF Typed
<1> QED
  BY <1>1, <1>2, <1>3

LEMMA Position ==
    ASSUME Typed
    PROVE  /\ At \in 1 .. Len(blocks) + 1 /\ syncPoint + 1 <= At /\ Upto \in Nat
           /\ syncPoint \in 0 .. Len(blocks)
           /\ ~job.running => job = Idle /\ At = syncPoint + 1 /\ Upto = 0
           /\ job.running => /\ Running /\ At = job.at /\ job.at \in DOMAIN blocks
                             /\ Upto = Len(Calls(job.at)) - Len(job.todo)
                             /\ Len(job.todo) \in Nat /\ Upto <= Len(Calls(job.at))
<1>1. Len(blocks) \in Nat /\ DOMAIN blocks = 1 .. Len(blocks) /\ syncPoint \in 0 .. Len(blocks)
  BY Shape DEF Typed
<1>2. CASE job = Idle
  <2>1. ~job.running
    BY <1>2 DEF Idle
  <2> QED
    BY <1>1, <1>2, <2>1 DEF At, Upto
<1>3. CASE Running
  <2>1. job.running
    BY <1>3 DEF Running
  <2>2. job.at \in DOMAIN blocks /\ syncPoint < job.at
    BY <1>1, <1>3 DEF Running
  <2>3. /\ Len(job.todo) \in Nat /\ Len(job.todo) <= Len(Calls(job.at))
    BY <1>3 DEF Running
  <2>4. Len(Calls(job.at)) \in Nat
    BY <2>2, Shape
  <2>5. At = job.at /\ Upto = Len(Calls(job.at)) - Len(job.todo)
    BY <2>1 DEF At, Upto
  <2>6. job.at \in 1 .. Len(blocks) /\ job.at >= syncPoint + 1
    BY <1>1, <2>2
  <2>7. Upto \in Nat /\ Upto <= Len(Calls(job.at))
    <3> DEFINE n == Len(Calls(job.at))
    <3> DEFINE m == Len(job.todo)
    <3>1. n \in Nat /\ m \in Nat /\ m <= n /\ Upto = n - m
      BY <2>3, <2>4, <2>5
    <3> HIDE DEF n, m
    <3>2. Upto \in Nat /\ Upto <= n
      BY <3>1
    <3> QED
      BY <3>2 DEF n
  <2>8. At \in 1 .. Len(blocks) + 1 /\ syncPoint + 1 <= At
    BY <1>1, <2>5, <2>6
  <2> QED
    BY <1>1, <1>3, <2>1, <2>2, <2>3, <2>5, <2>7, <2>8
<1> QED
  BY <1>2, <1>3 DEF Typed

\* A block begins with all its rows and all its calls to do.
LEMMA Begun ==
    ASSUME Typed, NEW n \in DOMAIN blocks, NEW stop \in Nat, n <= stop, stop <= Len(blocks), syncPoint < n,
           job' = processBlock(n, stop), UNCHANGED << blocks, syncPoint >>
    PROVE  /\ Running' /\ job'.running /\ At' = n /\ Upto' = 0
           /\ job'.rows = extractTransactions(blocks[n])
<1>1. /\ job'.running /\ job'.at = n /\ job'.stop = stop
      /\ job'.rows = extractTransactions(blocks[n]) /\ job'.todo = Calls(n)
  BY DEF processBlock, Calls
<1>2. job' = [ running |-> TRUE, at |-> job'.at, stop |-> job'.stop,
               rows |-> job'.rows, todo |-> job'.todo ]
  BY <1>1 DEF processBlock, Calls
<1>3. /\ Len(Calls(n)) \in Nat /\ DOMAIN Calls(n) = 1 .. Len(Calls(n))
      /\ Calls(n) \in Seq(ToSet(Calls(n)))
  BY Shape
<1>4. Calls(n)' = Calls(n)
  BY DEF Calls
<1>5. n \in Nat
  BY Shape
<1> HIDE DEF Calls
<1>6. Running'
  BY <1>1, <1>2, <1>3, <1>4, <1>5 DEF Running
<1>7. Upto' = 0
  BY <1>1, <1>3, <1>4 DEF Upto
<1> QED
  BY <1>1, <1>6, <1>7 DEF At

\* The steps that move the job between blocks.
Same == \A b \in DOMAIN blocks : \A k \in DOMAIN Calls(b) : Done(b, k)' <=> Done(b, k)
Back == \A b \in DOMAIN blocks : \A k \in DOMAIN Calls(b) : Done(b, k)' => Done(b, k)

\* What the tables hold of the chain is not what these steps are about.
Untouched == UNCHANGED << blocks, chain, transactions, votes, selection >>

\* The steps that only move the job forward.
LEMMA MovingOn ==
    ASSUME Typed, startJob \/ nextBlock \/ sync
    PROVE  /\ Typed' /\ Same
           /\ Untouched /\ UNCHANGED << drops, unsure, pending >>
           /\ \A b \in DOMAIN blocks : \A r \in extractTransactions(blocks[b]) : Saved(b, r)' => Saved(b, r)
<1>1. /\ Untouched /\ UNCHANGED << drops, unsure, pending >>
  BY DEF startJob, nextBlock, sync, Untouched, records
<1>2. /\ Len(blocks) \in Nat /\ DOMAIN blocks = 1 .. Len(blocks)
      /\ \A b \in DOMAIN blocks : Len(Calls(b)) \in Nat /\ DOMAIN Calls(b) = 1 .. Len(Calls(b))
  BY Shape
<1>3. \A b : Calls(b)' = Calls(b)
  BY <1>1 DEF Calls, Untouched
<1>4. ASSUME job' = Idle \/ Running', syncPoint' \in 0 .. Len(blocks)
      PROVE  Typed'
  <2>1. \A b : TellsOneVote(blocks[b])' <=> TellsOneVote(blocks[b])
    BY <1>1 DEF Untouched
  <2> QED
    BY <1>1, <1>4 DEF Typed, Untouched
<1>5. CASE startJob
  <2> DEFINE stop == Min({ syncPoint + BATCH_SIZE, Len(blocks) })
  <2>1. /\ ~job.running /\ syncPoint < Len(blocks) /\ syncPoint' = syncPoint
        /\ job' = processBlock(syncPoint + 1, stop)
    BY <1>5 DEF startJob
  <2>2. syncPoint \in Nat /\ At = syncPoint + 1 /\ Upto = 0
    BY <2>1, Position
  <2>3. stop \in Nat /\ syncPoint + 1 <= stop /\ stop <= Len(blocks)
    <3> DEFINE S == { syncPoint + BATCH_SIZE, Len(blocks) }
    <3> DEFINE n == syncPoint + BATCH_SIZE + Len(blocks)
    <3>1. n \in Nat /\ S \in SUBSET (1 .. n) /\ S # {}
      BY <1>2, <2>1, <2>2, ConstantsAssumption
    <3> HIDE DEF n
    <3>2. Min(S) \in S /\ \A y \in S : Min(S) <= y
      BY <3>1, Extremes
    <3> QED
      BY <1>2, <2>1, <2>2, <3>2, ConstantsAssumption
  <2> HIDE DEF stop
  <2>4. syncPoint + 1 \in DOMAIN blocks /\ syncPoint < syncPoint + 1
    BY <1>2, <2>1, <2>2
  <2>5. /\ Running' /\ job'.running /\ At' = syncPoint + 1 /\ Upto' = 0
        /\ job'.rows = extractTransactions(blocks[syncPoint + 1])
    BY <1>1, <2>1, <2>3, <2>4, Begun DEF Untouched
  <2>6. Same
    BY <2>2, <2>5 DEF Same, Done
  <2>7. \A b \in DOMAIN blocks : \A r \in extractTransactions(blocks[b]) : Saved(b, r)' => Saved(b, r)
    BY <2>2, <2>5 DEF Saved
  <2>8. Typed'
    BY <1>4, <2>1, <2>5, Position
  <2> QED
    BY <1>1, <2>6, <2>7, <2>8
<1>6. ASSUME processed
      PROVE  /\ Running /\ At = job.at /\ job.at \in DOMAIN blocks /\ Upto = Len(Calls(job.at))
             /\ \A b \in DOMAIN blocks : \A k \in DOMAIN Calls(b) : Done(b, k) <=> b <= job.at
             /\ \A b \in DOMAIN blocks : \A r \in extractTransactions(blocks[b]) :
                    b <= job.at => Saved(b, r)
  <2>1. job.running /\ job.rows = {} /\ job.todo = << >>
    BY <1>6 DEF processed
  <2>2. /\ Running /\ At = job.at /\ job.at \in DOMAIN blocks
        /\ Upto = Len(Calls(job.at)) - Len(job.todo)
    BY <2>1, Position
  <2>3. Upto = Len(Calls(job.at))
    BY <1>2, <2>1, <2>2
  <2>4. ASSUME NEW b \in DOMAIN blocks, NEW k \in DOMAIN Calls(b)
        PROVE  Done(b, k) <=> b <= job.at
    <3>1. b \in Nat /\ job.at \in Nat
      BY <1>2, <2>2
    <3> DEFINE n == Len(Calls(b))
    <3>2. n \in Nat /\ k \in 1 .. n
      BY <1>2
    <3>3. b = job.at => Upto = n
      BY <2>3
    <3>4. At = job.at
      BY <2>2
    <3> HIDE DEF n
    <3>5. b = job.at => k <= Upto
      BY <3>2, <3>3
    <3> QED
      BY <3>1, <3>4, <3>5 DEF Done
  <2>5. \A b \in DOMAIN blocks : \A r \in extractTransactions(blocks[b]) : b <= job.at => Saved(b, r)
    BY <1>2, <2>1, <2>2 DEF Saved
  <2> QED
    BY <2>2, <2>3, <2>4, <2>5
<1>7. CASE nextBlock
  <2>1. /\ processed /\ job.at < job.stop /\ syncPoint' = syncPoint
        /\ job' = processBlock(job.at + 1, job.stop)
    BY <1>7 DEF nextBlock
  <2>2. /\ syncPoint \in Nat /\ job.at \in Nat /\ job.stop \in Nat /\ syncPoint < job.at
        /\ job.stop <= Len(blocks)
    BY <1>6, <2>1, Position DEF Running
  <2>3. job.at + 1 \in DOMAIN blocks /\ job.at + 1 <= job.stop /\ syncPoint < job.at + 1
    BY <1>2, <2>1, <2>2
  <2>4. /\ Running' /\ job'.running /\ At' = job.at + 1 /\ Upto' = 0
        /\ job'.rows = extractTransactions(blocks[job.at + 1])
    BY <1>1, <2>1, <2>2, <2>3, Begun DEF Untouched
  <2>5. \A b \in DOMAIN blocks : b < job.at + 1 <=> b <= job.at
    BY <1>2, <2>2
  <2>6. Same
    BY <1>2, <1>6, <2>1, <2>4, <2>5 DEF Same, Done
  <2>7. \A b \in DOMAIN blocks : \A r \in extractTransactions(blocks[b]) : Saved(b, r)' => Saved(b, r)
    BY <1>6, <2>1, <2>4, <2>5 DEF Saved
  <2>8. Typed'
    BY <1>4, <2>1, <2>4, Position
  <2> QED
    BY <1>1, <2>6, <2>7, <2>8
<1>8. CASE sync
  <2>1. /\ processed /\ job.at = job.stop /\ syncPoint' = job.stop /\ job' = Idle
    BY <1>8 DEF sync
  <2>2. job.at \in 1 .. Len(blocks)
    BY <1>2, <1>6, <2>1
  <2>3. ~job'.running /\ At' = job.at + 1 /\ Upto' = 0
    BY <2>1, <2>2 DEF Idle, At, Upto
  <2>4. \A b \in DOMAIN blocks : b < job.at + 1 <=> b <= job.at
    BY <1>2, <2>2
  <2>5. Same
    BY <1>2, <1>6, <2>1, <2>3, <2>4 DEF Same, Done
  <2>6. \A b \in DOMAIN blocks : \A r \in extractTransactions(blocks[b]) : Saved(b, r)' => Saved(b, r)
    BY <1>6, <2>1, <2>3, <2>4 DEF Saved
  <2>7. Typed'
    BY <1>4, <2>1, <2>2
  <2> QED
    BY <1>1, <2>5, <2>6, <2>7
<1> QED
  BY <1>5, <1>7, <1>8

\* A dropped job, or a crash, goes back to the sync point.
LEMMA GoingBack ==
    ASSUME Typed, dropJob \/ crash
    PROVE  /\ Typed' /\ Back /\ Untouched /\ drops' = drops + 1
           /\ UNCHANGED << unsure, pending >> \/ (pending' = {} /\ unsure' = unsure \union { w.issuer : w \in pending })
           /\ \A b \in DOMAIN blocks : \A r \in extractTransactions(blocks[b]) : Saved(b, r)' => Saved(b, r)
<1>1. /\ Untouched /\ drops' = drops + 1 /\ drops < MaxDrops /\ job' = Idle /\ syncPoint' = syncPoint
      /\ UNCHANGED << unsure, pending >> \/ (pending' = {} /\ unsure' = unsure \union { w.issuer : w \in pending })
  BY DEF dropJob, crash, Untouched, records
<1>2. ~job'.running /\ At' = syncPoint + 1 /\ Upto' = 0
  BY <1>1 DEF Idle, At, Upto
<1>3. /\ Len(blocks) \in Nat /\ DOMAIN blocks = 1 .. Len(blocks)
      /\ \A b \in DOMAIN blocks : Len(Calls(b)) \in Nat /\ DOMAIN Calls(b) = 1 .. Len(Calls(b))
  BY Shape
<1>4. syncPoint \in Nat /\ At \in Nat /\ syncPoint + 1 <= At /\ Upto \in Nat
  BY <1>3, Position
<1>5. \A b \in DOMAIN blocks : b < syncPoint + 1 => b < At
  BY <1>3, <1>4
<1>6. Back
  BY <1>2, <1>3, <1>5 DEF Back, Done
<1>7. \A b \in DOMAIN blocks : \A r \in extractTransactions(blocks[b]) : Saved(b, r)' => Saved(b, r)
  BY <1>2, <1>5 DEF Saved
<1>8. Typed'
  <2>1. \A b : TellsOneVote(blocks[b])' <=> TellsOneVote(blocks[b])
    BY <1>1 DEF Untouched
  <2>2. pending' \subseteq Write /\ unsure' \subseteq Issuers
    BY <1>1 DEF Typed, Write
  <2>3. drops' \in 0 .. MaxDrops
    BY <1>1, ConstantsAssumption DEF Typed
  <2>4. /\ blocks \in Seq(ToSet(blocks))
        /\ \A b \in DOMAIN blocks : Finalized(blocks[b]) /\ TellsOneVote(blocks[b])
        /\ chain \in Chain /\ OneVoteEach(chain)
        /\ syncPoint \in 0 .. Len(blocks)
        /\ votes \in [VoteId -> Vote \union { NoVote }]
        /\ selection \in [Locs \X Issuers -> Selection]
    BY DEF Typed
  <2> QED
    BY <1>1, <2>1, <2>2, <2>3, <2>4 DEF Typed, Untouched
<1> QED
  BY <1>1, <1>6, <1>7, <1>8

\* Call k of block b is applied, next of those that are not.
Applies(b, k) ==
    /\ Head(job.todo) = Calls(b)[k]
    /\ \A c \in DOMAIN blocks : \A j \in DOMAIN Calls(c) :
          /\ Done(c, j)' <=> Done(c, j) \/ (c = b /\ j = k)
          /\ Done(c, j) <=> After(b, k, c, j)

Job(run, at, stop, rows, todo) ==
    [ running |-> run, at |-> at, stop |-> stop, rows |-> rows, todo |-> todo ]

LEMMA WithRows ==
    ASSUME NEW j, NEW run, NEW at, NEW stop, NEW r, NEW t, NEW rows, j = Job(run, at, stop, r, t)
    PROVE  [j EXCEPT !.rows = rows] = Job(run, at, stop, rows, t)
  BY DEF Job

LEMMA WithTodo ==
    ASSUME NEW j, NEW run, NEW at, NEW stop, NEW r, NEW t, NEW todo, j = Job(run, at, stop, r, t)
    PROVE  [j EXCEPT !.todo = todo] = Job(run, at, stop, r, todo)
  BY DEF Job

\* A job that changes only in what it has left to do.
LEMMA StillRunning ==
    ASSUME Typed, job.running, NEW rows \in SUBSET job.rows, NEW todo \in Seq(ToSet(Calls(job.at))),
           job' = Job(job.running, job.at, job.stop, rows, todo), UNCHANGED << blocks, syncPoint >>,
           Len(todo) <= Len(Calls(job.at)),
           \A j \in DOMAIN todo : todo[j] = Calls(job.at)[Len(Calls(job.at)) - Len(todo) + j]
    PROVE  /\ Running' /\ job'.running /\ At' = At /\ Upto' = Len(Calls(job.at)) - Len(todo)
           /\ job'.rows = rows
<1>1. Running /\ At = job.at
  BY Position
<1>2. /\ job'.running = job.running /\ job'.at = job.at /\ job'.stop = job.stop
      /\ job'.rows = rows /\ job'.todo = todo
  BY DEF Job
<1>3. job' = [ running |-> job'.running, at |-> job'.at, stop |-> job'.stop,
               rows |-> job'.rows, todo |-> job'.todo ]
  BY <1>2 DEF Job
<1>4. Calls(job.at)' = Calls(job.at)
  BY <1>2 DEF Calls
<1>5. Running'
  <2>1. /\ job.at \in Nat /\ job.stop \in Nat
        /\ syncPoint < job.at /\ job.at <= job.stop /\ job.stop <= Len(blocks)
        /\ job.rows \subseteq extractTransactions(blocks[job.at])
    BY <1>1 DEF Running
  <2>2. Calls(job.at)' = Calls(job.at)
    BY <1>4
  <2>3. job'.todo \in Seq(ToSet(Calls(job.at)')) /\ Len(job'.todo) <= Len(Calls(job.at)')
    BY <1>2, <2>2
  <2>4. \A j \in DOMAIN job'.todo :
          job'.todo[j] = Calls(job.at)'[Len(Calls(job.at)') - Len(job'.todo) + j]
    BY <1>2, <2>2
  <2>5. job'.rows \subseteq extractTransactions(blocks'[job'.at])
    BY <1>2, <2>1
  <2>6. /\ job'.at \in Nat /\ job'.stop \in Nat
        /\ syncPoint' < job'.at /\ job'.at <= job'.stop /\ job'.stop <= Len(blocks')
    BY <1>2, <2>1
  <2> QED
    BY <1>2, <1>3, <2>3, <2>4, <2>5, <2>6, Zenon DEF Running
<1>6. Upto' = Len(Calls(job.at)) - Len(todo)
  BY <1>2, <1>4 DEF Upto
<1> QED
  BY <1>1, <1>2, <1>5, <1>6 DEF At

\* The last conjuncts of Running, of a job without its head.
LEMMA Shorter ==
    ASSUME NEW S, NEW s \in Seq(S), NEW t \in Seq(S), t # << >>, Len(t) <= Len(s),
           \A j \in DOMAIN t : t[j] = s[Len(s) - Len(t) + j]
    PROVE  /\ Tail(t) \in Seq(S) /\ Len(Tail(t)) <= Len(s)
           /\ \A j \in DOMAIN Tail(t) : Tail(t)[j] = s[Len(s) - Len(Tail(t)) + j]
           /\ Len(s) - Len(Tail(t)) = Len(s) - Len(t) + 1
           /\ Len(s) - Len(t) + 1 \in DOMAIN s
           /\ Head(t) = s[Len(s) - Len(t) + 1]
  OBVIOUS

LEMMA Applying ==
    ASSUME Typed, canApply, applied
    PROVE  /\ Running' /\ job'.running /\ At' = At /\ job'.rows = job.rows
           /\ \E b \in DOMAIN blocks : \E k \in DOMAIN Calls(b) : Applies(b, k) /\ b = At /\ k = Upto + 1
<1>1. /\ job.running /\ job.todo # << >> /\ job' = [job EXCEPT !.todo = Tail(@)]
      /\ UNCHANGED << blocks, syncPoint >>
  BY DEF canApply, applied
<1>2. /\ Running /\ At = job.at /\ job.at \in DOMAIN blocks
      /\ Upto = Len(Calls(job.at)) - Len(job.todo)
  BY <1>1, Position
<1>3. job = Job(job.running, job.at, job.stop, job.rows, job.todo)
  BY <1>2 DEF Running, Job
<1> DEFINE rest == Tail(job.todo)
<1>4. job' = Job(job.running, job.at, job.stop, job.rows, rest)
  <2>1. job' = [job EXCEPT !.todo = rest]
    BY <1>1
  <2> HIDE DEF rest
  <2> QED
    BY <1>3, <2>1, WithTodo
<1> DEFINE s == Calls(job.at)
<1> DEFINE t == job.todo
<1>5. /\ s \in Seq(ToSet(s)) /\ Len(s) \in Nat /\ DOMAIN s = 1 .. Len(s)
      /\ t \in Seq(ToSet(s)) /\ Len(t) <= Len(s)
      /\ \A j \in DOMAIN t : t[j] = s[Len(s) - Len(t) + j]
  BY <1>2, Shape DEF Running
<1>6. /\ Tail(t) \in Seq(ToSet(s)) /\ Len(Tail(t)) <= Len(s)
      /\ \A j \in DOMAIN Tail(t) : Tail(t)[j] = s[Len(s) - Len(Tail(t)) + j]
      /\ Len(s) - Len(Tail(t)) = Len(s) - Len(t) + 1
      /\ Len(s) - Len(t) + 1 \in DOMAIN s
      /\ Head(t) = s[Len(s) - Len(t) + 1]
  <2> HIDE DEF s, t
  <2>1. t # << >>
    BY <1>1 DEF t
  <2> QED
    BY <1>5, <2>1, Shorter
<1>7. /\ Running' /\ job'.running /\ At' = At /\ Upto' = Upto + 1 /\ job'.rows = job.rows
  BY <1>1, <1>2, <1>4, <1>6, StillRunning
<1> DEFINE k == Upto + 1
<1>8. k \in DOMAIN s /\ Head(t) = s[k]
  BY <1>2, <1>6
<1>9. Applies(job.at, k)
  <2> SUFFICES ASSUME NEW c \in DOMAIN blocks, NEW j \in DOMAIN Calls(c)
               PROVE  /\ Done(c, j)' <=> Done(c, j) \/ (c = job.at /\ j = k)
                      /\ Done(c, j) <=> After(job.at, k, c, j)
    BY <1>8 DEF Applies
  <2>1. c \in Nat /\ j \in Nat /\ job.at \in Nat /\ Upto \in Nat
    BY <1>2, Shape, Position
  <2>2. Done(c, j)' <=> c < job.at \/ (c = job.at /\ j <= Upto + 1)
    BY <1>2, <1>7 DEF Done
  <2>3. Done(c, j) <=> c < job.at \/ (c = job.at /\ j <= Upto)
    BY <1>2 DEF Done
  <2> QED
    BY <2>1, <2>2, <2>3 DEF After
<1> QED
  BY <1>2, <1>7, <1>8, <1>9

\* A row is saved.
LEMMA Adding ==
    ASSUME Typed, addTransaction
    PROVE  /\ Running' /\ At' = At /\ Upto' = Upto
           /\ UNCHANGED << blocks, chain, syncPoint, votes, selection, pending, drops, unsure >>
           /\ job.running /\ At \in DOMAIN blocks
           /\ \E r \in job.rows :
                 /\ transactions' = transactions \union { [block |-> At, attempt |-> drops, row |-> r] }
                 /\ job'.rows = job.rows \ { r } /\ job'.running
                 /\ r \in extractTransactions(blocks[At])
<1>1. /\ job.running
      /\ UNCHANGED << blocks, chain, syncPoint, votes, selection, pending, drops, unsure >>
  BY DEF addTransaction
<1>2. /\ Running /\ At = job.at /\ job.at \in DOMAIN blocks
      /\ Upto = Len(Calls(job.at)) - Len(job.todo)
  BY <1>1, Position
<1>3. PICK r \in job.rows :
        /\ transactions' = transactions \union { [block |-> job.at, attempt |-> drops, row |-> r] }
        /\ job' = [job EXCEPT !.rows = @ \ { r }]
  BY DEF addTransaction
<1>4. job = Job(job.running, job.at, job.stop, job.rows, job.todo)
  BY <1>2 DEF Running, Job
<1> DEFINE rest == job.rows \ { r }
<1>5. job' = [job EXCEPT !.rows = rest]
  BY <1>3
<1> HIDE DEF rest
<1>6. job' = Job(job.running, job.at, job.stop, rest, job.todo)
  BY <1>4, <1>5, WithRows
<1>7. /\ rest \in SUBSET job.rows
  BY DEF rest
<1>8. /\ Running' /\ job'.running /\ At' = At /\ Upto' = Upto /\ job'.rows = rest
  BY <1>1, <1>2, <1>6, <1>7, StillRunning DEF Running
<1>9. r \in extractTransactions(blocks[At])
  BY <1>2 DEF Running
<1> QED
  BY <1>1, <1>2, <1>3, <1>8, <1>9 DEF rest

\* A block is added behind all others: nothing of it is done.
LEMMA Growing ==
    ASSUME Typed, Finalize
    PROVE  \E e :
             /\ Step(e, chain, chain')
             /\ DOMAIN blocks' = 1 .. Len(blocks) + 1
             /\ blocks'[Len(blocks) + 1] = e
             /\ \A b \in DOMAIN blocks : blocks'[b] = blocks[b]
             /\ UNCHANGED << syncPoint, job, drops, unsure, transactions, votes, selection, pending >>
             /\ At' = At /\ Upto' = Upto
             /\ \A b, k : Done(b, k)' <=> Done(b, k)
             /\ \A k \in DOMAIN unwrapExtrinsics(e) : ~Done(Len(blocks) + 1, k)
             /\ Typed'
<1>1. GoodChain(chain) /\ Officers \subseteq Accounts
  BY ConstantsAssumption DEF Typed, GoodChain
<1>2. PICK e : /\ blocks' = Append(blocks, e)
               /\ Step(e, chain, chain')
               /\ UNCHANGED << syncPoint, job, drops, unsure, transactions, votes, selection, pending >>
  BY <1>1, Finalizing
<1> DEFINE n == Len(blocks)
<1>3. /\ n \in Nat /\ DOMAIN blocks = 1 .. n
      /\ blocks' \in Seq(ToSet(blocks')) /\ DOMAIN blocks' = 1 .. n + 1 /\ Len(blocks') = n + 1
      /\ \A b \in DOMAIN blocks : blocks'[b] = blocks[b]
      /\ blocks'[n + 1] = e
  BY <1>2, Appended DEF Typed
<1> HIDE DEF n
<1>4. \A b \in DOMAIN blocks : Calls(b)' = Calls(b)
  BY <1>3 DEF Calls
<1>5. At' = At
  BY <1>2 DEF At
<1>6. Upto' = Upto
  <2>1. job.running => Calls(job.at)' = Calls(job.at)
    <3>1. job.running => job.at \in DOMAIN blocks
      BY Position
    <3> QED
      BY <1>2, <1>3, <3>1 DEF Calls
  <2> QED
    BY <1>2, <2>1 DEF Upto
<1>7. \A b, k : Done(b, k)' <=> Done(b, k)
  BY <1>5, <1>6 DEF Done
<1>8. \A k \in DOMAIN unwrapExtrinsics(e) : ~Done(n + 1, k)
  <2> SUFFICES ASSUME NEW k \in DOMAIN unwrapExtrinsics(e), Done(n + 1, k) PROVE FALSE
    OBVIOUS
  <2>1. k \in Nat /\ k > 0
    BY <1>2, Unwrapped DEF Step
  <2>2. At \in 1 .. n + 1
    BY <1>3, Position DEF n
  <2>3. At = n + 1 /\ k <= Upto
    BY <1>3, <2>2 DEF Done
  <2>4. ~job.running
    <3>1. n + 1 \notin DOMAIN blocks
      BY <1>3
    <3> QED
      BY <2>3, <3>1, Position
  <2> QED
    BY <2>1, <2>3, <2>4, Position
<1>9. Typed'
  <2>1. \A b \in DOMAIN blocks' : Finalized(blocks'[b]) /\ TellsOneVote(blocks'[b])
    <3>1. Finalized(e) /\ TellsOneVote(e)
      BY <1>2 DEF Step
    <3>2. \A b \in DOMAIN blocks : Finalized(blocks[b]) /\ TellsOneVote(blocks[b])
      BY DEF Typed
    <3>3. \A b \in DOMAIN blocks' : b \in DOMAIN blocks \/ b = n + 1
      BY <1>3
    <3> QED
      BY <1>3, <3>1, <3>2, <3>3
  <2>2. chain' \in Chain /\ OneVoteEach(chain')
    BY <1>2 DEF Step, GoodChain
  <2>3. syncPoint' \in 0 .. Len(blocks')
    BY <1>2, <1>3, Position DEF n
  <2>4. job' = Idle \/ Running'
    <3>1. CASE job = Idle
      BY <1>2, <3>1
    <3>2. CASE Running
      <4>1. job.at \in DOMAIN blocks
        BY <3>2, Shape DEF Running, Typed
      <4>2. Calls(job.at)' = Calls(job.at) /\ blocks'[job.at] = blocks[job.at]
        BY <1>2, <1>3, <4>1 DEF Calls
      <4>3. job.stop <= Len(blocks')
        BY <1>3, <3>2 DEF Running, n
      <4> QED
        BY <1>2, <3>2, <4>2, <4>3 DEF Running
    <3> QED
      BY <3>1, <3>2 DEF Typed
  <2>5. \A b \in DOMAIN blocks' : Finalized(blocks[b])' /\ TellsOneVote(blocks[b])'
    BY <2>1
  <2>6. /\ votes \in [VoteId -> Vote \union { NoVote }]
        /\ selection \in [Locs \X Issuers -> Selection]
        /\ pending \subseteq Write /\ drops \in 0 .. MaxDrops /\ unsure \subseteq Issuers
    BY DEF Typed
  <2> QED
    BY <1>2, <1>3, <2>2, <2>3, <2>4, <2>5, <2>6 DEF Typed
<1> QED
  BY <1>2, <1>3, <1>5, <1>6, <1>7, <1>8, <1>9 DEF n

LEMMA ApplyIs ==
    ASSUME apply
    PROVE  canApply /\ applied /\ UNCHANGED << blocks, chain, syncPoint, transactions, drops >>
  BY DEF apply, addVote, updateVote, notifyIssuerNominatedDismissed, handleIssuerSelectedUnselected, skip, applied

LEMMA WriteIs ==
    ASSUME writeSelection
    PROVE  /\ UNCHANGED << blocks, chain, syncPoint, job, transactions, votes, drops, unsure >>
           /\ At' = At /\ Upto' = Upto
           /\ \A b, k : (Done(b, k)' <=> Done(b, k)) /\ Calls(b)' = Calls(b)
<1>1. UNCHANGED << blocks, chain, syncPoint, job, transactions, votes, drops, unsure >>
  BY DEF writeSelection, selectUnselect, unselectAll, wrote
<1>2. \A b : Calls(b)' = Calls(b)
  BY <1>1 DEF Calls
<1>3. At' = At /\ Upto' = Upto
  BY <1>1, <1>2 DEF At, Upto, Calls
<1>4. \A b, k : Done(b, k)' <=> Done(b, k)
  BY <1>3 DEF Done
<1> QED
  BY <1>1, <1>2, <1>3, <1>4

-----------------------------------------------------------------------------
(***************************************************************************)
(* The rows of the transactions.                                           *)
(***************************************************************************)

Rows == RowsExtracted /\ RowsStored

\* The rows are those of the same blocks, and no other row is said to be saved.
LEMMA RowsLeft ==
    ASSUME Rows, UNCHANGED transactions, drops \in Nat, drops' \in { drops, drops + 1 },
           DOMAIN blocks \subseteq DOMAIN blocks',
           \A b \in DOMAIN blocks : blocks'[b] = blocks[b],
           \A b \in DOMAIN blocks' : \A r : Saved(b, r)' => b \in DOMAIN blocks,
           \A b \in DOMAIN blocks : \A r \in extractTransactions(blocks[b]) : Saved(b, r)' => Saved(b, r)
    PROVE  Rows'
<1>1. RowsExtracted'
  <2> SUFFICES ASSUME NEW t \in transactions
               PROVE  /\ t = [block |-> t.block, attempt |-> t.attempt, row |-> t.row]
                      /\ t.block \in DOMAIN blocks' /\ t.attempt \in 0 .. drops'
                      /\ t.row \in extractTransactions(blocks'[t.block])
    BY DEF RowsExtracted
  <2>1. /\ t = [block |-> t.block, attempt |-> t.attempt, row |-> t.row]
        /\ t.block \in DOMAIN blocks /\ t.attempt \in 0 .. drops
        /\ t.row \in extractTransactions(blocks[t.block])
    BY DEF Rows, RowsExtracted
  <2>2. t.attempt \in 0 .. drops'
    BY <2>1
  <2> QED
    BY <2>1, <2>2
<1>2. RowsStored'
  <2> SUFFICES ASSUME NEW b \in DOMAIN blocks', NEW r \in extractTransactions(blocks'[b]), Saved(b, r)'
               PROVE  \E t \in transactions : t.block = b /\ t.row = r
    BY DEF RowsStored
  <2>1. b \in DOMAIN blocks /\ r \in extractTransactions(blocks[b]) /\ Saved(b, r)
    BY Zenon
  <2> QED
    BY <2>1 DEF Rows, RowsStored
<1> QED
  BY <1>1, <1>2 DEF Rows

LEMMA RowsKept ==
    ASSUME Typed, Rows, Next
    PROVE  Rows'
<1>1. drops \in Nat /\ Len(blocks) \in Nat /\ DOMAIN blocks = 1 .. Len(blocks)
  BY Shape, ConstantsAssumption DEF Typed
<1>2. CASE Finalize
  <2>1. PICK e :
             /\ DOMAIN blocks' = 1 .. Len(blocks) + 1
             /\ \A b \in DOMAIN blocks : blocks'[b] = blocks[b]
             /\ UNCHANGED << syncPoint, job, drops, unsure, transactions, votes, selection, pending >>
             /\ At' = At
    BY <1>2, Growing
  <2>2. At \in 1 .. Len(blocks) + 1 /\ (job.running => At \in DOMAIN blocks)
    BY Position
  <2>3. \A b, r : Saved(b, r)' <=> Saved(b, r)
    BY <2>1 DEF Saved
  <2>4. \A b \in DOMAIN blocks' : \A r : Saved(b, r) => b \in DOMAIN blocks
    BY <1>1, <2>1, <2>2 DEF Saved
  <2>5. DOMAIN blocks \subseteq DOMAIN blocks'
    BY <1>1, <2>1
  <2> QED
    BY <1>1, <2>1, <2>3, <2>4, <2>5, RowsLeft
<1>3. CASE startJob \/ nextBlock \/ sync
  <2>1. /\ Untouched /\ drops' = drops
        /\ \A b \in DOMAIN blocks : \A r \in extractTransactions(blocks[b]) : Saved(b, r)' => Saved(b, r)
    BY <1>3, MovingOn
  <2> QED
    BY <1>1, <2>1, RowsLeft DEF Untouched
<1>4. CASE dropJob \/ crash
  <2>1. /\ Untouched /\ drops' = drops + 1
        /\ \A b \in DOMAIN blocks : \A r \in extractTransactions(blocks[b]) : Saved(b, r)' => Saved(b, r)
    BY <1>4, GoingBack
  <2> QED
    BY <1>1, <2>1, RowsLeft DEF Untouched
<1>5. CASE apply
  <2>1. /\ canApply /\ applied /\ UNCHANGED << blocks, transactions, drops >>
    BY <1>5, ApplyIs
  <2>2. At' = At /\ job'.rows = job.rows /\ job.running
    BY <2>1, Applying DEF canApply
  <2>3. \A b, r : Saved(b, r)' => Saved(b, r)
    BY <2>2 DEF Saved
  <2> QED
    BY <1>1, <2>1, <2>3, RowsLeft
<1>6. CASE writeSelection
  <2>1. At' = At /\ UNCHANGED << blocks, job, transactions, drops >>
    BY <1>6, WriteIs
  <2>2. \A b, r : Saved(b, r)' => Saved(b, r)
    BY <2>1 DEF Saved
  <2> QED
    BY <1>1, <2>1, <2>2, RowsLeft
<1>7. CASE addTransaction
  <2>1. PICK r \in job.rows :
          /\ transactions' = transactions \union { [block |-> At, attempt |-> drops, row |-> r] }
          /\ job'.rows = job.rows \ { r } /\ job'.running
          /\ r \in extractTransactions(blocks[At])
          /\ At' = At /\ job.running /\ At \in DOMAIN blocks
          /\ UNCHANGED << blocks, drops >>
    BY <1>7, Adding
  <2> DEFINE s == [block |-> At, attempt |-> drops, row |-> r]
  <2>2. s = [block |-> s.block, attempt |-> s.attempt, row |-> s.row] /\ s.block = At /\ s.attempt = drops /\ s.row = r
    OBVIOUS
  <2>3. transactions' = transactions \union { s }
    BY <2>1
  <2> HIDE DEF s
  <2>4. RowsExtracted'
    BY <1>1, <2>1, <2>2, <2>3 DEF Rows, RowsExtracted
  <2>5. RowsStored'
    <3> SUFFICES ASSUME NEW b \in DOMAIN blocks, NEW q \in extractTransactions(blocks[b]), Saved(b, q)'
                 PROVE  \E t \in transactions' : t.block = b /\ t.row = q
      BY <2>1 DEF RowsStored
    <3>1. CASE b = At /\ q = r
      BY <2>2, <2>3, <3>1
    <3>2. CASE ~(b = At /\ q = r)
      <4>1. Saved(b, q)
        BY <2>1, <3>2 DEF Saved
      <4> QED
        BY <2>3, <4>1 DEF Rows, RowsStored
    <3> QED
      BY <3>1, <3>2
  <2> QED
    BY <2>4, <2>5 DEF Rows
<1> QED
  BY <1>2, <1>3, <1>4, <1>5, <1>6, <1>7 DEF Next, Finalize

-----------------------------------------------------------------------------
(***************************************************************************)
(* The selections of the chain.                                            *)
(***************************************************************************)

LEMMA SameBlocks ==
    ASSUME UNCHANGED blocks
    PROVE  /\ \A b : Calls(b)' = Calls(b)
           /\ \A l, i : /\ LastSelects(l, i)' <=> LastSelects(l, i)
                        /\ LastOwnSelects(l, i)' <=> LastOwnSelects(l, i)
<1>1. \A b : Calls(b)' = Calls(b)
  BY DEF Calls
<1>2. \A l, i : LastSelects(l, i)' <=> LastSelects(l, i)
  BY <1>1 DEF LastSelects
<1>3. \A l, i : LastOwnSelects(l, i)' <=> LastOwnSelects(l, i)
  BY <1>1 DEF LastOwnSelects
<1> QED
  BY <1>1, <1>2, <1>3

\* An issuer is selected on chain by the last of the officer's own calls.
LEMMA ChainFollowsGrowing ==
    ASSUME Typed, ChainFollows, Finalize
    PROVE  ChainFollows'
<1> DEFINE n == Len(blocks)
<1>1. PICK e : /\ Step(e, chain, chain')
               /\ DOMAIN blocks' = 1 .. n + 1
               /\ blocks'[n + 1] = e
               /\ \A b \in DOMAIN blocks : blocks'[b] = blocks[b]
  BY Growing
<1>2. n \in Nat /\ DOMAIN blocks = 1 .. n
  BY Shape
<1> HIDE DEF n
<1> DEFINE u == unwrapExtrinsics(e)
<1> DEFINE C(b) == unwrapExtrinsics(blocks'[b])
<1>3. SelectedAfter(u, chain, chain') /\ DOMAIN u = 1 .. Len(u) /\ Len(u) \in Nat
  BY <1>1, Unwrapped DEF Step
<1>4. C(n + 1) = u /\ \A b \in DOMAIN blocks : C(b) = Calls(b)
  BY <1>1 DEF Calls
<1> HIDE DEF u
<1> SUFFICES ASSUME NEW l \in Locs, NEW i \in Issuers
             PROVE  << l, i >> \in chain'.selected <=> LastOwnSelects(l, i)'
  BY DEF ChainFollows
<1>5. << l, i >> \in chain.selected <=> LastOwnSelects(l, i)
  BY DEF ChainFollows
<1>6. LastOwnSelects(l, i)' <=>
        \E b \in DOMAIN blocks' : \E k \in DOMAIN C(b) :
          /\ own(C(b)[k], l, i) /\ selects(C(b)[k])
          /\ \A c \in DOMAIN blocks' : \A j \in DOMAIN C(c) :
                own(C(c)[j], l, i) => ~After(c, j, b, k)
  BY DEF LastOwnSelects, Calls
<1>7. \A b \in DOMAIN blocks' : b \in DOMAIN blocks \/ b = n + 1
  BY <1>1, <1>2
<1>8. \A b \in DOMAIN blocks : b < n + 1 /\ b \in DOMAIN blocks' /\ ~(n + 1 < b) /\ b # n + 1
  BY <1>1, <1>2
<1>9. n + 1 \in DOMAIN blocks' /\ ~(n + 1 < n + 1)
  BY <1>1, <1>2
<1> HIDE DEF C
<1>10. << l, i >> \in chain'.selected <=>
         \/ \E k \in DOMAIN u : /\ own(u[k], l, i) /\ selects(u[k])
                                /\ \A j \in DOMAIN u : own(u[j], l, i) => j <= k
         \/ << l, i >> \in chain.selected /\ \A k \in DOMAIN u : ~own(u[k], l, i)
  BY <1>3 DEF SelectedAfter
<1>11. CASE \A k \in DOMAIN u : ~own(u[k], l, i)
  <2>1. LastOwnSelects(l, i) => LastOwnSelects(l, i)'
    <3> SUFFICES ASSUME LastOwnSelects(l, i) PROVE LastOwnSelects(l, i)'
      OBVIOUS
    <3>1. PICK b \in DOMAIN blocks : \E k \in DOMAIN Calls(b) :
            /\ own(Calls(b)[k], l, i) /\ selects(Calls(b)[k])
            /\ \A c \in DOMAIN blocks : \A j \in DOMAIN Calls(c) :
                  own(Calls(c)[j], l, i) => ~After(c, j, b, k)
      BY DEF LastOwnSelects
    <3>2. PICK k \in DOMAIN Calls(b) :
            /\ own(Calls(b)[k], l, i) /\ selects(Calls(b)[k])
            /\ \A c \in DOMAIN blocks : \A j \in DOMAIN Calls(c) :
                  own(Calls(c)[j], l, i) => ~After(c, j, b, k)
      BY <3>1
    <3>3. \A c \in DOMAIN blocks' : \A j \in DOMAIN C(c) : own(C(c)[j], l, i) => ~After(c, j, b, k)
      BY <1>4, <1>7, <1>11, <3>2
    <3>4. /\ b \in DOMAIN blocks' /\ k \in DOMAIN C(b)
          /\ own(C(b)[k], l, i) /\ selects(C(b)[k])
      BY <1>4, <1>8, <3>2
    <3> QED
      BY <1>6, <3>3, <3>4
  <2>2. LastOwnSelects(l, i)' => LastOwnSelects(l, i)
    <3> SUFFICES ASSUME LastOwnSelects(l, i)' PROVE LastOwnSelects(l, i)
      OBVIOUS
    <3>1. PICK b \in DOMAIN blocks' : \E k \in DOMAIN C(b) :
            /\ own(C(b)[k], l, i) /\ selects(C(b)[k])
            /\ \A c \in DOMAIN blocks' : \A j \in DOMAIN C(c) :
                  own(C(c)[j], l, i) => ~After(c, j, b, k)
      BY <1>6
    <3>2. PICK k \in DOMAIN C(b) :
            /\ own(C(b)[k], l, i) /\ selects(C(b)[k])
            /\ \A c \in DOMAIN blocks' : \A j \in DOMAIN C(c) :
                  own(C(c)[j], l, i) => ~After(c, j, b, k)
      BY <3>1
    <3>3. b \in DOMAIN blocks
      BY <1>4, <1>7, <1>11, <3>2
    <3>4. \A c \in DOMAIN blocks : \A j \in DOMAIN Calls(c) : own(Calls(c)[j], l, i) => ~After(c, j, b, k)
      BY <1>4, <1>8, <3>2
    <3> QED
      BY <1>4, <3>2, <3>3, <3>4 DEF LastOwnSelects
  <2> QED
    BY <1>5, <1>10, <1>11, <2>1, <2>2
<1>12. CASE \E k \in DOMAIN u : own(u[k], l, i)
  <2>1. PICK h \in DOMAIN u : own(u[h], l, i)
    BY <1>12
  <2>2. ASSUME NEW k \in DOMAIN u, own(u[k], l, i), selects(u[k]),
               \A j \in DOMAIN u : own(u[j], l, i) => j <= k
        PROVE  LastOwnSelects(l, i)'
    <3>1. \A c \in DOMAIN blocks' : \A j \in DOMAIN C(c) : own(C(c)[j], l, i) => ~After(c, j, n + 1, k)
      <4> SUFFICES ASSUME NEW c \in DOMAIN blocks', NEW j \in DOMAIN C(c), own(C(c)[j], l, i)
                   PROVE  ~After(c, j, n + 1, k)
        OBVIOUS
      <4>1. CASE c \in DOMAIN blocks
        BY <1>8, <4>1 DEF After
      <4>2. CASE c = n + 1
        <5>1. j \in DOMAIN u /\ j <= k
          BY <1>4, <2>2, <4>2
        <5>2. ~(k < j)
          BY <1>3, <5>1
        <5> QED
          BY <1>9, <4>2, <5>2 DEF After
      <4> QED
        BY <1>7, <4>1, <4>2
    <3> QED
      BY <1>4, <1>6, <1>9, <2>2, <3>1
  <2>3. ASSUME LastOwnSelects(l, i)'
        PROVE  \E k \in DOMAIN u : /\ own(u[k], l, i) /\ selects(u[k])
                                   /\ \A j \in DOMAIN u : own(u[j], l, i) => j <= k
    <3>1. PICK b \in DOMAIN blocks' : \E k \in DOMAIN C(b) :
            /\ own(C(b)[k], l, i) /\ selects(C(b)[k])
            /\ \A c \in DOMAIN blocks' : \A j \in DOMAIN C(c) :
                  own(C(c)[j], l, i) => ~After(c, j, b, k)
      BY <1>6, <2>3
    <3>2. PICK k \in DOMAIN C(b) :
            /\ own(C(b)[k], l, i) /\ selects(C(b)[k])
            /\ \A c \in DOMAIN blocks' : \A j \in DOMAIN C(c) :
                  own(C(c)[j], l, i) => ~After(c, j, b, k)
      BY <3>1
    <3>3. ~After(n + 1, h, b, k)
      BY <1>4, <1>9, <2>1, <3>2
    <3>4. b = n + 1
      BY <1>7, <1>8, <3>3 DEF After
    <3>5. k \in DOMAIN u /\ own(u[k], l, i) /\ selects(u[k])
      BY <1>4, <3>2, <3>4
    <3>6. \A j \in DOMAIN u : own(u[j], l, i) => ~After(n + 1, j, n + 1, k)
      BY <1>4, <1>9, <3>2, <3>4
    <3>7. \A j \in DOMAIN u : own(u[j], l, i) => j <= k
      BY <1>3, <3>5, <3>6 DEF After
    <3> QED
      BY <3>5, <3>7
  <2> QED
    BY <1>10, <1>12, <2>2, <2>3
<1> QED
  BY <1>11, <1>12

LEMMA ChainFollowsKept ==
    ASSUME Typed, ChainFollows, Next
    PROVE  ChainFollows'
<1>1. CASE Finalize
  BY <1>1, ChainFollowsGrowing
<1>2. CASE UNCHANGED << blocks, chain >>
  BY <1>2, SameBlocks DEF ChainFollows
<1>3. Finalize \/ UNCHANGED << blocks, chain >>
  BY ApplyIs, WriteIs
     DEF Next, Finalize, startJob, addTransaction, nextBlock, sync, dropJob, crash
<1> QED
  BY <1>1, <1>2, <1>3

-----------------------------------------------------------------------------
(***************************************************************************)
(* The selections that are shown.                                          *)
(***************************************************************************)

LEMMA OneWriteKept ==
    ASSUME Typed, OneWrite, Next
    PROVE  OneWrite'
<1>1. CASE UNCHANGED << pending, unsure >>
  BY <1>1 DEF OneWrite
<1>2. CASE pending' \subseteq pending /\ unsure \subseteq unsure'
  BY <1>2 DEF OneWrite
<1>3. ASSUME NEW w, writes(w)
      PROVE  OneWrite'
  BY <1>3 DEF writes, OneWrite
<1>4. CASE apply
  BY <1>1, <1>3, <1>4
     DEF apply, addVote, updateVote, notifyIssuerNominatedDismissed, handleIssuerSelectedUnselected, skip
<1>5. CASE writeSelection
  BY <1>2, <1>5 DEF writeSelection, selectUnselect, unselectAll, wrote
<1>6. CASE Finalize
  BY <1>1, <1>6, Growing
<1>7. CASE startJob \/ nextBlock \/ sync
  BY <1>1, <1>7, MovingOn
<1>8. CASE dropJob \/ crash
  BY <1>1, <1>2, <1>8, GoingBack
<1>9. CASE addTransaction
  BY <1>1, <1>9, Adding
<1> QED
  BY <1>4, <1>5, <1>6, <1>7, <1>8, <1>9 DEF Next, Finalize

\* What is shown, when no write of the issuer is pending.
LEMMA ShownAlone ==
    ASSUME NEW l, NEW i, \A w \in pending : w.issuer # i
    PROVE  shown(l, i) <=> selection[<< l, i >>] = TRUE
  BY DEF shown, concerns

LEMMA ShownUnchanged ==
    ASSUME UNCHANGED << pending, selection >>
    PROVE  \A l, i : shown(l, i)' <=> shown(l, i)
  BY DEF shown, concerns

\* A write that is done changes nothing of what is to be shown.
LEMMA ShownWritten ==
    ASSUME Typed, OneWrite, writeSelection, NEW l \in Locs, NEW i \in Issuers \ unsure
    PROVE  shown(l, i)' <=> shown(l, i)
<1>1. PICK w \in pending : selectUnselect(w) \/ unselectAll(w)
  BY DEF writeSelection
<1>2. pending' = pending \ { w }
  BY <1>1 DEF selectUnselect, unselectAll, wrote
<1>3. w \in Write /\ selection \in [Locs \X Issuers -> Selection] /\ << l, i >> \in Locs \X Issuers
  BY DEF Typed
<1>4. None \notin BOOLEAN /\ None \notin Locs
  BY ConstantsAssumption DEF Locs
<1>5. CASE w.issuer # i
  <2>1. selection'[<< l, i >>] = selection[<< l, i >>]
    <3>1. CASE selectUnselect(w)
      <4>1. << w.loc, w.issuer >> # << l, i >>
        BY <1>5
      <4> QED
        BY <1>3, <3>1, <4>1 DEF selectUnselect
    <3>2. CASE unselectAll(w)
      BY <1>3, <1>5, <3>2 DEF unselectAll
    <3> QED
      BY <1>1, <3>1, <3>2
  <2>2. ~concerns(w, l, i)
    BY <1>5 DEF concerns
  <2>3. /\ (\E v \in pending' : concerns(v, l, i)) <=> (\E v \in pending : concerns(v, l, i))
        /\ (\E v \in pending' : concerns(v, l, i) /\ v.loc # None /\ v.selected)
              <=> (\E v \in pending : concerns(v, l, i) /\ v.loc # None /\ v.selected)
    BY <1>2, <2>2
  <2>4. shown(l, i)' <=> IF \E v \in pending' : concerns(v, l, i)
                         THEN \E v \in pending' : concerns(v, l, i) /\ v.loc # None /\ v.selected
                         ELSE selection'[<< l, i >>] = TRUE
    BY DEF shown, concerns
  <2> QED
    BY <2>1, <2>3, <2>4 DEF shown
<1>6. CASE w.issuer = i
  <2>1. \A v \in pending : v.issuer = i => v = w
    BY <1>6 DEF OneWrite
  <2>2. \A v \in pending' : v.issuer # i
    BY <1>2, <2>1
  <2>3. shown(l, i)' <=> selection'[<< l, i >>] = TRUE
    BY <2>2 DEF shown, concerns
  <2>4. CASE w.loc = l
    <3>1. shown(l, i) <=> w.selected
      BY <1>4, <1>6, <2>1, <2>4 DEF shown, concerns
    <3>2. selectUnselect(w)
      BY <1>1, <1>4, <2>4 DEF unselectAll
    <3>3. selection'[<< l, i >>] = IF w.selected \/ selection[<< l, i >>] # None THEN w.selected
                                   ELSE selection[<< l, i >>]
      BY <1>3, <1>6, <2>4, <3>2 DEF selectUnselect
    <3>4. w.selected \in BOOLEAN
      BY <1>3, <1>4, <2>4 DEF Write
    <3> QED
      BY <1>4, <2>3, <3>1, <3>3, <3>4
  <2>5. CASE w.loc = None
    <3>1. ~shown(l, i)
      BY <1>4, <1>6, <2>1, <2>5 DEF shown, concerns
    <3>2. unselectAll(w)
      BY <1>1, <2>5 DEF selectUnselect
    <3>3. selection'[<< l, i >>] = IF selection[<< l, i >>] # None THEN FALSE ELSE None
      BY <1>3, <1>6, <3>2 DEF unselectAll
    <3> QED
      BY <1>4, <2>3, <3>1, <3>3
  <2>6. CASE w.loc \notin { l, None }
    <3>1. shown(l, i) <=> selection[<< l, i >>] = TRUE
      BY <2>1, <2>6 DEF shown, concerns
    <3>2. selectUnselect(w)
      BY <1>1, <2>6 DEF unselectAll
    <3>3. << w.loc, w.issuer >> # << l, i >>
      BY <2>6
    <3>4. selection'[<< l, i >>] = selection[<< l, i >>]
      BY <1>3, <3>2, <3>3 DEF selectUnselect
    <3> QED
      BY <2>3, <3>1, <3>4
  <2> QED
    BY <2>4, <2>5, <2>6
<1> QED
  BY <1>5, <1>6

\* what a call about an issuer leaves to write; nothing for a nomination
Written(x) ==
    /\ x.call.issuer \in Issuers /\ x.signer \in Locs
    /\ \/ x.call.method = "dismissIssuer" /\ writes([issuer |-> x.call.issuer, loc |-> None])
       \/ x.call.method = "nominateIssuer" /\ UNCHANGED << pending, unsure >>
       \/ /\ x.call.method = "setIssuerSelection" /\ x.call.selected \in BOOLEAN
          /\ writes([issuer |-> x.call.issuer, loc |-> x.signer, selected |-> x.call.selected])

LEMMA AppliesWrites ==
    ASSUME Typed, apply
    PROVE  LET x == Head(job.todo)
           IN  \/ ~isIssuerCall(x) /\ UNCHANGED << pending, unsure, selection >>
               \/ isIssuerCall(x) /\ Written(x) /\ UNCHANGED << votes, selection >>
<1> DEFINE x == Head(job.todo)
<1>1. PICK b \in DOMAIN blocks : \E k \in DOMAIN Calls(b) : x = Calls(b)[k]
  BY ApplyIs, Applying DEF Applies
<1>2. PICK k \in DOMAIN Calls(b) : x = Calls(b)[k]
  BY <1>1
<1>3. Finalized(blocks[b])
  BY Shape
<1>4. isIssuerCall(x) => x.call \in IssuerCalls /\ x.signer \in Locs
  BY <1>2, <1>3, CallsUnwrapped DEF Calls, isIssuerCall, Locs
<1> HIDE DEF x
<1>5. CASE addVote(x) \/ updateVote(x) \/ skip(x)
  <2>1. ~isIssuerCall(x)
    BY <1>5 DEF addVote, updateVote, skip, isCreation, isBallot, isIssuerCall, isCall
  <2> QED
    BY <1>5, <2>1 DEF addVote, updateVote, skip, x
<1>6. CASE notifyIssuerNominatedDismissed(x)
  <2>1. isIssuerCall(x) /\ x.call \in IssuerCalls /\ UNCHANGED << votes, selection >>
    BY <1>4, <1>6 DEF notifyIssuerNominatedDismissed
  <2>2. Written(x)
    BY <1>4, <1>6, <2>1 DEF notifyIssuerNominatedDismissed, Written, IssuerCalls
  <2> QED
    BY <2>1, <2>2 DEF x
<1>7. CASE handleIssuerSelectedUnselected(x)
  <2>1. /\ isIssuerCall(x) /\ x.call \in IssuerCalls /\ UNCHANGED << votes, selection >>
        /\ x.call.method = "setIssuerSelection"
        /\ writes([issuer |-> x.call.issuer, loc |-> x.signer, selected |-> x.call.selected])
    BY <1>4, <1>7 DEF handleIssuerSelectedUnselected
  <2>2. x.call.issuer \in Issuers /\ x.call.selected \in BOOLEAN
    BY <2>1 DEF IssuerCalls
  <2> QED
    BY <1>4, <2>1, <2>2 DEF Written, x
<1> QED
  BY <1>5, <1>6, <1>7 DEF apply, x

\* The call that is applied is the last of those that are done.
LEMMA LastApplied ==
    ASSUME Typed, UNCHANGED blocks,
           NEW b \in DOMAIN blocks, NEW k \in DOMAIN Calls(b), Applies(b, k), NEW l, NEW i
    PROVE  /\ ~tells(Calls(b)[k], l, i) => (AllToldDone(l, i)' <=> AllToldDone(l, i))
           /\ tells(Calls(b)[k], l, i) /\ AllToldDone(l, i)' => (LastSelects(l, i) <=> selects(Calls(b)[k]))
<1>1. \A c : Calls(c)' = Calls(c)
  BY SameBlocks
<1>2. AllToldDone(l, i)' <=> \A c \in DOMAIN blocks : \A j \in DOMAIN Calls(c) :
                                 tells(Calls(c)[j], l, i) => Done(c, j) \/ (c = b /\ j = k)
  BY <1>1 DEF AllToldDone, Applies
<1>3. ~tells(Calls(b)[k], l, i) => (AllToldDone(l, i)' <=> AllToldDone(l, i))
  BY <1>2 DEF AllToldDone
<1>4. ASSUME tells(Calls(b)[k], l, i), AllToldDone(l, i)'
      PROVE  LastSelects(l, i) <=> selects(Calls(b)[k])
  <2>1. \A c \in DOMAIN blocks : \A j \in DOMAIN Calls(c) :
           tells(Calls(c)[j], l, i) => After(b, k, c, j) \/ (c = b /\ j = k)
    BY <1>2, <1>4 DEF Applies
  <2>2. \A c \in DOMAIN blocks : \A j \in DOMAIN Calls(c) : c \in Nat /\ j \in Nat
    BY Shape
  <2>3. \A c \in DOMAIN blocks : \A j \in DOMAIN Calls(c) :
           /\ After(b, k, c, j) => ~After(c, j, b, k)
           /\ ~After(b, k, b, k)
    BY <2>2 DEF After
  <2>4. selects(Calls(b)[k]) => LastSelects(l, i)
    BY <1>4, <2>1, <2>3 DEF LastSelects
  <2>5. LastSelects(l, i) => selects(Calls(b)[k])
    <3> SUFFICES ASSUME LastSelects(l, i) PROVE selects(Calls(b)[k])
      OBVIOUS
    <3>1. PICK c \in DOMAIN blocks : \E j \in DOMAIN Calls(c) :
            /\ tells(Calls(c)[j], l, i) /\ selects(Calls(c)[j])
            /\ \A d \in DOMAIN blocks : \A m \in DOMAIN Calls(d) :
                  tells(Calls(d)[m], l, i) => ~After(d, m, c, j)
      BY DEF LastSelects
    <3>2. PICK j \in DOMAIN Calls(c) :
            /\ tells(Calls(c)[j], l, i) /\ selects(Calls(c)[j])
            /\ \A d \in DOMAIN blocks : \A m \in DOMAIN Calls(d) :
                  tells(Calls(d)[m], l, i) => ~After(d, m, c, j)
      BY <3>1
    <3>3. ~After(b, k, c, j)
      BY <1>4, <3>2
    <3>4. c = b /\ j = k
      BY <2>1, <3>2, <3>3
    <3> QED
      BY <3>2, <3>4
  <2> QED
    BY <2>4, <2>5
<1> QED
  BY <1>3, <1>4

LEMMA ShownApplied ==
    ASSUME Typed, ShownFollows, apply
    PROVE  ShownFollows'
<1> DEFINE x == Head(job.todo)
<1>1. UNCHANGED << blocks, chain, syncPoint, transactions, drops >>
  BY ApplyIs
<1>2. PICK b \in DOMAIN blocks : \E k \in DOMAIN Calls(b) : Applies(b, k)
  BY ApplyIs, Applying
<1>3. PICK k \in DOMAIN Calls(b) : Applies(b, k)
  BY <1>2
<1>4. x = Calls(b)[k]
  BY <1>3 DEF Applies
<1>5. \/ ~isIssuerCall(x) /\ UNCHANGED << pending, unsure, selection >>
      \/ isIssuerCall(x) /\ Written(x) /\ UNCHANGED << votes, selection >>
  BY AppliesWrites
<1> HIDE DEF x
<1> SUFFICES ASSUME NEW l \in Locs, NEW i \in Issuers \ unsure', AllToldDone(l, i)'
             PROVE  shown(l, i)' <=> LastSelects(l, i)'
  BY DEF ShownFollows
<1>6. LastSelects(l, i)' <=> LastSelects(l, i)
  BY <1>1, SameBlocks
<1>7. /\ ~tells(x, l, i) => AllToldDone(l, i)
      /\ tells(x, l, i) => (LastSelects(l, i) <=> selects(x))
  BY <1>1, <1>3, <1>4, LastApplied
<1>8. AllToldDone(l, i) /\ i \notin unsure => (shown(l, i) <=> LastSelects(l, i))
  BY DEF ShownFollows
<1>9. CASE UNCHANGED << pending, unsure, selection >> /\ ~tells(x, l, i)
  BY <1>6, <1>7, <1>8, <1>9, ShownUnchanged
<1>10. ~isIssuerCall(x) => ~tells(x, l, i)
  BY DEF tells
<1>11. CASE isIssuerCall(x) /\ Written(x) /\ UNCHANGED << votes, selection >>
  <2>1. CASE x.call.method = "nominateIssuer"
    <3>1. UNCHANGED << pending, unsure >> /\ ~tells(x, l, i)
      BY <1>11, <2>1 DEF Written, tells
    <3> QED
      BY <1>9, <1>11, <3>1
  <2>2. CASE x.call.method # "nominateIssuer"
    <3>1. PICK w : /\ writes(w) /\ w.issuer = x.call.issuer /\ x.call.issuer \in Issuers
                   /\ \/ x.call.method = "dismissIssuer" /\ w.loc = None
                      \/ /\ x.call.method = "setIssuerSelection" /\ w.loc = x.signer
                         /\ w.selected = x.call.selected /\ x.signer \in Locs
      <4>1. CASE x.call.method = "dismissIssuer"
        <5> DEFINE w == [issuer |-> x.call.issuer, loc |-> None]
        <5>1. w.issuer = x.call.issuer /\ w.loc = None
          OBVIOUS
        <5>2. writes(w) /\ x.call.issuer \in Issuers
          BY <1>11, <2>2, <4>1 DEF Written
        <5> HIDE DEF w
        <5> QED
          BY <4>1, <5>1, <5>2
      <4>2. CASE x.call.method = "setIssuerSelection"
        <5> DEFINE w == [issuer |-> x.call.issuer, loc |-> x.signer, selected |-> x.call.selected]
        <5>1. w.issuer = x.call.issuer /\ w.loc = x.signer /\ w.selected = x.call.selected
          OBVIOUS
        <5>2. writes(w) /\ x.call.issuer \in Issuers /\ x.signer \in Locs
          BY <1>11, <2>2, <4>2 DEF Written
        <5> HIDE DEF w
        <5> QED
          BY <4>2, <5>1, <5>2
      <4> QED
        BY <1>11, <2>2, <4>1, <4>2 DEF Written
    <3>2. /\ pending' = pending \union { w }
          /\ unsure' = unsure \union { v.issuer : v \in { v \in pending : v.issuer = w.issuer } }
      BY <3>1 DEF writes
    <3>3. i \notin unsure
      BY <3>2
    <3>4. None \notin Locs
      BY ConstantsAssumption DEF Locs
    <3>5. CASE w.issuer # i
      <4>1. ~tells(x, l, i)
        BY <3>1, <3>5 DEF tells
      <4>2. ~concerns(w, l, i)
        BY <3>5 DEF concerns
      <4>3. shown(l, i)' <=> shown(l, i)
        <5>1. shown(l, i)' <=> IF \E v \in pending' : concerns(v, l, i)
                               THEN \E v \in pending' : concerns(v, l, i) /\ v.loc # None /\ v.selected
                               ELSE selection'[<< l, i >>] = TRUE
          BY DEF shown, concerns
        <5>2. /\ (\E v \in pending' : concerns(v, l, i)) <=> (\E v \in pending : concerns(v, l, i))
              /\ (\E v \in pending' : concerns(v, l, i) /\ v.loc # None /\ v.selected)
                    <=> (\E v \in pending : concerns(v, l, i) /\ v.loc # None /\ v.selected)
          BY <3>2, <4>2
        <5> QED
          BY <1>11, <5>1, <5>2 DEF shown
      <4> QED
        BY <1>6, <1>7, <1>8, <3>3, <4>1, <4>3
    <3>6. CASE w.issuer = i
      <4>1. \A v \in pending : v.issuer # i
        BY <3>2, <3>6
      <4>2. \A v \in pending' : concerns(v, l, i) <=> v = w /\ w.loc \in { None, l }
        BY <3>2, <3>6, <4>1 DEF concerns
      <4>3. shown(l, i)' <=> IF \E v \in pending' : concerns(v, l, i)
                             THEN \E v \in pending' : concerns(v, l, i) /\ v.loc # None /\ v.selected
                             ELSE selection'[<< l, i >>] = TRUE
        BY DEF shown, concerns
      <4>4. w \in pending'
        BY <3>2
      <4>5. shown(l, i)' <=> IF w.loc \in { None, l } THEN w.loc # None /\ w.selected
                             ELSE selection'[<< l, i >>] = TRUE
        BY <4>2, <4>3, <4>4
      <4>6. CASE w.loc \in { None, l }
        <5>1. tells(x, l, i)
          BY <1>11, <3>1, <3>4, <3>6, <4>6 DEF tells
        <5>2. selects(x) <=> w.loc # None /\ w.selected
          BY <3>1, <3>4, <4>6 DEF selects
        <5> QED
          BY <1>6, <1>7, <4>5, <4>6, <5>1, <5>2
      <4>7. CASE w.loc \notin { None, l }
        <5>1. ~tells(x, l, i)
          BY <3>1, <4>7 DEF tells
        <5>2. shown(l, i) <=> selection[<< l, i >>] = TRUE
          BY <4>1, ShownAlone
        <5> QED
          BY <1>6, <1>7, <1>8, <1>11, <3>3, <4>5, <4>7, <5>1, <5>2
      <4> QED
        BY <4>6, <4>7
    <3> QED
      BY <3>5, <3>6
  <2> QED
    BY <2>1, <2>2
<1> QED
  BY <1>5, <1>9, <1>10, <1>11

\* When what is told does not change, no more is done, and what is shown for the
\* issuers that are certain neither.
LEMMA ShownLeft ==
    ASSUME ShownFollows, UNCHANGED blocks, Back, unsure \subseteq unsure',
           \A l \in Locs, i \in Issuers \ unsure' : shown(l, i)' <=> shown(l, i)
    PROVE  ShownFollows'
<1> SUFFICES ASSUME NEW l \in Locs, NEW i \in Issuers \ unsure', AllToldDone(l, i)'
             PROVE  shown(l, i)' <=> LastSelects(l, i)'
  BY DEF ShownFollows
<1>1. AllToldDone(l, i)
  BY SameBlocks DEF AllToldDone, Back
<1>2. shown(l, i) <=> LastSelects(l, i)
  BY <1>1 DEF ShownFollows
<1> QED
  BY <1>2, SameBlocks

LEMMA ShownGrowing ==
    ASSUME Typed, ShownFollows, Finalize
    PROVE  ShownFollows'
<1> DEFINE n == Len(blocks)
<1>1. PICK e : /\ Step(e, chain, chain')
               /\ DOMAIN blocks' = 1 .. n + 1
               /\ blocks'[n + 1] = e
               /\ \A b \in DOMAIN blocks : blocks'[b] = blocks[b]
               /\ \A b, k : Done(b, k)' <=> Done(b, k)
               /\ \A k \in DOMAIN unwrapExtrinsics(e) : ~Done(n + 1, k)
               /\ UNCHANGED << unsure, selection, pending >>
  BY Growing
<1>2. n \in Nat /\ DOMAIN blocks = 1 .. n
  BY Shape
<1> HIDE DEF n
<1> DEFINE C(b) == unwrapExtrinsics(blocks'[b])
<1>3. \A b \in DOMAIN blocks : C(b) = Calls(b) /\ b \in DOMAIN blocks'
  BY <1>1, <1>2 DEF Calls
<1>4. \A b \in DOMAIN blocks' : b \in DOMAIN blocks \/ b = n + 1
  BY <1>1, <1>2
<1>5. n + 1 \in DOMAIN blocks' /\ C(n + 1) = unwrapExtrinsics(e)
  BY <1>1, <1>2
<1> SUFFICES ASSUME NEW l \in Locs, NEW i \in Issuers \ unsure, AllToldDone(l, i)'
             PROVE  shown(l, i)' <=> LastSelects(l, i)'
  BY <1>1 DEF ShownFollows
<1>6. \A b \in DOMAIN blocks' : \A k \in DOMAIN C(b) : tells(C(b)[k], l, i) => Done(b, k)
  BY <1>1 DEF AllToldDone, Calls
<1>7. LastSelects(l, i)' <=>
        \E b \in DOMAIN blocks' : \E k \in DOMAIN C(b) :
          /\ tells(C(b)[k], l, i) /\ selects(C(b)[k])
          /\ \A c \in DOMAIN blocks' : \A j \in DOMAIN C(c) :
                tells(C(c)[j], l, i) => ~After(c, j, b, k)
  BY DEF LastSelects, Calls
<1> HIDE DEF C
<1>8. \A k \in DOMAIN C(n + 1) : ~tells(C(n + 1)[k], l, i)
  BY <1>1, <1>5, <1>6
<1>9. AllToldDone(l, i)
  BY <1>3, <1>6 DEF AllToldDone
<1>10. LastSelects(l, i) => LastSelects(l, i)'
  <2> SUFFICES ASSUME LastSelects(l, i) PROVE LastSelects(l, i)'
    OBVIOUS
  <2>1. PICK b \in DOMAIN blocks : \E k \in DOMAIN Calls(b) :
          /\ tells(Calls(b)[k], l, i) /\ selects(Calls(b)[k])
          /\ \A c \in DOMAIN blocks : \A j \in DOMAIN Calls(c) :
                tells(Calls(c)[j], l, i) => ~After(c, j, b, k)
    BY DEF LastSelects
  <2>2. PICK k \in DOMAIN Calls(b) :
          /\ tells(Calls(b)[k], l, i) /\ selects(Calls(b)[k])
          /\ \A c \in DOMAIN blocks : \A j \in DOMAIN Calls(c) :
                tells(Calls(c)[j], l, i) => ~After(c, j, b, k)
    BY <2>1
  <2>3. \A c \in DOMAIN blocks' : \A j \in DOMAIN C(c) : tells(C(c)[j], l, i) => ~After(c, j, b, k)
    BY <1>3, <1>4, <1>8, <2>2
  <2>4. b \in DOMAIN blocks' /\ k \in DOMAIN C(b) /\ tells(C(b)[k], l, i) /\ selects(C(b)[k])
    BY <1>3, <2>2
  <2> QED
    BY <1>7, <2>3, <2>4
<1>11. LastSelects(l, i)' => LastSelects(l, i)
  <2> SUFFICES ASSUME LastSelects(l, i)' PROVE LastSelects(l, i)
    OBVIOUS
  <2>1. PICK b \in DOMAIN blocks' : \E k \in DOMAIN C(b) :
          /\ tells(C(b)[k], l, i) /\ selects(C(b)[k])
          /\ \A c \in DOMAIN blocks' : \A j \in DOMAIN C(c) :
                tells(C(c)[j], l, i) => ~After(c, j, b, k)
    BY <1>7
  <2>2. PICK k \in DOMAIN C(b) :
          /\ tells(C(b)[k], l, i) /\ selects(C(b)[k])
          /\ \A c \in DOMAIN blocks' : \A j \in DOMAIN C(c) :
                tells(C(c)[j], l, i) => ~After(c, j, b, k)
    BY <2>1
  <2>3. b \in DOMAIN blocks
    BY <1>4, <1>8, <2>2
  <2>4. \A c \in DOMAIN blocks : \A j \in DOMAIN Calls(c) : tells(Calls(c)[j], l, i) => ~After(c, j, b, k)
    BY <1>3, <2>2
  <2> QED
    BY <1>3, <2>2, <2>3, <2>4 DEF LastSelects
<1> QED
  BY <1>1, <1>9, <1>10, <1>11, ShownUnchanged DEF ShownFollows

LEMMA ShownFollowsKept ==
    ASSUME Typed, OneWrite, ShownFollows, Next
    PROVE  ShownFollows'
<1>1. Same => Back
  BY DEF Same, Back
<1>2. CASE startJob \/ nextBlock \/ sync
  BY <1>1, <1>2, MovingOn, ShownLeft, ShownUnchanged DEF Untouched
<1>3. CASE dropJob \/ crash
  <2>1. /\ Back /\ Untouched
        /\ \/ UNCHANGED << unsure, pending >>
           \/ pending' = {} /\ unsure' = unsure \union { w.issuer : w \in pending }
    BY <1>3, GoingBack
  <2>2. CASE UNCHANGED << unsure, pending >>
    BY <2>1, <2>2, ShownLeft, ShownUnchanged DEF Untouched
  <2>3. CASE pending' = {} /\ unsure' = unsure \union { w.issuer : w \in pending }
    <3>1. \A l \in Locs, i \in Issuers \ unsure' : shown(l, i)' <=> shown(l, i)
      <4> SUFFICES ASSUME NEW l \in Locs, NEW i \in Issuers \ unsure' PROVE shown(l, i)' <=> shown(l, i)
        OBVIOUS
      <4>1. \A w \in pending : w.issuer # i
        BY <2>3
      <4>2. shown(l, i)' <=> selection'[<< l, i >>] = TRUE
        BY <2>3 DEF shown, concerns
      <4> QED
        BY <2>1, <4>1, <4>2, ShownAlone DEF Untouched
    <3> QED
      BY <2>1, <2>3, <3>1, ShownLeft DEF Untouched
  <2> QED
    BY <2>1, <2>2, <2>3
<1>4. CASE addTransaction
  <2>1. UNCHANGED << blocks, pending, selection, unsure >> /\ At' = At /\ Upto' = Upto
    BY <1>4, Adding
  <2>2. Back
    BY <2>1 DEF Back, Done
  <2> QED
    BY <2>1, <2>2, ShownLeft, ShownUnchanged
<1>5. CASE writeSelection
  <2>1. UNCHANGED << blocks, unsure >> /\ Back
    BY <1>5, WriteIs DEF Back
  <2> QED
    BY <1>5, <2>1, ShownLeft, ShownWritten
<1> QED
  BY <1>2, <1>3, <1>4, <1>5, ShownGrowing, ShownApplied DEF Next, Finalize

-----------------------------------------------------------------------------
(***************************************************************************)
(* The votes of the chain.                                                 *)
(***************************************************************************)

LEMMA ToldEvent ==
    ASSUME NEW e, Finalized(e), Told(e)
    PROVE  /\ Accepted(e) /\ e.signer \in Officers /\ of(e) \in VoteId
           /\ Created(e) => ~Cast(e)
           /\ Cast(e) => LET event == e.events[1]
                         IN  /\ event.voter \in Officers /\ event.result \in VoteResult
                             /\ event.closed \in BOOLEAN /\ event.approved \in BOOLEAN
                             /\ event.result # None /\ outcomeOf(event) # "PENDING"
<1>1. Len(e.events) = 1 /\ e.events[1].method \in { "VoteCreated", "VoteUpdated" }
  BY DEF Told, Created, Cast
<1>2. ~Refused(e)
  BY <1>1 DEF Refused
<1>3. ~Charging(e)
  <2>1. e.events # << >>
    BY <1>1
  <2>2. \A from, call : moved(from, call)[1].method = "Transfer"
    BY DEF moved
  <2>3. \A s : \A x \in Charges(s) : x.method \notin { "VoteCreated", "VoteUpdated" }
    BY DEF Charges
  <2>4. e.events \notin Seq(Charges(e.signer))
    BY <1>1, <2>3
  <2> QED
    BY <1>1, <2>1, <2>2, <2>4 DEF Charging, Moves
<1>4. Accepted(e)
  BY <1>2, <1>3 DEF Finalized
<1>5. e.events[1] \in VoteEvent
  BY <1>1, <1>4 DEF Accepted
<1>6. of(e) \in VoteId
  BY <1>5 DEF VoteEvent, of
<1>7. Cast(e) => /\ e.events[1].voter \in Officers /\ e.events[1].result \in VoteResult
                 /\ e.events[1].closed \in BOOLEAN /\ e.events[1].approved \in BOOLEAN
  BY <1>5 DEF VoteEvent, Cast
<1> QED
  BY <1>4, <1>6, <1>7, ConstantsAssumption DEF Accepted, Created, Cast, outcomeOf

Told3 == CreationsTold /\ BallotsTold /\ ToldOnce

\* Nothing is told of a vote.
LEMMA NothingTold ==
    ASSUME NEW n \in Nat, DOMAIN blocks = 1 .. n, DOMAIN blocks' = 1 .. n + 1,
           \A b \in DOMAIN blocks : blocks'[b] = blocks[b],
           ~Told(blocks'[n + 1]), chain'.votes = chain.votes, Told3
    PROVE  Told3'
<1>1. \A b \in DOMAIN blocks' : b \in DOMAIN blocks \/ b = n + 1
  OBVIOUS
<1>2. \A b \in DOMAIN blocks : b \in DOMAIN blocks' /\ \A a \in 1 .. b - 1 : a \in DOMAIN blocks
  OBVIOUS
<1>3. ~Created(blocks'[n + 1]) /\ ~Cast(blocks'[n + 1])
  BY DEF Told
<1>4. CreationsTold'
  <2>1. \A b \in DOMAIN blocks' : Created(blocks'[b]) =>
          of(blocks'[b]) \in DOMAIN chain.votes /\ chain.votes[of(blocks'[b])].loc = blocks'[b].signer
    BY <1>1, <1>3 DEF Told3, CreationsTold
  <2>2. \A v \in DOMAIN chain.votes : \E b \in DOMAIN blocks' : Created(blocks'[b]) /\ of(blocks'[b]) = v
    BY <1>2 DEF Told3, CreationsTold
  <2> QED
    BY <2>1, <2>2 DEF CreationsTold, Created, of
<1>5. BallotsTold'
  <2>1. ASSUME NEW b \in DOMAIN blocks', Cast(blocks'[b])
        PROVE  LET event == blocks'[b].events[1]
               IN  /\ event.vote \in DOMAIN chain.votes
                   /\ chain.votes[event.vote].ballots[event.voter] = event.result
                   /\ event.closed => chain.votes[event.vote].status = outcomeOf(event)
                   /\ \E a \in 1 .. b - 1 : Created(blocks'[a]) /\ of(blocks'[a]) = event.vote
    <3>1. b \in DOMAIN blocks /\ Cast(blocks[b]) /\ blocks'[b] = blocks[b]
      BY <1>1, <1>3, <2>1
    <3> QED
      BY <1>2, <3>1 DEF Told3, BallotsTold
  <2>2. \A v \in DOMAIN chain.votes, o \in Officers :
          chain.votes[v].ballots[o] # None =>
              \E b \in DOMAIN blocks' : Cast(blocks'[b]) /\ of(blocks'[b]) = v /\ blocks'[b].events[1].voter = o
    BY <1>2 DEF Told3, BallotsTold
  <2>3. \A v \in DOMAIN chain.votes :
          chain.votes[v].status # "PENDING" =>
              \E b \in DOMAIN blocks' : Cast(blocks'[b]) /\ of(blocks'[b]) = v /\ blocks'[b].events[1].closed
    BY <1>2 DEF Told3, BallotsTold
  <2> QED
    BY <2>1, <2>2, <2>3 DEF BallotsTold, Created, Cast, of, outcomeOf
<1>6. ToldOnce'
  <2> SUFFICES ASSUME NEW a \in DOMAIN blocks', NEW b \in DOMAIN blocks',
                      Told(blocks'[a]), Cast(blocks'[b]), of(blocks'[a]) = of(blocks'[b])
               PROVE  /\ Created(blocks'[a]) => a < b
                      /\ Cast(blocks'[a]) /\ blocks'[a].events[1].voter = blocks'[b].events[1].voter => a = b
                      /\ Cast(blocks'[a]) /\ blocks'[a].events[1].closed /\ blocks'[b].events[1].closed => a = b
    BY DEF ToldOnce, Told, Created, Cast, of
  <2>1. a \in DOMAIN blocks /\ b \in DOMAIN blocks
    BY <1>1, <1>3
  <2> QED
    BY <2>1 DEF Told3, ToldOnce
<1> QED
  BY <1>4, <1>5, <1>6 DEF Told3

\* The same of the votes cv of the chain and the blocks bs.
ToldBy(cv, bs) ==
    /\ \A b \in DOMAIN bs : Created(bs[b]) =>
          of(bs[b]) \in DOMAIN cv /\ cv[of(bs[b])].loc = bs[b].signer
    /\ \A v \in DOMAIN cv : \E b \in DOMAIN bs : Created(bs[b]) /\ of(bs[b]) = v
    /\ \A b \in DOMAIN bs : Cast(bs[b]) =>
          LET event == bs[b].events[1]
          IN  /\ event.vote \in DOMAIN cv
              /\ cv[event.vote].ballots[event.voter] = event.result
              /\ event.closed => cv[event.vote].status = outcomeOf(event)
              /\ \E a \in 1 .. b - 1 : Created(bs[a]) /\ of(bs[a]) = event.vote
    /\ \A v \in DOMAIN cv, o \in Officers :
          cv[v].ballots[o] # None =>
              \E b \in DOMAIN bs : Cast(bs[b]) /\ of(bs[b]) = v /\ bs[b].events[1].voter = o
    /\ \A v \in DOMAIN cv :
          cv[v].status # "PENDING" =>
              \E b \in DOMAIN bs : Cast(bs[b]) /\ of(bs[b]) = v /\ bs[b].events[1].closed
    /\ \A a, b \in DOMAIN bs :
          Told(bs[a]) /\ Cast(bs[b]) /\ of(bs[a]) = of(bs[b]) =>
             /\ Created(bs[a]) => a < b
             /\ Cast(bs[a]) /\ bs[a].events[1].voter = bs[b].events[1].voter => a = b
             /\ Cast(bs[a]) /\ bs[a].events[1].closed /\ bs[b].events[1].closed => a = b

LEMMA Told3Next ==
    ASSUME ToldBy(chain'.votes, blocks')
    PROVE  Told3'
<1>1. CreationsTold'
  BY DEF CreationsTold, Created, of, ToldBy
<1>2. BallotsTold'
  BY DEF BallotsTold, Created, Cast, of, outcomeOf, ToldBy
<1>3. ToldOnce'
  BY DEF ToldOnce, Told, Created, Cast, of, ToldBy
<1> QED
  BY <1>1, <1>2, <1>3 DEF Told3

LEMMA CreationTold ==
    ASSUME NEW n \in Nat, DOMAIN blocks = 1 .. n, DOMAIN blocks' = 1 .. n + 1,
           \A b \in DOMAIN blocks : blocks'[b] = blocks[b],
           NEW e, e = blocks'[n + 1], Finalized(e), e.signer \in Officers,
           VoteAdded(chain, chain', e.signer, e.events), chain \in Chain, Told3
    PROVE  Told3'
<1> DEFINE cv == chain.votes
<1> DEFINE dv == chain'.votes
<1> DEFINE bs == blocks'
<1> DEFINE m == Len(cv)
<1>1. /\ Created(e) /\ of(e) = m + 1
      /\ dv = Append(cv, newVote(e.signer))
  BY DEF VoteAdded, Created, of
<1>2. ~Cast(e) /\ Told(e)
  BY <1>1 DEF Created, Cast, Told
<1>3. /\ newVote(e.signer) \in Vote /\ newVote(e.signer).loc = e.signer
      /\ newVote(e.signer).status = "PENDING" /\ \A o \in Officers : newVote(e.signer).ballots[o] = None
  BY DEF newVote, Vote, Locs, VoteStatus, Ballots
<1>4. /\ m \in Nat /\ DOMAIN cv = 1 .. m /\ DOMAIN dv = 1 .. m + 1
      /\ \A v \in DOMAIN cv : dv[v] = cv[v]
      /\ dv[m + 1] = newVote(e.signer)
  BY <1>1, <1>3 DEF Chain
<1> HIDE DEF m
<1>5. \A v \in DOMAIN dv : v \in DOMAIN cv \/ v = m + 1
  BY <1>4
<1>6. \A v \in DOMAIN cv : v \in DOMAIN dv /\ v # m + 1
  BY <1>4
<1>7. /\ \A b \in DOMAIN bs : b \in DOMAIN blocks \/ b = n + 1
      /\ \A b \in DOMAIN blocks : b \in DOMAIN bs /\ b < n + 1 /\ b # n + 1
      /\ n + 1 \in DOMAIN bs
      /\ \A b \in DOMAIN blocks : bs[b] = blocks[b] /\ \A a \in 1 .. b - 1 : a \in DOMAIN blocks
      /\ bs[n + 1] = e
  OBVIOUS
<1> HIDE DEF cv, dv, bs
<1>8. \A b \in DOMAIN bs : Created(bs[b]) => of(bs[b]) \in DOMAIN dv /\ dv[of(bs[b])].loc = bs[b].signer
  <2> SUFFICES ASSUME NEW b \in DOMAIN bs, Created(bs[b])
               PROVE  of(bs[b]) \in DOMAIN dv /\ dv[of(bs[b])].loc = bs[b].signer
    OBVIOUS
  <2>1. CASE b = n + 1
    BY <1>1, <1>3, <1>4, <1>7, <2>1
  <2>2. CASE b \in DOMAIN blocks
    <3>1. of(blocks[b]) \in DOMAIN cv /\ cv[of(blocks[b])].loc = blocks[b].signer
      BY <1>7, <2>2 DEF Told3, CreationsTold, cv
    <3> QED
      BY <1>4, <1>6, <1>7, <2>2, <3>1
  <2> QED
    BY <1>7, <2>1, <2>2
<1>9. \A v \in DOMAIN dv : \E b \in DOMAIN bs : Created(bs[b]) /\ of(bs[b]) = v
  BY <1>1, <1>5, <1>7 DEF Told3, CreationsTold, cv
<1>10. ASSUME NEW b \in DOMAIN bs, Cast(bs[b])
       PROVE  b \in DOMAIN blocks /\ Cast(blocks[b]) /\ bs[b] = blocks[b]
  BY <1>2, <1>7, <1>10
<1>11. ASSUME NEW b \in DOMAIN bs, Cast(bs[b])
       PROVE  LET event == bs[b].events[1]
              IN  /\ event.vote \in DOMAIN dv
                  /\ dv[event.vote].ballots[event.voter] = event.result
                  /\ event.closed => dv[event.vote].status = outcomeOf(event)
                  /\ \E a \in 1 .. b - 1 : Created(bs[a]) /\ of(bs[a]) = event.vote
  <2>1. b \in DOMAIN blocks /\ Cast(blocks[b]) /\ bs[b] = blocks[b]
    BY <1>10, <1>11
  <2> DEFINE event == blocks[b].events[1]
  <2>2. /\ event.vote \in DOMAIN cv
        /\ cv[event.vote].ballots[event.voter] = event.result
        /\ event.closed => cv[event.vote].status = outcomeOf(event)
        /\ \E a \in 1 .. b - 1 : Created(blocks[a]) /\ of(blocks[a]) = event.vote
    BY <2>1 DEF Told3, BallotsTold, cv
  <2> HIDE DEF event
  <2>3. /\ event.vote \in DOMAIN dv
        /\ dv[event.vote].ballots[event.voter] = event.result
        /\ event.closed => dv[event.vote].status = outcomeOf(event)
        /\ \E a \in 1 .. b - 1 : Created(bs[a]) /\ of(bs[a]) = event.vote
    BY <1>4, <1>6, <1>7, <2>1, <2>2
  <2> QED
    BY <2>1, <2>3 DEF event
<1>12. \A v \in DOMAIN dv, o \in Officers :
         dv[v].ballots[o] # None =>
            \E b \in DOMAIN bs : Cast(bs[b]) /\ of(bs[b]) = v /\ bs[b].events[1].voter = o
  BY <1>3, <1>4, <1>5, <1>7 DEF Told3, BallotsTold, cv
<1>13. \A v \in DOMAIN dv :
         dv[v].status # "PENDING" =>
            \E b \in DOMAIN bs : Cast(bs[b]) /\ of(bs[b]) = v /\ bs[b].events[1].closed
  BY <1>3, <1>4, <1>5, <1>7 DEF Told3, BallotsTold, cv
<1>14. ASSUME NEW a \in DOMAIN bs, NEW b \in DOMAIN bs, Told(bs[a]), Cast(bs[b]), of(bs[a]) = of(bs[b])
       PROVE  /\ Created(bs[a]) => a < b
              /\ Cast(bs[a]) /\ bs[a].events[1].voter = bs[b].events[1].voter => a = b
              /\ Cast(bs[a]) /\ bs[a].events[1].closed /\ bs[b].events[1].closed => a = b
  <2>1. b \in DOMAIN blocks /\ Cast(blocks[b]) /\ bs[b] = blocks[b]
    BY <1>10, <1>14
  <2>2. of(blocks[b]) \in DOMAIN cv
    BY <2>1 DEF Told3, BallotsTold, of, cv
  <2>3. a \in DOMAIN blocks /\ bs[a] = blocks[a]
    BY <1>1, <1>6, <1>7, <1>14, <2>1, <2>2
  <2> QED
    BY <1>14, <2>1, <2>3 DEF Told3, ToldOnce
<1>15. ToldBy(dv, bs)
  BY <1>8, <1>9, <1>11, <1>12, <1>13, <1>14 DEF ToldBy
<1> QED
  BY <1>15, Told3Next DEF dv, bs

LEMMA BallotTold ==
    ASSUME NEW n \in Nat, DOMAIN blocks = 1 .. n, DOMAIN blocks' = 1 .. n + 1,
           \A b \in DOMAIN blocks : blocks'[b] = blocks[b] /\ Finalized(blocks[b]),
           NEW e, e = blocks'[n + 1], Finalized(e),
           BallotAdded(chain, chain', e.signer, e.events), chain \in Chain, Told3
    PROVE  Told3'
<1> DEFINE cv == chain.votes
<1> DEFINE dv == chain'.votes
<1> DEFINE bs == blocks'
<1> DEFINE ev == e.events[1]
<1> DEFINE v == ev.vote
<1> DEFINE o == e.signer
<1>1. /\ Cast(e) /\ Told(e) /\ of(e) = v
      /\ v \in DOMAIN cv /\ cv[v].status = "PENDING" /\ cv[v].ballots[o] = None
      /\ ev.voter = o
      /\ dv = [cv EXCEPT ![v] = [ loc     |-> cv[v].loc,
                                  status  |-> IF ev.closed THEN outcomeOf(ev) ELSE "PENDING",
                                  ballots |-> [cv[v].ballots EXCEPT ![o] = ev.result] ]]
  BY DEF BallotAdded, Cast, Told, of
<1>2. o \in Officers /\ ~Created(e) /\ ev.result # None /\ outcomeOf(ev) # "PENDING"
  BY <1>1, ToldEvent
<1>3. /\ DOMAIN dv = DOMAIN cv
      /\ \A w \in DOMAIN cv : w # v => dv[w] = cv[w]
      /\ dv[v].loc = cv[v].loc
      /\ dv[v].status = IF ev.closed THEN outcomeOf(ev) ELSE "PENDING"
      /\ dv[v].ballots = [cv[v].ballots EXCEPT ![o] = ev.result]
  <2> DEFINE status == IF ev.closed THEN outcomeOf(ev) ELSE "PENDING"
  <2> DEFINE ballots == [cv[v].ballots EXCEPT ![o] = ev.result]
  <2> DEFINE loc == cv[v].loc
  <2> DEFINE w == [loc |-> loc, status |-> status, ballots |-> ballots]
  <2>1. w.loc = loc /\ w.status = status /\ w.ballots = ballots
    <3> HIDE DEF loc, status, ballots
    <3> QED  OBVIOUS
  <2>2. dv = [cv EXCEPT ![v] = w]
    BY <1>1
  <2> HIDE DEF w, cv, dv, v
  <2>3. DOMAIN dv = DOMAIN cv /\ dv[v] = w /\ \A x \in DOMAIN cv : x # v => dv[x] = cv[x]
    BY <1>1, <2>2 DEF cv, dv, Chain
  <2> QED
    BY <2>1, <2>3
<1>4. cv[v].ballots \in Ballots
  <2>1. cv \in Seq(Vote) /\ v \in DOMAIN cv
    BY <1>1 DEF Chain
  <2> HIDE DEF cv, v
  <2>2. cv[v] \in Vote
    BY <2>1
  <2> QED
    BY <2>2 DEF Vote
<1>5. dv[v].ballots[o] = ev.result /\ \A p \in Officers : p # o => dv[v].ballots[p] = cv[v].ballots[p]
  BY <1>2, <1>3, <1>4 DEF Ballots
<1>6. /\ \A b \in DOMAIN bs : b \in DOMAIN blocks \/ b = n + 1
      /\ \A b \in DOMAIN blocks : b \in DOMAIN bs /\ b < n + 1 /\ b # n + 1 /\ b \in 1 .. (n + 1) - 1
      /\ n + 1 \in DOMAIN bs
      /\ \A b \in DOMAIN blocks : bs[b] = blocks[b] /\ \A a \in 1 .. b - 1 : a \in DOMAIN blocks
      /\ bs[n + 1] = e
  OBVIOUS
<1> HIDE DEF cv, dv, bs, ev, v, o
\* the older ballots on the vote are of others, and none closed it
<1>7. ASSUME NEW b \in DOMAIN blocks, Cast(blocks[b])
      PROVE  LET event == blocks[b].events[1]
             IN  /\ event.vote \in DOMAIN cv /\ event.voter \in Officers
                 /\ event.vote = v => event.voter # o /\ ~event.closed
                 /\ dv[event.vote].ballots[event.voter] = event.result
                 /\ event.closed => dv[event.vote].status = outcomeOf(event)
                 /\ \E a \in 1 .. b - 1 : Created(bs[a]) /\ of(bs[a]) = event.vote
  <2> DEFINE event == blocks[b].events[1]
  <2>1. /\ event.vote \in DOMAIN cv
        /\ cv[event.vote].ballots[event.voter] = event.result
        /\ event.closed => cv[event.vote].status = outcomeOf(event)
        /\ \E a \in 1 .. b - 1 : Created(blocks[a]) /\ of(blocks[a]) = event.vote
    BY <1>7 DEF Told3, BallotsTold, cv
  <2>2. event.voter \in Officers /\ event.result # None /\ outcomeOf(event) # "PENDING"
    BY <1>7, ToldEvent DEF Told
  <2> HIDE DEF event
  <2>3. event.vote = v => event.voter # o /\ ~event.closed
    BY <1>1, <2>1, <2>2 DEF cv
  <2>4. /\ dv[event.vote].ballots[event.voter] = event.result
        /\ event.closed => dv[event.vote].status = outcomeOf(event)
    BY <1>3, <1>5, <2>1, <2>2, <2>3
  <2>5. \E a \in 1 .. b - 1 : Created(bs[a]) /\ of(bs[a]) = event.vote
    BY <1>6, <2>1
  <2> QED
    BY <2>1, <2>2, <2>3, <2>4, <2>5 DEF event
<1>8. \A b \in DOMAIN bs : Created(bs[b]) => of(bs[b]) \in DOMAIN dv /\ dv[of(bs[b])].loc = bs[b].signer
  <2> SUFFICES ASSUME NEW b \in DOMAIN bs, Created(bs[b])
               PROVE  of(bs[b]) \in DOMAIN dv /\ dv[of(bs[b])].loc = bs[b].signer
    OBVIOUS
  <2>1. b \in DOMAIN blocks /\ bs[b] = blocks[b]
    BY <1>2, <1>6
  <2>2. of(blocks[b]) \in DOMAIN cv /\ cv[of(blocks[b])].loc = blocks[b].signer
    BY <2>1 DEF Told3, CreationsTold, cv
  <2> QED
    BY <1>3, <2>1, <2>2
<1>9. \A w \in DOMAIN dv : \E b \in DOMAIN bs : Created(bs[b]) /\ of(bs[b]) = w
  BY <1>3, <1>6 DEF Told3, CreationsTold, cv
<1>10. ASSUME NEW b \in DOMAIN bs, Cast(bs[b])
       PROVE  LET event == bs[b].events[1]
              IN  /\ event.vote \in DOMAIN dv
                  /\ dv[event.vote].ballots[event.voter] = event.result
                  /\ event.closed => dv[event.vote].status = outcomeOf(event)
                  /\ \E a \in 1 .. b - 1 : Created(bs[a]) /\ of(bs[a]) = event.vote
  <2>1. CASE b = n + 1
    <3>1. bs[b].events[1] = ev
      BY <1>6, <2>1 DEF ev
    <3>2. v \in DOMAIN dv /\ dv[v].ballots[o] = ev.result /\ (ev.closed => dv[v].status = outcomeOf(ev))
      BY <1>1, <1>3, <1>5 DEF cv, v, ev
    <3>3. PICK a \in DOMAIN blocks : Created(blocks[a]) /\ of(blocks[a]) = v
      BY <1>1 DEF Told3, CreationsTold, cv
    <3>4. a \in 1 .. b - 1 /\ Created(bs[a]) /\ of(bs[a]) = v
      BY <1>6, <2>1, <3>3
    <3> QED
      BY <1>1, <3>1, <3>2, <3>4 DEF v, ev, o
  <2>2. CASE b \in DOMAIN blocks
    <3>1. Cast(blocks[b]) /\ bs[b] = blocks[b]
      BY <1>6, <1>10, <2>2
    <3> QED
      BY <1>3, <1>7, <2>2, <3>1
  <2> QED
    BY <1>6, <2>1, <2>2
<1>11. \A w \in DOMAIN dv, p \in Officers :
         dv[w].ballots[p] # None =>
            \E b \in DOMAIN bs : Cast(bs[b]) /\ of(bs[b]) = w /\ bs[b].events[1].voter = p
  <2> SUFFICES ASSUME NEW w \in DOMAIN dv, NEW p \in Officers, dv[w].ballots[p] # None
               PROVE  \E b \in DOMAIN bs : Cast(bs[b]) /\ of(bs[b]) = w /\ bs[b].events[1].voter = p
    OBVIOUS
  <2>1. CASE w = v /\ p = o
    BY <1>1, <1>6, <2>1 DEF v, ev, o
  <2>2. CASE ~(w = v /\ p = o)
    <3>1. w \in DOMAIN cv /\ cv[w].ballots[p] # None
      BY <1>3, <1>5, <2>2
    <3>2. PICK b \in DOMAIN blocks : Cast(blocks[b]) /\ of(blocks[b]) = w /\ blocks[b].events[1].voter = p
      BY <3>1 DEF Told3, BallotsTold, cv
    <3> QED
      BY <1>6, <3>2
  <2> QED
    BY <2>1, <2>2
<1>12. \A w \in DOMAIN dv :
         dv[w].status # "PENDING" =>
            \E b \in DOMAIN bs : Cast(bs[b]) /\ of(bs[b]) = w /\ bs[b].events[1].closed
  <2> SUFFICES ASSUME NEW w \in DOMAIN dv, dv[w].status # "PENDING"
               PROVE  \E b \in DOMAIN bs : Cast(bs[b]) /\ of(bs[b]) = w /\ bs[b].events[1].closed
    OBVIOUS
  <2>1. CASE w = v
    <3>1. ev.closed
      BY <1>3, <2>1
    <3> QED
      BY <1>1, <1>6, <2>1, <3>1 DEF v, ev
  <2>2. CASE w # v
    <3>1. w \in DOMAIN cv /\ cv[w].status # "PENDING"
      BY <1>3, <2>2
    <3>2. PICK b \in DOMAIN blocks : Cast(blocks[b]) /\ of(blocks[b]) = w /\ blocks[b].events[1].closed
      BY <3>1 DEF Told3, BallotsTold, cv
    <3> QED
      BY <1>6, <3>2
  <2> QED
    BY <2>1, <2>2
<1>13. ASSUME NEW a \in DOMAIN bs, NEW b \in DOMAIN bs, Told(bs[a]), Cast(bs[b]), of(bs[a]) = of(bs[b])
       PROVE  /\ Created(bs[a]) => a < b
              /\ Cast(bs[a]) /\ bs[a].events[1].voter = bs[b].events[1].voter => a = b
              /\ Cast(bs[a]) /\ bs[a].events[1].closed /\ bs[b].events[1].closed => a = b
  <2>1. CASE a \in DOMAIN blocks /\ b \in DOMAIN blocks
    BY <1>6, <1>13, <2>1 DEF Told3, ToldOnce
  <2>2. CASE a = n + 1 /\ b = n + 1
    BY <1>2, <1>6, <2>2
  <2>3. CASE a \in DOMAIN blocks /\ b = n + 1
    <3>1. bs[a] = blocks[a] /\ bs[b] = e /\ a < b
      BY <1>6, <2>3
    <3>2. Cast(blocks[a]) => blocks[a].events[1].voter # o /\ ~blocks[a].events[1].closed
      BY <1>1, <1>7, <1>13, <2>3, <3>1 DEF of
    <3> QED
      BY <1>1, <3>1, <3>2 DEF ev
  <2>4. CASE a = n + 1 /\ b \in DOMAIN blocks
    <3>1. bs[b] = blocks[b] /\ bs[a] = e
      BY <1>6, <2>4
    <3>2. blocks[b].events[1].voter # o /\ ~blocks[b].events[1].closed
      BY <1>1, <1>7, <1>13, <2>4, <3>1 DEF of
    <3> QED
      BY <1>1, <1>2, <3>1, <3>2 DEF ev
  <2> QED
    BY <1>6, <2>1, <2>2, <2>3, <2>4
<1>14. ToldBy(dv, bs)
  BY <1>8, <1>9, <1>10, <1>11, <1>12, <1>13 DEF ToldBy
<1> QED
  BY <1>14, Told3Next DEF dv, bs

\* What one more block does to the number of calls about votes.
LEMMA FewVotes ==
    ASSUME NEW n \in Nat, DOMAIN blocks = 1 .. n, DOMAIN blocks' = 1 .. n + 1,
           \A b \in DOMAIN blocks : blocks'[b] = blocks[b], ~severalVotesInBatch'
    PROVE  ~severalVotesInBatch /\ ~(Cardinality(voteCalls(blocks'[n + 1])) > 1)
<1>1. \A b \in DOMAIN blocks' : ~(Cardinality(voteCalls(blocks'[b])) > 1)
  BY DEF severalVotesInBatch, voteCalls
<1>2. n + 1 \in DOMAIN blocks' /\ \A b \in DOMAIN blocks : b \in DOMAIN blocks'
  OBVIOUS
<1>3. \A b \in DOMAIN blocks : voteCalls(blocks'[b]) = voteCalls(blocks[b])
  BY DEF voteCalls
<1> QED
  BY <1>1, <1>2, <1>3 DEF severalVotesInBatch

LEMMA VotesToldKept ==
    ASSUME Typed, VotesTold, Next
    PROVE  VotesTold'
<1>1. CASE Finalize
  <2> SUFFICES ASSUME ~severalVotesInBatch' PROVE Told3'
    BY DEF VotesTold, Told3
  <2> DEFINE n == Len(blocks)
  <2>1. PICK e : /\ Step(e, chain, chain')
                 /\ DOMAIN blocks' = 1 .. n + 1
                 /\ blocks'[n + 1] = e
                 /\ \A b \in DOMAIN blocks : blocks'[b] = blocks[b]
    BY <1>1, Growing
  <2>2. n \in Nat /\ DOMAIN blocks = 1 .. n /\ \A b \in DOMAIN blocks : Finalized(blocks[b])
    BY Shape
  <2> HIDE DEF n
  <2>3. ~severalVotesInBatch /\ ~(Cardinality(voteCalls(e)) > 1)
    BY <2>1, <2>2, FewVotes
  <2>4. Told3 /\ chain \in Chain /\ Finalized(e)
    BY <2>1, <2>3 DEF VotesTold, Told3, Typed, Step
  <2>5. \/ chain'.votes = chain.votes /\ ~Told(e)
        \/ VoteAdded(chain, chain', e.signer, e.events)
        \/ BallotAdded(chain, chain', e.signer, e.events)
    BY <2>1, <2>3 DEF Step, VoteStep
  <2>6. CASE chain'.votes = chain.votes /\ ~Told(e)
    BY <2>1, <2>2, <2>4, <2>6, NothingTold
  <2>7. CASE VoteAdded(chain, chain', e.signer, e.events)
    <3>1. Told(e)
      BY <2>7 DEF VoteAdded, Told, Created
    <3>2. e.signer \in Officers
      BY <2>4, <3>1, ToldEvent
    <3> QED
      BY <2>1, <2>2, <2>4, <2>7, <3>2, CreationTold
  <2>8. CASE BallotAdded(chain, chain', e.signer, e.events)
    BY <2>1, <2>2, <2>4, <2>8, BallotTold
  <2> QED
    BY <2>5, <2>6, <2>7, <2>8
<1>2. CASE UNCHANGED << blocks, chain >>
  <2>1. blocks' = blocks /\ chain' = chain
    BY <1>2
  <2>2. severalVotesInBatch' <=> severalVotesInBatch
    BY <2>1 DEF severalVotesInBatch, voteCalls
  <2>3. CreationsTold => CreationsTold'
    BY <2>1 DEF CreationsTold, Created, of
  <2>4. BallotsTold => BallotsTold'
    BY <2>1 DEF BallotsTold, Cast, of, outcomeOf
  <2>5. ToldOnce => ToldOnce'
    BY <2>1 DEF ToldOnce, Told, Created, Cast, of
  <2> QED
    BY <2>2, <2>3, <2>4, <2>5 DEF VotesTold
<1>3. Finalize \/ UNCHANGED << blocks, chain >>
  BY ApplyIs, WriteIs
     DEF Next, Finalize, startJob, addTransaction, nextBlock, sync, dropJob, crash
<1> QED
  BY <1>1, <1>2, <1>3

-----------------------------------------------------------------------------
(***************************************************************************)
(* The votes that are recorded.                                            *)
(***************************************************************************)

Recorded == RowsOfChain /\ PassedInRows /\ BallotsInRows

\* Nothing more is applied, and what a dropped job applied is to be told again.
LEMMA RecordedLeft ==
    ASSUME Recorded, UNCHANGED << blocks, chain, votes >>, Back, drops' = 0 => drops = 0 /\ Same
    PROVE  Recorded'
<1>1. \A b : Calls(b)' = Calls(b)
  BY DEF Calls
<1>2. \A b \in DOMAIN blocks : Passed(b)' => Passed(b)
  BY <1>1 DEF Passed, Back
<1>3. drops' = 0 => \A b \in DOMAIN blocks : Passed(b) => Passed(b)'
  BY <1>1 DEF Passed, Same
<1>4. RowsOfChain'
  BY DEF Recorded, RowsOfChain
<1>5. PassedInRows'
  <2> SUFFICES ASSUME NEW b \in DOMAIN blocks, Passed(b)
               PROVE  LET event == blocks[b].events[1]
                      IN  /\ Told(blocks[b]) => votes[event.vote] # NoVote
                          /\ Cast(blocks[b]) =>
                                /\ votes[event.vote].ballots[event.voter] = event.result
                                /\ event.closed => votes[event.vote].status = outcomeOf(event)
    BY <1>2 DEF PassedInRows, Told, Created, Cast, outcomeOf
  <2> QED
    BY DEF Recorded, PassedInRows
<1>6. BallotsInRows'
  <2> SUFFICES ASSUME NEW b \in DOMAIN blocks, Cast(blocks[b]), votes[of(blocks[b])] # NoVote
               PROVE  LET event == blocks[b].events[1]
                          vote  == votes[event.vote]
                      IN  /\ event.closed /\ vote.status # "PENDING" => vote.ballots[event.voter] # None
                          /\ drops' = 0 /\ vote.ballots[event.voter] # None => Passed(b)'
    BY DEF BallotsInRows, Cast, of
  <2> QED
    BY <1>3 DEF Recorded, BallotsInRows
<1> QED
  BY <1>4, <1>5, <1>6 DEF Recorded

\* A vote of the chain keeps what it has.
Extends(c, d) ==
    \A v \in DOMAIN c.votes :
        /\ v \in DOMAIN d.votes /\ d.votes[v].loc = c.votes[v].loc
        /\ \A o \in Officers :
              c.votes[v].ballots[o] # None => d.votes[v].ballots[o] = c.votes[v].ballots[o]
        /\ c.votes[v].status # "PENDING" => d.votes[v].status = c.votes[v].status

LEMMA VotesExtended ==
    ASSUME NEW c \in Chain, NEW d, NEW o \in Officers, NEW es,
           VoteAdded(c, d, o, es) \/ BallotAdded(c, d, o, es)
    PROVE  Extends(c, d)
<1> DEFINE cv == c.votes
<1> DEFINE dv == d.votes
<1>1. cv \in Seq(Vote)
  BY DEF Chain
<1>2. CASE VoteAdded(c, d, o, es)
  <2>1. dv = Append(cv, newVote(o))
    BY <1>2 DEF VoteAdded
  <2>2. newVote(o) \in Vote
    BY DEF newVote, Vote, Locs, VoteStatus, Ballots
  <2> HIDE DEF cv, dv
  <2>3. \A v \in DOMAIN cv : v \in DOMAIN dv /\ dv[v] = cv[v]
    BY <1>1, <2>1, <2>2
  <2> QED
    BY <2>3 DEF Extends, cv, dv
<1>3. CASE BallotAdded(c, d, o, es)
  <2> DEFINE v == es[1].vote
  <2> DEFINE ballots == [cv[v].ballots EXCEPT ![o] = es[1].result]
  <2> DEFINE status == IF es[1].closed THEN outcomeOf(es[1]) ELSE "PENDING"
  <2> DEFINE loc == cv[v].loc
  <2> DEFINE w == [loc |-> loc, status |-> status, ballots |-> ballots]
  <2>1. w.loc = loc /\ w.status = status /\ w.ballots = ballots
    <3> HIDE DEF loc, status, ballots
    <3> QED  OBVIOUS
  <2>2. /\ dv = [cv EXCEPT ![v] = w]
        /\ v \in DOMAIN cv /\ cv[v].status = "PENDING" /\ cv[v].ballots[o] = None
    BY <1>3 DEF BallotAdded
  <2> HIDE DEF w, cv, dv, v
  <2>3. DOMAIN dv = DOMAIN cv /\ dv[v] = w /\ \A x \in DOMAIN cv : x # v => dv[x] = cv[x]
    BY <1>1, <2>2
  <2>4. cv[v] \in Vote
    BY <1>1, <2>2
  <2>5. cv[v].ballots \in Ballots
    BY <2>4 DEF Vote
  <2>6. \A p \in Officers : p # o => ballots[p] = cv[v].ballots[p]
    BY <2>5 DEF Ballots
  <2>7. \A p \in Officers : cv[v].ballots[p] # None => dv[v].ballots[p] = cv[v].ballots[p]
    BY <2>1, <2>2, <2>3, <2>6
  <2>8. dv[v].loc = cv[v].loc
    BY <2>1, <2>3
  <2> QED
    BY <2>2, <2>3, <2>7, <2>8 DEF Extends, cv, dv
<1> QED
  BY <1>2, <1>3

LEMMA RecordedGrowing ==
    ASSUME Typed, VotesTold, VotesRecorded, Finalize
    PROVE  VotesRecorded'
<1> SUFFICES ASSUME ~severalVotesInBatch' PROVE Recorded'
  BY DEF VotesRecorded, Recorded
<1> DEFINE bs == blocks'
<1>0. PICK n \in Nat : n = Len(blocks)
  BY Shape
<1>1. PICK e : /\ Step(e, chain, chain')
               /\ DOMAIN bs = 1 .. n + 1
               /\ bs[n + 1] = e
               /\ \A b \in DOMAIN blocks : bs[b] = blocks[b]
               /\ UNCHANGED << drops, votes >>
               /\ \A b, k : Done(b, k)' <=> Done(b, k)
               /\ \A k \in DOMAIN unwrapExtrinsics(e) : ~Done(n + 1, k)
  BY <1>0, Growing
<1>2. n \in Nat /\ DOMAIN blocks = 1 .. n
  BY <1>0, Shape
<1>3. ~severalVotesInBatch /\ ~(Cardinality(voteCalls(e)) > 1)
  BY <1>1, <1>2, FewVotes
<1>4. Recorded /\ Told3 /\ chain \in Chain /\ Finalized(e) /\ OneVoteEach(chain)
  BY <1>1, <1>3 DEF VotesTold, Told3, VotesRecorded, Recorded, Typed, Step
<1>5. \/ chain'.votes = chain.votes /\ ~Told(e)
      \/ VoteAdded(chain, chain', e.signer, e.events) /\ ~Cast(e)
      \/ BallotAdded(chain, chain', e.signer, e.events)
  BY <1>1, <1>3 DEF Step, VoteStep, VoteAdded, Cast
<1>6. Extends(chain, chain')
  <2>1. CASE chain'.votes = chain.votes
    BY <2>1 DEF Extends
  <2>2. CASE Told(e)
    BY <1>4, <1>5, <2>2, ToldEvent, VotesExtended
  <2>3. Told(e) \/ chain'.votes = chain.votes
    BY <1>5 DEF Told, Created, Cast, VoteAdded, BallotAdded
  <2> QED
    BY <2>1, <2>2, <2>3
<1>7. \A b \in DOMAIN blocks : Passed(b)' <=> Passed(b)
  BY <1>1 DEF Passed, Calls
<1>8. Told(e) => ~Passed(n + 1)'
  <2> SUFFICES ASSUME Told(e) PROVE ~Passed(n + 1)'
    OBVIOUS
  <2>1. TellsOneVote(e)
    BY <1>1 DEF Step
  <2>2. PICK k \in DOMAIN unwrapExtrinsics(e) : isVote(unwrapExtrinsics(e)[k])
    BY <1>3, <2>1 DEF TellsOneVote
  <2>3. ~Done(n + 1, k)'
    BY <1>1
  <2>4. Calls(n + 1)' = unwrapExtrinsics(e)
    BY <1>1 DEF Calls
  <2> QED
    BY <2>2, <2>3, <2>4 DEF Passed
<1>9. \A b \in DOMAIN bs : b \in DOMAIN blocks \/ b = n + 1
  BY <1>1, <1>2
<1> HIDE DEF bs
<1>10. RowsOfChain'
  <2> SUFFICES ASSUME NEW v \in VoteId, votes[v] # NoVote
               PROVE  /\ v \in DOMAIN chain'.votes
                      /\ votes[v].loc = chain'.votes[v].loc
                      /\ \A o \in Officers :
                            votes[v].ballots[o] # None => votes[v].ballots[o] = chain'.votes[v].ballots[o]
                      /\ votes[v].status # "PENDING" => votes[v].status = chain'.votes[v].status
    BY <1>1 DEF RowsOfChain
  <2>1. /\ v \in DOMAIN chain.votes
        /\ votes[v].loc = chain.votes[v].loc
        /\ \A o \in Officers :
              votes[v].ballots[o] # None => votes[v].ballots[o] = chain.votes[v].ballots[o]
        /\ votes[v].status # "PENDING" => votes[v].status = chain.votes[v].status
    BY <1>4 DEF Recorded, RowsOfChain
  <2> QED
    BY <1>6, <2>1 DEF Extends
<1>11. PassedInRows'
  <2> SUFFICES ASSUME NEW b \in DOMAIN bs, Passed(b)'
               PROVE  LET event == bs[b].events[1]
                      IN  /\ Told(bs[b]) => votes[event.vote] # NoVote
                          /\ Cast(bs[b]) =>
                                /\ votes[event.vote].ballots[event.voter] = event.result
                                /\ event.closed => votes[event.vote].status = outcomeOf(event)
    BY <1>1 DEF PassedInRows, Told, Created, Cast, outcomeOf, bs
  <2>1. CASE b = n + 1
    BY <1>1, <1>8, <2>1, Zenon DEF Told
  <2>2. CASE b \in DOMAIN blocks
    <3>1. bs[b] = blocks[b] /\ Passed(b)
      BY <1>1, <1>7, <2>2
    <3> QED
      BY <1>4, <2>2, <3>1 DEF Recorded, PassedInRows
  <2> QED
    BY <1>9, <2>1, <2>2
<1>12. BallotsInRows'
  <2> SUFFICES ASSUME NEW b \in DOMAIN bs, Cast(bs[b]), votes[of(bs[b])] # NoVote
               PROVE  LET event == bs[b].events[1]
                          vote  == votes[event.vote]
                      IN  /\ event.closed /\ vote.status # "PENDING" => vote.ballots[event.voter] # None
                          /\ drops = 0 /\ vote.ballots[event.voter] # None => Passed(b)'
    BY <1>1 DEF BallotsInRows, Cast, of, bs
  <2>1. CASE b = n + 1
    <3> DEFINE ev == e.events[1]
    <3>1. Cast(e) /\ votes[ev.vote] # NoVote
      BY <1>1, <2>1 DEF of
    <3>2. /\ ev.vote \in DOMAIN chain.votes /\ ev.voter = e.signer
          /\ chain.votes[ev.vote].status = "PENDING" /\ chain.votes[ev.vote].ballots[ev.voter] = None
      BY <1>5, <3>1 DEF BallotAdded, Told
    <3>3. ev.vote \in VoteId /\ ev.voter \in Officers
      BY <1>4, <3>1, ToldEvent DEF Told, of
    <3> HIDE DEF ev
    <3>4. votes[ev.vote].status = "PENDING" /\ votes[ev.vote].ballots[ev.voter] = None
      BY <1>4, <3>1, <3>2, <3>3 DEF Recorded, RowsOfChain
    <3> QED
      BY <1>1, <2>1, <3>4 DEF ev
  <2>2. CASE b \in DOMAIN blocks
    <3>1. bs[b] = blocks[b] /\ (Passed(b)' <=> Passed(b))
      BY <1>1, <1>7, <2>2
    <3> QED
      BY <1>4, <2>2, <3>1 DEF Recorded, BallotsInRows
  <2> QED
    BY <1>9, <2>1, <2>2
<1> QED
  BY <1>10, <1>11, <1>12 DEF Recorded

\* The events that a recorded call about votes reads.
LEMMA FirstEvent ==
    ASSUME NEW e, Finalized(e), NEW k \in DOMAIN unwrapExtrinsics(e), NEW x, x = unwrapExtrinsics(e)[k],
           isVote(x), NEW m, hasEvent(x, m)
    PROVE  /\ Accepted(e) /\ x.signer = e.signer /\ x.signer \in Officers
           /\ eventOf(x, m) \in VoteEvent /\ eventOf(x, m).method = m
           /\ Len(e.events) = 1 => eventOf(x, m) = e.events[1]
<1>1. /\ x.signer = e.signer /\ x.events = e.events
      /\ Accepted(e) \/ (e.failure = "other" /\ e.events = << >>)
  BY CallsUnwrapped
<1>2. Events(x, m) # {} /\ Events(x, m) \subseteq 1 .. Len(e.events)
  BY <1>1 DEF Events, hasEvent
<1>3. Accepted(e)
  BY <1>1, <1>2
<1>4. e.events \in Seq(VoteEvent) /\ e.signer \in Officers
  BY <1>3 DEF Accepted
<1> DEFINE i == Min(Events(x, m))
<1>5. i \in Events(x, m)
  <2>1. Len(e.events) \in Nat
    BY <1>4
  <2> QED
    BY <1>2, <2>1, Extremes
<1> HIDE DEF i
<1>6. i \in 1 .. Len(e.events) /\ e.events[i].method = m /\ eventOf(x, m) = e.events[i]
  BY <1>1, <1>5 DEF Events, eventOf, i
<1>7. e.events[i] \in VoteEvent
  BY <1>4, <1>6
<1> QED
  BY <1>1, <1>3, <1>4, <1>6, <1>7

\* The call that is applied is not about a vote.
LEMMA RecordedUnheeded ==
    ASSUME Recorded, UNCHANGED << blocks, chain, votes, drops >>,
           NEW b \in DOMAIN blocks, NEW k \in DOMAIN Calls(b), Applies(b, k), ~isVote(Calls(b)[k])
    PROVE  Recorded'
<1>1. \A c : Calls(c)' = Calls(c)
  BY DEF Calls
<1>2. \A c \in DOMAIN blocks : Passed(c)' <=> Passed(c)
  BY <1>1 DEF Passed, Applies
<1>3. RowsOfChain'
  BY DEF Recorded, RowsOfChain
<1>4. PassedInRows'
  <2> SUFFICES ASSUME NEW c \in DOMAIN blocks, Passed(c)
               PROVE  LET event == blocks[c].events[1]
                      IN  /\ Told(blocks[c]) => votes[event.vote] # NoVote
                          /\ Cast(blocks[c]) =>
                                /\ votes[event.vote].ballots[event.voter] = event.result
                                /\ event.closed => votes[event.vote].status = outcomeOf(event)
    BY <1>2 DEF PassedInRows, Told, Created, Cast, outcomeOf
  <2> QED
    BY DEF Recorded, PassedInRows
<1>5. BallotsInRows'
  <2> SUFFICES ASSUME NEW c \in DOMAIN blocks, Cast(blocks[c]), votes[of(blocks[c])] # NoVote
               PROVE  LET event == blocks[c].events[1]
                          vote  == votes[event.vote]
                      IN  /\ event.closed /\ vote.status # "PENDING" => vote.ballots[event.voter] # None
                          /\ drops = 0 /\ vote.ballots[event.voter] # None => Passed(c)
    BY <1>2 DEF BallotsInRows, Cast, of
  <2> QED
    BY DEF Recorded, BallotsInRows
<1> QED
  BY <1>3, <1>4, <1>5 DEF Recorded

\* The call that is applied is the one of block b about a vote.
PassesAt(b) ==
    /\ \A c \in DOMAIN blocks : Passed(c)' <=> Passed(c) \/ c = b
    /\ \A c \in DOMAIN blocks : Passed(c) /\ Told(blocks[c]) => c < b

LEMMA Passing ==
    ASSUME Typed, UNCHANGED blocks, ~severalVotesInBatch,
           NEW b \in DOMAIN blocks, NEW k \in DOMAIN Calls(b), Applies(b, k), isVote(Calls(b)[k])
    PROVE  PassesAt(b)
<1>1. \A c : Calls(c)' = Calls(c)
  BY DEF Calls
<1>2. \A c \in DOMAIN blocks : TellsOneVote(blocks[c]) /\ ~(Cardinality(voteCalls(blocks[c])) > 1)
  BY DEF Typed, severalVotesInBatch
<1>3. \A j \in DOMAIN Calls(b) : isVote(Calls(b)[j]) => j = k
  BY <1>2 DEF TellsOneVote, Calls
<1>4. \A c \in DOMAIN blocks : Passed(c)' <=> Passed(c) \/ c = b
  BY <1>1, <1>3 DEF Passed, Applies
<1>5. ASSUME NEW c \in DOMAIN blocks, Passed(c), Told(blocks[c])
      PROVE  c < b
  <2>1. PICK j \in DOMAIN Calls(c) : isVote(Calls(c)[j])
    BY <1>2, <1>5 DEF TellsOneVote, Calls
  <2>2. After(b, k, c, j)
    BY <1>5, <2>1 DEF Passed, Applies
  <2>3. c = b => j = k
    BY <1>3, <2>1
  <2>4. k \in Nat /\ j \in Nat /\ b \in Nat /\ c \in Nat
    BY Shape
  <2> QED
    BY <2>2, <2>3, <2>4 DEF After
<1> QED
  BY <1>4, <1>5 DEF PassesAt

\* The rows after one of them is written; Recorded' follows.
RecordedBy(vs, b) ==
    /\ \A v \in VoteId : vs[v] # NoVote =>
          /\ v \in DOMAIN chain.votes
          /\ vs[v].loc = chain.votes[v].loc
          /\ \A o \in Officers :
                vs[v].ballots[o] # None => vs[v].ballots[o] = chain.votes[v].ballots[o]
          /\ vs[v].status # "PENDING" => vs[v].status = chain.votes[v].status
    /\ \A c \in DOMAIN blocks : Passed(c) \/ c = b =>
          LET event == blocks[c].events[1]
          IN  /\ Told(blocks[c]) => vs[event.vote] # NoVote
              /\ Cast(blocks[c]) =>
                    /\ vs[event.vote].ballots[event.voter] = event.result
                    /\ event.closed => vs[event.vote].status = outcomeOf(event)
    /\ \A c \in DOMAIN blocks : Cast(blocks[c]) /\ vs[of(blocks[c])] # NoVote =>
          LET event == blocks[c].events[1]
              vote  == vs[event.vote]
          IN  /\ event.closed /\ vote.status # "PENDING" => vote.ballots[event.voter] # None
              /\ drops = 0 /\ vote.ballots[event.voter] # None => Passed(c) \/ c = b

LEMMA RecordedNext ==
    ASSUME UNCHANGED << blocks, chain, drops >>, NEW b, PassesAt(b), RecordedBy(votes', b)
    PROVE  Recorded'
<1>1. RowsOfChain'
  BY DEF RecordedBy, RowsOfChain
<1>2. PassedInRows'
  BY DEF RecordedBy, PassesAt, PassedInRows, Told, Created, Cast, outcomeOf
<1>3. BallotsInRows'
  BY DEF RecordedBy, PassesAt, BallotsInRows, Cast, of
<1> QED
  BY <1>1, <1>2, <1>3 DEF Recorded

\* What VoteRepository.save makes of a new vote.
LEMMA SavedNew ==
    ASSUME NEW v, NEW s
    PROVE  /\ saved(v, newVote(s)).loc = s /\ saved(v, newVote(s)).status = "PENDING"
           /\ saved(v, newVote(s)) =
                [ loc |-> s, status |-> "PENDING",
                  ballots |-> [o \in Officers |-> IF votes[v] # NoVote THEN votes[v].ballots[o] ELSE None] ]
<1> DEFINE r == newVote(s)
<1> DEFINE p == [o \in Officers |-> IF r.ballots[o] = None /\ votes[v] # NoVote
                                    THEN votes[v].ballots[o] ELSE r.ballots[o]]
<1> DEFINE q == [o \in Officers |-> IF votes[v] # NoVote THEN votes[v].ballots[o] ELSE None]
<1> DEFINE none == [o \in Officers |-> None]
<1>1. r = [loc |-> s, status |-> "PENDING", ballots |-> none]
  BY DEF newVote
<1>2. r.ballots = none
  BY <1>1
<1>3. p = q
  BY <1>2
<1>4. saved(v, r) = [r EXCEPT !.ballots = p]
  BY DEF saved
<1> HIDE DEF p, q, r, none
<1>5. saved(v, r) = [loc |-> s, status |-> "PENDING", ballots |-> q]
  BY <1>1, <1>3, <1>4
<1>6. saved(v, r).loc = s /\ saved(v, r).status = "PENDING"
  BY <1>5
<1> QED
  BY <1>5, <1>6 DEF q, r

LEMMA CreationRecorded ==
    ASSUME Typed, Told3, Recorded, NEW b \in DOMAIN blocks, PassesAt(b), Created(blocks[b]),
           NEW vs, vs = [votes EXCEPT ![of(blocks[b])] = saved(of(blocks[b]), newVote(blocks[b].signer))]
    PROVE  RecordedBy(vs, b)
<1> DEFINE v == of(blocks[b])
<1> DEFINE s == blocks[b].signer
<1> DEFINE w == saved(v, newVote(s))
<1>1. Finalized(blocks[b]) /\ Told(blocks[b]) /\ ~Cast(blocks[b]) /\ b \in Nat /\ \A c \in DOMAIN blocks : c \in Nat
  BY Shape, ToldEvent DEF Told
<1>2. s \in Officers /\ v \in VoteId /\ s # None
  BY <1>1, ToldEvent, ConstantsAssumption
<1>3. v \in DOMAIN chain.votes /\ chain.votes[v].loc = s
  BY DEF Told3, CreationsTold
<1>4. /\ w.loc = s /\ w.status = "PENDING" /\ w # NoVote
      /\ \A o \in Officers : w.ballots[o] = IF votes[v] # NoVote THEN votes[v].ballots[o] ELSE None
  BY <1>2, SavedNew DEF NoVote
<1>5. vs[v] = w /\ \A y \in VoteId : y # v => vs[y] = votes[y]
  BY <1>2 DEF Typed
<1> HIDE DEF w
\* the ballots on the vote follow, and none of them is recorded
<1>6. \A c \in DOMAIN blocks : Cast(blocks[c]) => of(blocks[c]) \in VoteId /\ blocks[c].events[1].voter \in Officers
  BY ToldEvent DEF Told, Typed
<1>7. \A c \in DOMAIN blocks : Told(blocks[c]) => of(blocks[c]) \in VoteId
  BY ToldEvent DEF Typed
<1>8. ASSUME NEW c \in DOMAIN blocks, Cast(blocks[c]), of(blocks[c]) = v
      PROVE  ~Passed(c) /\ c # b
  <2>1. b < c
    BY <1>1, <1>8 DEF Told3, ToldOnce
  <2>2. Passed(c) => c < b
    BY <1>8 DEF PassesAt, Told
  <2> QED
    BY <1>1, <2>1, <2>2
<1> HIDE DEF v, s
<1>9. \A y \in VoteId : vs[y] # NoVote =>
          /\ y \in DOMAIN chain.votes
          /\ vs[y].loc = chain.votes[y].loc
          /\ \A o \in Officers :
                vs[y].ballots[o] # None => vs[y].ballots[o] = chain.votes[y].ballots[o]
          /\ vs[y].status # "PENDING" => vs[y].status = chain.votes[y].status
  BY <1>2, <1>3, <1>4, <1>5 DEF Recorded, RowsOfChain
<1>10. ASSUME NEW c \in DOMAIN blocks, Passed(c) \/ c = b
       PROVE  LET event == blocks[c].events[1]
              IN  /\ Told(blocks[c]) => vs[event.vote] # NoVote
                  /\ Cast(blocks[c]) =>
                        /\ vs[event.vote].ballots[event.voter] = event.result
                        /\ event.closed => vs[event.vote].status = outcomeOf(event)
  <2> DEFINE event == blocks[c].events[1]
  <2>0. of(blocks[c]) = event.vote
    BY DEF of
  <2>1. CASE c = b
    BY <1>1, <1>4, <1>5, <2>0, <2>1 DEF v
  <2>2. CASE c # b /\ event.vote = v
    BY <1>4, <1>5, <1>8, <1>10, <2>0, <2>2
  <2>3. CASE c # b /\ event.vote # v
    <3>1. /\ Told(blocks[c]) => votes[event.vote] # NoVote
          /\ Cast(blocks[c]) =>
                /\ votes[event.vote].ballots[event.voter] = event.result
                /\ event.closed => votes[event.vote].status = outcomeOf(event)
      BY <1>10, <2>3 DEF Recorded, PassedInRows
    <3>2. Told(blocks[c]) => vs[event.vote] = votes[event.vote]
      BY <1>5, <1>7, <2>0, <2>3
    <3>3. Cast(blocks[c]) => Told(blocks[c])
      BY DEF Told
    <3> HIDE DEF event
    <3>4. /\ Told(blocks[c]) => vs[event.vote] # NoVote
          /\ Cast(blocks[c]) =>
                /\ vs[event.vote].ballots[event.voter] = event.result
                /\ event.closed => vs[event.vote].status = outcomeOf(event)
      BY <3>1, <3>2, <3>3
    <3> QED
      BY <3>4 DEF event
  <2> QED
    BY <2>1, <2>2, <2>3
<1>11. ASSUME NEW c \in DOMAIN blocks, Cast(blocks[c]), vs[of(blocks[c])] # NoVote
       PROVE  LET event == blocks[c].events[1]
                  vote  == vs[event.vote]
              IN  /\ event.closed /\ vote.status # "PENDING" => vote.ballots[event.voter] # None
                  /\ drops = 0 /\ vote.ballots[event.voter] # None => Passed(c) \/ c = b
  <2> DEFINE event == blocks[c].events[1]
  <2>0. of(blocks[c]) = event.vote /\ event.vote \in VoteId /\ event.voter \in Officers
    BY <1>6, <1>11 DEF of
  <2>1. votes[event.vote] # NoVote =>
           /\ event.closed /\ votes[event.vote].status # "PENDING" => votes[event.vote].ballots[event.voter] # None
           /\ drops = 0 /\ votes[event.vote].ballots[event.voter] # None => Passed(c)
    BY <1>11, <2>0 DEF Recorded, BallotsInRows
  <2> HIDE DEF event
  <2>2. /\ event.closed /\ vs[event.vote].status # "PENDING" => vs[event.vote].ballots[event.voter] # None
        /\ drops = 0 /\ vs[event.vote].ballots[event.voter] # None => Passed(c) \/ c = b
    BY <1>4, <1>5, <1>11, <2>0, <2>1
  <2> QED
    BY <2>2 DEF event
<1> QED
  BY <1>9, <1>10, <1>11 DEF RecordedBy

\* What VoteSynchronizer.updateVote makes of a row.
withEvent(vote, event) ==
    withBallot(vote, event.voter, event.result,
               IF ~event.closed THEN vote.status
               ELSE IF event.approved THEN "APPROVED" ELSE "REJECTED")

LEMMA BallotWith ==
    ASSUME NEW r \in Vote, NEW event, event.voter \in Officers, event.result \in VoteResult
    PROVE  LET w == withEvent(r, event)
           IN  /\ w \in Vote /\ w.loc = r.loc
               /\ w.status = IF event.closed THEN outcomeOf(event) ELSE r.status
               /\ w.ballots[event.voter] = event.result
               /\ \A p \in Officers : p # event.voter => w.ballots[p] = r.ballots[p]
<1> DEFINE status == IF ~event.closed THEN r.status
                     ELSE IF event.approved THEN "APPROVED" ELSE "REJECTED"
<1> DEFINE ballots == [r.ballots EXCEPT ![event.voter] = event.result]
<1> DEFINE loc == r.loc
<1>1. loc \in Locs /\ r.status \in VoteStatus /\ r.ballots \in Ballots
  BY DEF Vote
<1>2. /\ ballots \in Ballots /\ ballots[event.voter] = event.result
      /\ \A p \in Officers : p # event.voter => ballots[p] = r.ballots[p]
  BY <1>1 DEF Ballots
<1>3. status \in VoteStatus /\ status = IF event.closed THEN outcomeOf(event) ELSE r.status
  BY <1>1 DEF VoteStatus, outcomeOf
<1>4. withEvent(r, event) = [loc |-> loc, status |-> status, ballots |-> ballots]
  BY VoteWith DEF withEvent
<1> HIDE DEF status, ballots, loc
<1>5. /\ withEvent(r, event) \in Vote
      /\ withEvent(r, event).loc = loc /\ withEvent(r, event).status = status
      /\ withEvent(r, event).ballots = ballots
  BY <1>1, <1>2, <1>3, <1>4 DEF Vote
<1> QED
  BY <1>2, <1>3, <1>5 DEF loc

LEMMA BallotRecorded ==
    ASSUME Typed, Told3, Recorded, NEW b \in DOMAIN blocks, PassesAt(b), Cast(blocks[b]),
           votes[of(blocks[b])] # NoVote,
           NEW vs, vs = [votes EXCEPT ![of(blocks[b])] = withEvent(@, blocks[b].events[1])]
    PROVE  RecordedBy(vs, b)
<1> DEFINE ev == blocks[b].events[1]
<1> DEFINE v == of(blocks[b])
<1> DEFINE w == withEvent(votes[v], ev)
<1>0. v = ev.vote
  BY DEF of
<1>1. /\ \A c \in DOMAIN blocks : Cast(blocks[c]) =>
            /\ of(blocks[c]) \in VoteId /\ blocks[c].events[1].voter \in Officers
            /\ blocks[c].events[1].result \in VoteResult /\ blocks[c].events[1].result # None
      /\ \A c \in DOMAIN blocks : Told(blocks[c]) => of(blocks[c]) \in VoteId
  BY ToldEvent DEF Told, Typed
<1>2. v \in VoteId /\ ev.voter \in Officers /\ ev.result \in VoteResult /\ ev.result # None
  BY <1>1
<1>3. votes[v] \in Vote
  BY <1>2 DEF Typed
<1>4. /\ w \in Vote /\ w.loc = votes[v].loc
      /\ w.status = IF ev.closed THEN outcomeOf(ev) ELSE votes[v].status
      /\ w.ballots[ev.voter] = ev.result
      /\ \A p \in Officers : p # ev.voter => w.ballots[p] = votes[v].ballots[p]
  BY <1>2, <1>3, BallotWith
<1>5. w # NoVote
  <2>1. w.loc \in Officers
    BY <1>4 DEF Vote, Locs
  <2>2. w.loc # None
    BY <2>1, ConstantsAssumption
  <2> QED
    BY <2>2 DEF NoVote
<1>6. vs[v] = w /\ \A y \in VoteId : y # v => vs[y] = votes[y]
  BY <1>2 DEF Typed
<1> HIDE DEF w
<1>7. /\ v \in DOMAIN chain.votes /\ chain.votes[v].ballots[ev.voter] = ev.result
      /\ ev.closed => chain.votes[v].status = outcomeOf(ev)
  BY <1>0 DEF Told3, BallotsTold
\* the other ballots on the vote are of others, and at most one of all closes it
<1>8. ASSUME NEW c \in DOMAIN blocks, Cast(blocks[c]), of(blocks[c]) = v, c # b
      PROVE  /\ blocks[c].events[1].voter # ev.voter
             /\ ~(blocks[c].events[1].closed /\ ev.closed)
  BY <1>8 DEF Told3, ToldOnce, Told
<1> HIDE DEF v, ev
<1>9. \A y \in VoteId : vs[y] # NoVote =>
          /\ y \in DOMAIN chain.votes
          /\ vs[y].loc = chain.votes[y].loc
          /\ \A o \in Officers :
                vs[y].ballots[o] # None => vs[y].ballots[o] = chain.votes[y].ballots[o]
          /\ vs[y].status # "PENDING" => vs[y].status = chain.votes[y].status
  <2>1. CASE \A y \in VoteId : y # v
    BY <1>2, <2>1
  <2>2. /\ votes[v].loc = chain.votes[v].loc
        /\ \A o \in Officers :
              votes[v].ballots[o] # None => votes[v].ballots[o] = chain.votes[v].ballots[o]
        /\ votes[v].status # "PENDING" => votes[v].status = chain.votes[v].status
    BY <1>2 DEF Recorded, RowsOfChain, v
  <2>3. /\ vs[v].loc = chain.votes[v].loc
        /\ \A o \in Officers :
              vs[v].ballots[o] # None => vs[v].ballots[o] = chain.votes[v].ballots[o]
        /\ vs[v].status # "PENDING" => vs[v].status = chain.votes[v].status
    BY <1>4, <1>6, <1>7, <2>2
  <2> QED
    BY <1>6, <1>7, <2>3 DEF Recorded, RowsOfChain
<1>10. ASSUME NEW c \in DOMAIN blocks, Passed(c) \/ c = b
       PROVE  LET event == blocks[c].events[1]
              IN  /\ Told(blocks[c]) => vs[event.vote] # NoVote
                  /\ Cast(blocks[c]) =>
                        /\ vs[event.vote].ballots[event.voter] = event.result
                        /\ event.closed => vs[event.vote].status = outcomeOf(event)
  <2> DEFINE event == blocks[c].events[1]
  <2>0. of(blocks[c]) = event.vote /\ (Told(blocks[c]) => event.vote \in VoteId)
    BY <1>1 DEF of
  <2>1. CASE c = b
    BY <1>0, <1>4, <1>5, <1>6, <2>1 DEF v, ev
  <2>2. CASE c # b
    <3>1. /\ Told(blocks[c]) => votes[event.vote] # NoVote
          /\ Cast(blocks[c]) =>
                /\ votes[event.vote].ballots[event.voter] = event.result
                /\ event.closed => votes[event.vote].status = outcomeOf(event)
      BY <1>10, <2>2 DEF Recorded, PassedInRows
    <3>2. Cast(blocks[c]) => /\ Told(blocks[c]) /\ event.voter \in Officers
                             /\ event.vote = v => event.voter # ev.voter /\ ~(event.closed /\ ev.closed)
      BY <1>1, <1>8, <2>0, <2>2 DEF Told
    <3> HIDE DEF event
    <3>3. /\ Told(blocks[c]) => vs[event.vote] # NoVote
          /\ Cast(blocks[c]) =>
                /\ vs[event.vote].ballots[event.voter] = event.result
                /\ event.closed => vs[event.vote].status = outcomeOf(event)
      BY <1>4, <1>5, <1>6, <2>0, <3>1, <3>2
    <3> QED
      BY <3>3 DEF event
  <2> QED
    BY <2>1, <2>2
<1>11. ASSUME NEW c \in DOMAIN blocks, Cast(blocks[c]), vs[of(blocks[c])] # NoVote
       PROVE  LET event == blocks[c].events[1]
                  vote  == vs[event.vote]
              IN  /\ event.closed /\ vote.status # "PENDING" => vote.ballots[event.voter] # None
                  /\ drops = 0 /\ vote.ballots[event.voter] # None => Passed(c) \/ c = b
  <2> DEFINE event == blocks[c].events[1]
  <2>0. of(blocks[c]) = event.vote /\ event.vote \in VoteId /\ event.voter \in Officers
    BY <1>1, <1>11 DEF of
  <2>1. CASE c = b
    BY <1>0, <1>2, <1>4, <1>6, <2>1 DEF v, ev
  <2>2. CASE c # b
    <3>1. votes[event.vote] # NoVote
      BY <1>6, <1>11, <2>0 DEF v
    <3>2. /\ event.closed /\ votes[event.vote].status # "PENDING" => votes[event.vote].ballots[event.voter] # None
          /\ drops = 0 /\ votes[event.vote].ballots[event.voter] # None => Passed(c)
      BY <1>11, <2>0, <3>1 DEF Recorded, BallotsInRows
    <3>3. event.vote = v => event.voter # ev.voter /\ ~(event.closed /\ ev.closed)
      BY <1>8, <1>11, <2>0, <2>2
    <3> HIDE DEF event
    <3>4. /\ event.closed /\ vs[event.vote].status # "PENDING" => vs[event.vote].ballots[event.voter] # None
          /\ drops = 0 /\ vs[event.vote].ballots[event.voter] # None => Passed(c) \/ c = b
      BY <1>4, <1>6, <2>0, <3>2, <3>3
    <3> QED
      BY <3>4 DEF event
  <2> QED
    BY <2>1, <2>2
<1> QED
  BY <1>9, <1>10, <1>11 DEF RecordedBy

\* The write of a call about votes, and the extrinsic it comes from.
LEMMA VoteWrite ==
    ASSUME Typed, NEW b \in DOMAIN blocks, NEW k \in DOMAIN Calls(b), NEW x, x = Calls(b)[k],
           addVote(x) \/ updateVote(x)
    PROVE  /\ isVote(x) /\ UNCHANGED << selection, pending, unsure >>
           /\ \/ /\ isCreation(x) /\ hasEvent(x, "VoteCreated")
                 /\ LET event == eventOf(x, "VoteCreated")
                    IN  /\ event \in VoteEvent /\ event.vote \in VoteId /\ x.signer \in Officers
                        /\ votes' = [votes EXCEPT ![event.vote] = saved(event.vote, newVote(x.signer))]
                        /\ ~severalVotesInBatch =>
                              /\ Created(blocks[b]) /\ event = blocks[b].events[1]
                              /\ x.signer = blocks[b].signer
              \/ /\ isBallot(x) /\ hasEvent(x, "VoteUpdated")
                 /\ LET event == eventOf(x, "VoteUpdated")
                    IN  /\ event \in VoteEvent /\ event.vote \in VoteId
                        /\ event.voter \in Officers /\ event.result \in VoteResult
                        /\ votes[event.vote] # NoVote
                        /\ votes' = [votes EXCEPT ![event.vote] = withEvent(@, event)]
                        /\ ~severalVotesInBatch =>
                              Cast(blocks[b]) /\ event = blocks[b].events[1]
<1> DEFINE e == blocks[b]
<1>1. Finalized(e) /\ TellsOneVote(e) /\ k \in DOMAIN unwrapExtrinsics(e) /\ x = unwrapExtrinsics(e)[k]
  BY DEF Typed, Calls
<1>2. ~severalVotesInBatch => ~(Cardinality(voteCalls(e)) > 1)
  BY DEF severalVotesInBatch
<1>3. Accepted(e) => e.failure = "none"
  BY DEF Accepted
<1> HIDE DEF e
<1>4. CASE addVote(x)
  <2> DEFINE event == eventOf(x, "VoteCreated")
  <2>1. /\ isCreation(x) /\ hasEvent(x, "VoteCreated") /\ UNCHANGED << selection, pending, unsure >>
        /\ votes' = [votes EXCEPT ![event.vote] = saved(event.vote, newVote(x.signer))]
    BY <1>4 DEF addVote
  <2>2. isVote(x)
    BY <2>1 DEF isVote
  <2>3. /\ Accepted(e) /\ x.signer = e.signer /\ x.signer \in Officers
        /\ event \in VoteEvent /\ (Len(e.events) = 1 => event = e.events[1])
    BY <1>1, <2>1, <2>2, FirstEvent
  <2> HIDE DEF event
  <2>4. ~severalVotesInBatch => Created(e)
    BY <1>1, <1>2, <1>3, <2>1, <2>3 DEF TellsOneVote
  <2>5. event.vote \in VoteId
    BY <2>3 DEF VoteEvent
  <2>6. ~severalVotesInBatch => event = e.events[1]
    BY <2>3, <2>4 DEF Created
  <2> QED
    BY <2>1, <2>2, <2>3, <2>4, <2>5, <2>6 DEF event, e
<1>5. CASE updateVote(x)
  <2> DEFINE event == eventOf(x, "VoteUpdated")
  <2>1. /\ isBallot(x) /\ hasEvent(x, "VoteUpdated") /\ UNCHANGED << selection, pending, unsure >>
        /\ votes[event.vote] # NoVote
        /\ votes' = [votes EXCEPT ![event.vote] = withEvent(@, event)]
    BY <1>5 DEF updateVote, canAddBallot, withEvent
  <2>2. isVote(x)
    BY <2>1 DEF isVote
  <2>3. /\ Accepted(e) /\ event \in VoteEvent /\ event.method = "VoteUpdated"
        /\ Len(e.events) = 1 => event = e.events[1]
    BY <1>1, <2>1, <2>2, FirstEvent
  <2> HIDE DEF event
  <2>4. ~severalVotesInBatch => Cast(e)
    BY <1>1, <1>2, <1>3, <2>1, <2>3 DEF TellsOneVote
  <2>5. event.vote \in VoteId /\ event.voter \in Officers /\ event.result \in VoteResult
    BY <2>3 DEF VoteEvent
  <2>6. ~severalVotesInBatch => event = e.events[1]
    BY <2>3, <2>4 DEF Cast
  <2> QED
    BY <2>1, <2>2, <2>3, <2>4, <2>5, <2>6 DEF event, e
<1> QED
  BY <1>4, <1>5

LEMMA VotesTyped ==
    ASSUME Typed, NEW b \in DOMAIN blocks, NEW k \in DOMAIN Calls(b), NEW x, x = Calls(b)[k],
           addVote(x) \/ updateVote(x)
    PROVE  votes' \in [VoteId -> Vote \union { NoVote }]
<1>1. votes \in [VoteId -> Vote \union { NoVote }]
  BY DEF Typed
<1>2. CASE \E event : /\ event.vote \in VoteId /\ x.signer \in Officers
                      /\ votes' = [votes EXCEPT ![event.vote] = saved(event.vote, newVote(x.signer))]
  <2>1. PICK event : /\ event.vote \in VoteId /\ x.signer \in Officers
                     /\ votes' = [votes EXCEPT ![event.vote] = saved(event.vote, newVote(x.signer))]
    BY <1>2
  <2> DEFINE v == event.vote
  <2> DEFINE ballots == [o \in Officers |-> IF votes[v] # NoVote THEN votes[v].ballots[o] ELSE None]
  <2>2. votes[v] # NoVote => votes[v].ballots \in Ballots
    BY <1>1, <2>1 DEF Vote
  <2>3. ballots \in Ballots
    BY <2>2 DEF Ballots
  <2>4. saved(v, newVote(x.signer)) = [loc |-> x.signer, status |-> "PENDING", ballots |-> ballots]
    BY SavedNew
  <2> HIDE DEF ballots, v
  <2>5. saved(v, newVote(x.signer)) \in Vote
    BY <2>1, <2>3, <2>4 DEF Vote, Locs, VoteStatus
  <2> QED
    BY <1>1, <2>1, <2>5 DEF v
<1>3. CASE \E event : /\ event.vote \in VoteId /\ event.voter \in Officers /\ event.result \in VoteResult
                      /\ votes[event.vote] # NoVote
                      /\ votes' = [votes EXCEPT ![event.vote] = withEvent(@, event)]
  <2>1. PICK event : /\ event.vote \in VoteId /\ event.voter \in Officers /\ event.result \in VoteResult
                     /\ votes[event.vote] # NoVote
                     /\ votes' = [votes EXCEPT ![event.vote] = withEvent(@, event)]
    BY <1>3
  <2>2. votes[event.vote] \in Vote
    BY <1>1, <2>1
  <2>3. withEvent(votes[event.vote], event) \in Vote
    BY <2>1, <2>2, BallotWith
  <2> QED
    BY <1>1, <2>1, <2>3
<1>4. <1>2!1 \/ <1>3!1
  BY VoteWrite
<1> QED
  BY <1>2, <1>3, <1>4

LEMMA RecordedApplied ==
    ASSUME Typed, VotesTold, VotesRecorded, apply
    PROVE  VotesRecorded'
<1>1. UNCHANGED << blocks, chain, drops >> /\ (severalVotesInBatch' <=> severalVotesInBatch)
  BY ApplyIs DEF severalVotesInBatch, voteCalls
<1> SUFFICES ASSUME ~severalVotesInBatch PROVE Recorded'
  BY <1>1 DEF VotesRecorded, Recorded
<1>2. Recorded /\ Told3
  BY DEF VotesRecorded, Recorded, VotesTold, Told3
<1>3. PICK b \in DOMAIN blocks : \E k \in DOMAIN Calls(b) : Applies(b, k)
  BY ApplyIs, Applying
<1>4. PICK k \in DOMAIN Calls(b) : Applies(b, k)
  BY <1>3
<1> DEFINE x == Calls(b)[k]
<1>5. \/ addVote(x) \/ updateVote(x)
      \/ UNCHANGED votes /\ ~isVote(x)
  <2>1. x = Head(job.todo)
    BY <1>4 DEF Applies
  <2> HIDE DEF x
  <2>2. isIssuerCall(x) => ~isVote(x)
    BY DEF isIssuerCall, isVote, isCreation, isBallot, isCall
  <2> QED
    BY <2>1, <2>2 DEF apply, notifyIssuerNominatedDismissed, handleIssuerSelectedUnselected, skip, isVote
<1>6. CASE UNCHANGED votes /\ ~isVote(x)
  BY <1>1, <1>2, <1>4, <1>6, RecordedUnheeded
<1>7. CASE addVote(x) \/ updateVote(x)
  <2>1. isVote(x)
    BY <1>7, VoteWrite
  <2>2. PassesAt(b)
    BY <1>1, <1>4, <2>1, Passing
  <2>3. \/ /\ Created(blocks[b])
           /\ votes' = [votes EXCEPT ![of(blocks[b])] = saved(of(blocks[b]), newVote(blocks[b].signer))]
        \/ /\ Cast(blocks[b]) /\ votes[of(blocks[b])] # NoVote
           /\ votes' = [votes EXCEPT ![of(blocks[b])] = withEvent(@, blocks[b].events[1])]
    BY <1>7, VoteWrite DEF of
  <2>4. RecordedBy(votes', b)
    BY <1>2, <2>2, <2>3, CreationRecorded, BallotRecorded
  <2> QED
    BY <1>1, <2>2, <2>4, RecordedNext
<1> QED
  BY <1>5, <1>6, <1>7

LEMMA VotesRecordedKept ==
    ASSUME Typed, VotesTold, VotesRecorded, Next
    PROVE  VotesRecorded'
<1>1. ASSUME UNCHANGED << blocks, chain, votes >>, Back, drops' = 0 => drops = 0 /\ Same
      PROVE  VotesRecorded'
  BY <1>1, RecordedLeft DEF VotesRecorded, Recorded, severalVotesInBatch, voteCalls
<1>2. drops \in Nat
  BY ConstantsAssumption DEF Typed
<1>3. Same => Back
  BY DEF Same, Back
<1>4. CASE startJob \/ nextBlock \/ sync
  BY <1>1, <1>3, <1>4, MovingOn DEF Untouched
<1>5. CASE dropJob \/ crash
  BY <1>1, <1>2, <1>5, GoingBack DEF Untouched
<1>6. CASE addTransaction
  <2>1. UNCHANGED << blocks, chain, votes, drops >> /\ At' = At /\ Upto' = Upto
    BY <1>6, Adding
  <2>2. Same
    BY <2>1 DEF Same, Done
  <2> QED
    BY <1>1, <1>3, <2>1, <2>2
<1>7. CASE writeSelection
  <2>1. UNCHANGED << blocks, chain, votes, drops >> /\ Same
    BY <1>7, WriteIs DEF Same
  <2> QED
    BY <1>1, <1>3, <2>1
<1> QED
  BY <1>4, <1>5, <1>6, <1>7, RecordedGrowing, RecordedApplied DEF Next, Finalize

-----------------------------------------------------------------------------
(***************************************************************************)
(* The inductive invariant.                                                *)
(***************************************************************************)

\* The shape of the state, of the blocks and chain that are.
LEMMA TypedNext ==
    ASSUME Typed, UNCHANGED << blocks, chain, syncPoint, drops >>,
           job' = Idle \/ Running',
           votes' \in [VoteId -> Vote \union { NoVote }],
           selection' \in [Locs \X Issuers -> Selection],
           pending' \subseteq Write, unsure' \subseteq Issuers
    PROVE  Typed'
<1>1. \A b : TellsOneVote(blocks[b])' <=> TellsOneVote(blocks[b])
  OBVIOUS
<1> QED
  BY <1>1 DEF Typed

LEMMA WritesTyped ==
    ASSUME Typed, NEW x, Written(x)
    PROVE  pending' \subseteq Write /\ unsure' \subseteq Issuers
<1>1. pending \subseteq Write /\ unsure \subseteq Issuers
  BY DEF Typed
<1>2. ASSUME NEW w \in Write, writes(w)
      PROVE  pending' \subseteq Write /\ unsure' \subseteq Issuers
  BY <1>1, <1>2 DEF writes, Write
<1>3. CASE UNCHANGED << pending, unsure >>
  BY <1>1, <1>3
<1>4. [issuer |-> x.call.issuer, loc |-> None] \in Write
  BY DEF Written, Write
<1>5. x.call.selected \in BOOLEAN => [issuer |-> x.call.issuer, loc |-> x.signer, selected |-> x.call.selected] \in Write
  BY DEF Written, Write
<1> QED
  BY <1>2, <1>3, <1>4, <1>5 DEF Written

LEMMA TypedKept ==
    ASSUME Typed, Next
    PROVE  Typed'
<1>1. /\ votes \in [VoteId -> Vote \union { NoVote }]
      /\ selection \in [Locs \X Issuers -> Selection]
      /\ pending \subseteq Write /\ unsure \subseteq Issuers /\ (job = Idle \/ Running)
  BY DEF Typed
<1>2. CASE apply
  <2>1. canApply /\ applied /\ UNCHANGED << blocks, chain, syncPoint, drops >>
    BY <1>2, ApplyIs
  <2>2. Running'
    BY <2>1, Applying
  <2>3. PICK b \in DOMAIN blocks : \E k \in DOMAIN Calls(b) : Head(job.todo) = Calls(b)[k]
    BY <2>1, Applying DEF Applies
  <2>4. PICK k \in DOMAIN Calls(b) : Head(job.todo) = Calls(b)[k]
    BY <2>3
  <2> DEFINE x == Calls(b)[k]
  <2>5. votes' \in [VoteId -> Vote \union { NoVote }]
    <3>1. CASE addVote(x) \/ updateVote(x)
      BY <3>1, VotesTyped
    <3>2. addVote(x) \/ updateVote(x) \/ UNCHANGED votes
      <4> HIDE DEF x
      <4> QED
        BY <1>2, <2>4 DEF apply, notifyIssuerNominatedDismissed, handleIssuerSelectedUnselected, skip, x
    <3> QED
      BY <1>1, <3>1, <3>2
  <2>6. selection' = selection /\ (UNCHANGED << pending, unsure >> \/ Written(Head(job.todo)))
    BY <1>2, AppliesWrites
  <2>7. pending' \subseteq Write /\ unsure' \subseteq Issuers
    BY <1>1, <2>6, WritesTyped
  <2> QED
    BY <1>1, <2>1, <2>2, <2>5, <2>6, <2>7, TypedNext
<1>3. CASE addTransaction
  BY <1>1, <1>3, Adding, TypedNext
<1>4. CASE writeSelection
  <2>1. UNCHANGED << blocks, chain, syncPoint, job, votes, drops, unsure >>
    BY <1>4, WriteIs
  <2>2. job' = Idle \/ Running'
    BY <1>1, <2>1 DEF Running, Calls
  <2>3. PICK w \in pending : selectUnselect(w) \/ unselectAll(w)
    BY <1>4 DEF writeSelection
  <2>4. pending' \subseteq pending
    BY <2>3 DEF selectUnselect, unselectAll, wrote
  <2>5. selection' \in [Locs \X Issuers -> Selection]
    <3>1. CASE selectUnselect(w)
      <4>1. w.loc # None
        BY <3>1 DEF selectUnselect
      <4>2. w \in [issuer : Issuers, loc : Locs, selected : BOOLEAN]
        BY <1>1, <4>1 DEF Write
      <4>3. w.selected \in Selection
        BY <4>2 DEF Selection
      <4> QED
        BY <1>1, <3>1, <4>3 DEF selectUnselect
    <3>2. CASE unselectAll(w)
      <4>1. FALSE \in Selection
        BY DEF Selection
      <4> QED
        BY <1>1, <3>2, <4>1 DEF unselectAll
    <3> QED
      BY <2>3, <3>1, <3>2
  <2> QED
    BY <1>1, <2>1, <2>2, <2>4, <2>5, TypedNext
<1> QED
  BY <1>2, <1>3, <1>4, Growing, MovingOn, GoingBack DEF Next, Finalize

LEMMA InvInit ==
    ASSUME Init
    PROVE  Inv
<1>1. /\ blocks = << >> /\ DOMAIN blocks = {} /\ Len(blocks) = 0
      /\ chain = [votes |-> << >>, nominated |-> {}, selected |-> {}]
      /\ syncPoint = 0 /\ job = Idle /\ transactions = {} /\ pending = {} /\ drops = 0 /\ unsure = {}
      /\ votes = [v \in VoteId |-> NoVote] /\ selection = [x \in Locs \X Issuers |-> None]
  BY DEF Init
<1>2. chain.votes = << >> /\ DOMAIN chain.votes = {} /\ chain.selected = {}
  BY <1>1
<1>3. Typed
  <2>1. chain \in Chain /\ OneVoteEach(chain)
    BY <1>1, <1>2 DEF Chain, OneVoteEach
  <2>2. blocks \in Seq(ToSet(blocks))
    BY <1>1
  <2>3. selection \in [Locs \X Issuers -> Selection] /\ votes \in [VoteId -> Vote \union { NoVote }]
    BY <1>1 DEF Selection
  <2> QED
    BY <1>1, <2>1, <2>2, <2>3, ConstantsAssumption DEF Typed
<1>4. OneWrite
  BY <1>1 DEF OneWrite
<1>5. \A l, i : ~LastSelects(l, i) /\ ~LastOwnSelects(l, i)
  BY <1>1 DEF LastSelects, LastOwnSelects
<1>6. ChainFollows
  BY <1>2, <1>5 DEF ChainFollows
<1>7. ShownFollows
  <2> SUFFICES ASSUME NEW l \in Locs, NEW i \in Issuers PROVE ~shown(l, i)
    BY <1>5 DEF ShownFollows
  <2>1. selection[<< l, i >>] = None
    BY <1>1
  <2>2. None # TRUE
    BY ConstantsAssumption
  <2> QED
    BY <1>1, <2>1, <2>2 DEF shown
<1>8. VotesTold
  BY <1>1, <1>2 DEF VotesTold, CreationsTold, BallotsTold, ToldOnce
<1>9. VotesRecorded
  BY <1>1 DEF VotesRecorded, RowsOfChain, PassedInRows, BallotsInRows
<1>10. RowsExtracted /\ RowsStored
  BY <1>1 DEF RowsExtracted, RowsStored
<1> QED
  BY <1>3, <1>4, <1>6, <1>7, <1>8, <1>9, <1>10 DEF Inv

LEMMA InvNext ==
    ASSUME Inv, [Next]_vars
    PROVE  Inv'
<1>1. CASE Next
  BY <1>1, TypedKept, OneWriteKept, ShownFollowsKept, ChainFollowsKept, VotesToldKept,
     VotesRecordedKept, RowsKept DEF Inv, Rows
<1>2. CASE UNCHANGED vars
  <2>1. UNCHANGED << blocks, chain, syncPoint, job, transactions, votes, selection, pending, drops, unsure >>
    BY <1>2 DEF vars
  <2>2. UNCHANGED << At, Upto >>
    BY <2>1 DEF At, Upto, Calls
  <2>3. Same /\ \A b, r : Saved(b, r)' <=> Saved(b, r)
    BY <2>1, <2>2 DEF Same, Done, Saved
  <2>4. Back
    BY <2>3 DEF Same, Back
  <2>5. Typed'
    <3>1. Running => Running'
      BY <2>1 DEF Running, Calls
    <3>2. /\ votes \in [VoteId -> Vote \union { NoVote }]
          /\ selection \in [Locs \X Issuers -> Selection]
          /\ pending \subseteq Write /\ unsure \subseteq Issuers /\ (job = Idle \/ Running)
      BY DEF Inv, Typed
    <3> QED
      BY <2>1, <3>1, <3>2, TypedNext DEF Inv
  <2>6. OneWrite'
    BY <2>1 DEF Inv, OneWrite
  <2>7. ShownFollows'
    BY <2>1, <2>4, ShownLeft, ShownUnchanged DEF Inv
  <2>8. ChainFollows'
    BY <2>1, SameBlocks DEF Inv, ChainFollows
  <2>9. VotesTold'
    <3>1. severalVotesInBatch' <=> severalVotesInBatch
      BY <2>1 DEF severalVotesInBatch, voteCalls
    <3>2. CreationsTold => CreationsTold'
      BY <2>1 DEF CreationsTold, Created, of
    <3>3. BallotsTold => BallotsTold'
      BY <2>1 DEF BallotsTold, Cast, of, outcomeOf
    <3>4. ToldOnce => ToldOnce'
      BY <2>1 DEF ToldOnce, Told, Created, Cast, of
    <3> QED
      BY <3>1, <3>2, <3>3, <3>4 DEF Inv, VotesTold
  <2>10. VotesRecorded'
    BY <2>1, <2>3, <2>4, RecordedLeft
       DEF Inv, VotesRecorded, Recorded, severalVotesInBatch, voteCalls
  <2>11. RowsExtracted' /\ RowsStored'
    BY <2>1, <2>3 DEF Inv, RowsExtracted, RowsStored
  <2> QED
    BY <2>5, <2>6, <2>7, <2>8, <2>9, <2>10, <2>11 DEF Inv
<1> QED
  BY <1>1, <1>2

\* Whatever is dropped, replayed or written late: the job applies the blocks in
\* their order, the rows hold nothing that the chain did not say, and what is
\* shown of an issuer is what the last call that tells of it says.
THEOREM Invariance == Spec => []Inv
<1>1. Init => Inv
  BY InvInit
<1>2. Inv /\ [Next]_vars => Inv'
  BY InvNext
<1> QED
  BY <1>1, <1>2, PTL DEF Spec

-----------------------------------------------------------------------------
(***************************************************************************)
(* What the properties say of the votes.                                   *)
(***************************************************************************)

\* The call that is to be applied is the next one.
LEMMA Heading ==
    ASSUME Typed, canApply
    PROVE  /\ At = job.at /\ At \in DOMAIN blocks /\ Upto + 1 \in DOMAIN Calls(At)
           /\ Head(job.todo) = Calls(At)[Upto + 1] /\ ~Done(At, Upto + 1)
<1>1. /\ Running /\ At = job.at /\ job.at \in DOMAIN blocks /\ At \in Nat
      /\ Upto = Len(Calls(job.at)) - Len(job.todo) /\ Upto \in Nat
  BY Position DEF canApply
<1> DEFINE s == Calls(job.at)
<1> DEFINE t == job.todo
<1>2. /\ s \in Seq(ToSet(s))
      /\ t \in Seq(ToSet(s)) /\ Len(t) <= Len(s) /\ t # << >>
      /\ \A j \in DOMAIN t : t[j] = s[Len(s) - Len(t) + j]
  BY <1>1, Shape DEF Running, canApply
<1>3. Len(s) - Len(t) + 1 \in DOMAIN s /\ Head(t) = s[Len(s) - Len(t) + 1]
  <2> HIDE DEF s, t
  <2> QED  BY <1>2, Shorter
<1>4. ~Done(At, Upto + 1)
  BY <1>1 DEF Done
<1>5. Upto + 1 \in DOMAIN Calls(At) /\ Head(job.todo) = Calls(At)[Upto + 1]
  BY <1>1, <1>3
<1> QED
  BY <1>1, <1>4, <1>5

LEMMA StuckFollows ==
    ASSUME Typed, VotesTold, VotesRecorded
    PROVE  StuckForAReason
<1> DEFINE x == Head(job.todo)
<1> DEFINE e == blocks[job.at]
<1> DEFINE event == eventOf(x, "VoteUpdated")
<1> SUFFICES ASSUME canApply, isStuck(x), ~severalVotesInBatch, e.failure # "other"
             PROVE  drops > 0 /\ votes[event.vote].ballots[event.voter] # None
  BY DEF StuckForAReason
<1>1. /\ At = job.at /\ job.at \in DOMAIN blocks /\ Upto + 1 \in DOMAIN Calls(job.at)
      /\ x = Calls(job.at)[Upto + 1] /\ ~Done(job.at, Upto + 1)
  BY Heading
<1>2. Finalized(e) /\ TellsOneVote(e) /\ ~(Cardinality(voteCalls(e)) > 1)
  BY <1>1 DEF Typed, severalVotesInBatch
<1> DEFINE k == Upto + 1
<1>3. k \in DOMAIN unwrapExtrinsics(e) /\ x = unwrapExtrinsics(e)[k]
  BY <1>1 DEF Calls
<1>4. x.events = e.events
  BY <1>2, <1>3, CallsUnwrapped
<1>5. /\ isCreation(x) => Created(e)
      /\ isBallot(x) => Cast(e)
  BY <1>2, <1>3 DEF TellsOneVote
<1> HIDE DEF x, k, e
<1>6. /\ Created(e) => hasEvent(x, "VoteCreated")
      /\ Cast(e) => hasEvent(x, "VoteUpdated")
  BY <1>4 DEF Created, Cast, hasEvent, Events
<1>7. isBallot(x) /\ ~canAddBallot(x) /\ Cast(e) /\ hasEvent(x, "VoteUpdated") /\ isVote(x)
  BY <1>5, <1>6 DEF isStuck, isVote
<1>8. event = e.events[1]
  BY <1>2, <1>3, <1>7, FirstEvent DEF Cast
<1> HIDE DEF event
<1>9. ~Passed(job.at)
  BY <1>1, <1>7 DEF Passed, x
<1>10. votes[event.vote] # NoVote
  <2>1. PICK a \in 1 .. job.at - 1 : Created(blocks[a]) /\ of(blocks[a]) = event.vote
    BY <1>1, <1>7, <1>8 DEF VotesTold, BallotsTold, e
  <2>2. a \in DOMAIN blocks /\ a < At
    BY <1>1, Shape
  <2>3. Passed(a)
    BY <2>2 DEF Passed, Done
  <2> QED
    BY <2>1, <2>2, <2>3 DEF VotesRecorded, PassedInRows, of, Told
<1>11. votes[event.vote].ballots[event.voter] # None
  BY <1>1, <1>7, <1>8, <1>10 DEF canAddBallot, VotesRecorded, BallotsInRows, of, e, event
<1>12. drops # 0
  BY <1>1, <1>7, <1>8, <1>9, <1>10, <1>11 DEF VotesRecorded, BallotsInRows, of, e
<1> QED
  BY <1>11, <1>12, ConstantsAssumption DEF Typed

\* Two rows with the same content are equal.
LEMMA SameVote ==
    ASSUME NEW r \in Vote, NEW s \in Vote, r.loc = s.loc, r.status = s.status,
           \A o \in Officers : r.ballots[o] = s.ballots[o]
    PROVE  r = s
<1>1. r.ballots = s.ballots
  BY DEF Vote, Ballots
<1> QED
  BY <1>1 DEF Vote

LEMMA CaughtUp ==
    ASSUME Typed, syncPoint = Len(blocks)
    PROVE  \A b \in DOMAIN blocks : b < At /\ \A k : Done(b, k)
<1>1. At \in Nat /\ syncPoint + 1 <= At /\ Len(blocks) \in Nat /\ DOMAIN blocks = 1 .. Len(blocks)
  BY Shape, Position
<1> QED
  BY <1>1 DEF Done

LEMMA VotesFollow ==
    ASSUME Typed, VotesTold, VotesRecorded
    PROVE  CaughtUpVotesAreTrue
<1> SUFFICES ASSUME syncPoint = Len(blocks), ~severalVotesInBatch, NEW v \in VoteId
             PROVE  votes[v] = IF v \in DOMAIN chain.votes THEN chain.votes[v] ELSE NoVote
  BY DEF CaughtUpVotesAreTrue
<1>1. \A b \in DOMAIN blocks : Passed(b)
  BY CaughtUp DEF Passed
<1>2. CreationsTold /\ BallotsTold /\ RowsOfChain /\ PassedInRows
  BY DEF VotesTold, VotesRecorded
<1>3. CASE v \notin DOMAIN chain.votes
  BY <1>2, <1>3 DEF RowsOfChain
<1>4. CASE v \in DOMAIN chain.votes
  <2>1. votes[v] # NoVote
    <3>1. PICK b \in DOMAIN blocks : Created(blocks[b]) /\ of(blocks[b]) = v
      BY <1>2, <1>4 DEF CreationsTold
    <3> QED
      BY <1>1, <1>2, <3>1 DEF PassedInRows, of, Told
  <2>2. votes[v] \in Vote /\ chain.votes[v] \in Vote
    <3>1. chain.votes \in Seq(Vote)
      BY DEF Typed, Chain
    <3> QED
      BY <1>4, <2>1, <3>1 DEF Typed
  <2>3. ASSUME NEW o \in Officers
        PROVE  votes[v].ballots[o] = chain.votes[v].ballots[o]
    <3>1. CASE votes[v].ballots[o] # None
      BY <1>2, <2>1, <3>1 DEF RowsOfChain
    <3>2. CASE votes[v].ballots[o] = None /\ chain.votes[v].ballots[o] # None
      <4>1. PICK b \in DOMAIN blocks : Cast(blocks[b]) /\ of(blocks[b]) = v /\ blocks[b].events[1].voter = o
        BY <1>2, <1>4, <3>2 DEF BallotsTold
      <4>2. votes[v].ballots[o] = blocks[b].events[1].result
        BY <1>1, <1>2, <4>1 DEF PassedInRows, of
      <4>3. blocks[b].events[1].result # None
        BY <4>1, ToldEvent DEF Typed, Told
      <4> QED
        BY <3>2, <4>2, <4>3
    <3> QED
      BY <3>1, <3>2
  <2>4. votes[v].status = chain.votes[v].status
    <3>1. CASE votes[v].status # "PENDING"
      BY <1>2, <2>1, <3>1 DEF RowsOfChain
    <3>2. CASE votes[v].status = "PENDING" /\ chain.votes[v].status # "PENDING"
      <4>1. PICK b \in DOMAIN blocks : Cast(blocks[b]) /\ of(blocks[b]) = v /\ blocks[b].events[1].closed
        BY <1>2, <1>4, <3>2 DEF BallotsTold
      <4>2. votes[v].status = outcomeOf(blocks[b].events[1])
        BY <1>1, <1>2, <4>1 DEF PassedInRows, of
      <4> QED
        BY <3>2, <4>2 DEF outcomeOf
    <3> QED
      BY <3>1, <3>2
  <2>5. votes[v].loc = chain.votes[v].loc
    BY <1>2, <2>1 DEF RowsOfChain
  <2> QED
    BY <1>4, <2>2, <2>3, <2>4, <2>5, SameVote
<1> QED
  BY <1>3, <1>4

\* Once caught up, the rows of the votes are the votes of the chain (see
\* CaughtUpVotesAreTrue), for any officers and any number of dropped jobs.
THEOREM VotesTrue == Spec => []CaughtUpVotesAreTrue
<1>1. Inv => CaughtUpVotesAreTrue
  BY VotesFollow DEF Inv
<1> QED
  BY <1>1, Invariance, PTL

\* The synchronization of a vote stops only for one of three reasons (see
\* StuckForAReason).
THEOREM StuckReason == Spec => []StuckForAReason
<1>1. Inv => StuckForAReason
  BY StuckFollows DEF Inv
<1> QED
  BY <1>1, Invariance, PTL

-----------------------------------------------------------------------------
(***************************************************************************)
(* What the properties say of the selections.                              *)
(***************************************************************************)

\* A dismissal that tells of an issuer is among those of its extrinsic.
LEMMA Dismissed ==
    ASSUME NEW e, Finalized(e), NEW j \in DOMAIN unwrapExtrinsics(e), NEW x, x = unwrapExtrinsics(e)[j],
           isIssuerCall(x), x.call.method = "dismissIssuer"
    PROVE  << x.signer, x.call.issuer >> \in dismissals(e)
<1> DEFINE u == unwrapExtrinsics(e)
<1>1. x.signer = e.signer /\ Accepted(e)
  BY CallsUnwrapped
<1>2. e.failure = "none" /\ x.call.section = "logionLoc"
  BY <1>1 DEF Accepted, isIssuerCall, isCall
<1>3. DOMAIN u = 1 .. Len(u) /\ (Alone(e, u) \/ InBatch(e, u))
  BY Unwrapped
<1> HIDE DEF u
<1>4. x = u[j] /\ j \in DOMAIN u
  BY DEF u
<1> DEFINE S == { e.call } \union (IF e.call.section = "utility" /\ e.call.method = "batchAll"
                                   THEN ToSet(e.call.calls) ELSE {})
<1>5. x.call \in S
  <2>1. CASE Alone(e, u)
    <3>1. j = 1
      BY <1>3, <1>4, <2>1 DEF Alone
    <3> QED
      BY <1>4, <2>1, <3>1 DEF Alone, IsCallOf
  <2>2. CASE InBatch(e, u)
    <3>1. PICK a, b \in OfficerCalls :
          /\ e.call = batchAll(a, b)
          /\ IsCallOf(u[1], e, e.call) /\ IsCallOf(u[2], e, a) /\ IsCallOf(u[3], e, b)
      BY <2>2 DEF InBatch
    <3>2. j = 1 \/ j = 2 \/ j = 3
      BY <1>3, <1>4, <2>2 DEF InBatch
    <3>3. e.call.section = "utility" /\ e.call.method = "batchAll" /\ e.call.calls = << a, b >>
      BY <3>1 DEF batchAll
    <3>4. a \in ToSet(<< a, b >>) /\ b \in ToSet(<< a, b >>)
      BY DEF ToSet
    <3> QED
      BY <1>4, <3>1, <3>2, <3>3, <3>4 DEF IsCallOf
  <2> QED
    BY <1>3, <2>1, <2>2
<1> QED
  BY <1>1, <1>2, <1>5 DEF dismissals

LEMMA LastIsOwn ==
    ASSUME NEW l, NEW i, LastSelects(l, i)
    PROVE  LastOwnSelects(l, i)
<1>1. PICK b \in DOMAIN blocks : \E k \in DOMAIN Calls(b) :
        /\ tells(Calls(b)[k], l, i) /\ selects(Calls(b)[k])
        /\ \A c \in DOMAIN blocks : \A j \in DOMAIN Calls(c) :
              tells(Calls(c)[j], l, i) => ~After(c, j, b, k)
  BY DEF LastSelects
<1>2. PICK k \in DOMAIN Calls(b) :
        /\ tells(Calls(b)[k], l, i) /\ selects(Calls(b)[k])
        /\ \A c \in DOMAIN blocks : \A j \in DOMAIN Calls(c) :
              tells(Calls(c)[j], l, i) => ~After(c, j, b, k)
  BY <1>1
<1>3. \A x : tells(x, l, i) /\ selects(x) => own(x, l, i)
  BY DEF tells, selects, own
<1>4. \A x : own(x, l, i) => tells(x, l, i)
  BY DEF own
<1> QED
  BY <1>2, <1>3, <1>4 DEF LastOwnSelects

LEMMA OthersDismiss ==
    ASSUME Typed, NEW l \in Locs, NEW i \in Issuers, LastOwnSelects(l, i), ~LastSelects(l, i)
    PROVE  \E b \in DOMAIN blocks, o \in Officers \ { l } : << o, i >> \in dismissals(blocks[b])
<1>1. PICK b \in DOMAIN blocks : \E k \in DOMAIN Calls(b) :
        /\ own(Calls(b)[k], l, i) /\ selects(Calls(b)[k])
        /\ \A c \in DOMAIN blocks : \A j \in DOMAIN Calls(c) :
              own(Calls(c)[j], l, i) => ~After(c, j, b, k)
  BY DEF LastOwnSelects
<1>2. PICK k \in DOMAIN Calls(b) :
        /\ own(Calls(b)[k], l, i) /\ selects(Calls(b)[k])
        /\ \A c \in DOMAIN blocks : \A j \in DOMAIN Calls(c) :
              own(Calls(c)[j], l, i) => ~After(c, j, b, k)
  BY <1>1
<1>3. PICK c \in DOMAIN blocks : \E j \in DOMAIN Calls(c) : tells(Calls(c)[j], l, i) /\ After(c, j, b, k)
  BY <1>2 DEF LastSelects, own
<1>4. PICK j \in DOMAIN Calls(c) : tells(Calls(c)[j], l, i) /\ After(c, j, b, k)
  BY <1>3
<1> DEFINE x == Calls(c)[j]
<1>5. ~own(x, l, i)
  BY <1>2, <1>4
<1>6. isIssuerCall(x) /\ x.call.issuer = i /\ x.call.method = "dismissIssuer" /\ x.signer # l
  BY <1>4, <1>5 DEF tells, own
<1>7. x.signer \in Officers
  BY <1>6 DEF isIssuerCall
<1>8. << x.signer, i >> \in dismissals(blocks[c])
  BY <1>6, Dismissed DEF Typed, Calls
<1> HIDE DEF x
<1>9. x.signer \in Officers \ { l }
  BY <1>6, <1>7
<1> QED
  BY <1>8, <1>9

LEMMA SelectionFollows ==
    ASSUME Typed, ShownFollows, ChainFollows
    PROVE  SelectionFollowsChain
<1> SUFFICES ASSUME syncPoint = Len(blocks), pending = {}, NEW l \in Locs, NEW i \in Issuers \ unsure
             PROVE  /\ selection[<< l, i >>] = TRUE => << l, i >> \in chain.selected
                    /\ << l, i >> \in chain.selected /\ selection[<< l, i >>] # TRUE =>
                          \E b \in DOMAIN blocks, o \in Officers \ { l } : << o, i >> \in dismissals(blocks[b])
  BY DEF SelectionFollowsChain
<1>1. AllToldDone(l, i)
  BY CaughtUp DEF AllToldDone
<1>2. selection[<< l, i >>] = TRUE <=> LastSelects(l, i)
  <2>1. shown(l, i) <=> selection[<< l, i >>] = TRUE
    BY ShownAlone
  <2> QED
    BY <1>1, <2>1 DEF ShownFollows
<1>3. << l, i >> \in chain.selected <=> LastOwnSelects(l, i)
  BY DEF ChainFollows
<1> QED
  BY <1>2, <1>3, LastIsOwn, OthersDismiss

\* Once caught up, an issuer that is shown as selected is selected on chain, and
\* the other way round but for a dismissal by another officer (see
\* SelectionFollowsChain).
THEOREM SelectionsFollow == Spec => []SelectionFollowsChain
<1>1. Inv => SelectionFollowsChain
  BY SelectionFollows DEF Inv
<1> QED
  BY <1>1, Invariance, PTL

-----------------------------------------------------------------------------
(***************************************************************************)
(* What the events of an extrinsic are.                                    *)
(***************************************************************************)

ChargeMethods ==
    { "StorageFeeWithdrawn", "CertificateFeeWithdrawn", "ValueFeeWithdrawn", "Reserved", "Unreserved",
      "LegalFeeWithdrawn", "TokensRecordFeeWithdrawn", "CollectionItemFeeWithdrawn" }

Beneficiary == { "LegalFeeWithdrawn", "TokensRecordFeeWithdrawn", "CollectionItemFeeWithdrawn" }

\* the account that the extrinsic is shown to, and the one whose tokens move
payer(e) == IF determineType(e) = "TRANSFER_FROM_RECOVERED" THEN e.call.account ELSE e.signer
mover(e) == IF determineType(e) = "TRANSFER_FROM_VAULT" THEN e.call.vault ELSE payer(e)
receiver(e) ==
    IF determineType(e) = "TRANSFER" THEN e.call.dest
    ELSE IF determineType(e) = "TRANSFER_FROM_RECOVERED" THEN e.call.call.dest ELSE None

LEMMA Types ==
    ASSUME NEW e
    PROVE  /\ e.call.section = "balances" => determineType(e) = "TRANSFER"
           /\ e.call \in Recovered => determineType(e) = "TRANSFER_FROM_RECOVERED"
           /\ e.call \in Approvals => determineType(e) = "TRANSFER_FROM_VAULT"
           /\ e.call.section \notin { "balances", "recovery", "vault" } =>
                 determineType(e) = "GENERIC_TRANSACTION"
<1>1. e.call.section = "balances" => determineType(e) = "TRANSFER"
  BY DEF determineType
<1>2. e.call \in Recovered => determineType(e) = "TRANSFER_FROM_RECOVERED"
  BY DEF determineType, Recovered, Transfers
<1>3. e.call \in Approvals => determineType(e) = "TRANSFER_FROM_VAULT"
  BY DEF determineType, Approvals, Transfers
<1>4. e.call.section \notin { "balances", "recovery", "vault" } =>
                 determineType(e) = "GENERIC_TRANSACTION"
  BY DEF determineType
<1> QED
  BY <1>1, <1>2, <1>3, <1>4

\* the events of a kind, by the extrinsic's shape
Regular(e) ==
    /\ e.signer \in Accounts /\ payer(e) \in Accounts /\ mover(e) \in Accounts
    /\ receiver(e) \in Accounts \union { None }
    /\ determineType(e) = "TRANSFER_FROM_RECOVERED" => payer(e) # e.signer
    /\ determineType(e) = "TRANSFER_FROM_VAULT" => e.call.call.dest \in Accounts
    /\ Len(e.events) \in Nat
    /\ error(e) => \A m : Events(e, m) = {}
    /\ \A m \in ChargeMethods : \A i \in Events(e, m) :
          determineType(e) = "GENERIC_TRANSACTION" /\ e.events[i].from \in Accounts
    /\ \A i \in Events(e, "CollectionItemFeeWithdrawn") : e.events[i].from = e.signer
    /\ \A m \in Beneficiary : \A i \in Events(e, m) : e.events[i].to \in Accounts \union { None }
    /\ Events(e, "Transfer") # {} =>
          /\ Events(e, "Transfer") = { 1 } /\ determineType(e) # "GENERIC_TRANSACTION"
          /\ e.events[1].from = mover(e)

LEMMA RegularEmpty ==
    ASSUME NEW e, e.signer \in Accounts, payer(e) \in Accounts, mover(e) \in Accounts,
           receiver(e) \in Accounts \union { None },
           determineType(e) = "TRANSFER_FROM_RECOVERED" => payer(e) # e.signer,
           determineType(e) = "TRANSFER_FROM_VAULT" => e.call.call.dest \in Accounts,
           e.events = << >>
    PROVE  Regular(e)
<1>1. Len(e.events) = 0 /\ \A m : Events(e, m) = {}
  BY DEF Events
<1> QED
  BY <1>1 DEF Regular

LEMMA RegularMoved ==
    ASSUME NEW e, e.signer \in Accounts, payer(e) \in Accounts, mover(e) \in Accounts,
           receiver(e) \in Accounts \union { None },
           determineType(e) = "TRANSFER_FROM_RECOVERED" => payer(e) # e.signer,
           determineType(e) = "TRANSFER_FROM_VAULT" => e.call.call.dest \in Accounts,
           determineType(e) # "GENERIC_TRANSACTION",
           NEW call, Moves(e, mover(e), call) \/ (e.failure = "none" /\ e.events = << >>)
    PROVE  Regular(e)
<1>1. CASE e.events = << >>
  BY <1>1, RegularEmpty
<1>2. CASE e.failure = "none" /\ e.events = moved(mover(e), call)
  <2>1. /\ Len(e.events) = 1 /\ e.events[1].method = "Transfer" /\ e.events[1].from = mover(e)
        /\ ~error(e)
    BY <1>2 DEF moved, error
  <2>2. Events(e, "Transfer") = { 1 } /\ \A m : m # "Transfer" => Events(e, m) = {}
    BY <2>1 DEF Events
  <2>3. \A m \in ChargeMethods \union Beneficiary : m # "Transfer"
    BY DEF ChargeMethods, Beneficiary
  <2>4. "CollectionItemFeeWithdrawn" \in ChargeMethods
    BY DEF ChargeMethods
  <2> QED
    BY <2>1, <2>2, <2>3, <2>4 DEF Regular
<1> QED
  BY <1>1, <1>2 DEF Moves

LEMMA FinalizedRegular ==
    ASSUME NEW e, Finalized(e)
    PROVE  Regular(e)
<1>0. Officers \subseteq Accounts
  BY ConstantsAssumption
<1>1. ASSUME e.call.section \notin { "balances", "recovery", "vault" }
      PROVE  /\ determineType(e) = "GENERIC_TRANSACTION"
             /\ payer(e) = e.signer /\ mover(e) = e.signer /\ receiver(e) = None
  BY <1>1, Types DEF payer, mover, receiver
<1>2. \A c \in OfficerCalls \union { Batch, Other } : c.section \notin { "balances", "recovery", "vault" }
  BY DEF OfficerCalls, VoteCalls, CreateVote, CastVote, IssuerCalls, Batch, Other
<1>3. \A a, b : batchAll(a, b).section \notin { "balances", "recovery", "vault" }
  BY DEF batchAll
<1>4. CASE Accepted(e)
  <2>1. e.signer \in Accounts /\ e.events \in Seq(VoteEvent) /\ ~error(e)
    BY <1>0, <1>4 DEF Accepted, error
  <2>2. \A m \in ChargeMethods \union Beneficiary \union { "Transfer" } : m \notin { "VoteCreated", "VoteUpdated" }
    BY DEF ChargeMethods, Beneficiary
  <2>3. \A i \in 1 .. Len(e.events) : e.events[i].method \in { "VoteCreated", "VoteUpdated" }
    BY <2>1 DEF VoteEvent
  <2>4. \A m \in ChargeMethods \union Beneficiary \union { "Transfer" } : Events(e, m) = {}
    BY <2>2, <2>3 DEF Events
  <2>5. "CollectionItemFeeWithdrawn" \in ChargeMethods
    BY DEF ChargeMethods
  <2>6. Len(e.events) \in Nat
    BY <2>1
  <2> QED
    BY <1>1, <1>2, <1>3, <1>4, <2>1, <2>4, <2>5, <2>6 DEF Accepted, Regular
<1>5. CASE Refused(e)
  <2>1. e.call.section \notin { "balances", "recovery", "vault" }
    BY <1>2, <1>3, <1>5 DEF Refused
  <2> QED
    BY <1>1, <1>5, <2>1, RegularEmpty DEF Refused
<1>6. CASE e.call = Other /\ e.failure = "none" /\ e.events \in Seq(Charges(e.signer)) /\ e.signer \in Accounts
  <2>1. /\ determineType(e) = "GENERIC_TRANSACTION" /\ ~error(e) /\ Len(e.events) \in Nat
        /\ payer(e) = e.signer /\ mover(e) = e.signer /\ receiver(e) = None
    BY <1>1, <1>2, <1>6 DEF error
  <2>2. \A i \in 1 .. Len(e.events) : e.events[i] \in Charges(e.signer)
    BY <1>6
  <2>3. \A x \in Charges(e.signer) :
          /\ x.from \in Accounts /\ x.method # "Transfer"
          /\ x.method = "CollectionItemFeeWithdrawn" => x.from = e.signer
          /\ x.method \in Beneficiary => x.to \in Accounts \union { None }
    BY <1>6 DEF Charges, Beneficiary
  <2>4. \A m : \A i \in Events(e, m) : /\ e.events[i].from \in Accounts
                                       /\ m # "Transfer"
                                       /\ m = "CollectionItemFeeWithdrawn" => e.events[i].from = e.signer
                                       /\ m \in Beneficiary => e.events[i].to \in Accounts \union { None }
    BY <2>2, <2>3 DEF Events
  <2>5. Events(e, "Transfer") = {}
    BY <2>4
  <2> QED
    BY <1>6, <2>1, <2>4, <2>5 DEF Regular
<1>7. CASE e.call \in Transfers /\ Moves(e, e.signer, e.call) /\ e.signer \in Accounts
  <2>1. determineType(e) = "TRANSFER" /\ e.call.dest \in Accounts
    BY <1>7, Types DEF Transfers
  <2>2. payer(e) = e.signer /\ mover(e) = e.signer /\ receiver(e) \in Accounts
    BY <2>1 DEF payer, mover, receiver
  <2> QED
    BY <1>7, <2>1, <2>2, RegularMoved
<1>8. CASE /\ e.call \in Recovered /\ e.call.account # e.signer
           /\ Moves(e, e.call.account, e.call.call) /\ e.signer \in Accounts
  <2>1. determineType(e) = "TRANSFER_FROM_RECOVERED" /\ e.call.call.dest \in Accounts /\ e.call.account \in Accounts
    BY <1>8, Types DEF Recovered, Transfers
  <2>2. payer(e) = e.call.account /\ mover(e) = e.call.account /\ receiver(e) \in Accounts
    BY <2>1 DEF payer, mover, receiver
  <2> QED
    BY <1>8, <2>1, <2>2, RegularMoved
<1>9. CASE /\ e.call \in Approvals /\ e.signer \in Accounts
           /\ Moves(e, e.call.vault, e.call.call) \/ (e.failure = "none" /\ e.events = << >>)
  <2>1. determineType(e) = "TRANSFER_FROM_VAULT" /\ e.call.call.dest \in Accounts /\ e.call.vault \in Accounts
    BY <1>9, Types DEF Approvals, Transfers
  <2>2. payer(e) = e.signer /\ mover(e) = e.call.vault /\ receiver(e) = None
    BY <2>1 DEF payer, mover, receiver
  <2> QED
    BY <1>9, <2>1, <2>2, RegularMoved
<1> QED
  BY <1>4, <1>5, <1>6, <1>7, <1>8, <1>9 DEF Finalized, Charging

-----------------------------------------------------------------------------
(***************************************************************************)
(* What the rows of an extrinsic are.                                      *)
(***************************************************************************)

Entry(type, from, to, fs, rs, vs, ok, hidden) ==
    [ type |-> type, from |-> from, to |-> to, fees |-> fs, reserved |-> rs, value |-> vs,
      successful |-> ok, hiddenFrom |-> hidden ]

\* not expanded where a record is changed
Success == TRUE

LEMMA RowIs ==
    ASSUME NEW t, NEW f
    PROVE  row(t, f) = Entry(t, f, None, {}, {}, {}, Success, None)
  BY DEF row, Entry, Success

\* rows of one amount
FeeRow(t, f, i)        == Entry(t, f, None, { i }, {}, {}, Success, None)
ValueRow(t, f, to, rs, i) == Entry(t, f, to, {}, rs, { i }, Success, None)
HiddenRow(t, f, to, i) == Entry(t, f, to, {}, {}, { i }, Success, "FROM")
ReserveRow(f, rs)      == Entry("RESERVE", f, None, {}, rs, {}, Success, None)
VaultRow(f, to, vs)    == Entry("VAULT_OUT", f, to, {}, {}, vs, Success, None)

\* the ways a row is made
WithFees(t, f, fs)         == [row(t, f) EXCEPT !.fees = fs]
WithReserve(t, f, rs)      == [row(t, f) EXCEPT !.reserved = rs]
WithValue(t, f, vs, to)    == [row(t, f) EXCEPT !.value = vs, !.to = to]
WithHidden(t, f, vs, to)   == [row(t, f) EXCEPT !.value = vs, !.to = to, !.hiddenFrom = "FROM"]
WithValueOnly(t, f, vs, rs) == [row(t, f) EXCEPT !.value = vs, !.reserved = rs]
WithOwn(t, f, fs, rs)      == [row(t, f) EXCEPT !.fees = fs, !.reserved = rs]

LEMMA RowForms ==
    ASSUME NEW t, NEW f, NEW to, NEW rs, NEW vs, NEW fs
    PROVE  /\ WithFees(t, f, fs) = Entry(t, f, None, fs, {}, {}, Success, None)
           /\ WithReserve(t, f, rs) = Entry(t, f, None, {}, rs, {}, Success, None)
           /\ WithValue(t, f, vs, to) = Entry(t, f, to, {}, {}, vs, Success, None)
           /\ WithValueOnly(t, f, vs, rs) = Entry(t, f, None, {}, rs, vs, Success, None)
           /\ WithOwn(t, f, fs, rs) = Entry(t, f, None, fs, rs, {}, Success, None)
           /\ WithHidden(t, f, vs, to) = Entry(t, f, to, {}, {}, vs, Success, "FROM")
<1> DEFINE r == row(t, f)
<1>1. r = Entry(t, f, None, {}, {}, {}, Success, None)
  BY RowIs
<1> HIDE DEF r
<1>2. /\ [r EXCEPT !.fees = fs] = Entry(t, f, None, fs, {}, {}, Success, None)
      /\ [r EXCEPT !.reserved = rs] = Entry(t, f, None, {}, rs, {}, Success, None)
      /\ [r EXCEPT !.value = vs] = Entry(t, f, None, {}, {}, vs, Success, None)
  BY <1>1 DEF Entry
<1> DEFINE q == [r EXCEPT !.value = vs]
<1> DEFINE p == [r EXCEPT !.fees = fs]
<1>3. /\ [r EXCEPT !.value = vs, !.to = to] = [q EXCEPT !.to = to]
      /\ [r EXCEPT !.value = vs, !.reserved = rs] = [q EXCEPT !.reserved = rs]
      /\ [r EXCEPT !.fees = fs, !.reserved = rs] = [p EXCEPT !.reserved = rs]
  OBVIOUS
<1> HIDE DEF p, q
<1>4. /\ q = Entry(t, f, None, {}, {}, vs, Success, None)
      /\ p = Entry(t, f, None, fs, {}, {}, Success, None)
  BY <1>2 DEF p, q
<1>5. /\ [q EXCEPT !.to = to] = Entry(t, f, to, {}, {}, vs, Success, None)
      /\ [q EXCEPT !.reserved = rs] = Entry(t, f, None, {}, rs, vs, Success, None)
      /\ [p EXCEPT !.reserved = rs] = Entry(t, f, None, fs, rs, {}, Success, None)
  BY <1>4 DEF Entry
<1> DEFINE s == [q EXCEPT !.to = to]
<1>6. [r EXCEPT !.value = vs, !.to = to, !.hiddenFrom = "FROM"] = [s EXCEPT !.hiddenFrom = "FROM"]
  BY DEF q
<1> HIDE DEF s
<1>7. [s EXCEPT !.hiddenFrom = "FROM"] = Entry(t, f, to, {}, {}, vs, Success, "FROM")
  <2>1. s = Entry(t, f, to, {}, {}, vs, Success, None)
    BY <1>5 DEF s
  <2> QED
    BY <2>1 DEF Entry
<1> QED
  BY <1>2, <1>3, <1>5, <1>6, <1>7
     DEF r, WithFees, WithReserve, WithValue, WithValueOnly, WithOwn, WithHidden

Failure == FALSE

succeeds(e) == IF error(e) THEN Failure ELSE Success

\* the row of the extrinsic itself
moves(e) ==
    IF determineType(e) \in { "TRANSFER", "TRANSFER_FROM_RECOVERED" } THEN transferValue(e) ELSE {}

ownFees(e) == IF error(e) THEN onlyInclusion(fees(e)) ELSE fees(e)

TheExtrinsic(e) ==
    Entry("EXTRINSIC", payer(e), receiver(e), ownFees(e), reservedBy(e, e.signer), moves(e),
          succeeds(e), None)

LEMMA FactoryRow ==
    ASSUME NEW e, NEW f, NEW to, NEW fs, NEW rs, NEW vs,
           NEW r, r = Entry("EXTRINSIC", f, to, fs, rs, vs, Success, None)
    PROVE  newTransaction(e, r)
             = Entry("EXTRINSIC", f, to, IF error(e) THEN onlyInclusion(fs) ELSE fs, rs, vs, succeeds(e), None)
<1>1. CASE error(e)
  <2> DEFINE x == onlyInclusion(fs)
  <2> DEFINE q == [r EXCEPT !.fees = x]
  <2>1. r.fees = fs
    BY DEF Entry
  <2>2. newTransaction(e, r) = [q EXCEPT !.successful = Failure]
    BY <1>1, <2>1 DEF newTransaction, Failure
  <2> HIDE DEF x
  <2>3. q = Entry("EXTRINSIC", f, to, x, rs, vs, Success, None)
    BY DEF Entry
  <2> HIDE DEF q
  <2>4. [q EXCEPT !.successful = Failure] = Entry("EXTRINSIC", f, to, x, rs, vs, Failure, None)
    BY <2>3 DEF Entry
  <2>5. succeeds(e) = Failure /\ x = IF error(e) THEN onlyInclusion(fs) ELSE fs
    BY <1>1 DEF succeeds, x
  <2> QED
    BY <2>2, <2>4, <2>5
<1>2. CASE ~error(e)
  <2>1. newTransaction(e, r) = r
    BY <1>2 DEF newTransaction
  <2>2. succeeds(e) = Success /\ fs = IF error(e) THEN onlyInclusion(fs) ELSE fs
    BY <1>2 DEF succeeds
  <2> QED
    BY <2>1, <2>2
<1> QED
  BY <1>1, <1>2

LEMMA ExtrinsicRow ==
    ASSUME NEW e
    PROVE  actualExtrinsic(e) = { TheExtrinsic(e) }
<1> DEFINE T == determineType(e)
<1> DEFINE rs == reservedBy(e, e.signer)
<1> DEFINE fs == fees(e)
<1> DEFINE charged(f) == [row("EXTRINSIC", f) EXCEPT !.fees = fs, !.reserved = rs]
<1> DEFINE vs == transferValue(e)
<1> DEFINE spent(f, to) == [charged(f) EXCEPT !.value = vs, !.to = to]
<1> DEFINE p == payer(e)
<1> DEFINE to == receiver(e)
<1>1. ASSUME NEW f
      PROVE  charged(f) = Entry("EXTRINSIC", f, None, fs, rs, {}, Success, None)
  <2>1. charged(f) = WithOwn("EXTRINSIC", f, fs, rs)
    BY DEF WithOwn
  <2> HIDE DEF charged, fs, rs
  <2> QED
    BY <2>1, RowForms
<1>2. ASSUME NEW f, NEW d
      PROVE  spent(f, d) = Entry("EXTRINSIC", f, d, fs, rs, vs, Success, None)
  <2> DEFINE r == charged(f)
  <2> DEFINE q == [r EXCEPT !.value = vs]
  <2>1. r = Entry("EXTRINSIC", f, None, fs, rs, {}, Success, None)
    BY <1>1
  <2>2. spent(f, d) = [q EXCEPT !.to = d]
    OBVIOUS
  <2> HIDE DEF r, q, fs, rs, vs
  <2>3. q = Entry("EXTRINSIC", f, None, fs, rs, vs, Success, None)
    BY <2>1 DEF q, Entry
  <2>4. [q EXCEPT !.to = d] = Entry("EXTRINSIC", f, d, fs, rs, vs, Success, None)
    BY <2>3 DEF Entry
  <2> QED
    BY <2>2, <2>4
<1> DEFINE chosen == CASE T = "TRANSFER" -> spent(e.signer, e.call.dest)
                       [] T = "TRANSFER_FROM_RECOVERED" -> spent(e.call.account, e.call.call.dest)
                       [] OTHER -> charged(e.signer)
<1>3. actualExtrinsic(e) = { newTransaction(e, chosen) }
  BY DEF actualExtrinsic
<1>4. chosen = Entry("EXTRINSIC", p, to, fs, rs, moves(e), Success, None)
  <2> HIDE DEF charged, spent, fs, rs, vs
  <2>1. CASE T = "TRANSFER"
    BY <1>2, <2>1 DEF payer, receiver, moves, vs
  <2>2. CASE T = "TRANSFER_FROM_RECOVERED"
    BY <1>2, <2>2 DEF payer, receiver, moves, vs
  <2>3. CASE T \notin { "TRANSFER", "TRANSFER_FROM_RECOVERED" }
    BY <1>1, <2>3 DEF payer, receiver, moves
  <2> QED
    BY <2>1, <2>2, <2>3
<1> HIDE DEF chosen
<1>5. newTransaction(e, chosen) = TheExtrinsic(e)
  BY <1>4, FactoryRow DEF TheExtrinsic, ownFees
<1> QED
  BY <1>3, <1>5

\* The other rows, by kind.
LEMMA OtherRows ==
    ASSUME NEW e
    PROVE  /\ vaultOut(e) = IF determineType(e) = "TRANSFER_FROM_VAULT" /\ ~error(e)
                            THEN { VaultRow(e.call.vault, e.call.call.dest, transferValue(e)) } ELSE {}
           /\ storageFee(e) = { FeeRow("STORAGE_FEE", withdrawnFrom(e, i), i) :
                                   i \in paidByOther(e, "StorageFeeWithdrawn") }
           /\ certificateFee(e) = { FeeRow("CERTIFICATE_FEE", withdrawnFrom(e, i), i) :
                                       i \in paidByOther(e, "CertificateFeeWithdrawn") }
           /\ legalFee(e) = { ValueRow("LEGAL_FEE", withdrawnFrom(e, i), e.events[i].to, {}, i) :
                                 i \in paidByOther(e, "LegalFeeWithdrawn") }
           /\ valueFee(e) = { ValueRow("VALUE_FEE", withdrawnFrom(e, i), None,
                                       reservedBy(e, withdrawnFrom(e, i)), i) :
                                 i \in paidByOther(e, "ValueFeeWithdrawn") }
           /\ \A i, t : toBeneficiary(e, i, t) = HiddenRow(t, withdrawnFrom(e, i), e.events[i].to, i)
           /\ tokensRecordFee(e) =
                UNION { { FeeRow("TOKENS_RECORD_FEE", withdrawnFrom(e, i), i),
                          toBeneficiary(e, i, "TOKENS_RECORD_FEE") } : i \in fee(e, "TokensRecordFeeWithdrawn") }
           /\ reserve(e) =
                { ReserveRow(a, reservedBy(e, a)) :
                    a \in { b \in Accounts :
                              /\ reservedBy(e, b) # {}
                              /\ b # e.signer
                              /\ \A i \in paidByOther(e, "ValueFeeWithdrawn") : withdrawnFrom(e, i) # b } }
<1>1. /\ \A t, f, i : WithFees(t, f, { i }) = FeeRow(t, f, i)
      /\ \A f, to, i : WithValue("LEGAL_FEE", f, { i }, to) = ValueRow("LEGAL_FEE", f, to, {}, i)
      /\ \A f, rs, i : WithValueOnly("VALUE_FEE", f, { i }, rs) = ValueRow("VALUE_FEE", f, None, rs, i)
      /\ \A t, f, to, i : WithHidden(t, f, { i }, to) = HiddenRow(t, f, to, i)
      /\ \A f, to, vs : WithValue("VAULT_OUT", f, vs, to) = VaultRow(f, to, vs)
      /\ \A f, rs : WithReserve("RESERVE", f, rs) = ReserveRow(f, rs)
  BY RowForms DEF FeeRow, ValueRow, HiddenRow, VaultRow, ReserveRow
<1>2. vaultOut(e) = IF determineType(e) = "TRANSFER_FROM_VAULT" /\ ~error(e)
                    THEN { VaultRow(e.call.vault, e.call.call.dest, transferValue(e)) } ELSE {}
  <2>1. vaultOut(e) = IF determineType(e) = "TRANSFER_FROM_VAULT" /\ ~error(e)
                      THEN { WithValue("VAULT_OUT", e.call.vault, transferValue(e), e.call.call.dest) } ELSE {}
    BY DEF vaultOut, WithValue
  <2> QED
    BY <1>1, <2>1
<1>3. storageFee(e) = { FeeRow("STORAGE_FEE", withdrawnFrom(e, i), i) :
                           i \in paidByOther(e, "StorageFeeWithdrawn") }
  <2>1. storageFee(e) = { WithFees("STORAGE_FEE", withdrawnFrom(e, i), { i }) :
                             i \in paidByOther(e, "StorageFeeWithdrawn") }
    BY DEF storageFee, WithFees
  <2>2. \A i : WithFees("STORAGE_FEE", withdrawnFrom(e, i), { i })
                  = FeeRow("STORAGE_FEE", withdrawnFrom(e, i), i)
    BY <1>1
  <2> QED
    BY <2>1, <2>2
<1>4. certificateFee(e) = { FeeRow("CERTIFICATE_FEE", withdrawnFrom(e, i), i) :
                               i \in paidByOther(e, "CertificateFeeWithdrawn") }
  <2>1. certificateFee(e) = { WithFees("CERTIFICATE_FEE", withdrawnFrom(e, i), { i }) :
                                 i \in paidByOther(e, "CertificateFeeWithdrawn") }
    BY DEF certificateFee, WithFees
  <2>2. \A i : WithFees("CERTIFICATE_FEE", withdrawnFrom(e, i), { i })
                  = FeeRow("CERTIFICATE_FEE", withdrawnFrom(e, i), i)
    BY <1>1
  <2> QED
    BY <2>1, <2>2
<1>5. legalFee(e) = { ValueRow("LEGAL_FEE", withdrawnFrom(e, i), e.events[i].to, {}, i) :
                         i \in paidByOther(e, "LegalFeeWithdrawn") }
  <2>1. legalFee(e) = { WithValue("LEGAL_FEE", withdrawnFrom(e, i), { i }, e.events[i].to) :
                           i \in paidByOther(e, "LegalFeeWithdrawn") }
    BY DEF legalFee, WithValue
  <2>2. \A i : WithValue("LEGAL_FEE", withdrawnFrom(e, i), { i }, e.events[i].to)
                  = ValueRow("LEGAL_FEE", withdrawnFrom(e, i), e.events[i].to, {}, i)
    BY <1>1
  <2> QED
    BY <2>1, <2>2
<1>6. valueFee(e) = { ValueRow("VALUE_FEE", withdrawnFrom(e, i), None,
                               reservedBy(e, withdrawnFrom(e, i)), i) :
                         i \in paidByOther(e, "ValueFeeWithdrawn") }
  <2>1. valueFee(e) = { WithValueOnly("VALUE_FEE", withdrawnFrom(e, i), { i },
                                      reservedBy(e, withdrawnFrom(e, i))) :
                           i \in paidByOther(e, "ValueFeeWithdrawn") }
    BY DEF valueFee, WithValueOnly
  <2>2. \A i : WithValueOnly("VALUE_FEE", withdrawnFrom(e, i), { i }, reservedBy(e, withdrawnFrom(e, i)))
                  = ValueRow("VALUE_FEE", withdrawnFrom(e, i), None, reservedBy(e, withdrawnFrom(e, i)), i)
    BY <1>1
  <2> QED
    BY <2>1, <2>2
<1>7. ASSUME NEW i, NEW t
      PROVE  toBeneficiary(e, i, t) = HiddenRow(t, withdrawnFrom(e, i), e.events[i].to, i)
  <2>1. toBeneficiary(e, i, t) = WithHidden(t, withdrawnFrom(e, i), { i }, e.events[i].to)
    BY DEF toBeneficiary, WithHidden
  <2> QED
    BY <1>1, <2>1
<1>8. tokensRecordFee(e) =
        UNION { { FeeRow("TOKENS_RECORD_FEE", withdrawnFrom(e, i), i),
                  toBeneficiary(e, i, "TOKENS_RECORD_FEE") } : i \in fee(e, "TokensRecordFeeWithdrawn") }
  <2>1. tokensRecordFee(e) =
          UNION { { WithFees("TOKENS_RECORD_FEE", withdrawnFrom(e, i), { i }),
                    toBeneficiary(e, i, "TOKENS_RECORD_FEE") } : i \in fee(e, "TokensRecordFeeWithdrawn") }
    BY DEF tokensRecordFee, WithFees
  <2> QED
    BY <1>1, <2>1, Zenon
<1>9. reserve(e) =
        { ReserveRow(a, reservedBy(e, a)) :
            a \in { b \in Accounts :
                      /\ reservedBy(e, b) # {}
                      /\ b # e.signer
                      /\ \A i \in paidByOther(e, "ValueFeeWithdrawn") : withdrawnFrom(e, i) # b } }
  <2>1. reserve(e) =
          { WithReserve("RESERVE", a, reservedBy(e, a)) :
              a \in { b \in Accounts :
                        /\ reservedBy(e, b) # {}
                        /\ b # e.signer
                        /\ \A i \in paidByOther(e, "ValueFeeWithdrawn") : withdrawnFrom(e, i) # b } }
    BY DEF reserve, WithReserve
  <2> QED
    BY <1>1, <2>1, Zenon
<1> QED
  BY <1>2, <1>3, <1>4, <1>5, <1>6, <1>7, <1>8, <1>9

\* The fees of a kind are one event at most, and no event is of two kinds.
LEMMA FeeEvents ==
    ASSUME NEW e, Regular(e)
    PROVE  /\ \A m : \A i \in Events(e, m) :
                 i \in Nat /\ i # 0 /\ e.events[i].method = m /\ withdrawnFrom(e, i) = e.events[i].from
           /\ \A m : fee(e, m) \subseteq Events(e, m)
           /\ \A m : \A i, j \in fee(e, m) : i = j
           /\ \A m : Events(e, m) # {} => fee(e, m) # {}
           /\ transferValue(e) = Events(e, "Transfer")
           /\ withdrawnFrom(e, 0) = e.signer
<1>1. Len(e.events) \in Nat
  BY DEF Regular
<1>2. \A m : \A i \in Events(e, m) :
         i \in Nat /\ i # 0 /\ e.events[i].method = m /\ withdrawnFrom(e, i) = e.events[i].from
  BY <1>1 DEF Events, withdrawnFrom
<1>3. \A m : Events(e, m) \subseteq 1 .. Len(e.events)
  BY DEF Events
<1>4. \A m : Events(e, m) # {} => Max(Events(e, m)) \in Events(e, m)
  BY <1>1, <1>3, Extremes
<1>5. \A m : fee(e, m) \subseteq Events(e, m)
  BY <1>4 DEF fee
<1>6. \A m : \A i, j \in fee(e, m) : i = j
  BY DEF fee
<1>7. \A m : Events(e, m) # {} => fee(e, m) # {}
  BY DEF fee
<1>8. transferValue(e) = Events(e, "Transfer")
  <2>1. CASE Events(e, "Transfer") = {}
    BY <2>1 DEF transferValue
  <2>2. CASE Events(e, "Transfer") = { 1 }
    <3>1. Min({ 1 }) = 1
      <4>1. Min({ 1 }) \in { 1 }
        <5>1. { 1 } \in SUBSET (1 .. 1) /\ { 1 } # {}
          OBVIOUS
        <5> QED
          BY <5>1, Extremes
      <4> QED
        BY <4>1
    <3> QED
      BY <2>2, <3>1 DEF transferValue
  <2> QED
    BY <2>1, <2>2 DEF Regular
<1>9. withdrawnFrom(e, 0) = e.signer
  BY DEF withdrawnFrom
<1> QED
  BY <1>2, <1>5, <1>6, <1>7, <1>8, <1>9

Visible(e) == { r \in extractTransactions(e) : r.hiddenFrom # "FROM" }

\* The rows that show their payer what it paid.
LEMMA VisibleRow ==
    ASSUME NEW e, Regular(e), NEW r \in Visible(e)
    PROVE  \/ r = TheExtrinsic(e)
           \/ /\ determineType(e) = "TRANSFER_FROM_VAULT" /\ ~error(e)
              /\ r = VaultRow(e.call.vault, e.call.call.dest, transferValue(e))
           \/ \E i \in paidByOther(e, "StorageFeeWithdrawn") :
                 r = FeeRow("STORAGE_FEE", withdrawnFrom(e, i), i)
           \/ \E i \in paidByOther(e, "CertificateFeeWithdrawn") :
                 r = FeeRow("CERTIFICATE_FEE", withdrawnFrom(e, i), i)
           \/ \E i \in paidByOther(e, "LegalFeeWithdrawn") :
                 r = ValueRow("LEGAL_FEE", withdrawnFrom(e, i), e.events[i].to, {}, i)
           \/ \E i \in paidByOther(e, "ValueFeeWithdrawn") :
                 r = ValueRow("VALUE_FEE", withdrawnFrom(e, i), None,
                              reservedBy(e, withdrawnFrom(e, i)), i)
           \/ \E i \in fee(e, "TokensRecordFeeWithdrawn") :
                 r = FeeRow("TOKENS_RECORD_FEE", withdrawnFrom(e, i), i)
           \/ \E a \in Accounts :
                 /\ reservedBy(e, a) # {} /\ a # e.signer
                 /\ \A i \in paidByOther(e, "ValueFeeWithdrawn") : withdrawnFrom(e, i) # a
                 /\ r = ReserveRow(a, reservedBy(e, a))
<1>1. r \in extractTransactions(e) /\ r.hiddenFrom # "FROM"
  BY DEF Visible
<1>2. \/ r \in vaultOut(e) \/ r \in actualExtrinsic(e) \/ r \in storageFee(e) \/ r \in certificateFee(e)
      \/ r \in legalFee(e) \/ r \in valueFee(e) \/ r \in collectionItemFee(e)
      \/ r \in tokensRecordFee(e) \/ r \in reserve(e)
  BY <1>1 DEF extractTransactions
<1>3. \A i, t : toBeneficiary(e, i, t).hiddenFrom = "FROM"
  <2> SUFFICES ASSUME NEW i, NEW t PROVE toBeneficiary(e, i, t).hiddenFrom = "FROM"
    OBVIOUS
  <2>1. toBeneficiary(e, i, t) = HiddenRow(t, withdrawnFrom(e, i), e.events[i].to, i)
    BY OtherRows
  <2> QED
    BY <2>1 DEF HiddenRow, Entry
<1>4. r \notin collectionItemFee(e)
  BY <1>1, <1>3 DEF collectionItemFee
<1>5. CASE r \in tokensRecordFee(e)
  <2>1. PICK i \in fee(e, "TokensRecordFeeWithdrawn") :
          r \in { FeeRow("TOKENS_RECORD_FEE", withdrawnFrom(e, i), i),
                  toBeneficiary(e, i, "TOKENS_RECORD_FEE") }
    BY <1>5, OtherRows
  <2>2. r = FeeRow("TOKENS_RECORD_FEE", withdrawnFrom(e, i), i)
    BY <1>1, <1>3, <2>1
  <2> QED
    BY <2>2
<1>6. CASE r \in reserve(e)
  <2>1. PICK a \in { b \in Accounts :
                       /\ reservedBy(e, b) # {}
                       /\ b # e.signer
                       /\ \A i \in paidByOther(e, "ValueFeeWithdrawn") : withdrawnFrom(e, i) # b } :
          r = ReserveRow(a, reservedBy(e, a))
    BY <1>6, OtherRows
  <2> QED
    BY <2>1
<1>7. CASE r \in vaultOut(e)
  <2>1. vaultOut(e) = IF determineType(e) = "TRANSFER_FROM_VAULT" /\ ~error(e)
                      THEN { VaultRow(e.call.vault, e.call.call.dest, transferValue(e)) } ELSE {}
    BY OtherRows
  <2> QED
    BY <1>7, <2>1
<1>8. CASE r \in actualExtrinsic(e)
  BY <1>8, ExtrinsicRow
<1>9. CASE r \in storageFee(e)
  BY <1>9, OtherRows
<1>10. CASE r \in certificateFee(e)
  BY <1>10, OtherRows
<1>11. CASE r \in legalFee(e)
  BY <1>11, OtherRows
<1>12. CASE r \in valueFee(e)
  BY <1>12, OtherRows
<1> QED
  BY <1>2, <1>4, <1>5, <1>6, <1>7, <1>8, <1>9, <1>10, <1>11, <1>12

\* Type, payer and amounts of each of these rows.
LEMMA RowContents ==
    ASSUME NEW e
    PROVE  /\ LET r == TheExtrinsic(e)
              IN  /\ r.type = "EXTRINSIC" /\ r.from = payer(e) /\ r.hiddenFrom = None
                  /\ ~error(e) => total(r) = fees(e) \union reservedBy(e, e.signer) \union moves(e)
                  /\ error(e) => total(r) = onlyInclusion(fees(e)) \union reservedBy(e, e.signer)
           /\ \A f, to, vs : LET r == VaultRow(f, to, vs)
                             IN  r.type = "VAULT_OUT" /\ r.from = f /\ r.hiddenFrom = None /\ total(r) = vs
           /\ \A t, f, i : LET r == FeeRow(t, f, i)
                           IN  r.type = t /\ r.from = f /\ r.hiddenFrom = None /\ total(r) = { i }
           /\ \A t, f, to, rs, i : LET r == ValueRow(t, f, to, rs, i)
                                   IN  /\ r.type = t /\ r.from = f /\ r.hiddenFrom = None
                                       /\ total(r) = rs \union { i }
           /\ \A f, rs : LET r == ReserveRow(f, rs)
                         IN  r.type = "RESERVE" /\ r.from = f /\ r.hiddenFrom = None /\ total(r) = rs
<1>0. Success = TRUE /\ Failure = FALSE
  BY DEF Success, Failure
<1>1. LET r == TheExtrinsic(e)
      IN  /\ r.type = "EXTRINSIC" /\ r.from = payer(e) /\ r.hiddenFrom = None
          /\ ~error(e) => total(r) = fees(e) \union reservedBy(e, e.signer) \union moves(e)
          /\ error(e) => total(r) = onlyInclusion(fees(e)) \union reservedBy(e, e.signer)
  <2> DEFINE r == TheExtrinsic(e)
  <2>1. r = Entry("EXTRINSIC", payer(e), receiver(e), ownFees(e), reservedBy(e, e.signer), moves(e),
                  succeeds(e), None)
    BY DEF TheExtrinsic
  <2> HIDE DEF r
  <2>2. /\ r.type = "EXTRINSIC" /\ r.from = payer(e) /\ r.hiddenFrom = None
        /\ r.fees = ownFees(e) /\ r.reserved = reservedBy(e, e.signer) /\ r.value = moves(e)
        /\ r.successful = succeeds(e)
    BY <2>1 DEF Entry
  <2>3. /\ succeeds(e) = TRUE => total(r) = ownFees(e) \union reservedBy(e, e.signer) \union moves(e)
        /\ succeeds(e) = FALSE => total(r) = ownFees(e) \union reservedBy(e, e.signer)
    BY <2>2 DEF total
  <2>4. /\ ~error(e) => succeeds(e) = TRUE /\ ownFees(e) = fees(e)
        /\ error(e) => succeeds(e) = FALSE /\ ownFees(e) = onlyInclusion(fees(e))
    BY <1>0 DEF succeeds, ownFees
  <2> QED
    BY <2>2, <2>3, <2>4 DEF r
<1>2. ASSUME NEW f, NEW to, NEW vs
      PROVE  LET r == VaultRow(f, to, vs)
             IN  r.type = "VAULT_OUT" /\ r.from = f /\ r.hiddenFrom = None /\ total(r) = vs
  <2> DEFINE r == VaultRow(f, to, vs)
  <2>1. r = Entry("VAULT_OUT", f, to, {}, {}, vs, Success, None)
    BY DEF VaultRow
  <2> HIDE DEF r
  <2>2. /\ r.type = "VAULT_OUT" /\ r.from = f /\ r.hiddenFrom = None
        /\ r.fees = {} /\ r.reserved = {} /\ r.value = vs /\ r.successful = Success
    BY <2>1 DEF Entry
  <2>3. total(r) = {} \union {} \union vs
    BY <1>0, <2>2 DEF total
  <2> QED
    BY <2>2, <2>3 DEF r
<1>3. ASSUME NEW t, NEW f, NEW i
      PROVE  LET r == FeeRow(t, f, i)
             IN  r.type = t /\ r.from = f /\ r.hiddenFrom = None /\ total(r) = { i }
  <2> DEFINE r == FeeRow(t, f, i)
  <2>1. r = Entry(t, f, None, { i }, {}, {}, Success, None)
    BY DEF FeeRow
  <2> HIDE DEF r
  <2>2. /\ r.type = t /\ r.from = f /\ r.hiddenFrom = None
        /\ r.fees = { i } /\ r.reserved = {} /\ r.value = {} /\ r.successful = Success
    BY <2>1 DEF Entry
  <2>3. total(r) = { i } \union {} \union {}
    BY <1>0, <2>2 DEF total
  <2> QED
    BY <2>2, <2>3 DEF r
<1>4. ASSUME NEW t, NEW f, NEW to, NEW rs, NEW i
      PROVE  LET r == ValueRow(t, f, to, rs, i)
             IN  r.type = t /\ r.from = f /\ r.hiddenFrom = None /\ total(r) = rs \union { i }
  <2> DEFINE r == ValueRow(t, f, to, rs, i)
  <2>1. r = Entry(t, f, to, {}, rs, { i }, Success, None)
    BY DEF ValueRow
  <2> HIDE DEF r
  <2>2. /\ r.type = t /\ r.from = f /\ r.hiddenFrom = None
        /\ r.fees = {} /\ r.reserved = rs /\ r.value = { i } /\ r.successful = Success
    BY <2>1 DEF Entry
  <2>3. total(r) = {} \union rs \union { i }
    BY <1>0, <2>2 DEF total
  <2> QED
    BY <2>2, <2>3 DEF r
<1>5. ASSUME NEW f, NEW rs
      PROVE  LET r == ReserveRow(f, rs)
             IN  r.type = "RESERVE" /\ r.from = f /\ r.hiddenFrom = None /\ total(r) = rs
  <2> DEFINE r == ReserveRow(f, rs)
  <2>1. r = Entry("RESERVE", f, None, {}, rs, {}, Success, None)
    BY DEF ReserveRow
  <2> HIDE DEF r
  <2>2. /\ r.type = "RESERVE" /\ r.from = f /\ r.hiddenFrom = None
        /\ r.fees = {} /\ r.reserved = rs /\ r.value = {} /\ r.successful = Success
    BY <2>1 DEF Entry
  <2>3. total(r) = {} \union rs \union {}
    BY <1>0, <2>2 DEF total
  <2> QED
    BY <2>2, <2>3 DEF r
<1> QED
  BY <1>1, <1>2, <1>3, <1>4, <1>5

-----------------------------------------------------------------------------
(***************************************************************************)
(* Each charge is in one row, of the account it is shown to.               *)
(***************************************************************************)

OwnType(m) ==
    CASE m = "StorageFeeWithdrawn" -> "STORAGE_FEE"
      [] m = "CertificateFeeWithdrawn" -> "CERTIFICATE_FEE"
      [] m = "LegalFeeWithdrawn" -> "LEGAL_FEE"
      [] OTHER -> "VALUE_FEE"

ReserveType(e, a) ==
    IF \E j \in paidByOther(e, "ValueFeeWithdrawn") : withdrawnFrom(e, j) = a
    THEN "VALUE_FEE" ELSE "RESERVE"

MoveType(e) == IF determineType(e) = "TRANSFER_FROM_VAULT" THEN "VAULT_OUT" ELSE "EXTRINSIC"

\* the type of the row that shows event i to the one that paid for it
Place(e, i) ==
    LET m == e.events[i].method
    IN  CASE i = 0 -> "EXTRINSIC"
          [] i # 0 /\ m = "Transfer" -> MoveType(e)
          [] i # 0 /\ m = "TokensRecordFeeWithdrawn" -> "TOKENS_RECORD_FEE"
          [] i # 0 /\ m \notin { "Transfer", "TokensRecordFeeWithdrawn" } ->
               IF withdrawnFrom(e, i) = e.signer THEN "EXTRINSIC"
               ELSE IF m \in { "Reserved", "Unreserved" } THEN ReserveType(e, withdrawnFrom(e, i))
               ELSE OwnType(m)

LEMMA ChargeEvent ==
    ASSUME NEW e, Regular(e), NEW m \in ChargeMethods, NEW i \in Events(e, m)
    PROVE  /\ determineType(e) = "GENERIC_TRANSACTION" /\ payer(e) = e.signer
           /\ i # 0 /\ e.events[i].method = m /\ m # "Transfer"
           /\ shownTo(e, i) = withdrawnFrom(e, i)
           /\ withdrawnFrom(e, i) \in Accounts
<1>1. determineType(e) = "GENERIC_TRANSACTION" /\ e.events[i].from \in Accounts
  BY DEF Regular
<1>2. i # 0 /\ e.events[i].method = m /\ withdrawnFrom(e, i) = e.events[i].from
  BY FeeEvents
<1> QED
  BY <1>1, <1>2 DEF shownTo, payer, ChargeMethods

LEMMA MoveEvent ==
    ASSUME NEW e, Regular(e), NEW i \in Events(e, "Transfer")
    PROVE  /\ i = 1 /\ e.events[i].method = "Transfer" /\ ~error(e)
           /\ determineType(e) # "GENERIC_TRANSACTION"
           /\ shownTo(e, i) = mover(e)
<1>1. /\ i = 1 /\ determineType(e) # "GENERIC_TRANSACTION" /\ e.events[1].from = mover(e) /\ ~error(e)
      /\ determineType(e) = "TRANSFER_FROM_RECOVERED" => payer(e) # e.signer
  BY DEF Regular
<1>2. e.events[i].method = "Transfer" /\ withdrawnFrom(e, i) = e.events[i].from
  BY FeeEvents
<1> QED
  BY <1>1, <1>2 DEF shownTo, mover, payer

LEMMA Inclusion ==
    ASSUME NEW e
    PROVE  shownTo(e, 0) = payer(e) /\ Place(e, 0) = "EXTRINSIC"
  BY DEF shownTo, withdrawnFrom, payer, Place

LEMMA PlaceOf ==
    ASSUME NEW e, Regular(e), NEW m, NEW i \in Events(e, m)
    PROVE  /\ m = "Transfer" => Place(e, i) = MoveType(e)
           /\ m = "TokensRecordFeeWithdrawn" => Place(e, i) = "TOKENS_RECORD_FEE"
           /\ m \notin { "Transfer", "TokensRecordFeeWithdrawn" } =>
                 /\ withdrawnFrom(e, i) = e.signer => Place(e, i) = "EXTRINSIC"
                 /\ withdrawnFrom(e, i) # e.signer =>
                       /\ m \in { "Reserved", "Unreserved" } =>
                             Place(e, i) = ReserveType(e, withdrawnFrom(e, i))
                       /\ m \notin { "Reserved", "Unreserved" } => Place(e, i) = OwnType(m)
<1>1. i # 0 /\ e.events[i].method = m
  BY FeeEvents
<1> QED
  BY <1>1 DEF Place

\* what is reserved from an account
LEMMA ReservedEvent ==
    ASSUME NEW e, Regular(e), NEW a, NEW i \in reservedBy(e, a)
    PROVE  /\ shownTo(e, i) = a /\ withdrawnFrom(e, i) = a
           /\ determineType(e) = "GENERIC_TRANSACTION" /\ payer(e) = e.signer
           /\ a = e.signer => Place(e, i) = "EXTRINSIC"
           /\ a # e.signer => Place(e, i) = ReserveType(e, a)
<1>1. withdrawnFrom(e, i) = a /\ \E m \in { "Reserved", "Unreserved" } : i \in Events(e, m)
  BY DEF reservedBy
<1>2. PICK m \in { "Reserved", "Unreserved" } : i \in Events(e, m)
  BY <1>1
<1>3. m \in ChargeMethods
  BY DEF ChargeMethods
<1> QED
  BY <1>1, <1>2, <1>3, ChargeEvent, PlaceOf

LEMMA PaidEvent ==
    ASSUME NEW e, Regular(e),
           NEW m \in { "StorageFeeWithdrawn", "CertificateFeeWithdrawn", "LegalFeeWithdrawn",
                       "ValueFeeWithdrawn" },
           NEW i \in paidByOther(e, m)
    PROVE  /\ shownTo(e, i) = withdrawnFrom(e, i) /\ withdrawnFrom(e, i) # e.signer
           /\ Place(e, i) = OwnType(m)
<1>1. i \in Events(e, m) /\ withdrawnFrom(e, i) # e.signer
  BY FeeEvents DEF paidByOther
<1>2. m \in ChargeMethods /\ m \notin { "Reserved", "Unreserved", "Transfer", "TokensRecordFeeWithdrawn" }
  BY DEF ChargeMethods
<1> QED
  BY <1>1, <1>2, ChargeEvent, PlaceOf

LEMMA TokensEvent ==
    ASSUME NEW e, Regular(e), NEW i \in fee(e, "TokensRecordFeeWithdrawn")
    PROVE  shownTo(e, i) = withdrawnFrom(e, i) /\ Place(e, i) = "TOKENS_RECORD_FEE"
<1>1. i \in Events(e, "TokensRecordFeeWithdrawn")
  BY FeeEvents
<1>2. "TokensRecordFeeWithdrawn" \in ChargeMethods
  BY DEF ChargeMethods
<1> QED
  BY <1>1, <1>2, ChargeEvent, PlaceOf

LEMMA OwnFee ==
    ASSUME NEW e, Regular(e), NEW i \in fees(e)
    PROVE  shownTo(e, i) = payer(e) /\ Place(e, i) = "EXTRINSIC"
<1>1. CASE i = 0
  BY <1>1, Inclusion
<1>2. CASE i # 0
  <2>1. withdrawnFrom(e, i) = e.signer /\ \E m \in SignerFees : i \in fee(e, m)
    BY <1>2 DEF fees
  <2>2. PICK m \in SignerFees : i \in fee(e, m)
    BY <2>1
  <2>3. m \in ChargeMethods /\ m \notin { "Transfer", "TokensRecordFeeWithdrawn" }
    BY DEF ChargeMethods, SignerFees
  <2>4. i \in Events(e, m)
    BY <2>2, FeeEvents
  <2> QED
    BY <2>1, <2>3, <2>4, ChargeEvent, PlaceOf
<1> QED
  BY <1>1, <1>2

LEMMA Moved ==
    ASSUME NEW e, Regular(e), NEW i \in moves(e)
    PROVE  shownTo(e, i) = payer(e) /\ Place(e, i) = "EXTRINSIC"
<1>1. /\ determineType(e) \in { "TRANSFER", "TRANSFER_FROM_RECOVERED" }
      /\ i \in Events(e, "Transfer")
  BY FeeEvents DEF moves
<1> QED
  BY <1>1, MoveEvent, PlaceOf DEF MoveType, mover

LEMMA Placed ==
    ASSUME NEW e, Regular(e), NEW r \in Visible(e), NEW i \in total(r)
    PROVE  r.from = shownTo(e, i) /\ r.type = Place(e, i)
<1>1. CASE r = TheExtrinsic(e)
  <2>1. r.type = "EXTRINSIC" /\ r.from = payer(e)
    BY <1>1, RowContents
  <2>2. i \in fees(e) \/ i \in reservedBy(e, e.signer) \/ i \in moves(e)
    BY <1>1, RowContents DEF onlyInclusion
  <2> QED
    BY <2>1, <2>2, OwnFee, ReservedEvent, Moved
<1>2. CASE /\ determineType(e) = "TRANSFER_FROM_VAULT"
           /\ r = VaultRow(e.call.vault, e.call.call.dest, transferValue(e))
  <2>1. r.type = "VAULT_OUT" /\ r.from = e.call.vault /\ i \in Events(e, "Transfer")
    BY <1>2, RowContents, FeeEvents
  <2> QED
    BY <1>2, <2>1, MoveEvent, PlaceOf DEF MoveType, mover
<1>3. ASSUME NEW m \in { "StorageFeeWithdrawn", "CertificateFeeWithdrawn" },
             NEW j \in paidByOther(e, m), r = FeeRow(OwnType(m), withdrawnFrom(e, j), j)
      PROVE  r.from = shownTo(e, i) /\ r.type = Place(e, i)
  <2>1. r.type = OwnType(m) /\ r.from = withdrawnFrom(e, j) /\ i = j
    BY <1>3, RowContents
  <2> QED
    BY <2>1, PaidEvent
<1>4. ASSUME NEW j \in paidByOther(e, "LegalFeeWithdrawn"),
             r = ValueRow("LEGAL_FEE", withdrawnFrom(e, j), e.events[j].to, {}, j)
      PROVE  r.from = shownTo(e, i) /\ r.type = Place(e, i)
  <2>1. r.type = "LEGAL_FEE" /\ r.from = withdrawnFrom(e, j) /\ i = j
    BY <1>4, RowContents
  <2> QED
    BY <2>1, PaidEvent DEF OwnType
<1>5. ASSUME NEW j \in paidByOther(e, "ValueFeeWithdrawn"),
             r = ValueRow("VALUE_FEE", withdrawnFrom(e, j), None, reservedBy(e, withdrawnFrom(e, j)), j)
      PROVE  r.from = shownTo(e, i) /\ r.type = Place(e, i)
  <2>1. /\ r.type = "VALUE_FEE" /\ r.from = withdrawnFrom(e, j)
        /\ i = j \/ i \in reservedBy(e, withdrawnFrom(e, j))
    BY <1>5, RowContents
  <2>2. withdrawnFrom(e, j) # e.signer /\ (i = j => r.from = shownTo(e, i) /\ r.type = Place(e, i))
    BY <2>1, PaidEvent DEF OwnType
  <2>3. CASE i \in reservedBy(e, withdrawnFrom(e, j))
    <3>1. shownTo(e, i) = withdrawnFrom(e, j) /\ Place(e, i) = ReserveType(e, withdrawnFrom(e, j))
      BY <2>2, <2>3, ReservedEvent
    <3>2. ReserveType(e, withdrawnFrom(e, j)) = "VALUE_FEE"
      BY DEF ReserveType
    <3> QED
      BY <2>1, <3>1, <3>2
  <2> QED
    BY <2>1, <2>2, <2>3
<1>6. ASSUME NEW j \in fee(e, "TokensRecordFeeWithdrawn"),
             r = FeeRow("TOKENS_RECORD_FEE", withdrawnFrom(e, j), j)
      PROVE  r.from = shownTo(e, i) /\ r.type = Place(e, i)
  <2>1. r.type = "TOKENS_RECORD_FEE" /\ r.from = withdrawnFrom(e, j) /\ i = j
    BY <1>6, RowContents
  <2> QED
    BY <2>1, TokensEvent
<1>7. ASSUME NEW a \in Accounts, a # e.signer,
             \A j \in paidByOther(e, "ValueFeeWithdrawn") : withdrawnFrom(e, j) # a,
             r = ReserveRow(a, reservedBy(e, a))
      PROVE  r.from = shownTo(e, i) /\ r.type = Place(e, i)
  <2>1. r.type = "RESERVE" /\ r.from = a /\ i \in reservedBy(e, a)
    BY <1>7, RowContents
  <2>2. ReserveType(e, a) = "RESERVE"
    BY <1>7 DEF ReserveType
  <2> QED
    BY <1>7, <2>1, <2>2, ReservedEvent
<1>8. OwnType("StorageFeeWithdrawn") = "STORAGE_FEE" /\ OwnType("CertificateFeeWithdrawn") = "CERTIFICATE_FEE"
  BY DEF OwnType
<1>9. /\ \A j \in paidByOther(e, "StorageFeeWithdrawn") :
            r = FeeRow("STORAGE_FEE", withdrawnFrom(e, j), j) =>
              r.from = shownTo(e, i) /\ r.type = Place(e, i)
      /\ \A j \in paidByOther(e, "CertificateFeeWithdrawn") :
            r = FeeRow("CERTIFICATE_FEE", withdrawnFrom(e, j), j) =>
              r.from = shownTo(e, i) /\ r.type = Place(e, i)
  BY <1>3, <1>8
<1> QED
  BY <1>1, <1>2, <1>4, <1>5, <1>6, <1>7, <1>9, VisibleRow

\* the row of its type and payer
ToldByType(e, r) ==
    /\ r.type = "EXTRINSIC" => r = TheExtrinsic(e)
    /\ r.type = "VAULT_OUT" => r = VaultRow(e.call.vault, e.call.call.dest, transferValue(e))
    /\ r.type = "STORAGE_FEE" =>
          \E i \in fee(e, "StorageFeeWithdrawn") : r = FeeRow("STORAGE_FEE", withdrawnFrom(e, i), i)
    /\ r.type = "CERTIFICATE_FEE" =>
          \E i \in fee(e, "CertificateFeeWithdrawn") :
             r = FeeRow("CERTIFICATE_FEE", withdrawnFrom(e, i), i)
    /\ r.type = "TOKENS_RECORD_FEE" =>
          \E i \in fee(e, "TokensRecordFeeWithdrawn") :
             r = FeeRow("TOKENS_RECORD_FEE", withdrawnFrom(e, i), i)
    /\ r.type = "LEGAL_FEE" =>
          \E i \in fee(e, "LegalFeeWithdrawn") :
             r = ValueRow("LEGAL_FEE", withdrawnFrom(e, i), e.events[i].to, {}, i)
    /\ r.type = "VALUE_FEE" =>
          \E i \in fee(e, "ValueFeeWithdrawn") :
             r = ValueRow("VALUE_FEE", withdrawnFrom(e, i), None, reservedBy(e, withdrawnFrom(e, i)), i)
    /\ r.type = "RESERVE" => r = ReserveRow(r.from, reservedBy(e, r.from))
    /\ r.type \in TransactionType \ { "COLLECTION_ITEM_FEE" }

LEMMA OneEach ==
    ASSUME NEW e, Regular(e), NEW r \in Visible(e)
    PROVE  ToldByType(e, r)
<1>1. \A m : paidByOther(e, m) \subseteq fee(e, m)
  BY DEF paidByOther
<1>2. CASE r = TheExtrinsic(e)
  <2>1. r.type = "EXTRINSIC"
    BY <1>2, RowContents
  <2> QED
    BY <1>2, <2>1 DEF TransactionType, ToldByType
<1>3. CASE r = VaultRow(e.call.vault, e.call.call.dest, transferValue(e))
  <2>1. r.type = "VAULT_OUT"
    BY <1>3, RowContents
  <2> QED
    BY <1>3, <2>1 DEF TransactionType, ToldByType
<1>4. CASE \E i \in paidByOther(e, "StorageFeeWithdrawn") :
             r = FeeRow("STORAGE_FEE", withdrawnFrom(e, i), i)
  <2>1. r.type = "STORAGE_FEE"
    BY <1>4, RowContents
  <2> QED
    BY <1>1, <1>4, <2>1 DEF TransactionType, ToldByType
<1>5. CASE \E i \in paidByOther(e, "CertificateFeeWithdrawn") :
             r = FeeRow("CERTIFICATE_FEE", withdrawnFrom(e, i), i)
  <2>1. r.type = "CERTIFICATE_FEE"
    BY <1>5, RowContents
  <2> QED
    BY <1>1, <1>5, <2>1 DEF TransactionType, ToldByType
<1>6. CASE \E i \in paidByOther(e, "LegalFeeWithdrawn") :
             r = ValueRow("LEGAL_FEE", withdrawnFrom(e, i), e.events[i].to, {}, i)
  <2>1. r.type = "LEGAL_FEE"
    BY <1>6, RowContents
  <2> QED
    BY <1>1, <1>6, <2>1 DEF TransactionType, ToldByType
<1>7. CASE \E i \in paidByOther(e, "ValueFeeWithdrawn") :
             r = ValueRow("VALUE_FEE", withdrawnFrom(e, i), None,
                          reservedBy(e, withdrawnFrom(e, i)), i)
  <2>1. r.type = "VALUE_FEE"
    BY <1>7, RowContents
  <2> QED
    BY <1>1, <1>7, <2>1 DEF TransactionType, ToldByType
<1>8. CASE \E i \in fee(e, "TokensRecordFeeWithdrawn") :
             r = FeeRow("TOKENS_RECORD_FEE", withdrawnFrom(e, i), i)
  <2>1. r.type = "TOKENS_RECORD_FEE"
    BY <1>8, RowContents
  <2> QED
    BY <1>8, <2>1 DEF TransactionType, ToldByType
<1>9. CASE \E a \in Accounts : r = ReserveRow(a, reservedBy(e, a))
  <2>1. PICK a \in Accounts : r = ReserveRow(a, reservedBy(e, a))
    BY <1>9
  <2>2. r.type = "RESERVE" /\ r.from = a
    BY <2>1, RowContents
  <2> QED
    BY <2>1, <2>2 DEF TransactionType, ToldByType
<1> QED
  BY <1>2, <1>3, <1>4, <1>5, <1>6, <1>7, <1>8, <1>9, VisibleRow

LEMMA SameRow ==
    ASSUME NEW e, Regular(e), NEW r \in Visible(e), NEW q \in Visible(e),
           r.type = q.type, r.from = q.from
    PROVE  r = q
<1>1. \A m : \A i, j \in fee(e, m) : i = j
  BY FeeEvents
<1>2. ToldByType(e, r) /\ ToldByType(e, q)
  BY OneEach
<1>3. CASE r.type = "EXTRINSIC"
  BY <1>1, <1>2, <1>3 DEF ToldByType
<1>4. CASE r.type = "VAULT_OUT"
  BY <1>1, <1>2, <1>4 DEF ToldByType
<1>5. CASE r.type = "STORAGE_FEE"
  BY <1>1, <1>2, <1>5 DEF ToldByType
<1>6. CASE r.type = "CERTIFICATE_FEE"
  BY <1>1, <1>2, <1>6 DEF ToldByType
<1>7. CASE r.type = "TOKENS_RECORD_FEE"
  BY <1>1, <1>2, <1>7 DEF ToldByType
<1>8. CASE r.type = "LEGAL_FEE"
  BY <1>1, <1>2, <1>8 DEF ToldByType
<1>9. CASE r.type = "VALUE_FEE"
  BY <1>1, <1>2, <1>9 DEF ToldByType
<1>10. CASE r.type = "RESERVE"
  BY <1>1, <1>2, <1>10 DEF ToldByType
<1> QED
  BY <1>2, <1>3, <1>4, <1>5, <1>6, <1>7, <1>8, <1>9, <1>10 DEF ToldByType, TransactionType

\* Each charge is in the total of a row that its payer sees.
LEMMA VisibleMade ==
    ASSUME NEW e, Regular(e)
    PROVE  /\ TheExtrinsic(e) \in Visible(e)
           /\ determineType(e) = "TRANSFER_FROM_VAULT" /\ ~error(e) =>
                 VaultRow(e.call.vault, e.call.call.dest, transferValue(e)) \in Visible(e)
           /\ \A i \in paidByOther(e, "StorageFeeWithdrawn") :
                 FeeRow("STORAGE_FEE", withdrawnFrom(e, i), i) \in Visible(e)
           /\ \A i \in paidByOther(e, "CertificateFeeWithdrawn") :
                 FeeRow("CERTIFICATE_FEE", withdrawnFrom(e, i), i) \in Visible(e)
           /\ \A i \in paidByOther(e, "LegalFeeWithdrawn") :
                 ValueRow("LEGAL_FEE", withdrawnFrom(e, i), e.events[i].to, {}, i) \in Visible(e)
           /\ \A i \in paidByOther(e, "ValueFeeWithdrawn") :
                 ValueRow("VALUE_FEE", withdrawnFrom(e, i), None,
                          reservedBy(e, withdrawnFrom(e, i)), i) \in Visible(e)
           /\ \A i \in fee(e, "TokensRecordFeeWithdrawn") :
                 FeeRow("TOKENS_RECORD_FEE", withdrawnFrom(e, i), i) \in Visible(e)
           /\ \A a \in Accounts :
                 /\ reservedBy(e, a) # {} /\ a # e.signer
                 /\ \A i \in paidByOther(e, "ValueFeeWithdrawn") : withdrawnFrom(e, i) # a
                 => ReserveRow(a, reservedBy(e, a)) \in Visible(e)
<1>1. e.signer # None /\ None # "FROM"
  BY ConstantsAssumption DEF Regular
<1>2. extractTransactions(e) =
        vaultOut(e) \union actualExtrinsic(e) \union storageFee(e) \union certificateFee(e)
          \union legalFee(e) \union valueFee(e) \union collectionItemFee(e)
          \union tokensRecordFee(e) \union reserve(e)
  BY <1>1 DEF extractTransactions
<1>3. TheExtrinsic(e) \in Visible(e)
  <2>1. TheExtrinsic(e) \in extractTransactions(e)
    BY <1>2, ExtrinsicRow
  <2>2. TheExtrinsic(e).hiddenFrom = None
    BY RowContents
  <2> QED
    BY <1>1, <2>1, <2>2 DEF Visible
<1>4. ASSUME determineType(e) = "TRANSFER_FROM_VAULT", ~error(e)
      PROVE  VaultRow(e.call.vault, e.call.call.dest, transferValue(e)) \in Visible(e)
  <2> DEFINE r == VaultRow(e.call.vault, e.call.call.dest, transferValue(e))
  <2>1. vaultOut(e) = { r }
    BY <1>4, OtherRows
  <2>2. r.hiddenFrom = None
    BY RowContents
  <2> HIDE DEF r
  <2>3. r \in Visible(e)
    BY <1>1, <1>2, <2>1, <2>2 DEF Visible
  <2> QED
    BY <2>3 DEF r
<1>5. \A t, f, i : FeeRow(t, f, i).hiddenFrom = None
  BY RowContents
<1>6. \A i \in paidByOther(e, "StorageFeeWithdrawn") :
         FeeRow("STORAGE_FEE", withdrawnFrom(e, i), i) \in Visible(e)
  <2>1. \A i \in paidByOther(e, "StorageFeeWithdrawn") :
           FeeRow("STORAGE_FEE", withdrawnFrom(e, i), i) \in storageFee(e)
    BY OtherRows
  <2> QED
    BY <1>1, <1>2, <1>5, <2>1 DEF Visible
<1>7. \A i \in paidByOther(e, "CertificateFeeWithdrawn") :
         FeeRow("CERTIFICATE_FEE", withdrawnFrom(e, i), i) \in Visible(e)
  <2>1. \A i \in paidByOther(e, "CertificateFeeWithdrawn") :
           FeeRow("CERTIFICATE_FEE", withdrawnFrom(e, i), i) \in certificateFee(e)
    BY OtherRows
  <2> QED
    BY <1>1, <1>2, <1>5, <2>1 DEF Visible
<1>8. \A t, f, to, rs, i : ValueRow(t, f, to, rs, i).hiddenFrom = None
  BY RowContents
<1>9. \A i \in paidByOther(e, "LegalFeeWithdrawn") :
         ValueRow("LEGAL_FEE", withdrawnFrom(e, i), e.events[i].to, {}, i) \in Visible(e)
  <2>1. \A i \in paidByOther(e, "LegalFeeWithdrawn") :
           ValueRow("LEGAL_FEE", withdrawnFrom(e, i), e.events[i].to, {}, i) \in legalFee(e)
    BY OtherRows
  <2> QED
    BY <1>1, <1>2, <1>8, <2>1 DEF Visible
<1>10. \A i \in paidByOther(e, "ValueFeeWithdrawn") :
          ValueRow("VALUE_FEE", withdrawnFrom(e, i), None,
                   reservedBy(e, withdrawnFrom(e, i)), i) \in Visible(e)
  <2>1. \A i \in paidByOther(e, "ValueFeeWithdrawn") :
           ValueRow("VALUE_FEE", withdrawnFrom(e, i), None,
                    reservedBy(e, withdrawnFrom(e, i)), i) \in valueFee(e)
    BY OtherRows
  <2> QED
    BY <1>1, <1>2, <1>8, <2>1 DEF Visible
<1>11. \A i \in fee(e, "TokensRecordFeeWithdrawn") :
          FeeRow("TOKENS_RECORD_FEE", withdrawnFrom(e, i), i) \in Visible(e)
  <2>1. \A i \in fee(e, "TokensRecordFeeWithdrawn") :
           FeeRow("TOKENS_RECORD_FEE", withdrawnFrom(e, i), i) \in tokensRecordFee(e)
    BY OtherRows
  <2> QED
    BY <1>1, <1>2, <1>5, <2>1 DEF Visible
<1>12. \A a \in Accounts :
          /\ reservedBy(e, a) # {} /\ a # e.signer
          /\ \A i \in paidByOther(e, "ValueFeeWithdrawn") : withdrawnFrom(e, i) # a
          => ReserveRow(a, reservedBy(e, a)) \in Visible(e)
  <2>1. \A a \in Accounts :
          /\ reservedBy(e, a) # {} /\ a # e.signer
          /\ \A i \in paidByOther(e, "ValueFeeWithdrawn") : withdrawnFrom(e, i) # a
          => ReserveRow(a, reservedBy(e, a)) \in reserve(e)
    BY OtherRows
  <2>2. \A f, rs : ReserveRow(f, rs).hiddenFrom = None
    BY RowContents
  <2> QED
    BY <1>1, <1>2, <2>1, <2>2 DEF Visible
<1> QED
  BY <1>3, <1>4, <1>6, <1>7, <1>9, <1>10, <1>11, <1>12

LEMMA Found ==
    ASSUME NEW e, Regular(e), NEW i \in charges(e)
    PROVE  \E r \in Visible(e) : i \in total(r)
<1> DEFINE x == TheExtrinsic(e)
<1>1. x \in Visible(e)
  BY VisibleMade
<1>2. /\ ~error(e) => total(x) = fees(e) \union reservedBy(e, e.signer) \union moves(e)
      /\ error(e) => total(x) = onlyInclusion(fees(e)) \union reservedBy(e, e.signer)
  BY RowContents
<1> HIDE DEF x
<1>3. 0 \in fees(e) /\ 0 \in onlyInclusion(fees(e))
  BY DEF fees, onlyInclusion
<1>4. CASE i = 0
  BY <1>1, <1>2, <1>3, <1>4
<1>5. ASSUME NEW m, i \in Events(e, m)
      PROVE  ~error(e) /\ i # 0
  BY <1>5, FeeEvents DEF Regular
<1>6. ASSUME NEW m \in SignerFees, i \in fee(e, m)
      PROVE  \E r \in Visible(e) : i \in total(r)
  <2>1. i \in Events(e, m) /\ ~error(e)
    BY <1>5, <1>6, FeeEvents
  <2>2. CASE withdrawnFrom(e, i) = e.signer
    <3>1. i \in fees(e)
      BY <1>6, <2>2 DEF fees
    <3> QED
      BY <1>1, <1>2, <2>1, <3>1
  <2>3. CASE withdrawnFrom(e, i) # e.signer
    <3>1. i \in paidByOther(e, m)
      BY <1>6, <2>3 DEF paidByOther
    <3>2. m # "CollectionItemFeeWithdrawn"
      <4>1. ASSUME m = "CollectionItemFeeWithdrawn" PROVE FALSE
        BY <2>1, <2>3, <4>1, FeeEvents DEF Regular
      <4> QED
        BY <4>1
    <3>3. \A t, f : total(FeeRow(t, f, i)) = { i }
      BY RowContents
    <3>4. \A t, f, to, rs : total(ValueRow(t, f, to, rs, i)) = rs \union { i }
      BY RowContents
    <3>5. CASE m = "StorageFeeWithdrawn"
      BY <3>1, <3>3, <3>5, VisibleMade
    <3>6. CASE m = "CertificateFeeWithdrawn"
      BY <3>1, <3>3, <3>6, VisibleMade
    <3>7. CASE m = "LegalFeeWithdrawn"
      BY <3>1, <3>4, <3>7, VisibleMade
    <3>8. CASE m = "ValueFeeWithdrawn"
      BY <3>1, <3>4, <3>8, VisibleMade
    <3> QED
      BY <3>2, <3>5, <3>6, <3>7, <3>8 DEF SignerFees
  <2> QED
    BY <2>2, <2>3
<1>7. CASE i \in fee(e, "TokensRecordFeeWithdrawn")
  <2>1. \A t, f : total(FeeRow(t, f, i)) = { i }
    BY RowContents
  <2> QED
    BY <1>7, <2>1, VisibleMade
<1>8. CASE i \in Events(e, "Reserved") \union Events(e, "Unreserved")
  <2> DEFINE a == withdrawnFrom(e, i)
  <2>1. i \in reservedBy(e, a)
    BY <1>8 DEF reservedBy
  <2>2. a \in Accounts
    <3>1. "Reserved" \in ChargeMethods /\ "Unreserved" \in ChargeMethods
      BY DEF ChargeMethods
    <3> QED
      BY <1>8, <3>1, ChargeEvent
  <2> HIDE DEF a
  <2>3. CASE a = e.signer
    BY <1>1, <1>2, <2>1, <2>3
  <2>4. CASE a # e.signer /\ \E j \in paidByOther(e, "ValueFeeWithdrawn") : withdrawnFrom(e, j) = a
    <3>1. PICK j \in paidByOther(e, "ValueFeeWithdrawn") : withdrawnFrom(e, j) = a
      BY <2>4
    <3>2. ValueRow("VALUE_FEE", withdrawnFrom(e, j), None, reservedBy(e, withdrawnFrom(e, j)), j) \in Visible(e)
      BY VisibleMade
    <3>3. total(ValueRow("VALUE_FEE", withdrawnFrom(e, j), None, reservedBy(e, withdrawnFrom(e, j)), j))
            = reservedBy(e, withdrawnFrom(e, j)) \union { j }
      BY RowContents
    <3> QED
      BY <2>1, <3>1, <3>2, <3>3
  <2>5. CASE a # e.signer /\ \A j \in paidByOther(e, "ValueFeeWithdrawn") : withdrawnFrom(e, j) # a
    <3>1. ReserveRow(a, reservedBy(e, a)) \in Visible(e)
      BY <2>1, <2>2, <2>5, VisibleMade
    <3>2. total(ReserveRow(a, reservedBy(e, a))) = reservedBy(e, a)
      BY RowContents
    <3> QED
      BY <2>1, <3>1, <3>2
  <2> QED
    BY <2>3, <2>4, <2>5
<1>9. CASE i \in Events(e, "Transfer")
  <2>1. ~error(e) /\ determineType(e) # "GENERIC_TRANSACTION" /\ transferValue(e) = Events(e, "Transfer")
    BY <1>9, MoveEvent, FeeEvents
  <2>2. CASE determineType(e) = "TRANSFER_FROM_VAULT"
    <3>1. VaultRow(e.call.vault, e.call.call.dest, transferValue(e)) \in Visible(e)
      BY <2>1, <2>2, VisibleMade
    <3>2. total(VaultRow(e.call.vault, e.call.call.dest, transferValue(e))) = transferValue(e)
      BY RowContents
    <3> QED
      BY <1>9, <2>1, <3>1, <3>2
  <2>3. CASE determineType(e) # "TRANSFER_FROM_VAULT"
    <3>1. determineType(e) \in { "TRANSFER", "TRANSFER_FROM_RECOVERED", "TRANSFER_FROM_VAULT",
                                 "GENERIC_TRANSACTION" }
      BY DEF determineType
    <3>2. i \in moves(e)
      BY <1>9, <2>1, <2>3, <3>1 DEF moves
    <3> QED
      BY <1>1, <1>2, <2>1, <3>2
  <2> QED
    BY <2>2, <2>3
<1>10. \/ i = 0 \/ \E m \in SignerFees \union { "TokensRecordFeeWithdrawn" } : i \in fee(e, m)
       \/ i \in Events(e, "Reserved") \union Events(e, "Unreserved") \/ i \in Events(e, "Transfer")
  BY DEF charges
<1> QED
  BY <1>4, <1>6, <1>7, <1>8, <1>9, <1>10

-----------------------------------------------------------------------------
(***************************************************************************)
(* What an account finds in its list.                                      *)
(***************************************************************************)

LEMMA PaymentIs ==
    ASSUME RowsExtracted, NEW b, NEW a, NEW t \in payments(b, a)
    PROVE  /\ t = [block |-> b, attempt |-> t.attempt, row |-> t.row] /\ t.attempt \in 0 .. drops
           /\ t.row \in Visible(blocks[b]) /\ t.row.from = a
<1>1. /\ t \in transactions /\ t.block = b /\ t.row.from = a /\ isListed(t.row, a)
      /\ ~(t.row.hiddenFrom = "FROM" /\ t.row.to = a)
  BY DEF payments
<1>2. /\ t = [block |-> t.block, attempt |-> t.attempt, row |-> t.row] /\ t.attempt \in 0 .. drops
      /\ t.row \in extractTransactions(blocks[t.block])
  BY <1>1 DEF RowsExtracted
<1>3. t.row.hiddenFrom # "FROM"
  BY <1>1 DEF isListed
<1> QED
  BY <1>1, <1>2, <1>3 DEF Visible

LEMMA VisiblePaid ==
    ASSUME NEW b, NEW t \in transactions, t.block = b, t.row \in Visible(blocks[b])
    PROVE  t \in payments(b, t.row.from)
  BY DEF payments, isListed, Visible

LEMMA ChargesFollow ==
    ASSUME Typed, RowsExtracted, RowsStored
    PROVE  ChargesShown
<1> SUFFICES ASSUME NEW b \in 1 .. syncPoint, NEW a \in Accounts
             PROVE  /\ \A i \in charges(blocks[b]) :
                          shownTo(blocks[b], i) = a =>
                            Cardinality({ t \in payments(b, a) : i \in total(t.row) }) \in 1 .. drops + 1
                    /\ \A t \in payments(b, a) : \A i \in total(t.row) : shownTo(blocks[b], i) = a
  BY DEF ChargesShown
<1> DEFINE e == blocks[b]
<1>1. b \in DOMAIN blocks /\ b < At /\ drops \in Nat
  <2>1. blocks \in Seq(ToSet(blocks)) /\ syncPoint \in 0 .. Len(blocks) /\ drops \in 0 .. MaxDrops
    BY DEF Typed
  <2>2. b \in 1 .. Len(blocks) /\ b <= syncPoint /\ syncPoint \in Nat /\ b \in Nat
    BY <2>1
  <2>3. CASE job.running
    <3>1. Running
      BY <2>3 DEF Typed, Idle
    <3> QED
      BY <2>1, <2>2, <2>3, <3>1, ConstantsAssumption DEF At, Running
  <2>4. CASE ~job.running
    BY <2>1, <2>2, <2>4, ConstantsAssumption DEF At
  <2> QED
    BY <2>3, <2>4
<1>2. Regular(e)
  BY <1>1, FinalizedRegular DEF Typed
<1> HIDE DEF e
<1>3. \A t \in payments(b, a) :
         /\ t = [block |-> b, attempt |-> t.attempt, row |-> t.row] /\ t.attempt \in 0 .. drops
         /\ t.row \in Visible(e) /\ t.row.from = a
  BY PaymentIs DEF e
<1>4. ASSUME NEW i \in charges(e), shownTo(e, i) = a
      PROVE  Cardinality({ t \in payments(b, a) : i \in total(t.row) }) \in 1 .. drops + 1
  <2> DEFINE S == { t \in payments(b, a) : i \in total(t.row) }
  <2> DEFINE number == [t \in S |-> t.attempt]
  <2>1. PICK r \in Visible(e) : i \in total(r)
    BY <1>2, Found
  <2>2. r.from = a
    BY <1>2, <1>4, <2>1, Placed
  <2>3. \A t \in S : t.row = r
    <3> SUFFICES ASSUME NEW t \in S PROVE t.row = r
      OBVIOUS
    <3>1. t.row \in Visible(e) /\ t.row.from = a /\ i \in total(t.row)
      BY <1>3
    <3>2. t.row.type = Place(e, i) /\ r.type = Place(e, i)
      BY <1>2, <2>1, <3>1, Placed
    <3> QED
      BY <1>2, <2>1, <2>2, <3>1, <3>2, SameRow
  <2>4. number \in Injection(S, 0 .. drops)
    <3>1. number \in [S -> 0 .. drops]
      BY <1>3
    <3>2. ASSUME NEW t \in S, NEW u \in S, number[t] = number[u]
          PROVE  t = u
      <4>1. t = [block |-> b, attempt |-> t.attempt, row |-> t.row]
        BY <1>3
      <4>2. u = [block |-> b, attempt |-> u.attempt, row |-> u.row]
        BY <1>3
      <4>3. t.attempt = u.attempt /\ t.row = u.row
        BY <2>3, <3>2
      <4> QED
        BY <4>1, <4>2, <4>3
    <3> QED
      BY <3>1, <3>2 DEF Injection, IsInjective
  <2>5. IsFiniteSet(0 .. drops) /\ Cardinality(0 .. drops) = drops + 1
    BY <1>1, FS_Interval
  <2>6. IsFiniteSet(S) /\ Cardinality(S) <= drops + 1 /\ Cardinality(S) \in Nat
    BY <2>4, <2>5, FS_Injection, FS_CardinalityType
  <2>7. S # {}
    <3>1. PICK t \in transactions : t.block = b /\ t.row = r
      BY <1>1, <2>1 DEF RowsStored, Saved, Visible, e
    <3>2. t \in payments(b, a)
      BY <2>1, <2>2, <3>1, VisiblePaid DEF e
    <3> QED
      BY <2>1, <3>1, <3>2
  <2>8. Cardinality(S) # 0
    BY <2>6, <2>7, FS_EmptySet
  <2> HIDE DEF S
  <2>9. Cardinality(S) \in 1 .. drops + 1
    BY <1>1, <2>6, <2>8
  <2> QED
    BY <2>9 DEF S
<1>5. ASSUME NEW t \in payments(b, a), NEW i \in total(t.row)
      PROVE  shownTo(e, i) = a
  BY <1>2, <1>3, Placed
<1> QED
  BY <1>4, <1>5 DEF e

\* An account finds each charge of the synchronized blocks in its list, in one
\* row of each attempt at most, and no charge of another account: the rows
\* of an extrinsic are saved before its block is left, and the type and the
\* payer of a row tell which of the extrinsic's rows it is.
THEOREM ChargesFound == Spec => []ChargesShown
<1>1. Inv => ChargesShown
  BY ChargesFollow DEF Inv
<1> QED
  BY <1>1, Invariance, PTL

-----------------------------------------------------------------------------
(***************************************************************************)
(* The types of the tables.                                                *)
(***************************************************************************)

LEMMA EntryTyped ==
    ASSUME NEW t \in TransactionType, NEW f \in Accounts, NEW to \in Accounts \union { None },
           NEW fs \in SUBSET Nat, NEW rs \in SUBSET Nat, NEW vs \in SUBSET Nat,
           NEW ok \in { Success, Failure }, NEW h \in { None, "FROM" }
    PROVE  Entry(t, f, to, fs, rs, vs, ok, h) \in Transaction
<1>1. ok \in BOOLEAN
  BY DEF Success, Failure
<1> QED
  BY <1>1 DEF Entry, Transaction, EmbeddableFees

LEMMA AmountsTyped ==
    ASSUME NEW e, Regular(e)
    PROVE  /\ \A m : fee(e, m) \in SUBSET Nat /\ \A i \in fee(e, m) : i \in Events(e, m)
           /\ fees(e) \in SUBSET Nat /\ ownFees(e) \in SUBSET Nat
           /\ \A a : reservedBy(e, a) \in SUBSET Nat
           /\ transferValue(e) \in SUBSET Nat /\ moves(e) \in SUBSET Nat
<1>1. \A m : Events(e, m) \in SUBSET Nat /\ fee(e, m) \in SUBSET Events(e, m)
  BY FeeEvents
<1>2. fees(e) \in SUBSET Nat
  BY <1>1 DEF fees
<1>3. ownFees(e) \in SUBSET Nat
  BY <1>2 DEF ownFees, onlyInclusion
<1>4. \A a : reservedBy(e, a) \in SUBSET Nat
  BY <1>1 DEF reservedBy
<1>5. transferValue(e) \in SUBSET Nat
  BY <1>1, FeeEvents
<1>6. moves(e) \in SUBSET Nat
  BY <1>5 DEF moves
<1> QED
  BY <1>1, <1>2, <1>3, <1>4, <1>5, <1>6

LEMMA PaidTyped ==
    ASSUME NEW e, Regular(e), NEW m \in ChargeMethods, NEW i \in fee(e, m)
    PROVE  /\ withdrawnFrom(e, i) \in Accounts /\ { i } \in SUBSET Nat
           /\ m \in Beneficiary => e.events[i].to \in Accounts \union { None }
<1>1. i \in Events(e, m) /\ i \in Nat
  BY AmountsTyped
<1> QED
  BY <1>1, ChargeEvent DEF Regular

LEMMA KindsTyped ==
    /\ "StorageFeeWithdrawn" \in ChargeMethods /\ "CertificateFeeWithdrawn" \in ChargeMethods
    /\ "LegalFeeWithdrawn" \in ChargeMethods /\ "ValueFeeWithdrawn" \in ChargeMethods
    /\ "CollectionItemFeeWithdrawn" \in ChargeMethods /\ "TokensRecordFeeWithdrawn" \in ChargeMethods
    /\ "LegalFeeWithdrawn" \in Beneficiary /\ "CollectionItemFeeWithdrawn" \in Beneficiary
    /\ "TokensRecordFeeWithdrawn" \in Beneficiary
    /\ \A t \in { "EXTRINSIC", "LEGAL_FEE", "VAULT_OUT", "STORAGE_FEE", "CERTIFICATE_FEE", "VALUE_FEE",
                  "RESERVE", "COLLECTION_ITEM_FEE", "TOKENS_RECORD_FEE" } : t \in TransactionType
  BY DEF ChargeMethods, Beneficiary, TransactionType

LEMMA RowTyped ==
    ASSUME NEW e, Regular(e), NEW r \in extractTransactions(e)
    PROVE  r \in Transaction
<1> USE KindsTyped
<1>0. \A m : paidByOther(e, m) \in SUBSET fee(e, m)
  BY DEF paidByOther
<1>1. /\ Success \in { Success, Failure } /\ succeeds(e) \in { Success, Failure }
      /\ { } \in SUBSET Nat /\ None \in Accounts \union { None }
      /\ None \in { None, "FROM" } /\ "FROM" \in { None, "FROM" }
  BY DEF succeeds
<1>2. \A t \in TransactionType, f \in Accounts, i \in Nat : FeeRow(t, f, i) \in Transaction
  BY <1>1, EntryTyped DEF FeeRow
<1>3. \A t \in TransactionType, f \in Accounts, to \in Accounts \union { None }, rs \in SUBSET Nat, i \in Nat :
         ValueRow(t, f, to, rs, i) \in Transaction
  BY <1>1, EntryTyped DEF ValueRow
<1>4. \A t \in TransactionType, f \in Accounts, to \in Accounts \union { None }, i \in Nat :
         HiddenRow(t, f, to, i) \in Transaction
  BY <1>1, EntryTyped DEF HiddenRow
<1>5. \A f \in Accounts, rs \in SUBSET Nat : ReserveRow(f, rs) \in Transaction
  BY <1>1, EntryTyped DEF ReserveRow
<1>6. ASSUME NEW m \in ChargeMethods, NEW i \in fee(e, m)
      PROVE  /\ withdrawnFrom(e, i) \in Accounts /\ i \in Nat
             /\ m \in Beneficiary => e.events[i].to \in Accounts \union { None }
  BY <1>6, PaidTyped
<1>7. CASE r \in vaultOut(e)
  <2>1. determineType(e) = "TRANSFER_FROM_VAULT"
    BY <1>7, OtherRows
  <2>2. vaultOut(e) = IF determineType(e) = "TRANSFER_FROM_VAULT" /\ ~error(e)
                      THEN { VaultRow(e.call.vault, e.call.call.dest, transferValue(e)) } ELSE {}
    BY OtherRows
  <2>3. r = VaultRow(e.call.vault, e.call.call.dest, transferValue(e))
    BY <1>7, <2>2
  <2>4. e.call.vault \in Accounts /\ e.call.call.dest \in Accounts
    BY <2>1 DEF Regular, mover
  <2>5. transferValue(e) \in SUBSET Nat
    BY AmountsTyped
  <2> QED
    BY <1>1, <2>3, <2>4, <2>5, EntryTyped DEF VaultRow
<1>8. CASE r \in actualExtrinsic(e)
  <2>1. r = TheExtrinsic(e)
    BY <1>8, ExtrinsicRow
  <2>2. payer(e) \in Accounts /\ receiver(e) \in Accounts \union { None }
    BY DEF Regular
  <2>3. ownFees(e) \in SUBSET Nat /\ reservedBy(e, e.signer) \in SUBSET Nat /\ moves(e) \in SUBSET Nat
    BY AmountsTyped
  <2> QED
    BY <1>1, <2>1, <2>2, <2>3, EntryTyped DEF TheExtrinsic
<1>9. CASE r \in storageFee(e)
  <2>1. PICK i \in paidByOther(e, "StorageFeeWithdrawn") : r = FeeRow("STORAGE_FEE", withdrawnFrom(e, i), i)
    BY <1>9, OtherRows
  <2> QED
    BY <1>0, <1>2, <1>6, <2>1
<1>10. CASE r \in certificateFee(e)
  <2>1. PICK i \in paidByOther(e, "CertificateFeeWithdrawn") :
          r = FeeRow("CERTIFICATE_FEE", withdrawnFrom(e, i), i)
    BY <1>10, OtherRows
  <2> QED
    BY <1>0, <1>2, <1>6, <2>1
<1>11. CASE r \in legalFee(e)
  <2>1. PICK i \in paidByOther(e, "LegalFeeWithdrawn") :
          r = ValueRow("LEGAL_FEE", withdrawnFrom(e, i), e.events[i].to, {}, i)
    BY <1>11, OtherRows
  <2> QED
    BY <1>0, <1>1, <1>3, <1>6, <2>1
<1>12. CASE r \in valueFee(e)
  <2>1. PICK i \in paidByOther(e, "ValueFeeWithdrawn") :
          r = ValueRow("VALUE_FEE", withdrawnFrom(e, i), None, reservedBy(e, withdrawnFrom(e, i)), i)
    BY <1>12, OtherRows
  <2>2. reservedBy(e, withdrawnFrom(e, i)) \in SUBSET Nat
    BY AmountsTyped
  <2> QED
    BY <1>0, <1>1, <1>3, <1>6, <2>1, <2>2
<1>13. CASE r \in collectionItemFee(e)
  <2>1. PICK i \in fee(e, "CollectionItemFeeWithdrawn") : r = toBeneficiary(e, i, "COLLECTION_ITEM_FEE")
    BY <1>13 DEF collectionItemFee
  <2>2. r = HiddenRow("COLLECTION_ITEM_FEE", withdrawnFrom(e, i), e.events[i].to, i)
    BY <2>1, OtherRows
  <2> QED
    BY <1>4, <1>6, <2>2
<1>14. CASE r \in tokensRecordFee(e)
  <2>1. PICK i \in fee(e, "TokensRecordFeeWithdrawn") :
          r \in { FeeRow("TOKENS_RECORD_FEE", withdrawnFrom(e, i), i),
                  toBeneficiary(e, i, "TOKENS_RECORD_FEE") }
    BY <1>14, OtherRows
  <2>2. toBeneficiary(e, i, "TOKENS_RECORD_FEE")
          = HiddenRow("TOKENS_RECORD_FEE", withdrawnFrom(e, i), e.events[i].to, i)
    BY OtherRows
  <2>3. withdrawnFrom(e, i) \in Accounts /\ i \in Nat /\ e.events[i].to \in Accounts \union { None }
    BY <1>6
  <2> QED
    BY <1>2, <1>4, <2>1, <2>2, <2>3
<1>15. CASE r \in reserve(e)
  <2>1. PICK a \in Accounts : r = ReserveRow(a, reservedBy(e, a))
    BY <1>15, OtherRows
  <2>2. reservedBy(e, a) \in SUBSET Nat
    BY AmountsTyped
  <2> QED
    BY <1>5, <2>1, <2>2
<1> QED
  BY <1>7, <1>8, <1>9, <1>10, <1>11, <1>12, <1>13, <1>14, <1>15 DEF extractTransactions

LEMMA TypesFollow ==
    ASSUME Typed, RowsExtracted
    PROVE  TypeOK
<1>1. \A t \in transactions : t.row \in Transaction
  <2> SUFFICES ASSUME NEW t \in transactions PROVE t.row \in Transaction
    OBVIOUS
  <2>1. Finalized(blocks[t.block]) /\ t.row \in extractTransactions(blocks[t.block])
    BY DEF Typed, RowsExtracted
  <2> QED
    BY <2>1, FinalizedRegular, RowTyped
<1>2. \/ job = Idle
      \/ job.running /\ syncPoint < job.at /\ job.at <= job.stop /\ job.stop <= Len(blocks)
  BY DEF Typed, Running
<1> QED
  BY <1>1, <1>2 DEF Typed, TypeOK

\* The variables keep their types: a job stays between the sync point and the
\* head, and the rows written are rows of known accounts, officers and issuers.
THEOREM TypeCorrect == Spec => []TypeOK
<1>1. Inv => TypeOK
  BY TypesFollow DEF Inv
<1> QED
  BY <1>1, Invariance, PTL
=============================================================================
