--------------------------- MODULE GigstarkEscrow ---------------------------
(***************************************************************************)
(* GigstarkEscrow (contracts/src/lib.cairo) composed with the two          *)
(* verifiers it is constructed with, the ERC-20 balance it holds, and the  *)
(* privacy pool that calls it.                                             *)
(*                                                                         *)
(* One action is one transaction.  Deposit and Claim include what the pool *)
(* does around the call in the same transaction (external, as the action   *)
(* lists in src/lib/strk20-wallet.ts use it): a "withdraw" to the escrow   *)
(* before the deposit call, and the open note filled with transfer_from    *)
(* after the claim call.  A panic anywhere reverts all of it.              *)
(***************************************************************************)
EXTENDS GigstarkPassport, GigstarkComputeVerifier

CONSTANTS
    EscrowIds,          \* ids used (non-zero)
    EscrowContract,     \* the escrow's address
    Tokens,
    Amounts,            \* amounts a depositor may choose
    Deliveries,         \* delivery commitments
    Notes,              \* pool note ids
    NoPayload,          \* the zero felt
    MaxDonation         \* bound on tokens sent to the escrow outside a deposit

ASSUME EscrowAssumption ==
    /\ IsFiniteSet(EscrowIds)
    /\ Amounts \subseteq Nat \ {0}
    /\ MaxDonation \in Nat
    /\ NoPayload \notin Deliveries \cup Notes

VARIABLES
    escrows,            \* storage: escrow id -> record
    accounted,          \* storage: token -> accounted balance
    balance,            \* external: the escrow's ERC-20 balance per token
    donated,            \* history: tokens received outside a deposit
    performed           \* history: the actions that changed an existing escrow

escrowVars == <<escrows, accounted, balance, donated, performed>>
vars == <<now, passportVars, computeVars, escrowVars>>

Status == {"NONE", "ACTIVE", "DELIVERED", "DISPUTED", "SELLER_WINS", "BUYER_WINS"}
Role == {"BUYER", "SELLER"}
Operation == {"SUBMIT_DELIVERY", "CONFIRM_DELIVERY", "OPEN_DISPUTE", "CLAIM"}
Payloads == Deliveries \cup Notes \cup {NoPayload}

EscrowRecord ==
    [buyer_commitment: Commitments, seller_commitment: Commitments,
     delivery_commitment: Deliveries \cup {NoPayload}, token: Tokens,
     amount: Nat \ {0}, deadline: Nat, status: Status \ {"NONE"},
     seller_claimed: BOOLEAN, buyer_claimed: BOOLEAN, action_nonce: Nat]

NoEscrow == [status |-> "NONE"]    \* the zero record of the storage map

Statement ==
    [contract: {EscrowContract}, escrow_id: EscrowIds, operation: Operation,
     action_nonce: Nat, payload: Payloads]

DisputeInput ==
    [contract: {EscrowContract}, escrow_id: EscrowIds,
     buyer_commitment: Commitments, seller_commitment: Commitments,
     delivery_commitment: Deliveries \cup {NoPayload}, token: Tokens,
     amount: Nat \ {0}, deadline: Nat, action_nonce: Nat]

\* What the history keeps of an action; timeout and resolve_dispute take no
\* role and no receipt.
NoProof == [purpose |-> "NONE"]

Performed ==
    [escrow_id: EscrowIds, role: Role \cup {"ANYONE"},
     operation: Operation \cup {"TIMEOUT", "RESOLVE_DISPUTE"},
     action_nonce: Nat, payload: Payloads, proof: Proof \cup {NoProof}]

Exists(e) == escrows[e].status # "NONE"
Decided(e) == escrows[e].status \in {"SELLER_WINS", "BUYER_WINS"}
Open(e) == escrows[e].status \in {"ACTIVE", "DELIVERED"}
Disputed(e) == escrows[e].status = "DISPUTED"

WinnerRole(e) == IF escrows[e].status = "SELLER_WINS" THEN "SELLER" ELSE "BUYER"

Claimed(e) == IF WinnerRole(e) = "SELLER" THEN escrows[e].seller_claimed
                                          ELSE escrows[e].buyer_claimed

EscrowInit ==
    /\ escrows = [e \in EscrowIds |-> NoEscrow]
    /\ accounted = [t \in Tokens |-> 0]
    /\ balance = [t \in Tokens |-> 0]
    /\ donated = [t \in Tokens |-> 0]
    /\ performed = {}

Init == ClockInit /\ PassportInit /\ ComputeInit /\ EscrowInit

-----------------------------------------------------------------------------
(* What the contract hashes.                                               *)

\* Plausible bug: the nonce is left out of the statement.
ActionStatementNoNonce(e, operation, payload) ==
    [contract |-> EscrowContract, escrow_id |-> e, operation |-> operation,
     action_nonce |-> 0, payload |-> payload]

\* Plausible bug: the payload is left out of the statement.
ActionStatementNoPayload(e, operation, payload) ==
    [contract |-> EscrowContract, escrow_id |-> e, operation |-> operation,
     action_nonce |-> escrows[e].action_nonce, payload |-> NoPayload]

ActionStatement(e, operation, payload) ==
    [contract |-> EscrowContract, escrow_id |-> e, operation |-> operation,
     action_nonce |-> escrows[e].action_nonce, payload |-> payload]

DisputeInputCommitment(e) ==
    [contract |-> EscrowContract, escrow_id |-> e,
     buyer_commitment |-> escrows[e].buyer_commitment,
     seller_commitment |-> escrows[e].seller_commitment,
     delivery_commitment |-> escrows[e].delivery_commitment,
     token |-> escrows[e].token, amount |-> escrows[e].amount,
     deadline |-> escrows[e].deadline, action_nonce |-> escrows[e].action_nonce]

-----------------------------------------------------------------------------
(* Shared by the handlers.                                                 *)

RoleCommitment(e, role) ==
    IF role = "BUYER" THEN escrows[e].buyer_commitment
                      ELSE escrows[e].seller_commitment

AssertAuthorized(e, role, operation, payload, proof) ==
    /\ proof.purpose = "ESCROW_ROLE"
    /\ ConsumeAuthorization(EscrowContract, RoleCommitment(e, role),
                            ActionStatement(e, operation, payload), proof)

\* Plausible bug: an operation forgets the nonce.
NotBumped(record) == record

Bumped(record) == [record EXCEPT !.action_nonce = @ + 1]

\* escrows[e] becomes `record`, with the nonce of the action added.
Write(e, record) == escrows' = [escrows EXCEPT ![e] = Bumped(record)]

\* History only: who did what to e, at which nonce, under which proof.
Log(e, role, operation, payload, proof) ==
    performed' = performed \cup
        {[escrow_id |-> e, role |-> role, operation |-> operation,
          action_nonce |-> escrows[e].action_nonce, payload |-> payload,
          proof |-> proof]}

-----------------------------------------------------------------------------
(* privacy_invoke, one action per operation.                               *)

\* Plausible bug: the deposit checks the balance without what is accounted.
CoversIgnoringAccounted(t, received, amount) == received >= amount

\* The balance check of a deposit, when the balance has become `received`.
Covers(t, received, amount) == received >= accounted[t] + amount

\* deposit, after the pool's withdraw of `sent` tokens to the escrow.  The
\* contract cannot see the withdraw: it looks at the balance only.
Deposit(e, buyer, seller, t, amount, deadline, sent) ==
    /\ ~Exists(e)
    /\ buyer # seller
    /\ deadline > now
    /\ Covers(t, balance[t] + sent, amount)
    /\ balance' = [balance EXCEPT ![t] = @ + sent]
    /\ accounted' = [accounted EXCEPT ![t] = @ + amount]
    /\ escrows' = [escrows EXCEPT ![e] =
                     [buyer_commitment |-> buyer, seller_commitment |-> seller,
                      delivery_commitment |-> NoPayload, token |-> t,
                      amount |-> amount, deadline |-> deadline,
                      status |-> "ACTIVE", seller_claimed |-> FALSE,
                      buyer_claimed |-> FALSE, action_nonce |-> 0]]
    /\ UNCHANGED <<now, passportVars, computeVars, donated, performed>>

SubmitDelivery(e, delivery, proof) ==
    /\ escrows[e].status = "ACTIVE"
    /\ AssertAuthorized(e, "SELLER", "SUBMIT_DELIVERY", delivery, proof)
    /\ Write(e, [escrows[e] EXCEPT !.delivery_commitment = delivery,
                                   !.status = "DELIVERED"])
    /\ Log(e, "SELLER", "SUBMIT_DELIVERY", delivery, proof)
    /\ UNCHANGED <<now, computeVars, accounted, balance, donated>>

ConfirmDelivery(e, proof) ==
    /\ escrows[e].status = "DELIVERED"
    /\ AssertAuthorized(e, "BUYER", "CONFIRM_DELIVERY", NoPayload, proof)
    /\ Write(e, [escrows[e] EXCEPT !.status = "SELLER_WINS"])
    /\ Log(e, "BUYER", "CONFIRM_DELIVERY", NoPayload, proof)
    /\ UNCHANGED <<now, computeVars, accounted, balance, donated>>

OpenDispute(e, role, proof) ==
    /\ Open(e)
    /\ AssertAuthorized(e, role, "OPEN_DISPUTE", NoPayload, proof)
    /\ Write(e, [escrows[e] EXCEPT !.status = "DISPUTED"])
    /\ Log(e, role, "OPEN_DISPUTE", NoPayload, proof)
    /\ UNCHANGED <<now, computeVars, accounted, balance, donated>>

\* Plausible bug: only an escrow without a delivery can time out.
ExpirableUndelivered(e) == escrows[e].status = "ACTIVE" /\ now >= escrows[e].deadline

\* Plausible bug: a dispute can time out as well.
ExpirableDisputed(e) == (Open(e) \/ Disputed(e)) /\ now >= escrows[e].deadline

Expirable(e) == Open(e) /\ now >= escrows[e].deadline

\* timeout: no role and no receipt, so anybody can have the pool call it.
Timeout(e) ==
    /\ Expirable(e)
    /\ Write(e, [escrows[e] EXCEPT !.status = "BUYER_WINS"])
    /\ Log(e, "ANYONE", "TIMEOUT", NoPayload, NoProof)
    /\ UNCHANGED <<now, passportVars, computeVars, accounted, balance, donated>>

\* resolve_dispute: not pool-only; the proof is the authority.
ResolveDispute(e, result) ==
    /\ Disputed(e)
    /\ ConsumeResult(EscrowContract, e, DisputeInputCommitment(e), result)
    /\ Write(e, [escrows[e] EXCEPT !.status =
                   IF result.outcome = "SELLER" THEN "SELLER_WINS" ELSE "BUYER_WINS"])
    /\ Log(e, "ANYONE", "RESOLVE_DISPUTE", NoPayload, NoProof)
    /\ UNCHANGED <<now, passportVars, accounted, balance, donated>>

\* Plausible bug: the side that lost may claim.
MayClaimEither(e, role) == Decided(e)

MayClaim(e, role) == Decided(e) /\ role = WinnerRole(e)

\* Plausible bug: the claimed flag is not set.
ClaimNotMarked(e, role) == escrows[e]

\* Plausible bug: the claim clears the record's status and leaves the rest.
ClaimCleared(e, role) == [escrows[e] EXCEPT !.status = "NONE"]

MarkClaimed(e, role) ==
    IF role = "SELLER" THEN [escrows[e] EXCEPT !.seller_claimed = TRUE]
                       ELSE [escrows[e] EXCEPT !.buyer_claimed = TRUE]

AlreadyClaimed(e, role) == IF role = "SELLER" THEN escrows[e].seller_claimed
                                              ELSE escrows[e].buyer_claimed

\* The pool pulls what the claim approved, into the note (external).
PoolPulls(t, amount) ==
    /\ balance[t] >= amount
    /\ balance' = [balance EXCEPT ![t] = @ - amount]

Claim(e, role, note, proof) ==
    /\ MayClaim(e, role)
    /\ ~AlreadyClaimed(e, role)
    /\ AssertAuthorized(e, role, "CLAIM", note, proof)
    /\ accounted[escrows[e].token] >= escrows[e].amount
    /\ accounted' = [accounted EXCEPT ![escrows[e].token] = @ - escrows[e].amount]
    /\ Write(e, MarkClaimed(e, role))
    /\ PoolPulls(escrows[e].token, escrows[e].amount)
    /\ Log(e, role, "CLAIM", note, proof)
    /\ UNCHANGED <<now, computeVars, donated>>

-----------------------------------------------------------------------------
(* The world around the contracts (external).                              *)

Donate(t) ==
    /\ donated[t] < MaxDonation
    /\ donated' = [donated EXCEPT ![t] = @ + 1]
    /\ balance' = [balance EXCEPT ![t] = @ + 1]
    /\ UNCHANGED <<now, passportVars, computeVars, escrows, accounted, performed>>

PayloadsFor(operation) ==
    CASE operation = "SUBMIT_DELIVERY" -> Deliveries
      [] operation = "CLAIM" -> Notes
      [] OTHER -> {NoPayload}

\* A party reads get_action_statement, proves its role off-chain and obtains a
\* receipt.  Nothing obliges it to submit the receipt soon, or at all, and it
\* may ask for an operation that is not its own.
PrepareReceipt(e, role, operation, payload, p, nullifier, life) ==
    /\ Exists(e)
    /\ SignReceipt(RoleCommitment(e, role), ActionStatement(e, operation, payload),
                   p, nullifier, life)
    /\ UNCHANGED <<now, computeVars, escrowVars>>

\* Somebody reads get_dispute_input_commitment and proves a computation on it.
ProveDispute(e, p, program, required, score, expires) ==
    /\ Disputed(e)
    /\ Prove(DisputeInputCommitment(e), p, program, required, score, expires)
    /\ UNCHANGED <<now, passportVars, escrowVars>>

ResultOf(signals, e) ==
    [policy_id |-> signals.policy_id, audience |-> EscrowContract, job_id |-> e,
     input |-> signals.input, evidence |-> signals.evidence,
     outcome |-> signals.outcome, expires_at |-> signals.expires_at]

ClockStep == Tick /\ UNCHANGED <<passportVars, computeVars, escrowVars>>

AdminStep ==
    \/ PassportAdmin /\ UNCHANGED <<now, computeVars, escrowVars>>
    \/ ComputeAdmin /\ UNCHANGED <<now, passportVars, escrowVars>>

PrepareStep ==
    \E e \in EscrowIds :
        \/ \E role \in Role, operation \in Operation, p \in PolicyIds,
              nullifier \in Nullifiers, life \in Lifetimes :
             \E payload \in PayloadsFor(operation) :
                PrepareReceipt(e, role, operation, payload, p, nullifier, life)
        \/ \E p \in ComputePolicyIds, program \in Programs,
              required \in RequiredScores, score \in Scores,
              expires \in ResultExpiries :
                ProveDispute(e, p, program, required, score, expires)

DepositStep ==
    \E e \in EscrowIds, buyer, seller \in Commitments, t \in Tokens,
       amount \in Amounts, deadline \in 1..MaxTime :
        \E sent \in {0, amount} :
            Deposit(e, buyer, seller, t, amount, deadline, sent)

AuthorizedStep ==
    \E e \in EscrowIds, r \in receipts :
        \/ \E delivery \in Deliveries : SubmitDelivery(e, delivery, r.proof)
        \/ ConfirmDelivery(e, r.proof)
        \/ \E role \in Role : OpenDispute(e, role, r.proof)
        \/ \E role \in Role, note \in Notes : Claim(e, role, note, r.proof)

OpenStep ==
    \E e \in EscrowIds :
        \/ Timeout(e)
        \/ \E s \in proven : ResolveDispute(e, ResultOf(s, e))

Next ==
    \/ ClockStep
    \/ AdminStep
    \/ PrepareStep
    \/ DepositStep
    \/ AuthorizedStep
    \/ OpenStep
    \/ \E t \in Tokens : Donate(t)

Spec == Init /\ [][Next]_vars

\* Blocks keep coming, and a timeout needs nobody's cooperation: whoever cares
\* for an overdue escrow can submit it with no role, receipt or secret.
FairSpec == Spec /\ WF_vars(ClockStep) /\ \A e \in EscrowIds : WF_vars(Timeout(e))

-----------------------------------------------------------------------------
(* Type invariant.                                                         *)

\* Every variable holds a value of its type.
TypeOK ==
    /\ now \in Nat
    /\ PassportTypeOK(Statement)
    /\ ComputeTypeOK(EscrowIds, DisputeInput)
    /\ escrows \in [EscrowIds -> EscrowRecord \cup {NoEscrow}]
    /\ accounted \in [Tokens -> Nat]
    /\ balance \in [Tokens -> Nat]
    /\ donated \in [Tokens -> Nat]
    /\ performed \subseteq Performed

-----------------------------------------------------------------------------
(* Safety of the money.                                                    *)

\* The escrows whose amount the contract still owes somebody.
Owed(e) == Exists(e) /\ ~escrows[e].seller_claimed /\ ~escrows[e].buyer_claimed

\* One element per token unit the contract owes in token t.
OwedUnits(t) ==
    UNION {{e} \X (1..escrows[e].amount) :
             e \in {d \in EscrowIds : Owed(d) /\ escrows[d].token = t}}

\* The stored counter is at all times exactly what the unclaimed escrows of the
\* token add up to: the deposit's addition (lib.cairo:467-470) and the claim's
\* checked_sub (lib.cairo:649-653) stay in step however escrows interleave.
AccountedIsOwed == \A t \in Tokens : accounted[t] = Cardinality(OwedUnits(t))

\* The contract can pay everything it owes, whatever was deposited unfunded,
\* donated or claimed before; so no winner meets ACCOUNTED_BALANCE_UNDERFLOW
\* and the pool's transfer_from never fails (lib.cairo:465-468, 649-660).
Solvent ==
    /\ \A t \in Tokens : accounted[t] <= balance[t]
    /\ \A e \in EscrowIds :
          Owed(e) => escrows[e].amount <= accounted[escrows[e].token]

-----------------------------------------------------------------------------
(* Safety of the authorizations.                                           *)

Claims(e) == {a \in performed : a.escrow_id = e /\ a.operation = "CLAIM"}

\* "one winner claim" (contracts/README.md): an escrow pays at most once, only
\* after it is decided, and only the side it was decided for.
PaidOnceToTheWinner ==
    \A e \in EscrowIds :
        /\ Cardinality(Claims(e)) <= 1
        /\ \A a \in Claims(e) : Decided(e) /\ a.role = WinnerRole(e)

\* "a single global action nonce serializes competing actions"
\* (docs/SECURITY_REVIEW.md): the nonce of an escrow counts its actions, so the
\* actions form a sequence and no two of them were taken at the same nonce.
NonceSerializesActions ==
    \A e \in EscrowIds : Exists(e) =>
        LET done == {a \in performed : a.escrow_id = e}
        IN  /\ {a.action_nonce : a \in done} = 0..(escrows[e].action_nonce - 1)
            /\ Cardinality(done) = escrows[e].action_nonce

\* No receipt, and no two receipts with the same scope nullifier under the same
\* policy, ever authorize two actions, on whatever escrows: replays are refused
\* even after the policy was switched off and on (gigstark_passport.cairo:256-280).
OneActionPerNullifier ==
    \A a, b \in {c \in performed : c.proof # NoProof} :
        NullifierKey(a.proof) = NullifierKey(b.proof) => a = b

\* What was done is what the holder of the acting role had signed: same escrow,
\* operation, nonce and payload, so a receipt prepared before another action of
\* the escrow is void, and nobody can redirect a winner's note.
PerformedAsSigned ==
    \A a \in {c \in performed : c.proof # NoProof} :
        \E r \in receipts :
            /\ r.proof = a.proof
            /\ r.role = RoleCommitment(a.escrow_id, a.role)
            /\ r.statement.escrow_id = a.escrow_id
            /\ r.statement.operation = a.operation
            /\ r.statement.action_nonce = a.action_nonce
            /\ r.statement.payload = a.payload

-----------------------------------------------------------------------------
(* Safety of the decisions.                                                *)

\* "A valid proof is the only authority that can produce a settlement outcome"
\* of a dispute (compute_verifier.cairo:3): every disputed escrow that was decided
\* was decided by one consumed result on exactly that dispute, and its outcome
\* is what the policy's own threshold says of the proven evidence.
DisputesDecidedByProof ==
    \A e \in EscrowIds :
        (Decided(e) /\ \E a \in performed : a.escrow_id = e /\ a.operation = "OPEN_DISPUTE")
        => \E r \in usedResults :
            /\ r.job_id = e
            /\ r.input.buyer_commitment = escrows[e].buyer_commitment
            /\ r.input.amount = escrows[e].amount
            /\ WinnerRole(e) = r.outcome
            /\ r.outcome = CircuitOutcome(r.evidence,
                                computePolicies[r.policy_id].required_score)

\* A decision is final, and so are the terms it was made on: once decided, an
\* escrow changes only by being claimed; while it is open or disputed its
\* parties, token, amount and deadline do not change.
DecisionsAreFinal ==
    [][\A e \in EscrowIds : Exists(e) =>
        /\ Decided(e) => escrows'[e].status = escrows[e].status
        /\ \A f \in {"buyer_commitment", "seller_commitment", "token", "amount", "deadline"} :
              escrows'[e][f] = escrows[e][f]
        /\ (Disputed(e) /\ escrows'[e].status # "DISPUTED") =>
              \E r \in usedResults' \ usedResults : r.job_id = e]_vars

-----------------------------------------------------------------------------
(* What the invariants above need to be inductive.                         *)

\* A claim flag is only ever set for the side that won, so a claimed escrow is
\* decided, and claim's check of one flag also rules out the other.
FlagsFollowDecision ==
    \A e \in EscrowIds : Exists(e) =>
        /\ escrows[e].seller_claimed => escrows[e].status = "SELLER_WINS"
        /\ escrows[e].buyer_claimed => escrows[e].status = "BUYER_WINS"

\* The history of an escrow fits its record: nothing before the deposit, a claim
\* only with its flag, a dispute only if it is disputed or was decided.
HistoryFitsRecord ==
    \A a \in performed :
        LET e == a.escrow_id
        IN  /\ Exists(e)
            /\ a.operation = "CLAIM" =>
                  \/ a.role = "SELLER" /\ escrows[e].seller_claimed
                  \/ a.role = "BUYER" /\ escrows[e].buyer_claimed
            /\ a.operation = "OPEN_DISPUTE" => Disputed(e) \/ Decided(e)

\* Every receipt that was used has its nullifier spent.
UsedReceiptsAreSpent ==
    \A a \in {c \in performed : c.proof # NoProof} :
        NullifierKey(a.proof) \in usedNullifiers

\* Proofs obey the circuit, and a consumed result matches its policy, which is
\* configured for good.
ResultsFitPolicies ==
    /\ \A s \in proven : s.outcome = CircuitOutcome(s.evidence, s.required_score)
    /\ \A r \in usedResults :
          /\ computePolicies[r.policy_id] # NoComputePolicy
          /\ r.outcome = CircuitOutcome(r.evidence,
                                        computePolicies[r.policy_id].required_score)

-----------------------------------------------------------------------------
(* Liveness, under FairSpec.                                               *)

\* "time-based refund" (docs/ARCHITECTURE.md:64): an escrow nobody disputes does
\* not stay open for ever, whether or not a delivery was submitted.
OpenEscrowsAreDecided ==
    \A e \in EscrowIds : Open(e) ~> (Decided(e) \/ Disputed(e))

-----------------------------------------------------------------------------
(* The abstract ledger the contract implements.                            *)

\* Who was paid, or is to be paid.
PayTo(e) ==
    CASE escrows[e].seller_claimed -> escrows[e].seller_commitment
      [] escrows[e].buyer_claimed /\ ~escrows[e].seller_claimed -> escrows[e].buyer_commitment
      [] Owed(e) /\ Decided(e) -> RoleCommitment(e, WinnerRole(e))
      [] OTHER -> NoPayload

Stage(e) ==
    CASE Owed(e) /\ ~Decided(e) -> "held"
      [] Owed(e) /\ Decided(e) -> "due"
      [] OTHER -> "paid"

LedgerEntry(e) ==
    IF Exists(e)
    THEN [payer |-> escrows[e].buyer_commitment, payee |-> escrows[e].seller_commitment,
          token |-> escrows[e].token, amount |-> escrows[e].amount,
          stage |-> Stage(e), to |-> PayTo(e)]
    ELSE [stage |-> "none"]

Ledger == INSTANCE EscrowLedger WITH
            Ids <- EscrowIds, Parties <- Commitments, NoParty <- NoPayload,
            ledger <- [e \in EscrowIds |-> LedgerEntry(e)],
            vault <- accounted

\* Behind its six operations the contract is a ledger: an escrow is funded once,
\* awarded once to one of its parties by confirmation, timeout or proof, and paid
\* once to that party, and what it accounts for is what the ledger's vault holds.
ImplementsLedger == Ledger!Spec

-----------------------------------------------------------------------------
(* What contracts/README.md says and the code does not do.                 *)

\* "Excess tokens sent directly to the helper remain unaccounted"
\* (contracts/README.md:18-19).
ExcessStaysUnaccounted == \A t \in Tokens : accounted[t] + donated[t] <= balance[t]

=============================================================================
