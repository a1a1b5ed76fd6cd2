---------------------------- MODULE Strk20Wallet ----------------------------
(***************************************************************************)
(* The wallet adapter (src/lib/strk20-wallet.ts): which wallets and pools  *)
(* are acceptable, and the actions a deposit and a winner's claim ask the  *)
(* wallet to prepare.  A felt is a number; a text that is no number stands *)
(* as -1, which every validator refuses as BigInt's exception makes the    *)
(* code do.  Where the code throws, a predicate here is FALSE.             *)
(***************************************************************************)
EXTENDS Integers, Sequences, SequencesExt

CONSTANTS
    FeltBound,      \* 2^251: felts are below it
    MaxU8,          \* 2^8 - 1
    MaxU64,         \* 2^64 - 1
    MaxU128         \* 2^128 - 1

ASSUME WidthAssumption == 0 < MaxU8 /\ MaxU8 <= MaxU64 /\ MaxU64 <= MaxU128 /\ MaxU128 < FeltBound

Networks == {"SN_SEPOLIA", "SN_MAIN"}

\* The reviewed pool of each network: its address and its class.
ReviewTarget == [n \in Networks |-> IF n = "SN_MAIN" THEN [address |-> 1, classHash |-> 1]
                                                     ELSE [address |-> 2, classHash |-> 2]]

OpDeposit == 0
OpClaim == 5
RoleNone == 0
RoleNumber == [buyer |-> 1, seller |-> 2]
OpenNotePlaceholder == FeltBound    \* "${openNoteIds[0]}", no felt
OpenAmount == 0                     \* "OPEN", no amount

-----------------------------------------------------------------------------
\* Plausible bug: each part of a version is compared for itself.
EveryPartAtLeast(left, right) == \A i \in 1..3 : left[i] >= right[i]

\* compareVersions(left, right) >= 0, for versions as three numbers; a text with
\* no version in it is <<0, 0, 0>>.
VersionAtLeast(left, right) ==
    \/ left = right
    \/ \E i \in 1..3 : left[i] > right[i] /\ \A j \in 1..(i - 1) : left[j] = right[j]

\* Any of the wallet's versions is new enough.
SupportsWalletApiVersions(versions, minimum) ==
    \E version \in versions : VersionAtLeast(version, minimum)

AssertReviewedPoolTarget(pool, network) == pool = ReviewTarget[network]

\* The RPC is on the network, and the pool's class there is the reviewed one.
VerifyReviewedPoolTarget(chain, classHash, network) ==
    /\ chain = network
    /\ AssertReviewedPoolTarget([address |-> ReviewTarget[network].address,
                                 classHash |-> classHash], network)

-----------------------------------------------------------------------------
RequireFelt(value) == 0 < value /\ value < FeltBound
RequireAddress(value) == RequireFelt(value)
RequireU128(value) == 0 < value /\ value <= MaxU128
RequireBoundedInteger(value, maximum) == RequireFelt(value) /\ value <= maximum

EmptyProofCalldata == [i \in 1..10 |-> 0]

\* Plausible bug: a receipt that expires as it is issued is taken.
ReceiptAccepted(proof) ==
    /\ RequireBoundedInteger(proof.issuedAt, MaxU64)
    /\ RequireBoundedInteger(proof.expiresAt, MaxU64)
    /\ proof.expiresAt >= proof.issuedAt

\* proofCalldata's checks.
ProofAccepted(proof) ==
    /\ RequireBoundedInteger(proof.issuedAt, MaxU64)
    /\ RequireBoundedInteger(proof.expiresAt, MaxU64)
    /\ proof.expiresAt > proof.issuedAt
    /\ RequireBoundedInteger(proof.purpose, MaxU8)
    /\ RequireAddress(proof.audience)
    /\ \A field \in {"policyId", "credentialClass", "scopeNullifier", "proofCommitment",
                     "signatureR", "signatureS"} : RequireFelt(proof[field])

\* proofCalldata's order.
ProofCalldata(proof) ==
    <<proof.policyId, proof.audience, proof.purpose, proof.credentialClass,
      proof.scopeNullifier, proof.proofCommitment, proof.issuedAt, proof.expiresAt,
      proof.signatureR, proof.signatureS>>

\* The checks of buildPrivateDepositActions.
DepositAccepted(input) ==
    /\ RequireU128(input.amount)
    /\ RequireAddress(input.escrowAddress) /\ RequireAddress(input.token)
    /\ RequireFelt(input.escrowId)
    /\ RequireFelt(input.buyerCommitment) /\ RequireFelt(input.sellerCommitment)
    /\ input.buyerCommitment # input.sellerCommitment
    /\ RequireBoundedInteger(input.deadline, MaxU64)

\* Plausible bug: the slot of the delivery commitment is forgotten.
DepositWithoutDelivery(input) ==
    <<[type |-> "withdraw", token |-> input.token, amount |-> input.amount,
       recipient |-> input.escrowAddress],
      [type |-> "invoke", contract |-> input.escrowAddress,
       calldata |-> <<OpDeposit, input.escrowId, RoleNone, input.token, input.amount,
                      input.buyerCommitment, input.sellerCommitment, input.deadline, 0, 0>>
                    \o EmptyProofCalldata]>>

\* What a deposit asks for: the pool pays the escrow, then calls it.
BuildPrivateDepositActions(input) ==
    <<[type |-> "withdraw", token |-> input.token, amount |-> input.amount,
       recipient |-> input.escrowAddress],
      [type |-> "invoke", contract |-> input.escrowAddress,
       calldata |-> <<OpDeposit, input.escrowId, RoleNone, input.token, input.amount,
                      input.buyerCommitment, input.sellerCommitment, 0, input.deadline, 0>>
                    \o EmptyProofCalldata]>>

\* The checks of buildWinnerClaimActions.
ClaimAccepted(input) ==
    /\ RequireAddress(input.escrowAddress) /\ RequireAddress(input.token)
    /\ RequireAddress(input.recipient) /\ RequireFelt(input.escrowId)
    /\ ProofAccepted(input.proof)

\* What a claim asks for: an open note for the winner, which the call fills.
BuildWinnerClaimActions(input) ==
    <<[type |-> "transfer", token |-> input.token, amount |-> OpenAmount,
       recipient |-> input.recipient],
      [type |-> "invoke", contract |-> input.escrowAddress,
       calldata |-> <<OpClaim, input.escrowId, RoleNumber[input.winnerRole],
                      0, 0, 0, 0, 0, 0, OpenNotePlaceholder>> \o ProofCalldata(input.proof)]>>

\* Plausible bug: only the status is looked at.
StatusAllows(input, record) ==
    record.status = IF input.winnerRole = "seller" THEN 4 ELSE 5

\* prepareWinnerClaimForReview reads the escrow: its token, an amount, the status
\* in which that side has won, and the side's claimed flag.
EscrowAllowsClaim(input, record) ==
    /\ record.token = input.token
    /\ RequireU128(record.amount)
    /\ record.status = IF input.winnerRole = "seller" THEN 4 ELSE 5
    /\ ~record.claimed[input.winnerRole]

=============================================================================
