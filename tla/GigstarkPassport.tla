-------------------------- MODULE GigstarkPassport --------------------------
(***************************************************************************)
(* GigstarkPassportVerifier (contracts/src/gigstark_passport.cairo): the   *)
(* contract that turns a receipt signed by a policy's attestor into one    *)
(* authorization.  Consumers (the escrow, the subscriptions, the tier      *)
(* gate) call consume_authorization inside their own transaction, so the   *)
(* call is the action formula ConsumeAuthorization here and the consumer's *)
(* action conjoins it: when any later assert of the consumer fails, the    *)
(* nullifier is not spent either.                                          *)
(*                                                                         *)
(* Abstractions.  A transaction that reverts changes nothing and is a      *)
(* disabled action.  Hashes are injective, so a statement is the record of *)
(* what it hashes.  A signature that verifies is membership in `receipts`, *)
(* the set of everything the attestors have signed; receipts stay there,   *)
(* so a holder may submit one late, twice, or out of order.                *)
(***************************************************************************)
EXTENDS StarknetClock, FiniteSets

CONSTANTS
    PolicyIds,          \* policy ids the admin may configure (all non-zero)
    Contracts,          \* contract addresses that may be a policy's audience
    Purposes,           \* PASSPORT_PURPOSE_* values
    CredentialClasses,
    PolicyWindows,      \* <<valid_from, valid_until>> pairs the admin may choose
    Commitments,        \* role commitments of the parties
    Nullifiers,         \* scope nullifiers
    Lifetimes,          \* how long after signing a receipt may expire
    MaxReceipts         \* bound on the receipts signed in a behaviour

ASSUME PassportAssumption ==
    /\ PolicyWindows \subseteq Nat \X Nat
    /\ Lifetimes \subseteq Nat
    /\ MaxReceipts \in Nat

VARIABLES
    policies,           \* storage: policy id -> policy
    usedNullifiers,     \* storage: the <<policy, nullifier>> pairs already spent
    receipts            \* external: what the attestors have signed

passportVars == <<policies, usedNullifiers, receipts>>

Policy ==
    [audience: Contracts, purpose: Purposes, credential_class: CredentialClasses,
     valid_from: Nat, valid_until: Nat, active: BOOLEAN]

\* The zero record a storage map returns: attestor_public_key is 0.
NoPolicy == [active |-> FALSE]

\* The calldata struct GigstarkPassportProof, without its signature.
Proof ==
    [policy_id: PolicyIds, audience: Contracts, purpose: Purposes,
     credential_class: CredentialClasses, scope_nullifier: Nullifiers,
     issued_at: Nat, expires_at: Nat]

\* What receipt_digest covers, for statements drawn from the set stmts.
Receipt(stmts) == [role: Commitments, statement: stmts, proof: Proof]

PassportTypeOK(stmts) ==
    /\ policies \in [PolicyIds -> Policy \cup {NoPolicy}]
    /\ usedNullifiers \subseteq PolicyIds \X Nullifiers
    /\ receipts \subseteq Receipt(stmts)

PassportInit ==
    /\ policies = [p \in PolicyIds |-> NoPolicy]
    /\ usedNullifiers = {}
    /\ receipts = {}

-----------------------------------------------------------------------------
(* The admin's operations.  assert_admin refuses every other caller.       *)

SetPolicy(p, audience, purpose, class, from, until) ==
    /\ policies[p] = NoPolicy
    /\ until > from
    /\ policies' = [policies EXCEPT ![p] =
                      [audience |-> audience, purpose |-> purpose,
                       credential_class |-> class, valid_from |-> from,
                       valid_until |-> until, active |-> FALSE]]
    /\ UNCHANGED <<usedNullifiers, receipts>>

SetPolicyActive(p, active) ==
    /\ policies[p] # NoPolicy
    /\ policies' = [policies EXCEPT ![p].active = active]
    /\ UNCHANGED <<usedNullifiers, receipts>>

-----------------------------------------------------------------------------
(* The attestor signs a receipt for a holder (external).  The holder reads *)
(* the digest from get_authorization_digest, which needs a configured      *)
(* policy, active or not; the proof's unsigned fields restate the policy   *)
(* (a proof with others is refused and changes nothing).                   *)

SignReceipt(role, statement, p, nullifier, life) ==
    /\ policies[p] # NoPolicy
    /\ Cardinality(receipts) < MaxReceipts
    /\ receipts' = receipts \cup
         {[role |-> role, statement |-> statement,
           proof |-> [policy_id |-> p, audience |-> policies[p].audience,
                      purpose |-> policies[p].purpose,
                      credential_class |-> policies[p].credential_class,
                      scope_nullifier |-> nullifier,
                      issued_at |-> now, expires_at |-> now + life]]}
    /\ UNCHANGED <<policies, usedNullifiers>>

-----------------------------------------------------------------------------
(* consume_authorization, called by the contract `caller`.                 *)

NullifierKey(proof) == <<proof.policy_id, proof.scope_nullifier>>

PolicyInForce(p) ==
    /\ policies[p] # NoPolicy
    /\ policies[p].active
    /\ policies[p].valid_from <= now
    /\ now < policies[p].valid_until

ProofFitsPolicy(caller, proof) ==
    LET policy == policies[proof.policy_id]
    IN  /\ caller = policy.audience
        /\ proof.audience = policy.audience
        /\ proof.purpose = policy.purpose
        /\ proof.credential_class = policy.credential_class

ReceiptCurrent(proof) ==
    /\ policies[proof.policy_id].valid_from <= proof.issued_at
    /\ proof.issued_at <= now
    /\ now < proof.expires_at
    /\ proof.expires_at <= policies[proof.policy_id].valid_until

SignatureValid(role, statement, proof) ==
    [role |-> role, statement |-> statement, proof |-> proof] \in receipts

\* Plausible bug: the nullifier is checked but never marked as used.
SpendNothing(proof) == {}

SpentBy(proof) == {NullifierKey(proof)}

ConsumeAuthorization(caller, role, statement, proof) ==
    /\ PolicyInForce(proof.policy_id)
    /\ ProofFitsPolicy(caller, proof)
    /\ ReceiptCurrent(proof)
    /\ NullifierKey(proof) \notin usedNullifiers
    /\ SignatureValid(role, statement, proof)
    /\ usedNullifiers' = usedNullifiers \cup SpentBy(proof)
    /\ UNCHANGED <<policies, receipts>>

\* The steps of the verifier and of the attestor that no consumer takes part in.
PassportAdmin ==
    \E p \in PolicyIds :
        \/ \E c \in Contracts, u \in Purposes, k \in CredentialClasses,
              w \in PolicyWindows : SetPolicy(p, c, u, k, w[1], w[2])
        \/ \E b \in BOOLEAN : SetPolicyActive(p, b)

=============================================================================
