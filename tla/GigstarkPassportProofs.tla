----------------------- MODULE GigstarkPassportProofs -----------------------
(***************************************************************************)
(* Type lemmas about the passport, for whatever statements a consumer's    *)
(* receipts are about; the consumers' proofs cite them.                    *)
(***************************************************************************)
EXTENDS GigstarkPassport, TLAPS

\* set_policy and set_policy_active of the passport keep its storage well typed.
LEMMA SetPolicyType ==
    ASSUME NEW stmts, PassportTypeOK(stmts), PassportAdmin
    PROVE  PassportTypeOK(stmts)'
<1>1. ASSUME NEW p \in PolicyIds, NEW c \in Contracts, NEW u \in Purposes,
             NEW k \in CredentialClasses, NEW w \in PolicyWindows,
             SetPolicy(p, c, u, k, w[1], w[2])
      PROVE  PassportTypeOK(stmts)'
  <2>1. w[1] \in Nat /\ w[2] \in Nat
    BY PassportAssumption
  <2>2. QED
    BY <1>1, <2>1 DEF SetPolicy, PassportTypeOK, Policy
<1>2. ASSUME NEW p \in PolicyIds, NEW b \in BOOLEAN, SetPolicyActive(p, b)
      PROVE  PassportTypeOK(stmts)'
  <2>1. policies[p] \in Policy
    BY <1>2 DEF SetPolicyActive, PassportTypeOK
  <2>2. [policies[p] EXCEPT !.active = b] \in Policy
    BY <2>1 DEF Policy
  <2>3. policies' = [policies EXCEPT ![p] = [policies[p] EXCEPT !.active = b]]
    BY <1>2 DEF SetPolicyActive
  <2>4. QED
    BY <1>2, <2>2, <2>3 DEF SetPolicyActive, PassportTypeOK
<1>3. QED
  BY <1>1, <1>2 DEF PassportAdmin

\* A receipt signed on a configured policy has the type of a receipt.
LEMMA SignReceiptType ==
    ASSUME NEW stmts, PassportTypeOK(stmts), now \in Nat,
           NEW role \in Commitments, NEW statement \in stmts, NEW p \in PolicyIds,
           NEW nullifier \in Nullifiers, NEW life \in Lifetimes,
           SignReceipt(role, statement, p, nullifier, life)
    PROVE  PassportTypeOK(stmts)'
<1>1. policies[p] \in Policy
  BY DEF SignReceipt, PassportTypeOK
<1>2. now + life \in Nat
  BY PassportAssumption
<1>3. QED
  BY <1>1, <1>2 DEF SignReceipt, PassportTypeOK, Policy, Receipt, Proof

\* consume_authorization only adds a well-typed nullifier key.
LEMMA ConsumeAuthorizationType ==
    ASSUME NEW stmts, PassportTypeOK(stmts),
           NEW role, NEW statement, NEW caller, NEW proof \in Proof,
           ConsumeAuthorization(caller, role, statement, proof)
    PROVE  PassportTypeOK(stmts)'
  BY DEF ConsumeAuthorization, PassportTypeOK, Proof, SpentBy, NullifierKey

=============================================================================
