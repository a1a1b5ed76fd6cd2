------------------------ MODULE GigstarkEscrowProofs ------------------------
(***************************************************************************)
(* Proofs about GigstarkEscrow, for every value of its constants.          *)
(*                                                                         *)
(* After type correctness: every step is one of three kinds as far as the  *)
(* escrows go: it leaves them alone, it stores a new one, or it performs   *)
(* one action on an existing one (lemma StepKinds).  The invariants are    *)
(* proved from what each kind may change, not from the twelve disjuncts of *)
(* Next.  The money comes last: accounting, solvency and the refinement of *)
(* the ledger.                                                             *)
(***************************************************************************)
EXTENDS GigstarkEscrow, GigstarkPassportProofs, FiniteSetTheorems, TLAPS

(* Type correctness, one lemma per group of storage variables.             *)

\* set_policy and set_policy_active of the compute verifier keep its storage well
\* typed.
LEMMA ComputeAdminType ==
    ASSUME ComputeTypeOK(EscrowIds, DisputeInput), ComputeAdmin
    PROVE  ComputeTypeOK(EscrowIds, DisputeInput)'
<1>1. ASSUME NEW p \in ComputePolicyIds, NEW a \in ComputeAudiences,
             NEW g \in Programs, NEW q \in RequiredScores, NEW w \in ComputeWindows,
             SetComputePolicy(p, a, g, q, w[1], w[2])
      PROVE  ComputeTypeOK(EscrowIds, DisputeInput)'
  <2>1. w[1] \in Nat /\ w[2] \in Nat
    BY ComputeAssumption
  <2>2. QED
    BY <1>1, <2>1 DEF SetComputePolicy, ComputeTypeOK, ComputePolicy
<1>2. ASSUME NEW p \in ComputePolicyIds, NEW b \in BOOLEAN, SetComputePolicyActive(p, b)
      PROVE  ComputeTypeOK(EscrowIds, DisputeInput)'
  <2>1. computePolicies[p] \in ComputePolicy
    BY <1>2 DEF SetComputePolicyActive, ComputeTypeOK
  <2>2. [computePolicies[p] EXCEPT !.active = b] \in ComputePolicy
    BY <2>1 DEF ComputePolicy
  <2>3. computePolicies' =
          [computePolicies EXCEPT ![p] = [computePolicies[p] EXCEPT !.active = b]]
    BY <1>2 DEF SetComputePolicyActive
  <2>4. QED
    BY <1>2, <2>2, <2>3 DEF SetComputePolicyActive, ComputeTypeOK
<1>3. QED
  BY <1>1, <1>2 DEF ComputeAdmin

\* A proof made by the circuit has well-typed public signals.
LEMMA ProveType ==
    ASSUME ComputeTypeOK(EscrowIds, DisputeInput), NEW input \in DisputeInput,
           NEW p \in ComputePolicyIds, NEW g \in Programs, NEW q \in RequiredScores,
           NEW score \in Scores, NEW expires \in ResultExpiries,
           Prove(input, p, g, q, score, expires)
    PROVE  ComputeTypeOK(EscrowIds, DisputeInput)'
<1>1. CircuitOutcome(score, q) \in ComputeOutcome
  BY DEF CircuitOutcome, ComputeOutcome
<1>2. expires \in Nat
  BY ComputeAssumption
<1>3. QED
  BY <1>1, <1>2 DEF Prove, ComputeTypeOK, Signals

\* consume_result only adds a well-typed result: the policy it finds fixes the
\* audience.
LEMMA ConsumeResultType ==
    ASSUME ComputeTypeOK(EscrowIds, DisputeInput), NEW e \in EscrowIds, NEW input,
           NEW s \in proven, ConsumeResult(EscrowContract, e, input, ResultOf(s, e))
    PROVE  ComputeTypeOK(EscrowIds, DisputeInput)'
<1> DEFINE r == ResultOf(s, e)
<1>1. s \in Signals(DisputeInput)
  BY DEF ComputeTypeOK
<1>2. computePolicies[r.policy_id] \in ComputePolicy
  BY <1>1 DEF ConsumeResult, ComputePolicyInForce, ComputeTypeOK, Signals, ResultOf
<1>3. EscrowContract \in ComputeAudiences
  BY <1>2 DEF ConsumeResult, ComputePolicy
<1>4. r \in ZkResult(EscrowIds, DisputeInput)
  BY <1>1, <1>3 DEF ResultOf, Signals, ZkResult
<1>5. QED
  BY <1>4 DEF ConsumeResult, ComputeTypeOK

-----------------------------------------------------------------------------
(* The records the escrow builds.                                          *)

\* A stored escrow is a full record, never the zero record.
LEMMA ExistingRecord ==
    ASSUME TypeOK, NEW e \in EscrowIds, Exists(e)
    PROVE  escrows[e] \in EscrowRecord
  BY DEF TypeOK, Exists, NoEscrow

\* get_action_statement of a stored escrow is a statement.
LEMMA StatementType ==
    ASSUME TypeOK, NEW e \in EscrowIds, Exists(e), NEW operation \in Operation,
           NEW payload \in Payloads
    PROVE  ActionStatement(e, operation, payload) \in Statement
  BY ExistingRecord DEF ActionStatement, Statement, EscrowRecord

\* get_dispute_input_commitment of a stored escrow is a dispute input.
LEMMA DisputeInputType ==
    ASSUME TypeOK, NEW e \in EscrowIds, Exists(e)
    PROVE  DisputeInputCommitment(e) \in DisputeInput
  BY ExistingRecord DEF DisputeInputCommitment, DisputeInput, EscrowRecord

\* The commitment assert_authorized checks is one of the parties'.
LEMMA RoleCommitmentType ==
    ASSUME TypeOK, NEW e \in EscrowIds, Exists(e), NEW role
    PROVE  RoleCommitment(e, role) \in Commitments
  BY ExistingRecord DEF RoleCommitment, EscrowRecord

\* Writing a record back, with its nonce added, touches one escrow and keeps the
\* map well typed.
LEMMA WriteType ==
    ASSUME TypeOK, NEW e \in EscrowIds, NEW record \in EscrowRecord, Write(e, record)
    PROVE  /\ escrows' \in [EscrowIds -> EscrowRecord \cup {NoEscrow}]
           /\ escrows'[e] = Bumped(record)
           /\ \A d \in EscrowIds : d # e => escrows'[d] = escrows[d]
<1>1. Bumped(record) \in EscrowRecord
  BY DEF Bumped, EscrowRecord
<1>2. QED
  BY <1>1 DEF Write, TypeOK

\* The history stays well typed.
LEMMA LogType ==
    ASSUME TypeOK, NEW e \in EscrowIds, Exists(e), NEW role \in Role \cup {"ANYONE"},
           NEW operation \in Operation \cup {"TIMEOUT", "RESOLVE_DISPUTE"},
           NEW payload \in Payloads, NEW proof \in Proof \cup {NoProof},
           Log(e, role, operation, payload, proof)
    PROVE  (performed \subseteq Performed)'
  BY ExistingRecord DEF Log, TypeOK, Performed, EscrowRecord

\* What the operations that need a receipt have in common.
LEMMA AuthorizedType ==
    ASSUME TypeOK, NEW e \in EscrowIds, Exists(e), NEW role \in Role,
           NEW operation \in Operation, NEW payload \in Payloads, NEW r \in receipts,
           NEW record \in EscrowRecord,
           AssertAuthorized(e, role, operation, payload, r.proof),
           Write(e, record), Log(e, role, operation, payload, r.proof)
    PROVE  /\ PassportTypeOK(Statement)'
           /\ escrows' \in [EscrowIds -> EscrowRecord \cup {NoEscrow}]
           /\ (performed \subseteq Performed)'
<1>1. r.proof \in Proof
  BY DEF TypeOK, PassportTypeOK, Receipt
<1>2. PassportTypeOK(Statement)'
  BY <1>1, ConsumeAuthorizationType DEF AssertAuthorized, TypeOK
<1>3. QED
  BY <1>1, <1>2, WriteType, LogType

-----------------------------------------------------------------------------
(* Type correctness.                                                       *)

\* The constructors leave well-typed storage.
LEMMA InitType == Init => TypeOK
  BY DEF Init, ClockInit, PassportInit, ComputeInit, EscrowInit, TypeOK,
         PassportTypeOK, ComputeTypeOK

\* Every operation keeps every variable well typed.
LEMMA NextType == TypeOK /\ [Next]_vars => TypeOK'
<1> SUFFICES ASSUME TypeOK, [Next]_vars
             PROVE  TypeOK'
  OBVIOUS
<1> USE DEF TypeOK
<1>1. CASE UNCHANGED vars
  BY <1>1 DEF vars, passportVars, computeVars, escrowVars, PassportTypeOK, ComputeTypeOK
<1>2. CASE ClockStep
  BY <1>2 DEF ClockStep, Tick, passportVars, computeVars, escrowVars,
              PassportTypeOK, ComputeTypeOK
<1>3. CASE PassportAdmin /\ UNCHANGED <<now, computeVars, escrowVars>>
  BY <1>3, SetPolicyType DEF computeVars, escrowVars, ComputeTypeOK
<1>4. CASE ComputeAdmin /\ UNCHANGED <<now, passportVars, escrowVars>>
  BY <1>4, ComputeAdminType DEF passportVars, escrowVars, PassportTypeOK
<1>5. ASSUME NEW e \in EscrowIds, NEW role \in Role, NEW operation \in Operation,
             NEW p \in PolicyIds, NEW nullifier \in Nullifiers, NEW life \in Lifetimes,
             NEW payload \in PayloadsFor(operation),
             PrepareReceipt(e, role, operation, payload, p, nullifier, life)
      PROVE  TypeOK'
  <2>1. payload \in Payloads
    BY DEF PayloadsFor, Operation, Payloads
  <2>2. ActionStatement(e, operation, payload) \in Statement
    BY <1>5, <2>1, StatementType DEF PrepareReceipt
  <2>3. RoleCommitment(e, role) \in Commitments
    BY <1>5, RoleCommitmentType DEF PrepareReceipt
  <2>4. PassportTypeOK(Statement)'
    BY <1>5, <2>2, <2>3, SignReceiptType DEF PrepareReceipt
  <2>5. QED
    BY <1>5, <2>4 DEF PrepareReceipt, computeVars, escrowVars, ComputeTypeOK
<1>6. ASSUME NEW e \in EscrowIds, NEW p \in ComputePolicyIds, NEW g \in Programs,
             NEW q \in RequiredScores, NEW score \in Scores, NEW expires \in ResultExpiries,
             ProveDispute(e, p, g, q, score, expires)
      PROVE  TypeOK'
  <2>1. DisputeInputCommitment(e) \in DisputeInput
    BY <1>6, DisputeInputType DEF ProveDispute, Disputed, Exists
  <2>2. ComputeTypeOK(EscrowIds, DisputeInput)'
    BY <1>6, <2>1, ProveType DEF ProveDispute
  <2>3. QED
    BY <1>6, <2>2 DEF ProveDispute, passportVars, escrowVars, PassportTypeOK
<1>7. ASSUME NEW e \in EscrowIds, NEW buyer \in Commitments, NEW seller \in Commitments,
             NEW t \in Tokens, NEW amount \in Amounts, NEW deadline \in 1..MaxTime,
             NEW sent \in {0, amount},
             Deposit(e, buyer, seller, t, amount, deadline, sent)
      PROVE  TypeOK'
  <2>1. amount \in Nat \ {0} /\ deadline \in Nat /\ sent \in Nat
    BY EscrowAssumption, MaxTimeAssumption
  <2>2. escrows' \in [EscrowIds -> EscrowRecord \cup {NoEscrow}]
    BY <1>7, <2>1 DEF Deposit, EscrowRecord, Status
  <2>3. accounted' \in [Tokens -> Nat] /\ balance' \in [Tokens -> Nat]
    BY <1>7, <2>1 DEF Deposit
  <2>4. QED
    BY <1>7, <2>2, <2>3 DEF Deposit, passportVars, computeVars, PassportTypeOK, ComputeTypeOK
<1>8. ASSUME NEW e \in EscrowIds, NEW r \in receipts, NEW delivery \in Deliveries,
             SubmitDelivery(e, delivery, r.proof)
      PROVE  TypeOK'
  <2> DEFINE record == [escrows[e] EXCEPT !.delivery_commitment = delivery,
                                       !.status = "DELIVERED"]
  <2>1. Exists(e) /\ escrows[e] \in EscrowRecord
    BY <1>8, ExistingRecord DEF SubmitDelivery, Exists
  <2>2. record \in EscrowRecord
    BY <2>1 DEF EscrowRecord, Status
  <2>3. /\ PassportTypeOK(Statement)'
        /\ escrows' \in [EscrowIds -> EscrowRecord \cup {NoEscrow}]
        /\ (performed \subseteq Performed)'
    BY <1>8, <2>1, <2>2, AuthorizedType DEF SubmitDelivery, Role, Operation, Payloads
  <2>4. QED
    BY <1>8, <2>3 DEF SubmitDelivery, computeVars, ComputeTypeOK
<1>9. ASSUME NEW e \in EscrowIds, NEW r \in receipts, ConfirmDelivery(e, r.proof)
      PROVE  TypeOK'
  <2> DEFINE record == [escrows[e] EXCEPT !.status = "SELLER_WINS"]
  <2>1. Exists(e) /\ escrows[e] \in EscrowRecord
    BY <1>9, ExistingRecord DEF ConfirmDelivery, Exists
  <2>2. record \in EscrowRecord
    BY <2>1 DEF EscrowRecord, Status
  <2>3. /\ PassportTypeOK(Statement)'
        /\ escrows' \in [EscrowIds -> EscrowRecord \cup {NoEscrow}]
        /\ (performed \subseteq Performed)'
    BY <1>9, <2>1, <2>2, AuthorizedType DEF ConfirmDelivery, Role, Operation, Payloads
  <2>4. QED
    BY <1>9, <2>3 DEF ConfirmDelivery, computeVars, ComputeTypeOK
<1>10. ASSUME NEW e \in EscrowIds, NEW r \in receipts, NEW role \in Role,
              OpenDispute(e, role, r.proof)
       PROVE  TypeOK'
  <2> DEFINE record == [escrows[e] EXCEPT !.status = "DISPUTED"]
  <2>1. Exists(e) /\ escrows[e] \in EscrowRecord
    BY <1>10, ExistingRecord DEF OpenDispute, Exists, Open
  <2>2. record \in EscrowRecord
    BY <2>1 DEF EscrowRecord, Status
  <2>3. /\ PassportTypeOK(Statement)'
        /\ escrows' \in [EscrowIds -> EscrowRecord \cup {NoEscrow}]
        /\ (performed \subseteq Performed)'
    BY <1>10, <2>1, <2>2, AuthorizedType DEF OpenDispute, Role, Operation, Payloads
  <2>4. QED
    BY <1>10, <2>3 DEF OpenDispute, computeVars, ComputeTypeOK
<1>11. ASSUME NEW e \in EscrowIds, NEW r \in receipts, NEW role \in Role,
              NEW note \in Notes, Claim(e, role, note, r.proof)
       PROVE  TypeOK'
  <2> DEFINE record == MarkClaimed(e, role)
  <2>1. Exists(e) /\ escrows[e] \in EscrowRecord
    BY <1>11, ExistingRecord DEF Claim, Exists, MayClaim, Decided
  <2>2. record \in EscrowRecord
    BY <2>1 DEF EscrowRecord, Status, MarkClaimed
  <2>3. /\ PassportTypeOK(Statement)'
        /\ escrows' \in [EscrowIds -> EscrowRecord \cup {NoEscrow}]
        /\ (performed \subseteq Performed)'
    BY <1>11, <2>1, <2>2, AuthorizedType DEF Claim, Role, Operation, Payloads
  <2>4. /\ escrows[e].token \in Tokens /\ escrows[e].amount \in Nat
        /\ accounted[escrows[e].token] >= escrows[e].amount
        /\ balance[escrows[e].token] >= escrows[e].amount
    BY <1>11, <2>1 DEF Claim, PoolPulls, EscrowRecord
  <2>5. accounted' \in [Tokens -> Nat] /\ balance' \in [Tokens -> Nat]
    BY <1>11, <2>4 DEF Claim, PoolPulls
  <2>6. QED
    BY <1>11, <2>3, <2>5 DEF Claim, computeVars, ComputeTypeOK
<1>12. ASSUME NEW e \in EscrowIds, Timeout(e)
       PROVE  TypeOK'
  <2> DEFINE record == [escrows[e] EXCEPT !.status = "BUYER_WINS"]
  <2>1. Exists(e) /\ escrows[e] \in EscrowRecord
    BY <1>12, ExistingRecord DEF Timeout, Expirable, Open, Exists
  <2>2. record \in EscrowRecord
    BY <2>1 DEF EscrowRecord, Status
  <2>3. escrows' \in [EscrowIds -> EscrowRecord \cup {NoEscrow}]
    BY <1>12, <2>2, WriteType DEF Timeout
  <2>4. (performed \subseteq Performed)'
    BY <1>12, <2>1, LogType DEF Timeout, Payloads
  <2>5. QED
    BY <1>12, <2>3, <2>4 DEF Timeout, passportVars, computeVars, PassportTypeOK, ComputeTypeOK
<1>13. ASSUME NEW e \in EscrowIds, NEW s \in proven, ResolveDispute(e, ResultOf(s, e))
       PROVE  TypeOK'
  <2> DEFINE record == [escrows[e] EXCEPT !.status =
                          IF ResultOf(s, e).outcome = "SELLER" THEN "SELLER_WINS"
                                                               ELSE "BUYER_WINS"]
  <2>1. Exists(e) /\ escrows[e] \in EscrowRecord
    BY <1>13, ExistingRecord DEF ResolveDispute, Disputed, Exists
  <2>2. record \in EscrowRecord
    BY <2>1 DEF EscrowRecord, Status
  <2>3. escrows' \in [EscrowIds -> EscrowRecord \cup {NoEscrow}]
    BY <1>13, <2>2, WriteType DEF ResolveDispute
  <2>4. (performed \subseteq Performed)'
    BY <1>13, <2>1, LogType DEF ResolveDispute, Payloads
  <2>5. ComputeTypeOK(EscrowIds, DisputeInput)'
    BY <1>13, ConsumeResultType DEF ResolveDispute
  <2>6. QED
    BY <1>13, <2>3, <2>4, <2>5 DEF ResolveDispute, passportVars, PassportTypeOK
<1>14. ASSUME NEW t \in Tokens, Donate(t)
       PROVE  TypeOK'
  BY <1>14 DEF Donate, passportVars, computeVars, PassportTypeOK, ComputeTypeOK
<1>15. QED
  BY <1>1, <1>2, <1>3, <1>4, <1>5, <1>6, <1>7, <1>8, <1>9, <1>10, <1>11, <1>12, <1>13, <1>14
     DEF Next, AdminStep, PrepareStep, DepositStep, AuthorizedStep, OpenStep

\* Every state variable of the escrow and of its two verifiers always holds a
\* value of its type.
THEOREM TypeCorrect == Spec => []TypeOK
<1>1. QED
  BY InitType, NextType, PTL DEF Spec

-----------------------------------------------------------------------------
(* The kinds of step.                                                      *)

SameBut(e) == \A d \in EscrowIds : d # e => escrows'[d] = escrows[d]

SameTerms(e) ==
    /\ escrows'[e].buyer_commitment = escrows[e].buyer_commitment
    /\ escrows'[e].seller_commitment = escrows[e].seller_commitment
    /\ escrows'[e].token = escrows[e].token
    /\ escrows'[e].amount = escrows[e].amount
    /\ escrows'[e].deadline = escrows[e].deadline

\* No escrow is touched; tokens may arrive from outside.
Quiet ==
    /\ UNCHANGED <<escrows, accounted, performed, usedNullifiers, usedResults>>
    /\ \A t \in Tokens : balance[t] <= balance'[t]

\* A new escrow: a deposit.
Stores(e) ==
    /\ ~Exists(e)
    /\ SameBut(e)
    /\ escrows'[e] \in EscrowRecord /\ escrows'[e].amount \in Amounts
    /\ escrows'[e].status = "ACTIVE" /\ escrows'[e].action_nonce = 0
    /\ ~escrows'[e].seller_claimed /\ ~escrows'[e].buyer_claimed
    /\ accounted' = [accounted EXCEPT ![escrows'[e].token] = @ + escrows'[e].amount]
    /\ accounted'[escrows'[e].token] <= balance'[escrows'[e].token]
    /\ \A t \in Tokens : balance[t] <= balance'[t]
    /\ UNCHANGED <<performed, usedNullifiers, usedResults>>

\* The status of e changes, and no money moves.
Moves(e, from, to) ==
    /\ escrows[e].status \in from
    /\ escrows'[e].status \in to
    /\ escrows'[e].seller_claimed = escrows[e].seller_claimed
    /\ escrows'[e].buyer_claimed = escrows[e].buyer_claimed
    /\ UNCHANGED <<accounted, balance>>

Pays(e, role) ==
    /\ Decided(e) /\ role = WinnerRole(e) /\ ~AlreadyClaimed(e, role)
    /\ accounted[escrows[e].token] >= escrows[e].amount
    /\ escrows'[e].status = escrows[e].status
    /\ escrows'[e].seller_claimed = (escrows[e].seller_claimed \/ role = "SELLER")
    /\ escrows'[e].buyer_claimed = (escrows[e].buyer_claimed \/ role = "BUYER")
    /\ accounted' = [accounted EXCEPT ![escrows[e].token] = @ - escrows[e].amount]
    /\ balance' = [balance EXCEPT ![escrows[e].token] = @ - escrows[e].amount]

\* Status and money, by operation.
Changes(e, a) ==
    \/ /\ a.operation \notin {"OPEN_DISPUTE", "RESOLVE_DISPUTE", "CLAIM"}
       /\ Moves(e, {"ACTIVE", "DELIVERED"}, {"DELIVERED", "SELLER_WINS", "BUYER_WINS"})
       /\ UNCHANGED usedResults
    \/ /\ a.operation = "OPEN_DISPUTE"
       /\ Moves(e, {"ACTIVE", "DELIVERED"}, {"DISPUTED"})
       /\ UNCHANGED usedResults
    \/ /\ a.operation = "RESOLVE_DISPUTE"
       /\ \E s \in proven :
            /\ ConsumeResult(EscrowContract, e, DisputeInputCommitment(e), ResultOf(s, e))
            /\ Moves(e, {"DISPUTED"},
                     {IF s.outcome = "SELLER" THEN "SELLER_WINS" ELSE "BUYER_WINS"})
    \/ a.operation = "CLAIM" /\ Pays(e, a.role) /\ UNCHANGED usedResults

\* The receipt a was taken under, or that it needs none.
Authorized(e, a) ==
    \/ a.proof = NoProof /\ UNCHANGED usedNullifiers
    \/ /\ a.proof # NoProof
       /\ NullifierKey(a.proof) \notin usedNullifiers
       /\ usedNullifiers' = usedNullifiers \cup {NullifierKey(a.proof)}
       /\ SignatureValid(RoleCommitment(e, a.role),
                         ActionStatement(e, a.operation, a.payload), a.proof)

Acts(e, a) ==
    /\ Exists(e)
    /\ a \in Performed /\ a.escrow_id = e /\ a.action_nonce = escrows[e].action_nonce
    /\ performed' = performed \cup {a}
    /\ SameBut(e)
    /\ SameTerms(e)
    /\ escrows'[e] \in EscrowRecord
    /\ escrows'[e].action_nonce = escrows[e].action_nonce + 1
    /\ Changes(e, a)
    /\ Authorized(e, a)

\* What the handlers share: Write and Log make a step an action on e.
Entry(e, role, operation, payload, proof) ==
    [escrow_id |-> e, role |-> role, operation |-> operation,
     action_nonce |-> escrows[e].action_nonce, payload |-> payload, proof |-> proof]

\* A handler that writes an existing record with its terms kept and logs it is
\* an action on that escrow, provided its status and its authorization are in order.
LEMMA ActsFromParts ==
    ASSUME TypeOK, NEW e \in EscrowIds, Exists(e),
           NEW role \in Role \cup {"ANYONE"},
           NEW operation \in Operation \cup {"TIMEOUT", "RESOLVE_DISPUTE"},
           NEW payload \in Payloads, NEW proof \in Proof \cup {NoProof},
           NEW record \in EscrowRecord,
           record.buyer_commitment = escrows[e].buyer_commitment,
           record.seller_commitment = escrows[e].seller_commitment,
           record.token = escrows[e].token, record.amount = escrows[e].amount,
           record.deadline = escrows[e].deadline,
           record.action_nonce = escrows[e].action_nonce,
           Write(e, record), Log(e, role, operation, payload, proof),
           Changes(e, Entry(e, role, operation, payload, proof)),
           Authorized(e, Entry(e, role, operation, payload, proof))
    PROVE  \E a \in Performed : Acts(e, a)
<1> DEFINE a == Entry(e, role, operation, payload, proof)
<1>1. escrows[e] \in EscrowRecord
  BY ExistingRecord
<1>2. a \in Performed
  BY <1>1 DEF Entry, Performed, EscrowRecord
<1>3. /\ escrows'[e] = Bumped(record)
      /\ \A d \in EscrowIds : d # e => escrows'[d] = escrows[d]
  BY WriteType
<1>4. Bumped(record) \in EscrowRecord
  BY DEF Bumped, EscrowRecord
<1>5. /\ Bumped(record).action_nonce = escrows[e].action_nonce + 1
      /\ SameTerms(e)
  BY <1>1, <1>3 DEF Bumped, EscrowRecord, SameTerms
<1>6. performed' = performed \cup {a}
  BY DEF Log, Entry
<1>7. a.escrow_id = e /\ a.action_nonce = escrows[e].action_nonce
  BY DEF Entry
<1>8. Acts(e, a)
  BY <1>2, <1>3, <1>4, <1>5, <1>6, <1>7 DEF Acts, SameBut
<1>9. QED
  BY <1>2, <1>8

\* assert_authorized leaves the authorization of the entry in order.
LEMMA AuthorizedFromAssert ==
    ASSUME NEW e, NEW role, NEW operation, NEW payload, NEW proof,
           AssertAuthorized(e, role, operation, payload, proof)
    PROVE  Authorized(e, Entry(e, role, operation, payload, proof))
<1>1. proof # NoProof
  BY DEF AssertAuthorized, NoProof
<1>2. QED
  BY <1>1 DEF AssertAuthorized, ConsumeAuthorization, Authorized, Entry, SpentBy

\* Every step of an existing escrow's storage is one action on it.
LEMMA StepKinds ==
    ASSUME TypeOK, [Next]_vars
    PROVE  \/ Quiet
           \/ \E e \in EscrowIds : Stores(e)
           \/ \E e \in EscrowIds, a \in Performed : Acts(e, a)
<1> DEFINE Action == \E e \in EscrowIds, a \in Performed : Acts(e, a)
<1> DEFINE Still == UNCHANGED <<escrows, accounted, performed, usedNullifiers, usedResults>>
<1>0. \A t \in Tokens : balance[t] \in Nat
  BY DEF TypeOK
<1>1. CASE UNCHANGED vars
  BY <1>0, <1>1 DEF vars, passportVars, computeVars, escrowVars, Quiet
<1>2. CASE ClockStep
  BY <1>0, <1>2 DEF ClockStep, passportVars, computeVars, escrowVars, Quiet
<1>3. CASE AdminStep
  <2>1. Still /\ UNCHANGED balance
    BY <1>3 DEF AdminStep, passportVars, computeVars, escrowVars, PassportAdmin,
                ComputeAdmin, SetPolicy, SetPolicyActive, SetComputePolicy,
                SetComputePolicyActive
  <2>2. QED
    BY <1>0, <2>1 DEF Quiet
<1>4. CASE PrepareStep
  <2>1. Still /\ UNCHANGED balance
    BY <1>4 DEF PrepareStep, PrepareReceipt, SignReceipt, ProveDispute, Prove,
                passportVars, computeVars, escrowVars
  <2>2. QED
    BY <1>0, <2>1 DEF Quiet
<1>5. CASE \E t \in Tokens : Donate(t)
  BY <1>5 DEF Donate, passportVars, computeVars, Quiet, TypeOK
<1>6. ASSUME NEW e \in EscrowIds, NEW buyer \in Commitments, NEW seller \in Commitments,
             NEW t \in Tokens, NEW amount \in Amounts, NEW deadline \in 1..MaxTime,
             NEW sent \in {0, amount},
             Deposit(e, buyer, seller, t, amount, deadline, sent)
      PROVE  Stores(e)
  <2>1. amount \in Nat \ {0} /\ deadline \in Nat /\ sent \in Nat
    BY EscrowAssumption, MaxTimeAssumption
  <2>2. escrows'[e] = [buyer_commitment |-> buyer, seller_commitment |-> seller,
                      delivery_commitment |-> NoPayload, token |-> t,
                      amount |-> amount, deadline |-> deadline,
                      status |-> "ACTIVE", seller_claimed |-> FALSE,
                      buyer_claimed |-> FALSE, action_nonce |-> 0]
    BY <1>6 DEF Deposit, TypeOK
  <2>3. /\ escrows'[e].token = t /\ escrows'[e].amount = amount
        /\ escrows'[e].amount \in Amounts
        /\ escrows'[e] \in EscrowRecord
    BY <2>1, <2>2 DEF EscrowRecord, Status
  <2>4. /\ accounted' = [accounted EXCEPT ![t] = @ + amount]
        /\ accounted'[t] <= balance'[t]
        /\ \A u \in Tokens : balance[u] <= balance'[u]
    BY <1>6, <2>1 DEF Deposit, Covers, TypeOK
  <2>5. SameBut(e)
    BY <1>6 DEF Deposit, TypeOK, SameBut
  <2>6. ~Exists(e) /\ UNCHANGED <<performed, usedNullifiers, usedResults>>
    BY <1>6 DEF Deposit, passportVars, computeVars
  <2>7. /\ escrows'[e].status = "ACTIVE" /\ escrows'[e].action_nonce = 0
        /\ ~escrows'[e].seller_claimed /\ ~escrows'[e].buyer_claimed
    BY <2>2
  <2>8. /\ accounted' = [accounted EXCEPT ![escrows'[e].token] = @ + escrows'[e].amount]
        /\ accounted'[escrows'[e].token] <= balance'[escrows'[e].token]
    BY <2>3, <2>4
  <2>9. QED
    BY <2>3, <2>4, <2>5, <2>6, <2>7, <2>8 DEF Stores
<1>7. ASSUME NEW e \in EscrowIds, NEW r \in receipts, NEW delivery \in Deliveries,
             SubmitDelivery(e, delivery, r.proof)
      PROVE  Action
  <2> DEFINE record == [escrows[e] EXCEPT !.delivery_commitment = delivery,
                                       !.status = "DELIVERED"]
             a == Entry(e, "SELLER", "SUBMIT_DELIVERY", delivery, r.proof)
  <2>1. Exists(e) /\ escrows[e] \in EscrowRecord /\ r.proof \in Proof
    BY <1>7, ExistingRecord DEF SubmitDelivery, Exists, TypeOK, PassportTypeOK, Receipt
  <2>2. record \in EscrowRecord
    BY <2>1 DEF EscrowRecord, Status
  <2>3. Write(e, record) /\ escrows'[e] = Bumped(record)
    BY <1>7, <2>2, WriteType DEF SubmitDelivery
  <2>4. Changes(e, a)
    BY <1>7, <2>1, <2>3 DEF Changes, Entry, Moves, SubmitDelivery, Bumped, computeVars, EscrowRecord
  <2>5. Authorized(e, a)
    BY <1>7, AuthorizedFromAssert DEF SubmitDelivery
  <2>6. "SELLER" \in Role /\ "SUBMIT_DELIVERY" \in Operation /\ delivery \in Payloads
    BY DEF Role, Operation, Payloads
  <2>7. Log(e, "SELLER", "SUBMIT_DELIVERY", delivery, r.proof)
    BY <1>7 DEF SubmitDelivery
  <2>8. QED
    BY <2>1, <2>2, <2>3, <2>4, <2>5, <2>6, <2>7, ActsFromParts DEF EscrowRecord
<1>8. ASSUME NEW e \in EscrowIds, NEW r \in receipts, ConfirmDelivery(e, r.proof)
      PROVE  Action
  <2> DEFINE record == [escrows[e] EXCEPT !.status = "SELLER_WINS"]
             a == Entry(e, "BUYER", "CONFIRM_DELIVERY", NoPayload, r.proof)
  <2>1. Exists(e) /\ escrows[e] \in EscrowRecord /\ r.proof \in Proof
    BY <1>8, ExistingRecord DEF ConfirmDelivery, Exists, TypeOK, PassportTypeOK, Receipt
  <2>2. record \in EscrowRecord
    BY <2>1 DEF EscrowRecord, Status
  <2>3. Write(e, record) /\ escrows'[e] = Bumped(record)
    BY <1>8, <2>2, WriteType DEF ConfirmDelivery
  <2>4. Changes(e, a)
    BY <1>8, <2>1, <2>3 DEF Changes, Entry, Moves, ConfirmDelivery, Bumped, computeVars, EscrowRecord
  <2>5. Authorized(e, a)
    BY <1>8, AuthorizedFromAssert DEF ConfirmDelivery
  <2>6. "BUYER" \in Role /\ "CONFIRM_DELIVERY" \in Operation /\ NoPayload \in Payloads
    BY DEF Role, Operation, Payloads
  <2>7. Log(e, "BUYER", "CONFIRM_DELIVERY", NoPayload, r.proof)
    BY <1>8 DEF ConfirmDelivery
  <2>8. QED
    BY <2>1, <2>2, <2>3, <2>4, <2>5, <2>6, <2>7, ActsFromParts DEF EscrowRecord
<1>9. ASSUME NEW e \in EscrowIds, NEW r \in receipts, NEW role \in Role,
             OpenDispute(e, role, r.proof)
      PROVE  Action
  <2> DEFINE record == [escrows[e] EXCEPT !.status = "DISPUTED"]
             a == Entry(e, role, "OPEN_DISPUTE", NoPayload, r.proof)
  <2>1. Exists(e) /\ escrows[e] \in EscrowRecord /\ r.proof \in Proof
    BY <1>9, ExistingRecord DEF OpenDispute, Open, Exists, TypeOK, PassportTypeOK, Receipt
  <2>2. record \in EscrowRecord
    BY <2>1 DEF EscrowRecord, Status
  <2>3. Write(e, record) /\ escrows'[e] = Bumped(record)
    BY <1>9, <2>2, WriteType DEF OpenDispute
  <2>4. Changes(e, a)
    BY <1>9, <2>1, <2>3 DEF Changes, Entry, Moves, OpenDispute, Open, Bumped, computeVars, EscrowRecord
  <2>5. Authorized(e, a)
    BY <1>9, AuthorizedFromAssert DEF OpenDispute
  <2>6. "OPEN_DISPUTE" \in Operation /\ NoPayload \in Payloads
    BY DEF Operation, Payloads
  <2>7. Log(e, role, "OPEN_DISPUTE", NoPayload, r.proof)
    BY <1>9 DEF OpenDispute
  <2>8. QED
    BY <2>1, <2>2, <2>3, <2>4, <2>5, <2>6, <2>7, ActsFromParts DEF EscrowRecord
<1>10. ASSUME NEW e \in EscrowIds, NEW r \in receipts, NEW role \in Role,
              NEW note \in Notes, Claim(e, role, note, r.proof)
       PROVE  Action
  <2> DEFINE record == MarkClaimed(e, role)
             a == Entry(e, role, "CLAIM", note, r.proof)
  <2>1. Exists(e) /\ escrows[e] \in EscrowRecord /\ r.proof \in Proof
    BY <1>10, ExistingRecord DEF Claim, MayClaim, Decided, Exists, TypeOK, PassportTypeOK, Receipt
  <2>2. /\ record \in EscrowRecord
        /\ record.buyer_commitment = escrows[e].buyer_commitment
        /\ record.seller_commitment = escrows[e].seller_commitment
        /\ record.token = escrows[e].token /\ record.amount = escrows[e].amount
        /\ record.deadline = escrows[e].deadline
        /\ record.action_nonce = escrows[e].action_nonce
        /\ record.status = escrows[e].status
        /\ record.seller_claimed = (escrows[e].seller_claimed \/ role = "SELLER")
        /\ record.buyer_claimed = (escrows[e].buyer_claimed \/ role = "BUYER")
    BY <2>1 DEF EscrowRecord, MarkClaimed, Role
  <2>3. Write(e, record) /\ escrows'[e] = Bumped(record)
    BY <1>10, <2>2, WriteType DEF Claim
  <2>4. /\ escrows'[e].status = escrows[e].status
        /\ escrows'[e].seller_claimed = (escrows[e].seller_claimed \/ role = "SELLER")
        /\ escrows'[e].buyer_claimed = (escrows[e].buyer_claimed \/ role = "BUYER")
    BY <2>2, <2>3 DEF Bumped, EscrowRecord
  <2>5. Pays(e, role)
    BY <1>10, <2>4 DEF Pays, Claim, MayClaim, PoolPulls
  <2>6. Changes(e, a)
    BY <1>10, <2>5 DEF Changes, Entry, Claim, computeVars
  <2>7. Authorized(e, a)
    BY <1>10, AuthorizedFromAssert DEF Claim
  <2>8. "CLAIM" \in Operation /\ note \in Payloads
    BY DEF Operation, Payloads
  <2>9. Log(e, role, "CLAIM", note, r.proof)
    BY <1>10 DEF Claim
  <2>10. QED
    BY <2>1, <2>2, <2>3, <2>6, <2>7, <2>8, <2>9, ActsFromParts
<1>11. ASSUME NEW e \in EscrowIds, Timeout(e)
       PROVE  Action
  <2> DEFINE record == [escrows[e] EXCEPT !.status = "BUYER_WINS"]
             a == Entry(e, "ANYONE", "TIMEOUT", NoPayload, NoProof)
  <2>1. Exists(e) /\ escrows[e] \in EscrowRecord
    BY <1>11, ExistingRecord DEF Timeout, Expirable, Open, Exists
  <2>2. record \in EscrowRecord
    BY <2>1 DEF EscrowRecord, Status
  <2>3. Write(e, record) /\ escrows'[e] = Bumped(record)
    BY <1>11, <2>2, WriteType DEF Timeout
  <2>4. Changes(e, a)
    BY <1>11, <2>1, <2>3 DEF Changes, Entry, Moves, Timeout, Expirable, Open, Bumped, computeVars, EscrowRecord
  <2>5. Authorized(e, a)
    BY <1>11 DEF Timeout, Authorized, Entry, passportVars
  <2>6. NoPayload \in Payloads
    BY DEF Payloads
  <2>7. Log(e, "ANYONE", "TIMEOUT", NoPayload, NoProof)
    BY <1>11 DEF Timeout
  <2>8. QED
    BY <2>1, <2>2, <2>3, <2>4, <2>5, <2>6, <2>7, ActsFromParts DEF EscrowRecord
<1>12. ASSUME NEW e \in EscrowIds, NEW s \in proven, ResolveDispute(e, ResultOf(s, e))
       PROVE  Action
  <2> DEFINE winner == IF s.outcome = "SELLER" THEN "SELLER_WINS" ELSE "BUYER_WINS"
             record == [escrows[e] EXCEPT !.status = winner]
             a == Entry(e, "ANYONE", "RESOLVE_DISPUTE", NoPayload, NoProof)
  <2>1. Exists(e) /\ escrows[e] \in EscrowRecord
    BY <1>12, ExistingRecord DEF ResolveDispute, Disputed, Exists
  <2>2. record \in EscrowRecord /\ record.status = winner
    BY <2>1 DEF EscrowRecord, Status
  <2>3. Write(e, record)
    BY <1>12 DEF ResolveDispute, ResultOf
  <2>4. escrows'[e] = Bumped(record)
    BY <2>2, <2>3, WriteType
  <2>5. Moves(e, {"DISPUTED"}, {winner})
    BY <1>12, <2>1, <2>2, <2>4 DEF Moves, ResolveDispute, Disputed, Bumped, EscrowRecord
  <2>6. Changes(e, a)
    BY <1>12, <2>5 DEF Changes, Entry, ResolveDispute
  <2>7. Authorized(e, a)
    BY <1>12 DEF ResolveDispute, Authorized, Entry, passportVars
  <2>8. NoPayload \in Payloads
    BY DEF Payloads
  <2>9. Log(e, "ANYONE", "RESOLVE_DISPUTE", NoPayload, NoProof)
    BY <1>12 DEF ResolveDispute
  <2>10. QED
    BY <2>1, <2>2, <2>3, <2>6, <2>7, <2>8, <2>9, ActsFromParts DEF EscrowRecord
<1>13. CASE DepositStep
  BY <1>13, <1>6 DEF DepositStep
<1>14. CASE AuthorizedStep
  BY <1>14, <1>7, <1>8, <1>9, <1>10 DEF AuthorizedStep
<1>15. CASE OpenStep
  BY <1>15, <1>11, <1>12 DEF OpenStep
<1>16. QED
  BY <1>1, <1>2, <1>3, <1>4, <1>5, <1>13, <1>14, <1>15 DEF Next

\* What the verifiers keep for ever: the receipts that were signed, and the
\* thresholds that were configured; and a new proof obeys the circuit.
LEMMA VerifiersOnlyGrow ==
    ASSUME TypeOK, [Next]_vars
    PROVE  /\ receipts \subseteq receipts'
           /\ \A p \in ComputePolicyIds : computePolicies[p] # NoComputePolicy =>
                /\ computePolicies'[p] # NoComputePolicy
                /\ computePolicies'[p].required_score = computePolicies[p].required_score
           /\ \A s \in proven' : s \in proven \/ s.outcome = CircuitOutcome(s.evidence, s.required_score)
<1> DEFINE Kept == \A p \in ComputePolicyIds : computePolicies[p] # NoComputePolicy =>
                      /\ computePolicies'[p] # NoComputePolicy
                      /\ computePolicies'[p].required_score = computePolicies[p].required_score
           Same == UNCHANGED <<receipts, computePolicies, proven>>
<1>1. CASE UNCHANGED vars \/ ClockStep \/ \E t \in Tokens : Donate(t)
  <2>1. Same
    BY <1>1 DEF ClockStep, Donate, passportVars, computeVars, vars
  <2>2. QED
    BY <2>1
<1>2. CASE PassportAdmin /\ UNCHANGED <<now, computeVars, escrowVars>>
  <2>1. Same
    BY <1>2 DEF PassportAdmin, SetPolicy, SetPolicyActive, computeVars
  <2>2. QED
    BY <2>1
<1>3. ASSUME NEW p \in ComputePolicyIds, NEW a \in ComputeAudiences, NEW g \in Programs,
             NEW q \in RequiredScores, NEW w \in ComputeWindows,
             SetComputePolicy(p, a, g, q, w[1], w[2])
      PROVE  Kept /\ UNCHANGED proven
  BY <1>3 DEF SetComputePolicy, TypeOK, ComputeTypeOK
<1>4. ASSUME NEW p \in ComputePolicyIds, NEW b \in BOOLEAN, SetComputePolicyActive(p, b)
      PROVE  Kept /\ UNCHANGED proven
  <2>1. computePolicies[p] \in ComputePolicy
    BY <1>4 DEF SetComputePolicyActive, TypeOK, ComputeTypeOK
  <2>2. computePolicies' =
          [computePolicies EXCEPT ![p] = [computePolicies[p] EXCEPT !.active = b]]
    BY <1>4 DEF SetComputePolicyActive
  <2>3. [computePolicies[p] EXCEPT !.active = b].required_score
          = computePolicies[p].required_score
    BY <2>1 DEF ComputePolicy
  <2>4. "required_score" \in DOMAIN [computePolicies[p] EXCEPT !.active = b]
    BY <2>1 DEF ComputePolicy
  <2>5. "required_score" \notin DOMAIN NoComputePolicy
    BY DEF NoComputePolicy
  <2>6. [computePolicies[p] EXCEPT !.active = b] # NoComputePolicy
    BY <2>4, <2>5
  <2>7. QED
    BY <1>4, <2>2, <2>3, <2>6 DEF TypeOK, ComputeTypeOK, SetComputePolicyActive
<1>5. CASE ComputeAdmin /\ UNCHANGED <<now, passportVars, escrowVars>>
  <2>1. Kept /\ UNCHANGED proven
    BY <1>3, <1>4, <1>5 DEF ComputeAdmin
  <2>2. UNCHANGED receipts
    BY <1>5 DEF passportVars
  <2>3. QED
    BY <2>1, <2>2
<1>6. CASE PrepareStep
  <2>1. ASSUME NEW e \in EscrowIds, NEW role \in Role, NEW operation \in Operation,
               NEW p \in PolicyIds, NEW nullifier \in Nullifiers, NEW life \in Lifetimes,
               NEW payload,
               PrepareReceipt(e, role, operation, payload, p, nullifier, life)
        PROVE  receipts \subseteq receipts' /\ UNCHANGED <<computePolicies, proven>>
    BY <2>1 DEF PrepareReceipt, SignReceipt, computeVars
  <2>2. ASSUME NEW e \in EscrowIds, NEW p \in ComputePolicyIds, NEW g \in Programs,
               NEW q \in RequiredScores, NEW score \in Scores, NEW expires \in ResultExpiries,
               ProveDispute(e, p, g, q, score, expires)
        PROVE  /\ UNCHANGED <<receipts, computePolicies>>
               /\ \A s \in proven' : s \in proven \/ s.outcome = CircuitOutcome(s.evidence, s.required_score)
    BY <2>2 DEF ProveDispute, Prove, passportVars
  <2>3. QED
    BY <1>6, <2>1, <2>2 DEF PrepareStep
<1>7. CASE DepositStep
  <2>1. Same
    BY <1>7 DEF DepositStep, Deposit, passportVars, computeVars
  <2>2. QED
    BY <2>1
<1>8. CASE AuthorizedStep
  <2>1. ASSUME NEW e, NEW role, NEW operation, NEW payload, NEW proof,
               AssertAuthorized(e, role, operation, payload, proof)
        PROVE  UNCHANGED receipts
    BY <2>1 DEF AssertAuthorized, ConsumeAuthorization
  <2>2. ASSUME NEW e \in EscrowIds, NEW r \in receipts, NEW delivery \in Deliveries,
               SubmitDelivery(e, delivery, r.proof)
        PROVE  Same
    BY <2>1, <2>2 DEF SubmitDelivery, computeVars
  <2>3. ASSUME NEW e \in EscrowIds, NEW r \in receipts, ConfirmDelivery(e, r.proof)
        PROVE  Same
    BY <2>1, <2>3 DEF ConfirmDelivery, computeVars
  <2>4. ASSUME NEW e \in EscrowIds, NEW r \in receipts, NEW role \in Role,
               OpenDispute(e, role, r.proof)
        PROVE  Same
    BY <2>1, <2>4 DEF OpenDispute, computeVars
  <2>5. ASSUME NEW e \in EscrowIds, NEW r \in receipts, NEW role \in Role,
               NEW note \in Notes, Claim(e, role, note, r.proof)
        PROVE  Same
    BY <2>1, <2>5 DEF Claim, computeVars
  <2>6. Same
    BY <1>8, <2>2, <2>3, <2>4, <2>5 DEF AuthorizedStep
  <2>7. QED
    BY <2>6
<1>9. CASE OpenStep
  <2>1. Same
    BY <1>9 DEF OpenStep, Timeout, ResolveDispute, ConsumeResult, passportVars, computeVars
  <2>2. QED
    BY <2>1
<1>10. QED
  BY <1>1, <1>2, <1>5, <1>6, <1>7, <1>8, <1>9 DEF Next, AdminStep

-----------------------------------------------------------------------------
(* Claim flags.                                                            *)

\* A claim flag is only ever set for the side the escrow was decided for, for
\* good: deciding happens once, and claim sets the winner's flag only.
THEOREM FlagsCorrect == Spec => []FlagsFollowDecision
<1>1. Init => FlagsFollowDecision
  BY DEF Init, EscrowInit, FlagsFollowDecision, Exists, NoEscrow
<1>2. TypeOK /\ FlagsFollowDecision /\ [Next]_vars => FlagsFollowDecision'
  <2> SUFFICES ASSUME TypeOK, FlagsFollowDecision, [Next]_vars
               PROVE  FlagsFollowDecision'
    OBVIOUS
  <2>1. CASE Quiet
    BY <2>1 DEF Quiet, FlagsFollowDecision, Exists
  <2>2. ASSUME NEW e \in EscrowIds, Stores(e)
        PROVE  FlagsFollowDecision'
    BY <2>2 DEF Stores, SameBut, FlagsFollowDecision, Exists
  <2>3. ASSUME NEW e \in EscrowIds, NEW a \in Performed, Acts(e, a)
        PROVE  FlagsFollowDecision'
    <3>1. escrows[e] \in EscrowRecord
      BY <2>3, ExistingRecord DEF Acts
    <3>2. /\ escrows'[e].seller_claimed => escrows'[e].status = "SELLER_WINS"
          /\ escrows'[e].buyer_claimed => escrows'[e].status = "BUYER_WINS"
      BY <2>3, <3>1 DEF Acts, Changes, Moves, Pays, FlagsFollowDecision, Decided, WinnerRole, EscrowRecord
    <3>3. QED
      BY <2>3, <3>2 DEF Acts, SameBut, FlagsFollowDecision, Exists
  <2>4. QED
    BY <2>1, <2>2, <2>3, StepKinds
<1>3. QED
  BY <1>1, <1>2, TypeCorrect, PTL DEF Spec

-----------------------------------------------------------------------------
(* The history and the record.                                             *)

\* Each action in the history of an escrow is reflected in its record: the
\* escrow exists, a claim has its flag, a dispute is pending or decided.
THEOREM HistoryCorrect == Spec => []HistoryFitsRecord
<1>1. Init => HistoryFitsRecord
  BY DEF Init, EscrowInit, HistoryFitsRecord
<1>2. TypeOK /\ HistoryFitsRecord /\ [Next]_vars => HistoryFitsRecord'
  <2> SUFFICES ASSUME TypeOK, HistoryFitsRecord, [Next]_vars
               PROVE  HistoryFitsRecord'
    OBVIOUS
  <2>1. CASE Quiet
    BY <2>1 DEF Quiet, HistoryFitsRecord, Exists, Disputed, Decided
  <2>2. ASSUME NEW e \in EscrowIds, Stores(e)
        PROVE  HistoryFitsRecord'
    BY <2>2 DEF Stores, SameBut, HistoryFitsRecord, Exists, Disputed, Decided, TypeOK, Performed
  <2>3. ASSUME NEW e \in EscrowIds, NEW a \in Performed, Acts(e, a)
        PROVE  HistoryFitsRecord'
    <3>1. escrows[e] \in EscrowRecord /\ escrows'[e] \in EscrowRecord
      BY <2>3, ExistingRecord DEF Acts
    <3>2. ASSUME NEW b \in performed', b.escrow_id # e
          PROVE  b \in performed /\ b.escrow_id \in EscrowIds
                 /\ escrows'[b.escrow_id] = escrows[b.escrow_id]
      BY <2>3, <3>2 DEF Acts, SameBut, TypeOK, Performed
    <3>3. Exists(e)'
      BY <3>1 DEF Exists, EscrowRecord, Status
    <3>4. ASSUME NEW b \in performed', b.escrow_id = e, b.operation = "CLAIM"
          PROVE  \/ b.role = "SELLER" /\ escrows'[e].seller_claimed
                 \/ b.role = "BUYER" /\ escrows'[e].buyer_claimed
      <4>1. CASE b \in performed
        BY <2>3, <3>1, <3>4, <4>1 DEF HistoryFitsRecord, Acts, Changes, Moves, Pays, EscrowRecord
      <4>2. CASE b = a
        BY <2>3, <3>1, <3>4, <4>2 DEF Acts, Changes, Pays, WinnerRole
      <4>3. QED
        BY <2>3, <4>1, <4>2 DEF Acts
    <3>5. ASSUME NEW b \in performed', b.escrow_id = e, b.operation = "OPEN_DISPUTE"
          PROVE  Disputed(e)' \/ Decided(e)'
      <4>1. CASE b \in performed
        BY <2>3, <3>5, <4>1 DEF HistoryFitsRecord, Acts, Changes, Moves, Pays, Disputed, Decided
      <4>2. CASE b = a
        BY <2>3, <3>5, <4>2 DEF Acts, Changes, Moves, Disputed
      <4>3. QED
        BY <2>3, <4>1, <4>2 DEF Acts
    <3>6. QED
      BY <3>2, <3>3, <3>4, <3>5 DEF HistoryFitsRecord, Exists, Disputed, Decided
  <2>4. QED
    BY <2>1, <2>2, <2>3, StepKinds
<1>3. QED
  BY <1>1, <1>2, TypeCorrect, PTL DEF Spec

\* An escrow pays at most once, after its decision, and only the side the
\* decision names (claim): from the flags and the history that matches them.
THEOREM PaidOnce == Spec => []PaidOnceToTheWinner
<1>1. Init => PaidOnceToTheWinner
  <2>1. ASSUME performed = {}, NEW e \in EscrowIds
        PROVE  Claims(e) = {}
    BY <2>1 DEF Claims
  <2>2. QED
    BY <2>1, FS_EmptySet DEF Init, EscrowInit, PaidOnceToTheWinner
<1>2. TypeOK /\ FlagsFollowDecision /\ HistoryFitsRecord /\ PaidOnceToTheWinner /\ [Next]_vars
      => PaidOnceToTheWinner'
  <2> SUFFICES ASSUME TypeOK, FlagsFollowDecision, HistoryFitsRecord, PaidOnceToTheWinner,
                      [Next]_vars
               PROVE  PaidOnceToTheWinner'
    OBVIOUS
  <2> USE DEF PaidOnceToTheWinner
  <2>1. CASE Quiet
    BY <2>1 DEF Quiet, Claims, Decided, WinnerRole
  <2>2. ASSUME NEW e \in EscrowIds, Stores(e)
        PROVE  PaidOnceToTheWinner'
    <3>1. \A d \in EscrowIds : Claims(d)' = Claims(d)
      BY <2>2 DEF Stores, Claims
    <3>2. Claims(e) = {}
      BY <2>2 DEF Stores, HistoryFitsRecord, Claims
    <3>3. QED
      BY <2>2, <3>1, <3>2 DEF Stores, SameBut, Decided, WinnerRole
  <2>3. ASSUME NEW e \in EscrowIds, NEW a \in Performed, Acts(e, a)
        PROVE  PaidOnceToTheWinner'
    <3>1. ASSUME NEW d \in EscrowIds, d # e
          PROVE  Claims(d)' = Claims(d) /\ escrows'[d] = escrows[d]
      BY <2>3, <3>1 DEF Acts, SameBut, Claims
    <3>2. CASE a.operation # "CLAIM"
      <4>1. Claims(e)' = Claims(e)
        BY <2>3, <3>2 DEF Acts, Claims
      <4>2. Claims(e) # {} => Decided(e)
        BY <2>3 DEF PaidOnceToTheWinner
      <4>3. ~Decided(e)
        BY <2>3, <3>2 DEF Acts, Changes, Moves, Decided
      <4>4. QED
        BY <3>1, <4>1, <4>2, <4>3 DEF Decided, WinnerRole
    <3>3. CASE a.operation = "CLAIM"
      <4>1. Pays(e, a.role)
        BY <2>3, <3>3 DEF Acts, Changes
      <4>2. Claims(e) = {}
        BY <2>3, <4>1 DEF Acts, Pays, HistoryFitsRecord, FlagsFollowDecision, Claims,
                      AlreadyClaimed, WinnerRole
      <4>3. Claims(e)' = {a}
        BY <2>3, <3>3, <4>2 DEF Acts, Claims
      <4>4. Cardinality({a}) = 1
        BY FS_Singleton
      <4>5. Decided(e)' /\ a.role = WinnerRole(e)'
        BY <4>1 DEF Pays, Decided, WinnerRole
      <4>6. QED
        BY <3>1, <4>3, <4>4, <4>5 DEF Decided, WinnerRole
    <3>4. QED
      BY <3>2, <3>3
  <2>4. QED
    BY <2>1, <2>2, <2>3, StepKinds
<1>3. QED
  BY <1>1, <1>2, TypeCorrect, FlagsCorrect, HistoryCorrect, PTL DEF Spec

-----------------------------------------------------------------------------
(* Nullifiers, receipts and nonces.                                        *)

\* Every receipt that authorized an action has its nullifier spent: the
\* consumption and the action are one transaction.
THEOREM UsedReceiptsSpent == Spec => []UsedReceiptsAreSpent
<1>1. Init => UsedReceiptsAreSpent
  BY DEF Init, EscrowInit, UsedReceiptsAreSpent
<1>2. TypeOK /\ UsedReceiptsAreSpent /\ [Next]_vars => UsedReceiptsAreSpent'
  BY StepKinds DEF Quiet, Stores, Acts, Authorized, UsedReceiptsAreSpent
<1>3. QED
  BY <1>1, <1>2, TypeCorrect, PTL DEF Spec

\* One spent nullifier, one action, on whatever escrow.
THEOREM NullifiersCorrect == Spec => []OneActionPerNullifier
<1>1. Init => OneActionPerNullifier
  BY DEF Init, EscrowInit, OneActionPerNullifier
<1>2. TypeOK /\ UsedReceiptsAreSpent /\ OneActionPerNullifier /\ [Next]_vars
      => OneActionPerNullifier'
  BY StepKinds DEF Quiet, Stores, Acts, Authorized, UsedReceiptsAreSpent, OneActionPerNullifier
<1>3. QED
  BY <1>1, <1>2, TypeCorrect, UsedReceiptsSpent, PTL DEF Spec

\* Whatever was done under a receipt is what the holder of the role signed, at
\* the nonce it was done at.
THEOREM SignedCorrect == Spec => []PerformedAsSigned
<1>1. Init => PerformedAsSigned
  BY DEF Init, EscrowInit, PerformedAsSigned
<1>2. TypeOK /\ HistoryFitsRecord /\ PerformedAsSigned /\ [Next]_vars => PerformedAsSigned'
  <2> SUFFICES ASSUME TypeOK, HistoryFitsRecord, PerformedAsSigned, [Next]_vars,
                      NEW b \in performed', b.proof # NoProof
               PROVE  \E r \in receipts' :
                        /\ r.proof = b.proof
                        /\ r.role = RoleCommitment(b.escrow_id, b.role)'
                        /\ r.statement.escrow_id = b.escrow_id
                        /\ r.statement.operation = b.operation
                        /\ r.statement.action_nonce = b.action_nonce
                        /\ r.statement.payload = b.payload
    BY DEF PerformedAsSigned, RoleCommitment
  <2>1. receipts \subseteq receipts'
    BY VerifiersOnlyGrow
  <2>2. CASE b \in performed
    <3> DEFINE d == b.escrow_id
    <3>1. d \in EscrowIds /\ Exists(d)
      BY <2>2 DEF TypeOK, Performed, HistoryFitsRecord
    <3>2. RoleCommitment(d, b.role)' = RoleCommitment(d, b.role)
      BY <3>1, StepKinds DEF Quiet, Stores, Acts, SameBut, SameTerms, RoleCommitment
    <3>3. QED
      BY <2>1, <2>2, <3>2 DEF PerformedAsSigned
  <2>3. ASSUME NEW e \in EscrowIds, NEW a \in Performed, Acts(e, a), b = a
        PROVE  \E r \in receipts' :
                        /\ r.proof = b.proof
                        /\ r.role = RoleCommitment(b.escrow_id, b.role)'
                        /\ r.statement.escrow_id = b.escrow_id
                        /\ r.statement.operation = b.operation
                        /\ r.statement.action_nonce = b.action_nonce
                        /\ r.statement.payload = b.payload
    <3> DEFINE r == [role |-> RoleCommitment(e, a.role),
                     statement |-> ActionStatement(e, a.operation, a.payload),
                     proof |-> a.proof]
    <3>1. r \in receipts'
      BY <2>1, <2>3 DEF Acts, Authorized, SignatureValid
    <3>2. RoleCommitment(e, a.role)' = RoleCommitment(e, a.role)
      BY <2>3 DEF Acts, SameTerms, RoleCommitment
    <3>3. QED
      BY <2>3, <3>1, <3>2 DEF Acts, ActionStatement
  <2>4. QED
    BY <2>2, <2>3, StepKinds DEF Quiet, Stores, Acts
<1>3. QED
  BY <1>1, <1>2, TypeCorrect, HistoryCorrect, PTL DEF Spec

Done(e) == {a \in performed : a.escrow_id = e}

\* NonceSerializesActions with what its induction needs: the history is finite,
\* and an escrow without a record has none.
NonceInv ==
    /\ IsFiniteSet(performed)
    /\ \A e \in EscrowIds :
        IF Exists(e) THEN /\ {a.action_nonce : a \in Done(e)} = 0..(escrows[e].action_nonce - 1)
                          /\ Cardinality(Done(e)) = escrows[e].action_nonce
                     ELSE Done(e) = {}

\* The nonce of an escrow numbers its actions, so competing actions prepared at
\* one nonce are serialized: at most one of them is ever performed.
THEOREM NonceCorrect == Spec => []NonceSerializesActions
<1>1. Init => NonceInv
  BY FS_EmptySet DEF Init, EscrowInit, NonceInv, Exists, NoEscrow, Done
<1>2. TypeOK /\ NonceInv /\ [Next]_vars => NonceInv'
  <2> SUFFICES ASSUME TypeOK, NonceInv, [Next]_vars
               PROVE  NonceInv'
    OBVIOUS
  <2>1. CASE Quiet
    BY <2>1 DEF Quiet, NonceInv, Exists, Done
  <2>2. ASSUME NEW e \in EscrowIds, Stores(e)
        PROVE  NonceInv'
    <3>1. performed' = performed /\ \A d : Done(d)' = Done(d)
      BY <2>2 DEF Stores, Done
    <3>2. Done(e) = {} /\ escrows'[e].action_nonce = 0 /\ Exists(e)'
      BY <2>2 DEF Stores, NonceInv, Exists
    <3>3. {a.action_nonce : a \in Done(e)} = 0..(0 - 1)
      BY <3>2
    <3>4. Cardinality(Done(e)) = 0
      BY <3>2, FS_EmptySet
    <3>5. \A d \in EscrowIds : d # e => escrows'[d] = escrows[d]
      BY <2>2 DEF Stores, SameBut
    <3>6. QED
      BY <3>1, <3>2, <3>3, <3>4, <3>5 DEF NonceInv, Exists
  <2>3. ASSUME NEW e \in EscrowIds, NEW a \in Performed, Acts(e, a)
        PROVE  NonceInv'
    <3> DEFINE n == escrows[e].action_nonce
    <3>1. n \in Nat /\ Exists(e)
      BY <2>3, ExistingRecord DEF Acts, EscrowRecord
    <3>2. ASSUME NEW d \in EscrowIds, d # e
          PROVE  Done(d)' = Done(d) /\ escrows'[d] = escrows[d]
      BY <2>3, <3>2 DEF Acts, SameBut, Done
    <3>3. /\ {b.action_nonce : b \in Done(e)} = 0..(n - 1)
          /\ Cardinality(Done(e)) = n
      BY <3>1 DEF NonceInv
    <3>4. Done(e)' = Done(e) \cup {a} /\ a.action_nonce = n
      BY <2>3 DEF Acts, Done
    <3>5. a \notin Done(e)
      <4>1. n \notin 0..(n - 1)
        BY <3>1
      <4>2. QED
        BY <3>3, <3>4, <4>1
    <3>6. IsFiniteSet(Done(e))
      BY FS_Subset DEF Done, NonceInv
    <3>7. Cardinality(Done(e) \cup {a}) = n + 1
      BY <3>3, <3>5, <3>6, FS_AddElement
    <3>8. {b.action_nonce : b \in Done(e) \cup {a}} = 0..n
      <4>1. {b.action_nonce : b \in Done(e) \cup {a}} = {b.action_nonce : b \in Done(e)} \cup {n}
        BY <3>4
      <4>2. 0..(n - 1) \cup {n} = 0..n
        BY <3>1
      <4>3. QED
        BY <3>3, <4>1, <4>2
    <3>9. escrows'[e].action_nonce = n + 1 /\ (n + 1) - 1 = n /\ Exists(e)'
      BY <2>3, <3>1 DEF Acts, EscrowRecord, Exists
    <3>10. IsFiniteSet(performed')
      BY <2>3, FS_AddElement DEF Acts, NonceInv
    <3>11. /\ {b.action_nonce : b \in Done(e)'} = 0..(escrows'[e].action_nonce - 1)
           /\ Cardinality(Done(e)') = escrows'[e].action_nonce
      BY <3>4, <3>7, <3>8, <3>9
    <3>12. QED
      BY <3>2, <3>9, <3>10, <3>11 DEF NonceInv, Exists
  <2>4. QED
    BY <2>1, <2>2, <2>3, StepKinds
<1>3. NonceInv => NonceSerializesActions
  BY DEF NonceInv, NonceSerializesActions, Done
<1>4. QED
  BY <1>1, <1>2, <1>3, TypeCorrect, PTL DEF Spec

-----------------------------------------------------------------------------
(* Decisions.                                                              *)

\* Proofs obey the circuit and consumed results the threshold of their policy,
\* which set_policy never changes once it is configured.
THEOREM ResultsCorrect == Spec => []ResultsFitPolicies
<1>1. Init => ResultsFitPolicies
  BY DEF Init, ComputeInit, ResultsFitPolicies
<1>2. TypeOK /\ ResultsFitPolicies /\ [Next]_vars => ResultsFitPolicies'
  <2> SUFFICES ASSUME TypeOK, ResultsFitPolicies, [Next]_vars
               PROVE  ResultsFitPolicies'
    OBVIOUS
  <2>1. \A s \in proven' : s.outcome = CircuitOutcome(s.evidence, s.required_score)
    BY VerifiersOnlyGrow DEF ResultsFitPolicies
  <2>2. ASSUME NEW r \in usedResults
        PROVE  /\ computePolicies'[r.policy_id] # NoComputePolicy
               /\ r.outcome = CircuitOutcome(r.evidence,
                                             computePolicies'[r.policy_id].required_score)
    <3>1. r.policy_id \in ComputePolicyIds
      BY DEF TypeOK, ComputeTypeOK, ZkResult
    <3>2. QED
      BY <3>1, VerifiersOnlyGrow DEF ResultsFitPolicies
  <2>3. ASSUME NEW s \in proven, NEW e,
               ConsumeResult(EscrowContract, e, DisputeInputCommitment(e), ResultOf(s, e))
        PROVE  ResultsFitPolicies'
    <3> DEFINE r == ResultOf(s, e)
    <3>1. ExpectedSignals(r) \in proven /\ computePolicies[r.policy_id] # NoComputePolicy
      BY <2>3 DEF ConsumeResult, ProofAccepted, ComputePolicyInForce
    <3>2. r.outcome = CircuitOutcome(r.evidence, computePolicies[r.policy_id].required_score)
      BY <3>1 DEF ResultsFitPolicies, ExpectedSignals
    <3>3. usedResults' = usedResults \cup {r} /\ computePolicies' = computePolicies
      BY <2>3 DEF ConsumeResult
    <3>4. QED
      BY <2>1, <2>2, <3>1, <3>2, <3>3 DEF ResultsFitPolicies
  <2>4. CASE UNCHANGED usedResults
    BY <2>1, <2>2, <2>4 DEF ResultsFitPolicies
  <2>5. QED
    BY <2>3, <2>4, StepKinds DEF Quiet, Stores, Acts, Changes
<1>3. QED
  BY <1>1, <1>2, TypeCorrect, PTL DEF Spec

\* A disputed escrow is decided by a consumed result on that very dispute, with
\* the outcome the policy's threshold gives, and by nothing else.
THEOREM DisputesCorrect == Spec => []DisputesDecidedByProof
<1> DEFINE HasDispute(e) == \E a \in performed : a.escrow_id = e /\ a.operation = "OPEN_DISPUTE"
           Fits(r, e) == /\ r.job_id = e
                         /\ r.input.buyer_commitment = escrows[e].buyer_commitment
                         /\ r.input.amount = escrows[e].amount
                         /\ WinnerRole(e) = r.outcome
                         /\ r.outcome = CircuitOutcome(r.evidence,
                                             computePolicies[r.policy_id].required_score)
<1>1. Init => DisputesDecidedByProof
  BY DEF Init, EscrowInit, DisputesDecidedByProof
<1>2. /\ TypeOK /\ HistoryFitsRecord /\ ResultsFitPolicies /\ ResultsFitPolicies'
      /\ DisputesDecidedByProof /\ [Next]_vars
      => DisputesDecidedByProof'
  <2> SUFFICES ASSUME TypeOK, HistoryFitsRecord, ResultsFitPolicies, ResultsFitPolicies',
                      DisputesDecidedByProof, [Next]_vars,
                      NEW e \in EscrowIds, Decided(e)', HasDispute(e)'
               PROVE  \E r \in usedResults' : Fits(r, e)'
    BY DEF DisputesDecidedByProof
  <2>1. usedResults \subseteq usedResults'
    BY StepKinds DEF Quiet, Stores, Acts, Changes, ConsumeResult
  <2>2. ASSUME Decided(e), HasDispute(e), SameTerms(e), WinnerRole(e)' = WinnerRole(e)
        PROVE  \E r \in usedResults' : Fits(r, e)'
    <3>1. PICK r \in usedResults : Fits(r, e)
      BY <2>2 DEF DisputesDecidedByProof
    <3>2. r.outcome = CircuitOutcome(r.evidence, computePolicies'[r.policy_id].required_score)
      BY <2>1, <3>1 DEF ResultsFitPolicies
    <3>3. Fits(r, e)'
      BY <2>2, <3>1, <3>2 DEF SameTerms
    <3>4. QED
      BY <2>1, <3>3
  <2>3. CASE Quiet
    BY <2>2, <2>3 DEF Quiet, Decided, WinnerRole, SameTerms
  <2>4. ASSUME NEW d \in EscrowIds, Stores(d)
        PROVE  \E r \in usedResults' : Fits(r, e)'
    <3>1. d # e
      BY <2>4 DEF Stores, Decided
    <3>2. QED
      BY <2>2, <2>4, <3>1 DEF Stores, SameBut, Decided, WinnerRole, SameTerms
  <2>5. ASSUME NEW d \in EscrowIds, NEW a \in Performed, Acts(d, a), d # e
        PROVE  \E r \in usedResults' : Fits(r, e)'
    BY <2>2, <2>5 DEF Acts, SameBut, Decided, WinnerRole, SameTerms
  <2>6. ASSUME NEW a \in Performed, Acts(e, a)
        PROVE  \E r \in usedResults' : Fits(r, e)'
    <3>1. HasDispute(e) \/ a.operation = "OPEN_DISPUTE"
      BY <2>6 DEF Acts
    <3>2. a.operation # "OPEN_DISPUTE"
      BY <2>6 DEF Acts, Changes, Moves, Decided
    <3>3. Disputed(e) \/ Decided(e)
      BY <3>1, <3>2 DEF HistoryFitsRecord
    <3>4. CASE a.operation = "CLAIM"
      BY <2>2, <2>6, <3>1, <3>2, <3>4 DEF Acts, Changes, Pays, Decided, WinnerRole
    <3>5. CASE a.operation = "RESOLVE_DISPUTE"
      <4>1. PICK s \in proven :
              /\ ConsumeResult(EscrowContract, e, DisputeInputCommitment(e), ResultOf(s, e))
              /\ Moves(e, {"DISPUTED"},
                       {IF s.outcome = "SELLER" THEN "SELLER_WINS" ELSE "BUYER_WINS"})
        BY <2>6, <3>5 DEF Acts, Changes
      <4> DEFINE r == ResultOf(s, e)
      <4>2. r \in usedResults' /\ r.input = DisputeInputCommitment(e) /\ r.job_id = e
        BY <4>1 DEF ConsumeResult, ResultOf
      <4>3. s.outcome \in {"BUYER", "SELLER"}
        BY DEF TypeOK, ComputeTypeOK, Signals, ComputeOutcome
      <4>4. WinnerRole(e)' = r.outcome
        BY <4>1, <4>3 DEF Moves, WinnerRole, ResultOf
      <4>5. /\ r.input.buyer_commitment = escrows'[e].buyer_commitment
            /\ r.input.amount = escrows'[e].amount
        BY <2>6, <4>2 DEF Acts, SameTerms, DisputeInputCommitment
      <4>6. r.outcome = CircuitOutcome(r.evidence, computePolicies'[r.policy_id].required_score)
        BY <4>2 DEF ResultsFitPolicies
      <4>7. Fits(r, e)'
        BY <4>2, <4>4, <4>5, <4>6
      <4>8. QED
        BY <4>2, <4>7
    <3>6. CASE a.operation \notin {"CLAIM", "RESOLVE_DISPUTE"}
      BY <2>6, <3>2, <3>3, <3>6 DEF Acts, Changes, Moves, Disputed, Decided
    <3>7. QED
      BY <3>4, <3>5, <3>6
  <2>7. QED
    BY <2>3, <2>4, <2>5, <2>6, StepKinds
<1>3. QED
  BY <1>1, <1>2, TypeCorrect, HistoryCorrect, ResultsCorrect, PTL DEF Spec

\* No step takes a decision back, changes the terms of a stored escrow, or ends
\* a dispute without consuming a result for it.
THEOREM DecisionsFinal == Spec => DecisionsAreFinal
<1> DEFINE Final(e) ==
        /\ Decided(e) => escrows'[e].status = escrows[e].status
        /\ \A f \in {"buyer_commitment", "seller_commitment", "token", "amount", "deadline"} :
              escrows'[e][f] = escrows[e][f]
        /\ (Disputed(e) /\ escrows'[e].status # "DISPUTED") =>
              \E r \in usedResults' \ usedResults : r.job_id = e
<1>1. TypeOK /\ [Next]_vars => [\A e \in EscrowIds : Exists(e) => Final(e)]_vars
  <2> SUFFICES ASSUME TypeOK, [Next]_vars, NEW e \in EscrowIds, Exists(e)
               PROVE  Final(e)
    OBVIOUS
  <2>1. CASE escrows'[e] = escrows[e]
    BY <2>1 DEF Disputed
  <2>2. ASSUME NEW a \in Performed, Acts(e, a)
        PROVE  Final(e)
    <3>1. \A f \in {"buyer_commitment", "seller_commitment", "token", "amount", "deadline"} :
              escrows'[e][f] = escrows[e][f]
      BY <2>2 DEF Acts, SameTerms
    <3>2. Decided(e) => escrows'[e].status = escrows[e].status
      BY <2>2 DEF Acts, Changes, Moves, Pays, Decided
    <3>3. ASSUME Disputed(e), escrows'[e].status # "DISPUTED"
          PROVE  \E r \in usedResults' \ usedResults : r.job_id = e
      <4>1. PICK s \in proven :
              ConsumeResult(EscrowContract, e, DisputeInputCommitment(e), ResultOf(s, e))
        BY <2>2, <3>3 DEF Acts, Changes, Moves, Pays, Disputed
      <4>2. /\ ResultOf(s, e) \in usedResults' \ usedResults
            /\ ResultOf(s, e).job_id = e
        BY <4>1 DEF ConsumeResult, ResultOf
      <4>3. QED
        BY <4>2
    <3>4. QED
      BY <3>1, <3>2, <3>3
  <2>3. QED
    BY <2>1, <2>2, StepKinds DEF Quiet, Stores, Acts, SameBut
<1>2. QED
  BY <1>1, TypeCorrect, PTL DEF Spec, DecisionsAreFinal

-----------------------------------------------------------------------------
(* The money: the accounted balance is what is owed, and the contract can  *)
(* pay it.                                                                 *)

\* An amount is as many units.
LEMMA UnitsCount ==
    ASSUME NEW e, NEW n \in Nat
    PROVE  /\ IsFiniteSet({e} \X (1..n))
           /\ Cardinality({e} \X (1..n)) = n
<1>1. IsFiniteSet(1..n) /\ Cardinality(1..n) = n
  BY FS_Interval
<1>2. IsFiniteSet({e}) /\ Cardinality({e}) = 1
  BY FS_Singleton
<1>3. /\ IsFiniteSet({e} \X (1..n))
      /\ Cardinality({e} \X (1..n)) = Cardinality({e}) * Cardinality(1..n)
  BY <1>1, <1>2, FS_Product
<1>4. QED
  BY <1>1, <1>2, <1>3

\* Adding the units of one escrow to a finite set that has none of them.
LEMMA UnitsAdded ==
    ASSUME NEW S, IsFiniteSet(S), NEW e, NEW n \in Nat, S \cap ({e} \X (1..n)) = {}
    PROVE  /\ IsFiniteSet(S \cup ({e} \X (1..n)))
           /\ Cardinality(S \cup ({e} \X (1..n))) = Cardinality(S) + n
<1> DEFINE U == {e} \X (1..n)
<1>1. IsFiniteSet(U) /\ Cardinality(U) = n
  BY UnitsCount
<1>2. Cardinality(S) \in Nat /\ Cardinality(S \cap U) = 0
  BY FS_CardinalityType, FS_EmptySet
<1> HIDE DEF U
<1>3. /\ IsFiniteSet(S \cup U)
      /\ Cardinality(S \cup U) = Cardinality(S) + Cardinality(U) - Cardinality(S \cap U)
  BY <1>1, FS_Union
<1>4. IsFiniteSet(S \cup U) /\ Cardinality(S \cup U) = Cardinality(S) + n
  BY <1>1, <1>2, <1>3
<1>5. QED
  BY <1>4 DEF U

\* Taking the units of one escrow from a finite set that has all of them.
LEMMA UnitsRemoved ==
    ASSUME NEW S, IsFiniteSet(S), NEW e, NEW n \in Nat, ({e} \X (1..n)) \subseteq S
    PROVE  /\ IsFiniteSet(S \ ({e} \X (1..n)))
           /\ Cardinality(S \ ({e} \X (1..n))) = Cardinality(S) - n
<1> DEFINE U == {e} \X (1..n)
<1>1. Cardinality(U) = n /\ S \cap U = U
  BY UnitsCount
<1> HIDE DEF U
<1>2. IsFiniteSet(S \ U) /\ Cardinality(S \ U) = Cardinality(S) - Cardinality(S \cap U)
  BY FS_Difference
<1>3. IsFiniteSet(S \ U) /\ Cardinality(S \ U) = Cardinality(S) - n
  BY <1>1, <1>2
<1>4. QED
  BY <1>3 DEF U

\* AccountedIsOwed with the finiteness its induction needs.
AccountedInv ==
    \A t \in Tokens : IsFiniteSet(OwedUnits(t)) /\ accounted[t] = Cardinality(OwedUnits(t))

\* AccountedInv, by induction: what deposit and claim do to both sides.
THEOREM AccountedInvCorrect == Spec => []AccountedInv
<1>1. Init => AccountedInv
  <2>1. ASSUME Init, NEW t \in Tokens
        PROVE  OwedUnits(t) = {}
    BY <2>1 DEF Init, EscrowInit, OwedUnits, Owed, Exists, NoEscrow
  <2>2. QED
    BY <2>1, FS_EmptySet DEF Init, EscrowInit, AccountedInv
<1>2. TypeOK /\ FlagsFollowDecision /\ AccountedInv /\ [Next]_vars => AccountedInv'
  <2> SUFFICES ASSUME TypeOK, FlagsFollowDecision, AccountedInv, [Next]_vars
               PROVE  AccountedInv'
    OBVIOUS
  <2>1. CASE Quiet
    <3>1. \A t : OwedUnits(t)' = OwedUnits(t)
      BY <2>1 DEF Quiet, OwedUnits, Owed, Exists
    <3>2. QED
      BY <2>1, <3>1 DEF Quiet, AccountedInv
  <2>2. ASSUME NEW e \in EscrowIds, Stores(e)
        PROVE  AccountedInv'
    <3>1. PICK t \in Tokens, n \in Nat : t = escrows'[e].token /\ n = escrows'[e].amount
      BY <2>2 DEF Stores, EscrowRecord
    <3> DEFINE units == {e} \X (1..n)
    <3>2. Owed(e)' /\ ~Owed(e)
      BY <2>2 DEF Stores, Owed, Exists
    <3>3. ASSUME NEW d \in EscrowIds, d # e
          PROVE  escrows'[d] = escrows[d] /\ (Owed(d)' <=> Owed(d))
      BY <2>2, <3>3 DEF Stores, SameBut, Owed, Exists
    <3>4. accounted' = [accounted EXCEPT ![t] = @ + n]
      BY <2>2, <3>1 DEF Stores
    <3>5. ASSUME NEW u \in Tokens, u # t
          PROVE  OwedUnits(u)' = OwedUnits(u) /\ accounted'[u] = accounted[u]
      <4>1. OwedUnits(u)' = OwedUnits(u)
        BY <3>1, <3>2, <3>3, <3>5 DEF OwedUnits
      <4>2. QED
        BY <3>4, <3>5, <4>1 DEF TypeOK
    <3>6. OwedUnits(t)' = OwedUnits(t) \cup units
      <4>1. ASSUME NEW x \in OwedUnits(t)'
            PROVE  x \in OwedUnits(t) \cup units
        <5>1. PICK d \in EscrowIds : /\ Owed(d)' /\ escrows'[d].token = t
                                     /\ x \in {d} \X (1..escrows'[d].amount)
          BY <4>1 DEF OwedUnits
        <5>2. QED
          BY <3>1, <3>3, <5>1 DEF OwedUnits
      <4>2. ASSUME NEW x \in OwedUnits(t)
            PROVE  x \in OwedUnits(t)'
        BY <3>2, <3>3, <4>2 DEF OwedUnits
      <4>3. units \subseteq OwedUnits(t)'
        BY <3>1, <3>2 DEF OwedUnits
      <4>4. QED
        BY <4>1, <4>2, <4>3
    <3>7. OwedUnits(t) \cap units = {}
      BY <3>2 DEF OwedUnits
    <3>8. IsFiniteSet(OwedUnits(t)) /\ accounted[t] = Cardinality(OwedUnits(t))
      BY DEF AccountedInv
    <3>9. accounted'[t] = accounted[t] + n
      BY <3>4 DEF TypeOK
    <3>10. IsFiniteSet(OwedUnits(t)') /\ accounted'[t] = Cardinality(OwedUnits(t)')
      <4>1. /\ IsFiniteSet(OwedUnits(t) \cup units)
            /\ Cardinality(OwedUnits(t) \cup units) = Cardinality(OwedUnits(t)) + n
        BY <3>7, <3>8, UnitsAdded, Zenon
      <4>2. QED
        BY <3>6, <3>8, <3>9, <4>1
    <3>11. \A u \in Tokens : IsFiniteSet(OwedUnits(u)') /\ accounted'[u] = Cardinality(OwedUnits(u)')
      BY <3>5, <3>10 DEF AccountedInv
    <3>12. QED
      BY <3>11 DEF AccountedInv
  <2>3. ASSUME NEW e \in EscrowIds, NEW a \in Performed, Acts(e, a)
        PROVE  AccountedInv'
    <3>1. ASSUME NEW d \in EscrowIds, d # e
          PROVE  escrows'[d] = escrows[d] /\ (Owed(d)' <=> Owed(d))
      BY <2>3, <3>1 DEF Acts, SameBut, Owed, Exists
    <3>2. CASE a.operation # "CLAIM"
      <4>1. accounted' = accounted /\ (Owed(e)' <=> Owed(e))
        BY <2>3, <3>2 DEF Acts, Changes, Moves, Owed, Exists, EscrowRecord
      <4>2. \A t : OwedUnits(t)' = OwedUnits(t)
        BY <2>3, <3>1, <4>1 DEF Acts, SameTerms, OwedUnits
      <4>3. QED
        BY <4>1, <4>2 DEF AccountedInv
    <3>3. CASE a.operation = "CLAIM"
      <4>1. Pays(e, a.role) /\ Exists(e) /\ escrows[e] \in EscrowRecord
        BY <2>3, <3>3, ExistingRecord DEF Acts, Changes
      <4>2. PICK t \in Tokens, n \in Nat : t = escrows[e].token /\ n = escrows[e].amount
        BY <4>1 DEF EscrowRecord
      <4> DEFINE units == {e} \X (1..n)
      <4>3. Owed(e)
        BY <4>1 DEF Pays, FlagsFollowDecision, Owed, AlreadyClaimed, WinnerRole, Decided
      <4>4. ~Owed(e)'
        BY <4>1 DEF Pays, Owed, WinnerRole
      <4>5. accounted' = [accounted EXCEPT ![t] = @ - n]
        BY <4>1, <4>2 DEF Pays
      <4>6. ASSUME NEW u \in Tokens, u # t
            PROVE  OwedUnits(u)' = OwedUnits(u) /\ accounted'[u] = accounted[u]
        <5>1. OwedUnits(u)' = OwedUnits(u)
          BY <3>1, <4>2, <4>4, <4>6 DEF OwedUnits
        <5>2. QED
          BY <4>5, <4>6, <5>1 DEF TypeOK
      <4>7. OwedUnits(t)' = OwedUnits(t) \ units
        <5>1. ASSUME NEW x \in OwedUnits(t)'
              PROVE  x \in OwedUnits(t) \ units
          BY <3>1, <4>4, <5>1 DEF OwedUnits
        <5>2. ASSUME NEW x \in OwedUnits(t) \ units
              PROVE  x \in OwedUnits(t)'
          <6>1. PICK d \in EscrowIds : /\ Owed(d) /\ escrows[d].token = t
                                       /\ x \in {d} \X (1..escrows[d].amount)
            BY <5>2 DEF OwedUnits
          <6>2. d # e
            BY <4>2, <5>2, <6>1
          <6>3. QED
            BY <3>1, <6>1, <6>2 DEF OwedUnits
        <5>3. QED
          BY <5>1, <5>2
      <4>8. units \subseteq OwedUnits(t)
        BY <4>2, <4>3 DEF OwedUnits
      <4>9. IsFiniteSet(OwedUnits(t)) /\ accounted[t] = Cardinality(OwedUnits(t))
        BY DEF AccountedInv
      <4>10. accounted'[t] = accounted[t] - n
        BY <4>5 DEF TypeOK
      <4>11. IsFiniteSet(OwedUnits(t)') /\ accounted'[t] = Cardinality(OwedUnits(t)')
        <5>1. /\ IsFiniteSet(OwedUnits(t) \ units)
              /\ Cardinality(OwedUnits(t) \ units) = Cardinality(OwedUnits(t)) - n
          BY <4>8, <4>9, UnitsRemoved, Zenon
        <5>2. QED
          BY <4>7, <4>9, <4>10, <5>1
      <4>12. \A u \in Tokens : IsFiniteSet(OwedUnits(u)') /\ accounted'[u] = Cardinality(OwedUnits(u)')
        BY <4>6, <4>11 DEF AccountedInv
      <4>13. QED
        BY <4>12 DEF AccountedInv
    <3>4. QED
      BY <3>2, <3>3
  <2>4. QED
    BY <2>1, <2>2, <2>3, StepKinds
<1>3. QED
  BY <1>1, <1>2, TypeCorrect, FlagsCorrect, PTL DEF Spec

\* The accounted balance of a token is at all times what its unclaimed escrows
\* add up to: deposit adds one escrow's units, claim takes them away, and no
\* other operation touches either side.
THEOREM AccountedCorrect == Spec => []AccountedIsOwed
<1>1. AccountedInv => AccountedIsOwed
  BY DEF AccountedInv, AccountedIsOwed
<1>2. QED
  BY <1>1, AccountedInvCorrect, PTL

-----------------------------------------------------------------------------
(* Solvency.                                                               *)

\* The balance never falls below what is accounted: a deposit is accepted only
\* when the balance covers it on top of the rest, and a claim lowers both.
LEMMA AccountedCovered == Spec => [](\A t \in Tokens : accounted[t] <= balance[t])
<1> DEFINE Covered == \A t \in Tokens : accounted[t] <= balance[t]
<1>1. Init => Covered
  BY DEF Init, EscrowInit
<1>2. TypeOK /\ Covered /\ [Next]_vars => Covered'
  <2> SUFFICES ASSUME TypeOK, Covered, [Next]_vars
               PROVE  Covered'
    OBVIOUS
  <2>1. CASE Quiet
    <3>1. \A t \in Tokens : balance[t] <= balance'[t]
      BY <2>1 DEF Quiet
    <3>2. \A t \in Tokens : accounted[t] \in Nat /\ balance[t] \in Nat /\ balance'[t] \in Nat
      BY NextType DEF TypeOK
    <3>3. QED
      BY <2>1, <3>1, <3>2 DEF Quiet
  <2>2. ASSUME NEW e \in EscrowIds, Stores(e)
        PROVE  Covered'
    <3>1. \A t \in Tokens : t # escrows'[e].token => accounted'[t] = accounted[t]
      BY <2>2 DEF Stores, TypeOK
    <3>2. \A t \in Tokens : accounted[t] \in Nat /\ balance[t] \in Nat /\ balance'[t] \in Nat
      BY NextType DEF TypeOK
    <3>3. QED
      BY <2>2, <3>1, <3>2 DEF Stores
  <2>3. ASSUME NEW e \in EscrowIds, NEW a \in Performed, Acts(e, a)
        PROVE  Covered'
    <3>1. PICK n \in Nat : n = escrows[e].amount
      BY <2>3, ExistingRecord DEF Acts, EscrowRecord
    <3>2. CASE a.operation = "CLAIM"
      BY <2>3, <3>1, <3>2 DEF Acts, Changes, Pays, TypeOK
    <3>3. CASE a.operation # "CLAIM"
      BY <2>3, <3>3 DEF Acts, Changes, Moves
    <3>4. QED
      BY <3>2, <3>3
  <2>4. QED
    BY <2>1, <2>2, <2>3, StepKinds
<1>3. QED
  BY <1>1, <1>2, TypeCorrect, PTL DEF Spec

\* The contract can always pay what it owes: whatever a winner is owed is still
\* accounted, and everything accounted is in the balance.
THEOREM SolventAlways == Spec => []Solvent
<1>1. Spec => []AccountedInv
  BY AccountedInvCorrect
<1>2. TypeOK /\ AccountedInv => \A e \in EscrowIds :
          Owed(e) => escrows[e].amount <= accounted[escrows[e].token]
  <2> SUFFICES ASSUME TypeOK, AccountedInv, NEW e \in EscrowIds, Owed(e)
               PROVE  escrows[e].amount <= accounted[escrows[e].token]
    OBVIOUS
  <2>1. PICK t \in Tokens, n \in Nat : t = escrows[e].token /\ n = escrows[e].amount
    BY ExistingRecord DEF Owed, EscrowRecord
  <2> DEFINE units == {e} \X (1..n)
  <2>2. units \subseteq OwedUnits(t)
    BY <2>1 DEF OwedUnits
  <2>3. IsFiniteSet(OwedUnits(t)) /\ accounted[t] = Cardinality(OwedUnits(t))
    BY DEF AccountedInv
  <2>4. Cardinality(units) <= Cardinality(OwedUnits(t))
    BY <2>2, <2>3, FS_Subset, Zenon
  <2>5. Cardinality(units) = n
    BY UnitsCount, Zenon
  <2>6. QED
    BY <2>1, <2>3, <2>4, <2>5
<1>3. QED
  BY <1>1, <1>2, TypeCorrect, AccountedCovered, PTL DEF Solvent

-----------------------------------------------------------------------------
(* Refinement.                                                             *)

\* The contract implements the ledger: a deposit is Fund, the three ways to a
\* decision are Award, a claim is Pay, and everything else changes nothing that
\* the ledger shows.
THEOREM LedgerImplemented == Spec => ImplementsLedger
<1> DEFINE Entries == [e \in EscrowIds |-> LedgerEntry(e)]
<1>1. Init => Ledger!Init
  BY DEF Init, EscrowInit, Ledger!Init, Ledger!NoEntry, LedgerEntry, Exists, NoEscrow
<1>2. TypeOK /\ FlagsFollowDecision /\ [Next]_vars => [Ledger!Next]_<<Entries, accounted>>
  <2> SUFFICES ASSUME TypeOK, FlagsFollowDecision, [Next]_vars
               PROVE  Ledger!Next \/ UNCHANGED <<Entries, accounted>>
    OBVIOUS
  <2>0. ASSUME NEW d \in EscrowIds, escrows'[d] = escrows[d]
        PROVE  LedgerEntry(d)' = LedgerEntry(d)
    BY <2>0 DEF LedgerEntry, Exists, Stage, PayTo, Owed, Decided, WinnerRole, RoleCommitment
  <2>1. CASE Quiet
    BY <2>0, <2>1 DEF Quiet
  <2>2. ASSUME NEW e \in EscrowIds, Stores(e)
        PROVE  Ledger!Next
    <3>1. PICK buyer \in Commitments, seller \in Commitments, t \in Tokens, n \in Amounts :
            /\ buyer = escrows'[e].buyer_commitment /\ seller = escrows'[e].seller_commitment
            /\ t = escrows'[e].token /\ n = escrows'[e].amount
      BY <2>2 DEF Stores, EscrowRecord
    <3>2. LedgerEntry(e)' = Ledger!Entry(buyer, seller, t, n, "held", NoPayload)
      BY <2>2, <3>1 DEF Stores, LedgerEntry, Ledger!Entry, Exists, Stage, PayTo, Owed, Decided
    <3>3. Entries[e] = Ledger!NoEntry
      BY <2>2 DEF Stores, LedgerEntry, Ledger!NoEntry
    <3>4. Entries' = [Entries EXCEPT ![e] = Ledger!Entry(buyer, seller, t, n, "held", NoPayload)]
      BY <2>0, <2>2, <3>2 DEF Stores, SameBut
    <3>5. accounted' = [accounted EXCEPT ![t] = @ + n]
      BY <2>2, <3>1 DEF Stores
    <3>6. Ledger!Fund(e, buyer, seller, t, n)
      BY <3>3, <3>4, <3>5 DEF Ledger!Fund
    <3>7. QED
      BY <3>6 DEF Ledger!Next
  <2>3. ASSUME NEW e \in EscrowIds, NEW a \in Performed, Acts(e, a)
        PROVE  Ledger!Next \/ UNCHANGED <<Entries, accounted>>
    <3>1. escrows[e] \in EscrowRecord /\ Exists(e) /\ Exists(e)'
      BY <2>3, ExistingRecord DEF Acts, Exists, EscrowRecord
    <3>2. \A d \in EscrowIds : d # e => LedgerEntry(d)' = LedgerEntry(d)
      BY <2>0, <2>3 DEF Acts, SameBut
    <3>3. CASE a.operation = "CLAIM"
      <4>1. Pays(e, a.role)
        BY <2>3, <3>3 DEF Acts, Changes
      <4>2. /\ Owed(e) /\ Decided(e) /\ ~Owed(e)'
        BY <3>1, <4>1 DEF Pays, FlagsFollowDecision, Owed, AlreadyClaimed, WinnerRole, Decided
      <4>3. Stage(e) = "due" /\ Stage(e)' = "paid"
        BY <4>2 DEF Stage
      <4>4. PayTo(e)' = PayTo(e)
        BY <2>3, <4>1, <4>2 DEF Acts, SameTerms, Pays, PayTo, RoleCommitment, WinnerRole, Owed
      <4>5. LedgerEntry(e)' = [LedgerEntry(e) EXCEPT !.stage = "paid"]
        BY <2>3, <3>1, <4>3, <4>4 DEF Acts, SameTerms, LedgerEntry
      <4>6. /\ Entries[e].stage = "due" /\ Entries[e].token = escrows[e].token
            /\ Entries[e].amount = escrows[e].amount
        BY <3>1, <4>3 DEF LedgerEntry
      <4>7. Entries' = [Entries EXCEPT ![e] = [Entries[e] EXCEPT !.stage = "paid"]]
        BY <3>2, <4>5
      <4>8. accounted[escrows[e].token] >= escrows[e].amount
        BY <4>1 DEF Pays
      <4>9. Ledger!Pay(e)
        BY <4>1, <4>6, <4>7, <4>8 DEF Pays, Ledger!Pay
      <4>10. QED
        BY <4>9 DEF Ledger!Next
    <3>4. CASE a.operation # "CLAIM"
      <4>1. accounted' = accounted /\ (Owed(e)' <=> Owed(e))
        BY <2>3, <3>1, <3>4 DEF Acts, Changes, Moves, Owed
      <4>2. Owed(e) /\ ~Decided(e)
        BY <2>3, <3>1, <3>4 DEF Acts, Changes, Moves, FlagsFollowDecision, Owed, Decided
      <4>3. CASE ~Decided(e)'
        <5>1. Stage(e)' = Stage(e)
          BY <4>1, <4>2, <4>3 DEF Stage
        <5>2. PayTo(e) = NoPayload /\ PayTo(e)' = NoPayload
          BY <4>1, <4>2, <4>3 DEF PayTo, Owed
        <5>3. LedgerEntry(e)' = LedgerEntry(e)
          BY <2>3, <3>1, <5>1, <5>2 DEF Acts, SameTerms, LedgerEntry
        <5>4. QED
          BY <3>2, <4>1, <5>3
      <4>4. CASE Decided(e)'
        <5>1. PICK to \in Commitments : to = RoleCommitment(e, WinnerRole(e))'
          BY <2>3 DEF Acts, EscrowRecord, RoleCommitment
        <5>2. to \in {Entries[e].payer, Entries[e].payee}
          BY <2>3, <3>1, <5>1 DEF Acts, SameTerms, RoleCommitment, LedgerEntry
        <5>3. Stage(e) = "held" /\ Stage(e)' = "due" /\ PayTo(e)' = to
          BY <4>1, <4>2, <4>4, <5>1 DEF Stage, PayTo, Owed
        <5> DEFINE due == Ledger!Entry(escrows[e].buyer_commitment, escrows[e].seller_commitment,
                                       escrows[e].token, escrows[e].amount, "due", to)
        <5>4. LedgerEntry(e)' = due
          BY <2>3, <3>1, <5>3 DEF Acts, SameTerms, LedgerEntry, Ledger!Entry
        <5>5. Entries[e].stage = "held"
          BY <3>1, <5>3 DEF LedgerEntry
        <5>6. /\ Entries[e].payer = escrows[e].buyer_commitment
              /\ Entries[e].payee = escrows[e].seller_commitment
              /\ Entries[e].token = escrows[e].token /\ Entries[e].amount = escrows[e].amount
              /\ Entries' = [Entries EXCEPT ![e] = due]
          BY <3>1, <3>2, <5>4 DEF LedgerEntry
        <5>7. Ledger!Award(e, to)
          BY <4>1, <5>2, <5>5, <5>6 DEF Ledger!Award
        <5>8. QED
          BY <5>7 DEF Ledger!Next
      <4>5. QED
        BY <4>3, <4>4
    <3>5. QED
      BY <3>3, <3>4
  <2>4. QED
    BY <2>1, <2>2, <2>3, StepKinds
<1>3. QED
  BY <1>1, <1>2, TypeCorrect, FlagsCorrect, PTL DEF Spec, ImplementsLedger, Ledger!Spec
=============================================================================
