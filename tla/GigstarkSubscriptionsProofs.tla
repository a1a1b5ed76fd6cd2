-------------------- MODULE GigstarkSubscriptionsProofs --------------------
(***************************************************************************)
(* Proofs about GigstarkSubscriptions, for every value of its constants.   *)
(***************************************************************************)
EXTENDS GigstarkSubscriptions, GigstarkPassportProofs, FiniteSetTheorems, TLAPS

(* The records the contract builds.                                        *)

\* A stored subscription is a full record, never the zero record.
LEMMA ExistingRecord ==
    ASSUME TypeOK, NEW s \in SubscriptionIds, Exists(s)
    PROVE  subscriptions[s] \in SubscriptionRecord
  BY DEF TypeOK, Exists, NoSubscription

\* An active subscription is stored.
LEMMA ActiveRecord ==
    ASSUME TypeOK, NEW s \in SubscriptionIds, Active(s)
    PROVE  Exists(s) /\ subscriptions[s] \in SubscriptionRecord
  BY ExistingRecord DEF Active, Exists

\* Periods times an amount or a duration are a natural number.
LEMMA ProductType ==
    ASSUME NEW m \in Nat, NEW n \in Nat
    PROVE  m * n \in Nat
  OBVIOUS

\* Moving the end and the paid periods of a record gives a record.
LEMMA ExtendedRecord ==
    ASSUME NEW record \in SubscriptionRecord, NEW m \in Nat, NEW n \in Nat
    PROVE  [record EXCEPT !.prepaid_periods = m, !.period_ends_at = n] \in SubscriptionRecord
<1>1. PICK first \in SubscriptionRecord : first = [record EXCEPT !.prepaid_periods = m]
  BY DEF SubscriptionRecord
<1>2. [first EXCEPT !.period_ends_at = n] \in SubscriptionRecord
  BY DEF SubscriptionRecord
<1>3. QED
  BY <1>1, <1>2

\* Writing a record back, with its nonce added, touches one subscription and
\* keeps the map well typed.
LEMMA WriteType ==
    ASSUME TypeOK, NEW s \in SubscriptionIds, NEW record \in SubscriptionRecord,
           Write(s, record)
    PROVE  /\ subscriptions' \in [SubscriptionIds -> SubscriptionRecord \cup {NoSubscription}]
           /\ subscriptions'[s] = [record EXCEPT !.action_nonce = @ + 1]
           /\ subscriptions'[s] \in SubscriptionRecord
           /\ \A d \in SubscriptionIds : d # s => subscriptions'[d] = subscriptions[d]
<1>1. [record EXCEPT !.action_nonce = @ + 1] \in SubscriptionRecord
  BY DEF SubscriptionRecord
<1>2. QED
  BY <1>1 DEF Write, TypeOK

\* The history stays well typed.
LEMMA LogType ==
    ASSUME TypeOK, NEW s \in SubscriptionIds, Exists(s), NEW role \in Role \cup {"ANYONE"},
           NEW operation \in Operation \cup {"EXPIRE"},
           NEW payload \in Payloads, NEW proof \in Proof \cup {NoProof},
           Log(s, role, operation, payload, proof)
    PROVE  (performed \subseteq Performed)'
  BY ExistingRecord DEF Log, TypeOK, Performed, SubscriptionRecord

\* assert_received keeps both balances well typed, and accepts only what the
\* balance covers on top of everything accounted before.
LEMMA ReceivedType ==
    ASSUME TypeOK, NEW t \in Tokens, NEW amount \in Nat, NEW sent \in Nat,
           AssertReceived(t, amount, sent)
    PROVE  /\ accounted' \in [Tokens -> Nat] /\ balance' \in [Tokens -> Nat]
           /\ accounted' = [accounted EXCEPT ![t] = @ + amount]
           /\ accounted'[t] <= balance'[t]
           /\ \A u \in Tokens : balance[u] <= balance'[u]
  BY DEF AssertReceived, TypeOK

-----------------------------------------------------------------------------
(* Type correctness.                                                       *)

\* The constructor leaves well-typed storage.
LEMMA InitType == Init => TypeOK
  BY DEF Init, ClockInit, PassportInit, SubscriptionInit, TypeOK, PassportTypeOK

\* Every operation keeps every variable well typed.
LEMMA NextType == TypeOK /\ [Next]_vars => TypeOK'
<1> SUFFICES ASSUME TypeOK, [Next]_vars
             PROVE  TypeOK'
  OBVIOUS
<1>1. CASE UNCHANGED vars
  BY <1>1 DEF vars, passportVars, subscriptionVars, moneyVars, TypeOK, PassportTypeOK
<1>2. CASE ClockStep
  BY <1>2 DEF ClockStep, Tick, passportVars, subscriptionVars, moneyVars, TypeOK, PassportTypeOK
<1>3. CASE AdminStep
  BY <1>3, SetPolicyType DEF AdminStep, subscriptionVars, moneyVars, TypeOK
<1>4. ASSUME NEW s \in SubscriptionIds, NEW role \in Role, NEW operation \in Operation,
             NEW p \in PolicyIds, NEW nullifier \in Nullifiers, NEW life \in Lifetimes,
             NEW payload \in PayloadsFor(operation),
             PrepareReceipt(s, role, operation, payload, p, nullifier, life)
      PROVE  TypeOK'
  <2>1. payload \in Payloads
    BY DEF PayloadsFor, Operation, Payloads, MaxPrepaidPeriods
  <2>2. subscriptions[s] \in SubscriptionRecord
    BY <1>4, ExistingRecord DEF PrepareReceipt
  <2>3. ActionStatement(s, operation, payload) \in Statement
    BY <2>1, <2>2 DEF ActionStatement, Statement, SubscriptionRecord
  <2>4. RoleCommitment(s, role) \in Commitments
    BY <2>2 DEF RoleCommitment, SubscriptionRecord
  <2>5. PassportTypeOK(Statement)'
    BY <1>4, <2>3, <2>4, SignReceiptType DEF PrepareReceipt, TypeOK
  <2>6. QED
    BY <1>4, <2>5 DEF PrepareReceipt, subscriptionVars, moneyVars, TypeOK
<1>5. ASSUME NEW s \in SubscriptionIds, NEW member \in Commitments, NEW creator \in Commitments,
             NEW t \in Tokens, NEW amount \in Amounts, NEW ends \in 1..MaxTime,
             NEW sent \in {0, amount},
             Start(s, member, creator, t, amount, ends, sent)
      PROVE  TypeOK'
  <2>1. /\ amount \in Nat \ {0} /\ ends \in Nat /\ sent \in Nat
        /\ now \in Nat /\ ends - now \in Nat \ {0}
    BY <1>5, SubscriptionAssumption, MaxTimeAssumption DEF Start, TypeOK
  <2>2. subscriptions' \in [SubscriptionIds -> SubscriptionRecord \cup {NoSubscription}]
    BY <1>5, <2>1 DEF Start, SubscriptionRecord, Status, TypeOK
  <2>3. accounted' \in [Tokens -> Nat] /\ balance' \in [Tokens -> Nat]
    BY <1>5, <2>1, ReceivedType DEF Start
  <2>4. QED
    BY <1>5, <2>2, <2>3 DEF Start, passportVars, TypeOK, PassportTypeOK
<1>6. ASSUME NEW s \in SubscriptionIds, NEW r \in receipts, NEW periods \in 0..MaxPrepaidPeriods,
             Exists(s), NEW sent \in {0, subscriptions[s].amount_per_period * periods},
             Prepay(s, periods, r.proof, sent)
      PROVE  TypeOK'
  <2>1. subscriptions[s] \in SubscriptionRecord /\ r.proof \in Proof /\ periods \in Nat
    BY <1>6, ExistingRecord DEF TypeOK, PassportTypeOK, Receipt
  <2>2. /\ subscriptions[s].amount_per_period * periods \in Nat
        /\ subscriptions[s].period_seconds * periods \in Nat
    BY <2>1, ProductType DEF SubscriptionRecord
  <2>3. Extended(s, periods) \in SubscriptionRecord
    <3>1. PICK extension \in Nat : extension = subscriptions[s].period_seconds * periods
      BY <2>2
    <3>2. [subscriptions[s] EXCEPT !.prepaid_periods = @ + periods,
                                   !.period_ends_at = @ + extension] \in SubscriptionRecord
      <4>1. /\ subscriptions[s].prepaid_periods + periods \in Nat
            /\ subscriptions[s].period_ends_at + extension \in Nat
        BY <2>1 DEF SubscriptionRecord
      <4>2. QED
        BY <2>1, <4>1, ExtendedRecord
    <3>3. QED
      BY <3>1, <3>2 DEF Extended
  <2>4. subscriptions' \in [SubscriptionIds -> SubscriptionRecord \cup {NoSubscription}]
    BY <1>6, <2>3, WriteType DEF Prepay
  <2>5. subscriptions[s].token \in Tokens /\ sent \in Nat
    BY <2>1, <2>2 DEF SubscriptionRecord
  <2>6. accounted' \in [Tokens -> Nat] /\ balance' \in [Tokens -> Nat]
    BY <1>6, <2>2, <2>5, ReceivedType DEF Prepay
  <2>7. (performed \subseteq Performed)'
    BY <1>6, <2>1, LogType DEF Prepay, Role, Operation, Payloads
  <2>8. PassportTypeOK(Statement)'
    BY <1>6, <2>1, ConsumeAuthorizationType DEF Prepay, AssertAuthorized, TypeOK
  <2>9. QED
    BY <1>6, <2>4, <2>6, <2>7, <2>8 DEF Prepay, TypeOK
<1>7. ASSUME NEW s \in SubscriptionIds, NEW r \in receipts, Cancel(s, r.proof)
      PROVE  TypeOK'
  <2> DEFINE record == [subscriptions[s] EXCEPT !.status = "CANCELLED"]
  <2>1. Exists(s) /\ subscriptions[s] \in SubscriptionRecord /\ r.proof \in Proof
    BY <1>7, ActiveRecord DEF Cancel, TypeOK, PassportTypeOK, Receipt
  <2>2. record \in SubscriptionRecord
    BY <2>1 DEF SubscriptionRecord, Status
  <2>3. subscriptions' \in [SubscriptionIds -> SubscriptionRecord \cup {NoSubscription}]
    BY <1>7, <2>2, WriteType DEF Cancel
  <2>4. (performed \subseteq Performed)'
    BY <1>7, <2>1, LogType DEF Cancel, Role, Operation, Payloads, MaxPrepaidPeriods
  <2>5. PassportTypeOK(Statement)'
    BY <1>7, <2>1, ConsumeAuthorizationType DEF Cancel, AssertAuthorized, TypeOK
  <2>6. QED
    BY <1>7, <2>3, <2>4, <2>5 DEF Cancel, moneyVars, TypeOK
<1>8. ASSUME NEW s \in SubscriptionIds, NEW r \in receipts, NEW note \in Notes,
             Claim(s, note, r.proof)
      PROVE  TypeOK'
  <2> DEFINE record == ClaimCounted(s)
  <2>1. Exists(s) /\ subscriptions[s] \in SubscriptionRecord /\ r.proof \in Proof
    BY <1>8, ExistingRecord DEF Claim, Claimable, TypeOK, PassportTypeOK, Receipt
  <2>2. record \in SubscriptionRecord
    BY <2>1 DEF ClaimCounted, SubscriptionRecord
  <2>3. subscriptions' \in [SubscriptionIds -> SubscriptionRecord \cup {NoSubscription}]
    BY <1>8, <2>2, WriteType DEF Claim
  <2>4. (performed \subseteq Performed)'
    BY <1>8, <2>1, LogType DEF Claim, Role, Operation, Payloads
  <2>5. PassportTypeOK(Statement)'
    BY <1>8, <2>1, ConsumeAuthorizationType DEF Claim, AssertAuthorized, TypeOK
  <2>6. subscriptions[s].token \in Tokens /\ subscriptions[s].amount_per_period \in Nat
    BY <2>1 DEF SubscriptionRecord
  <2>7. accounted' \in [Tokens -> Nat] /\ balance' \in [Tokens -> Nat]
    BY <1>8, <2>6 DEF Claim, Release, TypeOK
  <2>8. QED
    BY <1>8, <2>3, <2>4, <2>5, <2>7 DEF Claim, TypeOK
<1>9. ASSUME NEW s \in SubscriptionIds, Expire(s)
      PROVE  TypeOK'
  <2> DEFINE record == [subscriptions[s] EXCEPT !.status = "EXPIRED"]
  <2>1. Exists(s) /\ subscriptions[s] \in SubscriptionRecord
    BY <1>9, ActiveRecord DEF Expire, Expirable
  <2>2. record \in SubscriptionRecord
    BY <2>1 DEF SubscriptionRecord, Status
  <2>3. subscriptions' \in [SubscriptionIds -> SubscriptionRecord \cup {NoSubscription}]
    BY <1>9, <2>2, WriteType DEF Expire
  <2>4. (performed \subseteq Performed)'
    BY <1>9, <2>1, LogType DEF Expire, Payloads, MaxPrepaidPeriods
  <2>5. QED
    BY <1>9, <2>3, <2>4 DEF Expire, moneyVars, passportVars, TypeOK, PassportTypeOK
<1>10. ASSUME NEW t \in Tokens, Donate(t)
       PROVE  TypeOK'
  BY <1>10 DEF Donate, passportVars, TypeOK, PassportTypeOK
<1>11. QED
  BY <1>1, <1>2, <1>3, <1>4, <1>5, <1>6, <1>7, <1>8, <1>9, <1>10
     DEF Next, PrepareStep, StartStep, PrepayStep, AuthorizedStep

\* Every state variable of the subscriptions contract and of the passport always
\* holds a value of its type.
THEOREM TypeCorrect == Spec => []TypeOK
<1>1. QED
  BY InitType, NextType, PTL DEF Spec

-----------------------------------------------------------------------------
(* The kinds of step: a step leaves the subscriptions alone, stores a new  *)
(* one, or performs one action on an existing one.                         *)

SameBut(s) == \A d \in SubscriptionIds : d # s => subscriptions'[d] = subscriptions[d]

SameTerms(s) ==
    /\ subscriptions'[s].member_commitment = subscriptions[s].member_commitment
    /\ subscriptions'[s].creator_commitment = subscriptions[s].creator_commitment
    /\ subscriptions'[s].token = subscriptions[s].token
    /\ subscriptions'[s].amount_per_period = subscriptions[s].amount_per_period
    /\ subscriptions'[s].period_seconds = subscriptions[s].period_seconds

\* What no step undoes.
OnlyGrow == now <= now' /\ receipts \subseteq receipts'

\* `amount` of token t is received and accounted.
Takes(t, amount) ==
    /\ accounted' = [accounted EXCEPT ![t] = @ + amount]
    /\ accounted'[t] <= balance'[t]
    /\ \A u \in Tokens : balance[u] <= balance'[u]

\* No subscription is touched; tokens may arrive from outside.
Quiet ==
    /\ UNCHANGED <<subscriptions, accounted, performed, startedAt>>
    /\ \A t \in Tokens : balance[t] <= balance'[t]

\* A new subscription, with one period paid.
Begins(s) ==
    /\ ~Exists(s)
    /\ SameBut(s)
    /\ subscriptions'[s] \in SubscriptionRecord
    /\ subscriptions'[s].status = "ACTIVE" /\ subscriptions'[s].action_nonce = 0
    /\ subscriptions'[s].prepaid_periods = 1
    /\ subscriptions'[s].creator_claimed_periods = 0
    /\ subscriptions'[s].period_ends_at = now + subscriptions'[s].period_seconds
    /\ startedAt' = [startedAt EXCEPT ![s] = now]
    /\ Takes(subscriptions'[s].token, subscriptions'[s].amount_per_period)
    /\ UNCHANGED performed

Prepays(s, periods) ==
    /\ Active(s)
    /\ periods \in 1..MaxPrepaidPeriods
    /\ subscriptions'[s].status = "ACTIVE"
    /\ subscriptions'[s].prepaid_periods = subscriptions[s].prepaid_periods + periods
    /\ subscriptions'[s].prepaid_periods <= MaxPrepaidPeriods
    /\ subscriptions'[s].creator_claimed_periods = subscriptions[s].creator_claimed_periods
    /\ subscriptions'[s].period_ends_at =
         subscriptions[s].period_ends_at + subscriptions[s].period_seconds * periods
    /\ Takes(subscriptions[s].token, subscriptions[s].amount_per_period * periods)

Ends(s) ==
    /\ Active(s)
    /\ subscriptions'[s].status \in {"CANCELLED", "EXPIRED"}
    /\ subscriptions'[s].status = "EXPIRED" => now >= subscriptions[s].period_ends_at
    /\ subscriptions'[s].prepaid_periods = subscriptions[s].prepaid_periods
    /\ subscriptions'[s].creator_claimed_periods = subscriptions[s].creator_claimed_periods
    /\ subscriptions'[s].period_ends_at = subscriptions[s].period_ends_at
    /\ UNCHANGED <<accounted, balance>>

Pays(s) ==
    /\ Claimable(s)
    /\ subscriptions'[s].status = subscriptions[s].status
    /\ subscriptions'[s].prepaid_periods = subscriptions[s].prepaid_periods
    /\ subscriptions'[s].creator_claimed_periods = subscriptions[s].creator_claimed_periods + 1
    /\ subscriptions'[s].period_ends_at = subscriptions[s].period_ends_at
    /\ Release(subscriptions[s].token, subscriptions[s].amount_per_period)

Changes(s, a) ==
    \/ a.operation = "PREPAY" /\ Prepays(s, a.payload)
    \/ a.operation \in {"CANCEL", "EXPIRE"} /\ Ends(s)
    \/ a.operation = "CLAIM" /\ Pays(s)

Signed(s, a) ==
    a.operation # "EXPIRE" =>
        SignatureValid(RoleCommitment(s, a.role),
                       ActionStatement(s, a.operation, a.payload), a.proof)

\* The history's entry for an action.
Entry(s, role, operation, payload, proof) ==
    [subscription_id |-> s, role |-> role, operation |-> operation,
     action_nonce |-> subscriptions[s].action_nonce, payload |-> payload, proof |-> proof]

Acts(s, a) ==
    /\ Exists(s)
    /\ a \in Performed /\ a.subscription_id = s
    /\ a.action_nonce = subscriptions[s].action_nonce
    /\ performed' = performed \cup {a}
    /\ SameBut(s)
    /\ SameTerms(s)
    /\ subscriptions'[s] \in SubscriptionRecord
    /\ subscriptions'[s].action_nonce = subscriptions[s].action_nonce + 1
    /\ UNCHANGED startedAt
    /\ Changes(s, a)
    /\ Signed(s, a)

\* Writing and logging, with the terms kept and the change in order, is an action.
LEMMA ActsFromParts ==
    ASSUME TypeOK, NEW s \in SubscriptionIds, Exists(s),
           NEW role \in Role \cup {"ANYONE"}, NEW operation \in Operation \cup {"EXPIRE"},
           NEW payload \in Payloads, NEW proof \in Proof \cup {NoProof},
           NEW record \in SubscriptionRecord,
           record.member_commitment = subscriptions[s].member_commitment,
           record.creator_commitment = subscriptions[s].creator_commitment,
           record.token = subscriptions[s].token,
           record.amount_per_period = subscriptions[s].amount_per_period,
           record.period_seconds = subscriptions[s].period_seconds,
           record.action_nonce = subscriptions[s].action_nonce,
           Write(s, record), Log(s, role, operation, payload, proof),
           startedAt' = startedAt,
           Changes(s, Entry(s, role, operation, payload, proof)),
           Signed(s, Entry(s, role, operation, payload, proof))
    PROVE  \E a \in Performed : Acts(s, a)
<1> DEFINE a == Entry(s, role, operation, payload, proof)
<1>1. subscriptions[s] \in SubscriptionRecord
  BY ExistingRecord
<1>2. a \in Performed /\ a.subscription_id = s /\ a.action_nonce = subscriptions[s].action_nonce
  BY <1>1 DEF Entry, Performed, SubscriptionRecord
<1>3. /\ subscriptions'[s] = [record EXCEPT !.action_nonce = @ + 1]
      /\ subscriptions'[s] \in SubscriptionRecord
      /\ SameBut(s)
  BY WriteType DEF SameBut
<1>4. /\ subscriptions'[s].action_nonce = subscriptions[s].action_nonce + 1
      /\ SameTerms(s)
  BY <1>1, <1>3 DEF SubscriptionRecord, SameTerms
<1>5. performed' = performed \cup {a}
  BY DEF Log, Entry
<1>6. Acts(s, a)
  BY <1>2, <1>3, <1>4, <1>5 DEF Acts
<1>7. QED
  BY <1>2, <1>6

\* Writing a record with the nonce added keeps its other fields.
LEMMA Written ==
    ASSUME TypeOK, NEW s \in SubscriptionIds, NEW record \in SubscriptionRecord,
           Write(s, record)
    PROVE  /\ subscriptions'[s].status = record.status
           /\ subscriptions'[s].prepaid_periods = record.prepaid_periods
           /\ subscriptions'[s].creator_claimed_periods = record.creator_claimed_periods
           /\ subscriptions'[s].period_ends_at = record.period_ends_at
<1>1. subscriptions'[s] = [record EXCEPT !.action_nonce = @ + 1]
  BY WriteType
<1>2. QED
  BY <1>1 DEF SubscriptionRecord

\* assert_authorized found the statement signed.
LEMMA SignedFromAssert ==
    ASSUME NEW s, NEW role, NEW operation, NEW payload, NEW proof,
           AssertAuthorized(s, role, operation, payload, proof)
    PROVE  Signed(s, Entry(s, role, operation, payload, proof))
  BY DEF AssertAuthorized, ConsumeAuthorization, Signed, Entry

\* No step turns the clock back or unsigns a receipt.
LEMMA TimeAndReceiptsGrow ==
    ASSUME TypeOK, [Next]_vars
    PROVE  OnlyGrow
<1>1. now \in Nat
  BY DEF TypeOK
<1>2. CASE UNCHANGED vars
  BY <1>1, <1>2 DEF OnlyGrow, vars, passportVars
<1>3. CASE ClockStep
  BY <1>1, <1>3 DEF OnlyGrow, ClockStep, Tick, passportVars
<1>4. CASE AdminStep
  BY <1>1, <1>4 DEF OnlyGrow, AdminStep, PassportAdmin, SetPolicy, SetPolicyActive
<1>5. CASE PrepareStep
  BY <1>1, <1>5 DEF OnlyGrow, PrepareStep, PrepareReceipt, SignReceipt
<1>6. CASE StartStep
  BY <1>1, <1>6 DEF OnlyGrow, StartStep, Start, passportVars
<1>7. CASE PrepayStep
  BY <1>1, <1>7 DEF OnlyGrow, PrepayStep, Prepay, AssertAuthorized, ConsumeAuthorization
<1>8. CASE AuthorizedStep
  BY <1>1, <1>8 DEF OnlyGrow, AuthorizedStep, Cancel, Claim, AssertAuthorized, ConsumeAuthorization
<1>9. CASE \E s \in SubscriptionIds : Expire(s)
  BY <1>1, <1>9 DEF OnlyGrow, Expire, passportVars
<1>10. CASE \E t \in Tokens : Donate(t)
  BY <1>1, <1>10 DEF OnlyGrow, Donate, passportVars
<1>11. QED
  BY <1>2, <1>3, <1>4, <1>5, <1>6, <1>7, <1>8, <1>9, <1>10 DEF Next

\* Every step is of one of the three kinds.
LEMMA StepKinds ==
    ASSUME TypeOK, [Next]_vars
    PROVE  \/ Quiet
           \/ \E s \in SubscriptionIds : Begins(s)
           \/ \E s \in SubscriptionIds, a \in Performed : Acts(s, a)
<1> DEFINE Action == \E s \in SubscriptionIds, a \in Performed : Acts(s, a)
<1> DEFINE Still == UNCHANGED <<subscriptions, accounted, performed, startedAt, balance>>
<1>0. ASSUME Still
      PROVE  Quiet
  BY <1>0 DEF Quiet, TypeOK
<1>1. CASE UNCHANGED vars
  BY <1>0, <1>1 DEF vars, subscriptionVars, moneyVars
<1>2. CASE ClockStep \/ AdminStep
  BY <1>0, <1>2 DEF ClockStep, AdminStep, subscriptionVars, moneyVars
<1>3. CASE PrepareStep
  BY <1>0, <1>3 DEF PrepareStep, PrepareReceipt, subscriptionVars, moneyVars
<1>4. CASE \E t \in Tokens : Donate(t)
  BY <1>4 DEF Donate, Quiet, TypeOK
<1>5. ASSUME NEW s \in SubscriptionIds, NEW member \in Commitments, NEW creator \in Commitments,
             NEW t \in Tokens, NEW amount \in Amounts, NEW ends \in 1..MaxTime,
             NEW sent \in {0, amount},
             Start(s, member, creator, t, amount, ends, sent)
      PROVE  Begins(s)
  <2>1. /\ amount \in Nat \ {0} /\ ends \in Nat /\ sent \in Nat
        /\ now \in Nat /\ ends - now \in Nat \ {0}
    BY <1>5, SubscriptionAssumption, MaxTimeAssumption DEF Start, TypeOK
  <2>2. subscriptions'[s] =
           [member_commitment |-> member, creator_commitment |-> creator,
            token |-> t, amount_per_period |-> amount,
            period_seconds |-> ends - now, period_ends_at |-> ends,
            prepaid_periods |-> 1, creator_claimed_periods |-> 0,
            status |-> "ACTIVE", action_nonce |-> 0]
    BY <1>5 DEF Start, TypeOK
  <2>3. subscriptions'[s] \in SubscriptionRecord
    BY <2>1, <2>2 DEF SubscriptionRecord, Status
  <2>4. Takes(t, amount)
    BY <1>5, <2>1, ReceivedType DEF Start, Takes
  <2>5. SameBut(s)
    BY <1>5 DEF Start, SameBut, TypeOK
  <2>6. subscriptions'[s].period_ends_at = now + subscriptions'[s].period_seconds
    BY <2>1, <2>2
  <2>7. Takes(subscriptions'[s].token, subscriptions'[s].amount_per_period)
    BY <2>2, <2>4
  <2>8. /\ subscriptions'[s].status = "ACTIVE" /\ subscriptions'[s].action_nonce = 0
        /\ subscriptions'[s].prepaid_periods = 1
        /\ subscriptions'[s].creator_claimed_periods = 0
    BY <2>2
  <2>9. ~Exists(s) /\ startedAt' = [startedAt EXCEPT ![s] = now] /\ UNCHANGED performed
    BY <1>5 DEF Start
  <2>10. QED
    BY <2>3, <2>5, <2>6, <2>7, <2>8, <2>9 DEF Begins
<1>6. ASSUME NEW s \in SubscriptionIds, NEW r \in receipts, NEW periods \in 0..MaxPrepaidPeriods,
             Exists(s), NEW sent \in {0, subscriptions[s].amount_per_period * periods},
             Prepay(s, periods, r.proof, sent)
      PROVE  Action
  <2> DEFINE record == Extended(s, periods)
             a == Entry(s, "MEMBER", "PREPAY", periods, r.proof)
  <2>1. subscriptions[s] \in SubscriptionRecord /\ r.proof \in Proof /\ periods \in Nat
    BY <1>6, ExistingRecord DEF TypeOK, PassportTypeOK, Receipt
  <2>2. PICK extension \in Nat, amount \in Nat :
           /\ extension = subscriptions[s].period_seconds * periods
           /\ amount = subscriptions[s].amount_per_period * periods
    BY <2>1, ProductType DEF SubscriptionRecord
  <2>3. record = [subscriptions[s] EXCEPT !.prepaid_periods = @ + periods,
                                          !.period_ends_at = @ + extension]
    BY <2>2 DEF Extended
  <2> HIDE DEF record
  <2>4. record \in SubscriptionRecord
    <3>1. [subscriptions[s] EXCEPT !.prepaid_periods = @ + periods,
                                   !.period_ends_at = @ + extension] \in SubscriptionRecord
      <4>1. /\ subscriptions[s].prepaid_periods + periods \in Nat
            /\ subscriptions[s].period_ends_at + extension \in Nat
        BY <2>1 DEF SubscriptionRecord
      <4>2. QED
        BY <2>1, <4>1, ExtendedRecord
    <3>2. QED
      BY <2>3, <3>1
  <2>5. Write(s, record)
    BY <1>6 DEF Prepay, record
  <2>6. Takes(subscriptions[s].token, amount)
    BY <1>6, <2>1, <2>2, ReceivedType DEF Prepay, Takes, SubscriptionRecord
  <2>7. /\ subscriptions'[s].status = subscriptions[s].status
        /\ subscriptions'[s].prepaid_periods = subscriptions[s].prepaid_periods + periods
        /\ subscriptions'[s].creator_claimed_periods = subscriptions[s].creator_claimed_periods
        /\ subscriptions'[s].period_ends_at = subscriptions[s].period_ends_at + extension
    BY <2>1, <2>3, <2>4, <2>5, Written DEF SubscriptionRecord
  <2>8. Prepayable(s, periods) /\ periods \in 1..MaxPrepaidPeriods
    BY <1>6 DEF Prepay, Prepayable, MaxPrepaidPeriods
  <2>9. Prepays(s, periods)
    BY <2>2, <2>6, <2>7, <2>8 DEF Prepays, Prepayable, Active
  <2>10. Changes(s, a)
    BY <2>9 DEF Changes, Entry
  <2>11. Signed(s, a)
    BY <1>6, SignedFromAssert DEF Prepay
  <2>12. "MEMBER" \in Role /\ "PREPAY" \in Operation /\ periods \in Payloads
    BY DEF Role, Operation, Payloads
  <2>13. Log(s, "MEMBER", "PREPAY", periods, r.proof) /\ startedAt' = startedAt
    BY <1>6 DEF Prepay
  <2>14. /\ record.member_commitment = subscriptions[s].member_commitment
         /\ record.creator_commitment = subscriptions[s].creator_commitment
         /\ record.token = subscriptions[s].token
         /\ record.amount_per_period = subscriptions[s].amount_per_period
         /\ record.period_seconds = subscriptions[s].period_seconds
         /\ record.action_nonce = subscriptions[s].action_nonce
    BY <2>1, <2>3 DEF SubscriptionRecord
  <2>15. QED
    BY <1>6, <2>1, <2>4, <2>5, <2>10, <2>11, <2>12, <2>13, <2>14, ActsFromParts
<1>7. ASSUME NEW s \in SubscriptionIds, NEW r \in receipts, Cancel(s, r.proof)
      PROVE  Action
  <2> DEFINE record == [subscriptions[s] EXCEPT !.status = "CANCELLED"]
             a == Entry(s, "MEMBER", "CANCEL", 0, r.proof)
  <2>1. Exists(s) /\ subscriptions[s] \in SubscriptionRecord /\ r.proof \in Proof
    BY <1>7, ActiveRecord DEF Cancel, TypeOK, PassportTypeOK, Receipt
  <2>2. record \in SubscriptionRecord
    BY <2>1 DEF SubscriptionRecord, Status
  <2>3. Write(s, record)
    BY <1>7 DEF Cancel
  <2>4. Ends(s)
    BY <1>7, <2>1, <2>2, <2>3, Written DEF Ends, Cancel, moneyVars, SubscriptionRecord
  <2>5. Changes(s, a)
    BY <2>4 DEF Changes, Entry
  <2>6. Signed(s, a)
    BY <1>7, SignedFromAssert DEF Cancel
  <2>7. "MEMBER" \in Role /\ "CANCEL" \in Operation /\ 0 \in Payloads
    BY DEF Role, Operation, Payloads, MaxPrepaidPeriods
  <2>8. Log(s, "MEMBER", "CANCEL", 0, r.proof) /\ startedAt' = startedAt
    BY <1>7 DEF Cancel
  <2>9. QED
    BY <2>1, <2>2, <2>3, <2>5, <2>6, <2>7, <2>8, ActsFromParts DEF SubscriptionRecord
<1>8. ASSUME NEW s \in SubscriptionIds, NEW r \in receipts, NEW note \in Notes,
             Claim(s, note, r.proof)
      PROVE  Action
  <2> DEFINE record == ClaimCounted(s)
             a == Entry(s, "CREATOR", "CLAIM", note, r.proof)
  <2>1. Exists(s) /\ subscriptions[s] \in SubscriptionRecord /\ r.proof \in Proof
    BY <1>8, ExistingRecord DEF Claim, Claimable, TypeOK, PassportTypeOK, Receipt
  <2>2. record \in SubscriptionRecord
    BY <2>1 DEF ClaimCounted, SubscriptionRecord
  <2>3. Write(s, record)
    BY <1>8 DEF Claim
  <2>4. Pays(s)
    BY <1>8, <2>1, <2>2, <2>3, Written DEF Pays, Claim, ClaimCounted, SubscriptionRecord
  <2>5. Changes(s, a)
    BY <2>4 DEF Changes, Entry
  <2>6. Signed(s, a)
    BY <1>8, SignedFromAssert DEF Claim
  <2>7. "CREATOR" \in Role /\ "CLAIM" \in Operation /\ note \in Payloads
    BY DEF Role, Operation, Payloads
  <2>8. Log(s, "CREATOR", "CLAIM", note, r.proof) /\ startedAt' = startedAt
    BY <1>8 DEF Claim
  <2>9. QED
    BY <2>1, <2>2, <2>3, <2>5, <2>6, <2>7, <2>8, ActsFromParts DEF ClaimCounted, SubscriptionRecord
<1>9. ASSUME NEW s \in SubscriptionIds, Expire(s)
      PROVE  Action
  <2> DEFINE record == [subscriptions[s] EXCEPT !.status = "EXPIRED"]
             a == Entry(s, "ANYONE", "EXPIRE", 0, NoProof)
  <2>1. Exists(s) /\ subscriptions[s] \in SubscriptionRecord
    BY <1>9, ActiveRecord DEF Expire, Expirable
  <2>2. record \in SubscriptionRecord
    BY <2>1 DEF SubscriptionRecord, Status
  <2>3. Write(s, record)
    BY <1>9 DEF Expire
  <2>4. Ends(s)
    BY <1>9, <2>1, <2>2, <2>3, Written DEF Ends, Expire, Expirable, moneyVars, SubscriptionRecord
  <2>5. Changes(s, a) /\ Signed(s, a)
    BY <2>4 DEF Changes, Entry, Signed
  <2>6. 0 \in Payloads
    BY DEF Payloads, MaxPrepaidPeriods
  <2>7. Log(s, "ANYONE", "EXPIRE", 0, NoProof) /\ startedAt' = startedAt
    BY <1>9 DEF Expire
  <2>8. QED
    BY <2>1, <2>2, <2>3, <2>5, <2>6, <2>7, ActsFromParts DEF SubscriptionRecord
<1>10. QED
  BY <1>1, <1>2, <1>3, <1>4, <1>5, <1>6, <1>7, <1>8, <1>9
     DEF Next, StartStep, PrepayStep, AuthorizedStep

-----------------------------------------------------------------------------
(* Ends and paid time.                                                     *)

\* No step reopens an ended subscription, moves its end or its paid periods, or
\* changes the terms of one: by the kinds of step, only an action on it changes
\* it, and on an ended one only a claim is possible.
THEOREM EndsFinal == Spec => EndsAreFinal
<1>1. TypeOK /\ [Next]_vars =>
        [\A s \in SubscriptionIds : Exists(s) =>
          /\ ~Active(s) => \A f \in {"status", "prepaid_periods", "period_ends_at"} :
                subscriptions'[s][f] = subscriptions[s][f]
          /\ \A f \in {"member_commitment", "creator_commitment", "token",
                       "amount_per_period", "period_seconds"} :
                subscriptions'[s][f] = subscriptions[s][f]
          /\ subscriptions[s].creator_claimed_periods
               <= subscriptions'[s].creator_claimed_periods]_vars
  <2> SUFFICES ASSUME TypeOK, [Next]_vars, NEW s \in SubscriptionIds, Exists(s)
               PROVE  /\ ~Active(s) =>
                            /\ subscriptions'[s].status = subscriptions[s].status
                            /\ subscriptions'[s].prepaid_periods = subscriptions[s].prepaid_periods
                            /\ subscriptions'[s].period_ends_at = subscriptions[s].period_ends_at
                      /\ SameTerms(s)
                      /\ subscriptions[s].creator_claimed_periods
                           <= subscriptions'[s].creator_claimed_periods
    BY DEF SameTerms
  <2>1. subscriptions[s].creator_claimed_periods \in Nat
    BY ExistingRecord DEF SubscriptionRecord
  <2>2. CASE subscriptions'[s] = subscriptions[s]
    BY <2>1, <2>2 DEF SameTerms
  <2>3. ASSUME NEW a \in Performed, Acts(s, a)
        PROVE  /\ ~Active(s) =>
                     /\ subscriptions'[s].status = subscriptions[s].status
                     /\ subscriptions'[s].prepaid_periods = subscriptions[s].prepaid_periods
                     /\ subscriptions'[s].period_ends_at = subscriptions[s].period_ends_at
               /\ SameTerms(s)
               /\ subscriptions[s].creator_claimed_periods
                    <= subscriptions'[s].creator_claimed_periods
    BY <2>1, <2>3 DEF Acts, Changes, Prepays, Ends, Pays
  <2>4. QED
    BY <2>2, <2>3, StepKinds DEF Quiet, Begins, Acts, SameBut
<1>2. QED
  BY <1>1, TypeCorrect, PTL DEF Spec, EndsAreFinal

\* Paying for more periods at once is paying for each.
LEMMA PeriodsAdd ==
    ASSUME NEW m \in Nat, NEW k \in Nat, NEW p \in Nat
    PROVE  m * p + p * k = (m + k) * p
  OBVIOUS

\* A subscription ends as many periods after its start as were paid, and does
\* not expire earlier: inductive as it stands, with the types.
THEOREM PaidTimeCorrect == Spec => []PaidTimeIsGiven
<1>1. Init => PaidTimeIsGiven
  BY DEF Init, SubscriptionInit, PaidTimeIsGiven, Exists, NoSubscription
<1>2. TypeOK /\ PaidTimeIsGiven /\ [Next]_vars => PaidTimeIsGiven'
  <2> SUFFICES ASSUME TypeOK, PaidTimeIsGiven, [Next]_vars,
                      NEW s \in SubscriptionIds, Exists(s)'
               PROVE  /\ subscriptions'[s].period_ends_at = startedAt'[s]
                           + subscriptions'[s].prepaid_periods * subscriptions'[s].period_seconds
                      /\ subscriptions'[s].status = "EXPIRED" =>
                            now' >= subscriptions'[s].period_ends_at
    BY DEF PaidTimeIsGiven
  <2>1. now \in Nat /\ now' \in Nat /\ now <= now'
    BY NextType, TimeAndReceiptsGrow DEF TypeOK, OnlyGrow
  <2>2. CASE subscriptions'[s] = subscriptions[s] /\ startedAt'[s] = startedAt[s]
    BY <2>1, <2>2, ExistingRecord DEF PaidTimeIsGiven, Exists, SubscriptionRecord
  <2>3. CASE Begins(s)
    <3>1. /\ subscriptions'[s].prepaid_periods = 1 /\ startedAt'[s] = now
          /\ subscriptions'[s].period_seconds \in Nat
          /\ subscriptions'[s].period_ends_at = now + subscriptions'[s].period_seconds
          /\ subscriptions'[s].status = "ACTIVE"
      BY <2>3 DEF Begins, TypeOK, SubscriptionRecord
    <3>2. QED
      BY <2>1, <3>1
  <2>4. ASSUME NEW a \in Performed, Acts(s, a)
        PROVE  /\ subscriptions'[s].period_ends_at = startedAt'[s]
                    + subscriptions'[s].prepaid_periods * subscriptions'[s].period_seconds
               /\ subscriptions'[s].status = "EXPIRED" =>
                     now' >= subscriptions'[s].period_ends_at
    <3>1. /\ subscriptions[s] \in SubscriptionRecord /\ Exists(s)
          /\ subscriptions'[s].period_seconds = subscriptions[s].period_seconds
          /\ startedAt' = startedAt
      BY <2>4, ExistingRecord DEF Acts, SameTerms
    <3>2. PICK m \in Nat, p \in Nat, st \in Nat, ends \in Nat :
             /\ m = subscriptions[s].prepaid_periods /\ p = subscriptions[s].period_seconds
             /\ st = startedAt[s] /\ ends = subscriptions[s].period_ends_at
      BY <3>1 DEF SubscriptionRecord, TypeOK
    <3>3. ends = st + m * p
      BY <3>1, <3>2 DEF PaidTimeIsGiven
    <3>4. CASE Prepays(s, a.payload)
      <4>1. PICK k \in Nat : k = a.payload
        BY <3>4 DEF Prepays
      <4>2. subscriptions'[s].prepaid_periods = m + k
            /\ subscriptions'[s].period_ends_at = ends + p * k
            /\ subscriptions'[s].status = "ACTIVE"
        BY <3>2, <3>4, <4>1 DEF Prepays
      <4>3. m * p \in Nat /\ p * k \in Nat /\ m * p + p * k = (m + k) * p
        BY PeriodsAdd, ProductType
      <4>4. ends + p * k = st + (m + k) * p
        BY <3>3, <4>3
      <4>5. QED
        BY <3>1, <3>2, <4>2, <4>4
    <3>5. CASE Ends(s) \/ Pays(s)
      <4>1. /\ subscriptions'[s].prepaid_periods = m /\ subscriptions'[s].period_ends_at = ends
            /\ subscriptions'[s].status = "EXPIRED" => now >= ends
        BY <3>1, <3>2, <3>5 DEF Ends, Pays, PaidTimeIsGiven
      <4>2. subscriptions'[s].period_seconds = p /\ startedAt'[s] = st
        BY <3>1, <3>2
      <4>3. QED
        BY <2>1, <3>3, <4>1, <4>2
    <3>6. QED
      BY <2>4, <3>4, <3>5 DEF Acts, Changes
  <2>5. QED
    <3>1. CASE Quiet
      BY <2>2, <3>1 DEF Quiet
    <3>2. ASSUME NEW d \in SubscriptionIds, d # s, Begins(d)
          PROVE  subscriptions'[s] = subscriptions[s] /\ startedAt'[s] = startedAt[s]
      BY <3>2 DEF Begins, SameBut, TypeOK
    <3>3. ASSUME NEW d \in SubscriptionIds, d # s, NEW a \in Performed, Acts(d, a)
          PROVE  subscriptions'[s] = subscriptions[s] /\ startedAt'[s] = startedAt[s]
      BY <3>3 DEF Acts, SameBut
    <3>4. QED
      BY <2>2, <2>3, <2>4, <3>1, <3>2, <3>3, StepKinds
<1>3. QED
  BY <1>1, <1>2, TypeCorrect, PTL DEF Spec

-----------------------------------------------------------------------------
(* The history: turns, notes and signatures.                               *)

Done(s) == {a \in performed : a.subscription_id = s}

\* What makes the history inductive: it is finite, a subscription without a record
\* has none, and its nonce numbers its actions.
TurnsInv ==
    /\ IsFiniteSet(performed)
    /\ \A s \in SubscriptionIds :
        IF Exists(s)
        THEN /\ {a.action_nonce : a \in Done(s)} = 0..(subscriptions[s].action_nonce - 1)
             /\ Cardinality(Done(s)) = subscriptions[s].action_nonce
        ELSE Done(s) = {}

\* The nonce numbers the actions, so of the receipts prepared at one nonce at
\* most one is used.
THEOREM TurnsCorrect == Spec => []TurnsInv
<1>1. Init => TurnsInv
  BY FS_EmptySet DEF Init, SubscriptionInit, TurnsInv, Exists, NoSubscription, Done
<1>2. TypeOK /\ TurnsInv /\ [Next]_vars => TurnsInv'
  <2> SUFFICES ASSUME TypeOK, TurnsInv, [Next]_vars
               PROVE  TurnsInv'
    OBVIOUS
  <2>1. CASE Quiet
    BY <2>1 DEF Quiet, TurnsInv, Exists, Done
  <2>2. ASSUME NEW s \in SubscriptionIds, Begins(s)
        PROVE  TurnsInv'
    <3>1. performed' = performed /\ \A d : Done(d)' = Done(d)
      BY <2>2 DEF Begins, Done
    <3>2. Done(s) = {} /\ subscriptions'[s].action_nonce = 0 /\ Exists(s)'
      BY <2>2 DEF Begins, TurnsInv, Exists
    <3>3. {a.action_nonce : a \in Done(s)} = 0..(0 - 1)
      BY <3>2
    <3>4. Cardinality(Done(s)) = 0
      BY <3>2, FS_EmptySet
    <3>5. \A d \in SubscriptionIds : d # s => subscriptions'[d] = subscriptions[d]
      BY <2>2 DEF Begins, SameBut
    <3>6. QED
      BY <3>1, <3>2, <3>3, <3>4, <3>5 DEF TurnsInv, Exists
  <2>3. ASSUME NEW s \in SubscriptionIds, NEW a \in Performed, Acts(s, a)
        PROVE  TurnsInv'
    <3> DEFINE n == subscriptions[s].action_nonce
    <3>1. n \in Nat /\ Exists(s)
      BY <2>3, ExistingRecord DEF Acts, SubscriptionRecord
    <3>2. ASSUME NEW d \in SubscriptionIds, d # s
          PROVE  Done(d)' = Done(d) /\ subscriptions'[d] = subscriptions[d]
      BY <2>3, <3>2 DEF Acts, SameBut, Done
    <3>3. {b.action_nonce : b \in Done(s)} = 0..(n - 1) /\ Cardinality(Done(s)) = n
      BY <3>1 DEF TurnsInv
    <3>4. Done(s)' = Done(s) \cup {a} /\ a.action_nonce = n
      BY <2>3 DEF Acts, Done
    <3>5. a \notin Done(s)
      BY <3>1, <3>3, <3>4
    <3>6. IsFiniteSet(Done(s))
      BY FS_Subset DEF Done, TurnsInv
    <3>7. Cardinality(Done(s) \cup {a}) = n + 1
      BY <3>3, <3>5, <3>6, FS_AddElement
    <3>8. {b.action_nonce : b \in Done(s) \cup {a}} = 0..n
      <4>1. {b.action_nonce : b \in Done(s) \cup {a}} = {b.action_nonce : b \in Done(s)} \cup {n}
        BY <3>4
      <4>2. 0..(n - 1) \cup {n} = 0..n
        BY <3>1
      <4>3. QED
        BY <3>3, <4>1, <4>2
    <3>9. subscriptions'[s].action_nonce = n + 1 /\ (n + 1) - 1 = n /\ Exists(s)'
      BY <2>3, <3>1 DEF Acts, SubscriptionRecord, Exists
    <3>10. IsFiniteSet(performed')
      BY <2>3, FS_AddElement DEF Acts, TurnsInv
    <3>11. /\ {b.action_nonce : b \in Done(s)'} = 0..(subscriptions'[s].action_nonce - 1)
           /\ Cardinality(Done(s)') = subscriptions'[s].action_nonce
      BY <3>4, <3>7, <3>8, <3>9
    <3>12. QED
      BY <3>2, <3>9, <3>10, <3>11 DEF TurnsInv, Exists
  <2>4. QED
    BY <2>1, <2>2, <2>3, StepKinds
<1>3. QED
  BY <1>1, <1>2, TypeCorrect, PTL DEF Spec

\* One note per paid period, of at most three: a claim is a new entry of the
\* history because its nonce is new, and is counted in the same step.
THEOREM NotesCorrect == Spec => []OneNotePerPaidPeriod
<1>1. Init => OneNotePerPaidPeriod
  BY DEF Init, SubscriptionInit, OneNotePerPaidPeriod, Exists, NoSubscription
<1>2. TypeOK /\ TurnsInv /\ OneNotePerPaidPeriod /\ [Next]_vars => OneNotePerPaidPeriod'
  <2> SUFFICES ASSUME TypeOK, TurnsInv, OneNotePerPaidPeriod, [Next]_vars,
                      NEW s \in SubscriptionIds, Exists(s)'
               PROVE  /\ Cardinality(Claims(s)') = subscriptions'[s].creator_claimed_periods
                      /\ subscriptions'[s].creator_claimed_periods
                           <= subscriptions'[s].prepaid_periods
                      /\ subscriptions'[s].prepaid_periods <= MaxPrepaidPeriods
    BY DEF OneNotePerPaidPeriod
  <2>1. CASE subscriptions'[s] = subscriptions[s] /\ Claims(s)' = Claims(s)
    BY <2>1 DEF OneNotePerPaidPeriod, Exists
  <2>2. CASE Begins(s)
    <3>1. Claims(s)' = {}
      BY <2>2 DEF Begins, TurnsInv, Done, Claims
    <3>2. Cardinality(Claims(s)') = 0
      BY <3>1, FS_EmptySet
    <3>3. QED
      BY <2>2, <3>2 DEF Begins, MaxPrepaidPeriods
  <2>3. ASSUME NEW a \in Performed, Acts(s, a)
        PROVE  /\ Cardinality(Claims(s)') = subscriptions'[s].creator_claimed_periods
               /\ subscriptions'[s].creator_claimed_periods <= subscriptions'[s].prepaid_periods
               /\ subscriptions'[s].prepaid_periods <= MaxPrepaidPeriods
    <3>1. PICK c \in Nat, m \in Nat :
             /\ c = subscriptions[s].creator_claimed_periods
             /\ m = subscriptions[s].prepaid_periods
      BY <2>3, ExistingRecord DEF Acts, SubscriptionRecord
    <3>2. Cardinality(Claims(s)) = c /\ c <= m /\ m <= MaxPrepaidPeriods
      BY <2>3, <3>1 DEF Acts, OneNotePerPaidPeriod
    <3>3. CASE a.operation = "CLAIM"
      <4>1. Pays(s)
        BY <2>3, <3>3 DEF Acts, Changes
      <4>2. a \notin Claims(s)
        <5>1. subscriptions[s].action_nonce \in Nat /\ Exists(s)
          BY <2>3, ExistingRecord DEF Acts, SubscriptionRecord
        <5>2. a.action_nonce \notin {b.action_nonce : b \in Done(s)}
          BY <2>3, <5>1 DEF Acts, TurnsInv
        <5>3. QED
          BY <5>2 DEF Claims, Done
      <4>3. Claims(s)' = Claims(s) \cup {a}
        BY <2>3, <3>3 DEF Acts, Claims
      <4>4. IsFiniteSet(Claims(s))
        BY FS_Subset DEF Claims, TurnsInv
      <4>5. Cardinality(Claims(s)') = c + 1
        BY <3>2, <4>2, <4>3, <4>4, FS_AddElement
      <4>6. QED
        BY <3>1, <3>2, <4>1, <4>5 DEF Pays, Claimable
    <3>4. CASE a.operation # "CLAIM"
      <4>1. Claims(s)' = Claims(s)
        BY <2>3, <3>4 DEF Acts, Claims
      <4>2. QED
        BY <2>3, <3>1, <3>2, <3>4, <4>1 DEF Acts, Changes, Prepays, Ends
    <3>5. QED
      BY <3>3, <3>4
  <2>4. QED
    <3>1. CASE Quiet
      BY <2>1, <3>1 DEF Quiet, Claims
    <3>2. ASSUME NEW d \in SubscriptionIds, d # s, Begins(d)
          PROVE  subscriptions'[s] = subscriptions[s] /\ Claims(s)' = Claims(s)
      BY <3>2 DEF Begins, SameBut, Claims
    <3>3. ASSUME NEW d \in SubscriptionIds, d # s, NEW a \in Performed, Acts(d, a)
          PROVE  subscriptions'[s] = subscriptions[s] /\ Claims(s)' = Claims(s)
      BY <3>3 DEF Acts, SameBut, Claims
    <3>4. QED
      BY <2>1, <2>2, <2>3, <3>1, <3>2, <3>3, StepKinds
<1>3. QED
  BY <1>1, <1>2, TypeCorrect, TurnsCorrect, PTL DEF Spec

\* An action other than an expiry is in the history only with a receipt for it.
SignedInv ==
    \A a \in {c \in performed : c.operation # "EXPIRE"} :
        \E r \in receipts :
            /\ r.proof = a.proof
            /\ r.role = RoleCommitment(a.subscription_id, a.role)
            /\ r.statement.subscription_id = a.subscription_id
            /\ r.statement.operation = a.operation
            /\ r.statement.action_nonce = a.action_nonce
            /\ r.statement.payload = a.payload

\* SignedInv: assert_authorized found the receipt, receipts stay signed, and the
\* role commitments of a subscription with a history never change.
LEMMA SignedCorrect == Spec => []SignedInv
<1>1. Init => SignedInv
  BY DEF Init, SubscriptionInit, SignedInv
<1>2. TypeOK /\ TurnsInv /\ SignedInv /\ [Next]_vars => SignedInv'
  <2> SUFFICES ASSUME TypeOK, TurnsInv, SignedInv, [Next]_vars,
                      NEW b \in performed', b.operation # "EXPIRE"
               PROVE  \E r \in receipts' :
                        /\ r.proof = b.proof
                        /\ r.role = RoleCommitment(b.subscription_id, b.role)'
                        /\ r.statement.subscription_id = b.subscription_id
                        /\ r.statement.operation = b.operation
                        /\ r.statement.action_nonce = b.action_nonce
                        /\ r.statement.payload = b.payload
    BY DEF SignedInv, RoleCommitment
  <2>1. receipts \subseteq receipts'
    BY TimeAndReceiptsGrow DEF OnlyGrow
  <2>2. CASE b \in performed
    <3> DEFINE d == b.subscription_id
    <3>1. d \in SubscriptionIds /\ Exists(d)
      BY <2>2 DEF TypeOK, Performed, TurnsInv, Done
    <3>2. RoleCommitment(d, b.role)' = RoleCommitment(d, b.role)
      BY <3>1, StepKinds DEF Quiet, Begins, Acts, SameBut, SameTerms, RoleCommitment
    <3>3. QED
      BY <2>1, <2>2, <3>2 DEF SignedInv
  <2>3. ASSUME NEW s \in SubscriptionIds, NEW a \in Performed, Acts(s, a), b = a
        PROVE  \E r \in receipts' :
                        /\ r.proof = b.proof
                        /\ r.role = RoleCommitment(b.subscription_id, b.role)'
                        /\ r.statement.subscription_id = b.subscription_id
                        /\ r.statement.operation = b.operation
                        /\ r.statement.action_nonce = b.action_nonce
                        /\ r.statement.payload = b.payload
    <3> DEFINE r == [role |-> RoleCommitment(s, a.role),
                     statement |-> ActionStatement(s, a.operation, a.payload),
                     proof |-> a.proof]
    <3>1. r \in receipts'
      BY <2>1, <2>3 DEF Acts, Signed, SignatureValid
    <3>2. RoleCommitment(s, a.role)' = RoleCommitment(s, a.role)
      BY <2>3 DEF Acts, SameTerms, RoleCommitment
    <3>3. QED
      BY <2>3, <3>1, <3>2 DEF Acts, ActionStatement
  <2>4. QED
    BY <2>2, <2>3, StepKinds DEF Quiet, Begins, Acts
<1>3. QED
  BY <1>1, <1>2, TypeCorrect, TurnsCorrect, PTL DEF Spec

\* The actions form one numbered sequence and each is what its role signed for
\* that place in it.
THEOREM ActionsCorrect == Spec => []ActionsSignedInTurn
<1>1. TurnsInv /\ SignedInv => ActionsSignedInTurn
  BY DEF TurnsInv, SignedInv, ActionsSignedInTurn, Done
<1>2. QED
  BY <1>1, TurnsCorrect, SignedCorrect, PTL

-----------------------------------------------------------------------------
(* The money.                                                              *)

\* The units of the periods P of s, n each.
Units(s, P, n) == {s} \X (P \X (1..n))

\* So many periods of so many units each.
LEMMA PeriodUnits ==
    ASSUME NEW s, NEW P, IsFiniteSet(P), NEW n \in Nat
    PROVE  /\ IsFiniteSet(Units(s, P, n))
           /\ Cardinality(Units(s, P, n)) = Cardinality(P) * n
<1> DEFINE Q == P \X (1..n)
<1>1. IsFiniteSet(1..n) /\ Cardinality(1..n) = n
  BY FS_Interval
<1>2. IsFiniteSet(Q) /\ Cardinality(Q) = Cardinality(P) * n
  BY <1>1, FS_Product
<1>3. IsFiniteSet({s}) /\ Cardinality({s}) = 1
  BY FS_Singleton
<1>4. Cardinality(Q) \in Nat
  BY <1>2, FS_CardinalityType
<1> HIDE DEF Q
<1>5. /\ IsFiniteSet({s} \X Q)
      /\ Cardinality({s} \X Q) = Cardinality({s}) * Cardinality(Q)
  BY <1>2, <1>3, FS_Product
<1>6. IsFiniteSet({s} \X Q) /\ Cardinality({s} \X Q) = Cardinality(Q)
  BY <1>3, <1>4, <1>5
<1>7. QED
  BY <1>2, <1>6 DEF Q, Units

\* Disjoint finite sets add up.
LEMMA DisjointAdded ==
    ASSUME NEW S, IsFiniteSet(S), NEW U, IsFiniteSet(U), S \cap U = {}
    PROVE  /\ IsFiniteSet(S \cup U)
           /\ Cardinality(S \cup U) = Cardinality(S) + Cardinality(U)
<1>1. Cardinality(S) \in Nat /\ Cardinality(U) \in Nat /\ Cardinality(S \cap U) = 0
  BY FS_CardinalityType, FS_EmptySet
<1>2. /\ IsFiniteSet(S \cup U)
      /\ Cardinality(S \cup U) = Cardinality(S) + Cardinality(U) - Cardinality(S \cap U)
  BY FS_Union
<1>3. QED
  BY <1>1, <1>2

\* A subset leaves the rest.
LEMMA SubsetRemoved ==
    ASSUME NEW S, IsFiniteSet(S), NEW U, U \subseteq S
    PROVE  /\ IsFiniteSet(S \ U)
           /\ Cardinality(S \ U) = Cardinality(S) - Cardinality(U)
<1>1. S \cap U = U
  OBVIOUS
<1>2. IsFiniteSet(S \ U) /\ Cardinality(S \ U) = Cardinality(S) - Cardinality(S \cap U)
  BY FS_Difference
<1>3. QED
  BY <1>1, <1>2

\* AccountedIsUnclaimed with the finiteness its induction needs.
AccountedInv ==
    \A t \in Tokens : IsFiniteSet(OwedUnits(t)) /\ accounted[t] = Cardinality(OwedUnits(t))

\* A step on one subscription of token t leaves what is owed in others alone.
LEMMA OtherTokens ==
    ASSUME NEW s \in SubscriptionIds, SameBut(s), Exists(s)', NEW t \in Tokens,
           subscriptions'[s].token = t, Exists(s) => subscriptions[s].token = t,
           NEW u \in Tokens, u # t
    PROVE  OwedUnits(u)' = OwedUnits(u)
<1>1. ASSUME NEW d \in SubscriptionIds, d # s
      PROVE  /\ subscriptions'[d] = subscriptions[d] /\ (Exists(d)' <=> Exists(d))
             /\ UnclaimedUnits(d)' = UnclaimedUnits(d)
  BY <1>1 DEF SameBut, Exists, UnclaimedUnits, UnclaimedPeriods
<1>2. {d \in SubscriptionIds : Exists(d)' /\ subscriptions'[d].token = u}
      = {d \in SubscriptionIds : Exists(d) /\ subscriptions[d].token = u}
  BY <1>1
<1>3. ASSUME NEW d \in {d \in SubscriptionIds : Exists(d) /\ subscriptions[d].token = u}
      PROVE  UnclaimedUnits(d)' = UnclaimedUnits(d)
  BY <1>1
<1>4. QED
  BY <1>2, <1>3 DEF OwedUnits

\* Where the units of an owed set come from.
LEMMA OwedMember ==
    ASSUME NEW t, NEW x
    PROVE  x \in OwedUnits(t) <=>
             \E d \in SubscriptionIds : /\ Exists(d) /\ subscriptions[d].token = t
                                       /\ x \in UnclaimedUnits(d)
  BY DEF OwedUnits

\* A step that pays for periods P of s makes their units owed.
LEMMA PeriodsAdded ==
    ASSUME NEW s \in SubscriptionIds, SameBut(s), Exists(s)', NEW t \in Tokens,
           subscriptions'[s].token = t, Exists(s) => subscriptions[s].token = t,
           NEW P, NEW n \in Nat,
           UnclaimedUnits(s)' = (IF Exists(s) THEN UnclaimedUnits(s) ELSE {})
                                  \cup Units(s, P, n),
           Exists(s) => UnclaimedPeriods(s) \cap P = {}
    PROVE  /\ OwedUnits(t)' = OwedUnits(t) \cup Units(s, P, n)
           /\ OwedUnits(t) \cap Units(s, P, n) = {}
<1> DEFINE units == Units(s, P, n)
<1>1. ASSUME NEW d \in SubscriptionIds, d # s
      PROVE  /\ subscriptions'[d] = subscriptions[d] /\ (Exists(d)' <=> Exists(d))
             /\ UnclaimedUnits(d)' = UnclaimedUnits(d)
  BY <1>1 DEF SameBut, Exists, UnclaimedUnits, UnclaimedPeriods
<1>2. ASSUME NEW x
      PROVE  x \in OwedUnits(t)' <=>
               \E d \in SubscriptionIds : /\ Exists(d)' /\ subscriptions'[d].token = t
                                         /\ x \in UnclaimedUnits(d)'
  BY DEF OwedUnits
<1>3. ASSUME NEW x \in OwedUnits(t)'
      PROVE  x \in OwedUnits(t) \cup units
  BY <1>1, <1>2, OwedMember
<1>4. ASSUME NEW x \in OwedUnits(t)
      PROVE  x \in OwedUnits(t)'
  BY <1>1, <1>2, OwedMember
<1>5. ASSUME NEW x \in units
      PROVE  x \in OwedUnits(t)'
  BY <1>2
<1>6. ASSUME NEW x \in OwedUnits(t), x \in units
      PROVE  FALSE
  <2>1. PICK d \in SubscriptionIds : Exists(d) /\ x \in UnclaimedUnits(d)
    BY <1>6, OwedMember
  <2>2. PICK q \in P, i \in 1..n : x = <<s, <<q, i>>>>
    BY <1>6 DEF Units
  <2>3. d = s /\ q \in UnclaimedPeriods(s)
    BY <2>1, <2>2 DEF UnclaimedUnits
  <2>4. QED
    BY <2>1, <2>3
<1>7. QED
  BY <1>3, <1>4, <1>5, <1>6

\* A step that pays out period q of s makes its units no longer owed.
LEMMA PeriodRemoved ==
    ASSUME NEW s \in SubscriptionIds, SameBut(s), Exists(s), Exists(s)', NEW t \in Tokens,
           subscriptions'[s].token = t, subscriptions[s].token = t,
           NEW P, NEW n \in Nat,
           UnclaimedUnits(s)' = UnclaimedUnits(s) \ Units(s, P, n),
           Units(s, P, n) \subseteq UnclaimedUnits(s)
    PROVE  /\ OwedUnits(t)' = OwedUnits(t) \ Units(s, P, n)
           /\ Units(s, P, n) \subseteq OwedUnits(t)
<1> DEFINE units == Units(s, P, n)
<1>1. ASSUME NEW d \in SubscriptionIds, d # s
      PROVE  /\ subscriptions'[d] = subscriptions[d] /\ (Exists(d)' <=> Exists(d))
             /\ UnclaimedUnits(d)' = UnclaimedUnits(d)
             /\ UnclaimedUnits(d) \cap units = {}
  <2>1. /\ subscriptions'[d] = subscriptions[d] /\ (Exists(d)' <=> Exists(d))
        /\ UnclaimedUnits(d)' = UnclaimedUnits(d)
    BY <1>1 DEF SameBut, Exists, UnclaimedUnits, UnclaimedPeriods
  <2>2. UnclaimedUnits(d) \cap units = {}
    BY <1>1 DEF UnclaimedUnits
  <2>3. QED
    BY <2>1, <2>2
<1>2. ASSUME NEW x
      PROVE  x \in OwedUnits(t)' <=>
               \E d \in SubscriptionIds : /\ Exists(d)' /\ subscriptions'[d].token = t
                                         /\ x \in UnclaimedUnits(d)'
  BY DEF OwedUnits
<1>3. ASSUME NEW x \in OwedUnits(t)'
      PROVE  x \in OwedUnits(t) \ units
  <2>1. PICK d \in SubscriptionIds : /\ Exists(d)' /\ subscriptions'[d].token = t
                                     /\ x \in UnclaimedUnits(d)'
    BY <1>2, <1>3
  <2>2. x \in UnclaimedUnits(d) /\ x \notin units /\ Exists(d) /\ subscriptions[d].token = t
    BY <1>1, <2>1
  <2>3. QED
    BY <2>2, OwedMember
<1>4. ASSUME NEW x \in OwedUnits(t), x \notin units
      PROVE  x \in OwedUnits(t)'
  BY <1>1, <1>2, <1>4, OwedMember
<1>5. units \subseteq OwedUnits(t)
  BY OwedMember
<1>6. QED
  BY <1>3, <1>4, <1>5

\* AccountedInv, by induction: what start, prepay and claim do to both sides.
THEOREM AccountedInvCorrect == Spec => []AccountedInv
<1>1. Init => AccountedInv
  <2>1. ASSUME Init, NEW t \in Tokens
        PROVE  OwedUnits(t) = {}
    BY <2>1 DEF Init, SubscriptionInit, OwedUnits, Exists, NoSubscription
  <2>2. QED
    BY <2>1, FS_EmptySet DEF Init, SubscriptionInit, AccountedInv
<1>2. TypeOK /\ OneNotePerPaidPeriod /\ AccountedInv /\ [Next]_vars => AccountedInv'
  <2> SUFFICES ASSUME TypeOK, OneNotePerPaidPeriod, AccountedInv, [Next]_vars
               PROVE  AccountedInv'
    OBVIOUS
  <2>1. CASE Quiet
    <3>1. \A t : OwedUnits(t)' = OwedUnits(t)
      BY <2>1 DEF Quiet, OwedUnits, UnclaimedUnits, UnclaimedPeriods, Exists
    <3>2. QED
      BY <2>1, <3>1 DEF Quiet, AccountedInv
  <2>2. ASSUME NEW s \in SubscriptionIds, SameBut(s), Exists(s)', NEW t \in Tokens,
               subscriptions'[s].token = t, Exists(s) => subscriptions[s].token = t,
               NEW P, IsFiniteSet(P), NEW k \in Nat, Cardinality(P) = k, NEW n \in Nat,
               UnclaimedUnits(s)' = (IF Exists(s) THEN UnclaimedUnits(s) ELSE {})
                                      \cup Units(s, P, n),
               Exists(s) => UnclaimedPeriods(s) \cap P = {},
               accounted' = [accounted EXCEPT ![t] = @ + k * n]
        PROVE  AccountedInv'
    <3> DEFINE units == Units(s, P, n)
    <3>1. IsFiniteSet(OwedUnits(t)) /\ accounted[t] = Cardinality(OwedUnits(t))
      BY DEF AccountedInv
    <3>2. OwedUnits(t)' = OwedUnits(t) \cup units /\ OwedUnits(t) \cap units = {}
      BY <2>2, PeriodsAdded
    <3>3. IsFiniteSet(units) /\ Cardinality(units) = k * n
      <4>1. IsFiniteSet(units) /\ Cardinality(units) = Cardinality(P) * n
        BY <2>2, PeriodUnits
      <4>2. QED
        BY <2>2, <4>1
    <3> HIDE DEF units
    <3>4. /\ IsFiniteSet(OwedUnits(t)')
          /\ Cardinality(OwedUnits(t)') = Cardinality(OwedUnits(t)) + Cardinality(units)
      BY <3>1, <3>2, <3>3, DisjointAdded
    <3>5. accounted'[t] = accounted[t] + k * n
      BY <2>2 DEF TypeOK
    <3>6. accounted'[t] = Cardinality(OwedUnits(t)')
      BY <3>1, <3>3, <3>4, <3>5
    <3>7. ASSUME NEW u \in Tokens, u # t
          PROVE  accounted'[u] = accounted[u] /\ OwedUnits(u)' = OwedUnits(u)
      <4>1. OwedUnits(u)' = OwedUnits(u)
        BY <2>2, <3>7, OtherTokens
      <4>2. accounted'[u] = accounted[u]
        BY <2>2, <3>7 DEF TypeOK
      <4>3. QED
        BY <4>1, <4>2
    <3>8. \A u \in Tokens : /\ IsFiniteSet(OwedUnits(u)')
                            /\ accounted'[u] = Cardinality(OwedUnits(u)')
      BY <3>4, <3>6, <3>7 DEF AccountedInv
    <3>9. QED
      BY <3>8 DEF AccountedInv
  <2>3. ASSUME NEW s \in SubscriptionIds, Begins(s)
        PROVE  AccountedInv'
    <3>1. PICK t \in Tokens, n \in Nat :
             t = subscriptions'[s].token /\ n = subscriptions'[s].amount_per_period
      BY <2>3 DEF Begins, SubscriptionRecord
    <3>2. UnclaimedUnits(s)' = Units(s, {1}, n)
      BY <2>3, <3>1 DEF Begins, UnclaimedUnits, UnclaimedPeriods, Units
    <3>3. /\ accounted' = [accounted EXCEPT ![t] = @ + 1 * n]
          /\ SameBut(s) /\ ~Exists(s) /\ Exists(s)'
      <4>1. 1 * n = n
        OBVIOUS
      <4>2. QED
        BY <2>3, <3>1, <4>1 DEF Begins, Takes, Exists
    <3>4. IsFiniteSet({1}) /\ Cardinality({1}) = 1
      BY FS_Singleton
    <3>5. UnclaimedUnits(s)' = (IF Exists(s) THEN UnclaimedUnits(s) ELSE {})
                                  \cup Units(s, {1}, n)
      BY <3>2, <3>3
    <3>6. QED
      BY <2>2, <3>1, <3>3, <3>4, <3>5
  <2>4. ASSUME NEW s \in SubscriptionIds, NEW a \in Performed, Acts(s, a)
        PROVE  AccountedInv'
    <3>1. /\ subscriptions[s] \in SubscriptionRecord /\ Exists(s)
          /\ Exists(s)' /\ SameBut(s)
      BY <2>4, ExistingRecord DEF Acts, Exists, SubscriptionRecord
    <3>2. PICK t \in Tokens, n \in Nat, c \in Nat, m \in Nat :
             /\ t = subscriptions[s].token /\ n = subscriptions[s].amount_per_period
             /\ c = subscriptions[s].creator_claimed_periods
             /\ m = subscriptions[s].prepaid_periods
      BY <3>1 DEF SubscriptionRecord
    <3>3. subscriptions'[s].token = t /\ subscriptions'[s].amount_per_period = n
      BY <2>4, <3>2 DEF Acts, SameTerms
    <3>4. UnclaimedPeriods(s) = (c + 1)..m /\ c <= m
      BY <3>1, <3>2 DEF UnclaimedPeriods, OneNotePerPaidPeriod
    <3>5. UnclaimedUnits(s) = Units(s, (c + 1)..m, n)
      BY <3>2, <3>4 DEF UnclaimedUnits, Units
    <3>6. CASE Prepays(s, a.payload)
      <4>1. PICK k \in Nat : k = a.payload
        BY <3>6 DEF Prepays
      <4> DEFINE P == (m + 1)..(m + k)
      <4>2. UnclaimedUnits(s)' = Units(s, (c + 1)..(m + k), n)
        BY <3>2, <3>3, <3>6, <4>1 DEF Prepays, UnclaimedUnits, UnclaimedPeriods, Units
      <4>3. (c + 1)..(m + k) = ((c + 1)..m) \cup P /\ ((c + 1)..m) \cap P = {}
        BY <3>4
      <4>4. IsFiniteSet(P) /\ Cardinality(P) = k
        BY FS_Interval
      <4>5. n * k = k * n
        OBVIOUS
      <4>6. accounted' = [accounted EXCEPT ![t] = @ + k * n]
        BY <3>2, <3>6, <4>1, <4>5 DEF Prepays, Takes
      <4> HIDE DEF P
      <4>7. UnclaimedUnits(s)' = (IF Exists(s) THEN UnclaimedUnits(s) ELSE {})
                                    \cup Units(s, P, n)
        <5>1. UnclaimedUnits(s)' = UnclaimedUnits(s) \cup Units(s, P, n)
          BY <3>5, <4>2, <4>3 DEF Units
        <5>2. QED
          BY <3>1, <5>1
      <4>8. UnclaimedPeriods(s) \cap P = {}
        BY <3>4, <4>3
      <4>9. QED
        BY <2>2, <3>1, <3>2, <3>3, <4>4, <4>6, <4>7, <4>8
    <3>7. CASE Ends(s)
      <4>1. UnclaimedUnits(s)' = UnclaimedUnits(s) /\ accounted' = accounted
        BY <3>2, <3>3, <3>7 DEF Ends, UnclaimedUnits, UnclaimedPeriods
      <4>2. \A d \in SubscriptionIds : /\ UnclaimedUnits(d)' = UnclaimedUnits(d)
                                       /\ (Exists(d)' <=> Exists(d))
                                       /\ Exists(d) => subscriptions'[d].token = subscriptions[d].token
        BY <3>1, <3>2, <3>3, <4>1 DEF SameBut, UnclaimedUnits, UnclaimedPeriods, Exists
      <4>3. \A u : OwedUnits(u)' = OwedUnits(u)
        BY <4>2 DEF OwedUnits
      <4>4. QED
        BY <4>1, <4>3 DEF AccountedInv
    <3>8. CASE Pays(s)
      <4> DEFINE P == {c + 1}
                 units == Units(s, P, n)
      <4>1. c < m
        BY <3>2, <3>8 DEF Pays, Claimable
      <4>2. (c + 2)..m = ((c + 1)..m) \ P /\ P \subseteq (c + 1)..m
        BY <4>1
      <4>3. UnclaimedUnits(s)' = Units(s, (c + 2)..m, n)
        <5>1. (c + 1) + 1 = c + 2
          OBVIOUS
        <5>2. QED
          BY <3>2, <3>3, <3>8, <5>1 DEF Pays, UnclaimedUnits, UnclaimedPeriods, Units
      <4>4. IsFiniteSet(P) /\ Cardinality(P) = 1
        BY FS_Singleton
      <4> HIDE DEF P
      <4>5. /\ UnclaimedUnits(s)' = UnclaimedUnits(s) \ units
            /\ units \subseteq UnclaimedUnits(s)
        BY <3>5, <4>2, <4>3 DEF Units
      <4>6. Cardinality(units) = n
        <5>1. Cardinality(units) = Cardinality(P) * n
          BY <4>4, PeriodUnits
        <5>2. QED
          BY <4>4, <5>1
      <4>7. OwedUnits(t)' = OwedUnits(t) \ units /\ units \subseteq OwedUnits(t)
        BY <3>1, <3>2, <3>3, <4>5, PeriodRemoved
      <4>8. IsFiniteSet(OwedUnits(t)) /\ accounted[t] = Cardinality(OwedUnits(t))
        BY DEF AccountedInv
      <4> HIDE DEF units
      <4>9. /\ IsFiniteSet(OwedUnits(t)')
            /\ Cardinality(OwedUnits(t)') = Cardinality(OwedUnits(t)) - Cardinality(units)
        BY <4>7, <4>8, SubsetRemoved
      <4>10. accounted' = [accounted EXCEPT ![t] = @ - n]
        BY <3>2, <3>8 DEF Pays, Release
      <4>11. accounted'[t] = Cardinality(OwedUnits(t)')
        BY <4>6, <4>8, <4>9, <4>10 DEF TypeOK
      <4>12. ASSUME NEW u \in Tokens, u # t
             PROVE  accounted'[u] = accounted[u] /\ OwedUnits(u)' = OwedUnits(u)
        <5>1. OwedUnits(u)' = OwedUnits(u)
          BY <3>1, <3>2, <3>3, <4>12, OtherTokens
        <5>2. accounted'[u] = accounted[u]
          BY <4>10, <4>12 DEF TypeOK
        <5>3. QED
          BY <5>1, <5>2
      <4>13. \A u \in Tokens : /\ IsFiniteSet(OwedUnits(u)')
                               /\ accounted'[u] = Cardinality(OwedUnits(u)')
        BY <4>9, <4>11, <4>12 DEF AccountedInv
      <4>14. QED
        BY <4>13 DEF AccountedInv
    <3>9. QED
      BY <2>4, <3>6, <3>7, <3>8 DEF Acts, Changes
  <2>5. QED
    BY <2>1, <2>3, <2>4, StepKinds
<1>3. QED
  BY <1>1, <1>2, TypeCorrect, NotesCorrect, PTL DEF Spec

\* The accounted balance is what the unclaimed periods add up to.
THEOREM AccountedCorrect == Spec => []AccountedIsUnclaimed
<1>1. AccountedInv => AccountedIsUnclaimed
  BY DEF AccountedInv, AccountedIsUnclaimed
<1>2. QED
  BY <1>1, AccountedInvCorrect, PTL

\* The balance never falls below what is accounted: assert_received accepts only
\* what it covers on top of the rest, and a claim lowers both alike.
LEMMA AccountedCovered == Spec => [](\A t \in Tokens : accounted[t] <= balance[t])
<1> DEFINE Covered == \A t \in Tokens : accounted[t] <= balance[t]
<1>1. Init => Covered
  BY DEF Init, SubscriptionInit
<1>2. TypeOK /\ Covered /\ [Next]_vars => Covered'
  <2> SUFFICES ASSUME TypeOK, Covered, [Next]_vars, NEW t \in Tokens
               PROVE  accounted'[t] <= balance'[t]
    OBVIOUS
  <2>1. /\ accounted[t] \in Nat /\ balance[t] \in Nat /\ balance'[t] \in Nat
        /\ accounted[t] <= balance[t]
    BY NextType DEF TypeOK
  <2>2. ASSUME accounted'[t] = accounted[t], balance[t] <= balance'[t]
        PROVE  accounted'[t] <= balance'[t]
    BY <2>1, <2>2
  <2>3. ASSUME NEW u \in Tokens, NEW n, Takes(u, n)
        PROVE  accounted'[t] <= balance'[t]
    <3>1. CASE u = t
      BY <2>3, <3>1 DEF Takes
    <3>2. CASE u # t
      BY <2>2, <2>3, <3>2 DEF Takes, TypeOK
    <3>3. QED
      BY <3>1, <3>2
  <2>4. CASE Quiet
    BY <2>2, <2>4 DEF Quiet
  <2>5. ASSUME NEW s \in SubscriptionIds, Begins(s)
        PROVE  accounted'[t] <= balance'[t]
    BY <2>3, <2>5 DEF Begins, SubscriptionRecord
  <2>6. ASSUME NEW s \in SubscriptionIds, NEW a \in Performed, Acts(s, a)
        PROVE  accounted'[t] <= balance'[t]
    <3>1. PICK u \in Tokens, n \in Nat :
             u = subscriptions[s].token /\ n = subscriptions[s].amount_per_period
      BY <2>6, ExistingRecord DEF Acts, SubscriptionRecord
    <3>2. CASE Prepays(s, a.payload)
      BY <2>3, <3>1, <3>2 DEF Prepays
    <3>3. CASE Ends(s)
      BY <2>1, <3>3 DEF Ends
    <3>4. CASE Pays(s)
      BY <2>1, <3>1, <3>4 DEF Pays, Release, TypeOK
    <3>5. QED
      BY <2>6, <3>2, <3>3, <3>4 DEF Acts, Changes
  <2>7. QED
    BY <2>4, <2>5, <2>6, StepKinds
<1>3. QED
  BY <1>1, <1>2, TypeCorrect, PTL DEF Spec

\* Every paid period can be claimed whatever happened before: its amount is still
\* accounted, and everything accounted is in the balance.
THEOREM SolventAlways == Spec => []Solvent
<1>1. TypeOK /\ AccountedInv => \A s \in SubscriptionIds : Claimable(s) =>
          subscriptions[s].amount_per_period <= accounted[subscriptions[s].token]
  <2> SUFFICES ASSUME TypeOK, AccountedInv, NEW s \in SubscriptionIds, Claimable(s)
               PROVE  subscriptions[s].amount_per_period <= accounted[subscriptions[s].token]
    OBVIOUS
  <2>1. PICK t \in Tokens, n \in Nat, c \in Nat, m \in Nat :
           /\ t = subscriptions[s].token /\ n = subscriptions[s].amount_per_period
           /\ c = subscriptions[s].creator_claimed_periods
           /\ m = subscriptions[s].prepaid_periods
    BY ExistingRecord DEF Claimable, SubscriptionRecord
  <2> DEFINE P == {c + 1}
             units == Units(s, P, n)
  <2>2. P \subseteq UnclaimedPeriods(s)
    BY <2>1 DEF Claimable, UnclaimedPeriods
  <2>3. units \subseteq OwedUnits(t)
    <3>1. units \subseteq UnclaimedUnits(s)
      BY <2>1, <2>2 DEF UnclaimedUnits, Units
    <3>2. QED
      BY <2>1, <3>1, OwedMember DEF Claimable
  <2>4. IsFiniteSet(P) /\ Cardinality(P) = 1
    BY FS_Singleton
  <2> HIDE DEF P
  <2>5. Cardinality(units) = n
    <3>1. Cardinality(units) = Cardinality(P) * n
      BY <2>4, PeriodUnits
    <3>2. QED
      BY <2>4, <3>1
  <2>6. IsFiniteSet(OwedUnits(t)) /\ accounted[t] = Cardinality(OwedUnits(t))
    BY DEF AccountedInv
  <2> HIDE DEF units
  <2>7. Cardinality(units) <= Cardinality(OwedUnits(t))
    BY <2>3, <2>6, FS_Subset
  <2>8. QED
    BY <2>1, <2>5, <2>6, <2>7
<1>2. QED
  BY <1>1, TypeCorrect, AccountedInvCorrect, AccountedCovered, PTL DEF Solvent

=============================================================================
