----------------------- MODULE GigstarkSubscriptions -----------------------
(***************************************************************************)
(* GigstarkSubscriptions (contracts/src/subscriptions.cairo) composed with *)
(* the passport it is constructed with, the ERC-20 balance it holds, and   *)
(* the privacy pool that calls it.                                         *)
(*                                                                         *)
(* As in GigstarkEscrow one action is one transaction: Start and Prepay    *)
(* begin with the pool's withdraw to the contract, Claim ends with the     *)
(* pool pulling what was approved into the creator's note (both external). *)
(* The tier is a label no operation reads, and is left out.                *)
(***************************************************************************)
EXTENDS GigstarkPassport

CONSTANTS
    SubscriptionIds,        \* ids used (non-zero)
    SubscriptionContract,   \* the contract's address
    Tokens,
    Amounts,                \* amounts per period a member may choose
    Notes,                  \* pool note ids (non-zero felts)
    MaxDonation             \* bound on tokens sent to the contract directly

ASSUME SubscriptionAssumption ==
    /\ IsFiniteSet(SubscriptionIds)
    /\ Amounts \subseteq Nat \ {0}
    /\ MaxDonation \in Nat

VARIABLES
    subscriptions,      \* storage: subscription id -> record
    accounted,          \* storage: token -> accounted balance
    balance,            \* external: the contract's ERC-20 balance per token
    donated,            \* history: tokens received outside start and prepay
    startedAt,          \* history: subscription id -> time of its start
    performed           \* history: the actions that changed a subscription

moneyVars == <<accounted, balance, donated>>
subscriptionVars == <<subscriptions, moneyVars, startedAt, performed>>
vars == <<now, passportVars, subscriptionVars>>

MaxPrepaidPeriods == 3

Status == {"NONE", "ACTIVE", "CANCELLED", "EXPIRED"}
Role == {"MEMBER", "CREATOR"}
Operation == {"PREPAY", "CANCEL", "CLAIM"}

\* What a receipt's statement carries besides the operation: the periods of a
\* prepayment, the note of a claim, or zero.
Payloads == (0..MaxPrepaidPeriods) \cup Notes

SubscriptionRecord ==
    [member_commitment: Commitments, creator_commitment: Commitments,
     token: Tokens, amount_per_period: Nat \ {0}, period_seconds: Nat \ {0},
     period_ends_at: Nat, prepaid_periods: Nat, creator_claimed_periods: Nat,
     status: Status \ {"NONE"}, action_nonce: Nat]

NoSubscription == [status |-> "NONE"]    \* the zero record of the storage map

Statement ==
    [contract: {SubscriptionContract}, subscription_id: SubscriptionIds,
     operation: Operation, action_nonce: Nat, payload: Payloads]

NoProof == [purpose |-> "NONE"]          \* expire takes none

Performed ==
    [subscription_id: SubscriptionIds, role: Role \cup {"ANYONE"},
     operation: Operation \cup {"EXPIRE"}, action_nonce: Nat, payload: Payloads,
     proof: Proof \cup {NoProof}]

Exists(s) == subscriptions[s].status # "NONE"
Active(s) == subscriptions[s].status = "ACTIVE"

SubscriptionInit ==
    /\ subscriptions = [s \in SubscriptionIds |-> NoSubscription]
    /\ accounted = [t \in Tokens |-> 0]
    /\ balance = [t \in Tokens |-> 0]
    /\ donated = [t \in Tokens |-> 0]
    /\ startedAt = [s \in SubscriptionIds |-> 0]
    /\ performed = {}

Init == ClockInit /\ PassportInit /\ SubscriptionInit

-----------------------------------------------------------------------------
(* Shared by the handlers.                                                 *)

ActionStatement(s, operation, payload) ==
    [contract |-> SubscriptionContract, subscription_id |-> s,
     operation |-> operation, action_nonce |-> subscriptions[s].action_nonce,
     payload |-> payload]

RoleCommitment(s, role) ==
    IF role = "MEMBER" THEN subscriptions[s].member_commitment
                       ELSE subscriptions[s].creator_commitment

\* Plausible bug: the payload is not bound, so any receipt of the operation does.
AuthorizedForAny(s, role, operation, payload, proof) ==
    /\ proof.purpose = "SUBSCRIPTION_ROLE"
    /\ \E other \in Payloads :
          ConsumeAuthorization(SubscriptionContract, RoleCommitment(s, role),
                               ActionStatement(s, operation, other), proof)

AssertAuthorized(s, role, operation, payload, proof) ==
    /\ proof.purpose = "SUBSCRIPTION_ROLE"
    /\ ConsumeAuthorization(SubscriptionContract, RoleCommitment(s, role),
                            ActionStatement(s, operation, payload), proof)

\* Plausible bug: the balance is compared with the new amount alone.
ReceivedAlone(t, amount, sent) ==
    /\ balance[t] + sent >= amount
    /\ balance' = [balance EXCEPT ![t] = @ + sent]
    /\ accounted' = [accounted EXCEPT ![t] = @ + amount]

\* assert_received, after the pool's withdraw of `sent` tokens to the contract.
\* The contract cannot see the withdraw: it looks at the balance only.
AssertReceived(t, amount, sent) ==
    /\ balance[t] + sent >= accounted[t] + amount
    /\ balance' = [balance EXCEPT ![t] = @ + sent]
    /\ accounted' = [accounted EXCEPT ![t] = @ + amount]

\* subscriptions[s] becomes `record`, with the nonce of the action added.
Write(s, record) ==
    subscriptions' = [subscriptions EXCEPT ![s] =
                        [record EXCEPT !.action_nonce = @ + 1]]

\* History only: who did what to s, at which nonce, under which proof.
Log(s, role, operation, payload, proof) ==
    performed' = performed \cup
        {[subscription_id |-> s, role |-> role, operation |-> operation,
          action_nonce |-> subscriptions[s].action_nonce, payload |-> payload,
          proof |-> proof]}

-----------------------------------------------------------------------------
(* privacy_invoke, one action per operation.                               *)

Start(s, member, creator, t, amount, ends, sent) ==
    /\ member # creator
    /\ ends > now
    /\ ~Exists(s)
    /\ AssertReceived(t, amount, sent)
    /\ subscriptions' = [subscriptions EXCEPT ![s] =
           [member_commitment |-> member, creator_commitment |-> creator,
            token |-> t, amount_per_period |-> amount,
            period_seconds |-> ends - now, period_ends_at |-> ends,
            prepaid_periods |-> 1, creator_claimed_periods |-> 0,
            status |-> "ACTIVE", action_nonce |-> 0]]
    /\ startedAt' = [startedAt EXCEPT ![s] = now]
    /\ UNCHANGED <<now, passportVars, donated, performed>>

\* Plausible bug: the bound looks at what is added, not at the sum.
PrepayableEach(s, periods) == Active(s) /\ periods \in 1..MaxPrepaidPeriods

Prepayable(s, periods) ==
    /\ Active(s)
    /\ periods # 0
    /\ subscriptions[s].prepaid_periods + periods <= MaxPrepaidPeriods

\* Plausible bug: the time is extended from the clock, not from the old end.
ExtendedFromNow(s, periods) ==
    [subscriptions[s] EXCEPT !.prepaid_periods = @ + periods,
                             !.period_ends_at = now + subscriptions[s].period_seconds * periods]

Extended(s, periods) ==
    [subscriptions[s] EXCEPT !.prepaid_periods = @ + periods,
                             !.period_ends_at = @ + subscriptions[s].period_seconds * periods]

\* The caller restates the token, the amount and the new end, which are all
\* determined by the record.
Prepay(s, periods, proof, sent) ==
    /\ Prepayable(s, periods)
    /\ AssertAuthorized(s, "MEMBER", "PREPAY", periods, proof)
    /\ AssertReceived(subscriptions[s].token,
                      subscriptions[s].amount_per_period * periods, sent)
    /\ Write(s, Extended(s, periods))
    /\ Log(s, "MEMBER", "PREPAY", periods, proof)
    /\ UNCHANGED <<now, donated, startedAt>>

Cancel(s, proof) ==
    /\ Active(s)
    /\ AssertAuthorized(s, "MEMBER", "CANCEL", 0, proof)
    /\ Write(s, [subscriptions[s] EXCEPT !.status = "CANCELLED"])
    /\ Log(s, "MEMBER", "CANCEL", 0, proof)
    /\ UNCHANGED <<now, moneyVars, startedAt>>

\* Plausible bug: a subscription whose creator has not claimed does not expire.
ExpirableClaimed(s) ==
    /\ Active(s)
    /\ now >= subscriptions[s].period_ends_at
    /\ subscriptions[s].creator_claimed_periods = subscriptions[s].prepaid_periods

\* Plausible bug: a cancelled subscription can expire as well.
ExpirableCancelled(s) == Exists(s) /\ now >= subscriptions[s].period_ends_at

Expirable(s) == Active(s) /\ now >= subscriptions[s].period_ends_at

\* expire: no role and no receipt, so anybody can have the pool call it.
Expire(s) ==
    /\ Expirable(s)
    /\ Write(s, [subscriptions[s] EXCEPT !.status = "EXPIRED"])
    /\ Log(s, "ANYONE", "EXPIRE", 0, NoProof)
    /\ UNCHANGED <<now, passportVars, moneyVars, startedAt>>

\* Whatever the status: what was paid stays claimable after the end.
Claimable(s) ==
    Exists(s) /\ subscriptions[s].creator_claimed_periods < subscriptions[s].prepaid_periods

\* Plausible bug: the claim is not counted.
ClaimNotCounted(s) == subscriptions[s]

\* Plausible bug: a claim closes the record.
ClaimCleared(s) == [subscriptions[s] EXCEPT !.status = "NONE"]

ClaimCounted(s) == [subscriptions[s] EXCEPT !.creator_claimed_periods = @ + 1]

\* The claim releases one period; the pool pulls what it approved (external).
Release(t, amount) ==
    /\ accounted[t] >= amount
    /\ balance[t] >= amount
    /\ accounted' = [accounted EXCEPT ![t] = @ - amount]
    /\ balance' = [balance EXCEPT ![t] = @ - amount]

Claim(s, note, proof) ==
    /\ Claimable(s)
    /\ AssertAuthorized(s, "CREATOR", "CLAIM", note, proof)
    /\ Write(s, ClaimCounted(s))
    /\ Release(subscriptions[s].token, subscriptions[s].amount_per_period)
    /\ Log(s, "CREATOR", "CLAIM", note, proof)
    /\ UNCHANGED <<now, donated, startedAt>>

-----------------------------------------------------------------------------
(* The world around the contract (external).                               *)

Donate(t) ==
    /\ donated[t] < MaxDonation
    /\ donated' = [donated EXCEPT ![t] = @ + 1]
    /\ balance' = [balance EXCEPT ![t] = @ + 1]
    /\ UNCHANGED <<now, passportVars, subscriptions, accounted, startedAt, performed>>

PayloadsFor(operation) ==
    CASE operation = "PREPAY" -> 1..MaxPrepaidPeriods
      [] operation = "CLAIM" -> Notes
      [] OTHER -> {0}

\* A party obtains a receipt for an operation at the current nonce; it may ask
\* for one that is not its own, and submit it late, never, or repeatedly.
PrepareReceipt(s, role, operation, payload, p, nullifier, life) ==
    /\ Exists(s)
    /\ SignReceipt(RoleCommitment(s, role), ActionStatement(s, operation, payload),
                   p, nullifier, life)
    /\ UNCHANGED <<now, subscriptionVars>>

ClockStep == Tick /\ UNCHANGED <<passportVars, subscriptionVars>>

AdminStep == PassportAdmin /\ UNCHANGED <<now, subscriptionVars>>

PrepareStep ==
    \E s \in SubscriptionIds, role \in Role, operation \in Operation, p \in PolicyIds,
       nullifier \in Nullifiers, life \in Lifetimes :
        \E payload \in PayloadsFor(operation) :
            PrepareReceipt(s, role, operation, payload, p, nullifier, life)

StartStep ==
    \E s \in SubscriptionIds, member, creator \in Commitments, t \in Tokens,
       amount \in Amounts, ends \in 1..MaxTime :
        \E sent \in {0, amount} : Start(s, member, creator, t, amount, ends, sent)

PrepayStep ==
    \E s \in SubscriptionIds, r \in receipts, periods \in 0..MaxPrepaidPeriods :
        /\ Exists(s)
        /\ \E sent \in {0, subscriptions[s].amount_per_period * periods} :
              Prepay(s, periods, r.proof, sent)

AuthorizedStep ==
    \E s \in SubscriptionIds, r \in receipts :
        \/ Cancel(s, r.proof)
        \/ \E note \in Notes : Claim(s, note, r.proof)

Next ==
    \/ ClockStep
    \/ AdminStep
    \/ PrepareStep
    \/ StartStep
    \/ PrepayStep
    \/ AuthorizedStep
    \/ \E s \in SubscriptionIds : Expire(s)
    \/ \E t \in Tokens : Donate(t)

Spec == Init /\ [][Next]_vars

\* Blocks keep coming, and expire needs nobody's cooperation: whoever cares can
\* submit it with no role, receipt or secret.
FairSpec == Spec /\ WF_vars(ClockStep) /\ \A s \in SubscriptionIds : WF_vars(Expire(s))

-----------------------------------------------------------------------------
(* Type invariant.                                                         *)

\* Every variable holds a value of its type.
TypeOK ==
    /\ now \in Nat
    /\ PassportTypeOK(Statement)
    /\ subscriptions \in [SubscriptionIds -> SubscriptionRecord \cup {NoSubscription}]
    /\ accounted \in [Tokens -> Nat]
    /\ balance \in [Tokens -> Nat]
    /\ donated \in [Tokens -> Nat]
    /\ startedAt \in [SubscriptionIds -> Nat]
    /\ performed \subseteq Performed

-----------------------------------------------------------------------------
(* Safety of the money.                                                    *)

\* The periods paid and not yet claimed.
UnclaimedPeriods(s) ==
    (subscriptions[s].creator_claimed_periods + 1)..subscriptions[s].prepaid_periods

\* One element per token unit of an unclaimed period.
UnclaimedUnits(s) ==
    {s} \X (UnclaimedPeriods(s) \X (1..subscriptions[s].amount_per_period))

OwedUnits(t) ==
    UNION {UnclaimedUnits(s) :
             s \in {d \in SubscriptionIds : Exists(d) /\ subscriptions[d].token = t}}

\* The stored counter is at all times exactly what the unclaimed periods of the
\* token add up to: what start and prepay add (subscriptions.cairo:525-532) and
\* what a claim takes (:492-500) stay in step however subscriptions interleave,
\* and a cancellation or an expiry takes nothing.
AccountedIsUnclaimed == \A t \in Tokens : accounted[t] = Cardinality(OwedUnits(t))

\* The contract can pay every period that was paid and not claimed, whatever was
\* started unfunded, donated or claimed before, and after the end as well: so no
\* creator meets ACCOUNTED_BALANCE_UNDERFLOW and the pool's pull never fails.
Solvent ==
    /\ \A t \in Tokens : accounted[t] <= balance[t]
    /\ \A s \in SubscriptionIds :
          Claimable(s) => subscriptions[s].amount_per_period <= accounted[subscriptions[s].token]

-----------------------------------------------------------------------------
(* Safety of the periods and of the authorizations.                        *)

Claims(s) == {a \in performed : a.subscription_id = s /\ a.operation = "CLAIM"}

\* "one creator note per paid period" and "at most three total prepaid periods"
\* (contracts/README.md:47-48): the claims done are the claims counted, never
\* more than what was paid, and what was paid never exceeds the bound.
OneNotePerPaidPeriod ==
    \A s \in SubscriptionIds : Exists(s) =>
        /\ Cardinality(Claims(s)) = subscriptions[s].creator_claimed_periods
        /\ subscriptions[s].creator_claimed_periods <= subscriptions[s].prepaid_periods
        /\ subscriptions[s].prepaid_periods <= MaxPrepaidPeriods

\* The actions on a subscription form one sequence, numbered by its nonce, and
\* each but an expiry is what the holder of its role had signed for that place in
\* the sequence, with that payload: a receipt prepared before another action is
\* void (docs/SECURITY_REVIEW.md:121-123).
ActionsSignedInTurn ==
    /\ \A s \in SubscriptionIds : Exists(s) =>
          LET done == {a \in performed : a.subscription_id = s}
          IN  /\ {a.action_nonce : a \in done} = 0..(subscriptions[s].action_nonce - 1)
              /\ Cardinality(done) = subscriptions[s].action_nonce
    /\ \A a \in {c \in performed : c.operation # "EXPIRE"} :
          \E r \in receipts :
              /\ r.proof = a.proof
              /\ r.role = RoleCommitment(a.subscription_id, a.role)
              /\ r.statement.subscription_id = a.subscription_id
              /\ r.statement.operation = a.operation
              /\ r.statement.action_nonce = a.action_nonce
              /\ r.statement.payload = a.payload

\* A member gets the time that was paid for: a subscription ends exactly as many
\* periods after its start as were paid, prepaid early or late, and does not
\* expire before.
PaidTimeIsGiven ==
    \A s \in SubscriptionIds : Exists(s) =>
        /\ subscriptions[s].period_ends_at =
             startedAt[s] + subscriptions[s].prepaid_periods * subscriptions[s].period_seconds
        /\ subscriptions[s].status = "EXPIRED" => now >= subscriptions[s].period_ends_at

\* An end is final and takes nothing from either side: after cancellation or
\* expiry no step reopens the subscription, adds or removes a paid period or
\* moves its end ("cancellation blocks new prepayment but does not claw back",
\* contracts/README.md:49-50); and the terms never change.
EndsAreFinal ==
    [][\A s \in SubscriptionIds : Exists(s) =>
        /\ ~Active(s) => \A f \in {"status", "prepaid_periods", "period_ends_at"} :
              subscriptions'[s][f] = subscriptions[s][f]
        /\ \A f \in {"member_commitment", "creator_commitment", "token",
                     "amount_per_period", "period_seconds"} :
              subscriptions'[s][f] = subscriptions[s][f]
        /\ subscriptions[s].creator_claimed_periods
             <= subscriptions'[s].creator_claimed_periods]_vars

-----------------------------------------------------------------------------
(* Liveness, under FairSpec.                                               *)

\* The latest end prepayments can reach is within the modelled time.
EndInReach(s) ==
    startedAt[s] + MaxPrepaidPeriods * subscriptions[s].period_seconds <= MaxTime

\* "bounded prepaid subscriptions": however the member races expire with
\* prepayments, three periods are the most there are, so a subscription ends.
SubscriptionsEnd ==
    \A s \in SubscriptionIds : (Active(s) /\ EndInReach(s)) ~> (Exists(s) /\ ~Active(s))

=============================================================================
