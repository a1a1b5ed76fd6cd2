# Formal models of Z0Studio

Z0Studio is a creator-rooms application (Next.js, Cloudflare Pages Functions on
D1) with a set of Cairo contracts, "Gigstark", that settle escrows and prepaid
subscriptions for members of a STRK20 privacy pool, and with scripts that review
a release before anything is deployed. This directory holds TLA+ models of its
stateful parts, the TLC configurations that check them on small instances, and
TLAPS proofs of the properties that matter most. Paths below are relative to the
repository root (its own `src/` directory included).

The order of work is by what a mistake costs: the contracts hold money and cannot
be patched in place, then come the browser pages that have users sign, then the
server's database races, then the review scripts.

## 1. Inventory

| Part | State it keeps | Operations | Talks to | What is hard |
|---|---|---|---|---|
| **Escrow** `contracts/src/lib.cairo` | escrow records, accounted balance per token | `privacy_invoke`: deposit, submit_delivery, confirm_delivery, open_dispute, timeout, claim; `resolve_dispute` | passport, compute verifier, ERC-20, privacy pool | racing actions, stale receipts, several escrows on one balance, timeout against everything else |
| **Passport verifier** `gigstark_passport.cairo` | policies, used nullifiers | set_policy, set_policy_active, consume_authorization | called by escrow, subscriptions, tier gate | replay, receipts held back, policies switched off and on |
| **Compute verifier** `compute_verifier.cairo` and **circuit** `compute/zk/circuits/gigstark_dispute.circom` | compute policies, used result nullifiers | set_policy, set_policy_active, consume_result | called by escrow; calls the Groth16 verifier | proofs made for another threshold, policy or dispute |
| **Subscriptions** `subscriptions.cairo` | subscription records, accounted balance per token | start, prepay, cancel, expire, claim | passport, ERC-20, pool | bounded prepayment, claims after the end, racing prepay/cancel/expire |
| **Tier gate** `tier_gate.cairo`, **enclave** `compute/enclave` | none | verify_access; evaluate | passport; a socket | |
| **Payment form** `src/components/private-payment-mvp.tsx`, `src/lib/simple-mainnet-payment.ts`, `src/lib/private-messaging.ts` | form, phase, action under review, two refs, memo keys and receipts, histories in localStorage | connect, prepare, submit, import receipt, verify, rotate keys | wallet, RPC, Web Crypto (promises) | state read before an await and used after it; overlapping handlers; reload |
| **Wallet page** `src/components/wallet-capability.tsx`, `src/lib/wallet-review.ts`, `src/lib/strk20-wallet.ts` | two panels (deposit, claim), the page's accounts | connect, edit, dry run, acknowledge, request signature | wallet, RPC | late answers for an edited panel or another account |
| **Accounts** `functions/api/auth/*`, `functions/_lib/z0studio-server.ts`, `creator/profile.ts` | users, sessions, rate-limit counters in D1; the browser's cookie | register, login, logout, me, profile | browser | uniqueness races, expiry and sign-out during a request, window edges, lost answers |
| **Rooms** `functions/api/rooms*`, `creator/rooms*`, `passes.ts`; `creator-workspace.tsx`, `managed-room-directory.tsx` | rooms, memberships, posts; the pages' lists, selection and busy flag | request access, decide, create and edit a room, post, read | accounts | statements of two requests interleaved, answers for a room no longer selected |
| **Community** `functions/api/feed.ts`, `follows*`, `reports.ts`, `creator/reports*`; `public-social-feed.tsx`, `creator-profile-list.tsx` | posts, follows, reports; drafts and local follows in localStorage | post, draft, follow, report, review | accounts | count-then-insert limit, late feed answers, stale tabs |
| **Local records** `src/lib/marketplace.ts`, `subscription.ts`, `local-workspace-backup.ts` and their three components | a copy in every tab, two entries of localStorage, backup files | marketplace and planner operations, export, import, reset, reload | other tabs through localStorage | whole entries overwritten by stale tabs |
| **Release and health reviews** `src/lib/starknet-health.ts`, `mainnet-deployment-readiness.ts`, `scripts/*.ts` | what has been read so far; two manifest files | verify a release, check the pool's health, review pools and deployment inputs | two RPC nodes, git, a reviewer, an operator | blocks and upgrades between two reads, a faulty node, commits during a build |
| Demonstration values, presentation, generated and vendored code | none worth modelling | | | |

`PROJECT.json` lists the same parts under `components` with their status, and under
`hazards` the places where each hard behaviour bites.

What makes each part correct:

- **Escrow**: money in equals money owed, per token and at all times; each escrow
  pays once, to the side it was decided for; an action needs a receipt for this
  escrow, operation, nonce and payload; decisions are final; an undisputed escrow
  ends.
- **Passport / compute verifier**: a nullifier is spent at most once and only together
  with the effect it authorizes; a policy in force at the time; the policy's own
  threshold decides.
- **Subscriptions**: the same accounting per period; never more than three paid
  periods; one creator note per paid period; the time that was paid for is given.
- **Payment form**: what the wallet is asked to sign is what the page shows; a memo
  belongs to its payment; a hash announced as preserved is preserved; the form never
  stays locked.
- **Wallet page**: the same, and one signature request per acknowledged dry run.
- **Accounts**: one account per address; limits hold; a session that ended is nobody's.
- **Rooms**: only the creator admits; only admitted members read; the pages recover
  from every failure and act on what they show.
- **Community**: the limit holds up to the calls in flight; a tab's save keeps the drafts
  that tab knows, and resolutions stay.
- **Local records**: every copy agrees with itself; a backup restores what was stored.
- **Reviews**: a report says what the chain has; a verdict rests on what was read and
  approved.

## 2. Plan

| # | Module | Status |
|---|---|---|
| 1 | `StarknetClock`, `GigstarkPassport`, `GigstarkComputeVerifier` | done |
| 2 | `GigstarkEscrow` composes 1 with the balance and the pool; `EscrowLedger`, which it refines | done; every safety property and the refinement proved |
| 3 | `GigstarkSubscriptions` composes 1 with the balance and the pool | done; every safety property proved |
| 4 | `SimpleMainnetPayment`, `PrivatePaymentMvp` | done; every safety property of the form proved, that stored histories are read back, and that amounts are exact |
| 5 | `Strk20Wallet`, `WalletCapability` | done; every safety property proved |
| 6 | `StudioAccounts`; `StudioRooms` with `StudioRoomPages`; `StudioCommunity` | done; every property proved |
| 7 | `StarknetHealth`, `PoolReviews` on it; `CairoRelease`; `MainnetDeployment` composes them | done; what a report says and what a verdict rests on proved |
| 8 | `LocalWorkspace` | done; copies that agree and backups that restore proved |
| 9 | one passport shared by escrow, subscriptions and tier gate; the circuit's `LessThan(7)` over a small field against the enclave's `evaluate` | open |

## 3. How the contracts are modelled

**One action is one transaction.** A Cairo panic reverts everything, so an operation
that fails an assertion is a disabled action, and an action contains the whole
handler with the calls it makes: `AssertAuthorized` conjoins the passport's
`ConsumeAuthorization`, `ResolveDispute` conjoins `ConsumeResult`, and the
nullifier is spent in the same step as the effect. What interleaves is transactions,
and what happens off-chain between them: receipts are signed and proofs are made at
one time, kept as long as anybody likes, and submitted in any order, repeatedly, or
never (`receipts` and `proven` only grow, and every step may use any of them).

**External parts** are modelled as the code uses them. The privacy pool runs
"withdraw to the helper, then invoke" for a deposit (`strk20-wallet.ts:161-195`) and
fills an open note with `transfer_from` after a claim (`:197-228`), in one
transaction; so `Deposit` adds what was `sent` (possibly nothing: the contract cannot
see it) and `Claim` ends with `PoolPulls`, which fails when the balance is short.
`Donate` is a plain ERC-20 transfer to the contract. Attestors sign what they like
for configured policies (`SignReceipt`), and anybody proves any computation
(`Prove`), with a threshold of their own choice, subject to the circuit's equation.

**Data.** Hashes are injective, so a statement or a commitment is the record of what
it hashes; commitments, ids, tokens and notes are model values; zero checks on felts
are the choice of those sets (`NoPayload` is the zero felt). `EscrowRecord`,
`Policy` and `Proof` keep the source's field names. Constructor checks are the
initial state. Events are left out.

**History variables.** `performed` records which action was taken on which escrow, at
which nonce and under which proof; `donated` counts tokens from outside. No guard
reads them except the bound on `Donate`.

| Module | Code |
|---|---|
| `StarknetClock` | `get_block_timestamp()` |
| `GigstarkPassport` | `gigstark_passport.cairo`; `ConsumeAuthorization` is `consume_authorization` with its four groups of asserts as `PolicyInForce`, `ProofFitsPolicy`, `ReceiptCurrent`, `SignatureValid` |
| `GigstarkComputeVerifier` | `compute_verifier.cairo`; `ConsumeResult` is `consume_result`, `CircuitOutcome` the circuit's comparison |
| `GigstarkEscrow` | `lib.cairo`; one action per operation, `Write` is the record written back with `action_nonce += 1` |
| `EscrowLedger` | nothing: it is what the escrow promises |
| `GigstarkSubscriptions` | `subscriptions.cairo`; one action per operation, `AssertReceived` is `assert_received`, `Extended` the longer period, `Claimable` and `Release` the two halves of a claim |
| `*Proofs` | theorems; `GigstarkPassportProofs` holds the lemmas on the passport that both contracts use, `SimpleMainnetPaymentProofs` those on stored histories and amounts; `StudioProofs` is about `MCStudio` and `LibrariesProofs` about `MCLibraries`, for any constants |

In `GigstarkSubscriptions` the tier is left out (no operation reads it after the
start), `cancel` and `expire` are two actions of `status_action`, and the token,
amount and new end that `prepay` makes the caller restate are computed from the
record, since the asserts at `subscriptions.cairo:379` and `:388` allow no other.
`startedAt` is one more history variable.

The operators marked "Plausible bug" are not part of the model: each is a variant of
the definition below it, used to see that a property notices the change.

## 4. How the pages, the server and the scripts are modelled

**One action is what runs without interruption.** In a page that is a handler up to
its first await, or what follows an await; in the server one SQL statement (D1 runs
each by itself and nothing uses a transaction); in a script one RPC call, one tool or
one file. What a handler captured when it was called is in the record of its call, so
that a continuation sees exactly what the code's closure sees, while refs
(`reviewRevision`, `walletOperationPending`) and React's updater functions see the
current state. A call may fail at every await, and an answer of the server may be lost
after its statements ran.

**A control is a guard.** The `disabled` attribute of a button or field, and whether
it is rendered at all, is a guard of the action it starts. Where the API can be used
without a page, `Scripts` names the accounts that do.

**Data.** Hashes, signatures, ciphertexts and sessions are the records they are made
of; texts that no property tells apart are left out. Amounts are kept: a text is its
whole part and its digits, in base 3 with 2 decimals instead of base 10 with 18, and
the u128 bound is small, so that every text is enumerated up to one digit too many on
both sides. Felts and integers of the wallet adapter have small bounds of their own.

| Module | Code |
|---|---|
| `SimpleMainnetPayment` | `simple-mainnet-payment.ts` and the memo receipts of `private-messaging.ts`, as operators |
| `PrivatePaymentMvp` | the form: `page` is the React state, `revision` and `busy` the two refs, `operations`, `verifies`, `imports` the running calls, `storage` localStorage |
| `Strk20Wallet` | `strk20-wallet.ts`: version and pool checks, argument checks, both action builders |
| `WalletCapability` | the page with its two panels; `calls` are its dry runs and signature requests |
| `StudioAccounts` | `z0studio-server.ts`, `auth/*`, `creator/profile.ts` over `users`, `sessions`, `request_rate_limits`; a request is a record with a `stage` |
| `StudioRooms`, `StudioRoomPages` | the rooms endpoints over `rooms`, `room_memberships`, `room_posts`; the workspace and the directory of every member that call them |
| `StudioCommunity` | feed, follows and reports with the home feed, the profile list and the report queue. The feed and the list are per tab (`Places` are the tabs of a browser), `stored` is the localStorage that an author's tabs share, `talk` the calls; `drafted` and `seen` are histories of what a browser saved and of what each tab found or saved |
| `StarknetHealth` | `starknet-health.ts` against a network of two forks and two nodes, one of which may be faulty |
| `PoolReviews` | the four scripts that review the pool, each on top of the health check |
| `CairoRelease` | `verify-cairo-release.ts`, with a repository that is edited and committed to meanwhile |
| `MainnetDeployment` | `mainnet-deployment-readiness.ts` and `review-mainnet-deployment.ts`, composing the two above with a reviewer and an operator |
| `LocalWorkspace` | `marketplace.ts`, `subscription.ts`, `local-workspace-backup.ts` and their components: a copy of the records in every tab |
| `MC*` | instances for TLC; `MCStudio` and `MCLibraries` hold parts that share no state, one of which a behaviour runs |

The components of the payment form, the wallet page and the local records are kept in
the repository and mounted by no page of this commit; they are modelled as they are
written.

**External parts**: a wallet connects with any account, refuses, or answers late, and
a transaction it submits is mined or not. A healthy RPC node serves a prefix of the
main chain; a faulty one another fork, an old answer from a cache, a body that is not
of the class it names, or no final status. Blocks, class upgrades and time come
between any two calls, and the reviewer's clock is the chain's. Commits, edits,
approvals and the operator's file change between any two steps of a release.

## 5. Runs

| Run | Instance | Shows |
|---|---|---|
| `lifecycle` | one escrow, two parties, three receipts and nullifiers, clock 0..2, receipts living 2 | `TypeOK`, `PaidOnceToTheWinner`, `NonceSerializesActions`, `OneActionPerNullifier`, `PerformedAsSigned`, `DecisionsAreFinal` |
| `money` | two escrows of one token, amounts 1 and 2, one donation, two receipts | `AccountedIsOwed`, `Solvent` |
| `dispute` | one escrow, a proof, thresholds 30 and 50 around a score of 40, under `FairSpec`, no symmetry | `DisputesDecidedByProof`, `ImplementsLedger`, `OpenEscrowsAreDecided` |
| `subs_lifecycle` | one subscription, three receipts and nullifiers, clock 0..2 | `TypeOK`, `OneNotePerPaidPeriod`, `ActionsSignedInTurn`, `PaidTimeIsGiven`, `EndsAreFinal` |
| `subs_live` | one subscription under `FairSpec`, two receipts, one donated token, clock 0..3, no symmetry | `AccountedIsUnclaimed`, `Solvent`, `SubscriptionsEnd` |
| `excess` | one escrow, one donated token | violates `ExcessStaysUnaccounted`: section 8 |
| `payment` | one account, one amount, an address and a name as recipients, two foreign memo receipts, histories of two entries; 4 revisions, 3 side calls | `SignedAsReviewed`, `LockedFormHasACall`, `MemoOfItsPayment`, `AnnouncedHashesKept` |
| `wallet_review` | one wallet and account, two deposits and two claims to type in, four versions of an escrow's record; 4 calls | `OneRequestPerDryRun`, `BusyPanelHasACall`, `AmountShownWithItsClaim` |
| `wallet_shown` | the same | violates `SignedAsShown`: section 8 |
| `studio_api` | accounts: one browser, two emails, one handle, limits of 1, 3 requests; rooms: two rooms, one member, both with and without pages, 3 calls; community: one author with two tabs, limit 1, 2 drafts, 4 calls; two calls in flight in each | `OneAccountPerAddress`, `LimitersHold`, `SignedOutStaysOut`, `OnlyTheCreatorAdmits`, `ReadersWereAdmitted`, `BusyWorkspaceHasACall`, `PostsPerMinute`, `DraftsKept`, `ResolutionIsKept` |
| `studio_approvals` | rooms where the member is pending or blocked, no client but the pages, 4 calls | violates `OnlyRequestsAreApproved`: section 8 |
| `libraries` | every amount text; histories of three entries; two tabs, one trade (two orders, three receipts) and one plan, one backup; two nodes, three blocks, five scripts; two sources, two commits, one approval | `AmountsExact`, `ReadBackAsStored`, `LocalRecordsAgree`, `ReportsAreTrue`, `VerdictsAreBacked` |

**Why the bounds are enough: contracts.** Three receipts are what the longest
interesting story of one escrow needs (deliver, confirm or dispute, claim) and leave
one to be stale or replayed; the nonce then reaches 3. Two escrows and two amounts let
one's money be mistaken for another's, and a donation and `sent = 0` let tokens appear
that no deposit brought. A clock of 0..2 has times before, at and after a deadline of
1, and a receipt that expires while the escrow is open. A policy's window, 0..4, ends
after the clock does; activation and deactivation, which any step may do, cover its
being unusable. Thresholds on both sides of the score make the outcome depend on whose
threshold counts. For subscriptions, three receipts reach the bound of three periods,
or a prepayment, a cancellation and a claim, in any order. `MaxReceipts`, `MaxProofs`,
`MaxDonation` and `MaxTime` are guards of external actions, not of the contracts'.
The theorems need none of these bounds.

**Pages and server.** What these parts get wrong, they get wrong with two overlapping
calls and one edit between them: a late answer, a statement between two statements, a
selection between a question and its answer. Every instance has two calls in flight
and lets one more (or two) begin after one has ended, so that what a call left behind
meets the next. Two tabs of one browser are enough for the shared drafts, as a save
overwrites what one other tab stored. Two values of whatever a user edits tell what was shown from what was
captured. Limits of 1 are reached by the first call, and a window of two clock ticks
has both an edge and an inside. A reload may come at any time (`payment`).

**Libraries.** Bases and bounds keep every case of the parser: zero, the bound, one
over, too precise, zeros at the end. Two tabs and one trade reach every order status
in one tab while the other holds any earlier copy; `made` bounds each kind of record.
Three blocks let the head advance between the two rounds and the pool change its class
at any of them; heads may have no age at all (`MaxHeadAge` 0), so that a node one tick
behind is stale. To keep the product finite, `MCLibraries` says where the parts'
environments stop: account classes change only in the deployment part, whose nodes lag
at most one block and whose last gate starts between two verifications, and the faults
of the pool part are limited by script to those its own checks can tell. Within a fork
there is no reorganization.

Because of such bounds the modelled system does stop, so deadlock is not checked.

**Symmetry** permutes parties, nullifiers and ids, which no definition names; the
two liveness runs and the runs of section 4 do without it, except `studio_api`,
where the tabs of a browser are alike and no property counts on their order.

**What a bound or an environment leaves out.** These are limits of the runs and models,
and no property should be read beyond them:

- `dispute` has one policy, program and escrow, so TLC exercises a proof for another
  threshold; for other policies and escrows there is the theorem `DisputesCorrect`.
- `subs_*` have one subscription; the theorems on accounting and solvency cover several.
- `payment` has one tab of the form. Two would overwrite each other's stored history as
  two home feeds do (`private-payment-mvp.tsx:274`); no page mounts the form and no
  document promises more. The replay nullifier is the revision, where the code draws a
  UUID; a revision starts again after a reload, and no property needs it to be new.
- `wallet_review` has amounts that are all alike: `AmountShownWithItsClaim` tells an
  amount that outlives its claim, not that of another escrow.
- `studio_api`: localStorage can always be written, the feed never has the 50 posts it
  reads at most, and a draft's id stands for its place in the list.
- `LocalWorkspace`: reading an entry and the effect that writes it back are one step
  (`Load`). Whole copies are written, so that a mixture of two could only come from two
  entries, which the records do not relate. A backup's subscriptions are not validated
  one by one (`local-workspace-backup.ts:51-55`), as plans in the model are valid.
- Reviews: a faulty node does not lie about its head's number or time. The deployment
  gate runs with healthy nodes, the mainnet and sepolia scripts with a stale cache only,
  and sepolia can never end "healthy" (section 8), so that this part of
  `VerdictsAreBacked` is about a verdict that is never given.
- `MainnetDeployment`: manifests are those that the release script writes, so that the
  checks of `mainnet-deployment-readiness.ts:106-117` come down to the network and the
  allowlist; the manifest and the inputs are read in one step where the script reads one
  file after the other (`review-mainnet-deployment.ts:44-47`), which changes neither; and
  the commit that counts as reviewed is the one the operator names.

**Fairness.** `FairSpec` assumes that blocks keep coming (`ClockStep`) and that
somebody submits a `timeout` that stays possible. The code justifies the second:
`timeout` takes no role, no receipt and no secret (`lib.cairo:594-601`), so any pool
user who cares can send it. Nothing is assumed of the parties, the attestors, the
admins or the provers. `DISPUTED` escrows are not covered, and rightly: their only
exit is a proof under a policy in force, which nobody can be made to supply.

The same holds of a subscription's `expire` (`subscriptions.cairo:447`: no role, no
policy): `FairSpec` there assumes blocks and that call, and nothing of the member,
who may prepay again at the last moment. What ends the race is the bound of three
periods. As the modelled clock stops at `MaxTime`, `SubscriptionsEnd` speaks of the
subscriptions whose third period ends by then (`EndInReach`).

For the pages no fairness is stated: a wallet's prompt may stay open for ever, and a
`fetch` has no timeout in this code. What stands for liveness there is safety:
`LockedFormHasACall`, `BusyPanelHasACall` and `BusyWorkspaceHasACall` say that a
control is disabled only while a call that will enable it is still running.

## 6. Proofs

Every safety property of the escrow that a run checks is also a theorem, for every
value of the constants, from the named assumptions on them (`MaxTimeAssumption`,
`PassportAssumption`, `ComputeAssumption`, `EscrowAssumption`: times and bounds are
naturals, amounts are positive, scores lie in 0..100, there are finitely many ids).

In `GigstarkEscrowProofs`, `TypeCorrect` has one step per action. Lemma `StepKinds`
then classifies every step into leaving the escrows alone, storing one (`Stores`), or
performing one action on an existing one (`Acts`, with what may change by operation).
Each invariant is proved from that, and so are accounting, solvency and the refinement
of the ledger.

The invariants are not inductive alone. What they need:

| Theorem | needs |
|---|---|
| `PaidOnce` | `FlagsFollowDecision` (a flag is set only for the winner) and `HistoryFitsRecord` (a claim in the history has its flag): without them an escrow could have been paid and its flag be clear |
| `NonceCorrect` | `NonceInv`: a finite history, and none for an id without a record |
| `NullifiersCorrect` | `UsedReceiptsAreSpent` |
| `SignedCorrect` | `HistoryFitsRecord`, and that receipts stay and terms do not change |
| `DisputesCorrect` | `HistoryFitsRecord` (no dispute in the history of an open escrow) and `ResultsFitPolicies` (a configured threshold never changes) |
| `AccountedCorrect` | `FlagsFollowDecision`; the owed units of a token are a finite set, deposits add a disjoint block of it and claims remove one |
| `SolventAlways` | the above, and that balance covers accounted |
| `LedgerImplemented` | `FlagsFollowDecision`; Deposit is Fund, confirm/timeout/resolve are Award, Claim is Pay, the rest stutters |

The subscriptions contract has the same treatment, in `GigstarkSubscriptionsProofs`:
every safety property its runs check is a theorem (assumption
`SubscriptionAssumption`: finitely many ids, positive amounts). `StepKinds` sorts the
steps into those that leave the subscriptions alone (`Quiet`), start one (`Begins`),
or perform one action on one (`Acts`, with what each operation may change).

| Theorem | needs |
|---|---|
| `EndsFinal` | `StepKinds` alone |
| `PaidTimeCorrect` | inductive with the types; `PeriodsAdd` is the arithmetic of one prepayment |
| `NotesCorrect` | `TurnsInv`: a finite history numbered by the nonce, so that a claim adds a new element |
| `ActionsCorrect` | `TurnsInv` and `SignedInv` (terms and receipts stay) |
| `AccountedCorrect` | `OneNotePerPaidPeriod`: without claimed <= prepaid, a prepayment could fill a deficit instead of adding units; the owed units are a finite set that grows and shrinks by disjoint blocks |
| `SolventAlways` | the above, and that balance covers accounted |

The payment form's proofs are in `PrivatePaymentMvpProofs`. `IInv` is inductive; its
parts say what a handler that waited may still rely on:

| Theorem | needs |
|---|---|
| `SignedCorrect` | `PreparationsMatch` (a preparation whose revision is current still has the page's form), `ReviewMatches`, `SubmissionsMatch`: without the last, the pool check of a submission could end after an edit and the wallet be asked for the old fields |
| `LockedCorrect` | `OneOperation` (the pending flag is set exactly while one call runs) and `LockHasItsCall`: the call exists **and** still has the current revision, otherwise it would end without unlocking the form |
| `MemoCorrect` | `PageMemoFits` and `CallMemoFits`: the memo fits the prepared actions when it is encrypted, and a submission takes both at one moment |
| `AnnouncedCorrect` | `HistoryInv`: the page's history and the stored one each have every announced hash there is room for (`KeepsHashes`), although they may differ; a submission that is not signed yet has the page's history, and one that binds a memo will store what the page shows. That the entry at place i is at most the (last + 1 - i)-th transaction is what bounds how many can push a hash out |

The actions that begin and end no call are sorted into `Beside` and `Voids`, so that
most of `Next` is two cases.

What a history computes is in `SimpleMainnetPaymentProofs`, for a history of any
length: `UpdateFacts` and `UpdateFresh` say what is left of it when a hash is added,
`ParseReadsBack` that a reload returns it. The functions over its entries are followed
by `IndexInduction`, which rests on the least element of a set of indices, so that no
theorem with an operator parameter is needed; `Iteration` gives their existence. The
same induction proves what the digits of an amount say: dividing by one more power of
the base is dividing by the base again (`QuotientSteps`), so a value and its digits
determine each other (`ValueReads`, `ReadsValue`, `FormatParses`).

`WalletCapabilityProofs` does the same for the wallet page (assumption
`PageAssumption`: the values for "no account" and "no wallet" are none of them):

| Theorem | needs |
|---|---|
| `OneRequestCorrect` | calls and dry runs are numbered apart (`CallsNumbered`, `DryRunsOver`); actions that can still be signed were never sent (`NotYetAsked`); the checkbox stands for the dry run on show (`TickedWhatIsShown`) |
| `BusyCorrect` | a busy panel has its call, and a call ends only with its panel's phase |
| `AmountCorrect` | a claim's public amount goes whenever its prepared actions go (`Voided`, `DroppedPanel`, `ClaimResetPanel`) |

`StudioProofs` proves every property of the run `studio_api`. A behaviour of the API
is a behaviour of each of its parts (`EachPart`), and each part has an inductive
invariant of its own (assumptions `LimitAssumption`, `PeopleAssumption` and
`CommunityAssumption`: positive limits, a creator who is no member, finitely many
calls in flight at once):

| Theorem | needs |
|---|---|
| `AddressCorrect` | `UsersInv`: the unique columns refuse a second insert of an address or a handle whatever was checked before, and the profile page changes neither |
| `LimitersCorrect` | `LimitersInv`: every admitted request has the row of its window with its count, and no other request of the window has that count; the admitted ones of a window are then counted by an injection into 1..limit |
| `SignedOutCorrect` | `SessionsInv`: tokens are numbered, a deleted one is never given again, and a request in flight carries an old one at most |
| `AdmitCorrect`, `ReadersCorrect` | `CallsFit`: what a call in flight was allowed to do when it was checked, also after a removal between the check and the read; its decisions are the creator's |
| `WorkspaceCorrect` | a busy workspace has a call that will free it (`Holds`), and only such a call makes it busy |
| `PostsCorrect` | `PostsInv` counts the posts of a minute **and** the calls that were counted and have not inserted yet. A call is counted only below the limit, where at most every other call is counted too; an insert moves one from the second set to the first; the bound on posts alone is not inductive |
| `DraftsCorrect` | `DraftsInv`, for any number of tabs: only drafts are in a browser's storage (`BrowserInv`); a tab that does not show the shared feed shows what it found and saved except what the limit or a draft of the same time took (`TabInv`, `OnlyMisses`), although another tab may have stored something else; while it can still hear the answer to its question it does not show the shared feed, and a post in flight means it does, so no late answer reaches what the next save stores. `UpdateMisses` is what one more draft does to a list, `SavedBy` the save of one tab seen from all the others |
| `ResolutionCorrect` | `ReportsInv` before and after the step: an action property |

`LibrariesProofs` is about the reviews, the local records and the payment library of
the run `libraries`. A step that is not a review's leaves everything a review has read alone except the
chain, which only grows (`Grows`). Assumptions: `HealthAssumption` (finitely many
nodes, lists of endpoints, natural bounds), `ScriptsAssumption` (the scripts there are),
`ReleaseAssumption`, for the records `LocalAssumption` (two amounts are not written
alike, at least one period can be prepaid), and for the library `PaymentAssumption` and
`AmountsAssumption` (a base above 1; decimals and bounds are naturals):

| Theorem | needs |
|---|---|
| `ReportsCorrect` | `NetworkInv`: the two chains share their first block, a node serves a prefix of one of them, at most one node is faulty. `CheckInv`: a head that was read is a block its node still serves (`HeadFits`); a pool state is of its round's common block and, if its node is healthy, says what the network's chain has there (`PoolFits`); a round that was compared is complete and agrees (`RecentInv`, `PoolsInv`). A faulty node then has to agree with the healthy one |
| `VerdictsCorrect` | the above; `ReleaseInv`: the commit of a build is there, its source is that commit's and passed by the time it is written, so a manifest says so too, whatever is committed later; `VerdictInv`, by the step a script is in: what the last gate has read fits a manifest and an approved commit (`ReviewedInv`), and an answer about the accounts is of a block since the report (`AccountsInv`) |
| `LocalCorrect` | `LocalInv`: every copy is consistent by itself (`MarketInv`: ids are keys, one order per accepted proposal and nothing else, one receipt per kind of the order's status, so that counting receipts counts orders), and all its ids are of records that **were made**, so that a new id is new to every copy, also to one restored or left in an old tab. An entry is what some consistent copy encodes to, and is read back as that copy (`RecordsReadBack`). `PaymentRecorded` is one step of an order for the three that make a receipt |
| `BackupsCorrect` | the same: the half of `ReadBackAsStored` about the records |
| `ReadBackCorrect` | the above, and `StoredInv`: no hash is stored twice, and no more than are kept; `ParseReadsBack` needs both |
| `AmountsCorrect` | `TextInv`, and `ReferenceIsValue`: `AmountsExact` compares the parser, which reads digits from left to right, with a definition that divides by powers. The value of a text has the text's digits (`ValueReads`) and is the only number that has them (`ReadsValue`); zeros that are trimmed off change no padded digit (`TrimPadded`) |

Model-checked only:

- `OpenEscrowsAreDecided` and `SubscriptionsEnd`: liveness under fairness and ENABLED
  are out of the prover's reach.
- The findings below.

## 7. Not modelled, and why

- Signature arithmetic, Poseidon and Groth16: modelled by what they accept.
- Reverted transactions, gas and events: they change no state these properties see.
- ERC-20 tokens that rebase, take fees or re-enter: the contracts are written for a
  plain ERC-20, and `approve` overwriting an allowance matters only between
  transactions of a pool that did not pull what it was granted.
- u64/u128/u256 overflow: Cairo's arithmetic and the `checked_*` calls revert, which
  only disables an action (a prepayment whose amount or end overflows is refused).
  Sums of u128 amounts in a u256 and a nonce below 2^64 cannot get there in any
  feasible number of transactions.
- The circuit's field arithmetic on scores outside 0..127, and the enclave: plan
  item 9. The enclave answers one request after another, and its loop ends with the
  first connection that breaks off (`main.rs:119-124`), which is a restart's business.
- The tier gate: one call of `consume_authorization` for a statement of its own.
- Reorganizations between two RPC calls: `readPoolState` asks by block number
  (`starknet-health.ts:320-378`) and the report's block hash is the pool snapshot's.
- The fee, the proof validity and the upgrade delay of a pool, which no assertion
  reads; `contractArtifact` and `canonicalPackageGraph`, which only fill the manifest.
- Two things that do not hold and that no document promises: of two overlapping
  receipt checks one entry of the verified list is lost, and of two concurrent edits
  of a room one. They are steps of the models and no property denies them.
- What a page writes in its notices, an account's `.stark` name, room customization,
  search and display helpers: nothing else reads them.
- The demonstration libraries (`escrow.ts`, `tier-proof.ts`, `verifiable-compute.ts`,
  ...): values computed from their arguments, mirroring the contracts.
- The parts marked `not_modelled` in `PROJECT.json`, with their reasons there.

## 8. Findings

**Tokens sent directly are accounted** (run `excess`). `contracts/README.md:18-19`
says that tokens sent directly to the helper "remain unaccounted". `deposit`
(`lib.cairo:464-470`) asks only that the balance cover the accounted amount plus the
new one. After somebody sends one token directly, a deposit of one token without a
transfer of its own is accepted, and the token is accounted to that escrow. Nobody
else's escrow is affected: `Solvent` holds. `subscriptions.cairo:525-532` uses the
same check.

**The wallet page can sign what it does not show** (run `wallet_shown`). A dry run that
ends after the fields were edited, or after another account connected, is put into the
panel as it is (`wallet-capability.tsx:225-229`, `:444-450`): the page then shows the
new fields above the old actions, and the checkbox and the button are for those.
`ROADMAP.md:221-222` asks to "Display the exact network, helper, token, public amount
boundary, expiry, and intended winner action before submission." The payment form,
which compares a revision, does not have this (`SignedAsReviewed`).

**Approve can readmit somebody blocked** (run `studio_approvals`). In the workspace the
members of the room selected before stay listed until the answer for the new one is
there, and that request is never cancelled (`creator-workspace.tsx:100-108`), while
`updateMember` sends its decision for the room selected now. Beside somebody pending
in the first room, Approve makes a member whom the second room had blocked active
there; the server asks only that a membership exists
(`members/[memberId].ts:33`). `Z0STUDIO_HANDOFF.md:199-200`: creators "review pending
access requests, block members".

Worth knowing, and no finding, as no document says otherwise:

- `prepay` extends `period_ends_at` from its old value without reading the clock
  (`subscriptions.cairo:384-388`), so on an overdue subscription that nobody has expired
  yet a period can be paid for that is already over.
- `event.currentTarget` is null after an await, so `reset()` throws in
  `creator-workspace.tsx:142` and `:227` and `account-control.tsx:59` after the server
  has stored the room, post or account: the page reports a failure.
- With today's pinned constants `verify-strk20-sepolia.ts` can never end "healthy": the
  reviewed class is none of the candidates. It fails closed, on purpose.
- The home feed tells the reader that "posts you save here stay in this browser"
  (`public-social-feed.tsx:70`). Every tab stores the list it read when it was mounted
  (`:119-120`), so that saving in one tab drops what another stored since. The model has
  these steps; `DraftsKept` says what is left of the promise: a save keeps what its own
  tab found or saved, and stores nothing but drafts. Of drafts saved in the same
  millisecond only the last is kept (`public-feed.ts:91`).
- An import replaces the two entries of localStorage 450 ms before the page reloads;
  a click in between writes the old copy back (`local-data-tools.tsx:33-36`). The
  records stay consistent (`LocalRecordsAgree`), the restored ones are gone.
