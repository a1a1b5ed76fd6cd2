------------------------- MODULE PrivatePaymentMvp -------------------------
(***************************************************************************)
(* The payment form (src/components/private-payment-mvp.tsx): a React      *)
(* component whose handlers wait for the wallet, an RPC or the browser's   *)
(* cryptography and go on afterwards with what they captured when they     *)
(* were called, while the user keeps using the page.                       *)
(*                                                                         *)
(* "page" is the component's state, "revision" and "busy" its two refs     *)
(* (reviewRevision and walletOperationPending); they are always current,   *)
(* while a handler sees the page it was called on: that is what its task   *)
(* records.  An action is what runs between two awaits; a control's        *)
(* disabled attribute is part of the guard of the action it starts.        *)
(* Messages, notices and the account's display name are left out.          *)
(***************************************************************************)
EXTENDS SimpleMainnetPayment, FiniteSets

CONSTANTS
    Accounts,           \* accounts the wallet may connect with
    AmountTexts,        \* amounts a user types
    Recipients,         \* recipients a user types; those not in Addresses are
                        \* .stark names or nothing at all
    ForeignReceipts,    \* memo receipts somebody hands over for import
    MaxRevision,        \* bound on reviewRevision
    MaxCalls            \* bound on connections, receipt checks, imports, key
                        \* pairs and reloads asked for, together

NoAccount == "no account"
None == [type |-> "none"]
ASSUME FormAssumption == NoAccount \notin Accounts /\ NoRecipient \notin Recipients

VARIABLES
    page,           \* the component's React state
    revision,       \* reviewRevision.current
    busy,           \* walletOperationPending.current
    operations,     \* running prepare and submit calls
    connects,       \* number of running connect calls
    keyCalls,       \* number of running createMemoKeys calls
    verifies,       \* running verifyReceipt calls
    imports,        \* running importMemoReceipt calls
    storage,        \* the browser's localStorage
    mined,          \* external: transactions the wallet has submitted, in order
    asked,          \* history: the last signature request, and the page then
    announced,      \* history: hashes whose message says they are preserved
    calls           \* history: calls made, for the bound

flowVars == <<page, revision, busy, operations>>
sideVars == <<connects, keyCalls, verifies, imports>>
ghostVars == <<mined, asked, announced>>
vars == <<flowVars, sideVars, storage, ghostVars, calls>>

Phase == {"disconnected", "connected", "preparing", "prepared", "submitting",
          "submitted", "confirmed", "blocked"}

Form == [operation: Operation, amount: AmountTexts, recipient: Recipients, memo: BOOLEAN]

\* The page when it is mounted: empty but for what storage remembers.
Mounted(stored) ==
    [account |-> NoAccount, walletFound |-> FALSE,
     form |-> [operation |-> "shield", amount |-> CHOOSE a \in AmountTexts : TRUE,
               recipient |-> CHOOSE r \in Recipients : TRUE, memo |-> FALSE],
     keys |-> 0, resolved |-> NoRecipient, fee |-> 0, prepared |-> None,
     pendingMemo |-> None, acknowledged |-> FALSE, registrationRequired |-> FALSE,
     phase |-> "disconnected", hash |-> 0,
     history |-> ParseTransactionHistory(stored.history),
     verified |-> ParseTransactionHistory(stored.verified),
     receipts |-> ParsePaymentMemoReceiptHistory(stored.receipts)]

Init ==
    /\ storage = [history |-> <<>>, verified |-> <<>>, receipts |-> <<>>]
    /\ page = Mounted(storage)
    /\ revision = 0 /\ busy = FALSE /\ operations = {}
    /\ connects = 0 /\ keyCalls = 0 /\ verifies = {} /\ imports = {}
    /\ mined = 0 /\ asked = None /\ announced = {}
    /\ calls = 0

Counted == calls < MaxCalls /\ calls' = calls + 1

-----------------------------------------------------------------------------
(* The controls.                                                           *)

\* The review fields and the buttons beside them are disabled.
Locked == page.phase \in {"preparing", "submitting"}

\* Plausible bug: the operation guard of prepare and submit is forgotten.
AlwaysFree == TRUE

\* prepare, submit and createMemoKeys return at once while one is running.
WalletFree == ~busy

\* resetPreparation: the review of an edited form is void.
ResetPreparation(p) ==
    [p EXCEPT !.prepared = None, !.acknowledged = FALSE, !.registrationRequired = FALSE,
              !.resolved = NoRecipient, !.pendingMemo = None,
              !.phase = IF p.account # NoAccount THEN "connected" ELSE @]

\* The fields the form shows: a shield has no recipient, only a payment a memo.
Shown(field, form) ==
    CASE field = "recipient" -> form.operation # "shield"
      [] field = "memo"      -> form.operation = "pay"
      [] OTHER               -> TRUE

\* The user changes one field.
Edit ==
    /\ ~Locked /\ revision < MaxRevision
    /\ \E next \in Form, field \in {"operation", "amount", "recipient", "memo"} :
          /\ Shown(field, page.form) /\ next # page.form
          /\ next = [page.form EXCEPT ![field] = next[field]]
          /\ page' = [ResetPreparation(page) EXCEPT !.form = next]
    /\ revision' = revision + 1
    /\ UNCHANGED <<busy, operations, sideVars, storage, ghostVars, calls>>

\* The checkbox, enabled while a prepared action is under review.
Acknowledge ==
    /\ page.phase = "prepared"
    /\ page' = [page EXCEPT !.acknowledged = ~@]
    /\ UNCHANGED <<revision, busy, operations, sideVars, storage, ghostVars, calls>>

-----------------------------------------------------------------------------
(* Wallet connection.                                                      *)

\* checkWallets: some installed wallet supports the API, or none does.
CheckWallets ==
    /\ \E found \in BOOLEAN : page' = [page EXCEPT !.walletFound = found]
    /\ UNCHANGED <<revision, busy, operations, sideVars, storage, ghostVars, calls>>

\* The connect button is disabled only once there is an account, so that several
\* calls may be waiting for the wallet.
Connect ==
    /\ page.walletFound /\ page.account = NoAccount
    /\ Counted
    /\ connects' = connects + 1
    /\ UNCHANGED <<flowVars, keyCalls, verifies, imports, storage, ghostVars>>

\* The wallet, the pool and the fee were checked; or some check failed.
Connected ==
    /\ connects > 0 /\ connects' = connects - 1
    /\ \/ \E a \in Accounts : page' = [page EXCEPT !.account = a, !.fee = 1, !.phase = "connected"]
       \/ page' = [page EXCEPT !.account = NoAccount, !.fee = 0, !.phase = "blocked"]
    /\ UNCHANGED <<revision, busy, operations, keyCalls, verifies, imports, storage,
                   ghostVars, calls>>

\* Plausible bug: the phase is left as it is when the account goes.
Disconnected(p) ==
    [p EXCEPT !.account = NoAccount, !.fee = 0, !.prepared = None, !.pendingMemo = None,
              !.acknowledged = FALSE, !.registrationRequired = FALSE, !.resolved = NoRecipient]

\* What is left of the page when the wallet reports another account or network.
AccountGone(p) ==
    [p EXCEPT !.account = NoAccount, !.fee = 0, !.prepared = None, !.pendingMemo = None,
              !.acknowledged = FALSE, !.registrationRequired = FALSE, !.resolved = NoRecipient,
              !.phase = "disconnected"]

\* account.onChange.
AccountChanged ==
    /\ page.account # NoAccount /\ revision < MaxRevision
    /\ revision' = revision + 1
    /\ page' = AccountGone(page)
    /\ UNCHANGED <<busy, operations, sideVars, storage, ghostVars, calls>>

-----------------------------------------------------------------------------
(* Memo keys.                                                              *)

CreateMemoKeys ==
    /\ ~Locked /\ WalletFree /\ revision < MaxRevision
    /\ Counted
    /\ revision' = revision + 1
    /\ page' = ResetPreparation(page)
    /\ keyCalls' = keyCalls + 1
    /\ UNCHANGED <<busy, operations, connects, verifies, imports, storage, ghostVars>>

MemoKeysCreated ==
    /\ keyCalls > 0 /\ keyCalls' = keyCalls - 1
    /\ page' = [page EXCEPT !.keys = @ + 1, !.pendingMemo = None]
    /\ UNCHANGED <<revision, busy, operations, connects, verifies, imports, storage,
                   ghostVars, calls>>

-----------------------------------------------------------------------------
(* prepare: pool check, recipient, fee, then the wallet's dry run.         *)

\* Plausible bug: a call that waited does not look whether the review changed.
AnyRevision(call) == TRUE

\* A call that waited goes on only if nothing bumped the revision meanwhile.
CurrentRevision(call) == call.revision = revision

Finish(call) == operations' = operations \ {call} /\ busy' = FALSE

Prepare ==
    /\ page.account # NoAccount /\ ~Locked /\ WalletFree /\ revision < MaxRevision
    /\ busy' = TRUE /\ revision' = revision + 1
    /\ operations' = operations \cup
          {[kind |-> "prepare", stage |-> "checking", revision |-> revision + 1,
            form |-> page.form, account |-> page.account, keys |-> page.keys,
            actions |-> None, target |-> NoRecipient]}
    /\ page' = [page EXCEPT !.prepared = None, !.acknowledged = FALSE,
                            !.pendingMemo = None, !.phase = "preparing"]
    /\ UNCHANGED <<sideVars, storage, ghostVars, calls>>

\* resolveTarget: an address stands for itself, a .stark name for whatever
\* address it resolves to; an empty field, or a name without address, for none.
Targets(form) ==
    CASE form.operation = "shield"       -> {NoRecipient}
      [] form.recipient \in Addresses    -> {form.recipient}
      [] OTHER                           -> Addresses \cup {NoRecipient}

\* The fee is shown even when the review changed; the wallet is asked only when
\* it did not.
PreparationChecked(call) ==
    /\ call.kind = "prepare" /\ call.stage = "checking"
    /\ \E target \in Targets(call.form) :
          LET actions == BuildSimplePaymentActions(call.form.operation, call.form.amount, target)
          IN  /\ actions # Invalid
              /\ page' = [page EXCEPT !.fee = 1]
              /\ IF CurrentRevision(call)
                   THEN /\ operations' = (operations \ {call}) \cup
                             {[call EXCEPT !.stage = "dry run", !.actions = actions, !.target = target]}
                        /\ UNCHANGED busy
                   ELSE Finish(call)
    /\ UNCHANGED <<revision, sideVars, storage, ghostVars, calls>>

\* A check, the resolution, the builder, the dry run, or an encryption without
\* keys threw: the error is shown only for the current review.
PreparationFailed(call) ==
    /\ call.kind = "prepare"
    /\ \/ call.stage = "checking"
       \/ call.stage = "dry run"
    /\ Finish(call)
    /\ IF CurrentRevision(call)
         THEN \E notRegistered \in BOOLEAN :
                /\ notRegistered => call.stage = "dry run" /\ call.form.operation = "shield"
                /\ page' = [page EXCEPT
                      !.prepared = None, !.acknowledged = FALSE, !.phase = "blocked",
                      !.registrationRequired = notRegistered,
                      !.pendingMemo = IF notRegistered THEN @ ELSE None]
         ELSE UNCHANGED page
    /\ UNCHANGED <<revision, sideVars, storage, ghostVars, calls>>

WantsMemo(form) == form.operation = "pay" /\ form.memo

\* Plausible bug: the memo commits to what the page shows when it is encrypted.
EncryptForPage(call) ==
    IF WantsMemo(call.form)
      THEN [commitment |-> PaymentMemoCommitmentForFields(page.form, page.form.recipient),
            keys |-> call.keys, replayNullifier |-> call.revision]
      ELSE None

\* encryptPaymentMemo: the commitment is to the prepared fields and the resolved
\* recipient, the nullifier is fresh.
EncryptMemo(call) ==
    IF WantsMemo(call.form)
      THEN [commitment |-> PaymentMemoCommitmentForFields(call.form, call.target),
            keys |-> call.keys, replayNullifier |-> call.revision]
      ELSE None

DryRunDone(call) ==
    /\ call.kind = "prepare" /\ call.stage = "dry run"
    /\ WantsMemo(call.form) => call.keys > 0
    /\ Finish(call)
    /\ page' = IF CurrentRevision(call)
                 THEN [page EXCEPT
                         !.resolved = call.target, !.pendingMemo = EncryptMemo(call),
                         !.prepared = [actions |-> call.actions, dryRunBy |-> call.account],
                         !.acknowledged = FALSE, !.registrationRequired = FALSE,
                         !.phase = "prepared"]
                 ELSE page
    /\ UNCHANGED <<revision, sideVars, storage, ghostVars, calls>>

-----------------------------------------------------------------------------
(* submit: pool check, signature, memo receipt, recovery storage.          *)

Submit ==
    /\ page.account # NoAccount /\ page.prepared # None /\ page.acknowledged
    /\ page.phase = "prepared" /\ WalletFree
    /\ busy' = TRUE
    /\ operations' = operations \cup
          {[kind |-> "submit", stage |-> "checking", revision |-> revision,
            prepared |-> page.prepared, account |-> page.account,
            pendingMemo |-> page.pendingMemo, history |-> page.history,
            receipts |-> page.receipts, hash |-> 0]}
    /\ page' = [page EXCEPT !.phase = "submitting"]
    /\ UNCHANGED <<revision, sideVars, storage, ghostVars, calls>>

\* The wallet is asked to sign, unless the review changed during the check.
SubmissionChecked(call) ==
    /\ call.kind = "submit" /\ call.stage = "checking"
    /\ IF CurrentRevision(call)
         THEN /\ operations' = (operations \ {call}) \cup {[call EXCEPT !.stage = "signing"]}
              /\ asked' = [actions |-> call.prepared.actions, dryRunBy |-> call.prepared.dryRunBy,
                           signer |-> call.account, form |-> page.form, resolved |-> page.resolved]
              /\ UNCHANGED busy
         ELSE Finish(call) /\ UNCHANGED asked
    /\ UNCHANGED <<page, revision, sideVars, storage, mined, announced, calls>>

\* The check failed or the wallet rejected.
SubmissionFailed(call) ==
    /\ call.kind = "submit" /\ call.stage \in {"checking", "signing"}
    /\ Finish(call)
    /\ page' = [page EXCEPT !.phase = "blocked"]
    /\ UNCHANGED <<revision, sideVars, storage, ghostVars, calls>>

\* The hash is stored for recovery and announced, or storage is unavailable.
Preserved(call, hash, kept) ==
    \/ /\ storage' = [kept EXCEPT !.history = UpdateTransactionHistory(call.history, hash)]
       /\ announced' = announced \cup {hash}
    \/ storage' = kept /\ UNCHANGED announced

\* The wallet answers with the hash.  Without a memo the hash is stored in the
\* same turn; with one, after the memo is bound.
Signed(call) ==
    /\ call.kind = "submit" /\ call.stage = "signing"
    /\ mined' = mined + 1
    /\ page' = [page EXCEPT !.history = UpdateTransactionHistory(call.history, mined'),
                            !.hash = mined', !.phase = "submitted"]
    /\ IF call.pendingMemo = None
         THEN Finish(call) /\ Preserved(call, mined', storage)
         ELSE /\ operations' = (operations \ {call}) \cup
                    {[call EXCEPT !.stage = "binding", !.hash = mined']}
              /\ UNCHANGED <<busy, storage, announced>>
    /\ UNCHANGED <<revision, sideVars, asked, calls>>

MemoReceipt(call) ==
    [paymentHash |-> call.hash, replayNullifier |-> call.pendingMemo.replayNullifier,
     keys |-> call.pendingMemo.keys, commitment |-> call.pendingMemo.commitment]

\* The memo receipt is bound to the hash, added to the receipts the call captured
\* and stored; the memo text is emptied.  Whatever goes wrong, the hash is kept.
MemoBound(call) ==
    /\ call.kind = "submit" /\ call.stage = "binding"
    /\ Finish(call)
    /\ LET receipts == UpdatePaymentMemoReceipts(call.receipts, MemoReceipt(call))
       IN  \/ /\ ~MemoReplayed(call.receipts, MemoReceipt(call))
              /\ page' = [page EXCEPT !.receipts = receipts, !.pendingMemo = None, !.form.memo = FALSE]
              /\ \E kept \in {storage, [storage EXCEPT !.receipts = receipts]} :
                    Preserved(call, call.hash, kept)
           \/ UNCHANGED page /\ Preserved(call, call.hash, storage)
    /\ UNCHANGED <<revision, sideVars, mined, asked, calls>>

-----------------------------------------------------------------------------
(* Receipts.                                                               *)

\* The verify buttons are always enabled, for the shown hash and for any hash of
\* the history.
VerifyReceipt ==
    /\ Counted
    /\ \E candidate \in ({page.hash} \ {0}) \cup Range(page.history) :
          verifies' = verifies \cup {[candidate |-> candidate, verified |-> page.verified]}
    /\ UNCHANGED <<flowVars, connects, keyCalls, imports, storage, ghostVars>>

\* The RPC answers; a receipt that does not qualify, or none, changes nothing.
ReceiptChecked(call) ==
    /\ verifies' = verifies \ {call}
    /\ \E receipt \in TransactionReceipt :
          IF ReceiptQualifiesForSubmission(receipt)
            THEN LET verified == UpdateTransactionHistory(call.verified, call.candidate)
                 IN  /\ page' = [page EXCEPT !.verified = verified, !.hash = call.candidate,
                                             !.phase = "confirmed"]
                     /\ storage' \in {storage, [storage EXCEPT !.verified = verified]}
            ELSE UNCHANGED <<page, storage>>
    /\ UNCHANGED <<revision, busy, operations, connects, keyCalls, imports, ghostVars, calls>>

ImportMemoReceipt ==
    /\ Counted
    /\ \E receipt \in ForeignReceipts :
          imports' = imports \cup {[receipt |-> receipt, receipts |-> page.receipts]}
    /\ UNCHANGED <<flowVars, connects, keyCalls, verifies, storage, ghostVars>>

\* The receipt is valid and new, or an error is shown.
ReceiptImported(call) ==
    /\ imports' = imports \ {call}
    /\ LET receipts == UpdatePaymentMemoReceipts(call.receipts, call.receipt)
       IN  \/ /\ ~MemoReplayed(call.receipts, call.receipt)
              /\ page' = [page EXCEPT !.receipts = receipts]
              /\ storage' \in {storage, [storage EXCEPT !.receipts = receipts]}
           \/ UNCHANGED <<page, storage>>
    /\ UNCHANGED <<revision, busy, operations, connects, keyCalls, verifies, ghostVars, calls>>

\* The page is reloaded: every call is gone, the state is what storage remembers.
Reload ==
    /\ Counted
    /\ page' = Mounted(storage)
    /\ revision' = 0 /\ busy' = FALSE /\ operations' = {}
    /\ connects' = 0 /\ keyCalls' = 0 /\ verifies' = {} /\ imports' = {}
    /\ UNCHANGED <<storage, ghostVars>>

-----------------------------------------------------------------------------
Next ==
    \/ Edit \/ Acknowledge
    \/ CheckWallets \/ Connect \/ Connected \/ AccountChanged
    \/ CreateMemoKeys \/ MemoKeysCreated
    \/ Prepare \/ Submit
    \/ \E call \in operations :
          \/ PreparationChecked(call) \/ PreparationFailed(call) \/ DryRunDone(call)
          \/ SubmissionChecked(call) \/ SubmissionFailed(call)
          \/ Signed(call) \/ MemoBound(call)
    \/ VerifyReceipt \/ ImportMemoReceipt
    \/ \E call \in verifies : ReceiptChecked(call)
    \/ \E call \in imports : ReceiptImported(call)
    \/ Reload

Spec == Init /\ [][Next]_vars

-----------------------------------------------------------------------------
(* Properties.                                                             *)

\* "Exact network, pool, token, amount, recipient ... review" (README.md:64): what
\* the wallet is asked to sign is the action of the fields and the recipient the
\* page shows at that moment, whatever happened while the pool was checked, the
\* dry run ran or a name was resolved.
SignedAsReviewed ==
    asked # None =>
        asked.actions = BuildSimplePaymentActions(asked.form.operation, asked.form.amount,
                                                  asked.resolved)

\* A form whose fields are locked waits for a call that will unlock it: no race
\* of account changes, checks and edits leaves it locked with nothing running.
LockedFormHasACall ==
    Locked => \E call \in operations :
                 call.kind = IF page.phase = "preparing" THEN "prepare" ELSE "submit"

\* "Preserve this hash": a hash announced as kept is in the storage a reload reads,
\* unless HistoryLimit transactions were submitted after it, however submissions,
\* reloads and checks of receipts interleave.
AnnouncedHashesKept ==
    \A h \in announced : h > mined - HistoryLimit => Contains(storage.history, h)

\* The memo receipt of a payment commits to what its wallet request transferred.
MemoOfItsPayment ==
    \A call \in operations :
        call.kind = "submit" /\ call.pendingMemo # None =>
            /\ call.prepared.actions.type = "transfer"
            /\ ParseStrkAmount(call.pendingMemo.commitment.amount) = call.prepared.actions.amount
            /\ call.pendingMemo.commitment.recipient = call.prepared.actions.recipient

=============================================================================
