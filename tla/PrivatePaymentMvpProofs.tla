---------------------- MODULE PrivatePaymentMvpProofs ----------------------
(***************************************************************************)
(* Proofs about PrivatePaymentMvp, for every value of its constants.       *)
(***************************************************************************)
EXTENDS PrivatePaymentMvp, SimpleMainnetPaymentProofs

(* The inductive invariant.                                                *)

PageFields ==
    {"account", "walletFound", "form", "keys", "resolved", "fee", "prepared", "pendingMemo",
     "acknowledged", "registrationRequired", "phase", "hash", "history", "verified", "receipts"}
FormFields == {"operation", "amount", "recipient", "memo"}
PrepareFields ==
    {"kind", "stage", "revision", "form", "account", "keys", "actions", "target"}
SubmitFields ==
    {"kind", "stage", "revision", "prepared", "account", "pendingMemo", "history", "receipts",
     "hash"}

\* The records have their fields; a call carries a revision that is not a later one.
Shape ==
    /\ revision \in Nat
    /\ DOMAIN page = PageFields /\ DOMAIN page.form = FormFields
    /\ \A call \in operations :
          /\ \/ call.kind = "prepare" /\ DOMAIN call = PrepareFields
             \/ call.kind = "submit" /\ DOMAIN call = SubmitFields
          /\ call.revision \in Nat /\ call.revision <= revision

\* walletOperationPending is set exactly while a call runs, and there is only one.
OneOperation ==
    /\ busy <=> operations # {}
    /\ \A c, d \in operations : c = d

\* The actions a form and a recipient stand for.
ActionsOf(form, target) == BuildSimplePaymentActions(form.operation, form.amount, target)

\* A preparation whose revision is current still has the page's form, and what the
\* wallet tries is made of its form.
PreparationsMatch ==
    \A call \in operations :
        call.kind = "prepare" =>
            /\ call.revision = revision => call.form = page.form
            /\ call.stage = "dry run" =>
                  /\ call.actions # Invalid
                  /\ call.actions = ActionsOf(call.form, call.target)

\* Prepared actions are those of the fields and the recipient on the page.
ReviewMatches ==
    page.prepared # None => page.prepared.actions = ActionsOf(page.form, page.resolved)

\* So are those of a submission that waits for the pool check, if its revision is
\* current.
SubmissionsMatch ==
    \A call \in operations :
        call.kind = "submit" /\ call.stage = "checking" /\ call.revision = revision =>
            call.prepared.actions = ActionsOf(page.form, page.resolved)

\* The call a locked form waits for will find its own revision.
LockHasItsCall ==
    /\ page.phase = "preparing" =>
          \E call \in operations : call.kind = "prepare" /\ call.revision = revision
    /\ page.phase = "submitting" =>
          \E call \in operations : /\ call.kind = "submit" /\ call.revision = revision
                                   /\ call.stage \in {"checking", "signing"}

\* A memo that commits to what the actions transfer.
MemoFits(memo, actions) ==
    /\ actions.type = "transfer"
    /\ ParseStrkAmount(memo.commitment.amount) = actions.amount
    /\ memo.commitment.recipient = actions.recipient

\* The memo beside prepared actions is theirs.
PageMemoFits ==
    page.prepared # None /\ page.pendingMemo # None =>
        MemoFits(page.pendingMemo, page.prepared.actions)

\* So is the memo of a submission.
CallMemoFits ==
    \A call \in operations :
        call.kind = "submit" /\ call.pendingMemo # None =>
            MemoFits(call.pendingMemo, call.prepared.actions)

IInv ==
    /\ Shape /\ OneOperation
    /\ PreparationsMatch /\ ReviewMatches /\ SubmissionsMatch /\ LockHasItsCall
    /\ PageMemoFits /\ CallMemoFits
    /\ SignedAsReviewed

-----------------------------------------------------------------------------
(* The kinds of steps.                                                     *)

\* The reviewed part of the page stays, except that a memo may be dropped; no
\* control is locked.
KeepsReview ==
    /\ DOMAIN page' = PageFields
    /\ page'.form = page.form /\ page'.resolved = page.resolved
    /\ page'.prepared = page.prepared
    /\ page'.pendingMemo \in {page.pendingMemo, None}
    /\ page'.phase \in {page.phase, "connected", "blocked", "confirmed"}

\* A step beside the review: connections, keys that arrive, receipts, checkboxes.
Beside ==
    /\ KeepsReview
    /\ UNCHANGED <<revision, busy, operations, asked>>

\* A step that voids the review.
Voids ==
    /\ DOMAIN page' = PageFields /\ DOMAIN page'.form = FormFields
    /\ page'.prepared = None
    /\ page'.phase \notin {"preparing", "submitting"}
    /\ revision' = revision + 1
    /\ UNCHANGED <<busy, operations, asked>>

\* Each action that starts or ends no prepare or submit call is of a kind.
LEMMA BesideSteps ==
    ASSUME Shape,
           \/ Acknowledge \/ CheckWallets \/ Connect \/ Connected \/ MemoKeysCreated
           \/ VerifyReceipt \/ ImportMemoReceipt
           \/ \E call \in verifies : ReceiptChecked(call)
           \/ \E call \in imports : ReceiptImported(call)
    PROVE  Beside
<1> USE DEF Shape, Beside, KeepsReview, PageFields, flowVars, sideVars, ghostVars
<1>1. CASE Acknowledge
  BY <1>1 DEF Acknowledge
<1>2. CASE CheckWallets
  BY <1>2 DEF CheckWallets
<1>3. CASE Connect
  BY <1>3 DEF Connect
<1>4. CASE Connected
  BY <1>4 DEF Connected
<1>5. CASE MemoKeysCreated
  BY <1>5 DEF MemoKeysCreated
<1>6. CASE VerifyReceipt
  BY <1>6 DEF VerifyReceipt
<1>7. CASE ImportMemoReceipt
  BY <1>7 DEF ImportMemoReceipt
<1>8. ASSUME NEW call \in verifies, ReceiptChecked(call)
      PROVE  Beside
  BY <1>8 DEF ReceiptChecked
<1>9. ASSUME NEW call \in imports, ReceiptImported(call)
      PROVE  Beside
  BY <1>9 DEF ReceiptImported
<1>10. QED
  BY <1>1, <1>2, <1>3, <1>4, <1>5, <1>6, <1>7, <1>8, <1>9

\* An edit, another account and new keys void the review.
LEMMA VoidingSteps ==
    ASSUME Shape, Edit \/ AccountChanged \/ CreateMemoKeys
    PROVE  Voids
<1> USE DEF Shape, Voids, PageFields, sideVars, ghostVars
<1>1. CASE Edit
  BY <1>1 DEF Edit, ResetPreparation, Locked, Form, FormFields
<1>2. CASE AccountChanged
  BY <1>2 DEF AccountChanged, AccountGone
<1>3. CASE CreateMemoKeys
  BY <1>3 DEF CreateMemoKeys, ResetPreparation, Locked
<1>4. QED
  BY <1>1, <1>2, <1>3

-----------------------------------------------------------------------------
(* Each step keeps the invariant.                                          *)

\* What lies beside the review disturbs nothing.
LEMMA BesideKeeps == ASSUME IInv, Beside PROVE IInv'
<1> USE DEF IInv, Beside, KeepsReview
<1>1. (Shape /\ OneOperation)'
  BY DEF Shape, OneOperation
<1>2. PreparationsMatch' /\ SubmissionsMatch'
  BY DEF PreparationsMatch, SubmissionsMatch, ActionsOf
<1>3. ReviewMatches'
  BY DEF ReviewMatches, ActionsOf
<1>4. LockHasItsCall'
  BY DEF LockHasItsCall
<1>5. (PageMemoFits /\ CallMemoFits)'
  BY DEF PageMemoFits, CallMemoFits, MemoFits
<1>6. SignedAsReviewed'
  BY DEF SignedAsReviewed
<1>7. QED
  BY <1>1, <1>2, <1>3, <1>4, <1>5, <1>6

\* After a voiding step no call is current.
LEMMA VoidingKeeps == ASSUME IInv, Voids PROVE IInv'
<1> USE DEF IInv, Voids
<1>1. \A call \in operations' : call.revision # revision'
  BY DEF Shape
<1>2. (Shape /\ OneOperation)'
  BY DEF Shape, OneOperation
<1>3. PreparationsMatch' /\ SubmissionsMatch'
  BY <1>1 DEF PreparationsMatch, SubmissionsMatch, ActionsOf
<1>4. ReviewMatches' /\ LockHasItsCall'
  BY DEF ReviewMatches, LockHasItsCall
<1>5. (PageMemoFits /\ CallMemoFits)'
  BY DEF PageMemoFits, CallMemoFits, MemoFits
<1>6. SignedAsReviewed'
  BY DEF SignedAsReviewed
<1>7. QED
  BY <1>2, <1>3, <1>4, <1>5, <1>6

\* A call of prepare begins with the page's form.
LEMMA PrepareKeeps == ASSUME IInv, Prepare PROVE IInv'
<1> DEFINE new == [kind |-> "prepare", stage |-> "checking", revision |-> revision + 1,
                   form |-> page.form, account |-> page.account, keys |-> page.keys,
                   actions |-> None, target |-> NoRecipient]
<1> USE DEF IInv, ghostVars
<1>1. operations' = {new}
  BY DEF Prepare, WalletFree, OneOperation
<1>2. /\ DOMAIN page' = PageFields /\ page'.form = page.form
      /\ page'.prepared = None /\ page'.phase = "preparing"
      /\ revision' = revision + 1 /\ busy' /\ asked' = asked
  BY DEF Prepare, Shape, PageFields
<1>3. (Shape /\ OneOperation)'
  BY <1>1, <1>2 DEF Shape, OneOperation, PrepareFields
<1>4. PreparationsMatch' /\ ReviewMatches' /\ SubmissionsMatch'
  <2>1. PreparationsMatch'
    <3>1. new.kind = "prepare" /\ new.stage = "checking" /\ new.revision = revision'
          /\ new.form = page'.form
      BY <1>2
    <3>2. QED
      BY <1>1, <3>1 DEF PreparationsMatch
  <2>2. ReviewMatches'
    BY <1>2 DEF ReviewMatches
  <2>3. SubmissionsMatch'
    BY <1>1 DEF SubmissionsMatch
  <2>4. QED
    BY <2>1, <2>2, <2>3
<1>5. LockHasItsCall'
  BY <1>1, <1>2 DEF LockHasItsCall
<1>6. (PageMemoFits /\ CallMemoFits)'
  BY <1>1, <1>2 DEF PageMemoFits, CallMemoFits
<1>7. SignedAsReviewed'
  BY <1>2 DEF SignedAsReviewed
<1>8. QED
  BY <1>3, <1>4, <1>5, <1>6, <1>7

\* A call of submit takes the page's review with it.
LEMMA SubmitKeeps == ASSUME IInv, Submit PROVE IInv'
<1> DEFINE new == [kind |-> "submit", stage |-> "checking", revision |-> revision,
                   prepared |-> page.prepared, account |-> page.account,
                   pendingMemo |-> page.pendingMemo, history |-> page.history,
                   receipts |-> page.receipts, hash |-> 0]
<1> USE DEF IInv, ghostVars
<1>1. operations' = {new} /\ page.prepared # None
  BY DEF Submit, WalletFree, OneOperation
<1>2. /\ DOMAIN page' = PageFields /\ page'.form = page.form /\ page'.resolved = page.resolved
      /\ page'.prepared = page.prepared /\ page'.pendingMemo = page.pendingMemo
      /\ page'.phase = "submitting"
      /\ revision' = revision /\ busy' /\ asked' = asked
  BY DEF Submit, Shape, PageFields
<1>3. (Shape /\ OneOperation)'
  BY <1>1, <1>2 DEF Shape, OneOperation, SubmitFields
<1>4. PreparationsMatch' /\ ReviewMatches' /\ SubmissionsMatch'
  <2>1. PreparationsMatch'
    <3>1. new.kind # "prepare"
      OBVIOUS
    <3>2. QED
      BY <1>1, <3>1 DEF PreparationsMatch
  <2>2. ReviewMatches'
    BY <1>2 DEF ReviewMatches, ActionsOf
  <2>3. SubmissionsMatch'
    BY <1>1, <1>2 DEF SubmissionsMatch, ReviewMatches, ActionsOf
  <2>4. QED
    BY <2>1, <2>2, <2>3
<1>5. LockHasItsCall'
  BY <1>1, <1>2 DEF LockHasItsCall
<1>6. (PageMemoFits /\ CallMemoFits)'
  BY <1>1, <1>2 DEF PageMemoFits, CallMemoFits, MemoFits
<1>7. SignedAsReviewed'
  BY <1>2 DEF SignedAsReviewed
<1>8. QED
  BY <1>3, <1>4, <1>5, <1>6, <1>7

\* A call that ends leaves none, and the invariant is about the page alone.
LEMMA FinishedKeeps ==
    ASSUME IInv, NEW call \in operations, Finish(call),
           DOMAIN page' = PageFields, DOMAIN page'.form = FormFields,
           revision' = revision, asked' = asked,
           ReviewMatches', PageMemoFits', page'.phase \notin {"preparing", "submitting"}
    PROVE  IInv'
<1> USE DEF IInv
<1>1. operations' = {} /\ ~busy'
  BY DEF Finish, OneOperation
<1>2. (Shape /\ OneOperation)'
  BY <1>1 DEF Shape, OneOperation
<1>3. (PreparationsMatch /\ SubmissionsMatch /\ LockHasItsCall /\ CallMemoFits)'
  BY <1>1 DEF PreparationsMatch, SubmissionsMatch, LockHasItsCall, CallMemoFits
<1>4. SignedAsReviewed'
  BY DEF SignedAsReviewed
<1>5. QED
  BY <1>2, <1>3, <1>4

\* The only call is not current: then the page is not locked.
LEMMA OvertakenIsUnlocked ==
    ASSUME IInv, NEW call \in operations, ~CurrentRevision(call)
    PROVE  page.phase \notin {"preparing", "submitting"}
  BY DEF IInv, OneOperation, LockHasItsCall, CurrentRevision

\* The pool check of a preparation passed, or the review changed meanwhile.
LEMMA PreparationCheckedKeeps ==
    ASSUME IInv, NEW call \in operations, PreparationChecked(call)
    PROVE  IInv'
<1> USE DEF IInv, ghostVars
<1>1. PICK target \in Targets(call.form) :
        LET actions == ActionsOf(call.form, target)
        IN  /\ actions # Invalid
            /\ page' = [page EXCEPT !.fee = 1]
            /\ IF CurrentRevision(call)
                 THEN /\ operations' = (operations \ {call}) \cup
                           {[call EXCEPT !.stage = "dry run", !.actions = actions, !.target = target]}
                      /\ UNCHANGED busy
                 ELSE Finish(call)
  BY DEF PreparationChecked, ActionsOf
<1>2. /\ KeepsReview /\ page'.phase = page.phase /\ page'.pendingMemo = page.pendingMemo
      /\ revision' = revision /\ asked' = asked
  BY <1>1 DEF PreparationChecked, KeepsReview, Shape, PageFields
<1>3. ReviewMatches' /\ PageMemoFits'
  BY <1>2 DEF KeepsReview, ReviewMatches, PageMemoFits, ActionsOf, MemoFits
<1>4. CASE CurrentRevision(call)
  <2> DEFINE actions == ActionsOf(call.form, target)
  <2> DEFINE new == [call EXCEPT !.stage = "dry run", !.actions = actions, !.target = target]
  <2>1. call.kind = "prepare" /\ call.form = page.form /\ call.revision = revision
    BY <1>4 DEF PreparationChecked, CurrentRevision, PreparationsMatch
  <2>2. DOMAIN call = PrepareFields
    BY <2>1 DEF Shape
  <2>3. /\ DOMAIN new = PrepareFields /\ new.kind = "prepare" /\ new.stage = "dry run"
        /\ new.actions = actions /\ new.target = target
        /\ new.form = call.form /\ new.revision = revision
    BY <2>1, <2>2 DEF PrepareFields
  <2>4. operations' = {new} /\ busy' = busy
    BY <1>1, <1>4 DEF OneOperation
  <2> HIDE DEF new
  <2>5. (Shape /\ OneOperation)'
    <3>1. Shape'
      <4>1. DOMAIN page' = PageFields /\ DOMAIN page'.form = FormFields
        BY <1>2 DEF Shape, KeepsReview
      <4>2. /\ new.kind = "prepare" /\ DOMAIN new = PrepareFields
            /\ revision' \in Nat /\ new.revision = revision'
        BY <1>2, <2>3 DEF Shape
      <4>3. QED
        BY <2>4, <4>1, <4>2 DEF Shape
    <3>2. OneOperation'
      BY <2>4 DEF OneOperation
    <3>3. QED
      BY <3>1, <3>2
  <2>6. PreparationsMatch'
    BY <1>1, <1>2, <2>1, <2>3, <2>4 DEF PreparationsMatch, KeepsReview, ActionsOf
  <2>7. SubmissionsMatch' /\ CallMemoFits'
    BY <2>3, <2>4 DEF SubmissionsMatch, CallMemoFits
  <2>8. LockHasItsCall'
    <3>1. page'.phase # "submitting"
      BY <1>2, <2>1 DEF LockHasItsCall, OneOperation
    <3>2. QED
      BY <1>2, <2>3, <2>4, <3>1 DEF LockHasItsCall
  <2>9. SignedAsReviewed'
    BY <1>2 DEF SignedAsReviewed
  <2>10. QED
    BY <1>3, <2>5, <2>6, <2>7, <2>8, <2>9
<1>5. CASE ~CurrentRevision(call)
  <2>1. Finish(call)
    BY <1>1, <1>5
  <2>2. DOMAIN page'.form = FormFields
    BY <1>2 DEF KeepsReview, Shape
  <2>3. QED
    BY <1>2, <1>3, <1>5, <2>1, <2>2, OvertakenIsUnlocked, FinishedKeeps DEF KeepsReview
<1>6. QED
  BY <1>4, <1>5

\* A preparation that failed shows its error only for the current review, and
\* then there is none.
LEMMA PreparationFailedKeeps ==
    ASSUME IInv, NEW call \in operations, PreparationFailed(call)
    PROVE  IInv'
<1> USE DEF IInv, ghostVars
<1>1. Finish(call) /\ revision' = revision /\ asked' = asked
  BY DEF PreparationFailed
<1>2. CASE CurrentRevision(call)
  <2>1. /\ DOMAIN page' = PageFields /\ page'.form = page.form
        /\ page'.prepared = None /\ page'.phase = "blocked"
    BY <1>2 DEF PreparationFailed, Shape, PageFields
  <2>2. ReviewMatches' /\ PageMemoFits'
    BY <2>1 DEF ReviewMatches, PageMemoFits
  <2>3. DOMAIN page'.form = FormFields
    BY <2>1 DEF Shape
  <2>4. QED
    BY <1>1, <2>1, <2>2, <2>3, FinishedKeeps
<1>3. CASE ~CurrentRevision(call)
  <2>1. page' = page
    BY <1>3 DEF PreparationFailed
  <2>2. ReviewMatches' /\ PageMemoFits'
    BY <2>1 DEF ReviewMatches, PageMemoFits, MemoFits, ActionsOf
  <2>3. QED
    BY <1>1, <1>3, <2>1, <2>2, OvertakenIsUnlocked, FinishedKeeps DEF Shape
<1>4. QED
  BY <1>2, <1>3

\* The memo of a payment commits to its amount and its recipient.
LEMMA EncryptedMemoFits ==
    ASSUME NEW call, call.actions # Invalid,
           call.actions = ActionsOf(call.form, call.target),
           EncryptMemo(call) # None
    PROVE  MemoFits(EncryptMemo(call), call.actions)
<1>1. call.form.operation = "pay"
  BY DEF EncryptMemo, WantsMemo
<1>2. EncryptMemo(call).commitment.amount = call.form.amount
      /\ EncryptMemo(call).commitment.recipient = call.target
  BY DEF EncryptMemo, PaymentMemoCommitmentForFields
<1>3. call.actions = [type |-> "transfer", amount |-> ParseStrkAmount(call.form.amount),
                      recipient |-> call.target]
  BY <1>1 DEF ActionsOf, BuildSimplePaymentActions
<1>4. QED
  BY <1>2, <1>3 DEF MemoFits

\* The dry run that ended is shown with the recipient it was for, if the form is
\* still the one it was started from.
LEMMA DryRunDoneKeeps ==
    ASSUME IInv, NEW call \in operations, DryRunDone(call)
    PROVE  IInv'
<1> USE DEF IInv, ghostVars
<1>1. Finish(call) /\ revision' = revision /\ asked' = asked
  BY DEF DryRunDone
<1>2. CASE CurrentRevision(call)
  <2>1. /\ call.form = page.form /\ call.actions # Invalid
        /\ call.actions = ActionsOf(call.form, call.target)
    BY <1>2 DEF DryRunDone, CurrentRevision, PreparationsMatch
  <2>2. /\ DOMAIN page' = PageFields /\ page'.form = page.form
        /\ page'.resolved = call.target /\ page'.pendingMemo = EncryptMemo(call)
        /\ page'.prepared = [actions |-> call.actions, dryRunBy |-> call.account]
        /\ page'.phase = "prepared"
    BY <1>2 DEF DryRunDone, Shape, PageFields
  <2>3. page'.prepared.actions = call.actions
    BY <2>2
  <2>4. ReviewMatches'
    BY <2>1, <2>2, <2>3 DEF ReviewMatches, ActionsOf
  <2>5. PageMemoFits'
    BY <2>1, <2>2, <2>3, EncryptedMemoFits DEF PageMemoFits
  <2>6. DOMAIN page'.form = FormFields
    BY <2>2 DEF Shape
  <2>7. QED
    BY <1>1, <2>2, <2>4, <2>5, <2>6, FinishedKeeps
<1>3. CASE ~CurrentRevision(call)
  <2>1. page' = page
    BY <1>3 DEF DryRunDone
  <2>2. ReviewMatches' /\ PageMemoFits'
    BY <2>1 DEF ReviewMatches, PageMemoFits, MemoFits, ActionsOf
  <2>3. QED
    BY <1>1, <1>3, <2>1, <2>2, OvertakenIsUnlocked, FinishedKeeps DEF Shape
<1>4. QED
  BY <1>2, <1>3

\* The wallet is asked to sign what the page shows, if the review is current.
LEMMA SubmissionCheckedKeeps ==
    ASSUME IInv, NEW call \in operations, SubmissionChecked(call)
    PROVE  IInv'
<1> USE DEF IInv
<1>1. page' = page /\ revision' = revision
  BY DEF SubmissionChecked
<1>2. ReviewMatches' /\ PageMemoFits'
  BY <1>1 DEF ReviewMatches, PageMemoFits, MemoFits, ActionsOf
<1>3. CASE CurrentRevision(call)
  <2> DEFINE new == [call EXCEPT !.stage = "signing"]
  <2>1. call.kind = "submit" /\ call.stage = "checking" /\ call.revision = revision
    BY <1>3 DEF SubmissionChecked, CurrentRevision
  <2>2. DOMAIN call = SubmitFields
    BY <2>1 DEF Shape
  <2>3. /\ DOMAIN new = SubmitFields /\ new.kind = "submit" /\ new.stage = "signing"
        /\ new.revision = revision
        /\ new.pendingMemo = call.pendingMemo /\ new.prepared = call.prepared
    BY <2>1, <2>2 DEF SubmitFields
  <2>4. operations' = {new} /\ busy' = busy
    BY <1>3 DEF SubmissionChecked, OneOperation
  <2>5. asked' = [actions |-> call.prepared.actions, dryRunBy |-> call.prepared.dryRunBy,
                  signer |-> call.account, form |-> page.form, resolved |-> page.resolved]
    BY <1>3 DEF SubmissionChecked
  <2> HIDE DEF new
  <2>6. Shape'
    BY <1>1, <2>3, <2>4 DEF Shape
  <2>7. OneOperation'
    BY <2>4 DEF OneOperation
  <2>8. (PreparationsMatch /\ SubmissionsMatch)'
    BY <2>3, <2>4 DEF PreparationsMatch, SubmissionsMatch
  <2>9. LockHasItsCall'
    <3>1. page'.phase # "preparing"
      BY <1>1, <2>1 DEF LockHasItsCall, OneOperation
    <3>2. QED
      BY <1>1, <2>3, <2>4, <3>1 DEF LockHasItsCall
  <2>10. CallMemoFits'
    BY <2>1, <2>3, <2>4 DEF CallMemoFits, MemoFits
  <2>11. SignedAsReviewed'
    <3>1. call.prepared.actions = ActionsOf(page.form, page.resolved)
      BY <2>1 DEF SubmissionsMatch
    <3>2. /\ asked'.actions = call.prepared.actions /\ asked'.form = page.form
          /\ asked'.resolved = page.resolved
      BY <2>5
    <3>3. QED
      BY <3>1, <3>2 DEF SignedAsReviewed, ActionsOf
  <2>12. QED
    BY <1>2, <2>6, <2>7, <2>8, <2>9, <2>10, <2>11
<1>4. CASE ~CurrentRevision(call)
  <2>1. Finish(call) /\ asked' = asked
    BY <1>4 DEF SubmissionChecked
  <2>2. QED
    BY <1>1, <1>2, <1>4, <2>1, OvertakenIsUnlocked, FinishedKeeps DEF Shape
<1>5. QED
  BY <1>3, <1>4

\* A submission that failed blocks the form, which then is not locked.
LEMMA SubmissionFailedKeeps ==
    ASSUME IInv, NEW call \in operations, SubmissionFailed(call)
    PROVE  IInv'
<1> USE DEF IInv, ghostVars
<1>1. /\ DOMAIN page' = PageFields /\ page'.form = page.form
      /\ page'.resolved = page.resolved /\ page'.prepared = page.prepared
      /\ page'.pendingMemo = page.pendingMemo /\ page'.phase = "blocked"
      /\ Finish(call) /\ revision' = revision /\ asked' = asked
  BY DEF SubmissionFailed, Shape, PageFields
<1>2. ReviewMatches' /\ PageMemoFits'
  BY <1>1 DEF ReviewMatches, PageMemoFits, MemoFits, ActionsOf
<1>3. QED
  BY <1>1, <1>2, FinishedKeeps DEF Shape

\* The hash is on the page; a submission with a memo goes on to bind it.
LEMMA SignedKeeps ==
    ASSUME IInv, NEW call \in operations, Signed(call)
    PROVE  IInv'
<1> USE DEF IInv
<1>1. /\ DOMAIN page' = PageFields /\ page'.form = page.form
      /\ page'.resolved = page.resolved /\ page'.prepared = page.prepared
      /\ page'.pendingMemo = page.pendingMemo /\ page'.phase = "submitted"
      /\ revision' = revision /\ asked' = asked
  BY DEF Signed, Shape, PageFields
<1>2. ReviewMatches' /\ PageMemoFits'
  BY <1>1 DEF ReviewMatches, PageMemoFits, MemoFits, ActionsOf
<1>3. CASE call.pendingMemo = None
  <2>1. Finish(call)
    BY <1>3 DEF Signed
  <2>2. QED
    BY <1>1, <1>2, <2>1, FinishedKeeps DEF Shape
<1>4. CASE call.pendingMemo # None
  <2> DEFINE new == [call EXCEPT !.stage = "binding", !.hash = mined']
  <2>1. call.kind = "submit" /\ DOMAIN call = SubmitFields
    BY DEF Signed, Shape
  <2>2. /\ DOMAIN new = SubmitFields /\ new.kind = "submit" /\ new.stage = "binding"
        /\ new.revision = call.revision
        /\ new.pendingMemo = call.pendingMemo /\ new.prepared = call.prepared
    BY <2>1 DEF SubmitFields
  <2>3. operations' = {new} /\ busy' = busy
    BY <1>4 DEF Signed, OneOperation
  <2> HIDE DEF new
  <2>4. Shape'
    BY <1>1, <2>2, <2>3 DEF Shape
  <2>5. OneOperation'
    BY <2>3 DEF OneOperation
  <2>6. (PreparationsMatch /\ SubmissionsMatch /\ LockHasItsCall)'
    BY <1>1, <2>2, <2>3 DEF PreparationsMatch, SubmissionsMatch, LockHasItsCall
  <2>7. CallMemoFits'
    BY <2>1, <2>2, <2>3 DEF CallMemoFits, MemoFits
  <2>8. SignedAsReviewed'
    BY <1>1 DEF SignedAsReviewed
  <2>9. QED
    BY <1>2, <2>4, <2>5, <2>6, <2>7, <2>8
<1>5. QED
  BY <1>3, <1>4

\* Binding the memo empties the memo field only.
LEMMA MemoBoundKeeps ==
    ASSUME IInv, NEW call \in operations, MemoBound(call)
    PROVE  IInv'
<1> USE DEF IInv
<1>1. /\ DOMAIN page' = PageFields /\ DOMAIN page'.form = FormFields
      /\ page'.form.operation = page.form.operation /\ page'.form.amount = page.form.amount
      /\ page'.resolved = page.resolved /\ page'.prepared = page.prepared
      /\ page'.pendingMemo \in {page.pendingMemo, None} /\ page'.phase = page.phase
      /\ Finish(call) /\ revision' = revision /\ asked' = asked
  <2>1. \/ page' = page
        \/ \E receipts : page' = [page EXCEPT !.receipts = receipts, !.pendingMemo = None,
                                              !.form.memo = FALSE]
    BY DEF MemoBound
  <2>2. Finish(call) /\ revision' = revision /\ asked' = asked
    BY DEF MemoBound
  <2>3. CASE page' = page
    BY <2>2, <2>3 DEF Shape
  <2>4. ASSUME NEW receipts,
               page' = [page EXCEPT !.receipts = receipts, !.pendingMemo = None,
                                    !.form.memo = FALSE]
        PROVE  /\ DOMAIN page' = PageFields /\ DOMAIN page'.form = FormFields
               /\ page'.form.operation = page.form.operation
               /\ page'.form.amount = page.form.amount
               /\ page'.resolved = page.resolved /\ page'.prepared = page.prepared
               /\ page'.pendingMemo = None /\ page'.phase = page.phase
    <3>1. page'.form = [page.form EXCEPT !.memo = FALSE]
      BY <2>4 DEF Shape, PageFields
    <3>2. QED
      BY <2>4, <3>1 DEF Shape, PageFields, FormFields
  <2>5. QED
    BY <2>1, <2>2, <2>3, <2>4
<1>2. ReviewMatches' /\ PageMemoFits'
  BY <1>1 DEF ReviewMatches, PageMemoFits, MemoFits, ActionsOf
<1>3. page'.phase \notin {"preparing", "submitting"}
  BY <1>1 DEF MemoBound, LockHasItsCall, OneOperation
<1>4. QED
  BY <1>1, <1>2, <1>3, FinishedKeeps

\* A mounted page has nothing under review.
LEMMA MountedPage ==
    ASSUME NEW stored
    PROVE  /\ DOMAIN Mounted(stored) = PageFields
           /\ DOMAIN Mounted(stored).form = FormFields
           /\ Mounted(stored).prepared = None
           /\ Mounted(stored).phase = "disconnected"
  BY DEF Mounted, PageFields, FormFields

\* A reload forgets every call and what was under review.
LEMMA ReloadKeeps == ASSUME IInv, Reload PROVE IInv'
<1>1. operations' = {} /\ ~busy' /\ revision' = 0 /\ page' = Mounted(storage) /\ asked' = asked
  BY DEF Reload, ghostVars
<1>2. /\ DOMAIN page' = PageFields /\ DOMAIN page'.form = FormFields
      /\ page'.prepared = None /\ page'.phase = "disconnected"
  BY <1>1, MountedPage
<1>3. (Shape /\ OneOperation)'
  BY <1>1, <1>2 DEF Shape, OneOperation
<1>4. (PreparationsMatch /\ SubmissionsMatch /\ LockHasItsCall /\ CallMemoFits)'
  BY <1>1, <1>2 DEF PreparationsMatch, SubmissionsMatch, LockHasItsCall, CallMemoFits
<1>5. (ReviewMatches /\ PageMemoFits)'
  BY <1>2 DEF ReviewMatches, PageMemoFits
<1>6. SignedAsReviewed'
  BY <1>1 DEF IInv, SignedAsReviewed
<1>7. QED
  BY <1>3, <1>4, <1>5, <1>6 DEF IInv

-----------------------------------------------------------------------------
(* The stored history.  Only a signature mines a transaction, and its call *)
(* has the history it will write: the page's, when no reload intervened.   *)

\* A history of the last of "last" transactions that has every kept one of them that
\* it has room for.
KeepsHashes(history, last, kept) ==
    /\ history \in Seq(1..last) /\ Distinct(history) /\ Len(history) <= HistoryLimit
    /\ \A i \in 1..Len(history) : history[i] + i <= last + 1
    /\ \A h \in kept : h > last - HistoryLimit => \E i \in 1..Len(history) : history[i] = h

\* A submission that is not signed yet will write after the page's history; one that
\* binds its memo has shown what it will store.
SubmissionsRemember ==
    \A call \in operations :
        call.kind = "submit" =>
            \/ call.stage \in {"checking", "signing"} /\ call.history = page.history
            \/ /\ call.stage = "binding" /\ call.hash = mined /\ mined \in 1..mined
               /\ page.history = UpdateTransactionHistory(call.history, mined)
               /\ KeepsHashes(page.history, mined, announced \cup {mined})

HistoryInv ==
    /\ mined \in Nat /\ announced \subseteq 1..mined
    /\ DOMAIN storage = {"history", "verified", "receipts"}
    /\ KeepsHashes(page.history, mined, announced)
    /\ KeepsHashes(storage.history, mined, announced)
    /\ SubmissionsRemember

\* The hash of the next transaction is added, and the last one leaves.
LEMMA HashAdded ==
    ASSUME NEW last \in Nat, NEW kept \in SUBSET (1..last), NEW history,
           KeepsHashes(history, last, kept)
    PROVE  KeepsHashes(UpdateTransactionHistory(history, last + 1), last + 1, kept \cup {last + 1})
<1> DEFINE S == 1..(last + 1)
           added == UpdateTransactionHistory(history, last + 1)
<1>0. HistoryLimit \in Nat /\ 1 <= HistoryLimit
  BY PaymentAssumption
<1>1. /\ history \in Seq(S) /\ last + 1 \in S
      /\ \A i \in 1..Len(history) : history[i] \in 1..last /\ history[i] # last + 1
      /\ Len(history) \in Nat /\ Len(history) <= HistoryLimit
  BY DEF KeepsHashes
<1> HIDE DEF S
<1>2. /\ added \in Seq(S)
      /\ Len(added) = IF Len(history) < HistoryLimit THEN Len(history) + 1 ELSE HistoryLimit
      /\ added[1] = last + 1
      /\ \A k \in 2..Len(added) : k - 1 \in 1..Len(history) /\ added[k] = history[k - 1]
  <2>1. PICK c \in S : c = last + 1
    BY <1>1
  <2>2. \A j \in 1..Len(history) : history[j] # c
    BY <1>1, <2>1
  <2>3. /\ UpdateTransactionHistory(history, c) \in Seq(S)
        /\ Len(UpdateTransactionHistory(history, c)) =
              IF Len(history) < HistoryLimit THEN Len(history) + 1 ELSE HistoryLimit
        /\ UpdateTransactionHistory(history, c)[1] = c
        /\ \A k \in 2..Len(UpdateTransactionHistory(history, c)) :
              /\ k - 1 \in 1..Len(history)
              /\ UpdateTransactionHistory(history, c)[k] = history[k - 1]
    BY <1>1, <2>2, UpdateFresh, Zenon
  <2>4. QED
    BY <2>1, <2>3
<1>3. Distinct(added)
  BY <1>1, UpdateFacts DEF KeepsHashes
<1> HIDE DEF added
<1>4. Len(added) \in Nat /\ Len(added) <= HistoryLimit /\ 1 <= Len(added)
  BY <1>0, <1>1, <1>2
<1>5. ASSUME NEW i \in 1..Len(added)
      PROVE  added[i] + i <= (last + 1) + 1
  <2>1. CASE i = 1
    BY <1>2, <2>1
  <2>2. CASE i # 1
    <3>1. i \in 2..Len(added)
      BY <1>4, <2>2
    <3>2. PICK j \in 1..Len(history) : j = i - 1 /\ added[i] = history[j]
      BY <1>2, <3>1
    <3>3. history[j] + j <= last + 1 /\ history[j] \in Nat
      BY <1>1 DEF KeepsHashes
    <3>4. QED
      BY <3>1, <3>2, <3>3
  <2>3. QED
    BY <2>1, <2>2
<1>6. ASSUME NEW h \in kept \cup {last + 1}, h > (last + 1) - HistoryLimit
      PROVE  \E i \in 1..Len(added) : added[i] = h
  <2>1. CASE h = last + 1
    <3>1. 1 \in 1..Len(added)
      BY <1>4
    <3>2. QED
      BY <1>2, <2>1, <3>1
  <2>2. CASE h # last + 1
    <3>1. h \in kept /\ h \in Nat /\ h > last - HistoryLimit
      BY <1>0, <1>6, <2>2
    <3>2. PICK j \in 1..Len(history) : history[j] = h
      BY <3>1 DEF KeepsHashes
    <3>3. h + j <= last + 1
      BY <3>2 DEF KeepsHashes
    <3>4. j + 1 <= HistoryLimit
      BY <1>0, <1>1, <1>6, <3>1, <3>3
    <3>5. j + 1 \in 2..Len(added) /\ (j + 1) - 1 = j
      BY <1>0, <1>1, <1>2, <3>4
    <3>6. added[j + 1] = h
      BY <1>2, <3>2, <3>5
    <3>7. j + 1 \in 1..Len(added)
      BY <1>4, <3>5
    <3>8. QED
      BY <3>6, <3>7
  <2>3. QED
    BY <2>1, <2>2
<1>7. QED
  BY <1>2, <1>3, <1>4, <1>5, <1>6 DEF KeepsHashes, S, added

\* A history that is not written keeps what it had.
LEMMA HashMined ==
    ASSUME NEW last \in Nat, NEW kept \in SUBSET (1..last), NEW history,
           KeepsHashes(history, last, kept)
    PROVE  KeepsHashes(history, last + 1, kept)
<1>0. HistoryLimit \in Nat
  BY PaymentAssumption
<1>1. history \in Seq(1..(last + 1))
  BY DEF KeepsHashes
<1>2. \A i \in 1..Len(history) : history[i] + i <= (last + 1) + 1
  BY DEF KeepsHashes
<1>3. \A h \in kept : h > (last + 1) - HistoryLimit => h > last - HistoryLimit
  BY <1>0
<1>4. QED
  BY <1>1, <1>2, <1>3 DEF KeepsHashes

\* What leaves the hashes alone: the stored and the shown history stay, and a new
\* submission has the page's.
HistoryStays ==
    /\ UNCHANGED <<mined, announced>>
    /\ page'.history = page.history
    /\ DOMAIN storage' = DOMAIN storage /\ storage'.history = storage.history
    /\ \A call \in operations' :
          call.kind = "submit" =>
             \/ call \in operations
             \/ call.stage \in {"checking", "signing"} /\ call.history = page.history

LEMMA StayingKeeps == ASSUME HistoryInv, HistoryStays PROVE HistoryInv'
<1>1. SubmissionsRemember'
  BY DEF HistoryInv, HistoryStays, SubmissionsRemember
<1>2. QED
  BY <1>1 DEF HistoryInv, HistoryStays

\* Every action but the wallet's answer, the binding of a memo and a reload.
LEMMA StayingSteps ==
    ASSUME Shape, HistoryInv,
           \/ Edit \/ Acknowledge \/ CheckWallets \/ Connect \/ Connected \/ AccountChanged
           \/ CreateMemoKeys \/ MemoKeysCreated \/ Prepare \/ Submit
           \/ VerifyReceipt \/ ImportMemoReceipt
           \/ \E call \in verifies : ReceiptChecked(call)
           \/ \E call \in imports : ReceiptImported(call)
    PROVE  HistoryStays
<1> USE DEF Shape, HistoryStays, PageFields, flowVars, sideVars, ghostVars
<1>0. DOMAIN storage = {"history", "verified", "receipts"}
  BY DEF HistoryInv
<1>1. CASE Edit
  BY <1>1 DEF Edit, ResetPreparation
<1>2. CASE Acknowledge \/ CheckWallets \/ Connect \/ Connected
  BY <1>2 DEF Acknowledge, CheckWallets, Connect, Connected
<1>3. CASE AccountChanged
  BY <1>3 DEF AccountChanged, AccountGone
<1>4. CASE CreateMemoKeys \/ MemoKeysCreated
  BY <1>4 DEF CreateMemoKeys, MemoKeysCreated, ResetPreparation
<1>5. CASE Prepare
  BY <1>5 DEF Prepare
<1>6. CASE Submit
  BY <1>6 DEF Submit
<1>7. CASE VerifyReceipt \/ ImportMemoReceipt
  BY <1>7 DEF VerifyReceipt, ImportMemoReceipt
<1>8. ASSUME NEW call \in verifies, ReceiptChecked(call)
      PROVE  HistoryStays
  BY <1>0, <1>8 DEF ReceiptChecked
<1>9. ASSUME NEW call \in imports, ReceiptImported(call)
      PROVE  HistoryStays
  BY <1>0, <1>9 DEF ReceiptImported
<1>10. QED
  BY <1>1, <1>2, <1>3, <1>4, <1>5, <1>6, <1>7, <1>8, <1>9

\* A call that goes on or ends without a signature.
LEMMA StayingCalls ==
    ASSUME Shape, HistoryInv, NEW call \in operations,
           \/ PreparationChecked(call) \/ PreparationFailed(call) \/ DryRunDone(call)
           \/ SubmissionChecked(call) \/ SubmissionFailed(call)
    PROVE  HistoryStays
<1> USE DEF Shape, HistoryStays, Finish, PageFields, sideVars, ghostVars
<1>1. CASE PreparationChecked(call)
  <2>1. PICK target, actions :
          /\ page' = [page EXCEPT !.fee = 1]
          /\ \/ operations' = (operations \ {call}) \cup
                   {[call EXCEPT !.stage = "dry run", !.actions = actions, !.target = target]}
             \/ operations' = operations \ {call}
    BY <1>1 DEF PreparationChecked
  <2>2. call.kind = "prepare" /\ DOMAIN call = PrepareFields
    BY <1>1 DEF PreparationChecked
  <2>3. PICK new : new = [call EXCEPT !.stage = "dry run", !.actions = actions, !.target = target]
    OBVIOUS
  <2>4. new.kind = "prepare"
    BY <2>2, <2>3 DEF PrepareFields
  <2>5. \A c \in operations' : c.kind = "submit" => c \in operations
    BY <2>1, <2>3, <2>4
  <2>6. page'.history = page.history
    BY <2>1
  <2>7. UNCHANGED <<mined, announced, storage>>
    BY <1>1 DEF PreparationChecked
  <2>8. QED
    BY <2>5, <2>6, <2>7
<1>2. CASE PreparationFailed(call)
  <2>1. ASSUME CurrentRevision(call)
        PROVE  page'.history = page.history
    <3>1. PICK notRegistered \in BOOLEAN :
            page' = [page EXCEPT
               !.prepared = None, !.acknowledged = FALSE, !.phase = "blocked",
               !.registrationRequired = notRegistered,
               !.pendingMemo = IF notRegistered THEN @ ELSE None]
      BY <1>2, <2>1 DEF PreparationFailed
    <3>2. QED
      BY <3>1
  <2>2. page'.history = page.history
    BY <1>2, <2>1 DEF PreparationFailed
  <2>3. operations' = operations \ {call} /\ UNCHANGED <<mined, announced, storage>>
    BY <1>2 DEF PreparationFailed
  <2>4. QED
    BY <2>2, <2>3
<1>3. CASE DryRunDone(call)
  BY <1>3 DEF DryRunDone
<1>4. CASE SubmissionChecked(call)
  <2>1. call.kind = "submit" /\ DOMAIN call = SubmitFields /\ call.history = page.history
    BY <1>4 DEF SubmissionChecked, HistoryInv, SubmissionsRemember
  <2>2. PICK new : new = [call EXCEPT !.stage = "signing"]
    OBVIOUS
  <2>3. new.stage = "signing" /\ new.history = page.history
    BY <2>1, <2>2 DEF SubmitFields
  <2>4. \/ operations' = (operations \ {call}) \cup {new}
        \/ operations' = operations \ {call}
    BY <1>4, <2>2 DEF SubmissionChecked
  <2>5. UNCHANGED <<mined, announced, storage, page>>
    BY <1>4 DEF SubmissionChecked
  <2>6. QED
    BY <2>3, <2>4, <2>5
<1>5. CASE SubmissionFailed(call)
  BY <1>5 DEF SubmissionFailed
<1>6. QED
  BY <1>1, <1>2, <1>3, <1>4, <1>5

\* The wallet's answer: the hash comes first on the page, and, unless a memo is to be
\* bound, in the storage if that is available.
LEMMA SignedRemembers ==
    ASSUME Shape, OneOperation, HistoryInv, NEW call \in operations, Signed(call)
    PROVE  HistoryInv'
<1> DEFINE added == UpdateTransactionHistory(call.history, mined + 1)
<1>1. /\ mined \in Nat /\ announced \in SUBSET (1..mined)
      /\ KeepsHashes(page.history, mined, announced)
      /\ KeepsHashes(storage.history, mined, announced)
      /\ DOMAIN storage = {"history", "verified", "receipts"}
  BY DEF HistoryInv
<1>2. call.kind = "submit" /\ DOMAIN call = SubmitFields /\ call.history = page.history
  BY DEF Signed, HistoryInv, SubmissionsRemember, Shape
<1>3. mined' = mined + 1 /\ page'.history = added
  BY DEF Signed, Shape, PageFields
<1>4. KeepsHashes(added, mined + 1, announced \cup {mined + 1})
  BY <1>1, <1>2, HashAdded
<1>5. KeepsHashes(storage.history, mined + 1, announced)
  BY <1>1, HashMined
<1>6. KeepsHashes(added, mined + 1, announced)
  BY <1>4 DEF KeepsHashes
<1>7. mined + 1 \in Nat /\ mined + 1 \in 1..(mined + 1) /\ announced \subseteq 1..(mined + 1)
  BY <1>1
<1> HIDE DEF added
<1>8. CASE call.pendingMemo = None
  <2>1. operations' = {} /\ Preserved(call, mined', storage)
    BY <1>8 DEF Signed, Finish, OneOperation
  <2>2. SubmissionsRemember'
    BY <2>1 DEF SubmissionsRemember
  <2>3. \/ /\ storage' = [storage EXCEPT !.history = added]
           /\ announced' = announced \cup {mined + 1}
        \/ storage' = storage /\ announced' = announced
    BY <1>3, <2>1 DEF Preserved, added
  <2>4. CASE storage' = storage /\ announced' = announced
    BY <1>1, <1>3, <1>5, <1>6, <1>7, <2>2, <2>4 DEF HistoryInv
  <2>5. CASE /\ storage' = [storage EXCEPT !.history = added]
             /\ announced' = announced \cup {mined + 1}
    <3>1. DOMAIN storage' = DOMAIN storage /\ storage'.history = added
      BY <1>1, <2>5
    <3>2. announced' \subseteq 1..(mined + 1)
      BY <1>7, <2>5
    <3>3. QED
      BY <1>1, <1>3, <1>4, <1>7, <2>2, <2>5, <3>1, <3>2 DEF HistoryInv
  <2>6. QED
    BY <2>3, <2>4, <2>5
<1>9. CASE call.pendingMemo # None
  <2>1. PICK new : new = [call EXCEPT !.stage = "binding", !.hash = mined + 1]
    OBVIOUS
  <2>2. new.stage = "binding" /\ new.hash = mined + 1 /\ new.history = call.history
    BY <1>2, <2>1 DEF SubmitFields
  <2>3. operations' = {new} /\ UNCHANGED <<storage, announced>>
    BY <1>3, <1>9, <2>1 DEF Signed, OneOperation
  <2>4. page'.history = UpdateTransactionHistory(new.history, mined + 1)
    BY <1>3, <2>2 DEF added
  <2>5. KeepsHashes(page'.history, mined', announced' \cup {mined'})
    BY <1>3, <1>4, <2>3
  <2>6. SubmissionsRemember'
    BY <1>3, <1>7, <2>2, <2>3, <2>4, <2>5 DEF SubmissionsRemember
  <2>7. QED
    BY <1>1, <1>3, <1>5, <1>6, <1>7, <2>3, <2>6 DEF HistoryInv
<1>10. QED
  BY <1>8, <1>9

\* When its memo is bound, or is not, the hash is stored.
LEMMA MemoBoundRemembers ==
    ASSUME Shape, OneOperation, HistoryInv, NEW call \in operations, MemoBound(call)
    PROVE  HistoryInv'
<1>1. /\ mined \in Nat /\ announced \subseteq 1..mined
      /\ KeepsHashes(page.history, mined, announced)
      /\ KeepsHashes(storage.history, mined, announced)
      /\ DOMAIN storage = {"history", "verified", "receipts"}
  BY DEF HistoryInv
<1>2. /\ call.hash = mined /\ mined \in 1..mined
      /\ page.history = UpdateTransactionHistory(call.history, call.hash)
      /\ KeepsHashes(page.history, mined, announced \cup {mined})
  BY DEF MemoBound, HistoryInv, SubmissionsRemember
<1>3. operations' = {} /\ mined' = mined
  BY DEF MemoBound, Finish, OneOperation
<1>4. page'.history = page.history
  <2>1. \/ page' = page
        \/ \E receipts : page' = [page EXCEPT !.receipts = receipts, !.pendingMemo = None,
                                              !.form.memo = FALSE]
    BY DEF MemoBound
  <2>2. QED
    BY <2>1 DEF Shape, PageFields
<1>5. PICK kept : /\ Preserved(call, call.hash, kept)
                  /\ DOMAIN kept = DOMAIN storage /\ kept.history = storage.history
  <2>1. \E kept : /\ Preserved(call, call.hash, kept)
                  /\ \/ kept = storage
                     \/ \E receipts : kept = [storage EXCEPT !.receipts = receipts]
    BY DEF MemoBound
  <2>2. QED
    BY <1>1, <2>1
<1>6. \/ /\ storage' = [kept EXCEPT !.history = page.history]
         /\ announced' = announced \cup {mined}
      \/ storage' = kept /\ announced' = announced
  BY <1>2, <1>5 DEF Preserved
<1>7. SubmissionsRemember'
  BY <1>3 DEF SubmissionsRemember
<1>8. CASE storage' = kept /\ announced' = announced
  BY <1>1, <1>3, <1>4, <1>5, <1>7, <1>8 DEF HistoryInv
<1>9. CASE /\ storage' = [kept EXCEPT !.history = page.history]
           /\ announced' = announced \cup {mined}
  <2>1. DOMAIN storage' = DOMAIN storage /\ storage'.history = page.history
    BY <1>1, <1>5, <1>9
  <2>2. QED
    BY <1>1, <1>2, <1>3, <1>4, <1>7, <1>9, <2>1 DEF HistoryInv
<1>10. QED
  BY <1>6, <1>8, <1>9

\* A reload reads the stored history back.
LEMMA ReloadRemembers == ASSUME HistoryInv, Reload PROVE HistoryInv'
<1>1. KeepsHashes(storage.history, mined, announced)
  BY DEF HistoryInv
<1>2. ParseTransactionHistory(storage.history) = storage.history
  BY <1>1, ParseReadsBack DEF KeepsHashes
<1>3. /\ operations' = {} /\ page' = Mounted(storage)
      /\ UNCHANGED <<mined, announced, storage>>
  BY DEF Reload, ghostVars
<1>4. page'.history = storage.history
  BY <1>2, <1>3 DEF Mounted
<1>5. QED
  BY <1>1, <1>3, <1>4 DEF HistoryInv, SubmissionsRemember

LEMMA HistoryInitially == Init => HistoryInv
<1> SUFFICES ASSUME Init PROVE HistoryInv
  OBVIOUS
<1>1. /\ mined = 0 /\ announced = {} /\ operations = {} /\ page = Mounted(storage)
      /\ storage = [history |-> <<>>, verified |-> <<>>, receipts |-> <<>>]
  BY DEF Init
<1>2. KeepsHashes(<<>>, 0, {})
  BY PaymentAssumption DEF KeepsHashes, Distinct
<1>3. ParseTransactionHistory(<<>>) = <<>>
  BY <1>2, ParseReadsBack DEF KeepsHashes
<1>4. storage.history = <<>> /\ page.history = <<>>
  BY <1>1, <1>3 DEF Mounted
<1>5. DOMAIN storage = {"history", "verified", "receipts"}
  BY <1>1
<1>6. QED
  BY <1>1, <1>2, <1>4, <1>5 DEF HistoryInv, SubmissionsRemember

LEMMA HistoryNext == IInv /\ HistoryInv /\ [Next]_vars => HistoryInv'
<1> SUFFICES ASSUME IInv, HistoryInv, [Next]_vars PROVE HistoryInv'
  OBVIOUS
<1>0. Shape /\ OneOperation
  BY DEF IInv
<1>1. CASE UNCHANGED vars
  <2>1. HistoryStays
    BY <1>1 DEF vars, flowVars, ghostVars, HistoryStays
  <2>2. QED
    BY <2>1, StayingKeeps
<1>2. CASE \/ Edit \/ Acknowledge \/ CheckWallets \/ Connect \/ Connected \/ AccountChanged
           \/ CreateMemoKeys \/ MemoKeysCreated \/ Prepare \/ Submit
           \/ VerifyReceipt \/ ImportMemoReceipt
           \/ \E call \in verifies : ReceiptChecked(call)
           \/ \E call \in imports : ReceiptImported(call)
  BY <1>0, <1>2, StayingSteps, StayingKeeps
<1>3. ASSUME NEW call \in operations,
             \/ PreparationChecked(call) \/ PreparationFailed(call) \/ DryRunDone(call)
             \/ SubmissionChecked(call) \/ SubmissionFailed(call)
      PROVE  HistoryInv'
  BY <1>0, <1>3, StayingCalls, StayingKeeps
<1>4. ASSUME NEW call \in operations, Signed(call) \/ MemoBound(call)
      PROVE  HistoryInv'
  BY <1>0, <1>4, SignedRemembers, MemoBoundRemembers
<1>5. CASE Reload
  BY <1>5, ReloadRemembers
<1>6. QED
  BY <1>1, <1>2, <1>3, <1>4, <1>5 DEF Next

-----------------------------------------------------------------------------
(* The theorems.                                                           *)

\* The page is mounted with an empty storage and no call.
LEMMA InitInv == Init => IInv
<1> SUFFICES ASSUME Init PROVE IInv
  OBVIOUS
<1>1. /\ DOMAIN page = PageFields /\ DOMAIN page.form = FormFields
      /\ page.prepared = None /\ page.phase = "disconnected"
  BY MountedPage DEF Init
<1>2. QED
  BY <1>1 DEF Init, IInv, Shape, OneOperation, PreparationsMatch, ReviewMatches,
              SubmissionsMatch, LockHasItsCall, PageMemoFits, CallMemoFits, SignedAsReviewed

\* Every step keeps the invariant.
LEMMA NextInv == IInv /\ [Next]_vars => IInv'
<1> SUFFICES ASSUME IInv, [Next]_vars PROVE IInv'
  OBVIOUS
<1>0. Shape
  BY DEF IInv
<1>1. CASE UNCHANGED vars
  <2>1. Beside
    BY <1>0, <1>1 DEF vars, flowVars, ghostVars, Beside, KeepsReview, Shape
  <2>2. QED
    BY <2>1, BesideKeeps
<1>2. CASE \/ Acknowledge \/ CheckWallets \/ Connect \/ Connected \/ MemoKeysCreated
           \/ VerifyReceipt \/ ImportMemoReceipt
           \/ \E call \in verifies : ReceiptChecked(call)
           \/ \E call \in imports : ReceiptImported(call)
  BY <1>0, <1>2, BesideSteps, BesideKeeps
<1>3. CASE Edit \/ AccountChanged \/ CreateMemoKeys
  BY <1>0, <1>3, VoidingSteps, VoidingKeeps
<1>4. CASE Prepare
  BY <1>4, PrepareKeeps
<1>5. CASE Submit
  BY <1>5, SubmitKeeps
<1>6. ASSUME NEW call \in operations,
             \/ PreparationChecked(call) \/ PreparationFailed(call) \/ DryRunDone(call)
             \/ SubmissionChecked(call) \/ SubmissionFailed(call)
             \/ Signed(call) \/ MemoBound(call)
      PROVE  IInv'
  BY <1>6, PreparationCheckedKeeps, PreparationFailedKeeps, DryRunDoneKeeps,
     SubmissionCheckedKeeps, SubmissionFailedKeeps, SignedKeeps, MemoBoundKeeps
<1>7. CASE Reload
  BY <1>7, ReloadKeeps
<1>8. QED
  BY <1>1, <1>2, <1>3, <1>4, <1>5, <1>6, <1>7 DEF Next

\* The inductive invariant holds of every reachable state.
THEOREM InvCorrect == Spec => []IInv
  BY InitInv, NextInv, PTL DEF Spec

\* Whatever edits, account changes and late answers come between the review and the
\* click, the wallet is asked to sign the actions of the fields and the recipient on
\* the page at that moment.
THEOREM SignedCorrect == Spec => []SignedAsReviewed
<1>1. IInv => SignedAsReviewed
  BY DEF IInv
<1>2. QED
  BY <1>1, InvCorrect, PTL

\* A locked form always has a running call that will unlock it.
THEOREM LockedCorrect == Spec => []LockedFormHasACall
<1>1. IInv => LockedFormHasACall
  BY DEF IInv, LockHasItsCall, LockedFormHasACall, Locked
<1>2. QED
  BY <1>1, InvCorrect, PTL

\* The memo a submission will bind commits to the amount and the recipient that its
\* wallet request transfers.
THEOREM MemoCorrect == Spec => []MemoOfItsPayment
<1>1. IInv => MemoOfItsPayment
  BY DEF IInv, CallMemoFits, MemoFits, MemoOfItsPayment
<1>2. QED
  BY <1>1, InvCorrect, PTL

\* A hash that is announced as kept is in the storage, unless HistoryLimit
\* transactions were submitted after it, however submissions that bind memos,
\* reloads and checks of receipts interleave.
THEOREM AnnouncedCorrect == Spec => []AnnouncedHashesKept
<1>1. HistoryInv => AnnouncedHashesKept
  BY DEF HistoryInv, KeepsHashes, AnnouncedHashesKept, Contains
<1>2. Spec => []HistoryInv
  BY HistoryInitially, HistoryNext, InvCorrect, PTL DEF Spec
<1>3. QED
  BY <1>1, <1>2, PTL
=============================================================================
