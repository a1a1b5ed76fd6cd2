------------------------ MODULE SimpleMainnetPayment ------------------------
(***************************************************************************)
(* The pure half of the payment form: src/lib/simple-mainnet-payment.ts    *)
(* and the memo receipts of src/lib/private-messaging.ts.  An amount text  *)
(* is its whole part and the digits of its fraction; addresses and hashes  *)
(* are opaque and already normalized; digests and ciphertexts are the      *)
(* records they commit to.                                                 *)
(***************************************************************************)
EXTENDS Integers, SequencesExt

CONSTANTS
    Base,           \* 10 in the code; the arithmetic is the same in any base
    Decimals,       \* 18 in the code: digits of a STRK fraction
    AmountBound,    \* 2^128 in the code
    Addresses,      \* the felts that are Starknet addresses
    HistoryLimit    \* 12 in the code: entries a stored history keeps

ASSUME PaymentAssumption ==
    /\ Base \in Nat \ {0, 1}
    /\ Decimals \in Nat
    /\ AmountBound \in Nat \ {0}
    /\ HistoryLimit \in Nat \ {0}

Digit == 0..(Base - 1)
Operation == {"shield", "pay", "withdraw"}

-----------------------------------------------------------------------------
(* Amounts.                                                                *)

InvalidAmount == 0      \* INVALID_STRK_AMOUNT is thrown

\* The base to the power of k; the smallest units of one STRK.
Power(k) ==
    LET power[i \in 0..k] == IF i = 0 THEN 1 ELSE Base * power[i - 1]
    IN  power[k]

Unit == Power(Decimals)

\* A digit of a fraction that is padded with zeros on the right.
Padded(digits, i) == IF i <= Len(digits) THEN digits[i] ELSE 0

\* The value of a fraction padded to Decimals digits.
FractionValue(digits) ==
    LET value[i \in 0..Decimals] ==
            IF i = 0 THEN 0 ELSE Base * value[i - 1] + Padded(digits, i)
    IN  value[Decimals]

\* Plausible bug: the fraction is read as a number of its own, not padded.
ParseUnpadded(text) ==
    text.whole * Unit
      + FoldLeft(LAMBDA sum, d : sum * Base + d, 0, text.fraction)

\* The smallest units an amount text stands for, or InvalidAmount.
ParseStrkAmount(text) ==
    LET amount == text.whole * Unit + FractionValue(text.fraction)
    IN  IF Len(text.fraction) <= Decimals /\ amount > 0 /\ amount < AmountBound
          THEN amount ELSE InvalidAmount

TrimZeros(digits) ==
    LET last == SelectLastInSeq(digits, LAMBDA d : d # 0)
    IN  SubSeq(digits, 1, last)

\* The shortest text of an amount in smallest units.
FormatStrkAmount(amount) ==
    [whole    |-> amount \div Unit,
     fraction |-> TrimZeros([i \in 1..Decimals |-> (amount \div Power(Decimals - i)) % Base])]

-----------------------------------------------------------------------------
(* The pool's action, the receipt that proves it, and the stored histories. *)

NoRecipient == "no recipient"
Invalid == [type |-> "invalid"]     \* an error is thrown

\* The one action of an operation: only a shield has no recipient.
BuildSimplePaymentActions(operation, amount, recipient) ==
    CASE ParseStrkAmount(amount) = InvalidAmount -> Invalid
      [] operation = "shield" ->
            [type |-> "deposit", amount |-> ParseStrkAmount(amount)]
      [] recipient \notin Addresses -> Invalid
      [] OTHER ->
            [type |-> IF operation = "pay" THEN "transfer" ELSE "withdraw",
             amount |-> ParseStrkAmount(amount), recipient |-> recipient]

TransactionReceipt ==
    [execution_status: {"SUCCEEDED", "REVERTED"},
     finality_status: {"RECEIVED", "ACCEPTED_ON_L2", "ACCEPTED_ON_L1"},
     touchesPool: BOOLEAN]          \* some event is from the pool's address

ReceiptQualifiesForSubmission(receipt) ==
    /\ receipt.execution_status = "SUCCEEDED"
    /\ receipt.touchesPool
    /\ receipt.finality_status \in {"ACCEPTED_ON_L1", "ACCEPTED_ON_L2"}

AtMost(limit, history) == SubSeq(history, 1, IF Len(history) < limit THEN Len(history) ELSE limit)

\* What is left of a history when its occurrences of a hash are filtered out.
Without(history, candidate) ==
    LET kept[n \in 0..Len(history)] ==
            IF n = 0 THEN <<>>
            ELSE IF history[n] = candidate THEN kept[n - 1] ELSE Append(kept[n - 1], history[n])
    IN  kept[Len(history)]

\* The candidate first, once, and at most HistoryLimit entries.
UpdateTransactionHistory(history, candidate) ==
    AtMost(HistoryLimit, <<candidate>> \o Without(history, candidate))

\* Plausible bug: without the reversal a reload turns the history around.
ParseWithoutReverse(stored) == FoldLeft(UpdateTransactionHistory, <<>>, stored)

\* A history read back from storage: its entries are added one by one, newest
\* first, and the result is reversed.
ParseTransactionHistory(stored) ==
    LET added[n \in 0..Len(stored)] ==
            IF n = 0 THEN <<>> ELSE UpdateTransactionHistory(added[n - 1], stored[n])
    IN  Reverse(added[Len(stored)])

-----------------------------------------------------------------------------
(* Memo receipts.                                                          *)

\* What a memo commits to: the public fields of the payment it is written for.
PaymentMemoCommitmentForFields(form, target) ==
    [operation |-> form.operation, amount |-> form.amount, recipient |-> target]

\* A nullifier that is known with another payment is refused
\* (PAYMENT_MEMO_REPLAYED).
MemoReplayed(receipts, candidate) ==
    \E i \in DOMAIN receipts : /\ receipts[i].replayNullifier = candidate.replayNullifier
                               /\ receipts[i].paymentHash # candidate.paymentHash

\* One receipt per payment, newest first.
UpdatePaymentMemoReceipts(receipts, candidate) ==
    AtMost(HistoryLimit,
        <<candidate>> \o SelectSeq(receipts, LAMBDA r : r.paymentHash # candidate.paymentHash))

\* Receipts read back from storage; one that is refused is skipped.
ParsePaymentMemoReceiptHistory(stored) ==
    Reverse(FoldLeft(LAMBDA receipts, r :
        IF MemoReplayed(receipts, r) THEN receipts ELSE UpdatePaymentMemoReceipts(receipts, r),
        <<>>, stored))
=============================================================================
