------------------------ MODULE MCPrivatePaymentMvp ------------------------
(* Small instances of PrivatePaymentMvp for TLC. *)
EXTENDS PrivatePaymentMvp, TLC

CONSTANTS alice, bob

Text(whole) == [whole |-> whole, fraction |-> <<>>]
MCOneAmount == {Text(1)}
MCTwoAmounts == {Text(1), Text(2)}
MCAmounts == {Text(0), Text(1)}     \* the first is not a valid amount
MCForeign ==
    {[paymentHash |-> 101, replayNullifier |-> 101, keys |-> 1, commitment |-> "other"],
     [paymentHash |-> 102, replayNullifier |-> 101, keys |-> 1, commitment |-> "other"]}
MCAddressSymmetry == Permutations({alice, bob})
=============================================================================
