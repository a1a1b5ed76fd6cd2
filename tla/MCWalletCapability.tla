------------------------- MODULE MCWalletCapability -------------------------
(* Small instances of WalletCapability for TLC. *)
EXTENDS WalletCapability

Deposit(amount) ==
    [escrowAddress |-> 1, token |-> 2, amount |-> amount, escrowId |-> 1,
     buyerCommitment |-> 1, sellerCommitment |-> 2, deadline |-> 3]
MCDepositFields == {Deposit(1), Deposit(2)}

Receipt(expiresAt) ==
    [policyId |-> 1, audience |-> 1, purpose |-> 2, credentialClass |-> 1, scopeNullifier |-> 1,
     proofCommitment |-> 1, issuedAt |-> 1, expiresAt |-> expiresAt, signatureR |-> 1,
     signatureS |-> 1]
MCClaimFields ==
    {[escrowAddress |-> 1, token |-> 2, escrowId |-> 1, winnerRole |-> "seller", proof |-> Receipt(e)] :
        e \in {1, 2}}
MCEscrowRecords ==
    {[token |-> 2, amount |-> a, status |-> 4, claimed |-> [buyer |-> FALSE, seller |-> c]] :
        a \in 0..1, c \in BOOLEAN}
MCMinimum == <<0, 10, 3>>
MCVersions == {<<0, 9, 9>>, <<1, 0, 0>>}
=============================================================================
