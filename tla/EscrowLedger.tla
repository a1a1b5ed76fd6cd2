---------------------------- MODULE EscrowLedger ----------------------------
(***************************************************************************)
(* What the escrow promises, without receipts, nonces, clocks, proofs or   *)
(* claim flags: a vault that holds exactly the money of the entries that   *)
(* are not paid yet.  An entry is funded once, awarded once to one of its  *)
(* two parties, and paid once to the party it was awarded to.              *)
(***************************************************************************)
EXTENDS Integers

CONSTANTS
    Ids,
    Parties,
    Tokens,
    Amounts,
    NoParty      \* the payee of an entry not awarded yet

VARIABLES
    ledger,      \* id -> entry
    vault        \* token -> what is held for the entries

NoEntry == [stage |-> "none"]

Entry(payer, payee, t, amount, stage, to) ==
    [payer |-> payer, payee |-> payee, token |-> t, amount |-> amount,
     stage |-> stage, to |-> to]

Init ==
    /\ ledger = [i \in Ids |-> NoEntry]
    /\ vault = [t \in Tokens |-> 0]

Fund(i, payer, payee, t, amount) ==
    /\ ledger[i] = NoEntry
    /\ ledger' = [ledger EXCEPT ![i] = Entry(payer, payee, t, amount, "held", NoParty)]
    /\ vault' = [vault EXCEPT ![t] = @ + amount]

Award(i, to) ==
    /\ ledger[i].stage = "held"
    /\ to \in {ledger[i].payer, ledger[i].payee}
    /\ ledger' = [ledger EXCEPT ![i] =
                     Entry(@.payer, @.payee, @.token, @.amount, "due", to)]
    /\ UNCHANGED vault

Pay(i) ==
    /\ ledger[i].stage = "due"
    /\ vault[ledger[i].token] >= ledger[i].amount
    /\ ledger' = [ledger EXCEPT ![i] = [@ EXCEPT !.stage = "paid"]]
    /\ vault' = [vault EXCEPT ![ledger[i].token] = @ - ledger[i].amount]

Next ==
    \E i \in Ids :
        \/ \E payer, payee \in Parties, t \in Tokens, amount \in Amounts :
              Fund(i, payer, payee, t, amount)
        \/ \E to \in Parties : Award(i, to)
        \/ Pay(i)

Spec == Init /\ [][Next]_<<ledger, vault>>

=============================================================================
