-------------------------- MODULE WalletCapability --------------------------
(***************************************************************************)
(* The wallet page (src/components/wallet-capability.tsx): two panels, one *)
(* preparing a private deposit and one a winner's claim, share the Sepolia *)
(* account of the page; a third connection only shows a Mainnet account.   *)
(*                                                                         *)
(* Unlike the payment form, no handler compares a revision when it goes on *)
(* after an await, and no field is ever disabled: whatever a dry run or a  *)
(* signature request brings is put into the panel as it is then.           *)
(***************************************************************************)
EXTENDS Strk20Wallet, FiniteSets, TLC

CONSTANTS
    Wallets,            \* installed wallets
    MinimumVersion,     \* STRK20_WALLET_API_MIN_VERSION
    Versions,           \* versions wallets report
    Accounts,           \* addresses the wallet may connect with
    DepositFields,      \* what a user types into the deposit panel
    ClaimFields,        \* what a user types into the claim panel
    EscrowRecords,      \* what get_escrow may answer
    MaxCalls            \* bound on connections, dry runs and signature requests

Panel == {"deposit", "claim"}
NoAccount == 0
NoWallet == "no wallet"
None == <<>>            \* no prepared actions

ASSUME PageAssumption == NoAccount \notin Accounts /\ NoWallet \notin Wallets

VARIABLES
    compatible,     \* results: the wallets found compatible
    selected,       \* selectedWalletName
    account,        \* network -> connected address
    panels,         \* the state of the two panels
    connects,       \* network -> number of running connect calls
    calls,          \* running dry runs and signature requests
    called,         \* history: connections, dry runs and requests begun
    reviewed,       \* history: panel -> dry run whose checkbox was ticked last
    requests        \* history: signature requests, with the page at the click

walletVars == <<compatible, selected, connects>>
vars == <<walletVars, account, panels, calls, called, reviewed, requests>>

Fields == [deposit |-> DepositFields, claim |-> ClaimFields]

Init ==
    /\ compatible = {} /\ selected = NoWallet
    /\ account = [n \in Networks |-> NoAccount]
    /\ panels = [p \in Panel |->
                    [fields |-> CHOOSE f \in Fields[p] : TRUE, phase |-> "disconnected",
                     prepared |-> None, dryRun |-> 0, publicAmount |-> 0,
                     acknowledged |-> FALSE]]
    /\ connects = [n \in Networks |-> 0] /\ calls = {}
    /\ called = 0 /\ reviewed = [p \in Panel |-> 0] /\ requests = <<>>

Counted == called < MaxCalls /\ called' = called + 1

-----------------------------------------------------------------------------
\* checkCapabilities: a selection that is still compatible stays.
CheckCapabilities ==
    /\ \E reported \in [Wallets -> SUBSET Versions] :
          compatible' = {w \in Wallets : SupportsWalletApiVersions(reported[w], MinimumVersion)}
    /\ selected' \in IF selected \in compatible' THEN {selected}
                     ELSE IF compatible' = {} THEN {NoWallet} ELSE compatible'
    /\ UNCHANGED <<account, panels, connects, calls, called, reviewed, requests>>

\* The selection is disabled while there is a Sepolia account.
SelectWallet ==
    /\ account["SN_SEPOLIA"] = NoAccount
    /\ selected' \in compatible \cup {NoWallet}
    /\ UNCHANGED <<compatible, account, panels, connects, calls, called, reviewed, requests>>

\* connectWallet and connectMainnetWallet: the button is disabled only once there
\* is an account.
Connect(network) ==
    /\ selected # NoWallet /\ account[network] = NoAccount
    /\ Counted
    /\ connects' = [connects EXCEPT ![network] = @ + 1]
    /\ UNCHANGED <<compatible, selected, account, panels, calls, reviewed, requests>>

\* The prepared actions of a panel are dropped.
Dropped(panel) == [panel EXCEPT !.prepared = None, !.dryRun = 0, !.acknowledged = FALSE]

\* WinnerClaimReview's effect on another account object.
ClaimReset(panel, address) ==
    [Dropped(panel) EXCEPT !.publicAmount = 0,
                           !.phase = IF address = NoAccount THEN "disconnected" ELSE "connected"]

\* requireSepoliaWalletAccount, requireMainnetWalletAccount: the wallet's first
\* account, if it is on that network.
ConnectedAddresses(network) ==
    {IF network \in chains THEN address ELSE NoAccount : address \in Accounts, chains \in SUBSET Networks}

Answered(network) ==
    /\ connects[network] > 0
    /\ connects' = [connects EXCEPT ![network] = @ - 1]
    /\ \E address \in ConnectedAddresses(network) : account' = [account EXCEPT ![network] = address]
    /\ UNCHANGED <<compatible, selected, calls, called, reviewed, requests>>

\* The wallet answers the Mainnet connection, which only shows the account.
ConnectedMainnet == Answered("SN_MAIN") /\ UNCHANGED panels

\* It answers the Sepolia connection: both panels start over, except that a
\* failure without an account before is none of the claim panel's business.
ConnectedSepolia ==
    /\ Answered("SN_SEPOLIA")
    /\ LET address == account'["SN_SEPOLIA"]
       IN  panels' = [deposit |-> [Dropped(panels["deposit"]) EXCEPT
                                      !.phase = IF address = NoAccount THEN "blocked" ELSE "connected"],
                      claim |-> IF address = NoAccount /\ account["SN_SEPOLIA"] = NoAccount
                                  THEN panels["claim"]
                                  ELSE ClaimReset(panels["claim"], address)]

\* account.onChange of either connection.
AccountChanged(network) ==
    /\ account[network] # NoAccount
    /\ account' = [account EXCEPT ![network] = NoAccount]
    /\ panels' = IF network = "SN_MAIN" THEN panels
                 ELSE [deposit |-> [Dropped(panels["deposit"]) EXCEPT !.phase = "disconnected"],
                       claim |-> ClaimReset(panels["claim"], NoAccount)]
    /\ UNCHANGED <<walletVars, calls, called, reviewed, requests>>

-----------------------------------------------------------------------------
(* Review of a panel.                                                      *)

\* Plausible bug: the amount of the escrow looked up before stays.
KeepsAmount(panel, fields, connected) ==
    [Dropped(panel) EXCEPT !.fields = fields,
                           !.phase = IF connected THEN "connected" ELSE @]

\* updateField of either panel.
Updated(panel, fields, connected) ==
    [Dropped(panel) EXCEPT !.fields = fields, !.publicAmount = 0,
                           !.phase = IF connected THEN "connected" ELSE @]

UpdateField(p) ==
    /\ \E fields \in Fields[p] \ {panels[p].fields} :
          panels' = [panels EXCEPT ![p] = Updated(@, fields, account["SN_SEPOLIA"] # NoAccount)]
    /\ UNCHANGED <<walletVars, account, calls, called, reviewed, requests>>

\* walletReviewControls.
CanPrepare(panel) == panel.phase \in {"connected", "blocked"}
CanSubmit(panel) == panel.phase = "prepared" /\ panel.acknowledged

\* prepareDeposit and prepareClaim.
Prepare(p) ==
    /\ account["SN_SEPOLIA"] # NoAccount /\ CanPrepare(panels[p])
    /\ Counted
    /\ calls' = calls \cup {[kind |-> "prepare", panel |-> p, id |-> called', prepared |-> None,
                             fields |-> panels[p].fields, account |-> account["SN_SEPOLIA"]]}
    /\ panels' = [panels EXCEPT ![p].phase = "preparing"]
    /\ UNCHANGED <<walletVars, account, reviewed, requests>>

\* What the panel asks the adapter for: a claim goes to the account it was
\* prepared with.
Input(p, fields, address) == IF p = "claim" THEN fields @@ [recipient |-> address] ELSE fields

\* parsePassportProof: all ten fields are there, as texts.
ParsedPassportProof(json) ==
    {"policyId", "audience", "purpose", "credentialClass", "scopeNullifier", "proofCommitment",
     "issuedAt", "expiresAt", "signatureR", "signatureS"} \subseteq DOMAIN json

Accepted(p, input) ==
    IF p = "claim" THEN ParsedPassportProof(input.proof) /\ ClaimAccepted(input)
                   ELSE DepositAccepted(input)

Actions(p, input) ==
    IF p = "claim" THEN BuildWinnerClaimActions(input) ELSE BuildPrivateDepositActions(input)

\* Plausible bug: what was acknowledged before stays acknowledged.
StillAcknowledged(panel, actions, id, amount) ==
    [panel EXCEPT !.prepared = actions, !.dryRun = id, !.publicAmount = amount, !.phase = "prepared"]

\* What a dry run that succeeded leaves in its panel.
PreparedBy(panel, actions, id, amount) ==
    [panel EXCEPT !.prepared = actions, !.dryRun = id, !.publicAmount = amount,
                  !.acknowledged = FALSE, !.phase = "prepared"]

\* The pool was verified, the actions built, for a claim the escrow looked up,
\* and the wallet's dry run passed.
DryRunPassed(call) ==
    /\ call.kind = "prepare"
    /\ calls' = calls \ {call}
    /\ LET input == Input(call.panel, call.fields, call.account)
       IN  /\ Accepted(call.panel, input)
           /\ \E amount \in IF call.panel = "deposit" THEN {0}
                           ELSE {r.amount : r \in {r \in EscrowRecords : EscrowAllowsClaim(input, r)}} :
                 panels' = [panels EXCEPT ![call.panel] =
                               PreparedBy(@, Actions(call.panel, input), call.id, amount)]
    /\ UNCHANGED <<walletVars, account, called, reviewed, requests>>

\* Any of it failed.
DryRunFailed(call) ==
    /\ call.kind = "prepare"
    /\ calls' = calls \ {call}
    /\ panels' = [panels EXCEPT ![call.panel] =
                     [Dropped(@) EXCEPT !.publicAmount = 0, !.phase = "blocked"]]
    /\ UNCHANGED <<walletVars, account, called, reviewed, requests>>

\* The checkbox.
Acknowledge(p) ==
    /\ panels[p].phase = "prepared"
    /\ panels' = [panels EXCEPT ![p].acknowledged = ~@]
    /\ reviewed' = [reviewed EXCEPT ![p] = panels[p].dryRun]
    /\ UNCHANGED <<walletVars, account, calls, called, requests>>

\* requestSignature and requestClaimSignature.
RequestSignature(p) ==
    /\ account["SN_SEPOLIA"] # NoAccount /\ panels[p].prepared # None /\ CanSubmit(panels[p])
    /\ Counted
    /\ calls' = calls \cup {[kind |-> "submit", panel |-> p, id |-> called',
                             prepared |-> panels[p].prepared, fields |-> panels[p].fields,
                             account |-> account["SN_SEPOLIA"]]}
    /\ panels' = [panels EXCEPT ![p].phase = "submitting"]
    /\ requests' = Append(requests,
                      [panel |-> p, dryRun |-> panels[p].dryRun, reviewed |-> reviewed[p],
                       actions |-> panels[p].prepared,
                       shown |-> Input(p, panels[p].fields, account["SN_SEPOLIA"])])
    /\ UNCHANGED <<walletVars, account, reviewed>>

\* Plausible bug: after a failure the same actions may be signed at once.
RetryAtOnce(panel) == [panel EXCEPT !.phase = "prepared"]

\* Plausible bug: a failure only shows its message.
OnlyAMessage(panel) == panel

\* The request failed: the pool is no longer the reviewed one, or the wallet
\* rejected it.
RequestFailed(panel) == [panel EXCEPT !.phase = "blocked"]

SignatureAnswered(call) ==
    /\ call.kind = "submit"
    /\ calls' = calls \ {call}
    /\ \E succeeded \in BOOLEAN :
          panels' = [panels EXCEPT ![call.panel] =
                        IF succeeded THEN [@ EXCEPT !.phase = "submitted"] ELSE RequestFailed(@)]
    /\ UNCHANGED <<walletVars, account, called, reviewed, requests>>

-----------------------------------------------------------------------------
Next ==
    \/ CheckCapabilities \/ SelectWallet
    \/ \E network \in Networks :
          Connect(network) \/ AccountChanged(network)
    \/ ConnectedMainnet \/ ConnectedSepolia
    \/ \E p \in Panel :
          UpdateField(p) \/ Prepare(p) \/ Acknowledge(p) \/ RequestSignature(p)
    \/ \E call \in calls :
          DryRunPassed(call) \/ DryRunFailed(call) \/ SignatureAnswered(call)

Spec == Init /\ [][Next]_vars

-----------------------------------------------------------------------------
(* Properties.                                                             *)

\* "One explicit wallet request after dry run" (wallet-capability.tsx:346): a
\* request follows a dry run of its own, whose actions were acknowledged after it
\* ended, however late dry runs, edits and account changes interleave.
OneRequestPerDryRun ==
    /\ \A i \in DOMAIN requests : requests[i].reviewed = requests[i].dryRun
    /\ \A i, j \in DOMAIN requests : requests[i].dryRun = requests[j].dryRun => i = j

\* A panel that shows itself preparing or submitting has a call that will end it:
\* its buttons do not stay disabled for ever.
BusyPanelHasACall ==
    \A p \in Panel :
        /\ panels[p].phase = "preparing" =>
              \E call \in calls : call.kind = "prepare" /\ call.panel = p
        /\ panels[p].phase = "submitting" =>
              \E call \in calls : call.kind = "submit" /\ call.panel = p

\* The claim panel shows an open-note amount exactly while it holds the actions
\* the amount was looked up for.
AmountShownWithItsClaim ==
    panels["claim"].publicAmount # 0 <=> panels["claim"].prepared # None

\* "Display the exact network, helper, token, public amount boundary, expiry, and
\* intended winner action before submission" (ROADMAP.md:221-222): what is signed
\* is what the fields and the connected account on the page say at the click.
SignedAsShown ==
    \A i \in DOMAIN requests :
        requests[i].actions = Actions(requests[i].panel, requests[i].shown)

=============================================================================
