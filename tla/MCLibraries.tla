----------------------------- MODULE MCLibraries -----------------------------
(***************************************************************************)
(* Small instances of the payment form's pure library, of the local        *)
(* product records and of the review scripts.  A behaviour runs one part:  *)
(* "amounts" every amount text, "history" a stored history of any content, *)
(* "market" and "plans" two tabs on the local records, "pool" the scripts  *)
(* that review the pool, with one node faulty, "deployment" the release,   *)
(* the reviewer, the operator and the last gate, with healthy nodes.       *)
(***************************************************************************)
EXTENDS SimpleMainnetPayment, LocalWorkspace, MainnetDeployment

CONSTANTS Parts, MaxWhole, MaxFraction, Hashes, FirstSource, n1, n2

ASSUME AmountsAssumption == MaxWhole \in Nat /\ MaxFraction \in Nat

VARIABLES part, text, stored

paymentVars == <<text, stored>>
mcVars == <<part, paymentVars, localVars, networkVars, checkVars, scriptVars, releaseVars, deploymentVars>>

NoText == [whole |-> 0, fraction |-> <<>>]

WellConfigured ==
    AssertDistinctEndpoints(endpoints) /\ interval \in Int /\ 1000 <= interval /\ interval <= 30000

\* What a part does not run has one initial state.
Init ==
    /\ part \in Parts
    /\ IF part = "amounts" THEN text \in [whole: 0..MaxWhole, fraction: BoundedSeq(Digit, MaxFraction)]
       ELSE text = NoText
    /\ stored = <<>>
    /\ LocalInit /\ NetworkInit /\ CheckInit /\ ScriptInit /\ ReleaseInit /\ DeploymentInit
    /\ script = "deployment" <=> part # "pool"
    /\ part # "pool" => /\ Faulty = {}
                        /\ target.network = "SN_MAIN"
                        /\ WellConfigured
    /\ script = "mainnet" => target.network = "SN_MAIN"
    /\ script \in {"health", "sepolia", "artifacts"} => target.network = "SN_SEPOLIA"
    /\ part # "deployment" => worktree = FirstSource
    /\ script \in {"mainnet", "sepolia"} =>
          /\ \A n \in Nodes : node[n].fault \in {"none", "cache"}
          /\ WellConfigured
    /\ script = "artifacts" => /\ WellConfigured
                               /\ Faulty \subseteq {NodeOf(1)}

\* Another hash is submitted and the history is stored.
Store == \E h \in Hashes : stored' = UpdateTransactionHistory(stored, h) /\ UNCHANGED text

\* The files change until the last gate has read them, at once and between two
\* verifications; it asks the nodes, and the chain matters, only then.
Next ==
    /\ UNCHANGED part
    /\ part \notin {"market", "plans"} => UNCHANGED localVars
    /\ \/ /\ part = "history" /\ Store
          /\ UNCHANGED <<networkVars, checkVars, scriptVars, releaseVars, deploymentVars>>
       \/ /\ part \in {"market", "plans"} /\ LocalNext
          /\ \/ part = "market" /\ made'["feed"] = 0 /\ made'["plans"] = 0
             \/ part = "plans" /\ made'["gigs"] = 0 /\ 0 \in {made'["profiles"], made'["plans"]}
          /\ UNCHANGED <<paymentVars, networkVars, checkVars, scriptVars, releaseVars, deploymentVars>>
       \/ /\ part = "pool" /\ ReviewNext
          /\ UNCHANGED <<paymentVars, releaseVars, deploymentVars>>
       \/ /\ part = "deployment" /\ DeploymentNext
          /\ step = "files" => build = NoBuild
          /\ UNCHANGED <<paymentVars, releaseVars>>
       \/ /\ part \in {"pool", "deployment"} /\ step \notin {"files", "ended"}
          /\ stage # "thrown" /\ NetworkNext
          /\ part = "pool" => \A f \in Forks : \A k \in DOMAIN chain'[f] : chain'[f][k].changed = {}
          /\ part = "deployment" => \A n \in Nodes : node'[n].height + 1 >= Len(chain'[Main])
          /\ UNCHANGED <<paymentVars, checkVars, scriptVars, releaseVars, deploymentVars>>
       \/ /\ part = "deployment" /\ step = "files"
          /\ UNCHANGED <<paymentVars, networkVars, checkVars, scriptVars>>
          /\ \/ ReleaseNext /\ UNCHANGED deploymentVars
             \/ (Approve \/ WriteInputs) /\ UNCHANGED releaseVars

Spec == Init /\ [][Next]_mcVars

-----------------------------------------------------------------------------
(* Values of the constants.                                                *)

Abi(functions) ==
    [functions |-> functions, variants |-> {"InvokeExternal", "ComputeAndInvoke"},
     invoke |-> <<"contract_address", "calldata">>, event |-> <<"contract_address", "selector">>]
PoolAbi == Abi({"compile_actions", "apply_actions", "get_version", "get_fee_amount",
                "get_proof_validity_blocks", "get_upgrade_delay"})

V2 == [hash |-> "v2", abi |-> PoolAbi, version |-> "2.0"]
SameAbi == [hash |-> "other code", abi |-> PoolAbi, version |-> "2.0"]
V1 == [hash |-> "v1", abi |-> Abi({"compile_actions"}), version |-> "1.0"]
MCClasses == {V2, SameAbi}

Pool(network, class, candidates, observed) ==
    [network |-> network, abi |-> PoolAbi, version |-> "2.0", reviewed |-> class,
     candidates |-> candidates, observed |-> observed]
MCTargets == {Pool("SN_MAIN", "v2", {"v2"}, "v2"),
              Pool("SN_SEPOLIA", "rc0", {"candidate", "dev candidate"}, "other code")}

Secondary(n, written) == [name |-> [text |-> "secondary", written |-> "plain"],
                           url |-> [node |-> n, written |-> written]]
Primary == [name |-> [text |-> "primary", written |-> "plain"], url |-> [node |-> n1, written |-> "plain"]]
MCEndpoints == {<<Primary, Secondary(n2, "plain")>>, <<Primary, Secondary(n1, "slash at the end")>>}
MCChanges == {{}, {"admin"}}
MCMade == [profiles |-> 2, gigs |-> 1, proposals |-> 1, orders |-> 2, receipts |-> 3,
           feed |-> 1, plans |-> 1]

-----------------------------------------------------------------------------
\* The value of a text, counted unit by unit: the number of units n of which the
\* digits of n, written with Decimals places, begin with the text's.
ReferenceValue(t) ==
    CHOOSE n \in 0..((MaxWhole + 1) * Unit) :
        /\ n \div Unit = t.whole
        /\ \A i \in 1..Decimals :
              (n \div Power(Decimals - i)) % Base = IF i <= Len(t.fraction) THEN t.fraction[i] ELSE 0

\* "Exact decimal parsing without JavaScript floating-point arithmetic"
\* (README.md:58): a text is its exact value, or invalid when it is zero, too
\* large or too precise; and the formatted value is the text without the zeros at
\* its end, which parses to the same value.
AmountsExact ==
    LET amount == ParseStrkAmount(text)
        written == FormatStrkAmount(amount)
    IN  IF Len(text.fraction) > Decimals THEN amount = InvalidAmount
        ELSE /\ amount = IF ReferenceValue(text) < AmountBound THEN ReferenceValue(text)
                         ELSE InvalidAmount
             /\ amount # InvalidAmount =>
                  /\ ParseStrkAmount(written) = amount
                  /\ written.whole = text.whole
                  /\ IsPrefix(written.fraction, text.fraction)

\* What is stored is what a reload reads: the same hashes in the same order; and
\* what was stored of the local records can be exported and restored.
ReadBackAsStored == ParseTransactionHistory(stored) = stored /\ BackupsRestore
=============================================================================
