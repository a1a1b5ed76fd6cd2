-------------------------- MODULE MainnetDeployment --------------------------
(***************************************************************************)
(* The last gate before a deployment: scripts/review-mainnet-deployment.ts *)
(* with src/lib/mainnet-deployment-readiness.ts.  It reads the manifest of *)
(* a release (CairoRelease) and the inputs an operator wrote, and asks two *)
(* nodes for the pool (PoolReviews) and for the classes of the accounts.   *)
(* A field that is only looked at by itself is in "unset" when it does not *)
(* pass; the fields that are compared have values.                         *)
(***************************************************************************)
EXTENDS PoolReviews, CairoRelease

CONSTANTS
    Approvals,      \* bound: approvals a reviewer gives
    LeftOpen        \* bound: controls an operator may leave open

VARIABLES
    approved,   \* commits the independent reviewer approved
    inputs,     \* the operator's file
    reviewed,   \* the manifest and the inputs the script has read
    accounts    \* endpoint -> classes of admin and deployer that are not as in the inputs

deploymentVars == <<approved, inputs, reviewed, accounts>>

\* The controls decided by one field or a group of fields alone.
Controls == {
    "INPUT_FORMAT_INVALID", "NETWORK_CHAIN_INVALID", "PRIVACY_POOL_MISMATCH",
    "PRIVACY_POOL_CLASS_MISMATCH", "MANIFEST_SHA256_UNSET",
    "INDEPENDENT_REVIEW_PENDING", "GOVERNANCE_ADMIN_UNSET",
    "GOVERNANCE_ADMIN_CLASS_UNSET", "GOVERNANCE_CONTROL_UNREVIEWED",
    "GOVERNANCE_THRESHOLD_UNREVIEWED", "GOVERNANCE_SIGNERS_UNREVIEWED",
    "GOVERNANCE_EMERGENCY_POLICY_UNREVIEWED", "PRODUCTION_VERIFIER_CLASS_UNSET",
    "PRODUCTION_VERIFIER_COMPILED_CLASS_UNSET", "PRODUCTION_CIRCUIT_UNREVIEWED",
    "PRODUCTION_VERIFICATION_KEY_UNREVIEWED", "PRODUCTION_CEREMONY_REVIEW_PENDING",
    "ATTESTOR_PUBLIC_KEY_UNSET", "ATTESTOR_ROTATION_UNREVIEWED",
    "ATTESTOR_COMPROMISE_POLICY_UNREVIEWED", "DEPLOYER_ACCOUNT_UNSET",
    "DEPLOYER_CLASS_UNSET", "MAXIMUM_TOTAL_FEE_FRI_UNSET"}

NoInputs == [unset |-> Controls, manifest |-> NoManifest, reviewedCommit |-> 0,
             privateMaterial |-> FALSE]
NotReviewed == [manifest |-> NoManifest, inputs |-> NoInputs]
NotAnswered == {"not answered"}

DeploymentInit ==
    /\ approved = {}
    /\ inputs = NoInputs
    /\ reviewed = NotReviewed
    /\ accounts = [i \in Endpoint |-> NotAnswered]

-----------------------------------------------------------------------------
(* The reviewer and the operator, outside the code.                        *)

\* A reviewer reads a commit and approves it.
Approve ==
    /\ Cardinality(approved) < Approvals
    /\ \E c \in DOMAIN commits \ approved : approved' = approved \cup {c}
    /\ UNCHANGED <<inputs, reviewed, accounts>>

\* An operator fills in what there is: the digest of the manifest that is there,
\* an approval that was given, and all the controls or all but one; or a secret.
WriteInputs ==
    /\ manifests["SN_MAIN"] # NoManifest
    /\ \E open \in SUBSET LeftOpen, c \in approved, private \in BOOLEAN :
         /\ Cardinality(open) + (IF private THEN 1 ELSE 0) <= 1
         /\ inputs' = [unset |-> open, manifest |-> manifests["SN_MAIN"],
                       reviewedCommit |-> c, privateMaterial |-> private]
    /\ UNCHANGED <<approved, reviewed, accounts>>

-----------------------------------------------------------------------------
(* The review.                                                             *)

\* The manifest is a release candidate for Mainnet, with its gates closed.
ManifestBlockers(manifest) ==
    IF manifest = NoManifest THEN {"MAINNET_RELEASE_MANIFEST_INVALID"}
    ELSE (IF manifest.network # "SN_MAIN" \/ ~manifest.allowlisted
            THEN {"MAINNET_RELEASE_MANIFEST_INVALID"} ELSE {})
         \cup
         (IF \/ manifest.gates.independentCairoReview # "required"
             \/ manifest.gates.constructorArguments # "unset_and_unreviewed"
             \/ manifest.gates.declaration # "not_authorized"
             \/ manifest.gates.deployment # "not_authorized"
            THEN {"RELEASE_SAFETY_GATES_INVALID"} ELSE {})

\* Plausible bug: the approval of any commit will do.
AnyApproval(input, manifest) ==
    input.unset \cup ManifestBlockers(manifest)
      \cup IF input.manifest # manifest THEN {"MANIFEST_SHA256_MISMATCH"} ELSE {}

\* Everything that is open.
ReviewMainnetDeploymentInputs(input, manifest) ==
    input.unset \cup ManifestBlockers(manifest)
      \cup (IF input.manifest # manifest THEN {"MANIFEST_SHA256_MISMATCH"} ELSE {})
      \cup (IF /\ "INDEPENDENT_REVIEW_PENDING" \notin input.unset
               /\ input.reviewedCommit # manifest.commit
              THEN {"INDEPENDENT_REVIEW_COMMIT_MISMATCH"} ELSE {})

\* No field is named as, and no text looks like, a secret.
AssertNoPrivateMaterial(input) == ~input.privateMaterial

\* Both files are read and reviewed before anything is asked of a node; a manifest
\* that is not there, or private material in the inputs, ends the script.
ReviewInputs ==
    /\ script = "deployment" /\ step = "files"
    /\ LET manifest == manifests["SN_MAIN"]
       IN  IF \/ manifest = NoManifest \/ ~AssertNoPrivateMaterial(inputs)
              \/ ReviewMainnetDeploymentInputs(inputs, manifest) # {}
             THEN Ends(Failed) /\ UNCHANGED reviewed
             ELSE /\ GoesTo("check") /\ UNCHANGED <<artifact, checkVars, networkVars>>
                  /\ reviewed' = [manifest |-> manifest, inputs |-> inputs]
    /\ UNCHANGED <<approved, inputs, accounts>>

\* The pool has the reviewed class in the second report.
PoolReviewed ==
    /\ script = "deployment" /\ step = "check" /\ Reported
    /\ IF ReportedClass = target.reviewed
         THEN GoesTo("accounts") /\ UNCHANGED <<artifact, checkVars, networkVars>>
         ELSE Ends(Failed)
    /\ UNCHANGED deploymentVars

\* The classes of both accounts in the latest block of an endpoint.
ReadAccounts(i) ==
    /\ script = "deployment" /\ step = "accounts" /\ accounts[i] = NotAnswered
    /\ LET n == NodeOf(i)
       IN  accounts' = [accounts EXCEPT ![i] = chain[node[n].fork][node[n].height].changed]
    /\ UNCHANGED <<approved, inputs, reviewed, scriptVars, checkVars, networkVars>>

AccountsReviewed ==
    /\ script = "deployment" /\ step = "accounts"
    /\ \A i \in Endpoint : accounts[i] # NotAnswered
    /\ Ends(IF \A i \in Endpoint : accounts[i] = {} THEN "ready" ELSE Failed)
    /\ UNCHANGED deploymentVars

DeploymentNext ==
    \/ ReviewInputs \/ PoolReviewed \/ AccountsReviewed
    \/ \E i \in Endpoint : ReadAccounts(i)
    \/ ReviewNext /\ UNCHANGED deploymentVars

-----------------------------------------------------------------------------
\* A verdict says what was established.  "binds an independent approval to the exact
\* compiled contract source commit" (docs/SECURITY_REVIEW.md:130-131): ready means
\* that the contracts in the manifest were compiled, with the pinned tools and passing
\* the tests, from the source that the reviewer approved, whatever was edited,
\* committed, built or written meanwhile.  A pool verdict means that the network had
\* the pinned class in the block of the second report; ready, that the accounts had
\* theirs in some block since.
VerdictsAreBacked ==
    /\ verdict \in {"ready", "healthy"} =>
         /\ Reported
         /\ script # "health" =>
              chain[Main][pools[2][1].number].class.hash = target.reviewed
    /\ verdict = "ready" =>
         /\ reviewed.inputs.reviewedCommit \in approved
         /\ reviewed.manifest.source = commits[reviewed.inputs.reviewedCommit]
         /\ reviewed.manifest.source \in PassingSources
         /\ reviewed.manifest.tools = Tools
         /\ \E k \in pools[2][1].number..Len(chain[Main]) : chain[Main][k].changed = {}
    /\ verdict = "reproduced" => artifact.body.hash = target.observed
=============================================================================
