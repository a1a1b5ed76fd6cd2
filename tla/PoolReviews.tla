----------------------------- MODULE PoolReviews -----------------------------
(***************************************************************************)
(* The scripts that review the deployed pool: verify-starknet-health.ts,   *)
(* verify-strk20-mainnet.ts and verify-strk20-sepolia.ts run the health    *)
(* check and then ask more of its second report;                           *)
(* reproduce-strk20-live-artifacts.ts asks one node for the class and      *)
(* compiles it again.  A run of a script ends with a verdict.  What a      *)
(* script prints is left out.                                              *)
(***************************************************************************)
EXTENDS StarknetHealth

CONSTANTS Scripts       \* the scripts a run of the model starts

ASSUME ScriptsAssumption ==
    Scripts \subseteq {"health", "mainnet", "sepolia", "artifacts", "deployment"}

VARIABLES
    script,     \* the one that runs
    step,       \* how far it is
    verdict,    \* what it ends with
    artifact    \* what the reproduction holds: [compiler, classHash, body]

scriptVars == <<script, step, verdict, artifact>>

NoVerdict == "none"
Failed == "exit code 2"
NotFetched == [hash |-> "not fetched"]

HealthScript == {"health", "mainnet", "sepolia"}

ScriptInit ==
    /\ script \in Scripts
    /\ step = CASE script \in HealthScript -> "check"
                [] script = "artifacts" -> "compiler"
                [] OTHER -> "files"
    /\ verdict = NoVerdict
    /\ artifact = [compiler |-> "none", classHash |-> "none", body |-> NotFetched]

Ends(with) ==
    /\ step' = "ended" /\ verdict' = with
    /\ UNCHANGED <<script, artifact, checkVars, networkVars>>

GoesTo(next) == step' = next /\ UNCHANGED <<script, verdict>>

\* The health check runs inside the script, which fails when the check throws.
CheckRuns ==
    /\ step = "check"
    /\ \/ HealthNext /\ UNCHANGED scriptVars
       \/ stage = "thrown" /\ Ends(Failed)

\* The pool's class in the second report.
ReportedClass == pools[2][1].classHash

HealthEnds ==
    /\ script = "health" /\ step = "check" /\ Reported
    /\ Ends("healthy")

MainnetEnds ==
    /\ script = "mainnet" /\ step = "check" /\ Reported
    /\ Ends(IF ReportedClass = target.reviewed THEN "healthy" ELSE Failed)

-----------------------------------------------------------------------------
(* Sepolia: the class must also have the history that was recorded, and be *)
(* reproduced from its source.                                             *)

HistoryFacts == {"declaration state", "declaration receipt",
                 "activation state", "activation receipt"}

\* What the first endpoint answers differently of the recorded declaration and
\* activation: a healthy node has them as recorded.
VerifyHistory ==
    IF node[NodeOf(1)].fault = "none" THEN {{}} ELSE SUBSET HistoryFacts

SepoliaEnds ==
    /\ script = "sepolia" /\ step = "check" /\ Reported
    /\ \E mismatches \in VerifyHistory :
         Ends(IF /\ mismatches = {}
                 /\ ReportedClass \in target.candidates /\ ReportedClass = target.reviewed
                THEN "healthy" ELSE Failed)

-----------------------------------------------------------------------------
(* The reproduction of the deployed artifacts, from one node.              *)

CompiledHash(body) == <<"compiled", body.hash>>

\* The compiler an operator names, an installed one, or the pinned download, whose
\* checksum is compared; each must say it has the pinned version.
ResolveCompiler ==
    /\ script = "artifacts" /\ step = "compiler"
    /\ \E source \in {"environment", "installed", "download"},
          build \in {"pinned", "other"}, saysPinned \in BOOLEAN :
         IF saysPinned /\ (source = "download" => build = "pinned")
           THEN /\ artifact' = [artifact EXCEPT !.compiler = build]
                /\ GoesTo("chain") /\ UNCHANGED <<checkVars, networkVars>>
           ELSE Ends(Failed)

\* The node must be one of the network's.
AskChain ==
    /\ script = "artifacts" /\ step = "chain"
    /\ \E right \in IF node[NodeOf(1)].fault = "fork" THEN BOOLEAN ELSE {TRUE} :
         IF right THEN GoesTo("class") /\ UNCHANGED <<artifact, checkVars, networkVars>>
         ELSE Ends(Failed)

\* The class hash and the class are two reads of the latest block, in any order.
ReadClassHash ==
    /\ script = "artifacts" /\ step = "class" /\ artifact.classHash = "none"
    /\ LET n == NodeOf(1)
       IN \E served \in ServedClasses(n, node[n].height) :
            artifact' = [artifact EXCEPT !.classHash = served.named.hash]
    /\ GoesTo("class") /\ UNCHANGED <<checkVars, networkVars>>

ReadClass ==
    /\ script = "artifacts" /\ step = "class" /\ artifact.body = NotFetched
    /\ LET n == NodeOf(1)
       IN \E served \in ServedClasses(n, node[n].height) :
            artifact' = [artifact EXCEPT !.body = served.body]
    /\ GoesTo("class") /\ UNCHANGED <<checkVars, networkVars>>

\* Both are the recorded class, and its compilation is the recorded one.
ArtifactsEnd ==
    /\ script = "artifacts" /\ step = "class"
    /\ artifact.classHash # "none" /\ artifact.body # NotFetched
    /\ \E compiled \in IF artifact.compiler = "pinned" THEN {CompiledHash(artifact.body)}
                       ELSE {CompiledHash(artifact.body), <<"compiled", "otherwise">>} :
         Ends(IF /\ artifact.classHash = target.observed
                 /\ artifact.body.hash = target.observed
                 /\ compiled = <<"compiled", target.observed>>
                THEN "reproduced" ELSE Failed)

\* A node does not answer, a file or the compiler cannot be used.
ScriptFails ==
    /\ \/ step \in {"chain", "class", "accounts"}
       \/ script = "sepolia" /\ step = "check" /\ Reported
    /\ Ends(Failed)

ReviewNext ==
    \/ CheckRuns \/ HealthEnds \/ MainnetEnds
    \/ SepoliaEnds
    \/ ResolveCompiler \/ AskChain \/ ReadClassHash \/ ReadClass \/ ArtifactsEnd
    \/ ScriptFails
=============================================================================
