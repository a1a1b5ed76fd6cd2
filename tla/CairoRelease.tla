---------------------------- MODULE CairoRelease ----------------------------
(***************************************************************************)
(* scripts/verify-cairo-release.ts: the review manifests, built from the   *)
(* last commit of the contracts with pinned tools while the repository     *)
(* goes on changing.  A source stands for all the compiler inputs of a     *)
(* commit (manifest, lock file and contracts); commits that leave them     *)
(* alone are left out.  An archive, an artifact or a class hash is what it *)
(* is made from, so that its digest is itself.                             *)
(***************************************************************************)
EXTENDS Integers, Sequences

CONSTANTS
    Sources,            \* contents of the compiler inputs
    PassingSources,     \* those that build and pass exactly the expected tests
    LockedSources,      \* those whose lock file a build leaves unchanged
    Platforms,          \* platforms the script runs on
    PinnedPlatforms,    \* those it has digests of the tools for
    MaxCommits          \* bound

ASSUME ReleaseAssumption ==
    /\ PassingSources \subseteq Sources /\ LockedSources \subseteq Sources
    /\ PinnedPlatforms \subseteq Platforms
    /\ MaxCommits \in Nat \ {0}

VARIABLES
    commits,    \* the contents of the commits that change the compiler inputs
    worktree,   \* the contents in the working tree
    build,      \* the verification that runs: [step, commit, tools, source]
    manifests   \* network -> the manifest in its file

releaseVars == <<commits, worktree, build, manifests>>

Networks == {"SN_SEPOLIA", "SN_MAIN"}
Tools == {"scarb", "starknet-foundry"}
NoManifest == [commit |-> 0]
NoBuild == [step |-> "none", commit |-> 0, tools |-> {}, source |-> "none"]

ReleaseInit ==
    /\ \E s \in Sources : commits = <<s>> /\ worktree = s
    /\ build = NoBuild
    /\ manifests = [n \in Networks |-> NoManifest]

-----------------------------------------------------------------------------
(* The repository.                                                         *)

Edit == \E s \in Sources \ {worktree} :
    worktree' = s /\ UNCHANGED <<commits, build, manifests>>

Commit ==
    /\ worktree # commits[Len(commits)] /\ Len(commits) < MaxCommits
    /\ commits' = Append(commits, worktree)
    /\ UNCHANGED <<worktree, build, manifests>>

-----------------------------------------------------------------------------
(* A verification.                                                         *)

\* Uncommitted compiler inputs are refused.
AssertCommittedContractTree ==
    /\ build.step = "none"
    /\ worktree = commits[Len(commits)]
    /\ build' = [build EXCEPT !.step = "log"]
    /\ UNCHANGED <<commits, worktree, manifests>>

\* The last commit that changed the inputs, and a platform with pinned tools.
SourceCommit ==
    /\ build.step = "log"
    /\ \E platform \in Platforms :
         build' = IF platform \in PinnedPlatforms
                    THEN [build EXCEPT !.step = "install", !.commit = Len(commits)]
                    ELSE NoBuild
    /\ UNCHANGED <<commits, worktree, manifests>>

\* A download that is not the pinned archive is refused; scarb comes first.
InstallTool(tool) ==
    /\ build.step = "install" /\ tool \notin build.tools
    /\ tool = "starknet-foundry" => "scarb" \in build.tools
    /\ \E archive \in {"pinned", "other"} :
         build' = IF archive # "pinned" THEN NoBuild
                  ELSE [build EXCEPT !.tools = @ \cup {tool},
                                     !.step = IF build.tools \cup {tool} = Tools
                                                THEN "archive" ELSE @]
    /\ UNCHANGED <<commits, worktree, manifests>>

\* The sources are taken from the commit, whatever the working tree has by now.
ArchiveSources ==
    /\ build.step = "archive"
    /\ build' = [build EXCEPT !.step = "build", !.source = commits[build.commit]]
    /\ UNCHANGED <<commits, worktree, manifests>>

\* A release build and the tests; the lock file must come out as it went in.
BuildAndTest ==
    /\ build.step = "build"
    /\ build' = IF build.source \in PassingSources \cap LockedSources
                  THEN [build EXCEPT !.step = "write SN_SEPOLIA"] ELSE NoBuild
    /\ UNCHANGED <<commits, worktree, manifests>>

\* What both manifests say; the bindings of a network are those of its pool.
ReviewManifest(network) ==
    [commit |-> build.commit, source |-> build.source, tools |-> build.tools,
     network |-> network,
     allowlisted |-> network = "SN_MAIN",
     gates |-> [independentCairoReview |-> "required",
                constructorArguments |-> "unset_and_unreviewed",
                declaration |-> "not_authorized", deployment |-> "not_authorized"]]

\* Two files, one after the other.
WriteManifest(network) ==
    /\ build.step \in {"write SN_SEPOLIA", "write SN_MAIN"}
    /\ network = "SN_SEPOLIA" <=> build.step = "write SN_SEPOLIA"
    /\ manifests' = [manifests EXCEPT ![network] = ReviewManifest(network)]
    /\ build' = IF network = "SN_SEPOLIA" THEN [build EXCEPT !.step = "write SN_MAIN"]
                ELSE NoBuild
    /\ UNCHANGED <<commits, worktree>>

\* Any step throws, or the process dies: the work directory is all that is lost.
Abandon ==
    /\ build # NoBuild
    /\ build' = NoBuild
    /\ UNCHANGED <<commits, worktree, manifests>>

ReleaseNext ==
    \/ Edit \/ Commit
    \/ AssertCommittedContractTree \/ SourceCommit
    \/ \E tool \in Tools : InstallTool(tool)
    \/ ArchiveSources \/ BuildAndTest
    \/ \E network \in Networks : WriteManifest(network)
    \/ Abandon
=============================================================================
