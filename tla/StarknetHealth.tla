--------------------------- MODULE StarknetHealth ---------------------------
(***************************************************************************)
(* src/lib/starknet-health.ts: the check that two separately configured    *)
(* RPC nodes serve the same current chain and the same STRK20 pool, read   *)
(* twice with a pause between.  Every RPC call is a step of its own, so    *)
(* blocks arrive, the pool is upgraded and time passes between two of      *)
(* them.                                                                   *)
(*                                                                         *)
(* The nodes are outside the code.  A healthy one serves a prefix of the   *)
(* network's chain; at most one is faulty: on another fork, answering from *)
(* a stale cache, or sending a class body that is not the one hashed.  An  *)
(* ABI is its canonical value, so that its digest is the value itself; the *)
(* fee, validity and upgrade delay, which no assertion reads, are left     *)
(* out.                                                                    *)
(***************************************************************************)
EXTENDS Integers, Sequences, FiniteSets, FiniteSetsExt

CONSTANTS
    Nodes,              \* RPC nodes
    EndpointLists,      \* endpoint lists an operator configures
    Intervals,          \* pauses, in milliseconds, an operator configures
    Classes,            \* classes the pool may have: [hash, abi, version]
    Targets,            \* pools a script reviews: [network, abi, version, reviewed,
                        \* candidates, observed]: what its scripts pin
    FirstClass,         \* the pool's class in the first block
    Changes,            \* accounts that change their class in a block
    MaxHeadAge,         \* 120 seconds in the code
    MaxAhead,           \* 30 seconds in the code
    MaxHeight, MaxNow   \* bounds: blocks of a fork, clock

\* An entry without an address has no node; the ages are seconds.
ASSUME HealthAssumption ==
    /\ IsFiniteSet(Nodes)
    /\ EndpointLists \subseteq Seq([name: [text: STRING, written: STRING],
                                   url: [node: Nodes \cup {""}, written: STRING]])
    /\ {MaxHeadAge, MaxAhead} \subseteq Nat

VARIABLES
    now,        \* the clock, the reviewer's and the blocks'
    chain,      \* fork -> its blocks
    node,       \* node -> [fork, height, fault]
    target,     \* the pool under review
    endpoints,  \* the configured list
    interval,   \* the configured pause
    stage,      \* what the check does
    round,      \* 1, then 2
    heads,      \* round -> endpoint -> its head, once read
    pools,      \* round -> endpoint -> its pool snapshot, once read
    assertedAt  \* round -> clock when its heads were found healthy

networkVars == <<now, chain, node>>
checkVars == <<target, endpoints, interval, stage, round, heads, pools, assertedAt>>

Main == "main"
Forks == {Main, "other"}
Faults == {"none", "fork", "cache", "body", "syncing"}

-----------------------------------------------------------------------------
(* The network and its nodes, from how the check uses them.                *)

\* The forks have their first block in common.
BlockHash(fork, number) == <<IF number = 1 THEN Main ELSE fork, number>>

Faulty == {n \in Nodes : node[n].fault # "none"}

NetworkInit ==
    /\ now = 1
    /\ chain = [f \in Forks |-> <<[class |-> FirstClass, changed |-> {}, time |-> 1]>>]
    /\ node \in [Nodes -> [fork: Forks, height: {1}, fault: Faults]]
    /\ \A n \in Nodes : node[n].fork # Main <=> node[n].fault = "fork"
    /\ Cardinality(Faulty) <= 1

Tick == /\ now < MaxNow /\ now' = now + 1
        /\ UNCHANGED <<chain, node>>

\* A block; in it the pool or the accounts of a deployment may change their class.
NewBlock(f) ==
    /\ Len(chain[f]) < MaxHeight
    /\ LET last == chain[f][Len(chain[f])]
       IN  \E class \in Classes, more \in Changes :
             chain' = [chain EXCEPT ![f] =
                 Append(@, [class |-> class, changed |-> last.changed \cup more, time |-> now])]
    /\ UNCHANGED <<now, node>>

\* A node receives the next block of its fork, at its own pace.
Follow(n) ==
    /\ node[n].height < Len(chain[node[n].fork])
    /\ node' = [node EXCEPT ![n].height = @ + 1]
    /\ UNCHANGED <<now, chain>>

NetworkNext ==
    \/ Tick
    \/ \E f \in {node[n].fork : n \in Nodes} : NewBlock(f)
    \/ \E n \in Nodes : Follow(n)

-----------------------------------------------------------------------------
(* What the check reads and asserts.                                       *)

NotRead == [number |-> 0]       \* the answer is not there yet
Endpoint == DOMAIN endpoints
NodeOf(i) == endpoints[i].url.node

\* The shape of the pool's ABI that the adapter relies on.
VerifyPoolAbiSurface(abi) ==
    /\ {"compile_actions", "apply_actions", "get_version", "get_fee_amount",
        "get_proof_validity_blocks"} \subseteq abi.functions
    /\ abi.invoke = <<"contract_address", "calldata">>
    /\ {"InvokeExternal", "ComputeAndInvoke"} \subseteq abi.variants
    /\ abi.event = <<"contract_address", "selector">>

\* Names and addresses, without blanks, case and slashes at the end, are there
\* and differ: the node of a url is what is left of it.
AssertDistinctEndpoints(list) ==
    /\ \A i \in DOMAIN list : list[i].name.text # "" /\ list[i].url.node # ""
    /\ \A i, j \in DOMAIN list :
          i # j => list[i].name.text # list[j].name.text /\ list[i].url.node # list[j].url.node

AssertHealthyHeads(read) ==
    \A i \in Endpoint :
        LET age == now - read[i].time
        IN  /\ read[i].network = target.network
            /\ read[i].status \in {"ACCEPTED_ON_L1", "ACCEPTED_ON_L2"}
            /\ age >= -MaxAhead /\ age <= MaxHeadAge

\* Plausible bug: the first snapshot is compared with the target only.
AgreementWithTarget(states) ==
    \A i \in Endpoint :
        /\ states[i].recomputed = states[i].classHash
        /\ states[i].abi = target.abi
        /\ states[i].version = target.version

\* Every snapshot is the first one's, and what the target pins.
AssertPoolAgreement(states) ==
    \A i \in Endpoint :
        /\ states[i].number = states[1].number
        /\ states[i].blockHash = states[1].blockHash
        /\ states[i].classHash = states[1].classHash
        /\ states[i].recomputed = states[i].classHash
        /\ states[i].abi = target.abi
        /\ states[i].version = target.version

\* The last block that every endpoint has.
CommonBlock(r) == Min({heads[r][i].number : i \in Endpoint})

NothingRead == [r \in 1..2 |-> [i \in Endpoint |-> NotRead]]

CheckInit ==
    /\ target \in Targets
    /\ endpoints \in EndpointLists
    /\ interval \in Intervals
    /\ stage = "configured" /\ round = 1
    /\ heads = NothingRead /\ pools = NothingRead
    /\ assertedAt = [r \in 1..2 |-> 0]

Configured == UNCHANGED <<target, endpoints, interval>>

\* An assertion fails or an RPC call does: the check throws, with nothing kept.
Throw ==
    /\ stage' = "thrown" /\ round' = 1
    /\ heads' = NothingRead /\ pools' = NothingRead
    /\ assertedAt' = [r \in 1..2 |-> 0]
    /\ Configured /\ UNCHANGED networkVars

Begin ==
    /\ stage = "configured"
    /\ IF /\ Len(endpoints) >= 2 /\ AssertDistinctEndpoints(endpoints)
          /\ interval \in Int /\ 1000 <= interval /\ interval <= 30000
         THEN /\ stage' = "heads"
              /\ Configured /\ UNCHANGED <<round, heads, pools, assertedAt, networkVars>>
         ELSE Throw

\* The latest block of an endpoint.  A block that is not accepted has neither
\* number nor hash, and a node that syncs says so.
ReadHead(i) ==
    /\ stage = "heads" /\ heads[round][i] = NotRead
    /\ LET n == NodeOf(i)
           f == node[n].fork
           number == node[n].height
       IN  /\ node[n].fault # "syncing"
           /\ \E network \in IF node[n].fault = "fork" THEN {"SN_MAIN", "SN_SEPOLIA"}
                             ELSE {target.network} :
                heads' = [heads EXCEPT ![round][i] =
                    [number |-> number, hash |-> BlockHash(f, number), network |-> network,
                     status |-> "ACCEPTED_ON_L2", time |-> chain[f][number].time]]
    /\ Configured /\ UNCHANGED <<stage, round, pools, assertedAt, networkVars>>

HeadsAsserted ==
    /\ stage = "heads" /\ \A i \in Endpoint : heads[round][i] # NotRead
    /\ IF AssertHealthyHeads(heads[round])
         THEN /\ stage' = "pool"
              /\ assertedAt' = [assertedAt EXCEPT ![round] = now]
              /\ Configured /\ UNCHANGED <<round, heads, pools, networkVars>>
         ELSE Throw

\* The class a node names for the pool, and the body it sends, at a block.
ServedClasses(n, number) ==
    LET blocks == chain[node[n].fork]
    IN  CASE node[n].fault = "cache" ->
               {[named |-> blocks[k].class, body |-> blocks[k].class] : k \in 1..number}
          [] node[n].fault = "body" ->
               {[named |-> blocks[number].class, body |-> body] : body \in Classes}
          [] OTHER -> {[named |-> blocks[number].class, body |-> blocks[number].class]}

\* The seven reads of the pool at the common block.
ReadPoolState(i) ==
    /\ stage = "pool" /\ pools[round][i] = NotRead
    /\ LET n == NodeOf(i)
           number == CommonBlock(round)
       IN  /\ number <= node[n].height      \* or the node answers with an error
           /\ \E served \in ServedClasses(n, number) :
                /\ VerifyPoolAbiSurface(served.body.abi)
                /\ pools' = [pools EXCEPT ![round][i] =
                     [number |-> number, blockHash |-> BlockHash(node[n].fork, number),
                      classHash |-> served.named.hash, recomputed |-> served.body.hash,
                      abi |-> served.body.abi, version |-> served.named.version]]
    /\ Configured /\ UNCHANGED <<stage, round, heads, assertedAt, networkVars>>

PoolAsserted ==
    /\ stage = "pool" /\ \A i \in Endpoint : pools[round][i] # NotRead
    /\ IF AssertPoolAgreement(pools[round])
         THEN /\ stage' = IF round = 1 THEN "pause" ELSE "advance"
              /\ Configured /\ UNCHANGED <<round, heads, pools, assertedAt, networkVars>>
         ELSE Throw

SecondRound ==
    /\ stage = "pause"
    /\ stage' = "heads" /\ round' = 2
    /\ Configured /\ UNCHANGED <<heads, pools, assertedAt, networkVars>>

\* Every head is past the one it had before the pause, and the check reports.
Advanced ==
    /\ stage = "advance"
    /\ IF \A i \in Endpoint : heads[2][i].number > heads[1][i].number
         THEN /\ stage' = "reported"
              /\ Configured /\ UNCHANGED <<round, heads, pools, assertedAt, networkVars>>
         ELSE Throw

\* An RPC call is rejected, or an answer has not the shape it must have.
RpcFails == stage \in {"heads", "pool"} /\ Throw

HealthNext ==
    \/ Begin \/ HeadsAsserted \/ PoolAsserted \/ SecondRound \/ Advanced \/ RpcFails
    \/ \E i \in Endpoint : ReadHead(i) \/ ReadPoolState(i)

-----------------------------------------------------------------------------
Reported == stage = "reported"

\* "Provider disagreement must fail closed" (docs/SECURITY_REVIEW.md:129): with one
\* node of two healthy, a report says what the network's chain has.  In both rounds
\* the block it names is on that chain and was recent when the heads were compared,
\* the pool had the class it names there, the class hashes to it and has the target's
\* ABI; and the second block is after the first.
ReportsAreTrue ==
    Reported =>
        /\ \A r \in 1..2, i \in Endpoint :
             LET snapshot == pools[r][i]
                 block == chain[Main][snapshot.number]
             IN  /\ snapshot.number <= Len(chain[Main])
                 /\ snapshot.blockHash = BlockHash(Main, snapshot.number)
                 /\ block.time >= assertedAt[r] - MaxHeadAge
                 /\ snapshot.classHash = block.class.hash
                 /\ snapshot.abi = block.class.abi /\ snapshot.abi = target.abi
        /\ pools[2][1].number > pools[1][1].number
=============================================================================
