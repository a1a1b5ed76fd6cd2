--------------------------- MODULE LibrariesProofs ---------------------------
(***************************************************************************)
(* Theorems about MCLibraries for any constants.  The reviews: with one    *)
(* node of two healthy, a report says what the network's chain has, and a  *)
(* verdict rests on what was read.  The local records: every copy agrees   *)
(* with itself, whatever tabs, backups and resets overwrite.  What is      *)
(* stored is read back.  An amount's text is its exact value.              *)
(***************************************************************************)
EXTENDS MCLibraries, SimpleMainnetPaymentProofs, FiniteSetTheorems, FunctionTheorems

-----------------------------------------------------------------------------
(* The network: forks that share a first block, and nodes that serve a     *)
(* prefix of theirs, one of them faulty at most.                           *)

Block == [class: Classes \cup {FirstClass}, changed: SUBSET UNION Changes, time: Nat]

NetworkInv ==
    /\ now \in Nat
    /\ chain \in [Forks -> Seq(Block)]
    /\ node \in [Nodes -> [fork: Forks, height: Nat \ {0}, fault: Faults]]
    /\ chain["other"] # <<>> /\ chain[Main] # <<>>
    /\ chain["other"][1] = chain[Main][1]
    /\ \A n \in Nodes : /\ node[n].fork # Main <=> node[n].fault = "fork"
                        /\ node[n].height <= Len(chain[node[n].fork])
    /\ \A m, n \in Faulty : m = n

\* What a step may do to the network: blocks are added, and nodes receive them.
Grows ==
    /\ \A f \in Forks : /\ Len(chain[f]) <= Len(chain'[f])
                        /\ \A k \in 1..Len(chain[f]) : chain'[f][k] = chain[f][k]
    /\ \A n \in Nodes : /\ node'[n].fork = node[n].fork /\ node'[n].fault = node[n].fault
                        /\ node[n].height <= node'[n].height

LEMMA NetworkInitially == NetworkInit => NetworkInv
<1> SUFFICES ASSUME NetworkInit PROVE NetworkInv
  OBVIOUS
<1> DEFINE first == [class |-> FirstClass, changed |-> {}, time |-> 1]
<1>1. first \in Block
  BY DEF Block
<1> HIDE DEF first
<1>2. <<first>> \in Seq(Block) /\ Len(<<first>>) = 1 /\ <<first>>[1] = first /\ <<first>> # <<>>
  BY <1>1
<1>3. chain = [f \in Forks |-> <<first>>]
  BY DEF NetworkInit, first
<1>4. now \in Nat /\ chain \in [Forks -> Seq(Block)]
  BY <1>2, <1>3 DEF NetworkInit
<1>5. /\ chain["other"] # <<>> /\ chain[Main] # <<>>
      /\ chain["other"][1] = chain[Main][1]
  BY <1>2, <1>3 DEF Forks, Main
<1>6. node \in [Nodes -> [fork: Forks, height: Nat \ {0}, fault: Faults]]
  BY DEF NetworkInit
<1>7. \A n \in Nodes : node[n].fork \in Forks /\ node[n].height = 1
  BY DEF NetworkInit
<1>8. \A n \in Nodes : node[n].height <= Len(chain[node[n].fork])
  BY <1>2, <1>3, <1>7
<1>9. \A m, n \in Faulty : m = n
  <2>1. IsFiniteSet(Faulty)
    BY HealthAssumption, FS_Subset DEF Faulty
  <2>2. Cardinality(Faulty) \in Nat /\ Cardinality(Faulty) <= 1
    BY <2>1, FS_CardinalityType DEF NetworkInit
  <2>3. CASE Cardinality(Faulty) = 0
    BY <2>1, <2>3, FS_EmptySet
  <2>4. CASE Cardinality(Faulty) = 1
    BY <2>1, <2>4, FS_Singleton
  <2>5. QED
    BY <2>2, <2>3, <2>4
<1>10. QED
  BY <1>4, <1>5, <1>6, <1>8, <1>9 DEF NetworkInit, NetworkInv

LEMMA NetworkSteps ==
    ASSUME NetworkInv, NetworkNext \/ UNCHANGED networkVars
    PROVE  Grows /\ NetworkInv'
<1> USE DEF NetworkInv
<1>1. \A f \in Forks : chain[f] \in Seq(Block) /\ Len(chain[f]) \in Nat
  OBVIOUS
<1>2. CASE UNCHANGED <<chain, node>> /\ now' \in Nat
  <2>1. Grows
    BY <1>1, <1>2 DEF Grows
  <2>2. NetworkInv'
    BY <1>2 DEF Faulty
  <2>3. QED
    BY <2>1, <2>2
<1>3. ASSUME NEW n \in Nodes, Follow(n)
      PROVE  Grows /\ NetworkInv'
  <2>1. /\ now' = now /\ chain' = chain
        /\ node' = [node EXCEPT ![n].height = @ + 1]
        /\ node[n].height < Len(chain[node[n].fork])
    BY <1>3 DEF Follow
  <2>2. \A m \in Nodes : /\ node'[m].fork = node[m].fork /\ node'[m].fault = node[m].fault
                         /\ node'[m].height = IF m = n THEN node[n].height + 1 ELSE node[m].height
    BY <2>1
  <2>3. node' \in [Nodes -> [fork: Forks, height: Nat \ {0}, fault: Faults]]
    BY <2>1
  <2>4. Grows
    BY <1>1, <2>1, <2>2 DEF Grows
  <2>5. \A m \in Nodes : node'[m].height <= Len(chain[node[m].fork])
    <3> TAKE m \in Nodes
    <3>1. node[m].height \in Nat /\ Len(chain[node[m].fork]) \in Nat
      BY <1>1
    <3>2. QED
      BY <2>1, <2>2, <3>1
  <2>6. Faulty' = Faulty
    BY <2>2 DEF Faulty
  <2>7. QED
    BY <2>1, <2>2, <2>3, <2>4, <2>5, <2>6
<1>4. ASSUME NEW f \in Forks, NewBlock(f)
      PROVE  Grows /\ NetworkInv'
  <2> DEFINE last == chain[f][Len(chain[f])]
  <2>1. PICK class \in Classes, more \in Changes :
          chain' = [chain EXCEPT ![f] =
             Append(@, [class |-> class, changed |-> last.changed \cup more, time |-> now])]
    BY <1>4 DEF NewBlock
  <2> DEFINE block == [class |-> class, changed |-> last.changed \cup more, time |-> now]
  <2>2. last \in Block
    <3>1. chain[f] # <<>> /\ chain[f] \in Seq(Block)
      BY <1>1 DEF Forks, Main
    <3>2. Len(chain[f]) \in 1..Len(chain[f])
      BY <3>1
    <3>3. QED
      BY <3>1, <3>2
  <2>3. block \in Block
    BY <2>2 DEF Block
  <2> HIDE DEF block
  <2>4. chain' = [chain EXCEPT ![f] = Append(chain[f], block)] /\ node' = node /\ now' = now
    BY <1>4, <2>1 DEF NewBlock, block
  <2>5. chain' \in [Forks -> Seq(Block)]
    BY <1>1, <2>3, <2>4
  <2>6. /\ \A g \in Forks \ {f} : chain'[g] = chain[g]
        /\ chain'[f] = Append(chain[f], block)
    BY <2>4
  <2>7. \A k \in 1..Len(chain[f]) : chain'[f][k] = chain[f][k]
    BY <1>1, <2>3, <2>6
  <2>8. Len(chain'[f]) = Len(chain[f]) + 1
    BY <1>1, <2>3, <2>6
  <2>9. Grows
    BY <1>1, <2>4, <2>6, <2>7, <2>8 DEF Grows
  <2>10. \A g \in Forks : chain'[g] # <<>> /\ chain'[g][1] = chain[g][1]
    <3> TAKE g \in Forks
    <3>1. chain[g] # <<>> /\ chain[g] \in Seq(Block)
      BY <1>1 DEF Forks, Main
    <3>2. 1 \in 1..Len(chain[g])
      BY <3>1
    <3>3. chain'[g] \in Seq(Block) /\ Len(chain'[g]) \in Nat
      BY <2>5
    <3>4. Len(chain[g]) <= Len(chain'[g]) /\ chain'[g][1] = chain[g][1]
      BY <2>9, <3>2 DEF Grows
    <3>5. chain'[g] # <<>>
      BY <1>1, <3>2, <3>3, <3>4
    <3>6. QED
      BY <3>4, <3>5
  <2>11. \A m \in Nodes : node'[m].height <= Len(chain'[node'[m].fork])
    <3> TAKE m \in Nodes
    <3>1. node[m].fork \in Forks /\ node[m].height \in Nat /\ Len(chain[node[m].fork]) \in Nat
      BY <1>1
    <3>2. Len(chain[node[m].fork]) <= Len(chain'[node[m].fork])
      BY <2>9, <3>1 DEF Grows
    <3>3. Len(chain'[node[m].fork]) \in Nat
      BY <2>5, <3>1
    <3>4. QED
      BY <2>4, <3>1, <3>2, <3>3
  <2>12. Faulty' = Faulty
    BY <2>4 DEF Faulty
  <2>13. /\ chain'["other"] # <<>> /\ chain'[Main] # <<>>
         /\ chain'["other"][1] = chain'[Main][1]
    BY <2>10 DEF Forks, Main
  <2>14. QED
    BY <2>4, <2>5, <2>9, <2>11, <2>12, <2>13
<1>5. CASE Tick
  BY <1>2, <1>5 DEF Tick
<1>6. CASE UNCHANGED networkVars
  BY <1>2, <1>6 DEF networkVars
<1>7. CASE \E f \in {node[n].fork : n \in Nodes} : NewBlock(f)
  <2>1. PICK f \in {node[n].fork : n \in Nodes} : NewBlock(f)
    BY <1>7
  <2>2. f \in Forks
    OBVIOUS
  <2>3. QED
    BY <1>4, <2>1, <2>2
<1>8. QED
  BY <1>3, <1>5, <1>6, <1>7 DEF NetworkNext

-----------------------------------------------------------------------------
(* The check: what it holds was served by a node.                          *)

Healthy(i) == node[NodeOf(i)].fault = "none"
ServedBy(i, number) == chain[node[NodeOf(i)].fork][number]

\* The heads, and the pool states, of a round were found to be good.
HeadsIn(r) == r < round \/ (r = round /\ stage \in {"pool", "pause", "advance", "reported"})
PoolsIn(r) == r < round \/ (r = round /\ stage \in {"pause", "advance", "reported"})

StageInv ==
    /\ endpoints \in EndpointLists
    /\ round \in 1..2
    /\ stage \in {"pause", "configured", "thrown"} => round = 1
    /\ stage \in {"advance", "reported"} => round = 2
    /\ stage \in {"configured", "thrown", "heads", "pool", "pause", "advance", "reported"}
    /\ stage \notin {"configured", "thrown"} =>
         Len(endpoints) >= 2 /\ AssertDistinctEndpoints(endpoints)

HeadFits(i, head) ==
    /\ NodeOf(i) \in Nodes
    /\ head.number \in 1..node[NodeOf(i)].height
    /\ head.time = ServedBy(i, head.number).time

HeadsInv ==
    /\ heads = [r \in 1..2 |-> [i \in Endpoint |-> heads[r][i]]]
    /\ \A r \in 1..2, i \in Endpoint : heads[r][i] = NotRead \/ HeadFits(i, heads[r][i])

\* Heads that were compared are all there, and were recent then.
RecentInv ==
    /\ assertedAt \in [1..2 -> Nat]
    /\ \A r \in 1..2 : HeadsIn(r) => \A i \in Endpoint :
         heads[r][i] # NotRead /\ heads[r][i].time >= assertedAt[r] - MaxHeadAge

PoolFits(r, i, state) ==
    /\ HeadsIn(r)
    /\ state.number = CommonBlock(r) /\ state.number \in 1..node[NodeOf(i)].height
    /\ state.blockHash = BlockHash(node[NodeOf(i)].fork, state.number)
    /\ Healthy(i) => /\ state.classHash = chain[Main][state.number].class.hash
                     /\ state.abi = chain[Main][state.number].class.abi

PoolsInv ==
    /\ pools = [r \in 1..2 |-> [i \in Endpoint |-> pools[r][i]]]
    /\ \A r \in 1..2, i \in Endpoint : pools[r][i] = NotRead \/ PoolFits(r, i, pools[r][i])
    /\ \A r \in 1..2 : PoolsIn(r) => /\ \A i \in Endpoint : pools[r][i] # NotRead
                                     /\ AssertPoolAgreement(pools[r])

AdvancedInv == stage = "reported" => \A i \in Endpoint : heads[2][i].number > heads[1][i].number

CheckInv == StageInv /\ HeadsInv /\ RecentInv /\ PoolsInv /\ AdvancedInv

\* The check leaves the network alone, and all but the check leave either it or
\* the network alone.
LEMMA CheckSteps == HealthNext => UNCHANGED <<networkVars, target, endpoints, interval>>
<1>1. Throw => UNCHANGED <<networkVars, target, endpoints, interval>>
  BY DEF Throw, Configured
<1>2. Begin \/ HeadsAsserted => UNCHANGED <<networkVars, target, endpoints, interval>>
  BY <1>1 DEF Begin, HeadsAsserted, Configured
<1>3. PoolAsserted \/ Advanced => UNCHANGED <<networkVars, target, endpoints, interval>>
  BY <1>1 DEF PoolAsserted, Advanced, Configured
<1>4. SecondRound \/ RpcFails => UNCHANGED <<networkVars, target, endpoints, interval>>
  BY <1>1 DEF SecondRound, RpcFails, Configured
<1>5. ASSUME NEW i \in Endpoint, ReadHead(i) \/ ReadPoolState(i)
      PROVE  UNCHANGED <<networkVars, target, endpoints, interval>>
  BY <1>5 DEF ReadHead, ReadPoolState, Configured
<1>6. QED
  BY <1>2, <1>3, <1>4, <1>5 DEF HealthNext

Quiet == UNCHANGED <<networkVars, checkVars>>

LEMMA ScriptsCheck == ReviewNext \/ DeploymentNext => HealthNext \/ Quiet
<1>1. ASSUME NEW with, Ends(with)
      PROVE  Quiet
  BY <1>1 DEF Ends, Quiet
<1>2. CheckRuns => HealthNext \/ Quiet
  BY <1>1 DEF CheckRuns
<1>3. HealthEnds \/ MainnetEnds \/ SepoliaEnds => Quiet
  BY <1>1 DEF HealthEnds, MainnetEnds, SepoliaEnds
<1>4. ResolveCompiler \/ AskChain => Quiet
  BY <1>1 DEF ResolveCompiler, AskChain, Quiet
<1>5. ReadClassHash \/ ReadClass => Quiet
  BY DEF ReadClassHash, ReadClass, Quiet
<1>6. ArtifactsEnd \/ ScriptFails => Quiet
  BY <1>1 DEF ArtifactsEnd, ScriptFails
<1>7. ReviewNext => HealthNext \/ Quiet
  BY <1>2, <1>3, <1>4, <1>5, <1>6 DEF ReviewNext
<1>8. ReviewInputs \/ PoolReviewed \/ AccountsReviewed => Quiet
  BY <1>1 DEF ReviewInputs, PoolReviewed, AccountsReviewed, Quiet
<1>9. ASSUME NEW i \in Endpoint, ReadAccounts(i)
      PROVE  Quiet
  BY <1>9 DEF ReadAccounts, Quiet
<1>10. QED
  BY <1>7, <1>8, <1>9 DEF DeploymentNext

LEMMA StepsOfTheReview ==
    ASSUME Next \/ UNCHANGED mcVars
    PROVE  HealthNext \/ ((NetworkNext \/ UNCHANGED networkVars) /\ UNCHANGED checkVars)
<1>1. Quiet => (NetworkNext \/ UNCHANGED networkVars) /\ UNCHANGED checkVars
  BY DEF Quiet
<1>2. CASE UNCHANGED mcVars
  BY <1>2 DEF mcVars
<1>3. CASE Next
  BY <1>1, <1>3, ScriptsCheck DEF Next
<1>4. QED
  BY <1>2, <1>3

LEMMA CheckInitially == CheckInit => CheckInv
<1> SUFFICES ASSUME CheckInit PROVE CheckInv
  OBVIOUS
<1>1. \A r \in 1..2, i \in Endpoint : heads[r][i] = NotRead /\ pools[r][i] = NotRead
  BY DEF CheckInit, NothingRead
<1>2. stage = "configured" /\ round = 1 /\ endpoints \in EndpointLists
  BY DEF CheckInit
<1>3. \A r \in 1..2 : ~HeadsIn(r) /\ ~PoolsIn(r)
  BY <1>2 DEF HeadsIn, PoolsIn
<1>4. /\ heads = [r \in 1..2 |-> [i \in Endpoint |-> heads[r][i]]]
      /\ pools = [r \in 1..2 |-> [i \in Endpoint |-> pools[r][i]]]
  BY DEF CheckInit, NothingRead
<1>5. assertedAt \in [1..2 -> Nat]
  BY DEF CheckInit
<1>6. QED
  BY <1>1, <1>2, <1>3, <1>4, <1>5
     DEF CheckInv, StageInv, HeadsInv, RecentInv, PoolsInv, AdvancedInv

\* Nothing was read, and nothing is to be shown, when the check has thrown.
LEMMA ThrownInv ==
    ASSUME CheckInv, Throw
    PROVE  CheckInv'
<1>1. /\ stage' = "thrown" /\ round' = 1 /\ endpoints' = endpoints
      /\ heads' = NothingRead /\ pools' = NothingRead
      /\ assertedAt' = [r \in 1..2 |-> 0]
  BY DEF Throw, Configured
<1>2. \A r \in 1..2, i \in Endpoint' : heads'[r][i] = NotRead /\ pools'[r][i] = NotRead
  BY <1>1 DEF NothingRead, Endpoint
<1>3. \A r \in 1..2 : ~HeadsIn(r)' /\ ~PoolsIn(r)'
  BY <1>1 DEF HeadsIn, PoolsIn
<1>4. /\ heads' = [r \in 1..2 |-> [i \in Endpoint' |-> heads'[r][i]]]
      /\ pools' = [r \in 1..2 |-> [i \in Endpoint' |-> pools'[r][i]]]
  BY <1>1 DEF NothingRead, Endpoint
<1>5. StageInv'
  BY <1>1 DEF CheckInv, StageInv
<1>6. HeadsInv'
  BY <1>2, <1>4 DEF HeadsInv, NotRead
<1>7. RecentInv'
  BY <1>1, <1>3 DEF RecentInv
<1>8. PoolsInv'
  BY <1>2, <1>3, <1>4 DEF PoolsInv, NotRead
<1>9. AdvancedInv'
  BY <1>1 DEF AdvancedInv
<1>10. QED
  BY <1>5, <1>6, <1>7, <1>8, <1>9 DEF CheckInv

\* The check waits while the network grows.
LEMMA WaitingInv ==
    ASSUME CheckInv, NetworkInv, Grows, NetworkInv', UNCHANGED checkVars
    PROVE  CheckInv'
<1> USE DEF checkVars
<1>1. Endpoint' = Endpoint /\ \A i : NodeOf(i)' = NodeOf(i)
  BY DEF Endpoint, NodeOf
<1>2. \A n \in Nodes : /\ node[n].height \in Nat /\ node'[n].height \in Nat
                      /\ node[n].height <= node'[n].height
                      /\ node[n].fork \in Forks /\ node'[n].fork = node[n].fork
                      /\ node'[n].fault = node[n].fault
                      /\ node[n].height <= Len(chain[node[n].fork])
                      /\ Len(chain[node[n].fork]) \in Nat
  BY DEF Grows, NetworkInv
<1>3. \A n \in Nodes : \A k \in 1..node[n].height :
         k \in 1..node'[n].height /\ chain'[node'[n].fork][k] = chain[node[n].fork][k]
  <2> TAKE n \in Nodes
  <2> TAKE k \in 1..node[n].height
  <2>1. k \in 1..Len(chain[node[n].fork]) /\ k \in 1..node'[n].height
    BY <1>2
  <2>2. QED
    BY <1>2, <2>1 DEF Grows
<1>4. StageInv'
  BY <1>1 DEF CheckInv, StageInv, AssertDistinctEndpoints
<1>5. ASSUME NEW i \in Endpoint, NEW head, HeadFits(i, head)
      PROVE  HeadFits(i, head)'
  BY <1>1, <1>3, <1>5 DEF HeadFits, ServedBy
<1>6. HeadsInv'
  BY <1>1, <1>5 DEF CheckInv, HeadsInv, NotRead
<1>7. RecentInv'
  <2>1. assertedAt' \in [1..2 -> Nat]
    BY DEF CheckInv, RecentInv
  <2>2. ASSUME NEW r \in 1..2, HeadsIn(r)', NEW i \in Endpoint'
        PROVE  heads'[r][i] # NotRead' /\ heads'[r][i].time >= assertedAt'[r] - MaxHeadAge
    <3>1. i \in Endpoint /\ HeadsIn(r)
      BY <1>1, <2>2 DEF HeadsIn
    <3>2. QED
      BY <3>1 DEF CheckInv, RecentInv, NotRead
  <2>3. QED
    BY <2>1, <2>2 DEF RecentInv
<1>8. ASSUME NEW r \in 1..2, NEW i \in Endpoint, PoolFits(r, i, pools[r][i])
      PROVE  PoolFits(r, i, pools[r][i])'
  <2>1. HeadFits(i, heads[r][i])
    BY <1>8 DEF CheckInv, HeadsInv, RecentInv, PoolFits
  <2>2. NodeOf(i) \in Nodes
    BY <2>1 DEF HeadFits
  <2> DEFINE state == pools[r][i]
  <2>3. /\ HeadsIn(r)' /\ pools'[r][i] = state
        /\ state.number = CommonBlock(r)' /\ state.number \in 1..node'[NodeOf(i)].height
    <3>1. HeadsIn(r)' /\ pools'[r][i] = state /\ CommonBlock(r)' = CommonBlock(r)
      BY <1>8 DEF PoolFits, HeadsIn, CommonBlock, Endpoint
    <3>2. state.number = CommonBlock(r) /\ state.number \in 1..node[NodeOf(i)].height
      BY <1>8 DEF PoolFits
    <3>3. state.number \in 1..node'[NodeOf(i)].height
      BY <1>3, <2>2, <3>2
    <3>4. QED
      BY <3>1, <3>2, <3>3
  <2>4. state.blockHash = BlockHash(node'[NodeOf(i)].fork, state.number)
    BY <1>2, <1>8, <2>2 DEF PoolFits
  <2>5. ASSUME Healthy(i)'
        PROVE  /\ state.classHash = chain'[Main][state.number].class.hash
               /\ state.abi = chain'[Main][state.number].class.abi
    <3>1. Healthy(i) /\ node[NodeOf(i)].fork = Main
      BY <1>1, <1>2, <2>2, <2>5 DEF Healthy, NetworkInv
    <3>2. chain'[Main][state.number] = chain[Main][state.number]
      BY <1>2, <1>3, <1>8, <2>2, <3>1 DEF PoolFits
    <3>3. QED
      BY <1>8, <3>1, <3>2 DEF PoolFits
  <2> HIDE DEF state
  <2>6. QED
    BY <1>1, <2>3, <2>4, <2>5 DEF PoolFits, BlockHash
<1>9. PoolsInv'
  <2>1. \A r \in 1..2, i \in Endpoint' : pools'[r][i] = NotRead' \/ PoolFits(r, i, pools[r][i])'
    BY <1>1, <1>8 DEF CheckInv, PoolsInv, NotRead
  <2>2. \A r \in 1..2 : PoolsIn(r)' => /\ \A i \in Endpoint' : pools'[r][i] # NotRead'
                                       /\ AssertPoolAgreement(pools[r])'
    <3>1. ASSUME NEW r \in 1..2, PoolsIn(r)'
          PROVE  /\ \A i \in Endpoint' : pools'[r][i] # NotRead'
                 /\ AssertPoolAgreement(pools[r])'
      <4>1. PoolsIn(r)
        BY <3>1 DEF PoolsIn
      <4>2. (\A i \in Endpoint : pools[r][i] # NotRead) /\ AssertPoolAgreement(pools[r])
        BY <4>1 DEF CheckInv, PoolsInv
      <4>3. QED
        BY <1>1, <4>2 DEF NotRead, AssertPoolAgreement
    <3>2. QED
      BY <3>1
  <2>3. QED
    BY <1>1, <2>1, <2>2 DEF CheckInv, PoolsInv
<1>10. AdvancedInv'
  BY <1>1 DEF CheckInv, AdvancedInv
<1>11. QED
  BY <1>4, <1>6, <1>7, <1>9, <1>10 DEF CheckInv

\* A set of naturals has a least element.
LEMMA MinOfNats ==
    ASSUME NEW S, S \subseteq Nat, S # {}
    PROVE  Min(S) \in S /\ \A x \in S : Min(S) <= x
<1>1. PICK x \in S : \A y \in S : x <= y
  BY LeastIndex
<1>2. QED
  BY <1>1 DEF Min

\* The common block is one of the heads, and no head is before it.
LEMMA CommonBlockIsLeast ==
    ASSUME StageInv, NEW r \in 1..2, Endpoint # {},
           \A i \in Endpoint : heads[r][i].number \in Nat
    PROVE  /\ \A i \in Endpoint : CommonBlock(r) <= heads[r][i].number
           /\ \E i \in Endpoint : CommonBlock(r) = heads[r][i].number
<1> DEFINE numbers == {heads[r][i].number : i \in Endpoint}
<1>1. numbers \subseteq Nat /\ numbers # {}
  OBVIOUS
<1> HIDE DEF numbers
<1>2. Min(numbers) \in numbers /\ \A x \in numbers : Min(numbers) <= x
  BY <1>1, MinOfNats
<1>3. CommonBlock(r) = Min(numbers)
  BY DEF CommonBlock, numbers
<1>4. QED
  BY <1>2, <1>3 DEF numbers

\* What is read of a node is in its fork's chain.
LEMMA ServedBlocks ==
    ASSUME NetworkInv, NEW n \in Nodes, NEW k \in 1..node[n].height
    PROVE  /\ k \in 1..Len(chain[node[n].fork])
           /\ chain[node[n].fork][k] \in Block
           /\ chain[node[n].fork][k].time \in Nat
<1>1. /\ node[n].height \in Nat /\ node[n].fork \in Forks
      /\ node[n].height <= Len(chain[node[n].fork])
      /\ chain[node[n].fork] \in Seq(Block) /\ Len(chain[node[n].fork]) \in Nat
  BY DEF NetworkInv
<1>2. k \in 1..Len(chain[node[n].fork])
  BY <1>1
<1>3. chain[node[n].fork][k] \in Block
  BY <1>1, <1>2
<1>4. QED
  BY <1>2, <1>3 DEF Block

LEMMA FirstEndpoint ==
    ASSUME StageInv, stage \notin {"configured", "thrown"}
    PROVE  {1, 2} \subseteq Endpoint
<1>1. PICK Entry : endpoints \in Seq(Entry)
  BY HealthAssumption DEF StageInv
<1>2. Len(endpoints) \in Nat /\ Endpoint = 1..Len(endpoints)
  BY <1>1 DEF Endpoint
<1>3. QED
  BY <1>2 DEF StageInv

LEMMA EndpointNodes ==
    ASSUME StageInv, NEW i \in Endpoint, stage \notin {"configured", "thrown"}
    PROVE  NodeOf(i) \in Nodes
<1> DEFINE Entry == [name: [text: STRING, written: STRING],
                     url: [node: Nodes \cup {""}, written: STRING]]
<1>1. endpoints \in Seq(Entry)
  BY HealthAssumption DEF StageInv
<1>2. endpoints[i] \in Entry
  <2> HIDE DEF Entry
  <2>1. QED
    BY <1>1 DEF Endpoint
<1>3. endpoints[i].url.node \in Nodes \cup {""}
  BY <1>2
<1>4. QED
  BY <1>3 DEF StageInv, AssertDistinctEndpoints, NodeOf, Endpoint

LEMMA ReadHeadInv ==
    ASSUME CheckInv, NetworkInv, NEW i \in Endpoint, ReadHead(i)
    PROVE  CheckInv'
<1> DEFINE n == NodeOf(i)
           number == node[n].height
<1>1. PICK network : heads' = [heads EXCEPT ![round][i] =
             [number |-> number, hash |-> BlockHash(node[n].fork, number), network |-> network,
              status |-> "ACCEPTED_ON_L2", time |-> chain[node[n].fork][number].time]]
  BY Zenon DEF ReadHead
<1> DEFINE head == [number |-> number, hash |-> BlockHash(node[n].fork, number),
                    network |-> network, status |-> "ACCEPTED_ON_L2",
                    time |-> chain[node[n].fork][number].time]
<1>2. /\ stage = "heads" /\ stage' = stage /\ endpoints' = endpoints /\ round' = round
      /\ pools' = pools /\ assertedAt' = assertedAt /\ target' = target
      /\ UNCHANGED networkVars
  BY DEF ReadHead, Configured
<1>3. n \in Nodes /\ round \in 1..2
  BY <1>2, EndpointNodes DEF CheckInv, StageInv
<1>4. number \in 1..number
  BY <1>3 DEF NetworkInv
<1>5. /\ heads' = [r \in 1..2 |-> [j \in Endpoint |-> heads'[r][j]]]
      /\ heads'[round][i] = head
      /\ \A r \in 1..2, j \in Endpoint : r # round \/ j # i => heads'[r][j] = heads[r][j]
  <2>1. heads = [r \in 1..2 |-> [j \in Endpoint |-> heads[r][j]]]
    BY DEF CheckInv, HeadsInv, PoolsInv
  <2>2. heads' = [r \in 1..2 |-> IF r = round THEN [heads[round] EXCEPT ![i] = head] ELSE heads[r]]
    BY <1>1, <2>1
  <2>3. heads[round] = [j \in Endpoint |-> heads[round][j]]
    BY <1>3, <2>1
  <2>4. heads'[round] = [j \in Endpoint |-> IF j = i THEN head ELSE heads[round][j]]
    BY <1>3, <2>2, <2>3
  <2>5. \A r \in 1..2 : r # round => heads'[r] = heads[r]
    BY <2>2
  <2>6. QED
    BY <1>3, <2>1, <2>2, <2>4, <2>5
<1>6. Endpoint' = Endpoint
  BY <1>2 DEF Endpoint
<1>7. HeadFits(i, head)
  BY <1>3, <1>4 DEF HeadFits, ServedBy
<1> HIDE DEF head
<1>8. StageInv'
  BY <1>2 DEF CheckInv, StageInv, AssertDistinctEndpoints
<1>9. \A r \in 1..2, j \in Endpoint : heads'[r][j] = NotRead \/ HeadFits(j, heads'[r][j])
  BY <1>5, <1>7 DEF CheckInv, HeadsInv
<1>10. HeadsInv'
  BY <1>2, <1>5, <1>6, <1>9 DEF HeadsInv, HeadFits, NodeOf, ServedBy, NotRead, networkVars
<1>11. ASSUME NEW r \in 1..2, HeadsIn(r)'
       PROVE  HeadsIn(r) /\ r # round
  BY <1>2, <1>11 DEF HeadsIn
<1>12. RecentInv'
  BY <1>2, <1>5, <1>6, <1>11 DEF CheckInv, RecentInv, NotRead
<1>13. ASSUME NEW r \in 1..2, HeadsIn(r)
       PROVE  HeadsIn(r)' /\ r # round /\ CommonBlock(r)' = CommonBlock(r)
  <2>1. HeadsIn(r)' /\ r # round
    BY <1>2, <1>13 DEF HeadsIn
  <2>2. \A j \in Endpoint : heads'[r][j] = heads[r][j]
    BY <1>5, <2>1
  <2>3. {heads'[r][j].number : j \in Endpoint'} = {heads[r][j].number : j \in Endpoint}
    BY <1>6, <2>2
  <2>4. QED
    BY <2>1, <2>3 DEF CommonBlock
<1>14. PoolsInv'
  <2>1. ASSUME NEW r \in 1..2, NEW j \in Endpoint, PoolFits(r, j, pools[r][j])
        PROVE  PoolFits(r, j, pools[r][j])'
    BY <1>2, <1>13, <2>1 DEF PoolFits, NodeOf, Healthy, BlockHash, networkVars
  <2>2. ASSUME NEW r \in 1..2, PoolsIn(r)'
        PROVE  /\ \A j \in Endpoint' : pools'[r][j] # NotRead'
               /\ AssertPoolAgreement(pools[r])'
    <3>1. PoolsIn(r)
      BY <1>2, <2>2 DEF PoolsIn
    <3>2. QED
      BY <1>2, <1>6, <3>1 DEF CheckInv, PoolsInv, NotRead, AssertPoolAgreement
  <2>3. QED
    BY <1>2, <1>6, <2>1, <2>2 DEF CheckInv, PoolsInv, NotRead
<1>15. AdvancedInv'
  BY <1>2 DEF AdvancedInv
<1>16. QED
  BY <1>8, <1>10, <1>12, <1>14, <1>15 DEF CheckInv

LEMMA ReadPoolInv ==
    ASSUME CheckInv, NetworkInv, NEW i \in Endpoint, ReadPoolState(i)
    PROVE  CheckInv'
<1> DEFINE n == NodeOf(i)
           number == CommonBlock(round)
<1>1. PICK served \in ServedClasses(n, number) :
         pools' = [pools EXCEPT ![round][i] =
                     [number |-> number, blockHash |-> BlockHash(node[n].fork, number),
                      classHash |-> served.named.hash, recomputed |-> served.body.hash,
                      abi |-> served.body.abi, version |-> served.named.version]]
  BY Zenon DEF ReadPoolState
<1> DEFINE new == [number |-> number, blockHash |-> BlockHash(node[n].fork, number),
                   classHash |-> served.named.hash, recomputed |-> served.body.hash,
                   abi |-> served.body.abi, version |-> served.named.version]
<1>2. /\ stage = "pool" /\ stage' = stage /\ endpoints' = endpoints /\ round' = round
      /\ heads' = heads /\ assertedAt' = assertedAt /\ target' = target
      /\ number <= node[n].height /\ UNCHANGED networkVars
  BY DEF ReadPoolState, Configured
<1>3. n \in Nodes /\ round \in 1..2
  BY <1>2, EndpointNodes DEF CheckInv, StageInv
<1>4. HeadsIn(round)
  BY <1>2 DEF HeadsIn
<1>5. number \in 1..node[n].height
  <2>1. \A j \in Endpoint : heads[round][j].number \in Nat \ {0}
    <3>1. TAKE j \in Endpoint
    <3>2. heads[round][j] # NotRead
      BY <1>3, <1>4 DEF CheckInv, RecentInv
    <3>3. HeadFits(j, heads[round][j])
      BY <1>3, <3>2 DEF CheckInv, HeadsInv
    <3>4. QED
      BY <3>3 DEF HeadFits
  <2>2. number \in Nat \ {0}
    BY <1>3, <2>1, CommonBlockIsLeast DEF CheckInv
  <2>3. QED
    BY <1>2, <1>3, <2>2 DEF NetworkInv
<1>6. PoolFits(round, i, new)
  <2>1. ASSUME Healthy(i)
        PROVE  /\ new.classHash = chain[Main][number].class.hash
               /\ new.abi = chain[Main][number].class.abi
    <3>1. node[n].fault = "none" /\ node[n].fork = Main
      BY <1>3, <2>1 DEF Healthy, NetworkInv
    <3>2. served = [named |-> chain[Main][number].class, body |-> chain[Main][number].class]
      BY <1>1, <3>1 DEF ServedClasses
    <3>3. QED
      BY <3>2
  <2>2. QED
    BY <1>4, <1>5, <2>1 DEF PoolFits
<1>7. new.number # 0
  BY <1>3, <1>5 DEF NetworkInv
<1>8. pools' = [pools EXCEPT ![round][i] = new]
  BY <1>1
<1> HIDE DEF new
<1>9. /\ pools' = [r \in 1..2 |-> [j \in Endpoint |-> pools'[r][j]]]
      /\ pools'[round][i] = new
      /\ \A r \in 1..2, j \in Endpoint : r # round \/ j # i => pools'[r][j] = pools[r][j]
  <2>1. pools = [r \in 1..2 |-> [j \in Endpoint |-> pools[r][j]]]
    BY DEF CheckInv, HeadsInv, PoolsInv
  <2>2. pools' = [r \in 1..2 |-> IF r = round THEN [pools[round] EXCEPT ![i] = new] ELSE pools[r]]
    BY <1>8, <2>1
  <2>3. pools[round] = [j \in Endpoint |-> pools[round][j]]
    BY <1>3, <2>1
  <2>4. pools'[round] = [j \in Endpoint |-> IF j = i THEN new ELSE pools[round][j]]
    BY <1>3, <2>2, <2>3
  <2>5. \A r \in 1..2 : r # round => pools'[r] = pools[r]
    BY <2>2
  <2>6. QED
    BY <1>3, <2>1, <2>2, <2>4, <2>5
<1>10. Endpoint' = Endpoint
  BY <1>2 DEF Endpoint
<1>11. StageInv'
  BY <1>2 DEF CheckInv, StageInv, AssertDistinctEndpoints
<1>12. HeadsInv'
  BY <1>2, <1>10 DEF CheckInv, HeadsInv, HeadFits, NodeOf, ServedBy, NotRead, networkVars
<1>13. RecentInv'
  <2>1. ASSUME NEW r \in 1..2, HeadsIn(r)'
        PROVE  HeadsIn(r)
    BY <1>2, <2>1 DEF HeadsIn
  <2>2. QED
    BY <1>2, <1>10, <2>1 DEF CheckInv, RecentInv, NotRead
<1>14. PoolsInv'
  <2>1. ASSUME NEW r \in 1..2, NEW j \in Endpoint, pools'[r][j] # NotRead
        PROVE  PoolFits(r, j, pools'[r][j])
    BY <1>6, <1>9, <2>1 DEF CheckInv, PoolsInv
  <2>2. ASSUME NEW r \in 1..2, NEW j \in Endpoint, pools'[r][j] # NotRead
        PROVE  PoolFits(r, j, pools[r][j])'
    <3>1. PICK state : state = pools'[r][j]
      OBVIOUS
    <3>2. PoolFits(r, j, state)
      BY <2>1, <2>2, <3>1
    <3>3. HeadsIn(r)' /\ CommonBlock(r)' = CommonBlock(r)
      BY <1>2, <3>2 DEF HeadsIn, PoolFits, CommonBlock, Endpoint
    <3>4. QED
      BY <1>2, <3>1, <3>2, <3>3 DEF PoolFits, NodeOf, Healthy, BlockHash, networkVars
  <2>3. ASSUME NEW r \in 1..2, PoolsIn(r)'
        PROVE  /\ \A j \in Endpoint' : pools'[r][j] # NotRead'
               /\ AssertPoolAgreement(pools[r])'
    <3>1. PoolsIn(r) /\ r # round
      BY <1>2, <2>3 DEF PoolsIn
    <3>2. (\A j \in Endpoint : pools[r][j] # NotRead) /\ AssertPoolAgreement(pools[r])
      BY <3>1 DEF CheckInv, PoolsInv
    <3>3. \A j \in Endpoint : pools'[r][j] = pools[r][j]
      BY <1>9, <3>1
    <3>4. 1 \in Endpoint
      BY <1>2, FirstEndpoint DEF CheckInv
    <3>5. QED
      BY <1>2, <1>10, <3>2, <3>3, <3>4 DEF NotRead, AssertPoolAgreement
  <2>4. QED
    BY <1>9, <1>10, <2>2, <2>3 DEF PoolsInv, NotRead
<1>15. AdvancedInv'
  BY <1>2 DEF AdvancedInv
<1>16. QED
  BY <1>11, <1>12, <1>13, <1>14, <1>15 DEF CheckInv

\* A step that reads nothing and keeps what was read.
LEMMA KeptReads ==
    ASSUME CheckInv, UNCHANGED <<target, endpoints, heads, pools, networkVars>>,
           \A r \in 1..2 : HeadsIn(r) =>
               r < round' \/ (r = round' /\ stage' \in {"pool", "pause", "advance", "reported"})
    PROVE  /\ HeadsInv'
           /\ pools' = [r \in 1..2 |-> [i \in Endpoint' |-> pools'[r][i]]]
           /\ \A r \in 1..2, i \in Endpoint' : pools'[r][i] = NotRead' \/ PoolFits(r, i, pools[r][i])'
<1>1. Endpoint' = Endpoint
  BY DEF Endpoint
<1>2. HeadsInv'
  BY <1>1 DEF CheckInv, HeadsInv, HeadFits, NodeOf, ServedBy, NotRead, networkVars
<1>3. pools' = [r \in 1..2 |-> [i \in Endpoint' |-> pools'[r][i]]]
  BY <1>1 DEF CheckInv, PoolsInv
<1>4. ASSUME NEW r \in 1..2, NEW i \in Endpoint', pools'[r][i] # NotRead'
      PROVE  PoolFits(r, i, pools[r][i])'
  <2>1. PoolFits(r, i, pools[r][i])
    BY <1>1, <1>4 DEF CheckInv, PoolsInv, NotRead
  <2>2. HeadsIn(r)'
    BY <2>1 DEF PoolFits, HeadsIn
  <2>3. CommonBlock(r)' = CommonBlock(r)
    BY DEF CommonBlock, Endpoint
  <2>4. QED
    BY <2>1, <2>2, <2>3 DEF PoolFits, NodeOf, Healthy, BlockHash, networkVars
<1>5. QED
  BY <1>2, <1>3, <1>4

LEMMA DistinctKept ==
    endpoints' = endpoints => (AssertDistinctEndpoints(endpoints)' <=> AssertDistinctEndpoints(endpoints))
  BY DEF AssertDistinctEndpoints

LEMMA AssertedInv ==
    ASSUME CheckInv, NetworkInv,
           Begin \/ HeadsAsserted \/ PoolAsserted \/ SecondRound \/ Advanced \/ RpcFails
    PROVE  CheckInv'
<1>1. CASE Throw
  BY <1>1, ThrownInv
<1>2. CASE Begin /\ ~Throw
  <2>1. /\ stage = "configured" /\ stage' = "heads" /\ round = 1 /\ round' = 1
        /\ Len(endpoints) >= 2 /\ AssertDistinctEndpoints(endpoints)
        /\ UNCHANGED <<target, endpoints, heads, pools, assertedAt, networkVars>>
    <3>1. /\ stage = "configured" /\ stage' = "heads" /\ round' = round
          /\ Len(endpoints) >= 2 /\ AssertDistinctEndpoints(endpoints)
          /\ UNCHANGED <<heads, pools, assertedAt, networkVars>> /\ Configured
      BY <1>2 DEF Begin, Throw
    <3>2. QED
      BY <3>1 DEF Configured, CheckInv, StageInv
  <2>2. \A r \in 1..2 : ~HeadsIn(r) /\ ~PoolsIn(r)
    BY <2>1 DEF HeadsIn, PoolsIn
  <2>3. ASSUME NEW r \in 1..2
        PROVE  ~HeadsIn(r)' /\ ~PoolsIn(r)'
    BY <2>1 DEF HeadsIn, PoolsIn
  <2>4. StageInv'
    BY <2>1, DistinctKept DEF CheckInv, StageInv
  <2>5. RecentInv'
    BY <2>1, <2>3 DEF CheckInv, RecentInv
  <2>6. HeadsInv' /\ PoolsInv'
    BY <2>1, <2>2, <2>3, KeptReads DEF PoolsInv
  <2>7. AdvancedInv'
    BY <2>1 DEF AdvancedInv
  <2>8. QED
    BY <2>4, <2>5, <2>6, <2>7 DEF CheckInv
<1>3. CASE HeadsAsserted /\ ~Throw
  <2>1. /\ stage = "heads" /\ stage' = "pool" /\ round' = round
        /\ \A i \in Endpoint : heads[round][i] # NotRead
        /\ AssertHealthyHeads(heads[round])
        /\ assertedAt' = [assertedAt EXCEPT ![round] = now]
        /\ UNCHANGED <<target, endpoints, heads, pools, networkVars>>
    BY <1>3 DEF HeadsAsserted, Configured
  <2>2. round \in 1..2 /\ Endpoint' = Endpoint
    BY <2>1 DEF CheckInv, StageInv, Endpoint
  <2>3. ASSUME NEW r \in 1..2
        PROVE  /\ HeadsIn(r)' <=> HeadsIn(r) \/ r = round
               /\ PoolsIn(r)' => PoolsIn(r)
    BY <2>1, <2>2 DEF HeadsIn, PoolsIn
  <2>4. StageInv'
    BY <2>1, DistinctKept DEF CheckInv, StageInv
  <2>5. ASSUME NEW i \in Endpoint
        PROVE  heads[round][i].time >= now - MaxHeadAge
    <3>1. HeadFits(i, heads[round][i])
      BY <2>1, <2>2 DEF CheckInv, HeadsInv
    <3>2. heads[round][i].time \in Nat
      BY <3>1, ServedBlocks DEF HeadFits, ServedBy
    <3>3. now - heads[round][i].time <= MaxHeadAge /\ now \in Nat
      BY <2>1 DEF AssertHealthyHeads, NetworkInv
    <3>4. MaxHeadAge \in Nat
      BY HealthAssumption
    <3>5. QED
      BY <3>2, <3>3, <3>4
  <2>6. RecentInv'
    <3>1. assertedAt \in [1..2 -> Nat] /\ now \in Nat
      BY DEF CheckInv, RecentInv, NetworkInv
    <3>2. /\ assertedAt' \in [1..2 -> Nat] /\ assertedAt'[round] = now
          /\ \A r \in 1..2 : r # round => assertedAt'[r] = assertedAt[r]
      BY <2>1, <2>2, <3>1
    <3>3. ASSUME NEW r \in 1..2, HeadsIn(r)', NEW i \in Endpoint'
          PROVE  heads'[r][i] # NotRead' /\ heads'[r][i].time >= assertedAt'[r] - MaxHeadAge
      <4>1. CASE r = round
        BY <2>1, <2>2, <2>5, <3>2, <4>1 DEF NotRead
      <4>2. CASE r # round
        <5>1. HeadsIn(r)
          BY <2>3, <3>3, <4>2
        <5>2. QED
          BY <2>1, <2>2, <3>2, <4>2, <5>1 DEF CheckInv, RecentInv, NotRead
      <4>3. QED
        BY <4>1, <4>2
    <3>4. QED
      BY <3>2, <3>3 DEF RecentInv
  <2>7. \A r \in 1..2 : HeadsIn(r) =>
            r < round' \/ (r = round' /\ stage' \in {"pool", "pause", "advance", "reported"})
    BY <2>1 DEF HeadsIn
  <2>8. HeadsInv' /\ PoolsInv'
    <3>1. ASSUME NEW r \in 1..2, PoolsIn(r)'
          PROVE  /\ \A i \in Endpoint' : pools'[r][i] # NotRead'
                 /\ AssertPoolAgreement(pools[r])'
      <4>1. PoolsIn(r)
        BY <2>3, <3>1
      <4>2. QED
        BY <2>1, <2>2, <4>1 DEF CheckInv, PoolsInv, NotRead, AssertPoolAgreement
    <3>2. QED
      BY <2>1, <2>7, <3>1, KeptReads DEF PoolsInv
  <2>9. AdvancedInv'
    BY <2>1 DEF AdvancedInv
  <2>10. QED
    BY <2>4, <2>6, <2>8, <2>9 DEF CheckInv
<1>4. CASE PoolAsserted /\ ~Throw
  <2>1. /\ stage = "pool" /\ stage' = (IF round = 1 THEN "pause" ELSE "advance")
        /\ \A i \in Endpoint : pools[round][i] # NotRead
        /\ AssertPoolAgreement(pools[round])
        /\ UNCHANGED <<target, endpoints, round, heads, pools, assertedAt, networkVars>>
    BY <1>4 DEF PoolAsserted, Configured
  <2>2. round \in 1..2 /\ Endpoint' = Endpoint
    BY <2>1 DEF CheckInv, StageInv, Endpoint
  <2>3. ASSUME NEW r \in 1..2
        PROVE  /\ HeadsIn(r)' <=> HeadsIn(r)
               /\ PoolsIn(r)' <=> PoolsIn(r) \/ r = round
    BY <2>1, <2>2 DEF HeadsIn, PoolsIn
  <2>4. StageInv'
    BY <2>1, <2>2, DistinctKept DEF CheckInv, StageInv
  <2>5. RecentInv'
    <3>1. ASSUME NEW r \in 1..2, HeadsIn(r)', NEW i \in Endpoint'
          PROVE  heads'[r][i] # NotRead' /\ heads'[r][i].time >= assertedAt'[r] - MaxHeadAge
      <4>1. HeadsIn(r)
        BY <2>3, <3>1
      <4>2. QED
        BY <2>1, <2>2, <4>1 DEF CheckInv, RecentInv, NotRead
    <3>2. QED
      BY <2>1, <3>1 DEF CheckInv, RecentInv
  <2>6. \A r \in 1..2 : HeadsIn(r) =>
            r < round' \/ (r = round' /\ stage' \in {"pool", "pause", "advance", "reported"})
    BY <2>1 DEF HeadsIn
  <2>7. HeadsInv' /\ PoolsInv'
    <3>1. ASSUME NEW r \in 1..2, PoolsIn(r)'
          PROVE  /\ \A i \in Endpoint' : pools'[r][i] # NotRead'
                 /\ AssertPoolAgreement(pools[r])'
      <4>1. (\A i \in Endpoint : pools[r][i] # NotRead) /\ AssertPoolAgreement(pools[r])
        BY <2>1, <2>3, <3>1 DEF CheckInv, PoolsInv
      <4>2. QED
        BY <2>1, <2>2, <4>1 DEF NotRead, AssertPoolAgreement
    <3>2. QED
      BY <2>1, <2>6, <3>1, KeptReads DEF PoolsInv
  <2>8. AdvancedInv'
    BY <2>1 DEF AdvancedInv
  <2>9. QED
    BY <2>4, <2>5, <2>7, <2>8 DEF CheckInv
<1>5. CASE SecondRound \/ (Advanced /\ ~Throw)
  <2>1. /\ UNCHANGED <<target, endpoints, heads, pools, assertedAt, networkVars>>
        /\ \/ stage = "pause" /\ stage' = "heads" /\ round = 1 /\ round' = 2
           \/ /\ stage = "advance" /\ stage' = "reported" /\ round = 2 /\ round' = 2
              /\ \A i \in Endpoint : heads[2][i].number > heads[1][i].number
    BY <1>5 DEF SecondRound, Advanced, Configured, CheckInv, StageInv
  <2>2. Endpoint' = Endpoint
    BY <2>1 DEF Endpoint
  <2>3. ASSUME NEW r \in 1..2
        PROVE  (HeadsIn(r)' <=> HeadsIn(r)) /\ (PoolsIn(r)' <=> PoolsIn(r))
    BY <2>1 DEF HeadsIn, PoolsIn
  <2>4. StageInv'
    BY <2>1, DistinctKept DEF CheckInv, StageInv
  <2>5. RecentInv'
    <3>1. ASSUME NEW r \in 1..2, HeadsIn(r)', NEW i \in Endpoint'
          PROVE  heads'[r][i] # NotRead' /\ heads'[r][i].time >= assertedAt'[r] - MaxHeadAge
      <4>1. HeadsIn(r)
        BY <2>3, <3>1
      <4>2. QED
        BY <2>1, <2>2, <4>1 DEF CheckInv, RecentInv, NotRead
    <3>2. QED
      BY <2>1, <3>1 DEF CheckInv, RecentInv
  <2>6. \A r \in 1..2 : HeadsIn(r) =>
            r < round' \/ (r = round' /\ stage' \in {"pool", "pause", "advance", "reported"})
    BY <2>1 DEF HeadsIn
  <2>7. HeadsInv' /\ PoolsInv'
    <3>1. ASSUME NEW r \in 1..2, PoolsIn(r)'
          PROVE  /\ \A i \in Endpoint' : pools'[r][i] # NotRead'
                 /\ AssertPoolAgreement(pools[r])'
      <4>1. PoolsIn(r)
        BY <2>3, <3>1
      <4>2. (\A i \in Endpoint : pools[r][i] # NotRead) /\ AssertPoolAgreement(pools[r])
        BY <4>1 DEF CheckInv, PoolsInv
      <4>3. QED
        BY <2>1, <2>2, <4>2 DEF NotRead, AssertPoolAgreement
    <3>2. QED
      BY <2>1, <2>6, <3>1, KeptReads DEF PoolsInv
  <2>8. AdvancedInv'
    BY <2>1, <2>2 DEF AdvancedInv
  <2>9. QED
    BY <2>4, <2>5, <2>7, <2>8 DEF CheckInv
<1>6. QED
  BY <1>1, <1>2, <1>3, <1>4, <1>5 DEF RpcFails

\* CheckInv of the network's and the check's steps together.
THEOREM ReviewsCorrect == Spec => [](NetworkInv /\ CheckInv)
<1>1. Init => NetworkInv /\ CheckInv
  <2>1. ASSUME Init
        PROVE  NetworkInit /\ CheckInit
    BY <2>1 DEF Init
  <2>2. QED
    BY <2>1, NetworkInitially, CheckInitially
<1>2. ASSUME NetworkInv, CheckInv, [Next]_mcVars
      PROVE  NetworkInv' /\ CheckInv'
  <2>1. CASE (NetworkNext \/ UNCHANGED networkVars) /\ UNCHANGED checkVars
    BY <1>2, <2>1, NetworkSteps, WaitingInv
  <2>2. CASE HealthNext
    <3>1. NetworkInv'
      BY <1>2, <2>2, CheckSteps, NetworkSteps DEF networkVars
    <3>2. CheckInv'
      BY <1>2, <2>2, AssertedInv, ReadHeadInv, ReadPoolInv DEF HealthNext
    <3>3. QED
      BY <3>1, <3>2
  <2>3. QED
    BY <1>2, <2>1, <2>2, StepsOfTheReview
<1>3. QED
  BY <1>1, <1>2, PTL DEF Spec

\* One of the first two endpoints is healthy, and it is on the main fork.
LEMMA HealthyEndpoint ==
    ASSUME NetworkInv, StageInv, stage \notin {"configured", "thrown"}
    PROVE  \E h \in Endpoint : /\ h \in {1, 2} /\ Healthy(h)
                               /\ NodeOf(h) \in Nodes /\ node[NodeOf(h)].fork = Main
<1>1. {1, 2} \subseteq Endpoint /\ \A j \in Endpoint : NodeOf(j) \in Nodes
  BY FirstEndpoint, EndpointNodes
<1>2. NodeOf(1) # NodeOf(2)
  <2>1. AssertDistinctEndpoints(endpoints) /\ 1 \in DOMAIN endpoints /\ 2 \in DOMAIN endpoints
    BY <1>1 DEF StageInv, Endpoint
  <2>2. 1 # 2 => endpoints[1].url.node # endpoints[2].url.node
    BY <2>1, Zenon DEF AssertDistinctEndpoints
  <2>3. QED
    BY <2>2 DEF NodeOf
<1>3. NodeOf(1) \notin Faulty \/ NodeOf(2) \notin Faulty
  BY <1>2 DEF NetworkInv
<1>4. PICK h \in {1, 2} : Healthy(h)
  BY <1>1, <1>3 DEF Faulty, Healthy
<1>5. QED
  BY <1>1, <1>4 DEF Healthy, NetworkInv

\* What a report names is on the network's chain: a healthy endpoint has it there,
\* the others agree with it, and the one whose head was the least read a recent one.
LEMMA ReportOfARound ==
    ASSUME NetworkInv, CheckInv, NEW r \in 1..2, PoolsIn(r), NEW i \in Endpoint
    PROVE  LET snapshot == pools[r][i]
               block == chain[Main][snapshot.number]
           IN  /\ snapshot.number = CommonBlock(r)
               /\ snapshot.number \in 1..Len(chain[Main])
               /\ snapshot.blockHash = BlockHash(Main, snapshot.number)
               /\ block.time >= assertedAt[r] - MaxHeadAge
               /\ snapshot.classHash = block.class.hash
               /\ snapshot.abi = block.class.abi /\ snapshot.abi = target.abi
<1>1. stage \notin {"configured", "thrown"} /\ HeadsIn(r)
  BY DEF PoolsIn, HeadsIn, CheckInv, StageInv
<1>2. {1, 2} \subseteq Endpoint /\ \A j \in Endpoint : NodeOf(j) \in Nodes
  BY <1>1, FirstEndpoint, EndpointNodes DEF CheckInv
<1>3. PICK h \in Endpoint : Healthy(h) /\ NodeOf(h) \in Nodes /\ node[NodeOf(h)].fork = Main
  BY <1>1, HealthyEndpoint DEF CheckInv
<1>4. /\ \A j \in Endpoint : PoolFits(r, j, pools[r][j])
      /\ AssertPoolAgreement(pools[r])
  BY DEF CheckInv, PoolsInv
<1> DEFINE cb == CommonBlock(r)
<1>5. /\ \A j \in Endpoint : pools[r][j].number = cb
      /\ cb \in 1..node[NodeOf(h)].height
  BY <1>2, <1>4 DEF PoolFits
<1>6. node[NodeOf(h)].fork = Main
  BY <1>3
<1>7. cb \in 1..Len(chain[Main])
  BY <1>2, <1>5, <1>6, ServedBlocks
<1>8. /\ \A j \in Endpoint : pools[r][j].blockHash = BlockHash(Main, cb)
      /\ pools[r][i].classHash = chain[Main][cb].class.hash
      /\ pools[r][i].abi = chain[Main][cb].class.abi /\ pools[r][i].abi = target.abi
  <2>1. /\ pools[r][h].blockHash = BlockHash(Main, cb)
        /\ pools[r][h].classHash = chain[Main][cb].class.hash
        /\ pools[r][h].abi = chain[Main][cb].class.abi
    BY <1>2, <1>3, <1>4, <1>5, <1>6 DEF PoolFits
  <2>2. \A j \in Endpoint : /\ pools[r][j].blockHash = pools[r][1].blockHash
                            /\ pools[r][j].classHash = pools[r][1].classHash
                            /\ pools[r][j].abi = target.abi
    BY <1>4 DEF AssertPoolAgreement
  <2>3. QED
    BY <1>2, <2>1, <2>2
<1>9. chain[Main][cb].time >= assertedAt[r] - MaxHeadAge
  <2>1. \A j \in Endpoint : HeadFits(j, heads[r][j])
    BY <1>1 DEF CheckInv, HeadsInv, RecentInv
  <2>2. \A j \in Endpoint : heads[r][j].number \in Nat
    BY <2>1 DEF HeadFits
  <2>3. PICK m \in Endpoint : cb = heads[r][m].number
    BY <1>2, <2>2, CommonBlockIsLeast DEF CheckInv
  <2>4. /\ heads[r][m].time = chain[node[NodeOf(m)].fork][cb].time
        /\ heads[r][m].time >= assertedAt[r] - MaxHeadAge
    BY <1>1, <2>1, <2>3 DEF HeadFits, ServedBy, CheckInv, RecentInv
  <2>5. BlockHash(node[NodeOf(m)].fork, cb) = BlockHash(Main, cb)
    BY <1>4, <1>5, <1>8 DEF PoolFits
  <2>6. cb = 1 \/ node[NodeOf(m)].fork = Main
    BY <2>5 DEF BlockHash
  <2>7. chain[node[NodeOf(m)].fork][cb] = chain[Main][cb]
    BY <1>2, <2>6 DEF NetworkInv, Forks
  <2>8. QED
    BY <2>4, <2>7
<1>10. QED
  BY <1>5, <1>7, <1>8, <1>9

\* ReportsAreTrue: with one node of two healthy, a report says what the network's
\* chain has, whatever happens between two RPC calls.
THEOREM ReportsCorrect == Spec => []ReportsAreTrue
<1>1. ASSUME NetworkInv, CheckInv, Reported
      PROVE  ReportsAreTrue
  <2>1. stage = "reported" /\ round = 2
    BY <1>1 DEF Reported, CheckInv, StageInv
  <2>2. PoolsIn(1) /\ PoolsIn(2) /\ HeadsIn(1) /\ HeadsIn(2)
    BY <2>1 DEF PoolsIn, HeadsIn
  <2>3. 1 \in Endpoint
    BY <1>1, <2>1, FirstEndpoint DEF CheckInv
  <2>4. \A r \in 1..2 : PoolsIn(r)
    BY <2>2
  <2>5. \A r \in 1..2, j \in Endpoint : heads[r][j].number \in Nat
    BY <1>1, <2>1, <2>2 DEF CheckInv, HeadsInv, RecentInv, HeadFits
  <2>6. CommonBlock(2) > CommonBlock(1)
    <3>1. PICK m \in Endpoint : CommonBlock(2) = heads[2][m].number
      BY <1>1, <2>3, <2>5, CommonBlockIsLeast DEF CheckInv
    <3>2. CommonBlock(1) <= heads[1][m].number
      BY <1>1, <2>3, <2>5, CommonBlockIsLeast DEF CheckInv
    <3>3. heads[2][m].number > heads[1][m].number
      BY <1>1, <2>1 DEF CheckInv, AdvancedInv
    <3>4. PICK k \in Endpoint : CommonBlock(1) = heads[1][k].number
      BY <1>1, <2>3, <2>5, CommonBlockIsLeast DEF CheckInv
    <3>5. QED
      BY <2>5, <3>1, <3>2, <3>3, <3>4
  <2>7. ASSUME NEW r \in 1..2, NEW i \in Endpoint
        PROVE  LET snapshot == pools[r][i]
                   block == chain[Main][snapshot.number]
               IN  /\ snapshot.number <= Len(chain[Main])
                   /\ snapshot.blockHash = BlockHash(Main, snapshot.number)
                   /\ block.time >= assertedAt[r] - MaxHeadAge
                   /\ snapshot.classHash = block.class.hash
                   /\ snapshot.abi = block.class.abi /\ snapshot.abi = target.abi
    BY <1>1, <2>4, ReportOfARound
  <2>8. pools[2][1].number > pools[1][1].number
    BY <1>1, <2>2, <2>3, <2>6, ReportOfARound
  <2>9. QED
    BY <2>7, <2>8 DEF ReportsAreTrue
<1>2. NetworkInv /\ CheckInv => ReportsAreTrue
  BY <1>1 DEF ReportsAreTrue
<1>3. QED
  BY <1>2, ReviewsCorrect, PTL

-----------------------------------------------------------------------------
(* The releases: what a build has, by its step, and what a manifest says.  *)

Building == {"archive", "build", "write SN_SEPOLIA", "write SN_MAIN"}
Writing == {"write SN_SEPOLIA", "write SN_MAIN"}

BuildInv ==
    /\ DOMAIN build = {"step", "commit", "tools", "source"}
    /\ build.step \in {"none", "log", "install"} \cup Building
    /\ build.step \in {"none", "log"} => build.tools = {}
    /\ build.tools \subseteq Tools
    /\ build.step \in {"install"} \cup Building => build.commit \in DOMAIN commits
    /\ build.step \in Building => build.tools = Tools
    /\ build.step \in {"build"} \cup Writing => build.source = commits[build.commit]
    /\ build.step \in Writing => build.source \in PassingSources

ManifestFits(manifest) ==
    /\ manifest.commit \in DOMAIN commits
    /\ manifest.source = commits[manifest.commit]
    /\ manifest.source \in PassingSources
    /\ manifest.tools = Tools

ReleaseInv ==
    /\ commits \in Seq(Sources) /\ Len(commits) > 0 /\ worktree \in Sources
    /\ BuildInv
    /\ manifests = [n \in Networks |-> manifests[n]]
    /\ \A n \in Networks : manifests[n] = NoManifest \/ ManifestFits(manifests[n])

\* A step of the repository keeps the commits.
CommitsKept ==
    /\ DOMAIN commits \subseteq DOMAIN commits'
    /\ \A c \in DOMAIN commits : commits'[c] = commits[c]

LEMMA ReleaseInitially == ReleaseInit => ReleaseInv
<1> SUFFICES ASSUME ReleaseInit PROVE ReleaseInv
  OBVIOUS
<1>1. PICK s \in Sources : commits = <<s>> /\ worktree = s
  BY DEF ReleaseInit
<1>2. commits \in Seq(Sources) /\ Len(commits) > 0 /\ worktree \in Sources
  BY <1>1
<1>3. BuildInv
  BY DEF ReleaseInit, NoBuild, BuildInv, Building, Writing
<1>4. /\ manifests = [n \in Networks |-> manifests[n]]
      /\ \A n \in Networks : manifests[n] = NoManifest
  BY DEF ReleaseInit
<1>5. QED
  BY <1>2, <1>3, <1>4 DEF ReleaseInv

\* A manifest goes on saying what it said.
LEMMA ManifestsKept ==
    ASSUME CommitsKept, NEW manifest, ManifestFits(manifest)
    PROVE  ManifestFits(manifest)'
BY DEF CommitsKept, ManifestFits

LEMMA CommitSteps ==
    ASSUME ReleaseInv, Edit \/ Commit
    PROVE  ReleaseInv' /\ CommitsKept
<1>1. build' = build /\ manifests' = manifests
  BY DEF Edit, Commit
<1>2. commits' \in Seq(Sources) /\ Len(commits') > 0 /\ worktree' \in Sources /\ CommitsKept
  <2>1. CASE Edit
    BY <2>1 DEF Edit, ReleaseInv, CommitsKept
  <2>2. CASE Commit
    <3>1. /\ commits \in Seq(Sources) /\ Len(commits) > 0 /\ worktree \in Sources
          /\ commits' = Append(commits, worktree)
      BY <2>2 DEF Commit, ReleaseInv
    <3>2. commits' \in Seq(Sources) /\ Len(commits') = Len(commits) + 1
      BY <3>1
    <3>3. \A c \in 1..Len(commits) : commits'[c] = commits[c]
      BY <3>1
    <3>4. CommitsKept
      BY <3>1, <3>2, <3>3 DEF CommitsKept
    <3>5. QED
      BY <2>2, <3>2, <3>4, <3>1 DEF Commit
  <2>3. QED
    BY <2>1, <2>2
<1>3. BuildInv'
  BY <1>1, <1>2 DEF ReleaseInv, BuildInv, CommitsKept, Building, Writing
<1>4. ASSUME NEW n \in Networks
      PROVE  manifests'[n] = NoManifest' \/ ManifestFits(manifests[n])'
  BY <1>1, <1>2 DEF ReleaseInv, NoManifest, ManifestFits, CommitsKept
<1>5. QED
  BY <1>1, <1>2, <1>3, <1>4 DEF ReleaseInv

LEMMA BuildSteps ==
    ASSUME ReleaseInv, UNCHANGED <<commits, worktree>>,
           \/ AssertCommittedContractTree \/ SourceCommit \/ ArchiveSources \/ BuildAndTest
           \/ Abandon
           \/ \E tool \in Tools : InstallTool(tool)
    PROVE  ReleaseInv' /\ CommitsKept
<1>1. CommitsKept
  BY DEF CommitsKept
<1>2. manifests' = manifests
  BY DEF AssertCommittedContractTree, SourceCommit, ArchiveSources, BuildAndTest, Abandon, InstallTool
<1>3. \A n \in Networks : manifests'[n] = NoManifest' \/ ManifestFits(manifests[n])'
  BY <1>2 DEF ReleaseInv, NoManifest, ManifestFits
<1> USE DEF Building, Writing
<1>4. CASE build' = NoBuild
  BY <1>1, <1>2, <1>3, <1>4 DEF ReleaseInv, BuildInv, NoBuild
<1>5. BuildInv /\ commits \in Seq(Sources) /\ Len(commits) \in Nat
  BY DEF ReleaseInv
<1>6. CASE AssertCommittedContractTree
  <2>1. build.step = "none" /\ build' = [build EXCEPT !.step = "log"]
    BY <1>6 DEF AssertCommittedContractTree
  <2>2. BuildInv'
    BY <1>5, <2>1 DEF BuildInv
  <2>3. QED
    BY <1>1, <1>2, <1>3, <2>2 DEF ReleaseInv
<1>7. CASE SourceCommit /\ build' # NoBuild
  <2>1. build.step = "log" /\ build' = [build EXCEPT !.step = "install", !.commit = Len(commits)]
    BY <1>7 DEF SourceCommit
  <2>2. Len(commits) \in DOMAIN commits
    BY DEF ReleaseInv
  <2>3. BuildInv'
    BY <1>5, <2>1, <2>2 DEF BuildInv
  <2>4. QED
    BY <1>1, <1>2, <1>3, <2>3 DEF ReleaseInv
<1>8. CASE ArchiveSources
  <2>1. build.step = "archive"
        /\ build' = [build EXCEPT !.step = "build", !.source = commits[build.commit]]
    BY <1>8 DEF ArchiveSources
  <2>2. BuildInv'
    BY <1>5, <2>1 DEF BuildInv
  <2>3. QED
    BY <1>1, <1>2, <1>3, <2>2 DEF ReleaseInv
<1>9. CASE BuildAndTest /\ build' # NoBuild
  <2>1. /\ build.step = "build" /\ build.source \in PassingSources
        /\ build' = [build EXCEPT !.step = "write SN_SEPOLIA"]
    BY <1>9 DEF BuildAndTest
  <2>2. BuildInv'
    BY <1>5, <2>1 DEF BuildInv
  <2>3. QED
    BY <1>1, <1>2, <1>3, <2>2 DEF ReleaseInv
<1>10. ASSUME NEW tool \in Tools, InstallTool(tool), build' # NoBuild
       PROVE  ReleaseInv'
  <2>1. /\ build.step = "install" /\ build.tools \subseteq Tools
        /\ build' = [build EXCEPT !.tools = @ \cup {tool},
                                  !.step = IF build.tools \cup {tool} = Tools
                                             THEN "archive" ELSE @]
    BY <1>5, <1>10 DEF InstallTool, BuildInv
  <2>2. DOMAIN build' = DOMAIN build /\ build'.commit = build.commit
    BY <2>1
  <2>3. /\ build'.tools = build.tools \cup {tool}
        /\ build'.step = IF build.tools \cup {tool} = Tools THEN "archive" ELSE "install"
    BY <1>5, <2>1 DEF BuildInv
  <2>4. BuildInv'
    BY <1>5, <2>1, <2>2, <2>3 DEF BuildInv
  <2>5. QED
    BY <1>1, <1>2, <1>3, <2>4 DEF ReleaseInv
<1>11. QED
  BY <1>1, <1>4, <1>6, <1>7, <1>8, <1>9, <1>10 DEF Abandon

LEMMA WriteSteps ==
    ASSUME ReleaseInv, NEW network \in Networks, WriteManifest(network)
    PROVE  ReleaseInv' /\ CommitsKept
<1> DEFINE written == ReviewManifest(network)
<1>1. /\ build.step \in Writing
      /\ manifests' = [manifests EXCEPT ![network] = written]
      /\ build' = NoBuild \/ build' = [build EXCEPT !.step = "write SN_MAIN"]
      /\ commits' = commits /\ worktree' = worktree
  BY DEF WriteManifest, Writing
<1>2. CommitsKept
  BY <1>1 DEF CommitsKept
<1>3. ManifestFits(written)
  BY <1>1 DEF ReviewManifest, ManifestFits, ReleaseInv, BuildInv, Building, Writing
<1> HIDE DEF written
<1>4. /\ manifests' = [n \in Networks |-> manifests'[n]]
      /\ \A n \in Networks : manifests'[n] = IF n = network THEN written ELSE manifests[n]
  BY <1>1 DEF ReleaseInv
<1>5. \A n \in Networks : manifests'[n] = NoManifest \/ ManifestFits(manifests'[n])
  BY <1>3, <1>4 DEF ReleaseInv
<1>6. \A n \in Networks : manifests'[n] = NoManifest' \/ ManifestFits(manifests[n])'
  BY <1>1, <1>5 DEF NoManifest, ManifestFits
<1>7. BuildInv'
  <2>1. CASE build' = NoBuild
    BY <2>1 DEF BuildInv, NoBuild, Building, Writing
  <2>2. CASE build' = [build EXCEPT !.step = "write SN_MAIN"]
    BY <1>1, <2>2 DEF ReleaseInv, BuildInv, Building, Writing
  <2>3. QED
    BY <1>1, <2>1, <2>2
<1>8. QED
  BY <1>1, <1>2, <1>4, <1>6, <1>7 DEF ReleaseInv

LEMMA ReleaseSteps ==
    ASSUME ReleaseInv, ReleaseNext \/ UNCHANGED releaseVars
    PROVE  ReleaseInv' /\ CommitsKept
<1>1. CASE UNCHANGED releaseVars
  <2>1. UNCHANGED <<commits, worktree, build, manifests>>
    BY <1>1 DEF releaseVars
  <2>2. ReleaseInv'
    BY <2>1 DEF ReleaseInv, BuildInv, Building, Writing, NoManifest, ManifestFits
  <2>3. QED
    BY <2>1, <2>2 DEF CommitsKept
<1>2. CASE Edit \/ Commit
  BY <1>2, CommitSteps
<1>3. CASE \E network \in Networks : WriteManifest(network)
  BY <1>3, WriteSteps
<1>4. CASE \/ AssertCommittedContractTree \/ SourceCommit \/ ArchiveSources \/ BuildAndTest
           \/ Abandon
           \/ \E tool \in Tools : InstallTool(tool)
  <2>1. UNCHANGED <<commits, worktree>>
    BY <1>4 DEF AssertCommittedContractTree, SourceCommit, ArchiveSources, BuildAndTest,
                Abandon, InstallTool
  <2>2. QED
    BY <1>4, <2>1, BuildSteps
<1>5. QED
  BY <1>1, <1>2, <1>3, <1>4 DEF ReleaseNext

-----------------------------------------------------------------------------
(* The scripts: what their verdicts rest on.                               *)

ApprovalInv ==
    /\ approved \subseteq DOMAIN commits
    /\ inputs.unset = {} => inputs.reviewedCommit \in approved

ScriptInv ==
    /\ script = "deployment" => step \in {"files", "check", "accounts", "ended"}
    /\ step \in {"files", "accounts"} => script = "deployment"
    /\ verdict # NoVerdict => step = "ended"
    /\ step = "accounts" => Reported /\ ReportedClass = target.reviewed
    /\ verdict \in {"ready", "healthy"} => Reported
    /\ verdict \in {"ready", "healthy"} /\ script # "health" => ReportedClass = target.reviewed
    /\ verdict = "reproduced" => artifact.body.hash = target.observed
    /\ verdict = "ready" => script = "deployment"

\* The review of the manifest and the inputs that the last gate has read.
ReviewedInv ==
    script = "deployment" /\ (step \in {"check", "accounts"} \/ verdict = "ready") =>
        /\ ManifestFits(reviewed.manifest)
        /\ reviewed.inputs.reviewedCommit = reviewed.manifest.commit
        /\ reviewed.inputs.reviewedCommit \in approved

\* The classes that a healthy endpoint answers were those of a block since the
\* report.
AccountsInv ==
    /\ accounts = [i \in Endpoint |-> accounts[i]]
    /\ \A i \in Endpoint : accounts[i] # NotAnswered =>
         /\ step \in {"accounts", "ended"} /\ Reported
         /\ Healthy(i) => \E k \in pools[2][1].number..Len(chain[Main]) :
                            chain[Main][k].changed = accounts[i]
    /\ verdict = "ready" => \A i \in Endpoint : accounts[i] = {}

VerdictInv == ApprovalInv /\ ScriptInv /\ ReviewedInv /\ AccountsInv

LEMMA VerdictInitially == ScriptInit /\ DeploymentInit => VerdictInv
<1> SUFFICES ASSUME ScriptInit, DeploymentInit PROVE VerdictInv
  OBVIOUS
<1>1. /\ verdict = "none" /\ step \in {"check", "compiler", "files"}
      /\ script = "deployment" <=> step = "files"
  BY ScriptsAssumption DEF ScriptInit, NoVerdict, HealthScript
<1>2. ScriptInv /\ ReviewedInv
  BY <1>1 DEF ScriptInv, ReviewedInv, NoVerdict
<1>3. ApprovalInv
  BY DEF DeploymentInit, ApprovalInv, NoInputs, Controls
<1>4. AccountsInv
  BY <1>1 DEF DeploymentInit, AccountsInv
<1>5. QED
  BY <1>2, <1>3, <1>4 DEF VerdictInv

LEMMA StepsOfTheScripts ==
    ASSUME Next \/ UNCHANGED mcVars
    PROVE  \/ /\ ReleaseNext \/ UNCHANGED releaseVars
              /\ UNCHANGED <<networkVars, checkVars, scriptVars, deploymentVars>>
           \/ /\ Approve \/ WriteInputs
              /\ UNCHANGED <<networkVars, checkVars, scriptVars, releaseVars>>
           \/ /\ NetworkNext
              /\ UNCHANGED <<checkVars, scriptVars, releaseVars, deploymentVars>>
           \/ ReviewNext /\ UNCHANGED <<releaseVars, deploymentVars>>
           \/ /\ ReviewInputs \/ PoolReviewed \/ AccountsReviewed \/ \E i \in Endpoint : ReadAccounts(i)
              /\ UNCHANGED releaseVars
<1>1. CASE UNCHANGED mcVars
  BY <1>1 DEF mcVars
<1>2. CASE Next
  BY <1>2 DEF Next, DeploymentNext
<1>3. QED
  BY <1>1, <1>2

\* The repository, the reviewer and the operator go on; the scripts do nothing.
LEMMA OutsideInv ==
    ASSUME VerdictInv, ReleaseInv, CommitsKept,
           UNCHANGED <<networkVars, checkVars, scriptVars, reviewed, accounts>>,
           \/ UNCHANGED <<approved, inputs>>
           \/ CommitsKept /\ (Approve \/ WriteInputs)
    PROVE  VerdictInv'
<1>1. approved \subseteq approved' /\ ApprovalInv'
  <2>1. CASE UNCHANGED <<approved, inputs>>
    BY <2>1 DEF VerdictInv, ApprovalInv, CommitsKept
  <2>2. CASE Approve
    BY <2>2 DEF Approve, VerdictInv, ApprovalInv, CommitsKept
  <2>3. CASE WriteInputs
    BY <2>3 DEF WriteInputs, VerdictInv, ApprovalInv, CommitsKept
  <2>4. QED
    BY <2>1, <2>2, <2>3
<1>2. ScriptInv'
  BY DEF VerdictInv, ScriptInv, scriptVars, checkVars, Reported, ReportedClass, NoVerdict
<1>3. ReviewedInv'
  <2>1. ReviewedInv
    BY DEF VerdictInv
  <2>2. UNCHANGED <<script, step, verdict, reviewed>>
    BY DEF scriptVars
  <2>3. QED
    BY <1>1, <2>1, <2>2, ManifestsKept DEF ReviewedInv, ManifestFits, CommitsKept
<1>4. AccountsInv'
  BY DEF VerdictInv, AccountsInv, scriptVars, checkVars, networkVars, Reported, NotAnswered,
         Endpoint, Healthy, NodeOf
<1>5. QED
  BY <1>1, <1>2, <1>3, <1>4 DEF VerdictInv

\* What was read stays on the chain while it grows.
LEMMA GrowingInv ==
    ASSUME VerdictInv, NetworkInv, CheckInv, Grows, NetworkInv',
           UNCHANGED <<checkVars, scriptVars, releaseVars, deploymentVars>>
    PROVE  VerdictInv'
<1>1. ApprovalInv'
  BY DEF VerdictInv, ApprovalInv, releaseVars, deploymentVars
<1>2. ScriptInv'
  BY DEF VerdictInv, ScriptInv, scriptVars, checkVars, Reported, ReportedClass, NoVerdict
<1>3. ReviewedInv'
  BY DEF VerdictInv, ReviewedInv, ManifestFits, scriptVars, releaseVars, deploymentVars
<1>4. AccountsInv'
  <2>1. UNCHANGED <<accounts, endpoints, stage, step, verdict, pools>>
    BY DEF deploymentVars, checkVars, scriptVars
  <2>2. ASSUME NEW i \in Endpoint, accounts[i] # NotAnswered
        PROVE  /\ step \in {"accounts", "ended"} /\ Reported
               /\ Healthy(i)' => \E k \in pools[2][1].number..Len(chain'[Main]) :
                                     chain'[Main][k].changed = accounts[i]
    <3>1. step \in {"accounts", "ended"} /\ Reported
      BY <2>2 DEF VerdictInv, AccountsInv
    <3>2. stage = "reported" /\ PoolsIn(2)
      BY <3>1 DEF Reported, PoolsIn, CheckInv, StageInv
    <3>3. NodeOf(i) \in Nodes /\ 1 \in Endpoint
      BY <3>2, EndpointNodes, FirstEndpoint DEF CheckInv
    <3>4. pools[2][1].number \in 1..Len(chain[Main])
      BY <3>2, <3>3, ReportOfARound
    <3>5. ASSUME Healthy(i)'
          PROVE  \E k \in pools[2][1].number..Len(chain'[Main]) : chain'[Main][k].changed = accounts[i]
      <4>1. Healthy(i)
        BY <2>1, <3>3, <3>5 DEF Healthy, NodeOf, Grows
      <4>2. PICK k \in pools[2][1].number..Len(chain[Main]) : chain[Main][k].changed = accounts[i]
        BY <2>2, <4>1 DEF VerdictInv, AccountsInv
      <4>3. /\ Len(chain[Main]) \in Nat /\ Len(chain'[Main]) \in Nat
            /\ Len(chain[Main]) <= Len(chain'[Main])
            /\ \A b \in 1..Len(chain[Main]) : chain'[Main][b] = chain[Main][b]
        BY DEF NetworkInv, Grows, Forks
      <4>4. k \in 1..Len(chain[Main]) /\ k \in pools[2][1].number..Len(chain'[Main])
        BY <3>4, <4>2, <4>3
      <4>5. QED
        BY <4>2, <4>3, <4>4
    <3>6. QED
      BY <3>1, <3>5
  <2>3. Endpoint' = Endpoint
    BY <2>1 DEF Endpoint
  <2>4. /\ accounts' = [i \in Endpoint' |-> accounts'[i]]
        /\ verdict' = "ready" => \A i \in Endpoint' : accounts'[i] = {}
    BY <2>1, <2>3 DEF VerdictInv, AccountsInv
  <2>5. \A i \in Endpoint' : accounts'[i] # NotAnswered' =>
         /\ step' \in {"accounts", "ended"} /\ Reported'
         /\ Healthy(i)' => \E k \in pools'[2][1].number..Len(chain'[Main]) :
                              chain'[Main][k].changed = accounts'[i]
    BY <2>1, <2>2, <2>3 DEF NotAnswered, Reported
  <2>6. QED
    BY <2>4, <2>5 DEF AccountsInv
<1>5. QED
  BY <1>1, <1>2, <1>3, <1>4 DEF VerdictInv

\* A run that goes on has no verdict.
LEMMA NoVerdictYet == ScriptInv /\ step # "ended" => verdict = NoVerdict
BY DEF ScriptInv

\* A script ends: the checks keep what they hold.
LEMMA EndsInv ==
    ASSUME VerdictInv, step # "ended", NEW with, Ends(with),
           UNCHANGED <<releaseVars, deploymentVars>>,
           with \in {"ready", "healthy"} => Reported,
           with \in {"ready", "healthy"} /\ script # "health" => ReportedClass = target.reviewed,
           with = "reproduced" => artifact.body.hash = target.observed,
           with = "ready" => /\ script = "deployment" /\ step = "accounts"
                             /\ \A i \in Endpoint : accounts[i] = {}
    PROVE  VerdictInv'
<1>1. /\ step' = "ended" /\ verdict' = with
      /\ UNCHANGED <<script, artifact, target, endpoints, stage, pools, chain, node, commits>>
      /\ UNCHANGED <<approved, inputs, reviewed, accounts>>
  BY DEF Ends, checkVars, networkVars, releaseVars, deploymentVars
<1>2. ApprovalInv'
  BY <1>1 DEF VerdictInv, ApprovalInv
<1>3. ScriptInv'
  BY <1>1 DEF VerdictInv, ScriptInv, Reported, ReportedClass
<1>4. ReviewedInv'
  BY <1>1 DEF VerdictInv, ReviewedInv, ManifestFits
<1>5. AccountsInv'
  <2>1. Endpoint' = Endpoint
    BY <1>1 DEF Endpoint
  <2>2. accounts' = [i \in Endpoint' |-> accounts'[i]]
    BY <1>1, <2>1 DEF VerdictInv, AccountsInv
  <2>3. verdict' = "ready" => \A i \in Endpoint' : accounts'[i] = {}
    BY <1>1, <2>1
  <2>4. \A i \in Endpoint' : accounts'[i] # NotAnswered' =>
         /\ step' \in {"accounts", "ended"} /\ Reported'
         /\ Healthy(i)' => \E k \in pools'[2][1].number..Len(chain'[Main]) :
                              chain'[Main][k].changed = accounts'[i]
    BY <1>1, <2>1 DEF VerdictInv, AccountsInv, NotAnswered, Reported, Healthy, NodeOf
  <2>5. QED
    BY <2>2, <2>3, <2>4 DEF AccountsInv
<1>6. QED
  BY <1>2, <1>3, <1>4, <1>5 DEF VerdictInv

\* A reproduction goes to its next step.
LEMMA ReproductionInv ==
    ASSUME VerdictInv, script = "artifacts", NEW next, next \in {"chain", "class"}, GoesTo(next),
           step # "ended",
           UNCHANGED <<checkVars, networkVars, releaseVars, deploymentVars>>
    PROVE  VerdictInv'
<1>1. /\ step' = next /\ verdict' = verdict /\ verdict = NoVerdict
      /\ UNCHANGED <<script, target, endpoints, stage, pools, chain, node, commits>>
      /\ UNCHANGED <<approved, inputs, reviewed, accounts>>
  BY NoVerdictYet DEF VerdictInv, GoesTo, checkVars, networkVars, releaseVars, deploymentVars
<1>2. ApprovalInv'
  BY <1>1 DEF VerdictInv, ApprovalInv
<1>3. ScriptInv'
  BY <1>1 DEF ScriptInv, NoVerdict
<1>4. ReviewedInv'
  BY <1>1 DEF ReviewedInv, NoVerdict
<1>5. AccountsInv'
  <2>1. \A i \in Endpoint : accounts[i] = NotAnswered
    BY DEF VerdictInv, AccountsInv, ScriptInv
  <2>2. Endpoint' = Endpoint
    BY <1>1 DEF Endpoint
  <2>3. QED
    BY <1>1, <2>1, <2>2 DEF VerdictInv, AccountsInv, NotAnswered, NoVerdict
<1>6. QED
  BY <1>2, <1>3, <1>4, <1>5 DEF VerdictInv

\* A script asks the nodes: the check within it, and what comes after.
LEMMA ReviewInv ==
    ASSUME VerdictInv, ReviewNext, UNCHANGED <<releaseVars, deploymentVars>>
    PROVE  VerdictInv'
<1>1. CASE CheckRuns
  <2>1. step = "check" /\ verdict = NoVerdict
    BY <1>1, NoVerdictYet DEF CheckRuns, VerdictInv
  <2>2. CASE HealthNext /\ UNCHANGED scriptVars
    <3>1. UNCHANGED <<networkVars, target, endpoints, interval>>
      BY <2>2, CheckSteps
    <3>2. UNCHANGED <<script, step, verdict, artifact, commits, approved, inputs, reviewed, accounts>>
      BY <2>2 DEF scriptVars, releaseVars, deploymentVars
    <3>3. ApprovalInv'
      BY <3>2 DEF VerdictInv, ApprovalInv
    <3>4. ScriptInv'
      BY <2>1, <3>2 DEF VerdictInv, ScriptInv, NoVerdict
    <3>5. ReviewedInv'
      BY <2>1, <3>2 DEF VerdictInv, ReviewedInv, ManifestFits, NoVerdict
    <3>6. AccountsInv'
      <4>1. \A i \in Endpoint : accounts[i] = NotAnswered
        BY <2>1 DEF VerdictInv, AccountsInv
      <4>2. Endpoint' = Endpoint
        BY <3>1 DEF Endpoint
      <4>3. QED
        BY <2>1, <3>2, <4>1, <4>2 DEF VerdictInv, AccountsInv, NotAnswered, NoVerdict
    <3>7. QED
      BY <3>3, <3>4, <3>5, <3>6 DEF VerdictInv
  <2>3. CASE Ends(Failed)
    BY <2>1, <2>3, EndsInv DEF Failed
  <2>4. QED
    BY <1>1, <2>2, <2>3 DEF CheckRuns
<1>2. CASE HealthEnds
  <2>1. script = "health" /\ step = "check" /\ Reported /\ Ends("healthy")
    BY <1>2 DEF HealthEnds
  <2>2. QED
    BY <2>1, EndsInv
<1>3. CASE MainnetEnds
  <2> DEFINE with == IF ReportedClass = target.reviewed THEN "healthy" ELSE Failed
  <2>1. step = "check" /\ Reported /\ Ends(with)
    BY <1>3 DEF MainnetEnds
  <2>2. with \in {"healthy", Failed} /\ (with = "healthy" => ReportedClass = target.reviewed)
    BY DEF Failed
  <2> HIDE DEF with
  <2>3. QED
    BY <2>1, <2>2, EndsInv DEF Failed
<1>4. CASE SepoliaEnds
  <2>1. step = "check" /\ Reported
    BY <1>4 DEF SepoliaEnds
  <2>2. PICK mismatches :
          Ends(IF /\ mismatches = {}
                  /\ ReportedClass \in target.candidates /\ ReportedClass = target.reviewed
                 THEN "healthy" ELSE Failed)
    BY <1>4, Zenon DEF SepoliaEnds
  <2> DEFINE with == IF /\ mismatches = {}
                        /\ ReportedClass \in target.candidates /\ ReportedClass = target.reviewed
                       THEN "healthy" ELSE Failed
  <2>3. Ends(with)
    BY <2>2
  <2>4. with \in {"healthy", Failed} /\ (with = "healthy" => ReportedClass = target.reviewed)
    BY DEF Failed
  <2> HIDE DEF with
  <2>5. QED
    BY <2>1, <2>3, <2>4, EndsInv DEF Failed
<1>5. CASE ResolveCompiler \/ AskChain
  <2>1. script = "artifacts" /\ step # "ended"
    BY <1>5 DEF ResolveCompiler, AskChain
  <2>2. Ends(Failed) \/ (\E next \in {"chain", "class"} : GoesTo(next) /\ UNCHANGED <<checkVars, networkVars>>)
    BY <1>5 DEF ResolveCompiler, AskChain
  <2>3. CASE Ends(Failed)
    BY <2>1, <2>3, EndsInv DEF Failed
  <2>4. QED
    BY <2>1, <2>2, <2>3, ReproductionInv
<1>6. CASE ReadClassHash \/ ReadClass
  <2>1. script = "artifacts" /\ step = "class" /\ GoesTo("class") /\ UNCHANGED <<checkVars, networkVars>>
    BY <1>6 DEF ReadClassHash, ReadClass
  <2>2. QED
    BY <2>1, ReproductionInv
<1>7. CASE ArtifactsEnd
  <2>1. step = "class"
    BY <1>7 DEF ArtifactsEnd
  <2>2. PICK compiled :
          Ends(IF /\ artifact.classHash = target.observed
                  /\ artifact.body.hash = target.observed
                  /\ compiled = <<"compiled", target.observed>>
                 THEN "reproduced" ELSE Failed)
    BY <1>7, Zenon DEF ArtifactsEnd
  <2> DEFINE with == IF /\ artifact.classHash = target.observed
                        /\ artifact.body.hash = target.observed
                        /\ compiled = <<"compiled", target.observed>>
                       THEN "reproduced" ELSE Failed
  <2>3. Ends(with)
    BY <2>2
  <2>4. with \in {"reproduced", Failed} /\ (with = "reproduced" => artifact.body.hash = target.observed)
    BY DEF Failed
  <2> HIDE DEF with
  <2>5. QED
    BY <2>1, <2>3, <2>4, EndsInv DEF Failed
<1>8. CASE ScriptFails
  <2>1. step # "ended" /\ Ends(Failed)
    BY <1>8 DEF ScriptFails
  <2>2. QED
    BY <2>1, EndsInv DEF Failed
<1>9. QED
  BY <1>1, <1>2, <1>3, <1>4, <1>5, <1>6, <1>7, <1>8 DEF ReviewNext

\* The last gate: what it has read was reviewed, and it ends ready only when every
\* account has its class.
LEMMA GateInv ==
    ASSUME VerdictInv, ReleaseInv, NetworkInv, CheckInv, UNCHANGED releaseVars,
           ReviewInputs \/ PoolReviewed \/ AccountsReviewed \/ \E i \in Endpoint : ReadAccounts(i)
    PROVE  VerdictInv'
<1>1. CASE ReviewInputs
  <2>1. script = "deployment" /\ step = "files" /\ UNCHANGED <<approved, inputs, accounts>>
    BY <1>1 DEF ReviewInputs
  <2>2. CASE Ends(Failed) /\ UNCHANGED reviewed
    BY <2>1, <2>2, EndsInv DEF Failed, deploymentVars
  <2> DEFINE manifest == manifests["SN_MAIN"]
  <2>3. CASE /\ ~(manifest = NoManifest)
             /\ ReviewMainnetDeploymentInputs(inputs, manifest) = {}
             /\ GoesTo("check") /\ UNCHANGED <<artifact, checkVars, networkVars>>
             /\ reviewed' = [manifest |-> manifest, inputs |-> inputs]
    <3>1. ManifestFits(manifest)
      BY <2>3 DEF ReleaseInv, Networks
    <3>2. inputs.unset = {} /\ inputs.reviewedCommit = manifest.commit
      BY <2>3 DEF ReviewMainnetDeploymentInputs
    <3>3. inputs.reviewedCommit \in approved
      BY <3>2 DEF VerdictInv, ApprovalInv
    <3>4. verdict = NoVerdict
      BY <2>1, NoVerdictYet DEF VerdictInv
    <3> HIDE DEF manifest
    <3>5. /\ step' = "check" /\ verdict' = verdict
          /\ reviewed'.manifest = manifest /\ reviewed'.inputs = inputs
          /\ UNCHANGED <<script, artifact, target, endpoints, stage, pools, chain, node, commits>>
      BY <2>3 DEF GoesTo, checkVars, networkVars, releaseVars
    <3>6. ApprovalInv'
      BY <2>1, <3>5 DEF VerdictInv, ApprovalInv
    <3>7. ScriptInv'
      BY <2>1, <3>4, <3>5 DEF ScriptInv, NoVerdict
    <3>8. ReviewedInv'
      BY <2>1, <3>1, <3>2, <3>3, <3>5 DEF ReviewedInv, ManifestFits
    <3>9. AccountsInv'
      <4>1. \A i \in Endpoint : accounts[i] = NotAnswered
        BY <2>1 DEF VerdictInv, AccountsInv
      <4>2. Endpoint' = Endpoint
        BY <3>5 DEF Endpoint
      <4>3. QED
        BY <2>1, <3>4, <3>5, <4>1, <4>2 DEF VerdictInv, AccountsInv, NotAnswered, NoVerdict
    <3>10. QED
      BY <3>6, <3>7, <3>8, <3>9 DEF VerdictInv
  <2>4. QED
    BY <1>1, <2>2, <2>3 DEF ReviewInputs
<1>2. CASE PoolReviewed
  <2>1. script = "deployment" /\ step = "check" /\ Reported /\ UNCHANGED deploymentVars
    BY <1>2 DEF PoolReviewed
  <2>2. CASE Ends(Failed)
    BY <2>1, <2>2, EndsInv DEF Failed
  <2>3. CASE /\ ReportedClass = target.reviewed /\ GoesTo("accounts")
             /\ UNCHANGED <<artifact, checkVars, networkVars>>
    <3>1. verdict = NoVerdict
      BY <2>1, NoVerdictYet DEF VerdictInv
    <3>2. /\ step' = "accounts" /\ verdict' = verdict
          /\ UNCHANGED <<approved, inputs, reviewed, accounts>>
          /\ UNCHANGED <<script, artifact, target, endpoints, stage, pools, chain, node, commits>>
      BY <2>1, <2>3 DEF GoesTo, checkVars, networkVars, releaseVars, deploymentVars
    <3>3. ApprovalInv'
      BY <3>2 DEF VerdictInv, ApprovalInv
    <3>4. ScriptInv'
      BY <2>1, <2>3, <3>1, <3>2 DEF ScriptInv, NoVerdict, Reported, ReportedClass
    <3>5. ReviewedInv'
      BY <2>1, <3>2 DEF VerdictInv, ReviewedInv, ManifestFits
    <3>6. AccountsInv'
      <4>1. \A i \in Endpoint : accounts[i] = NotAnswered
        BY <2>1 DEF VerdictInv, AccountsInv
      <4>2. Endpoint' = Endpoint
        BY <3>2 DEF Endpoint
      <4>3. QED
        BY <3>1, <3>2, <4>1, <4>2 DEF VerdictInv, AccountsInv, NotAnswered, NoVerdict
    <3>7. QED
      BY <3>3, <3>4, <3>5, <3>6 DEF VerdictInv
  <2>4. QED
    BY <1>2, <2>2, <2>3 DEF PoolReviewed
<1>3. CASE AccountsReviewed
  <2> DEFINE with == IF \A i \in Endpoint : accounts[i] = {} THEN "ready" ELSE Failed
  <2>1. script = "deployment" /\ step = "accounts" /\ Ends(with) /\ UNCHANGED deploymentVars
    BY <1>3 DEF AccountsReviewed
  <2>2. with \in {"ready", Failed} /\ (with = "ready" => \A i \in Endpoint : accounts[i] = {})
    BY DEF Failed
  <2>3. Reported /\ ReportedClass = target.reviewed
    BY <2>1 DEF VerdictInv, ScriptInv
  <2> HIDE DEF with
  <2>4. QED
    BY <2>1, <2>2, <2>3, EndsInv DEF Failed
<1>4. ASSUME NEW i \in Endpoint, ReadAccounts(i)
      PROVE  VerdictInv'
  <2> DEFINE answer == chain[node[NodeOf(i)].fork][node[NodeOf(i)].height].changed
  <2>1. /\ script = "deployment" /\ step = "accounts"
        /\ accounts' = [accounts EXCEPT ![i] = answer]
        /\ UNCHANGED <<approved, inputs, reviewed, script, step, verdict, artifact>>
        /\ UNCHANGED <<target, endpoints, stage, pools, chain, node, commits>>
    BY <1>4 DEF ReadAccounts, scriptVars, checkVars, networkVars, releaseVars
  <2>2. verdict = NoVerdict /\ Reported
    BY <2>1, NoVerdictYet DEF VerdictInv, ScriptInv
  <2>3. stage = "reported" /\ PoolsIn(2)
    BY <2>2 DEF Reported, PoolsIn, CheckInv, StageInv
  <2>4. NodeOf(i) \in Nodes /\ 1 \in Endpoint
    BY <2>3, EndpointNodes, FirstEndpoint DEF CheckInv
  <2>5. ApprovalInv' /\ ReviewedInv'
    BY <2>1 DEF VerdictInv, ApprovalInv, ReviewedInv, ManifestFits
  <2>6. ScriptInv'
    BY <2>1 DEF VerdictInv, ScriptInv, Reported, ReportedClass, NoVerdict
  <2>7. ASSUME Healthy(i)
        PROVE  \E k \in pools[2][1].number..Len(chain[Main]) : chain[Main][k].changed = answer
    <3>1. node[NodeOf(i)].fork = Main
      BY <2>4, <2>7 DEF Healthy, NetworkInv
    <3>2. PoolFits(2, i, pools[2][i]) /\ pools[2][i].number = CommonBlock(2)
      BY <2>3 DEF CheckInv, PoolsInv, PoolFits
    <3>3. pools[2][1].number = CommonBlock(2) /\ pools[2][1].number \in 1..Len(chain[Main])
      BY <2>3, <2>4, ReportOfARound
    <3>4. pools[2][1].number \in 1..node[NodeOf(i)].height
      BY <3>2, <3>3 DEF PoolFits
    <3>5. node[NodeOf(i)].height \in Nat /\ node[NodeOf(i)].height <= Len(chain[Main])
          /\ Len(chain[Main]) \in Nat
      BY <2>4, <3>1 DEF NetworkInv, Forks
    <3>6. node[NodeOf(i)].height \in pools[2][1].number..Len(chain[Main])
      BY <3>3, <3>4, <3>5
    <3>7. QED
      BY <3>1, <3>6
  <2>8. AccountsInv'
    <3>1. Endpoint' = Endpoint
      BY <2>1 DEF Endpoint
    <3> HIDE DEF answer
    <3>2. /\ accounts' = [j \in Endpoint |-> accounts'[j]]
          /\ \A j \in Endpoint : accounts'[j] = IF j = i THEN answer ELSE accounts[j]
      BY <2>1 DEF VerdictInv, AccountsInv
    <3>3. \A j \in Endpoint : accounts'[j] # NotAnswered /\ Healthy(j) =>
            \E k \in pools[2][1].number..Len(chain[Main]) : chain[Main][k].changed = accounts'[j]
      BY <2>7, <3>2 DEF VerdictInv, AccountsInv
    <3>4. \A j \in Endpoint' : Healthy(j)' => Healthy(j)
      BY <2>1 DEF Healthy, NodeOf
    <3>5. \A j \in Endpoint' : accounts'[j] # NotAnswered' =>
           /\ step' \in {"accounts", "ended"} /\ Reported'
           /\ Healthy(j)' => \E k \in pools'[2][1].number..Len(chain'[Main]) :
                                chain'[Main][k].changed = accounts'[j]
      BY <2>1, <2>2, <3>1, <3>3, <3>4 DEF NotAnswered, Reported
    <3>6. QED
      BY <2>1, <2>2, <3>1, <3>2, <3>5 DEF AccountsInv, NoVerdict
  <2>9. QED
    BY <2>5, <2>6, <2>8 DEF VerdictInv
<1>5. QED
  BY <1>1, <1>2, <1>3, <1>4

\* ReleaseInv and VerdictInv of all the steps.
THEOREM GateCorrect == Spec => [](ReleaseInv /\ VerdictInv)
<1>1. Init => ReleaseInv /\ VerdictInv
  <2>1. ASSUME Init
        PROVE  ReleaseInit /\ ScriptInit /\ DeploymentInit
    BY <2>1 DEF Init
  <2>2. QED
    BY <2>1, ReleaseInitially, VerdictInitially
<1>2. ASSUME NetworkInv, CheckInv, NetworkInv', CheckInv', ReleaseInv, VerdictInv, [Next]_mcVars
      PROVE  ReleaseInv' /\ VerdictInv'
  <2>1. CASE /\ ReleaseNext \/ UNCHANGED releaseVars
             /\ UNCHANGED <<networkVars, checkVars, scriptVars, deploymentVars>>
    <3>1. ReleaseInv' /\ CommitsKept
      BY <1>2, <2>1, ReleaseSteps
    <3>2. UNCHANGED <<networkVars, checkVars, scriptVars>> /\ UNCHANGED <<approved, inputs, reviewed, accounts>>
      BY <2>1 DEF deploymentVars
    <3>3. QED
      BY <1>2, <3>1, <3>2, OutsideInv
  <2>2. CASE /\ Approve \/ WriteInputs
             /\ UNCHANGED <<networkVars, checkVars, scriptVars, releaseVars>>
    <3>1. ReleaseInv' /\ CommitsKept
      BY <1>2, <2>2, ReleaseSteps
    <3>2. UNCHANGED <<reviewed, accounts>>
      BY <2>2 DEF Approve, WriteInputs
    <3>3. QED
      BY <1>2, <2>2, <3>1, <3>2, OutsideInv
  <2>3. CASE NetworkNext /\ UNCHANGED <<checkVars, scriptVars, releaseVars, deploymentVars>>
    <3>1. ReleaseInv' /\ Grows
      BY <1>2, <2>3, ReleaseSteps, NetworkSteps
    <3>2. QED
      BY <1>2, <2>3, <3>1, GrowingInv
  <2>4. CASE ReviewNext /\ UNCHANGED <<releaseVars, deploymentVars>>
    BY <1>2, <2>4, ReleaseSteps, ReviewInv
  <2>5. CASE /\ ReviewInputs \/ PoolReviewed \/ AccountsReviewed \/ \E i \in Endpoint : ReadAccounts(i)
             /\ UNCHANGED releaseVars
    BY <1>2, <2>5, ReleaseSteps, GateInv
  <2>6. QED
    BY <1>2, <2>1, <2>2, <2>3, <2>4, <2>5, StepsOfTheScripts
<1>3. QED
  BY <1>1, <1>2, ReviewsCorrect, PTL DEF Spec

\* VerdictsAreBacked: a verdict of a script was established by what was read, and
\* ready by an approval of the commit that the manifest was built from.
THEOREM VerdictsCorrect == Spec => []VerdictsAreBacked
<1>1. ASSUME NetworkInv, CheckInv, ReleaseInv, VerdictInv
      PROVE  VerdictsAreBacked
  <2>1. ASSUME verdict \in {"ready", "healthy"}
        PROVE  /\ Reported /\ stage = "reported" /\ PoolsIn(2) /\ 1 \in Endpoint
               /\ pools[2][1].classHash = chain[Main][pools[2][1].number].class.hash
               /\ script # "health" => pools[2][1].classHash = target.reviewed
    <3>1. Reported /\ (script # "health" => pools[2][1].classHash = target.reviewed)
      BY <1>1, <2>1 DEF VerdictInv, ScriptInv, ReportedClass
    <3>2. stage = "reported" /\ PoolsIn(2)
      BY <1>1, <3>1 DEF Reported, PoolsIn, CheckInv, StageInv
    <3>3. 1 \in Endpoint
      BY <1>1, <3>2, FirstEndpoint DEF CheckInv
    <3>4. QED
      BY <1>1, <3>1, <3>2, <3>3, ReportOfARound
  <2>2. ASSUME verdict = "ready"
        PROVE  /\ reviewed.inputs.reviewedCommit \in approved
               /\ reviewed.manifest.source = commits[reviewed.inputs.reviewedCommit]
               /\ reviewed.manifest.source \in PassingSources
               /\ reviewed.manifest.tools = Tools
    BY <1>1, <2>2 DEF VerdictInv, ScriptInv, ReviewedInv, ManifestFits
  <2>3. ASSUME verdict = "ready"
        PROVE  \E k \in pools[2][1].number..Len(chain[Main]) : chain[Main][k].changed = {}
    <3>1. PICK h \in Endpoint : Healthy(h)
      BY <1>1, <2>1, <2>3, HealthyEndpoint DEF CheckInv
    <3>2. accounts[h] = {} /\ accounts[h] # NotAnswered
      BY <1>1, <2>3, <3>1 DEF VerdictInv, AccountsInv, NotAnswered
    <3>3. QED
      BY <1>1, <3>1, <3>2 DEF VerdictInv, AccountsInv
  <2>4. verdict = "reproduced" => artifact.body.hash = target.observed
    BY <1>1 DEF VerdictInv, ScriptInv
  <2>5. QED
    BY <2>1, <2>2, <2>3, <2>4 DEF VerdictsAreBacked
<1>2. QED
  BY <1>1, ReviewsCorrect, GateCorrect, PTL

-----------------------------------------------------------------------------
(* The local records.  Every copy of a marketplace is consistent by itself, *)
(* and all its ids are of records that were made: a new id is new to every  *)
(* copy.                                                                    *)

Status == DOMAIN Kinds
ReceiptKinds == {"deposit_reviewed", "seller_claim", "refund"}
RecordKinds == {"profiles", "gigs", "proposals", "orders", "receipts", "feed", "plans"}

MarketRecord(m) ==
    [profiles |-> m.profiles, gigs |-> m.gigs, proposals |-> m.proposals,
     orders |-> m.orders, receipts |-> m.receipts, feed |-> m.feed]

MarketShape(m) ==
    /\ m = MarketRecord(m)
    /\ m.profiles \subseteq Nat
    /\ m.gigs \subseteq [id: Nat, creator: Nat, price: Prices \ {0}]
    /\ m.proposals \subseteq [id: Nat, gig: Nat, buyer: Nat, status: {"pending", "accepted"}]
    /\ m.orders \subseteq [id: Nat, proposal: Nat, gig: Nat, buyer: Nat, creator: Nat,
                           amount: Prices \ {0}, status: Status, receipt: Nat]
    /\ m.receipts \subseteq [id: Nat, order: Nat, kind: ReceiptKinds, amount: Prices \ {0}]
    /\ IsFiniteSet(m.orders)

MadeIds(m, count) ==
    /\ \A g \in m.gigs : g.id <= count["gigs"]
    /\ \A p \in m.proposals : p.id <= count["proposals"]
    /\ \A o \in m.orders : o.id <= count["orders"] /\ o.receipt <= count["receipts"]
    /\ \A r \in m.receipts : r.id <= count["receipts"] /\ r.order <= count["orders"]

GigsAgree(m) ==
    /\ \A g, h \in m.gigs : g.id = h.id => g = h
    /\ \A g \in m.gigs : g.creator \in m.profiles

ProposalsAgree(m) ==
    /\ \A p, q \in m.proposals : p.id = q.id => p = q
    /\ \A p \in m.proposals :
         /\ p.buyer \in m.profiles
         /\ \E g \in m.gigs : g.id = p.gig /\ g.creator # p.buyer
         /\ p.status = "accepted" => \E o \in m.orders : o.proposal = p.id

OrdersAgree(m) ==
    /\ \A o, q \in m.orders : o.id = q.id \/ o.proposal = q.proposal => o = q
    /\ \A o \in m.orders :
         /\ o.creator \in m.profiles /\ o.buyer # o.creator
         /\ \E p \in m.proposals : /\ p.id = o.proposal /\ p.gig = o.gig /\ p.buyer = o.buyer
                                   /\ p.status = "accepted"

ReceiptsAgree(m) ==
    /\ \A r, s \in m.receipts : r.order = s.order /\ r.kind = s.kind => r = s
    /\ \A o \in m.orders :
         /\ \A r \in m.receipts : r.order = o.id =>
              r.kind \in Kinds[o.status] /\ r.amount = o.amount /\ r.id <= o.receipt
         /\ \A kind \in Kinds[o.status] : \E r \in m.receipts : r.order = o.id /\ r.kind = kind

MarketInv(m, count) ==
    /\ MarketShape(m) /\ MadeIds(m, count)
    /\ GigsAgree(m) /\ ProposalsAgree(m) /\ OrdersAgree(m) /\ ReceiptsAgree(m)

PlansInv(plans) ==
    /\ plans \subseteq [id: Nat, prepaid: Nat, claimed: Nat, state: {"active", "cancelled"}]
    /\ \A s \in plans : s.claimed <= s.prepaid /\ s.prepaid <= MaxPrepaidPeriods

EntryInv(entry, count) ==
    entry = Absent \/ (MarketInv(Decoded(entry), count) /\ entry = EncodeMarketplace(Decoded(entry)))

CopyInv(copy, count) ==
    \/ copy = Loading
    \/ DOMAIN copy = {"market", "plans"} /\ MarketInv(copy.market, count) /\ PlansInv(copy.plans)

FileInv(f, count) ==
    /\ f.version = 1 /\ f.marketplace # Absent
    /\ EntryInv(f.marketplace, count) /\ PlansInv(f.subscriptions)

LocalInv ==
    /\ made \in [RecordKinds -> Nat]
    /\ DOMAIN tabs = Tabs /\ \A t \in Tabs : CopyInv(tabs[t], made)
    /\ DOMAIN local = {"market", "plans"}
    /\ EntryInv(local.market, made) /\ PlansInv(local.plans)
    /\ \A f \in files : FileInv(f, made)

\* Counting by pairing off.
LEMMA PairedOff ==
    ASSUME NEW S, IsFiniteSet(S), NEW T, NEW f, DOMAIN f = S,
           \A x \in S : f[x] \in T,
           \A x, y \in S : f[x] = f[y] => x = y,
           \A z \in T : \E x \in S : f[x] = z
    PROVE  Cardinality(T) = Cardinality(S)
<1>1. PICK g : g = [x \in S |-> f[x]]
  OBVIOUS
<1>2. g \in [S -> T] /\ \A x \in S : g[x] = f[x]
  BY <1>1
<1>3. g \in Bijection(S, T)
  BY <1>2, Fun_IsBij
<1>4. ExistsBijection(S, T)
  BY <1>3 DEF ExistsBijection
<1>5. QED
  BY <1>4, FS_Bijection

LEMMA KindsFinite ==
    ASSUME NEW status \in Status
    PROVE  IsFiniteSet(Kinds[status]) /\ Kinds[status] \subseteq ReceiptKinds
<1>1. IsFiniteSet({}) /\ \A x, y : IsFiniteSet({x}) /\ IsFiniteSet({x, y})
  <2>1. IsFiniteSet({}) /\ \A x : IsFiniteSet({x})
    BY FS_EmptySet, FS_Singleton
  <2>2. ASSUME NEW x, NEW y
        PROVE  IsFiniteSet({x, y})
    <3>1. IsFiniteSet({x} \cup {y}) /\ {x, y} = {x} \cup {y}
      BY <2>1, FS_AddElement
    <3>2. QED
      BY <3>1
  <2>3. QED
    BY <2>1, <2>2
<1>2. /\ status \in {"awaiting_payment", "funded", "delivered", "settled", "refunded"}
      /\ Kinds[status] \in {{}, {"deposit_reviewed"}, {"deposit_reviewed", "seller_claim"},
                            {"deposit_reviewed", "refund"}}
  BY DEF Status, Kinds
<1>3. QED
  BY <1>1, <1>2 DEF ReceiptKinds

\* One order for an accepted proposal, none for a pending one.
LEMMA OrdersOfProposals ==
    ASSUME NEW m, MarketShape(m), ProposalsAgree(m), OrdersAgree(m), NEW p \in m.proposals
    PROVE  Cardinality({o \in m.orders : o.proposal = p.id})
             = IF p.status = "accepted" THEN 1 ELSE 0
<1> DEFINE own == {o \in m.orders : o.proposal = p.id}
<1>1. CASE p.status = "accepted"
  <2>1. PICK o \in m.orders : o.proposal = p.id
    BY <1>1 DEF ProposalsAgree
  <2>2. own = {o}
    BY <2>1 DEF OrdersAgree
  <2>3. QED
    BY <1>1, <2>2, FS_Singleton
<1>2. CASE p.status # "accepted"
  <2>1. own = {}
    BY <1>2 DEF OrdersAgree, ProposalsAgree
  <2>2. QED
    BY <1>2, <2>1, FS_EmptySet
<1>3. QED
  BY <1>1, <1>2

\* An order has the receipts of its status, one of each kind.
LEMMA ReceiptsOfOrders ==
    ASSUME NEW m, MarketShape(m), ReceiptsAgree(m), NEW o \in m.orders,
           NEW own, own = {r \in m.receipts : r.order = o.id}
    PROVE  /\ {r.kind : r \in own} = Kinds[o.status]
           /\ Cardinality(own) = Cardinality(Kinds[o.status])
           /\ \A r \in own : r.amount = o.amount /\ r.id <= o.receipt
<1>1. \A r \in own : r.kind \in Kinds[o.status] /\ r.amount = o.amount /\ r.id <= o.receipt
  BY DEF ReceiptsAgree
<1>2. \A kind \in Kinds[o.status] : \E r \in own : r.kind = kind
  BY DEF ReceiptsAgree
<1>3. \A r, s \in own : r.kind = s.kind => r = s
  BY DEF ReceiptsAgree
<1>4. IsFiniteSet(Kinds[o.status])
  BY KindsFinite DEF MarketShape
<1>5. PICK f : f = [kind \in Kinds[o.status] |-> CHOOSE r \in own : r.kind = kind]
  OBVIOUS
<1>6. \A kind \in Kinds[o.status] : f[kind] \in own /\ f[kind].kind = kind
  BY <1>2, <1>5
<1>7. \A r \in own : f[r.kind] = r
  BY <1>1, <1>3, <1>6
<1>8. Cardinality(own) = Cardinality(Kinds[o.status])
  <2>1. DOMAIN f = Kinds[o.status]
    BY <1>5
  <2>2. \A x \in Kinds[o.status] : f[x] \in own
    BY <1>6
  <2>3. \A x, y \in Kinds[o.status] : f[x] = f[y] => x = y
    BY <1>6
  <2>4. \A z \in own : \E x \in Kinds[o.status] : f[x] = z
    BY <1>1, <1>7
  <2>5. QED
    BY <1>4, <2>1, <2>2, <2>3, <2>4, PairedOff
<1>9. QED
  BY <1>1, <1>2, <1>8

\* The orders of a profile that ended one way have as many receipts of it.
EndsAs(status, kind) ==
    \/ status = "settled" /\ kind = "seller_claim"
    \/ status = "refunded" /\ kind = "refund"
OwnOrders(m, c) == {o \in m.orders : c \in {o.buyer, o.creator}}
OwnReceipts(m, c) == {r \in m.receipts : \E o \in OwnOrders(m, c) : r.order = o.id}
OrdersEnded(m, c, status) == {o \in OwnOrders(m, c) : o.status = status}
EndReceipts(m, c, kind) == {r \in OwnReceipts(m, c) : r.kind = kind}

LEMMA EndedOrders ==
    ASSUME NEW m, MarketShape(m), OrdersAgree(m), ReceiptsAgree(m), NEW c,
           NEW status, NEW kind, EndsAs(status, kind)
    PROVE  Cardinality(OrdersEnded(m, c, status)) = Cardinality(EndReceipts(m, c, kind))
<1> DEFINE relevant == OwnOrders(m, c)
           own == OwnReceipts(m, c)
           S == OrdersEnded(m, c, status)
           T == EndReceipts(m, c, kind)
<1> USE DEF OwnOrders, OwnReceipts, OrdersEnded, EndReceipts
<1>1. kind \in Kinds[status] /\ \A s \in Status : kind \in Kinds[s] => s = status
  BY DEF Kinds, Status, EndsAs
<1>2. IsFiniteSet(S)
  BY FS_Subset DEF MarketShape
<1>3. PICK f : f = [o \in S |-> CHOOSE r \in m.receipts : r.order = o.id /\ r.kind = kind]
  OBVIOUS
<1>4. \A o \in S : f[o] \in m.receipts /\ f[o].order = o.id /\ f[o].kind = kind
  <2> TAKE o \in S
  <2>1. \E r \in m.receipts : r.order = o.id /\ r.kind = kind
    BY <1>1 DEF ReceiptsAgree
  <2>2. QED
    BY <1>3, <2>1
<1>5. \A o \in S : f[o] \in T
  BY <1>4
<1>6. \A x, y \in S : f[x] = f[y] => x = y
  BY <1>4 DEF OrdersAgree
<1>7. \A z \in T : \E x \in S : f[x] = z
  <2> TAKE z \in T
  <2>1. PICK o \in relevant : z.order = o.id
    OBVIOUS
  <2>2. o \in S
    <3>1. kind \in Kinds[o.status]
      BY <2>1 DEF ReceiptsAgree
    <3>2. o.status \in Status
      BY DEF MarketShape
    <3>3. QED
      BY <1>1, <3>1, <3>2
  <2>3. f[o] = z
    BY <1>4, <2>1, <2>2 DEF ReceiptsAgree
  <2>4. QED
    BY <2>2, <2>3
<1>8. DOMAIN f = S
  BY <1>3
<1> HIDE DEF S, T
<1>9. Cardinality(T) = Cardinality(S)
  BY <1>2, <1>5, <1>6, <1>7, <1>8, PairedOff
<1>10. QED
  BY <1>9 DEF S, T

\* What the records promise follows from what is kept.
LEMMA GoodRecordsAgree ==
    ASSUME NEW w, NEW count, MarketInv(w.market, count), PlansInv(w.plans)
    PROVE  Agrees(w)
<1> DEFINE m == w.market
           ReceiptsOf(orders) == {r \in m.receipts : \E o \in orders : r.order = o.id}
<1>1. /\ MarketShape(m) /\ ProposalsAgree(m) /\ OrdersAgree(m) /\ ReceiptsAgree(m)
  BY DEF MarketInv
<1>2. \A p \in m.proposals :
         Cardinality({o \in m.orders : o.proposal = p.id}) = IF p.status = "accepted" THEN 1 ELSE 0
  BY <1>1, OrdersOfProposals
<1>3. ASSUME NEW o \in m.orders
      PROVE  /\ \E p \in m.proposals : p.id = o.proposal /\ p.gig = o.gig /\ p.buyer = o.buyer
             /\ {o.buyer, o.creator} \subseteq m.profiles /\ o.buyer # o.creator
             /\ {r.kind : r \in ReceiptsOf({o})} = Kinds[o.status]
             /\ Cardinality(ReceiptsOf({o})) = Cardinality(Kinds[o.status])
             /\ \A r \in ReceiptsOf({o}) : r.amount = o.amount /\ r.id <= o.receipt
  <2>1. /\ \E p \in m.proposals : p.id = o.proposal /\ p.gig = o.gig /\ p.buyer = o.buyer
        /\ {o.buyer, o.creator} \subseteq m.profiles /\ o.buyer # o.creator
    BY <1>1 DEF OrdersAgree, ProposalsAgree
  <2>2. PICK own : own = {r \in m.receipts : r.order = o.id}
    OBVIOUS
  <2>3. ReceiptsOf({o}) = own
    BY <2>2
  <2>4. /\ {r.kind : r \in own} = Kinds[o.status]
        /\ Cardinality(own) = Cardinality(Kinds[o.status])
        /\ \A r \in own : r.amount = o.amount /\ r.id <= o.receipt
    BY <1>1, <2>2, ReceiptsOfOrders
  <2> HIDE DEF ReceiptsOf
  <2>5. QED
    BY <2>1, <2>3, <2>4
<1>4. ASSUME NEW c \in m.profiles
      PROVE  LET own == ReceiptsOf({o \in m.orders : c \in {o.buyer, o.creator}})
             IN  ReputationFor(m, c) =
                   [completed |-> Cardinality({r \in own : r.kind = "seller_claim"}),
                    refunded |-> Cardinality({r \in own : r.kind = "refund"})]
  <2>1. /\ Cardinality(OrdersEnded(m, c, "settled")) = Cardinality(EndReceipts(m, c, "seller_claim"))
        /\ Cardinality(OrdersEnded(m, c, "refunded")) = Cardinality(EndReceipts(m, c, "refund"))
    <3>1. EndsAs("settled", "seller_claim") /\ EndsAs("refunded", "refund")
      BY DEF EndsAs
    <3> HIDE DEF m
    <3>2. QED
      BY <1>1, <3>1, EndedOrders
  <2>2. ReputationFor(m, c) = [completed |-> Cardinality(OrdersEnded(m, c, "settled")),
                               refunded |-> Cardinality(OrdersEnded(m, c, "refunded"))]
    BY DEF ReputationFor, OrdersEnded, OwnOrders
  <2>3. ReceiptsOf({o \in m.orders : c \in {o.buyer, o.creator}}) = OwnReceipts(m, c)
    BY DEF OwnReceipts, OwnOrders
  <2> HIDE DEF ReceiptsOf
  <2>4. QED
    BY <2>1, <2>2, <2>3 DEF EndReceipts
<1>5. \A s \in w.plans : s.claimed <= s.prepaid /\ s.prepaid <= MaxPrepaidPeriods
  BY DEF PlansInv
<1>6. QED
  BY <1>2, <1>3, <1>4, <1>5 DEF Agrees

\* What is written is read back.
LEMMA AmountsReadBack ==
    ASSUME NEW n \in Prices
    PROVE  BigInt[Decimal[n]] = n
<1>1. Decimal[n] = ToString(n)
  BY DEF Decimal
<1>2. BigInt[ToString(n)] = CHOOSE q \in Prices : ToString(q) = ToString(n)
  BY DEF BigInt
<1>3. \A q \in Prices : ToString(q) = ToString(n) => q = n
  BY LocalAssumption
<1>4. QED
  BY <1>1, <1>2, <1>3

WithPrices(S, F) == {[g EXCEPT !.price = F[@]] : g \in S}
WithAmount(S, F) == {[x EXCEPT !.amount = F[@]] : x \in S}

LEMMA AmountsOfRecords ==
    ASSUME NEW m, m = MarketRecord(m), NEW F
    PROVE  WithAmounts(m, F) =
             [profiles |-> m.profiles, gigs |-> WithPrices(m.gigs, F), proposals |-> m.proposals,
              orders |-> WithAmount(m.orders, F), receipts |-> WithAmount(m.receipts, F),
              feed |-> m.feed]
<1>1. PICK G, O, R : /\ G = WithPrices(m.gigs, F)
                     /\ O = WithAmount(m.orders, F) /\ R = WithAmount(m.receipts, F)
  OBVIOUS
<1>2. WithAmounts(m, F) = [m EXCEPT !.gigs = G, !.orders = O, !.receipts = R]
  BY <1>1 DEF WithAmounts, WithPrices, WithAmount
<1>3. [m EXCEPT !.gigs = G, !.orders = O, !.receipts = R] =
        [profiles |-> m.profiles, gigs |-> G, proposals |-> m.proposals,
         orders |-> O, receipts |-> R, feed |-> m.feed]
  <2>1. PICK p, g, q, o, r, d : m = [profiles |-> p, gigs |-> g, proposals |-> q,
                                     orders |-> o, receipts |-> r, feed |-> d]
    BY Zenon DEF MarketRecord
  <2>2. [m EXCEPT !.gigs = G, !.orders = O, !.receipts = R] =
          [profiles |-> p, gigs |-> G, proposals |-> q, orders |-> O, receipts |-> R, feed |-> d]
    <3>1. PICK x : x = [m EXCEPT !.gigs = G]
      OBVIOUS
    <3>2. x = [profiles |-> p, gigs |-> G, proposals |-> q, orders |-> o, receipts |-> r, feed |-> d]
      BY <2>1, <3>1
    <3>3. PICK y : y = [x EXCEPT !.orders = O]
      OBVIOUS
    <3>4. y = [profiles |-> p, gigs |-> G, proposals |-> q, orders |-> O, receipts |-> r, feed |-> d]
      BY <3>2, <3>3
    <3>5. [y EXCEPT !.receipts = R] =
            [profiles |-> p, gigs |-> G, proposals |-> q, orders |-> O, receipts |-> R, feed |-> d]
      BY <3>4
    <3>6. QED
      BY <3>1, <3>3, <3>5
  <2>3. m.profiles = p /\ m.proposals = q /\ m.feed = d
    BY <2>1
  <2>4. QED
    BY <2>2, <2>3
<1>4. QED
  BY <1>1, <1>2, <1>3

LEMMA PricesReadBack ==
    ASSUME NEW S, \A g \in S : [[g EXCEPT !.price = Decimal[@]] EXCEPT !.price = BigInt[@]] = g
    PROVE  WithPrices(WithPrices(S, Decimal), BigInt) = S
<1>1. ASSUME NEW g \in S
      PROVE  g \in WithPrices(WithPrices(S, Decimal), BigInt)
  <2>1. [g EXCEPT !.price = Decimal[@]] \in WithPrices(S, Decimal)
    BY DEF WithPrices
  <2>2. [[g EXCEPT !.price = Decimal[@]] EXCEPT !.price = BigInt[@]]
          \in WithPrices(WithPrices(S, Decimal), BigInt)
    BY <2>1, Zenon DEF WithPrices
  <2>3. QED
    BY <2>2
<1>2. ASSUME NEW x \in WithPrices(WithPrices(S, Decimal), BigInt)
      PROVE  x \in S
  <2>1. PICK h \in WithPrices(S, Decimal) : x = [h EXCEPT !.price = BigInt[@]]
    BY Zenon DEF WithPrices
  <2>2. PICK g \in S : h = [g EXCEPT !.price = Decimal[@]]
    BY Zenon DEF WithPrices
  <2>3. QED
    BY <2>1, <2>2
<1>3. QED
  BY <1>1, <1>2

LEMMA AmountReadBack ==
    ASSUME NEW S, \A x \in S : [[x EXCEPT !.amount = Decimal[@]] EXCEPT !.amount = BigInt[@]] = x
    PROVE  WithAmount(WithAmount(S, Decimal), BigInt) = S
<1>1. ASSUME NEW x \in S
      PROVE  x \in WithAmount(WithAmount(S, Decimal), BigInt)
  <2>1. [x EXCEPT !.amount = Decimal[@]] \in WithAmount(S, Decimal)
    BY DEF WithAmount
  <2>2. [[x EXCEPT !.amount = Decimal[@]] EXCEPT !.amount = BigInt[@]]
          \in WithAmount(WithAmount(S, Decimal), BigInt)
    BY <2>1, Zenon DEF WithAmount
  <2>3. QED
    BY <2>2
<1>2. ASSUME NEW y \in WithAmount(WithAmount(S, Decimal), BigInt)
      PROVE  y \in S
  <2>1. PICK h \in WithAmount(S, Decimal) : y = [h EXCEPT !.amount = BigInt[@]]
    BY Zenon DEF WithAmount
  <2>2. PICK x \in S : h = [x EXCEPT !.amount = Decimal[@]]
    BY Zenon DEF WithAmount
  <2>3. QED
    BY <2>1, <2>2
<1>3. QED
  BY <1>1, <1>2

LEMMA RecordsReadBack ==
    ASSUME NEW m, MarketShape(m)
    PROVE  /\ EncodeMarketplace(m) # Absent
           /\ Decoded(EncodeMarketplace(m)) = m
<1>1. m = MarketRecord(m)
  BY DEF MarketShape
<1>2. PICK e : e = EncodeMarketplace(m)
  OBVIOUS
<1>3. e = [profiles |-> m.profiles, gigs |-> WithPrices(m.gigs, Decimal), proposals |-> m.proposals,
           orders |-> WithAmount(m.orders, Decimal), receipts |-> WithAmount(m.receipts, Decimal),
           feed |-> m.feed]
  BY <1>1, <1>2, AmountsOfRecords DEF EncodeMarketplace
<1>4. e = MarketRecord(e) /\ e # Absent
  BY <1>3 DEF MarketRecord, Absent
<1>5. /\ WithPrices(e.gigs, BigInt) = m.gigs
      /\ WithAmount(e.orders, BigInt) = m.orders
      /\ WithAmount(e.receipts, BigInt) = m.receipts
  <2>1. \A g \in m.gigs : [[g EXCEPT !.price = Decimal[@]] EXCEPT !.price = BigInt[@]] = g
    BY AmountsReadBack DEF MarketShape
  <2>2. \A o \in m.orders : [[o EXCEPT !.amount = Decimal[@]] EXCEPT !.amount = BigInt[@]] = o
    BY AmountsReadBack DEF MarketShape
  <2>3. \A r \in m.receipts : [[r EXCEPT !.amount = Decimal[@]] EXCEPT !.amount = BigInt[@]] = r
    BY AmountsReadBack DEF MarketShape
  <2>4. WithPrices(WithPrices(m.gigs, Decimal), BigInt) = m.gigs
    BY <2>1, PricesReadBack
  <2>5. /\ WithAmount(WithAmount(m.orders, Decimal), BigInt) = m.orders
        /\ WithAmount(WithAmount(m.receipts, Decimal), BigInt) = m.receipts
    BY <2>2, <2>3, AmountReadBack
  <2>6. QED
    BY <1>3, <2>4, <2>5
<1>6. WithAmounts(e, BigInt) = [profiles |-> e.profiles, gigs |-> m.gigs, proposals |-> e.proposals,
                                orders |-> m.orders, receipts |-> m.receipts, feed |-> e.feed]
  BY <1>4, <1>5, AmountsOfRecords
<1>7. WithAmounts(e, BigInt) = MarketRecord(m)
  BY <1>3, <1>6 DEF MarketRecord
<1>8. QED
  BY <1>1, <1>2, <1>4, <1>7 DEF Decoded

LEMMA BackupsReadBack ==
    ASSUME NEW m, MarketShape(m)
    PROVE  DecodeMarketplace(EncodeMarketplace(m)) = m /\ m # Refused
<1>1. m # Refused
  BY DEF MarketShape, MarketRecord, Refused
<1>2. Positive(m)
  BY LocalAssumption DEF Positive, MarketShape
<1>3. QED
  BY <1>1, <1>2, RecordsReadBack DEF DecodeMarketplace

-----------------------------------------------------------------------------
(* What an operation on a marketplace keeps, when it makes a record of a    *)
(* kind: later is the count of the records then.                            *)

Counted(count, kind, later) ==
    /\ count \in [RecordKinds -> Nat] /\ later \in [RecordKinds -> Nat]
    /\ later[kind] = count[kind] + 1
    /\ \A k \in RecordKinds : count[k] <= later[k]

LEMMA FieldsOfRecords ==
    ASSUME NEW m, m = MarketRecord(m), NEW S
    PROVE  /\ [m EXCEPT !.profiles = S] =
                [profiles |-> S, gigs |-> m.gigs, proposals |-> m.proposals,
                 orders |-> m.orders, receipts |-> m.receipts, feed |-> m.feed]
           /\ [m EXCEPT !.gigs = S] =
                [profiles |-> m.profiles, gigs |-> S, proposals |-> m.proposals,
                 orders |-> m.orders, receipts |-> m.receipts, feed |-> m.feed]
           /\ [m EXCEPT !.proposals = S] =
                [profiles |-> m.profiles, gigs |-> m.gigs, proposals |-> S,
                 orders |-> m.orders, receipts |-> m.receipts, feed |-> m.feed]
           /\ [m EXCEPT !.orders = S] =
                [profiles |-> m.profiles, gigs |-> m.gigs, proposals |-> m.proposals,
                 orders |-> S, receipts |-> m.receipts, feed |-> m.feed]
           /\ [m EXCEPT !.receipts = S] =
                [profiles |-> m.profiles, gigs |-> m.gigs, proposals |-> m.proposals,
                 orders |-> m.orders, receipts |-> S, feed |-> m.feed]
           /\ [m EXCEPT !.feed = S] =
                [profiles |-> m.profiles, gigs |-> m.gigs, proposals |-> m.proposals,
                 orders |-> m.orders, receipts |-> m.receipts, feed |-> S]
<1>1. PICK p, g, q, o, r, d : m = [profiles |-> p, gigs |-> g, proposals |-> q,
                                   orders |-> o, receipts |-> r, feed |-> d]
  BY Zenon DEF MarketRecord
<1>2. /\ m.profiles = p /\ m.gigs = g /\ m.proposals = q
      /\ m.orders = o /\ m.receipts = r /\ m.feed = d
  BY <1>1
<1>3. [m EXCEPT !.profiles = S] = [profiles |-> S, gigs |-> g, proposals |-> q,
                                   orders |-> o, receipts |-> r, feed |-> d]
  BY <1>1
<1>4. [m EXCEPT !.gigs = S] = [profiles |-> p, gigs |-> S, proposals |-> q,
                               orders |-> o, receipts |-> r, feed |-> d]
  BY <1>1
<1>5. [m EXCEPT !.proposals = S] = [profiles |-> p, gigs |-> g, proposals |-> S,
                                    orders |-> o, receipts |-> r, feed |-> d]
  BY <1>1
<1>6. [m EXCEPT !.orders = S] = [profiles |-> p, gigs |-> g, proposals |-> q,
                                 orders |-> S, receipts |-> r, feed |-> d]
  BY <1>1
<1>7. [m EXCEPT !.receipts = S] = [profiles |-> p, gigs |-> g, proposals |-> q,
                                   orders |-> o, receipts |-> S, feed |-> d]
  BY <1>1
<1>8. [m EXCEPT !.feed = S] = [profiles |-> p, gigs |-> g, proposals |-> q,
                               orders |-> o, receipts |-> r, feed |-> S]
  BY <1>1
<1>9. QED
  BY <1>2, <1>3, <1>4, <1>5, <1>6, <1>7, <1>8

LEMMA EmptyMarket ==
    ASSUME NEW count \in [RecordKinds -> Nat]
    PROVE  MarketInv(EmptyMarketplace, count)
<1>1. MarketShape(EmptyMarketplace)
  BY FS_EmptySet DEF MarketShape, MarketRecord, EmptyMarketplace
<1>2. MadeIds(EmptyMarketplace, count)
  BY DEF MadeIds, EmptyMarketplace
<1>3. QED
  BY <1>1, <1>2 DEF MarketInv, GigsAgree, ProposalsAgree, OrdersAgree, ReceiptsAgree, EmptyMarketplace

LEMMA MoreMade ==
    ASSUME NEW count, NEW kind, NEW later, Counted(count, kind, later),
           NEW m, MarketInv(m, count)
    PROVE  MarketInv(m, later)
<1>1. \A n \in Nat, k \in RecordKinds : n <= count[k] => n <= later[k]
  BY DEF Counted
<1>2. {"gigs", "proposals", "orders", "receipts"} \subseteq RecordKinds
  BY DEF RecordKinds
<1>3. MadeIds(m, later)
  <2>1. \A g \in m.gigs : g.id <= later["gigs"]
    BY <1>1, <1>2 DEF MarketInv, MadeIds, MarketShape
  <2>2. \A p \in m.proposals : p.id <= later["proposals"]
    BY <1>1, <1>2 DEF MarketInv, MadeIds, MarketShape
  <2>3. \A o \in m.orders : o.id <= later["orders"] /\ o.receipt <= later["receipts"]
    BY <1>1, <1>2 DEF MarketInv, MadeIds, MarketShape
  <2>4. \A r \in m.receipts : r.id <= later["receipts"] /\ r.order <= later["orders"]
    BY <1>1, <1>2 DEF MarketInv, MadeIds, MarketShape
  <2>5. QED
    BY <2>1, <2>2, <2>3, <2>4 DEF MadeIds
<1>4. QED
  BY <1>3 DEF MarketInv

LEMMA ProfileMade ==
    ASSUME NEW count, NEW later, Counted(count, "profiles", later), NEW m, MarketInv(m, count),
           NEW next \in UpsertProfile(m, count["profiles"] + 1)
    PROVE  MarketInv(next, later)
<1>1. next = [profiles |-> m.profiles \cup {count["profiles"] + 1}, gigs |-> m.gigs,
              proposals |-> m.proposals, orders |-> m.orders, receipts |-> m.receipts, feed |-> m.feed]
  BY FieldsOfRecords DEF UpsertProfile, MarketInv, MarketShape
<1>2. /\ next.profiles = m.profiles \cup {count["profiles"] + 1} /\ next.gigs = m.gigs
      /\ next.proposals = m.proposals /\ next.orders = m.orders /\ next.receipts = m.receipts
      /\ next = MarketRecord(next)
  BY <1>1 DEF MarketRecord
<1>3. count["profiles"] + 1 \in Nat
  BY DEF Counted, RecordKinds
<1>4. MarketInv(m, later)
  BY MoreMade
<1>5. MarketShape(next) /\ MadeIds(next, later)
  BY <1>2, <1>3, <1>4 DEF MarketInv, MarketShape, MadeIds
<1>6. GigsAgree(next) /\ ProposalsAgree(next)
  BY <1>2, <1>4 DEF MarketInv, GigsAgree, ProposalsAgree
<1>7. OrdersAgree(next) /\ ReceiptsAgree(next)
  BY <1>2, <1>4 DEF MarketInv, OrdersAgree, ReceiptsAgree
<1>8. QED
  BY <1>5, <1>6, <1>7 DEF MarketInv

LEMMA FeedPostMade ==
    ASSUME NEW count, NEW later, Counted(count, "feed", later), NEW m, MarketInv(m, count),
           NEW id, NEW next \in AppendFeedPost(m, id)
    PROVE  MarketInv(next, later)
<1>1. PICK S : next = [m EXCEPT !.feed = S]
  BY DEF AppendFeedPost
<1>2. next = [profiles |-> m.profiles, gigs |-> m.gigs, proposals |-> m.proposals,
              orders |-> m.orders, receipts |-> m.receipts, feed |-> S]
  BY <1>1, FieldsOfRecords DEF MarketInv, MarketShape
<1>3. /\ next.profiles = m.profiles /\ next.gigs = m.gigs /\ next.proposals = m.proposals
      /\ next.orders = m.orders /\ next.receipts = m.receipts /\ next = MarketRecord(next)
  BY <1>2 DEF MarketRecord
<1>4. MarketInv(m, later)
  BY MoreMade
<1>5. MarketShape(next) /\ MadeIds(next, later)
  BY <1>3, <1>4 DEF MarketInv, MarketShape, MadeIds
<1>6. GigsAgree(next) /\ ProposalsAgree(next) /\ OrdersAgree(next) /\ ReceiptsAgree(next)
  BY <1>3, <1>4 DEF MarketInv, GigsAgree, ProposalsAgree, OrdersAgree, ReceiptsAgree
<1>7. QED
  BY <1>5, <1>6 DEF MarketInv

LEMMA GigMade ==
    ASSUME NEW count, NEW later, Counted(count, "gigs", later), NEW m, MarketInv(m, count),
           NEW next \in CreateGig(m, count["gigs"] + 1)
    PROVE  MarketInv(next, later)
<1>1. PICK c \in m.profiles, price \in Prices \ {0} :
        next = [m EXCEPT !.gigs = @ \cup {[id |-> count["gigs"] + 1, creator |-> c, price |-> price]}]
  BY DEF CreateGig
<1>2. PICK g : g = [id |-> count["gigs"] + 1, creator |-> c, price |-> price]
  OBVIOUS
<1>3. next = [profiles |-> m.profiles, gigs |-> m.gigs \cup {g}, proposals |-> m.proposals,
              orders |-> m.orders, receipts |-> m.receipts, feed |-> m.feed]
  BY <1>1, <1>2, FieldsOfRecords DEF MarketInv, MarketShape
<1>4. /\ next.profiles = m.profiles /\ next.gigs = m.gigs \cup {g}
      /\ next.proposals = m.proposals /\ next.orders = m.orders /\ next.receipts = m.receipts
      /\ next = MarketRecord(next)
  BY <1>3 DEF MarketRecord
<1>5. /\ g \in [id: Nat, creator: Nat, price: Prices \ {0}]
      /\ g.id = later["gigs"] /\ g.creator \in m.profiles
      /\ \A h \in m.gigs : h.id # g.id
  BY <1>1, <1>2 DEF Counted, RecordKinds, MarketInv, MarketShape, MadeIds
<1>6. MarketInv(m, later)
  BY MoreMade
<1>7. MarketShape(next)
  BY <1>4, <1>5, <1>6 DEF MarketInv, MarketShape
<1>8. MadeIds(next, later)
  BY <1>4, <1>5, <1>6 DEF MarketInv, MadeIds, Counted, RecordKinds
<1>9. GigsAgree(next)
  BY <1>4, <1>5, <1>6 DEF MarketInv, GigsAgree
<1>10. ProposalsAgree(next)
  BY <1>4, <1>6 DEF MarketInv, ProposalsAgree
<1>11. OrdersAgree(next) /\ ReceiptsAgree(next)
  BY <1>4, <1>6 DEF MarketInv, OrdersAgree, ReceiptsAgree
<1>12. QED
  BY <1>7, <1>8, <1>9, <1>10, <1>11 DEF MarketInv

LEMMA ProposalMade ==
    ASSUME NEW count, NEW later, Counted(count, "proposals", later), NEW m, MarketInv(m, count),
           NEW next \in SubmitProposal(m, count["proposals"] + 1)
    PROVE  MarketInv(next, later)
<1>1. PICK g \in m.gigs, b \in m.profiles :
        /\ b # g.creator
        /\ next = [m EXCEPT !.proposals = @ \cup {[id |-> count["proposals"] + 1, gig |-> g.id,
                                                   buyer |-> b, status |-> "pending"]}]
  BY Zenon DEF SubmitProposal
<1>2. PICK p : p = [id |-> count["proposals"] + 1, gig |-> g.id, buyer |-> b, status |-> "pending"]
  OBVIOUS
<1>3. next = [profiles |-> m.profiles, gigs |-> m.gigs, proposals |-> m.proposals \cup {p},
              orders |-> m.orders, receipts |-> m.receipts, feed |-> m.feed]
  BY <1>1, <1>2, FieldsOfRecords DEF MarketInv, MarketShape
<1>4. /\ next.profiles = m.profiles /\ next.gigs = m.gigs
      /\ next.proposals = m.proposals \cup {p} /\ next.orders = m.orders
      /\ next.receipts = m.receipts /\ next = MarketRecord(next)
  BY <1>3 DEF MarketRecord
<1>5. /\ p \in [id: Nat, gig: Nat, buyer: Nat, status: {"pending", "accepted"}]
      /\ p.id = later["proposals"] /\ p.buyer \in m.profiles /\ p.status = "pending"
      /\ p.gig = g.id /\ g.creator # p.buyer
      /\ \A q \in m.proposals : q.id # p.id
  BY <1>1, <1>2 DEF Counted, RecordKinds, MarketInv, MarketShape, MadeIds
<1>6. MarketInv(m, later)
  BY MoreMade
<1>7. MarketShape(next)
  BY <1>4, <1>5, <1>6 DEF MarketInv, MarketShape
<1>8. MadeIds(next, later)
  BY <1>4, <1>5, <1>6 DEF MarketInv, MadeIds, Counted, RecordKinds
<1>9. GigsAgree(next)
  BY <1>4, <1>6 DEF MarketInv, GigsAgree
<1>10. ProposalsAgree(next)
  BY <1>1, <1>4, <1>5, <1>6 DEF MarketInv, ProposalsAgree
<1>11. OrdersAgree(next) /\ ReceiptsAgree(next)
  BY <1>4, <1>6 DEF MarketInv, OrdersAgree, ReceiptsAgree
<1>12. QED
  BY <1>7, <1>8, <1>9, <1>10, <1>11 DEF MarketInv

LEMMA ProposalAccepted ==
    ASSUME NEW count, NEW later, Counted(count, "orders", later), NEW m, MarketInv(m, count),
           NEW next \in AcceptProposal(m, count["orders"] + 1)
    PROVE  MarketInv(next, later)
<1>1. PICK p \in m.proposals :
        /\ p.status = "pending"
        /\ next = [m EXCEPT !.proposals = (@ \ {p}) \cup {[p EXCEPT !.status = "accepted"]},
                            !.orders = @ \cup {Order(m, p, count["orders"] + 1)}]
  BY Zenon DEF AcceptProposal
<1>2. PICK q, o : q = [p EXCEPT !.status = "accepted"] /\ o = Order(m, p, count["orders"] + 1)
  OBVIOUS
<1>3. next = [profiles |-> m.profiles, gigs |-> m.gigs, proposals |-> (m.proposals \ {p}) \cup {q},
              orders |-> m.orders \cup {o}, receipts |-> m.receipts, feed |-> m.feed]
  <2>1. PICK x : x = [m EXCEPT !.proposals = (m.proposals \ {p}) \cup {q}]
    OBVIOUS
  <2>2. x = [profiles |-> m.profiles, gigs |-> m.gigs, proposals |-> (m.proposals \ {p}) \cup {q},
             orders |-> m.orders, receipts |-> m.receipts, feed |-> m.feed]
    BY <2>1, FieldsOfRecords DEF MarketInv, MarketShape
  <2>3. x = MarketRecord(x) /\ x.orders = m.orders
    BY <2>2 DEF MarketRecord
  <2>4. next = [x EXCEPT !.orders = m.orders \cup {o}]
    BY <1>1, <1>2, <2>1
  <2>5. next = [profiles |-> x.profiles, gigs |-> x.gigs, proposals |-> x.proposals,
                orders |-> m.orders \cup {o}, receipts |-> x.receipts, feed |-> x.feed]
    BY <2>3, <2>4, FieldsOfRecords
  <2>6. QED
    BY <2>2, <2>5
<1>4. /\ next.profiles = m.profiles /\ next.gigs = m.gigs
      /\ next.proposals = (m.proposals \ {p}) \cup {q} /\ next.orders = m.orders \cup {o}
      /\ next.receipts = m.receipts /\ next = MarketRecord(next)
  BY <1>3 DEF MarketRecord
<1>5. /\ q \in [id: Nat, gig: Nat, buyer: Nat, status: {"pending", "accepted"}]
      /\ q.id = p.id /\ q.gig = p.gig /\ q.buyer = p.buyer /\ q.status = "accepted"
  BY <1>2 DEF MarketInv, MarketShape
<1>6. PICK g \in m.gigs : g.id = p.gig /\ g.creator # p.buyer
  BY DEF MarketInv, ProposalsAgree
<1>7. g = CHOOSE h \in m.gigs : h.id = p.gig
  BY <1>6 DEF MarketInv, GigsAgree
<1>8. o = [id |-> count["orders"] + 1, proposal |-> p.id, gig |-> g.id, buyer |-> p.buyer,
           creator |-> g.creator, amount |-> g.price, status |-> "awaiting_payment", receipt |-> 0]
  BY <1>2, <1>7 DEF Order
<1>9. /\ o \in [id: Nat, proposal: Nat, gig: Nat, buyer: Nat, creator: Nat,
                amount: Prices \ {0}, status: Status, receipt: Nat]
      /\ o.id = later["orders"] /\ o.receipt = 0 /\ o.proposal = p.id
      /\ o.gig = p.gig /\ o.buyer = p.buyer /\ o.status = "awaiting_payment"
      /\ o.creator = g.creator
  BY <1>6, <1>8 DEF Counted, RecordKinds, MarketInv, MarketShape, Status, Kinds
<1>10. \A x \in m.orders : x.id # o.id /\ x.proposal # p.id
  <2>1. \A x \in m.orders : x.id # o.id
    BY <1>9 DEF Counted, RecordKinds, MarketInv, MarketShape, MadeIds
  <2>2. \A x \in m.orders : x.proposal # p.id
    BY <1>1 DEF MarketInv, OrdersAgree, ProposalsAgree
  <2>3. QED
    BY <2>1, <2>2
<1>11. \A r \in m.receipts : r.order # o.id
  BY <1>9 DEF Counted, RecordKinds, MarketInv, MarketShape, MadeIds
<1>12. MarketInv(m, later)
  BY MoreMade
<1>13. MarketShape(next)
  <2>1. IsFiniteSet(m.orders \cup {o})
    BY <1>12, FS_AddElement DEF MarketInv, MarketShape
  <2>2. QED
    BY <1>4, <1>5, <1>9, <1>12, <2>1 DEF MarketInv, MarketShape
<1>14. MadeIds(next, later)
  <2>1. 0 <= later["receipts"] /\ later["orders"] \in Nat
    BY DEF Counted, RecordKinds
  <2>2. QED
    BY <1>4, <1>5, <1>9, <1>12, <2>1 DEF MarketInv, MadeIds
<1>15. GigsAgree(next)
  BY <1>4, <1>12 DEF MarketInv, GigsAgree
<1>16. ProposalsAgree(next)
  <2>1. \A x, y \in next.proposals : x.id = y.id => x = y
    BY <1>4, <1>5 DEF MarketInv, ProposalsAgree
  <2>2. ASSUME NEW x \in next.proposals
        PROVE  /\ x.buyer \in next.profiles
               /\ \E h \in next.gigs : h.id = x.gig /\ h.creator # x.buyer
               /\ x.status = "accepted" => \E y \in next.orders : y.proposal = x.id
    <3>1. CASE x = q
      BY <1>4, <1>5, <1>6, <1>9, <3>1 DEF MarketInv, ProposalsAgree
    <3>2. CASE x # q
      BY <1>4, <3>2 DEF MarketInv, ProposalsAgree
    <3>3. QED
      BY <3>1, <3>2
  <2>3. QED
    BY <2>1, <2>2 DEF ProposalsAgree
<1>17. OrdersAgree(next)
  <2>1. \A x, y \in next.orders : x.id = y.id \/ x.proposal = y.proposal => x = y
    BY <1>4, <1>9, <1>10 DEF MarketInv, OrdersAgree
  <2>2. ASSUME NEW x \in next.orders
        PROVE  /\ x.creator \in next.profiles /\ x.buyer # x.creator
               /\ \E y \in next.proposals : /\ y.id = x.proposal /\ y.gig = x.gig
                                            /\ y.buyer = x.buyer /\ y.status = "accepted"
    <3>1. CASE x = o
      BY <1>4, <1>5, <1>6, <1>9, <3>1 DEF MarketInv, GigsAgree
    <3>2. CASE x # o
      BY <1>1, <1>4, <3>2 DEF MarketInv, OrdersAgree
    <3>3. QED
      BY <3>1, <3>2
  <2>3. QED
    BY <2>1, <2>2 DEF OrdersAgree
<1>18. ReceiptsAgree(next)
  <2>1. Kinds[o.status] = {}
    BY <1>9 DEF Kinds
  <2>2. QED
    BY <1>4, <1>11, <1>12, <2>1 DEF MarketInv, ReceiptsAgree
<1>19. QED
  BY <1>13, <1>14, <1>15, <1>16, <1>17, <1>18 DEF MarketInv

\* An order goes on to a status whose receipts are those it has and the new one.
LEMMA PaymentRecorded ==
    ASSUME NEW count, NEW later, Counted(count, "receipts", later), NEW m, MarketInv(m, count),
           NEW o \in m.orders, NEW status \in Status, NEW kind \in ReceiptKinds,
           kind \notin Kinds[o.status], Kinds[status] = Kinds[o.status] \cup {kind},
           NEW next, next = Recorded(m, o, status, kind, count["receipts"] + 1)
    PROVE  MarketInv(next, later)
<1>1. PICK q, r : /\ q = [o EXCEPT !.status = status, !.receipt = count["receipts"] + 1]
                  /\ r = [id |-> count["receipts"] + 1, order |-> o.id, kind |-> kind,
                          amount |-> o.amount]
  OBVIOUS
<1>2. next = [profiles |-> m.profiles, gigs |-> m.gigs, proposals |-> m.proposals,
              orders |-> (m.orders \ {o}) \cup {q}, receipts |-> m.receipts \cup {r}, feed |-> m.feed]
  <2>1. PICK x : x = [m EXCEPT !.orders = (m.orders \ {o}) \cup {q}]
    OBVIOUS
  <2>2. x = [profiles |-> m.profiles, gigs |-> m.gigs, proposals |-> m.proposals,
             orders |-> (m.orders \ {o}) \cup {q}, receipts |-> m.receipts, feed |-> m.feed]
    BY <2>1, FieldsOfRecords DEF MarketInv, MarketShape
  <2>3. x = MarketRecord(x) /\ x.receipts = m.receipts
    BY <2>2 DEF MarketRecord
  <2>4. next = [x EXCEPT !.receipts = m.receipts \cup {r}]
    BY <1>1, <2>1 DEF Recorded
  <2>5. next = [profiles |-> x.profiles, gigs |-> x.gigs, proposals |-> x.proposals,
                orders |-> x.orders, receipts |-> m.receipts \cup {r}, feed |-> x.feed]
    BY <2>3, <2>4, FieldsOfRecords
  <2>6. QED
    BY <2>2, <2>5
<1>3. /\ next.profiles = m.profiles /\ next.gigs = m.gigs /\ next.proposals = m.proposals
      /\ next.orders = (m.orders \ {o}) \cup {q} /\ next.receipts = m.receipts \cup {r}
      /\ next = MarketRecord(next)
  BY <1>2 DEF MarketRecord
<1>4. MarketInv(m, later)
  BY MoreMade
<1>5. /\ o \in [id: Nat, proposal: Nat, gig: Nat, buyer: Nat, creator: Nat,
                amount: Prices \ {0}, status: Status, receipt: Nat]
      /\ count["receipts"] \in Nat /\ later["receipts"] = count["receipts"] + 1
  BY <1>4 DEF MarketInv, MarketShape, Counted, RecordKinds
<1>6. /\ q \in [id: Nat, proposal: Nat, gig: Nat, buyer: Nat, creator: Nat,
                amount: Prices \ {0}, status: Status, receipt: Nat]
      /\ q.id = o.id /\ q.proposal = o.proposal /\ q.gig = o.gig /\ q.buyer = o.buyer
      /\ q.creator = o.creator /\ q.amount = o.amount /\ q.status = status
      /\ q.receipt = later["receipts"]
  <2>1. PICK x : x = [o EXCEPT !.status = status]
    OBVIOUS
  <2>2. /\ x \in [id: Nat, proposal: Nat, gig: Nat, buyer: Nat, creator: Nat,
                  amount: Prices \ {0}, status: Status, receipt: Nat]
        /\ x.id = o.id /\ x.proposal = o.proposal /\ x.gig = o.gig /\ x.buyer = o.buyer
        /\ x.creator = o.creator /\ x.amount = o.amount /\ x.status = status
    BY <1>5, <2>1
  <2>3. q = [x EXCEPT !.receipt = later["receipts"]] /\ later["receipts"] \in Nat
    BY <1>1, <1>5, <2>1
  <2>4. QED
    BY <2>2, <2>3
<1>7. /\ r \in [id: Nat, order: Nat, kind: ReceiptKinds, amount: Prices \ {0}]
      /\ r.id = later["receipts"] /\ r.order = o.id /\ r.kind = kind /\ r.amount = o.amount
  BY <1>1, <1>5
<1>8. MarketShape(next)
  <2>1. IsFiniteSet((m.orders \ {o}) \cup {q})
    <3>1. IsFiniteSet(m.orders)
      BY <1>4 DEF MarketInv, MarketShape
    <3>2. IsFiniteSet(m.orders \ {o})
      BY <3>1, FS_Subset
    <3>3. QED
      BY <3>2, FS_AddElement
  <2>2. QED
    BY <1>3, <1>4, <1>6, <1>7, <2>1 DEF MarketInv, MarketShape
<1>9. MadeIds(next, later)
  <2>1. o.id <= later["orders"]
    BY <1>4 DEF MarketInv, MadeIds
  <2>2. later["receipts"] <= later["receipts"]
    BY <1>5
  <2>3. QED
    BY <1>3, <1>4, <1>6, <1>7, <2>1, <2>2 DEF MarketInv, MadeIds
<1>10. GigsAgree(next)
  BY <1>3, <1>4 DEF MarketInv, GigsAgree
<1>11. ProposalsAgree(next)
  <2>1. ASSUME NEW p \in m.proposals, p.status = "accepted"
        PROVE  \E x \in next.orders : x.proposal = p.id
    <3>1. PICK x \in m.orders : x.proposal = p.id
      BY <1>4, <2>1 DEF MarketInv, ProposalsAgree
    <3>2. CASE x = o
      BY <1>3, <1>6, <3>1, <3>2
    <3>3. CASE x # o
      BY <1>3, <3>1, <3>3
    <3>4. QED
      BY <3>2, <3>3
  <2>2. QED
    BY <1>3, <1>4, <2>1 DEF MarketInv, ProposalsAgree
<1>12. OrdersAgree(next)
  <2>1. \A x, y \in next.orders : x.id = y.id \/ x.proposal = y.proposal => x = y
    BY <1>3, <1>4, <1>6 DEF MarketInv, OrdersAgree
  <2>2. ASSUME NEW x \in next.orders
        PROVE  /\ x.creator \in next.profiles /\ x.buyer # x.creator
               /\ \E p \in next.proposals : /\ p.id = x.proposal /\ p.gig = x.gig
                                            /\ p.buyer = x.buyer /\ p.status = "accepted"
    BY <1>3, <1>4, <1>6 DEF MarketInv, OrdersAgree
  <2>3. QED
    BY <2>1, <2>2 DEF OrdersAgree
<1>13. \A x \in m.receipts : x.order = o.id =>
         x.kind \in Kinds[o.status] /\ x.amount = o.amount /\ x.id <= later["receipts"]
  BY <1>4 DEF MarketInv, ReceiptsAgree, MadeIds
<1>14. ReceiptsAgree(next)
  <2>1. \A x, y \in next.receipts : x.order = y.order /\ x.kind = y.kind => x = y
    BY <1>3, <1>4, <1>7, <1>13 DEF MarketInv, ReceiptsAgree
  <2>2. ASSUME NEW x \in next.receipts, x.order = q.id
        PROVE  x.kind \in Kinds[status] /\ x.amount = q.amount /\ x.id <= q.receipt
    <3>1. CASE x = r
      BY <1>5, <1>6, <1>7, <3>1
    <3>2. CASE x # r
      BY <1>3, <1>6, <1>13, <2>2, <3>2
    <3>3. QED
      BY <3>1, <3>2
  <2>3. \A k \in Kinds[status] : \E x \in next.receipts : x.order = q.id /\ x.kind = k
    <3> SUFFICES ASSUME NEW k \in Kinds[status]
                 PROVE  \E x \in next.receipts : x.order = q.id /\ x.kind = k
      OBVIOUS
    <3>1. CASE k = kind
      BY <1>3, <1>6, <1>7, <3>1
    <3>2. CASE k # kind
      <4>1. k \in Kinds[o.status]
        BY <3>2
      <4>2. PICK x \in m.receipts : x.order = o.id /\ x.kind = k
        BY <1>4, <4>1 DEF MarketInv, ReceiptsAgree
      <4>3. QED
        BY <1>3, <1>6, <4>2
    <3>3. QED
      BY <3>1, <3>2
  <2>4. ASSUME NEW y \in m.orders, y # o
        PROVE  /\ \A x \in next.receipts : x.order = y.id =>
                    x.kind \in Kinds[y.status] /\ x.amount = y.amount /\ x.id <= y.receipt
               /\ \A k \in Kinds[y.status] : \E x \in next.receipts : x.order = y.id /\ x.kind = k
    <3>1. r.order # y.id
      BY <1>4, <1>7, <2>4 DEF MarketInv, OrdersAgree
    <3>2. QED
      BY <1>3, <1>4, <3>1 DEF MarketInv, ReceiptsAgree
  <2>5. ASSUME NEW y \in next.orders
        PROVE  /\ \A x \in next.receipts : x.order = y.id =>
                    x.kind \in Kinds[y.status] /\ x.amount = y.amount /\ x.id <= y.receipt
               /\ \A k \in Kinds[y.status] : \E x \in next.receipts : x.order = y.id /\ x.kind = k
    <3>1. CASE y = q
      BY <1>6, <2>2, <2>3, <3>1
    <3>2. CASE y # q
      BY <1>3, <2>4, <3>2
    <3>3. QED
      BY <3>1, <3>2
  <2>6. QED
    BY <2>1, <2>5 DEF ReceiptsAgree
<1>15. QED
  BY <1>8, <1>9, <1>10, <1>11, <1>12, <1>14 DEF MarketInv

LEMMA OrderFunded ==
    ASSUME NEW count, NEW later, Counted(count, "receipts", later), NEW m, MarketInv(m, count),
           NEW next \in FundOrder(m, count["receipts"] + 1)
    PROVE  MarketInv(next, later)
<1>1. PICK o \in m.orders :
        /\ o.status = "awaiting_payment"
        /\ next = Recorded(m, o, "funded", "deposit_reviewed", count["receipts"] + 1)
  BY Zenon DEF FundOrder
<1>2. /\ "funded" \in Status /\ "deposit_reviewed" \in ReceiptKinds
      /\ "deposit_reviewed" \notin Kinds["awaiting_payment"]
      /\ Kinds["funded"] = Kinds["awaiting_payment"] \cup {"deposit_reviewed"}
  BY DEF Status, Kinds, ReceiptKinds
<1>3. QED
  BY <1>1, <1>2, PaymentRecorded

LEMMA OrderSettled ==
    ASSUME NEW count, NEW later, Counted(count, "receipts", later), NEW m, MarketInv(m, count),
           NEW next \in SettleOrder(m, count["receipts"] + 1)
    PROVE  MarketInv(next, later)
<1>1. PICK o \in m.orders :
        /\ o.status = "delivered"
        /\ \/ next = Recorded(m, o, "settled", "seller_claim", count["receipts"] + 1)
           \/ next = Recorded(m, o, "refunded", "refund", count["receipts"] + 1)
  BY Zenon DEF SettleOrder
<1>2. /\ "settled" \in Status /\ "refunded" \in Status
      /\ "seller_claim" \in ReceiptKinds /\ "refund" \in ReceiptKinds
      /\ "seller_claim" \notin Kinds["delivered"] /\ "refund" \notin Kinds["delivered"]
      /\ Kinds["settled"] = Kinds["delivered"] \cup {"seller_claim"}
      /\ Kinds["refunded"] = Kinds["delivered"] \cup {"refund"}
  BY DEF Status, Kinds, ReceiptKinds
<1>3. QED
  BY <1>1, <1>2, PaymentRecorded

LEMMA OrderDelivered ==
    ASSUME NEW count, NEW m, MarketInv(m, count), NEW next \in RecordDelivery(m)
    PROVE  MarketInv(next, count)
<1>1. PICK o \in m.orders :
        /\ o.status = "funded"
        /\ next = [m EXCEPT !.orders = (@ \ {o}) \cup {[o EXCEPT !.status = "delivered"]}]
  BY Zenon DEF RecordDelivery
<1>2. PICK q : q = [o EXCEPT !.status = "delivered"]
  OBVIOUS
<1>3. next = [profiles |-> m.profiles, gigs |-> m.gigs, proposals |-> m.proposals,
              orders |-> (m.orders \ {o}) \cup {q}, receipts |-> m.receipts, feed |-> m.feed]
  BY <1>1, <1>2, FieldsOfRecords DEF MarketInv, MarketShape
<1>4. /\ next.profiles = m.profiles /\ next.gigs = m.gigs /\ next.proposals = m.proposals
      /\ next.orders = (m.orders \ {o}) \cup {q} /\ next.receipts = m.receipts
      /\ next = MarketRecord(next)
  BY <1>3 DEF MarketRecord
<1>5. /\ q \in [id: Nat, proposal: Nat, gig: Nat, buyer: Nat, creator: Nat,
                amount: Prices \ {0}, status: Status, receipt: Nat]
      /\ q.id = o.id /\ q.proposal = o.proposal /\ q.gig = o.gig /\ q.buyer = o.buyer
      /\ q.creator = o.creator /\ q.amount = o.amount /\ q.receipt = o.receipt
      /\ q.status \in Status /\ Kinds[q.status] = Kinds[o.status]
  BY <1>1, <1>2 DEF MarketInv, MarketShape, Status, Kinds
<1>6. MarketShape(next)
  <2>1. IsFiniteSet((m.orders \ {o}) \cup {q})
    <3>1. IsFiniteSet(m.orders)
      BY DEF MarketInv, MarketShape
    <3>2. IsFiniteSet(m.orders \ {o})
      BY <3>1, FS_Subset
    <3>3. QED
      BY <3>2, FS_AddElement
  <2>2. QED
    BY <1>4, <1>5, <2>1 DEF MarketInv, MarketShape
<1>7. MadeIds(next, count)
  BY <1>4, <1>5 DEF MarketInv, MadeIds
<1>8. GigsAgree(next)
  BY <1>4 DEF MarketInv, GigsAgree
<1>9. ProposalsAgree(next)
  <2>1. \A x \in m.orders : \E y \in next.orders : y.proposal = x.proposal
    BY <1>4, <1>5
  <2>2. QED
    BY <1>4, <2>1 DEF MarketInv, ProposalsAgree
<1>10. OrdersAgree(next)
  <2>1. \A x, y \in next.orders : x.id = y.id \/ x.proposal = y.proposal => x = y
    BY <1>4, <1>5 DEF MarketInv, OrdersAgree
  <2>2. ASSUME NEW x \in next.orders
        PROVE  /\ x.creator \in next.profiles /\ x.buyer # x.creator
               /\ \E p \in next.proposals : /\ p.id = x.proposal /\ p.gig = x.gig
                                            /\ p.buyer = x.buyer /\ p.status = "accepted"
    BY <1>4, <1>5 DEF MarketInv, OrdersAgree
  <2>3. QED
    BY <2>1, <2>2 DEF OrdersAgree
<1>11. ReceiptsAgree(next)
  <2>1. ASSUME NEW y \in next.orders
        PROVE  /\ \A x \in next.receipts : x.order = y.id =>
                    x.kind \in Kinds[y.status] /\ x.amount = y.amount /\ x.id <= y.receipt
               /\ \A k \in Kinds[y.status] : \E x \in next.receipts : x.order = y.id /\ x.kind = k
    <3>1. PICK z \in m.orders : /\ z.id = y.id /\ z.amount = y.amount /\ z.receipt = y.receipt
                                /\ Kinds[z.status] = Kinds[y.status]
      BY <1>4, <1>5
    <3>2. QED
      BY <1>4, <3>1 DEF MarketInv, ReceiptsAgree
  <2>2. QED
    BY <1>4, <2>1 DEF MarketInv, ReceiptsAgree
<1>12. QED
  BY <1>6, <1>7, <1>8, <1>9, <1>10, <1>11 DEF MarketInv

LEMMA PlansKept ==
    ASSUME NEW plans, PlansInv(plans)
    PROVE  /\ \A id \in Nat : PlansInv(StartSubscription(plans, id))
           /\ \A next \in Prepay(plans) : PlansInv(next)
           /\ \A next \in CancelPlan(plans) : PlansInv(next)
           /\ \A next \in ClaimCreatorPeriod(plans) : PlansInv(next)
<1>1. ASSUME NEW id \in Nat
      PROVE  PlansInv(StartSubscription(plans, id))
  BY LocalAssumption DEF PlansInv, StartSubscription
<1>2. ASSUME NEW next \in Prepay(plans)
      PROVE  PlansInv(next)
  <2>1. PICK s \in plans : s.prepaid < MaxPrepaidPeriods
                           /\ next = Changed(plans, s, [s EXCEPT !.prepaid = @ + 1])
    BY Zenon DEF Prepay
  <2>2. QED
    BY <2>1, LocalAssumption DEF PlansInv, Changed
<1>3. ASSUME NEW next \in CancelPlan(plans)
      PROVE  PlansInv(next)
  <2>1. PICK s \in plans : next = Changed(plans, s, [s EXCEPT !.state = "cancelled"])
    BY Zenon DEF CancelPlan
  <2>2. QED
    BY <2>1 DEF PlansInv, Changed
<1>4. ASSUME NEW next \in ClaimCreatorPeriod(plans)
      PROVE  PlansInv(next)
  <2>1. PICK s \in plans : s.prepaid > s.claimed
                           /\ next = Changed(plans, s, [s EXCEPT !.claimed = @ + 1])
    BY Zenon DEF ClaimCreatorPeriod
  <2>2. QED
    BY <2>1, LocalAssumption DEF PlansInv, Changed
<1>5. QED
  BY <1>1, <1>2, <1>3, <1>4

\* A good copy is written as a good entry, which reads as the copy.
LEMMA GoodEntry ==
    ASSUME NEW m, NEW count, MarketInv(m, count)
    PROVE  EntryInv(EncodeMarketplace(m), count) /\ Decoded(EncodeMarketplace(m)) = m
BY RecordsReadBack DEF EntryInv, MarketInv

LEMMA GoodDecoded ==
    ASSUME NEW count \in [RecordKinds -> Nat], NEW entry, EntryInv(entry, count)
    PROVE  MarketInv(Decoded(entry), count)
BY EmptyMarket DEF EntryInv, Decoded

\* The marketplace of an entry that is there is what a backup of it restores.
LEMMA GoodBackup ==
    ASSUME NEW count, NEW entry, EntryInv(entry, count), entry # Absent
    PROVE  DecodeMarketplace(entry) = Decoded(entry) /\ Decoded(entry) # Refused
<1>1. PICK m : m = Decoded(entry)
  OBVIOUS
<1>2. MarketShape(m) /\ entry = EncodeMarketplace(m)
  BY <1>1 DEF EntryInv, MarketInv
<1>3. QED
  BY <1>1, <1>2, BackupsReadBack

LEMMA GoodFile ==
    ASSUME NEW count, NEW f, FileInv(f, count)
    PROVE  ParseLocalWorkspaceBackup(f)
             = [market |-> Decoded(f.marketplace), plans |-> f.subscriptions]
<1>1. PICK entry : entry = f.marketplace
  OBVIOUS
<1>2. DecodeMarketplace(entry) = Decoded(entry) /\ Decoded(entry) # Refused
  BY <1>1, GoodBackup DEF FileInv
<1>3. QED
  BY <1>1, <1>2 DEF ParseLocalWorkspaceBackup, FileInv

\* What is good stays good when more was made.
LEMMA GoodLater ==
    ASSUME NEW count, NEW kind, NEW later, Counted(count, kind, later)
    PROVE  /\ \A m : MarketInv(m, count) => MarketInv(m, later)
           /\ \A entry : EntryInv(entry, count) => EntryInv(entry, later)
           /\ \A copy : CopyInv(copy, count) => CopyInv(copy, later)
           /\ \A f : FileInv(f, count) => FileInv(f, later)
<1>1. \A m : MarketInv(m, count) => MarketInv(m, later)
  BY MoreMade
<1>2. \A entry : EntryInv(entry, count) => EntryInv(entry, later)
  BY <1>1 DEF EntryInv
<1>3. \A copy : CopyInv(copy, count) => CopyInv(copy, later)
  BY <1>1 DEF CopyInv
<1>4. \A f : FileInv(f, count) => FileInv(f, later)
  BY <1>2 DEF FileInv
<1>5. QED
  BY <1>1, <1>2, <1>3, <1>4

LEMMA LocalStart == LocalInit => LocalInv
<1> SUFFICES ASSUME LocalInit
             PROVE  LocalInv
  OBVIOUS
<1>1. DOMAIN MaxMade = RecordKinds
  BY LocalAssumption DEF RecordKinds
<1>2. made \in [RecordKinds -> Nat]
  BY <1>1 DEF LocalInit
<1>3. DOMAIN tabs = Tabs /\ \A t \in Tabs : CopyInv(tabs[t], made)
  BY DEF LocalInit, CopyInv
<1>4. DOMAIN local = {"market", "plans"} /\ EntryInv(local.market, made) /\ PlansInv(local.plans)
  BY DEF LocalInit, Removed, EntryInv, PlansInv
<1>5. QED
  BY <1>2, <1>3, <1>4 DEF LocalInv, LocalInit

\* A page writes its copy of the marketplace, or of the plans.
LEMMA MarketWritten ==
    ASSUME LocalInv, NEW t \in Tabs, tabs[t] # Loading,
           NEW next, MarketInv(next, made'),
           tabs' = [tabs EXCEPT ![t].market = next],
           local' = [local EXCEPT !.market = EncodeMarketplace(next)],
           files' = files, made' = made \/ \E kind : Counted(made, kind, made')
    PROVE  LocalInv'
<1>1. PICK c, d : c = made /\ d = made'
  OBVIOUS
<1>2. /\ \A copy : CopyInv(copy, c) => CopyInv(copy, d)
      /\ \A f : FileInv(f, c) => FileInv(f, d)
      /\ d \in [RecordKinds -> Nat]
  <2>1. CASE d = c
    BY <1>1, <2>1 DEF LocalInv
  <2>2. CASE d # c
    <3>1. PICK kind : Counted(c, kind, d)
      BY <1>1, <2>2
    <3>2. QED
      BY <3>1, GoodLater DEF Counted
  <2>3. QED
    BY <2>1, <2>2
<1>3. PICK copy : copy = tabs[t]
  OBVIOUS
<1>4. PICK x : x = [copy EXCEPT !.market = next]
  OBVIOUS
<1>5. CopyInv(x, d)
  <2>1. DOMAIN copy = {"market", "plans"} /\ PlansInv(copy.plans)
    BY <1>1, <1>3 DEF LocalInv, CopyInv
  <2>2. DOMAIN x = {"market", "plans"} /\ x.market = next /\ x.plans = copy.plans
    BY <1>4, <2>1
  <2>3. QED
    BY <1>1, <2>1, <2>2 DEF CopyInv
<1>6. tabs' = [tabs EXCEPT ![t] = x]
  BY <1>3, <1>4
<1>7. DOMAIN tabs' = Tabs /\ \A u \in Tabs : CopyInv(tabs'[u], d)
  <2>1. DOMAIN tabs = Tabs /\ \A u \in Tabs : CopyInv(tabs[u], d)
    BY <1>1, <1>2 DEF LocalInv
  <2>2. QED
    BY <1>5, <1>6, <2>1
<1>8. PICK e : e = EncodeMarketplace(next)
  OBVIOUS
<1>9. EntryInv(e, d)
  BY <1>1, <1>8, GoodEntry
<1>10. DOMAIN local' = {"market", "plans"} /\ local'.market = e /\ local'.plans = local.plans
  BY <1>8 DEF LocalInv
<1>11. PlansInv(local'.plans) /\ \A f \in files' : FileInv(f, d)
  BY <1>1, <1>2, <1>10 DEF LocalInv
<1>12. QED
  BY <1>1, <1>2, <1>7, <1>9, <1>10, <1>11 DEF LocalInv

LEMMA PlansWritten ==
    ASSUME LocalInv, NEW t \in Tabs, tabs[t] # Loading,
           NEW next, PlansInv(next), Planned(t, next),
           made' = made \/ \E kind : Counted(made, kind, made')
    PROVE  LocalInv'
<1>1. PICK c, d : c = made /\ d = made'
  OBVIOUS
<1>2. /\ \A copy : CopyInv(copy, c) => CopyInv(copy, d)
      /\ \A entry : EntryInv(entry, c) => EntryInv(entry, d)
      /\ \A f : FileInv(f, c) => FileInv(f, d)
      /\ d \in [RecordKinds -> Nat]
  <2>1. CASE d = c
    BY <1>1, <2>1 DEF LocalInv
  <2>2. CASE d # c
    <3>1. PICK kind : Counted(c, kind, d)
      BY <1>1, <2>2
    <3>2. QED
      BY <3>1, GoodLater DEF Counted
  <2>3. QED
    BY <2>1, <2>2
<1>3. PICK copy : copy = tabs[t]
  OBVIOUS
<1>4. PICK x : x = [copy EXCEPT !.plans = next]
  OBVIOUS
<1>5. CopyInv(x, d)
  <2>1. CopyInv(copy, d) /\ copy # Loading
    BY <1>1, <1>2, <1>3 DEF LocalInv
  <2>2. DOMAIN x = {"market", "plans"} /\ x.plans = next /\ x.market = copy.market
    BY <1>4, <2>1 DEF CopyInv
  <2>3. QED
    BY <2>1, <2>2 DEF CopyInv
<1>6. tabs' = [tabs EXCEPT ![t] = x]
  BY <1>3, <1>4 DEF Planned
<1>7. DOMAIN tabs' = Tabs /\ \A u \in Tabs : CopyInv(tabs'[u], d)
  <2>1. DOMAIN tabs = Tabs /\ \A u \in Tabs : CopyInv(tabs[u], d)
    BY <1>1, <1>2 DEF LocalInv
  <2>2. QED
    BY <1>5, <1>6, <2>1
<1>8. DOMAIN local' = {"market", "plans"} /\ local'.market = local.market /\ local'.plans = next
  BY DEF LocalInv, Planned
<1>9. EntryInv(local'.market, d)
  BY <1>1, <1>2, <1>8 DEF LocalInv
<1>10. \A f \in files' : FileInv(f, d)
  BY <1>1, <1>2 DEF LocalInv, Planned
<1>11. QED
  BY <1>1, <1>2, <1>7, <1>8, <1>9, <1>10 DEF LocalInv

\* A record of a kind is made, whatever the page then writes.
LEMMA OneMore ==
    ASSUME LocalInv, NEW kind \in RecordKinds, made' = [made EXCEPT ![kind] = @ + 1]
    PROVE  Counted(made, kind, made')
<1>1. PICK c, d : c = made /\ d = made'
  OBVIOUS
<1>2. c \in [RecordKinds -> Nat] /\ d = [c EXCEPT ![kind] = @ + 1]
  BY <1>1 DEF LocalInv
<1>3. /\ d \in [RecordKinds -> Nat] /\ d[kind] = c[kind] + 1
      /\ \A k \in RecordKinds : c[k] <= d[k]
  BY <1>2
<1>4. QED
  BY <1>1, <1>2, <1>3 DEF Counted

LEMMA MarketActed ==
    ASSUME LocalInv, NEW t \in Tabs, NEW kind \in RecordKinds, NEW results,
           ActOnMarket(t, kind, results),
           \A next \in results : Counted(made, kind, made') => MarketInv(next, made')
    PROVE  LocalInv'
<1>1. Counted(made, kind, made')
  BY OneMore DEF ActOnMarket
<1>2. PICK next \in results :
        /\ tabs' = [tabs EXCEPT ![t].market = next]
        /\ local' = [local EXCEPT !.market = EncodeMarketplace(next)]
  BY Zenon DEF ActOnMarket
<1>3. MarketInv(next, made')
  BY <1>1
<1>4. tabs[t] # Loading /\ files' = files
  BY DEF ActOnMarket
<1>5. QED
  BY <1>1, <1>2, <1>3, <1>4, MarketWritten

LEMMA PageLoaded ==
    ASSUME LocalInv, NEW t \in Tabs, Load(t)
    PROVE  LocalInv'
<1>1. PICK c, entry, plans : c = made /\ entry = local.market /\ plans = local.plans
  OBVIOUS
<1>2. PICK m : m = Decoded(entry)
  OBVIOUS
<1>3. MarketInv(m, c) /\ PlansInv(plans) /\ c \in [RecordKinds -> Nat]
  BY <1>1, <1>2, GoodDecoded DEF LocalInv
<1>4. PICK e : e = EncodeMarketplace(m)
  OBVIOUS
<1>5. EntryInv(e, c)
  BY <1>3, <1>4, GoodEntry
<1>6. PICK x : x = [market |-> m, plans |-> plans]
  OBVIOUS
<1>7. CopyInv(x, c)
  BY <1>3, <1>6 DEF CopyInv
<1>8. /\ tabs' = [tabs EXCEPT ![t] = x]
      /\ local' = [market |-> e, plans |-> plans]
      /\ files' = files /\ made' = made
  BY <1>1, <1>2, <1>4, <1>6 DEF Load
<1>9. DOMAIN tabs' = Tabs /\ \A u \in Tabs : CopyInv(tabs'[u], c)
  BY <1>1, <1>7, <1>8 DEF LocalInv
<1>10. DOMAIN local' = {"market", "plans"} /\ local'.market = e /\ local'.plans = plans
  BY <1>8
<1>11. QED
  BY <1>1, <1>3, <1>5, <1>8, <1>9, <1>10 DEF LocalInv

LEMMA PageLeft ==
    ASSUME LocalInv, NEW t \in Tabs, tabs' = [tabs EXCEPT ![t] = Loading],
           local' = local \/ local' = Removed, files' = files, made' = made
    PROVE  LocalInv'
<1>1. PICK c : c = made
  OBVIOUS
<1>2. CopyInv(Loading, c)
  BY DEF CopyInv
<1>3. DOMAIN tabs' = Tabs /\ \A u \in Tabs : CopyInv(tabs'[u], c)
  BY <1>1, <1>2 DEF LocalInv
<1>4. DOMAIN local' = {"market", "plans"} /\ EntryInv(local'.market, c) /\ PlansInv(local'.plans)
  <2>1. CASE local' = local
    BY <1>1, <2>1 DEF LocalInv
  <2>2. CASE local' = Removed
    <3>1. DOMAIN local' = {"market", "plans"} /\ local'.market = Absent /\ local'.plans = {}
      BY <2>2 DEF Removed
    <3>2. QED
      BY <3>1 DEF EntryInv, PlansInv
  <2>3. QED
    BY <2>1, <2>2
<1>5. QED
  BY <1>1, <1>3, <1>4 DEF LocalInv

LEMMA BackupExported ==
    ASSUME LocalInv, NEW t \in Tabs, ExportBackup(t)
    PROVE  LocalInv'
<1>1. PICK c, entry, plans : c = made /\ entry = local.market /\ plans = local.plans
  OBVIOUS
<1>2. /\ EntryInv(entry, c) /\ PlansInv(plans) /\ c \in [RecordKinds -> Nat]
      /\ DecodeMarketplace(entry) # Refused
  BY <1>1 DEF LocalInv, ExportBackup
<1>3. entry # Absent
  BY <1>2 DEF DecodeMarketplace
<1>4. PICK m : m = Decoded(entry)
  OBVIOUS
<1>5. DecodeMarketplace(entry) = m /\ MarketInv(m, c)
  BY <1>2, <1>3, <1>4, GoodBackup, GoodDecoded
<1>6. PICK e : e = EncodeMarketplace(m)
  OBVIOUS
<1>7. EntryInv(e, c) /\ e # Absent
  BY <1>5, <1>6, GoodEntry, RecordsReadBack DEF MarketInv
<1>8. PICK f : f = [version |-> 1, marketplace |-> e, subscriptions |-> plans]
  OBVIOUS
<1>9. FileInv(f, c)
  BY <1>2, <1>7, <1>8 DEF FileInv
<1>10. files' = files \cup {f} /\ UNCHANGED <<tabs, local, made>>
  BY <1>1, <1>5, <1>6, <1>8 DEF ExportBackup, CreateLocalWorkspaceBackup
<1>11. \A g \in files' : FileInv(g, c)
  BY <1>1, <1>9, <1>10 DEF LocalInv
<1>12. QED
  BY <1>1, <1>10, <1>11 DEF LocalInv

LEMMA BackupImported ==
    ASSUME LocalInv, NEW t \in Tabs, ImportBackup(t)
    PROVE  LocalInv'
<1>1. PICK c : c = made
  OBVIOUS
<1>2. PICK f \in files :
        LET restored == ParseLocalWorkspaceBackup(f)
        IN  local' = [market |-> EncodeMarketplace(restored.market), plans |-> restored.plans]
  BY Zenon DEF ImportBackup
<1>3. FileInv(f, c) /\ c \in [RecordKinds -> Nat]
  BY <1>1 DEF LocalInv
<1>4. PICK entry, plans : entry = f.marketplace /\ plans = f.subscriptions
  OBVIOUS
<1>5. PICK m : m = Decoded(entry)
  OBVIOUS
<1>6. ParseLocalWorkspaceBackup(f) = [market |-> m, plans |-> plans]
  BY <1>3, <1>4, <1>5, GoodFile
<1>7. MarketInv(m, c) /\ PlansInv(plans)
  BY <1>3, <1>4, <1>5, GoodDecoded DEF FileInv
<1>8. PICK e : e = EncodeMarketplace(m)
  OBVIOUS
<1>9. EntryInv(e, c)
  BY <1>7, <1>8, GoodEntry
<1>10. local' = [market |-> e, plans |-> plans]
  BY <1>2, <1>6, <1>8
<1>11. DOMAIN local' = {"market", "plans"} /\ local'.market = e /\ local'.plans = plans
  BY <1>10
<1>12. UNCHANGED <<tabs, files, made>>
  BY DEF ImportBackup
<1>13. QED
  BY <1>1, <1>7, <1>9, <1>11, <1>12 DEF LocalInv

LEMMA PlansActed ==
    ASSUME LocalInv, NEW t \in Tabs, ActOnPlans(t)
    PROVE  LocalInv'
<1>1. PICK plans : plans = tabs[t].plans
  OBVIOUS
<1>2. tabs[t] # Loading /\ PlansInv(plans)
  BY <1>1 DEF ActOnPlans, LocalInv, CopyInv
<1>3. "plans" \in RecordKinds
  BY DEF RecordKinds
<1>4. CASE /\ Planned(t, StartSubscription(plans, NewId("plans")))
           /\ made' = [made EXCEPT !["plans"] = @ + 1]
  <2>1. PICK id : id = NewId("plans")
    OBVIOUS
  <2>2. id \in Nat
    BY <1>3, <2>1 DEF LocalInv, NewId
  <2>3. PICK next : next = StartSubscription(plans, id)
    OBVIOUS
  <2>4. PlansInv(next) /\ Planned(t, next)
    BY <1>2, <1>4, <2>1, <2>2, <2>3, PlansKept
  <2>5. \E kind : Counted(made, kind, made')
    BY <1>3, <1>4, OneMore
  <2>6. QED
    BY <1>2, <2>4, <2>5, PlansWritten
<1>5. CASE /\ made' = made
           /\ \E next \in Prepay(plans) \cup CancelPlan(plans) \cup ClaimCreatorPeriod(plans) :
                Planned(t, next)
  <2>1. PICK next \in Prepay(plans) \cup CancelPlan(plans) \cup ClaimCreatorPeriod(plans) :
          Planned(t, next)
    BY <1>5, Zenon
  <2>2. PlansInv(next)
    BY <1>2, PlansKept
  <2>3. QED
    BY <1>2, <1>5, <2>1, <2>2, PlansWritten
<1>6. QED
  BY <1>1, <1>4, <1>5, Zenon DEF ActOnPlans

LEMMA LocalStep ==
    ASSUME LocalInv, LocalNext
    PROVE  LocalInv'
<1>1. PICK t \in Tabs :
        \/ Load(t) \/ ReloadTab(t)
        \/ ActOnMarket(t, "profiles", UpsertProfile(tabs[t].market, NewId("profiles")))
        \/ ActOnMarket(t, "gigs", CreateGig(tabs[t].market, NewId("gigs")))
        \/ ActOnMarket(t, "proposals", SubmitProposal(tabs[t].market, NewId("proposals")))
        \/ ActOnMarket(t, "orders", AcceptProposal(tabs[t].market, NewId("orders")))
        \/ ActOnMarket(t, "receipts", FundOrder(tabs[t].market, NewId("receipts")))
        \/ ActOnMarket(t, "receipts", SettleOrder(tabs[t].market, NewId("receipts")))
        \/ ActOnMarket(t, "feed", AppendFeedPost(tabs[t].market, NewId("feed")))
        \/ DeliveryRecorded(t) \/ ActOnPlans(t)
        \/ ExportBackup(t) \/ ImportBackup(t) \/ ResetWorkspace(t)
  BY Zenon DEF LocalNext
<1>2. PICK c, d, m : c = made /\ d = made' /\ m = tabs[t].market
  OBVIOUS
<1>3. tabs[t] # Loading => MarketInv(m, c)
  BY <1>2 DEF LocalInv, CopyInv
<1>4. ASSUME NEW kind, NEW results, ActOnMarket(t, kind, results), kind \in RecordKinds,
             \A next \in results : MarketInv(m, c) /\ Counted(c, kind, d) => MarketInv(next, d)
      PROVE  LocalInv'
  <2>1. MarketInv(m, c)
    BY <1>3, <1>4 DEF ActOnMarket
  <2>2. \A next \in results : Counted(made, kind, made') => MarketInv(next, made')
    BY <1>2, <1>4, <2>1
  <2>3. QED
    BY <1>4, <2>2, MarketActed
<1>5. {"profiles", "gigs", "proposals", "orders", "receipts", "feed"} \subseteq RecordKinds
  BY DEF RecordKinds
<1>6. CASE ActOnMarket(t, "profiles", UpsertProfile(tabs[t].market, NewId("profiles")))
  <2>1. PICK results : results = UpsertProfile(m, c["profiles"] + 1)
    OBVIOUS
  <2>2. ActOnMarket(t, "profiles", results)
    BY <1>2, <1>6, <2>1 DEF NewId
  <2>3. \A next \in results : MarketInv(m, c) /\ Counted(c, "profiles", d) => MarketInv(next, d)
    BY <2>1, ProfileMade
  <2>4. QED
    BY <1>4, <1>5, <2>2, <2>3
<1>7. CASE ActOnMarket(t, "gigs", CreateGig(tabs[t].market, NewId("gigs")))
  <2>1. PICK results : results = CreateGig(m, c["gigs"] + 1)
    OBVIOUS
  <2>2. ActOnMarket(t, "gigs", results)
    BY <1>2, <1>7, <2>1 DEF NewId
  <2>3. \A next \in results : MarketInv(m, c) /\ Counted(c, "gigs", d) => MarketInv(next, d)
    BY <2>1, GigMade
  <2>4. QED
    BY <1>4, <1>5, <2>2, <2>3
<1>8. CASE ActOnMarket(t, "proposals", SubmitProposal(tabs[t].market, NewId("proposals")))
  <2>1. PICK results : results = SubmitProposal(m, c["proposals"] + 1)
    OBVIOUS
  <2>2. ActOnMarket(t, "proposals", results)
    BY <1>2, <1>8, <2>1 DEF NewId
  <2>3. \A next \in results : MarketInv(m, c) /\ Counted(c, "proposals", d) => MarketInv(next, d)
    BY <2>1, ProposalMade
  <2>4. QED
    BY <1>4, <1>5, <2>2, <2>3
<1>9. CASE ActOnMarket(t, "orders", AcceptProposal(tabs[t].market, NewId("orders")))
  <2>1. PICK results : results = AcceptProposal(m, c["orders"] + 1)
    OBVIOUS
  <2>2. ActOnMarket(t, "orders", results)
    BY <1>2, <1>9, <2>1 DEF NewId
  <2>3. \A next \in results : MarketInv(m, c) /\ Counted(c, "orders", d) => MarketInv(next, d)
    BY <2>1, ProposalAccepted
  <2>4. QED
    BY <1>4, <1>5, <2>2, <2>3
<1>10. CASE ActOnMarket(t, "receipts", FundOrder(tabs[t].market, NewId("receipts")))
  <2>1. PICK results : results = FundOrder(m, c["receipts"] + 1)
    OBVIOUS
  <2>2. ActOnMarket(t, "receipts", results)
    BY <1>2, <1>10, <2>1 DEF NewId
  <2>3. \A next \in results : MarketInv(m, c) /\ Counted(c, "receipts", d) => MarketInv(next, d)
    BY <2>1, OrderFunded
  <2>4. QED
    BY <1>4, <1>5, <2>2, <2>3
<1>11. CASE ActOnMarket(t, "receipts", SettleOrder(tabs[t].market, NewId("receipts")))
  <2>1. PICK results : results = SettleOrder(m, c["receipts"] + 1)
    OBVIOUS
  <2>2. ActOnMarket(t, "receipts", results)
    BY <1>2, <1>11, <2>1 DEF NewId
  <2>3. \A next \in results : MarketInv(m, c) /\ Counted(c, "receipts", d) => MarketInv(next, d)
    BY <2>1, OrderSettled
  <2>4. QED
    BY <1>4, <1>5, <2>2, <2>3
<1>12. CASE ActOnMarket(t, "feed", AppendFeedPost(tabs[t].market, NewId("feed")))
  <2>1. PICK results : results = AppendFeedPost(m, c["feed"] + 1)
    OBVIOUS
  <2>2. ActOnMarket(t, "feed", results)
    BY <1>2, <1>12, <2>1 DEF NewId
  <2>3. \A next \in results : MarketInv(m, c) /\ Counted(c, "feed", d) => MarketInv(next, d)
    BY <2>1, FeedPostMade
  <2>4. QED
    BY <1>4, <1>5, <2>2, <2>3
<1>13. CASE DeliveryRecorded(t)
  <2>1. tabs[t] # Loading /\ files' = files /\ made' = made
    BY <1>13 DEF DeliveryRecorded
  <2>2. PICK next \in RecordDelivery(tabs[t].market) :
          /\ tabs' = [tabs EXCEPT ![t].market = next]
          /\ local' = [local EXCEPT !.market = EncodeMarketplace(next)]
    BY <1>13, Zenon DEF DeliveryRecorded
  <2>3. MarketInv(next, d)
    BY <1>2, <1>3, <2>1, <2>2, OrderDelivered
  <2>4. QED
    BY <1>2, <2>1, <2>2, <2>3, MarketWritten
<1>14. CASE ReloadTab(t) \/ ResetWorkspace(t)
  BY <1>14, PageLeft DEF ReloadTab, ResetWorkspace
<1>15. QED
  BY <1>1, <1>6, <1>7, <1>8, <1>9, <1>10, <1>11, <1>12, <1>13, <1>14,
     PageLoaded, PlansActed, BackupExported, BackupImported, Zenon

THEOREM LocalStays == Spec => []LocalInv
<1>1. Init => LocalInv
  BY LocalStart DEF Init
<1>2. ASSUME LocalInv, [Next]_mcVars
      PROVE  LocalInv'
  <2>1. CASE UNCHANGED localVars
    BY <1>2, <2>1 DEF localVars, LocalInv
  <2>2. CASE LocalNext
    BY <1>2, <2>2, LocalStep
  <2>3. UNCHANGED localVars \/ LocalNext
    <3>1. CASE UNCHANGED mcVars
      BY <3>1 DEF mcVars
    <3>2. CASE Next
      BY <3>2, Zenon DEF Next
    <3>3. QED
      BY <1>2, <3>1, <3>2
  <2>4. QED
    BY <2>1, <2>2, <2>3
<1>3. QED
  BY <1>1, <1>2, PTL DEF Spec

\* LocalRecordsAgree: every copy, in a tab, in the entries or in a backup, has
\* one order for an accepted proposal, the receipts of each order's status,
\* reputations that the receipts bear out and claims that were paid.
THEOREM LocalCorrect == Spec => []LocalRecordsAgree
<1>1. ASSUME LocalInv
      PROVE  LocalRecordsAgree
  <2>1. ASSUME NEW copy, NEW count, CopyInv(copy, count), copy # Loading
        PROVE  Agrees(copy)
    BY <2>1, GoodRecordsAgree DEF CopyInv
  <2>2. \A t \in Tabs : tabs[t] # Loading => Agrees(tabs[t])
    <3> SUFFICES ASSUME NEW t \in Tabs, tabs[t] # Loading
                 PROVE  Agrees(tabs[t])
      OBVIOUS
    <3>1. PICK copy, count : copy = tabs[t] /\ count = made
      OBVIOUS
    <3>2. CopyInv(copy, count)
      BY <1>1, <3>1 DEF LocalInv
    <3>3. QED
      BY <2>1, <3>1, <3>2
  <2>3. ASSUME NEW count \in [RecordKinds -> Nat], NEW entry, NEW plans,
               EntryInv(entry, count), PlansInv(plans)
        PROVE  Agrees([market |-> Decoded(entry), plans |-> plans])
    <3>1. PICK w : w = [market |-> Decoded(entry), plans |-> plans]
      OBVIOUS
    <3>2. w.market = Decoded(entry) /\ w.plans = plans
      BY <3>1
    <3>3. MarketInv(w.market, count) /\ PlansInv(w.plans)
      BY <2>3, <3>2, GoodDecoded
    <3>4. QED
      BY <3>1, <3>3, GoodRecordsAgree
  <2>4. PICK c, entry, plans : c = made /\ entry = local.market /\ plans = local.plans
    OBVIOUS
  <2>5. Agrees([market |-> Decoded(local.market), plans |-> local.plans])
    <3>1. EntryInv(entry, c) /\ PlansInv(plans) /\ c \in [RecordKinds -> Nat]
      BY <1>1, <2>4 DEF LocalInv
    <3>2. QED
      BY <2>3, <2>4, <3>1
  <2>6. ASSUME NEW f \in files
        PROVE  Agrees(ParseLocalWorkspaceBackup(f))
    <3>1. FileInv(f, c) /\ c \in [RecordKinds -> Nat]
      BY <1>1, <2>4 DEF LocalInv
    <3>2. ParseLocalWorkspaceBackup(f)
             = [market |-> Decoded(f.marketplace), plans |-> f.subscriptions]
      BY <3>1, GoodFile
    <3>3. PICK old, paid : old = f.marketplace /\ paid = f.subscriptions
      OBVIOUS
    <3>4. EntryInv(old, c) /\ PlansInv(paid)
      BY <3>1, <3>3 DEF FileInv
    <3>5. QED
      BY <2>3, <3>1, <3>2, <3>3, <3>4
  <2>7. QED
    BY <2>2, <2>5, <2>6, Zenon DEF LocalRecordsAgree, Workspaces
<1>2. QED
  BY <1>1, LocalStays, PTL

\* BackupsRestore: whatever was stored can be exported, and its backup restores
\* the same records.
THEOREM BackupsCorrect == Spec => []BackupsRestore
<1>1. ASSUME LocalInv
      PROVE  BackupsRestore
  <2> SUFFICES ASSUME local.market # Absent
               PROVE  LET market == DecodeMarketplace(local.market)
                      IN  /\ market # Refused
                          /\ ParseLocalWorkspaceBackup(CreateLocalWorkspaceBackup(market, local.plans))
                               = [market |-> market, plans |-> local.plans]
    BY DEF BackupsRestore
  <2>1. PICK c, entry, plans : c = made /\ entry = local.market /\ plans = local.plans
    OBVIOUS
  <2>2. EntryInv(entry, c) /\ entry # Absent /\ c \in [RecordKinds -> Nat]
    BY <1>1, <2>1 DEF LocalInv
  <2>3. PICK m : m = Decoded(entry)
    OBVIOUS
  <2>4. DecodeMarketplace(entry) = m /\ m # Refused /\ MarketShape(m)
    BY <2>2, <2>3, GoodBackup DEF EntryInv, MarketInv
  <2>5. PICK e : e = EncodeMarketplace(m)
    OBVIOUS
  <2>6. DecodeMarketplace(e) = m
    BY <2>4, <2>5, BackupsReadBack
  <2>7. PICK f : f = CreateLocalWorkspaceBackup(m, plans)
    OBVIOUS
  <2>8. f.version = 1 /\ f.marketplace = e /\ f.subscriptions = plans
    BY <2>5, <2>7 DEF CreateLocalWorkspaceBackup
  <2>9. ParseLocalWorkspaceBackup(f) = [market |-> m, plans |-> plans]
    BY <2>4, <2>6, <2>8 DEF ParseLocalWorkspaceBackup
  <2>10. QED
    BY <2>1, <2>4, <2>7, <2>9
<1>2. QED
  BY <1>1, LocalStays, PTL

\* The stored history is one a reload reads: no hash twice, and no more than it keeps.
StoredInv ==
    stored \in Seq(Hashes) /\ Distinct(stored) /\ Len(stored) <= HistoryLimit

THEOREM StoredStays == Spec => []StoredInv
<1>1. Init => StoredInv
  BY PaymentAssumption DEF Init, StoredInv, Distinct
<1>2. ASSUME StoredInv, [Next]_mcVars
      PROVE  StoredInv'
  <2>1. stored' = stored \/ Store
    BY <1>2, Zenon DEF Next, mcVars, paymentVars
  <2>2. CASE stored' = stored
    BY <1>2, <2>2 DEF StoredInv
  <2>3. ASSUME NEW h \in Hashes, stored' = UpdateTransactionHistory(stored, h)
        PROVE  StoredInv'
    <3>1. PICK added : added = UpdateTransactionHistory(stored, h)
      OBVIOUS
    <3>2. added \in Seq(Hashes) /\ Distinct(added) /\ Len(added) <= HistoryLimit
      BY <1>2, <3>1, UpdateFacts DEF StoredInv
    <3>3. QED
      BY <2>3, <3>1, <3>2 DEF StoredInv
  <2>4. QED
    BY <2>1, <2>2, <2>3 DEF Store
<1>3. QED
  BY <1>1, <1>2, PTL DEF Spec

\* ReadBackAsStored: however hashes were added to it, the history a reload reads is the
\* one that was stored, in its order; and a backup restores the local records.
THEOREM ReadBackCorrect == Spec => []ReadBackAsStored
<1>1. StoredInv => ParseTransactionHistory(stored) = stored
  BY ParseReadsBack DEF StoredInv
<1>2. ParseTransactionHistory(stored) = stored /\ BackupsRestore => ReadBackAsStored
  BY DEF ReadBackAsStored
<1>3. QED
  BY <1>1, <1>2, StoredStays, BackupsCorrect, PTL

-----------------------------------------------------------------------------
(* Amounts.                                                                *)

TextInv == text.whole \in 0..MaxWhole /\ text.fraction \in Seq(Digit)

THEOREM TextStays == Spec => []TextInv
<1>1. Init => TextInv
  <2> SUFFICES ASSUME Init PROVE TextInv
    OBVIOUS
  <2>1. CASE part = "amounts"
    <3>1. text \in [whole: 0..MaxWhole, fraction: BoundedSeq(Digit, MaxFraction)]
      BY <2>1, Zenon DEF Init
    <3>2. text.whole \in 0..MaxWhole /\ text.fraction \in BoundedSeq(Digit, MaxFraction)
      BY <3>1
    <3>3. PICK m \in 0..MaxFraction : text.fraction \in [1..m -> Digit]
      BY <3>2 DEF BoundedSeq, SeqOf
    <3>4. m \in Nat
      BY AmountsAssumption
    <3>5. text.fraction \in Seq(Digit)
      BY <3>3, <3>4
    <3>6. QED
      BY <3>2, <3>5 DEF TextInv
  <2>2. CASE part # "amounts"
    <3>1. text = NoText
      BY <2>2, Zenon DEF Init
    <3>2. QED
      BY <3>1, AmountsAssumption DEF NoText, TextInv
  <2>3. QED
    BY <2>1, <2>2
<1>2. ASSUME TextInv, [Next]_mcVars
      PROVE  TextInv'
  <2>1. text' = text
    BY <1>2, Zenon DEF Next, Store, mcVars, paymentVars
  <2>2. QED
    BY <1>2, <2>1 DEF TextInv
<1>3. QED
  BY <1>1, <1>2, PTL DEF Spec

\* Counted unit by unit, the value of a text is its whole part and its fraction's.
LEMMA ReferenceIsValue ==
    ASSUME NEW t, t.whole \in 0..MaxWhole, t.fraction \in Seq(Digit)
    PROVE  /\ ReferenceValue(t) = t.whole * Unit + FractionValue(t.fraction)
           /\ Reads(ReferenceValue(t), t.whole, t.fraction)
<1>0. Decimals \in Nat /\ MaxWhole \in Nat
  BY PaymentAssumption, AmountsAssumption
<1>1. PICK u \in Nat \ {0} : u = Unit
  BY <1>0, PowerFacts DEF Unit
<1>2. PICK v : v = t.whole * Unit + FractionValue(t.fraction)
  OBVIOUS
<1>3. t.whole \in Nat
  BY <1>0
<1>4. Reads(v, t.whole, t.fraction)
  BY <1>2, <1>3, ValueReads
<1>5. v \in Nat /\ v \div u = t.whole
  BY <1>1, <1>4 DEF Reads
<1>6. v \in 0..((MaxWhole + 1) * Unit)
  <2>1. PICK r \in Nat : r <= u - 1 /\ v = u * (v \div u) + r
    <3>1. v % u \in 0..(u - 1) /\ v = u * (v \div u) + (v % u)
      BY <1>5, Quotient
    <3>2. v % u \in Nat /\ v % u <= u - 1
      BY <3>1
    <3>3. QED
      BY <3>1, <3>2, Zenon
  <2>2. PICK w \in Nat : w = t.whole /\ w <= MaxWhole
    BY <1>0
  <2>3. v = u * w + r
    BY <1>5, <2>1, <2>2
  <2>4. u * w <= u * MaxWhole
    BY <1>0, <2>2
  <2>5. (MaxWhole + 1) * u = u * MaxWhole + u
    BY <1>0
  <2>6. v <= (MaxWhole + 1) * u
    BY <1>0, <2>1, <2>3, <2>4, <2>5
  <2>7. (MaxWhole + 1) * u \in Nat
    BY <1>0
  <2>8. QED
    BY <1>1, <1>5, <2>6, <2>7
<1> DEFINE HasDigits(n) ==
        /\ n \div Unit = t.whole
        /\ \A i \in 1..Decimals :
              (n \div Power(Decimals - i)) % Base = IF i <= Len(t.fraction) THEN t.fraction[i] ELSE 0
<1>7. \A n \in 0..((MaxWhole + 1) * Unit) : HasDigits(n) <=> Reads(n, t.whole, t.fraction)
  <2>1. \A n \in 0..((MaxWhole + 1) * Unit) : n \in Nat
    <3>1. (MaxWhole + 1) * u \in Nat
      BY <1>0
    <3>2. QED
      BY <1>1, <3>1
  <2>2. QED
    BY <2>1, Zenon DEF Reads, Padded
<1>8. ReferenceValue(t) = CHOOSE n \in 0..((MaxWhole + 1) * Unit) : HasDigits(n)
  BY Zenon DEF ReferenceValue
<1> HIDE DEF HasDigits
<1>9. /\ ReferenceValue(t) \in 0..((MaxWhole + 1) * Unit)
      /\ HasDigits(ReferenceValue(t))
  BY <1>4, <1>6, <1>7, <1>8, Zenon
<1>10. Reads(ReferenceValue(t), t.whole, t.fraction)
  BY <1>7, <1>9
<1>11. ReferenceValue(t) = v
  BY <1>2, <1>3, <1>10, ReadsValue
<1>12. QED
  BY <1>2, <1>10, <1>11

\* AmountsExact: whatever its base, its decimals and its bound, an amount's text is its
\* exact value or invalid, and the value is written as the text without its last zeros.
THEOREM AmountsCorrect == Spec => []AmountsExact
<1>1. ASSUME TextInv
      PROVE  AmountsExact
  <2>0. Decimals \in Nat /\ AmountBound \in Nat /\ MaxWhole \in Nat
    BY PaymentAssumption, AmountsAssumption
  <2>1. PICK value : value = ReferenceValue(text)
    OBVIOUS
  <2>2. PICK whole \in Nat, digits \in Seq(Digit) : whole = text.whole /\ digits = text.fraction
    BY <1>1, <2>0 DEF TextInv
  <2>3. /\ value = whole * Unit + FractionValue(digits)
        /\ Reads(value, whole, digits)
    BY <1>1, <2>1, <2>2, ReferenceIsValue DEF TextInv
  <2>4. value \in Nat
    BY <2>3 DEF Reads
  <2>5. PICK amount : amount = ParseStrkAmount(text)
    OBVIOUS
  <2>6. amount = IF Len(digits) <= Decimals /\ value > 0 /\ value < AmountBound
                 THEN value ELSE InvalidAmount
    BY <2>2, <2>3, <2>5 DEF ParseStrkAmount
  <2>7. Len(digits) \in Nat
    OBVIOUS
  <2>8. CASE Len(digits) > Decimals
    BY <2>0, <2>2, <2>5, <2>6, <2>7, <2>8 DEF AmountsExact
  <2>9. CASE ~(Len(digits) > Decimals)
    <3>1. Len(digits) <= Decimals
      BY <2>0, <2>7, <2>9
    <3>2. amount = IF value < AmountBound THEN value ELSE InvalidAmount
      BY <2>4, <2>6, <3>1 DEF InvalidAmount
    <3>3. PICK written : written = FormatStrkAmount(amount)
      OBVIOUS
    <3>4. ASSUME amount # InvalidAmount
          PROVE  /\ ParseStrkAmount(written) = amount
                 /\ written.whole = whole
                 /\ IsPrefix(written.fraction, digits)
      <4>1. amount = value /\ 0 < value /\ value < AmountBound
        BY <2>4, <2>6, <3>4 DEF InvalidAmount
      <4>2. QED
        BY <2>3, <3>1, <3>3, <4>1, FormatParses
    <3>5. QED
      BY <2>1, <2>2, <2>5, <2>9, <3>2, <3>3, <3>4 DEF AmountsExact
  <2>10. QED
    BY <2>8, <2>9
<1>2. QED
  BY <1>1, TextStays, PTL
=============================================================================
