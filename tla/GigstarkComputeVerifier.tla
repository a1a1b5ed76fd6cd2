----------------------- MODULE GigstarkComputeVerifier -----------------------
(***************************************************************************)
(* GigstarkComputeVerifier (contracts/src/compute_verifier.cairo): accepts *)
(* the result of a dispute computation when a Groth16 proof of it carries  *)
(* exactly the public signals the active policy and the calling escrow     *)
(* expect, and spends the result's nullifier.                              *)
(*                                                                         *)
(* Abstractions.  `proven` is the set of public-signal tuples for which    *)
(* somebody holds a valid proof: the Garaga verifier accepts a proof iff   *)
(* its signals are there, and the circuit decides what can get there.      *)
(* Commitments are injective: evidence_commitment is the score it commits  *)
(* to, and result_commitment, a hash of six of the other signals, is that  *)
(* record.  The Oyster receipt reference only adds an event and is left    *)
(* out.                                                                    *)
(***************************************************************************)
EXTENDS StarknetClock, FiniteSets

CONSTANTS
    ComputePolicyIds,
    ComputeAudiences,   \* contracts that may be a compute policy's audience
    Programs,           \* program measurement commitments
    RequiredScores,     \* thresholds a policy, or a prover, may choose
    Scores,             \* private evidence scores
    ComputeWindows,     \* <<valid_from, valid_until>> pairs the admin may choose
    ResultExpiries,     \* expires_at values a prover may choose
    MaxProofs           \* bound on the proofs made in a behaviour

ASSUME ComputeAssumption ==
    /\ RequiredScores \subseteq 0..100
    /\ Scores \subseteq 0..100
    /\ ComputeWindows \subseteq Nat \X Nat
    /\ ResultExpiries \subseteq Nat
    /\ MaxProofs \in Nat

VARIABLES
    computePolicies,    \* storage: compute policy id -> policy
    usedResults,        \* storage: result nullifiers already spent
    proven              \* external: public signals somebody holds a proof of

computeVars == <<computePolicies, usedResults, proven>>

ComputeOutcome == {"BUYER", "SELLER"}

ComputePolicy ==
    [audience: ComputeAudiences, program: Programs, required_score: RequiredScores,
     valid_from: Nat, valid_until: Nat, active: BOOLEAN]

NoComputePolicy == [active |-> FALSE]    \* zk_verifier is zero

Signals(inputs) ==
    [input: inputs, policy_id: ComputePolicyIds, program: Programs,
     required_score: RequiredScores, evidence: Scores, outcome: ComputeOutcome,
     expires_at: Nat]

\* The calldata struct GigstarkZkResult.
ZkResult(jobs, inputs) ==
    [policy_id: ComputePolicyIds, audience: ComputeAudiences, job_id: jobs,
     input: inputs, evidence: Scores, outcome: ComputeOutcome, expires_at: Nat]

ComputeTypeOK(jobs, inputs) ==
    /\ computePolicies \in [ComputePolicyIds -> ComputePolicy \cup {NoComputePolicy}]
    /\ usedResults \subseteq ZkResult(jobs, inputs)
    /\ proven \subseteq Signals(inputs)

ComputeInit ==
    /\ computePolicies = [p \in ComputePolicyIds |-> NoComputePolicy]
    /\ usedResults = {}
    /\ proven = {}

-----------------------------------------------------------------------------
SetComputePolicy(p, audience, program, required, from, until) ==
    /\ computePolicies[p] = NoComputePolicy
    /\ until > from
    /\ computePolicies' = [computePolicies EXCEPT ![p] =
                             [audience |-> audience, program |-> program,
                              required_score |-> required, valid_from |-> from,
                              valid_until |-> until, active |-> TRUE]]
    /\ UNCHANGED <<usedResults, proven>>

SetComputePolicyActive(p, active) ==
    /\ computePolicies[p] # NoComputePolicy
    /\ computePolicies' = [computePolicies EXCEPT ![p].active = active]
    /\ UNCHANGED <<usedResults, proven>>

ComputeAdmin ==
    \E p \in ComputePolicyIds :
        \/ \E a \in ComputeAudiences, g \in Programs, q \in RequiredScores,
              w \in ComputeWindows : SetComputePolicy(p, a, g, q, w[1], w[2])
        \/ \E b \in BOOLEAN : SetComputePolicyActive(p, b)

-----------------------------------------------------------------------------
(* The circuit: outcome === 2 - (evidenceScore < requiredScore).  It takes *)
(* the threshold, the program and the policy id as the prover states them. *)

CircuitOutcome(score, required) == IF score < required THEN "BUYER" ELSE "SELLER"

Prove(input, p, program, required, score, expires) ==
    /\ Cardinality(proven) < MaxProofs
    /\ proven' = proven \cup
         {[input |-> input, policy_id |-> p, program |-> program,
           required_score |-> required, evidence |-> score,
           outcome |-> CircuitOutcome(score, required), expires_at |-> expires]}
    /\ UNCHANGED <<computePolicies, usedResults>>

-----------------------------------------------------------------------------
(* consume_result, called by the contract `caller`.                        *)

ComputePolicyInForce(p) ==
    /\ computePolicies[p] # NoComputePolicy
    /\ computePolicies[p].active
    /\ computePolicies[p].valid_from <= now
    /\ now < computePolicies[p].valid_until

\* The signals the contract demands of the proof: the result's own fields,
\* and the program and the threshold of the stored policy.
ExpectedSignals(result) ==
    [input |-> result.input, policy_id |-> result.policy_id,
     program |-> computePolicies[result.policy_id].program,
     required_score |-> computePolicies[result.policy_id].required_score,
     evidence |-> result.evidence, outcome |-> result.outcome,
     expires_at |-> result.expires_at]

\* Plausible bug: public input 3 (the threshold) is not compared.
ProofAcceptedAnyThreshold(result) ==
    \E q \in RequiredScores :
        [ExpectedSignals(result) EXCEPT !.required_score = q] \in proven

ProofAccepted(result) == ExpectedSignals(result) \in proven

ConsumeResult(caller, expected_job_id, expected_input, result) ==
    /\ ComputePolicyInForce(result.policy_id)
    /\ caller = computePolicies[result.policy_id].audience
    /\ result.audience = computePolicies[result.policy_id].audience
    /\ result.job_id = expected_job_id
    /\ result.input = expected_input
    /\ now < result.expires_at
    /\ result.expires_at <= computePolicies[result.policy_id].valid_until
    /\ result \notin usedResults
    /\ ProofAccepted(result)
    /\ usedResults' = usedResults \cup {result}
    /\ UNCHANGED <<computePolicies, proven>>

=============================================================================
