--------------------------- MODULE ParallelProofs ---------------------------
(***************************************************************************)
(* Proofs in a pool of processes (expr_proof.py).  The jobs are handed out *)
(* in the order in which they were added, workers finish in any order, and *)
(* the results are consumed in the order of the jobs.  The solver decides  *)
(* a proof or gives up at its timeout.                                     *)
(***************************************************************************)
EXTENDS Integers, SequencesExt

CONSTANTS
    Workers,     \* number of processes
    MaxTimeouts  \* bound on the proofs for which the solver gives up

ASSUME WorkersAssumption == Workers \in Nat \ {0}
ASSUME MaxTimeoutsAssumption == MaxTimeouts \in Nat

VARIABLES
    proofs,     \* the jobs: [result, errors], the result that the solver would find
    taken,      \* number of jobs that were handed out
    results,    \* what the workers have found so far, for each job
    collected,  \* number of results that were consumed
    error,      \* the entries reported so far
    timeouts    \* number of proofs for which the solver gave up

poolVars == <<proofs, taken, results, collected, error, timeouts>>

ProofResult == {"SAT", "UNSAT", "UNKNOWN"}
None == "none"

\* A proof job whose goal is satisfiable or not.
ProofJob(sat, sat_error, unsat_error, unknown_error) ==
    [result |-> IF sat THEN "SAT" ELSE "UNSAT",
     errors |-> [SAT |-> sat_error, UNSAT |-> unsat_error, UNKNOWN |-> unknown_error]]

NoProofs ==
    /\ proofs = <<>> /\ taken = 0 /\ results = <<>> /\ collected = 0
    /\ error = <<>> /\ timeouts = 0

\* The pool is started with the given jobs.
StartProofs(jobs) ==
    /\ proofs' = jobs
    /\ results' = [i \in DOMAIN jobs |-> None]
    /\ taken' = 0
    /\ collected' = 0

Running == {i \in 1 .. taken : results[i] = None}

\* Mutant: a worker takes a job while it still runs another one.
TakeJobMutant ==
    /\ taken < Len(proofs)
    /\ Cardinality(Running) <= Workers
    /\ taken' = taken + 1
    /\ UNCHANGED <<proofs, results, collected, error, timeouts>>
TakeJob ==
    /\ taken < Len(proofs)
    /\ Cardinality(Running) < Workers
    /\ taken' = taken + 1
    /\ UNCHANGED <<proofs, results, collected, error, timeouts>>

\* check_proof in the process that has taken job i.
CheckProof(i) ==
    /\ i \in Running
    /\ \/ results' = [results EXCEPT ![i] = proofs[i].result] /\ UNCHANGED timeouts
       \/ /\ timeouts < MaxTimeouts
          /\ results' = [results EXCEPT ![i] = "UNKNOWN"]
          /\ timeouts' = timeouts + 1
    /\ UNCHANGED <<proofs, taken, collected, error>>

\* Mutant: results are consumed in the order of their completion.
CollectMutant ==
    /\ \E i \in 1 .. Len(proofs) :
           /\ results[i] # None
           /\ error' = error \o proofs[i].errors[results[i]]
    /\ collected < Len(proofs)
    /\ collected' = collected + 1
    /\ UNCHANGED <<proofs, taken, results, timeouts>>
\* The loop of check over the results of the map.
Collect ==
    /\ collected < Len(proofs)
    /\ results[collected + 1] # None
    /\ error' = error \o proofs[collected + 1].errors[results[collected + 1]]
    /\ collected' = collected + 1
    /\ UNCHANGED <<proofs, taken, results, timeouts>>

PoolStep == TakeJob \/ (\E i \in Running : CheckProof(i)) \/ Collect

ProofsDone == collected = Len(proofs)

PoolTypeOK ==
    /\ taken \in 0 .. Len(proofs)
    /\ results \in [DOMAIN proofs -> ProofResult \cup {None}]
    /\ collected \in 0 .. taken
    /\ timeouts \in 0 .. MaxTimeouts
    /\ Cardinality(Running) <= Workers
=============================================================================
