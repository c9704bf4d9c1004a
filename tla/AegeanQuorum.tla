----------------------------- MODULE AegeanQuorum -----------------------------
(***************************************************************************)
(* The fail-stop quorum arithmetic of aegean/types.py: which (N, f) pairs  *)
(* a session accepts, and the one threshold R = N - f that the election,   *)
(* the Soln round and every Refm round share.                              *)
(***************************************************************************)
EXTENDS Integers, FiniteSets

\* max_failstop_faults_allowed: ceil((N - 1) / 2) for N >= 3, none below.
MaxFaults(n) == IF n < 3 THEN 0 ELSE n \div 2

\* validate_failstop_fault_bound, as the condition under which it does not raise.
ValidFaultBound(n, f) == n >= 3 /\ f >= 0 /\ f <= MaxFaults(n)

\* Fault: a quorum one process short.
QuorumSizeShort(n, f) == n - f - 1

\* calculate_quorum_size: R = N - f.
QuorumSize(n, f) == n - f

\* Whether the members of S, each counted once, reach R (has_accept_quorum).
IsQuorum(S, n, f) == Cardinality(S) >= QuorumSize(n, f)

\* Two quorums of n processes always share a member. R = N - f alone does not
\* give it: with f at its limit and N even, 2R = N.
QuorumsOverlap(n, f) == 2 * QuorumSize(n, f) > n
===============================================================================
