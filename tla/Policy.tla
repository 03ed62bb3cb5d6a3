------------------------------- MODULE Policy -------------------------------
(***************************************************************************)
(* The anti-churn policy of the supervisory hooks (supervisory_hooks/      *)
(* policy.py): pure operators over a scope, a canonical operation, the     *)
(* digest of the files it depends on, and the observations in the ledger.  *)
(*                                                                         *)
(* A file is covered by the patterns that match it, and a literal path is  *)
(* the pattern of one file.  A digest is what it is computed from, so two  *)
(* digests are equal exactly when the code's are.                          *)
(***************************************************************************)
EXTENDS Naturals, Sequences, FiniteSets, SequencesExt, TLC

CONSTANTS Files,           \* files of the workspace
          Patterns,        \* owned-path patterns and target paths
          Covers,          \* Covers[p]: the files pattern p matches
          MaxCorrections,  \* maximum_failure_cluster_corrections
          None

ASSUME PolicyAssumption ==
  /\ Files \subseteq Patterns
  /\ Covers \in [Patterns -> SUBSET Files]
  /\ \A f \in Files : Covers[f] = {f}
  /\ MaxCorrections \in Nat \ {0}

-----------------------------------------------------------------------------
(* repository_state_digest *)

RelevantPaths(scope, op) == scope.owned \cup op.paths

\* Without relevant paths the digest covers the whole work tree.
Covered(paths) == IF paths = {} THEN Files ELSE UNION {Covers[p] : p \in paths}

\* (mutant) glob patterns are taken for literal paths
DigestOfLiterals(ws, paths) ==
  [paths |-> paths, files |-> [f \in paths \cap Files |-> ws[f]]]

Digest(ws, paths) == [paths |-> paths, files |-> [f \in Covered(paths) |-> ws[f]]]

-----------------------------------------------------------------------------
(* project_evidence: only post-observations count.  A question is open when *)
(* it was introduced and not resolved since; the required channel is the    *)
(* last one asked for, until an observation leaves no question open.        *)

\* The observations of the ledger, each under its place there.
Observations(log) ==
  [i \in {n \in DOMAIN log : log[n].kind = "post-observation"} |-> log[i]]

Latest(obs) == obs[Max(DOMAIN obs)]

\* The questions that the observations up to place n leave open.
OpenQuestions(obs, n) ==
  {q \in UNION {obs[i].introduces : i \in DOMAIN obs} :
     \E i \in DOMAIN obs :
       /\ i <= n /\ q \in obs[i].introduces
       /\ \A j \in DOMAIN obs : i < j /\ j <= n => q \notin obs[j].resolves}

\* (mutant) only the latest observation is asked
ChannelOfLast(obs) == IF DOMAIN obs = {} THEN None ELSE Latest(obs).channel

RequiredChannel(obs) ==
  LET asked == {i \in DOMAIN obs : obs[i].channel # None}
      last  == Max(asked)
  IN  IF asked = {} \/ \E j \in DOMAIN obs : last < j /\ OpenQuestions(obs, j) = {}
      THEN None
      ELSE obs[last].channel

ActiveCandidate(obs) == IF DOMAIN obs = {} THEN None ELSE Latest(obs).candidate
ActiveFailure(obs)   == IF DOMAIN obs = {} THEN None ELSE Latest(obs).signature

\* _failure_signature: the operation class follows the target.  The error class
\* is the exit code of the result, if it has one.
Signature(scope, op, digest, result) ==
  IF result.error
  THEN [target |-> op.target, activity |-> scope.activity, surface |-> scope.surface,
        errorClass |-> result.class, source |-> digest]
  ELSE None

-----------------------------------------------------------------------------
(* decide: what each denial predicate of _matched_denials asks.  handle_pre  *)
(* shows the predicates only the observations that reported an error.        *)

Failures(obs) == {obs[i] : i \in {j \in DOMAIN obs : obs[j].error}}

\* (mutant) successful observations count as well
FailuresOrSuccesses(obs, op, digest) ==
  \E i \in DOMAIN obs : /\ obs[i].target = op.target
                        /\ obs[i].request = op.request
                        /\ obs[i].digest = digest

IdenticalRetry(obs, op, digest) ==
  \E o \in Failures(obs) : /\ o.target = op.target
                           /\ o.request = op.request
                           /\ o.digest = digest

\* (mutant) the candidate is compared with the state before the observation
MixedWithPreState(scope, obs, digest) ==
  /\ scope.activity \in {"evaluate", "collect-evidence"}
  /\ DOMAIN obs # {}
  /\ Latest(obs).digest # digest

MixedCandidate(scope, obs, digest) ==
  /\ scope.activity \in {"evaluate", "collect-evidence"}
  /\ ActiveCandidate(obs) # None
  /\ ActiveCandidate(obs) # digest

WrongChannel(obs, op) == RequiredChannel(obs) \notin {None, op.channel}

\* (mutant) the budget is exceeded by one
ClusterOverrun(obs, op, digest) ==
  LET corrections == {<<o.request, o.digest, o.candidate>> :
                        o \in {x \in Failures(obs) : /\ x.target = op.target
                                                     /\ x.signature = ActiveFailure(obs)}}
  IN  /\ ActiveFailure(obs) # None
      /\ Cardinality(corrections) > MaxCorrections
      /\ <<op.request, digest, digest>> \notin corrections

ClusterExhausted(obs, op, digest) ==
  LET corrections == {<<o.request, o.digest, o.candidate>> :
                        o \in {x \in Failures(obs) : /\ x.target = op.target
                                                     /\ x.signature = ActiveFailure(obs)}}
  IN  /\ ActiveFailure(obs) # None
      /\ Cardinality(corrections) >= MaxCorrections
      /\ <<op.request, digest, digest>> \notin corrections

\* (mutant) one owned target path is enough
SomePathOwned(op, scope) ==
  \E p \in op.paths : \E q \in scope.owned : p \in Files /\ p \in Covers[q]

\* _path_owned for every target path: relative, inside and matched.
PathsOwned(op, scope) ==
  \A p \in op.paths : \E q \in scope.owned : p \in Files /\ p \in Covers[q]

InvalidChurn(scope, op) ==
  \/ op.target \notin scope.targets
  \/ op.mutating /\ (op.paths = {} \/ scope.owned = {} \/ ~PathsOwned(op, scope))
  \/ ~(op.paths \subseteq Files)

MatchedDenials(scope, op, digest, obs) ==
  {reason \in {"protected-artifact-mutation", "mixed-candidate-state",
               "wrong-observation-channel", "identical-retry",
               "failure-cluster-exhausted", "fanout-budget-exceeded",
               "phase-invalid-churn"} :
     CASE reason = "protected-artifact-mutation" -> op.mutating /\ op.protected
       [] reason = "mixed-candidate-state"       -> MixedCandidate(scope, obs, digest)
       [] reason = "wrong-observation-channel"   -> WrongChannel(obs, op)
       [] reason = "identical-retry"             -> IdenticalRetry(obs, op, digest)
       [] reason = "failure-cluster-exhausted"   -> ClusterExhausted(obs, op, digest)
       [] reason = "fanout-budget-exceeded"      -> op.wide
       [] reason = "phase-invalid-churn"         -> InvalidChurn(scope, op)}

\* A declared transition is approved whatever the predicates say.
Denials(scope, op, digest, obs) ==
  IF op.target = "supervisor.transition" THEN {} ELSE MatchedDenials(scope, op, digest, obs)
=============================================================================
