----------------------------- MODULE Supervisor -----------------------------
(***************************************************************************)
(* The supervisor of tool calls (supervisory_hooks/supervisor.py and the   *)
(* hook command of cli.py).  Every tool call of a Codex host runs a        *)
(* PreToolUse hook, then the tool unless it was denied, then a PostToolUse *)
(* hook.  A hook is two transactions of the durable ledger:                *)
(*                                                                         *)
(*   ensure_scope     reconciles the durable scope to the hook's host      *)
(*   handle_pre/post  decides and files the call, or reduces its result    *)
(*                                                                         *)
(* DurableLedger shows that a transaction is one step here, up to the loss *)
(* of its record when the hook dies after it has written the state.        *)
(* All hosts of all worktrees of a repository share one ledger; their      *)
(* hooks, their tools and the edits of people interleave.                  *)
(***************************************************************************)
EXTENDS Policy

CONSTANTS Calls,         \* tool calls: one tool_use_id each
          Hosts,         \* Codex processes
          HostOf,        \* HostOf[c]: the host that makes call c
          HostScope,     \* HostScope[h]: the scope in the environment of host h
          Op,            \* Op[c]: the canonical operation classify_tool makes of c
          Unrecognized,  \* calls that classify_tool does not recognize
          DefaultScope,  \* DefaultScope[h]: default_scope of the activity of host h
          Results,       \* normalized results of a tool
          MaxVersion,    \* bound: the highest version of a file
          MaxEdits,      \* bound: changes of files, by tools or by people
          MaxDeaths      \* bound: hooks that die or fail

DefaultScopes == {DefaultScope[h] : h \in Hosts}

Scopes == DefaultScopes \cup {HostScope[h] : h \in Hosts}

\* Digests of the states that declared paths can be in.
Digests == {d \in [paths : SUBSET Patterns,
                   files : UNION {[F -> 0 .. MaxVersion] : F \in SUBSET Files}] :
              DOMAIN d.files = Covered(d.paths)}

\* A pending operation: the scope and the state it was approved under.
Pending == [scope : Scopes, digest : Digests]

Signatures == [target : {Op[c].target : c \in Calls}, activity : {s.activity : s \in Scopes},
               surface : {s.surface : s \in Scopes}, errorClass : {r.class : r \in Results},
               source : Digests]

ASSUME SupervisorAssumption ==
  /\ HostOf \in [Calls -> Hosts]
  /\ Unrecognized \subseteq Calls
  /\ MaxVersion \in Nat /\ MaxEdits \in Nat /\ MaxDeaths \in Nat
  /\ \A s \in Scopes : s.owned \subseteq Patterns
  /\ \A c \in Calls : /\ Op[c].paths \subseteq Patterns
                      /\ Op[c].target = "supervisor.transition" => ~Op[c].mutating
  /\ \A h \in Hosts : /\ DefaultScope[h].activity = HostScope[h].activity
                      /\ DefaultScope[h].owned = {}
  /\ None \notin Pending /\ None \notin Digests /\ None \notin Signatures
  /\ None \notin Results /\ None \notin Scopes

VARIABLES ws,       \* ws[f]: the version of file f
          scope,    \* state.json: the active scope, None before the file is written
          pending,  \* state.json: pending[c], the approved operation of c
          log,      \* events.jsonl
          phase,    \* phase[c]: where call c is
          result,   \* result[c]: what the tool of c returned
          edits,    \* how often files have been changed
          dead      \* calls of which a hook died or failed

vars == <<ws, scope, pending, log, phase, result, edits, dead>>

\* A call is "allowed" once nothing keeps the host from running the tool, be
\* it an approval or a hook that died: hooks fail open.
Phases == {"new", "pre-scoped", "allowed", "denied", "ran", "post-scoped", "done"}

\* _load_state: the active scope as a hook of call c reads it.  Without a
\* state.json every hook reads the default of its own host.
Loaded(c) == IF scope = None THEN DefaultScope[HostOf[c]] ELSE scope

HookRuns(c) == phase[c] \in {"new", "pre-scoped", "ran", "post-scoped"}

Init == /\ ws = [f \in Files |-> 0]
        /\ scope = None
        /\ pending = [c \in Calls |-> None]
        /\ log = <<>>
        /\ phase = [c \in Calls |-> "new"]
        /\ result = [c \in Calls |-> None]
        /\ edits = 0
        /\ dead = {}

-----------------------------------------------------------------------------
(* Records *)

Unclassified(c, stage) == [kind |-> "unclassified-observation", call |-> c, stage |-> stage]

Transition(previous, next) ==
  [kind |-> "control-transition", previous |-> previous, scope |-> next]

PreDecision(c, digest, denials) ==
  [kind |-> "pre-decision", call |-> c, scope |-> Loaded(c), digest |-> digest,
   action |-> IF denials = {} THEN "approve" ELSE "deny", matched |-> denials]

\* reduce_observation: the digest before the tool stays apart from the
\* candidate after it.
PostObservation(c, expected, candidate) ==
  [kind |-> "post-observation", call |-> c, scope |-> expected.scope,
   target |-> Op[c].target, request |-> Op[c].request,
   digest |-> expected.digest, candidate |-> candidate,
   signature |-> Signature(expected.scope, Op[c], expected.digest, result[c]),
   error |-> result[c].error, class |-> result[c].class, channel |-> result[c].channel,
   introduces |-> result[c].introduces, resolves |-> result[c].resolves]

ReductionError(c) == [kind |-> "reduction-error", call |-> c]

-----------------------------------------------------------------------------
(* The two transactions of a hook *)

Move(c, next) == phase' = [phase EXCEPT ![c] = next]

\* Where a call goes when its hook dies or fails.
FailOpen(c) == IF phase[c] \in {"new", "pre-scoped"} THEN "allowed" ELSE "done"

Dies(c) == /\ Cardinality(dead) < MaxDeaths
           /\ dead' = dead \cup {c}
           /\ Move(c, FailOpen(c))

\* A transaction that files record r and leads call c to next, unless its
\* process dies between the state and the record.
File(c, r, next) == \/ /\ log' = Append(log, r)
                       /\ Move(c, next)
                       /\ UNCHANGED dead
                    \/ Dies(c) /\ UNCHANGED log

AfterScope(c) == IF phase[c] = "new" THEN "pre-scoped" ELSE "post-scoped"

\* (mutant) the scope is taken over without a record
EnsureScopeSilently(c) ==
  /\ phase[c] \in {"new", "ran"}
  /\ scope' = HostScope[HostOf[c]]
  /\ Move(c, AfterScope(c))
  /\ UNCHANGED <<ws, pending, log, result, edits, dead>>

\* _supervisor: ensure_scope with the scope of the host's environment.  A state
\* that has this scope already is not written, be it only the default.
EnsureScope(c) ==
  /\ phase[c] \in {"new", "ran"}
  /\ \/ /\ Loaded(c) = HostScope[HostOf[c]]
        /\ Move(c, AfterScope(c))
        /\ UNCHANGED <<scope, log, dead>>
     \/ /\ Loaded(c) # HostScope[HostOf[c]]
        /\ scope' = HostScope[HostOf[c]]
        /\ File(c, Transition(Loaded(c), scope'), AfterScope(c))
  /\ UNCHANGED <<ws, pending, result, edits>>

\* handle_pre: an operation that nothing denies is pending until its post hook.
\* The first decision binds the session and so writes the state.
HandlePre(c) ==
  /\ phase[c] = "pre-scoped"
  /\ c \notin Unrecognized
  /\ scope' = Loaded(c)
  /\ LET digest  == Digest(ws, RelevantPaths(Loaded(c), Op[c]))
         denials == Denials(Loaded(c), Op[c], digest, Observations(log))
     IN  /\ pending' = IF denials = {}
                       THEN [pending EXCEPT ![c] = [scope |-> Loaded(c), digest |-> digest]]
                       ELSE pending
         /\ File(c, PreDecision(c, digest, denials),
                 IF denials = {} THEN "allowed" ELSE "denied")
  /\ UNCHANGED <<ws, result, edits>>

\* Compound or unknown commands are recorded and approved.
RecordUnclassifiedPre(c) ==
  /\ phase[c] = "pre-scoped"
  /\ c \in Unrecognized
  /\ File(c, Unclassified(c, "pre"), "allowed")
  /\ UNCHANGED <<ws, scope, pending, result, edits>>

\* (mutant) the entry stays in the state
HandlePostKeeping(c) ==
  /\ phase[c] = "post-scoped"
  /\ c \notin Unrecognized
  /\ scope' = Loaded(c)
  /\ UNCHANGED pending
  /\ IF pending[c] = None
     THEN File(c, Unclassified(c, "post"), "done")
     ELSE File(c, PostObservation(c, pending[c],
                                  Digest(ws, pending[c].digest.paths)), "done")
  /\ UNCHANGED <<ws, result, edits>>

\* (mutant) the result is filed under the scope of the moment
HandlePostRescoped(c) ==
  /\ phase[c] = "post-scoped"
  /\ c \notin Unrecognized
  /\ scope' = Loaded(c)
  /\ pending' = [pending EXCEPT ![c] = None]
  /\ IF pending[c] = None
     THEN File(c, Unclassified(c, "post"), "done")
     ELSE File(c, PostObservation(c, [pending[c] EXCEPT !.scope = Loaded(c)],
                                  Digest(ws, pending[c].digest.paths)), "done")
  /\ UNCHANGED <<ws, result, edits>>

\* handle_post: a pending operation is completed with the files as they are
\* now; anything else is unmatched and stays out of the projection.
HandlePost(c) ==
  /\ phase[c] = "post-scoped"
  /\ c \notin Unrecognized
  /\ scope' = Loaded(c)
  /\ pending' = [pending EXCEPT ![c] = None]
  /\ \/ /\ pending[c] = None
        /\ File(c, Unclassified(c, "post"), "done")
     \/ /\ pending[c] # None
        /\ File(c, PostObservation(c, pending[c],
                     Digest(ws, RelevantPaths(pending[c].scope, Op[c]))), "done")
     \/ /\ pending[c] # None
        /\ File(c, ReductionError(c), "done")
  /\ UNCHANGED <<ws, result, edits>>

RecordUnclassifiedPost(c) ==
  /\ phase[c] = "post-scoped"
  /\ c \in Unrecognized
  /\ File(c, Unclassified(c, "post"), "done")
  /\ UNCHANGED <<ws, scope, pending, result, edits>>

\* The hook is killed, or reports an adapter failure, before it wrote anything.
FailHook(c) == /\ HookRuns(c)
               /\ Dies(c)
               /\ UNCHANGED <<ws, scope, pending, log, result, edits>>

-----------------------------------------------------------------------------
(* What happens between the hooks *)

\* The tool runs and changes what files it likes: classify_tool knows what a
\* call names, not what it does.  "sed --in-place" is a read to it, the target of
\* a "*** Move to:" is no path of the patch, and an evaluation runs any code.
RunTool(c) ==
  /\ phase[c] = "allowed"
  /\ \/ UNCHANGED <<ws, edits>>
     \/ /\ edits < MaxEdits
        /\ edits' = edits + 1
        /\ ws' \in [Files -> 0 .. MaxVersion]
  /\ \E r \in Results : result' = [result EXCEPT ![c] = r]
  /\ Move(c, "ran")
  /\ UNCHANGED <<scope, pending, log, dead>>

\* A person, or an operation that no hook sees, edits a file, or takes an
\* edit back.
Edit(f) == /\ edits < MaxEdits
           /\ edits' = edits + 1
           /\ \E v \in 0 .. MaxVersion \ {ws[f]} : ws' = [ws EXCEPT ![f] = v]
           /\ UNCHANGED <<scope, pending, log, phase, result, dead>>

Hook(c) == \/ EnsureScope(c)
           \/ HandlePre(c)
           \/ RecordUnclassifiedPre(c)
           \/ HandlePost(c)
           \/ RecordUnclassifiedPost(c)

Next == \/ \E c \in Calls : Hook(c) \/ FailHook(c) \/ RunTool(c)
        \/ \E f \in Files : Edit(f)

Spec == Init /\ [][Next]_vars

-----------------------------------------------------------------------------
(* Properties *)

TypeOK == /\ ws \in [Files -> 0 .. MaxVersion]
          /\ scope \in Scopes \cup {None}
          /\ \A c \in Calls : pending[c] # None => pending[c] \in Pending
          /\ phase \in [Calls -> Phases]
          /\ result \in [Calls -> Results \cup {None}]
          /\ edits \in 0 .. MaxEdits
          /\ dead \subseteq Calls

IsPost(i) == log[i].kind = "post-observation"
IsPre(i)  == log[i].kind = "pre-decision"

\* Every observation in the ledger answers one earlier approval of the same
\* call, and carries the scope and the state it was approved under, however
\* many hosts moved the scope or the files in between.  Only a hook that died
\* over its record leaves an observation without its decision.
ObservationsAreDecided ==
  \A i \in DOMAIN log : IsPost(i) =>
    /\ \A j \in DOMAIN log : IsPost(j) /\ log[j].call = log[i].call => i = j
    /\ \/ log[i].call \in dead
       \/ \E j \in 1 .. (i - 1) : /\ IsPre(j)
                                  /\ log[j].call = log[i].call
                                  /\ log[j].action = "approve"
                                  /\ log[j].scope = log[i].scope
                                  /\ log[j].digest = log[i].digest

\* The pending entries are the approved calls that are not over yet: no entry
\* outlives its post hook, and none is lost to another host's transaction.
PendingIsOwed ==
  \A c \in Calls \ dead :
    pending[c] # None <=>
      /\ c \notin Unrecognized
      /\ phase[c] \in {"allowed", "ran", "post-scoped"}

\* README of the hooks: "successful observations do not trigger the
\* provisional identical-retry denial".
SuccessIsNoRetry ==
  \A i \in DOMAIN log : IsPre(i) /\ "identical-retry" \in log[i].matched =>
    \E j \in 1 .. (i - 1) : /\ IsPost(j)
                            /\ log[j].error
                            /\ log[j].request = Op[log[i].call].request
                            /\ log[j].digest = log[i].digest

\* Two evaluations in a row, the second decided after the first was observed,
\* looked at the same candidate: nothing changed the files between the end of
\* one and the start of the other.  A declared transition is no evaluation.
EvaluationsSeeOneCandidate ==
  \A i, j, k \in DOMAIN log :
    (/\ i < j /\ j < k
     /\ IsPost(i) /\ IsPre(j) /\ IsPost(k)
     /\ log[j].call = log[k].call
     /\ log[j].scope.activity \in {"evaluate", "collect-evidence"}
     /\ Op[log[j].call].target # "supervisor.transition"
     /\ \A n \in (i + 1) .. (j - 1) : ~IsPost(n))
    => log[k].digest = log[i].candidate

\* While a question stays open, the channel that its observation asked for
\* binds every later approval, until another observation asks for a channel.
ChannelStaysRequired ==
  \A i, k \in DOMAIN log :
    (/\ i < k
     /\ IsPost(i) /\ log[i].channel # None /\ log[i].introduces # {}
     /\ \A n \in (i + 1) .. (k - 1) :
          IsPost(n) => log[n].channel = None /\ log[n].resolves \cap log[i].introduces = {}
     /\ IsPre(k) /\ log[k].action = "approve"
     /\ Op[log[k].call].target # "supervisor.transition")
    => Op[log[k].call].channel = log[i].channel

\* After MaxCorrections different attempts at a target (a request and the
\* candidate it left) have failed in the same way (activity, surface, error class)
\* on one state of the files, no further one is approved before some other result
\* has been observed, however the calls overlapped and the files changed in
\* between.  A failure of another error class starts a cluster of its own.
ClusterStops ==
  \A i, k \in DOMAIN log :
    (/\ i < k
     /\ IsPost(i) /\ log[i].error
     /\ \A n \in (i + 1) .. (k - 1) : ~IsPost(n)
     /\ IsPre(k) /\ log[k].action = "approve"
     /\ Op[log[k].call].target = log[i].target
     /\ log[i].target # "supervisor.transition")
    => LET tried == {<<log[j].request, log[j].candidate>> : j \in {n \in 1 .. i :
                       /\ IsPost(n) /\ log[n].error
                       /\ log[n].target = log[i].target /\ log[n].class = log[i].class
                       /\ log[n].digest = log[i].digest
                       /\ log[n].scope.activity = log[i].scope.activity
                       /\ log[n].scope.surface = log[i].scope.surface}}
       IN  Cardinality(tried) < MaxCorrections

\* A call that is classed as a mutation runs only if it names files, and the
\* scope that approved it owns every one of them, whatever the scope is by then.
\* What else its tool changes is not asked (RunTool).
GuardedMutationsAreOwned ==
  [][\A c \in Calls \ dead :
       (RunTool(c) /\ c \notin Unrecognized /\ Op[c].mutating) =>
         /\ Op[c].paths \cap Files # {}
         /\ \A f \in Op[c].paths : \E p \in pending[c].scope.owned : f \in Covers[p]]_vars

\* "Each hook invocation reconciles durable state to this parent-process
\* value": every decision is taken under the scope of the call's own host.
DecisionUnderOwnScope ==
  \A i \in DOMAIN log : IsPre(i) => log[i].scope = HostScope[HostOf[log[i].call]]

\* The recorded transitions up to place n lead to scope s; before the first, s is
\* the default of a host, or no scope is written.
IsRecorded(records, n, s) ==
  LET moves == {i \in 1 .. n : records[i].kind = "control-transition"}
  IN  IF moves = {} THEN s \in DefaultScopes \cup {None} ELSE s = records[Max(moves)].scope

\* "... and records a control transition when it changes": the recorded
\* transitions lead from the default of a host to the active scope, each from
\* where the one before it ended, and every decision was taken under the scope
\* that they had led to.  A hook that dies between the state and its record
\* leaves a gap for good.
ScopeIsRecorded ==
  dead = {} =>
    /\ IsRecorded(log, Len(log), scope)
    /\ \A i \in DOMAIN log :
         /\ log[i].kind = "control-transition" => IsRecorded(log, i - 1, log[i].previous)
         /\ IsPre(i) => IsRecorded(log, i - 1, log[i].scope)
=============================================================================
