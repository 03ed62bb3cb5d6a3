-------------------------- MODULE SupervisorProofs --------------------------
(***************************************************************************)
(* What the hooks of any number of hosts, calls and files keep true of the *)
(* ledger, under any policy state: the decision of a call, its pending     *)
(* entry, its observation and the run of its tool belong together.         *)
(*                                                                         *)
(* A pending entry is the trace that a decision leaves in the state until  *)
(* the observation answers it.  So the invariant says of the entry what    *)
(* each of the properties needs: its approval is in the ledger (unless a   *)
(* hook of the call died), it is there exactly while the call is approved  *)
(* and not over, and its scope owns the paths that the call mutates.       *)
(***************************************************************************)
EXTENDS Supervisor, SequenceTheorems, FiniteSetTheorems, WellFoundedInduction, TLAPS

-----------------------------------------------------------------------------
(* The parts of the invariant *)

Typing ==
  /\ TypeOK
  /\ pending \in [Calls -> Pending \cup {None}]

LogTyped == log \in Seq({log[i] : i \in DOMAIN log})

\* The approval that pending entry c stems from is in the ledger.
IsApproval(r, c, entry) ==
  /\ r.kind = "pre-decision" /\ r.call = c /\ r.action = "approve"
  /\ r.scope = entry.scope /\ r.digest = entry.digest

EntriesAreDecided ==
  \A c \in Calls \ dead : pending[c] # None =>
    \E j \in DOMAIN log : IsApproval(log[j], c, pending[c])

\* A call is observed last: nothing comes after "done".
ObservedIsDone ==
  \A i \in DOMAIN log : IsPost(i) => log[i].call \in Calls /\ phase[log[i].call] = "done"

\* A pending mutation names files, which the scope that approved it owns.
NamesOwned(c, s) ==
  /\ Op[c].paths \cap Files # {}
  /\ \A f \in Op[c].paths : \E p \in s.owned : f \in Covers[p]

EntriesAreOwned ==
  \A c \in Calls : pending[c] # None /\ Op[c].mutating => NamesOwned(c, pending[c].scope)

\* A tool that ran returned something.
RanReturned ==
  \A c \in Calls : phase[c] \in {"ran", "post-scoped"} => result[c] \in Results

IInv ==
  /\ Typing
  /\ LogTyped
  /\ PendingIsOwed
  /\ EntriesAreDecided
  /\ ObservedIsDone
  /\ ObservationsAreDecided
  /\ EntriesAreOwned
  /\ RanReturned

-----------------------------------------------------------------------------
(* The ledger grows at its end *)

Grows == /\ DOMAIN log \subseteq DOMAIN log'
         /\ \A i \in DOMAIN log : log'[i] = log[i]

\* A record is appended after all others, which stay what they are.
LEMMA Appended ==
  ASSUME LogTyped, NEW r, log' = Append(log, r)
  PROVE  /\ LogTyped'
         /\ Grows
         /\ Len(log) \in Nat
         /\ DOMAIN log = 1 .. Len(log)
         /\ DOMAIN log' = 1 .. (Len(log) + 1)
         /\ log'[Len(log) + 1] = r
<1> DEFINE R == {log[i] : i \in DOMAIN log}
           n == Len(log)
<1>1. /\ log \in Seq(R)
      /\ n \in Nat
      /\ DOMAIN log = 1 .. n
  BY DEF LogTyped
<1>2. /\ DOMAIN log' = 1 .. (n + 1)
      /\ log'[n + 1] = r
      /\ \A i \in 1 .. n : log'[i] = log[i]
      /\ Len(log') = n + 1
      /\ log' \in Seq(R \cup {r})
  BY <1>1
<1>3. LogTyped'
  <2> DEFINE S == {log'[i] : i \in DOMAIN log'}
  <2>1. \A i \in 1 .. (n + 1) : log'[i] \in S
    BY <1>2
  <2>2. log' \in [1 .. (n + 1) -> S]
    <3>1. log' \in [1 .. (n + 1) -> R \cup {r}]
      BY <1>2, LenProperties
    <3> HIDE DEF S, R, n
    <3> QED BY <2>1, <3>1
  <2>3. log' \in Seq(S)
    <3> DEFINE m == n + 1
    <3>1. m \in Nat
      BY <1>1
    <3>2. log' \in [1 .. m -> S]
      BY <2>2
    <3> HIDE DEF S, m
    <3>3. log' \in UNION {[1 .. k -> S] : k \in Nat}
      BY <3>1, <3>2
    <3> QED BY <3>3, SeqDef, Zenon
  <2> QED BY <2>3 DEF LogTyped
<1> QED BY <1>1, <1>2, <1>3 DEF Grows

\* A ledger that stays what it is keeps its type, and grows by nothing.
LEMMA Unchanged ==
  ASSUME LogTyped, log' = log
  PROVE  LogTyped' /\ Grows
BY DEF LogTyped, Grows

\* A step that adds no observation, and revives neither a call that is over nor
\* one whose hook died, keeps what is known of the observations.
LEMMA NothingObserved ==
  ASSUME ObservedIsDone, ObservationsAreDecided, LogTyped,
         Grows,
         \A i \in DOMAIN log' : i \in DOMAIN log \/ log'[i].kind # "post-observation",
         \A c \in Calls : phase[c] = "done" => phase'[c] = "done",
         dead \subseteq dead'
  PROVE  ObservedIsDone' /\ ObservationsAreDecided'
<1>1. \A i \in DOMAIN log' : log'[i].kind = "post-observation" =>
        i \in DOMAIN log /\ log'[i] = log[i] /\ IsPost(i)
  BY DEF Grows, IsPost
<1>2. ObservedIsDone'
  BY <1>1 DEF ObservedIsDone, IsPost
<1>3. ObservationsAreDecided'
  <2> SUFFICES ASSUME NEW i \in DOMAIN log', log'[i].kind = "post-observation"
               PROVE  /\ \A j \in DOMAIN log' :
                           log'[j].kind = "post-observation" /\ log'[j].call = log'[i].call => i = j
                      /\ \/ log'[i].call \in dead'
                         \/ \E j \in 1 .. (i - 1) : /\ log'[j].kind = "pre-decision"
                                                    /\ log'[j].call = log'[i].call
                                                    /\ log'[j].action = "approve"
                                                    /\ log'[j].scope = log'[i].scope
                                                    /\ log'[j].digest = log'[i].digest
    BY DEF ObservationsAreDecided, IsPost, IsPre
  <2>1. i \in DOMAIN log /\ log'[i] = log[i] /\ IsPost(i)
    BY <1>1
  <2>2. \A j \in DOMAIN log' :
          log'[j].kind = "post-observation" /\ log'[j].call = log'[i].call => i = j
    BY <1>1, <2>1 DEF ObservationsAreDecided, IsPost
  <2>3. CASE log[i].call \in dead
    BY <2>1, <2>2, <2>3
  <2>4. CASE log[i].call \notin dead
    <3>1. PICK j \in 1 .. (i - 1) : /\ IsPre(j)
                                    /\ log[j].call = log[i].call
                                    /\ log[j].action = "approve"
                                    /\ log[j].scope = log[i].scope
                                    /\ log[j].digest = log[i].digest
      BY <2>1, <2>4 DEF ObservationsAreDecided
    <3>2. DOMAIN log = 1 .. Len(log) /\ Len(log) \in Nat
      BY DEF LogTyped
    <3>3. j \in DOMAIN log
      BY <2>1, <3>2
    <3>4. log'[j] = log[j]
      BY <3>3 DEF Grows
    <3> QED BY <2>1, <2>2, <3>1, <3>4 DEF IsPre
  <2> QED BY <2>3, <2>4
<1> QED BY <1>2, <1>3

\* A pending entry keeps its approval while the ledger grows.
LEMMA StillDecided ==
  ASSUME EntriesAreDecided, Grows, dead \subseteq dead',
         \A c \in Calls \ dead' : pending'[c] \in {pending[c], None}
  PROVE  EntriesAreDecided'
<1> SUFFICES ASSUME NEW c \in Calls \ dead', pending'[c] # None
             PROVE  \E j \in DOMAIN log' : IsApproval(log'[j], c, pending'[c])
  BY DEF EntriesAreDecided, IsApproval
<1>1. pending'[c] = pending[c] /\ c \in Calls \ dead
  OBVIOUS
<1>2. PICK j \in DOMAIN log : IsApproval(log[j], c, pending[c])
  BY <1>1 DEF EntriesAreDecided
<1> QED BY <1>1, <1>2 DEF Grows

-----------------------------------------------------------------------------
(* The steps *)

\* What a transaction of a hook of call c leaves behind: its record and the
\* next phase, or a dead hook.
Outcome(c, r, next) ==
  \/ /\ phase' = [phase EXCEPT ![c] = next]
     /\ dead' = dead
     /\ Len(log) + 1 \in DOMAIN log'
     /\ log'[Len(log) + 1] = r
     /\ \A i \in DOMAIN log' : i \in DOMAIN log \/ i = Len(log) + 1
  \/ /\ phase' = [phase EXCEPT ![c] = FailOpen(c)]
     /\ dead' = dead \cup {c}
     /\ log' = log

\* File does so, and keeps the records before.
LEMMA Filed ==
  ASSUME LogTyped, NEW c, NEW r, NEW next, File(c, r, next)
  PROVE  Outcome(c, r, next) /\ LogTyped' /\ Grows
<1>1. CASE log' = Append(log, r) /\ Move(c, next) /\ UNCHANGED dead
  BY <1>1, Appended DEF Outcome, Move
<1>2. CASE Dies(c) /\ UNCHANGED log
  BY <1>2, Unchanged DEF Outcome, Dies, Move
<1> QED BY <1>1, <1>2 DEF File

\* No transaction takes a call out of the phases, or hooks of another call out
\* of dead.
LEMMA OutcomeTyped ==
  ASSUME Typing, NEW c \in Calls, NEW r, NEW next \in Phases, Outcome(c, r, next)
  PROVE  /\ phase' \in [Calls -> Phases]
         /\ dead' \subseteq Calls
         /\ dead \subseteq dead'
         /\ \A b \in Calls \ {c} : phase'[b] = phase[b]
         /\ phase'[c] \in {next, FailOpen(c)}
         /\ c \notin dead' => phase'[c] = next
<1>1. phase \in [Calls -> Phases] /\ dead \subseteq Calls
  BY DEF Typing, TypeOK
<1>2. FailOpen(c) \in Phases
  BY DEF FailOpen, Phases
<1> QED BY <1>1, <1>2 DEF Outcome

\* A step of a hook leaves the results alone, and no call goes back to before its
\* tool ran.
LEMMA StillReturned ==
  ASSUME RanReturned, NEW c \in Calls, result' = result,
         \A b \in Calls \ {c} : phase'[b] = phase[b],
         phase'[c] = "ran" => phase[c] = "ran",
         phase'[c] = "post-scoped" => phase[c] = "ran"
  PROVE  RanReturned'
BY DEF RanReturned

\* Adopting the scope of the host disturbs no call but its own.
LEMMA EnsureScopeStep ==
  ASSUME IInv, NEW c \in Calls, EnsureScope(c)
  PROVE  IInv'
<1>1. /\ phase[c] \in {"new", "ran"}
      /\ pending' = pending /\ ws' = ws /\ result' = result /\ edits' = edits
      /\ AfterScope(c) \in {"pre-scoped", "post-scoped"}
      /\ AfterScope(c) = "post-scoped" => phase[c] = "ran"
      /\ AfterScope(c) = "pre-scoped" <=> phase[c] = "new"
  BY DEF EnsureScope, AfterScope
<1>2. /\ scope' \in Scopes \cup {None}
      /\ LogTyped' /\ Grows
      /\ dead \subseteq dead' /\ dead' \subseteq Calls
      /\ phase' \in [Calls -> Phases]
      /\ \A b \in Calls \ {c} : phase'[b] = phase[b]
      /\ phase'[c] \in {AfterScope(c), FailOpen(c)}
      /\ c \notin dead' => phase'[c] = AfterScope(c)
      /\ \A i \in DOMAIN log' : i \in DOMAIN log \/ log'[i].kind # "post-observation"
  <2>0. AfterScope(c) \in Phases
    BY <1>1 DEF Phases
  <2>1. CASE /\ Loaded(c) = HostScope[HostOf[c]]
             /\ Move(c, AfterScope(c))
             /\ UNCHANGED <<scope, log, dead>>
    BY <2>0, <2>1, Unchanged DEF IInv, Typing, TypeOK, Move
  <2>2. CASE /\ scope' = HostScope[HostOf[c]]
             /\ File(c, Transition(Loaded(c), scope'), AfterScope(c))
    <3>1. Outcome(c, Transition(Loaded(c), scope'), AfterScope(c)) /\ LogTyped' /\ Grows
      BY <2>2, Filed DEF IInv
    <3>2. scope' \in Scopes
      BY <2>2, SupervisorAssumption DEF Scopes
    <3>3. Transition(Loaded(c), scope').kind # "post-observation"
      BY DEF Transition
    <3> QED BY <2>0, <3>1, <3>2, <3>3, OutcomeTyped DEF IInv, Outcome
  <2> QED BY <2>1, <2>2 DEF EnsureScope
<1>3. Typing'
  BY <1>1, <1>2 DEF IInv, Typing, TypeOK
<1>4. PendingIsOwed'
  BY <1>1, <1>2 DEF IInv, PendingIsOwed
<1>5. EntriesAreDecided'
  BY <1>1, <1>2, StillDecided DEF IInv
<1>6. ObservedIsDone' /\ ObservationsAreDecided'
  BY <1>1, <1>2, NothingObserved DEF IInv
<1>7. EntriesAreOwned'
  BY <1>1 DEF IInv, EntriesAreOwned
<1>8. RanReturned'
  <2>1. FailOpen(c) \in {"allowed", "done"}
    BY DEF FailOpen
  <2> QED BY <1>1, <1>2, <2>1, StillReturned DEF IInv
<1> QED BY <1>2, <1>3, <1>4, <1>5, <1>6, <1>7, <1>8 DEF IInv

\* A hook that dies before it wrote anything leaves only its call in dead.
LEMMA FailHookStep ==
  ASSUME IInv, NEW c \in Calls, FailHook(c)
  PROVE  IInv'
<1>1. /\ phase[c] \in {"new", "pre-scoped", "ran", "post-scoped"}
      /\ dead' = dead \cup {c}
      /\ phase' = [phase EXCEPT ![c] = FailOpen(c)]
      /\ FailOpen(c) \in Phases
      /\ log' = log /\ pending' = pending
      /\ UNCHANGED <<ws, scope, result, edits>>
  BY DEF FailHook, HookRuns, Dies, Move, FailOpen, Phases
<1>2. /\ LogTyped' /\ Grows
      /\ \A b \in Calls \ {c} : phase'[b] = phase[b]
  BY <1>1, Unchanged DEF IInv, Typing, TypeOK
<1>3. Typing'
  BY <1>1 DEF IInv, Typing, TypeOK
<1>4. PendingIsOwed'
  BY <1>1, <1>2 DEF IInv, PendingIsOwed
<1>5. EntriesAreDecided'
  BY <1>1, <1>2, StillDecided DEF IInv
<1>6. ObservedIsDone' /\ ObservationsAreDecided'
  BY <1>1, <1>2, NothingObserved DEF IInv
<1>7. EntriesAreOwned'
  BY <1>1 DEF IInv, EntriesAreOwned
<1>8. RanReturned'
  <2>1. phase'[c] \in {"allowed", "done"}
    BY <1>1 DEF FailOpen, IInv, Typing, TypeOK
  <2> QED BY <1>1, <1>2, <2>1, StillReturned DEF IInv
<1> QED BY <1>2, <1>3, <1>4, <1>5, <1>6, <1>7, <1>8 DEF IInv

\* The tool runs between two hooks of its call.
LEMMA RunToolStep ==
  ASSUME IInv, NEW c \in Calls, RunTool(c)
  PROVE  IInv'
<1>1. /\ phase[c] = "allowed"
      /\ phase' = [phase EXCEPT ![c] = "ran"]
      /\ log' = log /\ pending' = pending
      /\ UNCHANGED <<scope, dead>>
  BY DEF RunTool, Move
<1>2. /\ LogTyped' /\ Grows
      /\ phase' \in [Calls -> Phases]
      /\ \A b \in Calls \ {c} : phase'[b] = phase[b]
  BY <1>1, Unchanged DEF IInv, Typing, TypeOK, Phases
<1>3. ws' \in [Files -> 0 .. MaxVersion] /\ edits' \in 0 .. MaxEdits
  BY SupervisorAssumption DEF RunTool, IInv, Typing, TypeOK
<1>4. Typing'
  <2>1. result' \in [Calls -> Results \cup {None}]
    BY DEF RunTool, IInv, Typing, TypeOK
  <2> QED BY <1>1, <1>2, <1>3, <2>1 DEF IInv, Typing, TypeOK
<1>5. PendingIsOwed'
  BY <1>1, <1>2 DEF IInv, Typing, TypeOK, PendingIsOwed
<1>6. EntriesAreDecided'
  BY <1>1, <1>2, StillDecided DEF IInv
<1>7. ObservedIsDone' /\ ObservationsAreDecided'
  BY <1>1, <1>2, NothingObserved DEF IInv
<1>8. EntriesAreOwned'
  BY <1>1 DEF IInv, EntriesAreOwned
<1>9. RanReturned'
  <2>1. result' \in [Calls -> Results \cup {None}] /\ result'[c] \in Results
        /\ \A b \in Calls \ {c} : result'[b] = result[b]
    BY DEF RunTool, IInv, Typing, TypeOK
  <2> QED BY <1>2, <2>1 DEF IInv, RanReturned
<1> QED BY <1>2, <1>4, <1>5, <1>6, <1>7, <1>8, <1>9 DEF IInv

\* An edit is seen by nobody but the next digest.
LEMMA EditStep ==
  ASSUME IInv, NEW f \in Files, Edit(f)
  PROVE  IInv'
<1>1. /\ UNCHANGED <<scope, pending, log, phase, result, dead>>
      /\ ws' \in [Files -> 0 .. MaxVersion]
      /\ edits' \in 0 .. MaxEdits
  BY SupervisorAssumption DEF Edit, IInv, Typing, TypeOK
<1>2. Typing'
  BY <1>1 DEF IInv, Typing, TypeOK
<1>3. /\ LogTyped' /\ PendingIsOwed' /\ EntriesAreDecided' /\ ObservedIsDone'
      /\ EntriesAreOwned' /\ RanReturned'
  BY <1>1 DEF IInv, LogTyped, PendingIsOwed, EntriesAreDecided, ObservedIsDone, IsPost,
              IsApproval, EntriesAreOwned, RanReturned
<1>4. ObservationsAreDecided'
  BY <1>1 DEF IInv, ObservationsAreDecided, IsPost, IsPre
<1> QED BY <1>2, <1>3, <1>4 DEF IInv

\* A call that is not recognized has no pending entry before or after.
LEMMA UnclassifiedStep ==
  ASSUME IInv, NEW c \in Calls, RecordUnclassifiedPre(c) \/ RecordUnclassifiedPost(c)
  PROVE  IInv'
<1>1. PICK stage \in {"pre", "post"}, next \in {"allowed", "done"} :
        /\ File(c, Unclassified(c, stage), next)
        /\ phase[c] \in {"pre-scoped", "post-scoped"}
        /\ c \in Unrecognized
        /\ UNCHANGED <<ws, scope, pending, result, edits>>
  BY DEF RecordUnclassifiedPre, RecordUnclassifiedPost
<1>2. /\ Outcome(c, Unclassified(c, stage), next) /\ LogTyped' /\ Grows
      /\ next \in Phases
  BY <1>1, Filed DEF IInv, Phases
<1>3. /\ phase' \in [Calls -> Phases]
      /\ dead' \subseteq Calls /\ dead \subseteq dead'
      /\ \A b \in Calls \ {c} : phase'[b] = phase[b]
      /\ phase'[c] \in {next, FailOpen(c)}
  BY <1>2, OutcomeTyped DEF IInv
<1>4. \A i \in DOMAIN log' : i \in DOMAIN log \/ log'[i].kind # "post-observation"
  <2>1. Unclassified(c, stage).kind # "post-observation"
    BY DEF Unclassified
  <2> QED BY <1>2, <2>1 DEF Outcome
<1>5. Typing'
  BY <1>1, <1>3 DEF IInv, Typing, TypeOK
<1>6. PendingIsOwed'
  BY <1>1, <1>3 DEF IInv, PendingIsOwed
<1>7. EntriesAreDecided'
  BY <1>1, <1>2, <1>3, StillDecided DEF IInv
<1>8. ObservedIsDone' /\ ObservationsAreDecided'
  BY <1>1, <1>2, <1>3, <1>4, NothingObserved DEF IInv
<1>9. EntriesAreOwned'
  BY <1>1 DEF IInv, EntriesAreOwned
<1>10. RanReturned'
  <2>1. phase'[c] \in {"allowed", "done"}
    BY <1>1, <1>3 DEF FailOpen
  <2> QED BY <1>1, <1>3, <2>1, StillReturned DEF IInv
<1> QED BY <1>2, <1>5, <1>6, <1>7, <1>8, <1>9, <1>10 DEF IInv

-----------------------------------------------------------------------------
(* The decision *)

\* A digest of declared paths is one of the digests a pending entry may hold.
LEMMA DigestTyped ==
  ASSUME Typing, NEW paths \in SUBSET Patterns
  PROVE  Digest(ws, paths) \in Digests
<1>1. Covered(paths) \subseteq Files
  BY PolicyAssumption DEF Covered
<1>2. [f \in Covered(paths) |-> ws[f]] \in [Covered(paths) -> 0 .. MaxVersion]
  BY <1>1 DEF Typing, TypeOK
<1>3. Digest(ws, paths) \in
        [paths : SUBSET Patterns, files : UNION {[F -> 0 .. MaxVersion] : F \in SUBSET Files}]
  BY <1>1, <1>2 DEF Digest
<1>4. DOMAIN Digest(ws, paths).files = Covered(Digest(ws, paths).paths)
  BY DEF Digest
<1> QED BY <1>3, <1>4 DEF Digests

\* So is the digest of what a scope and a call declare.
LEMMA RelevantDigestTyped ==
  ASSUME Typing, NEW c \in Calls, NEW s \in Scopes
  PROVE  Digest(ws, RelevantPaths(s, Op[c])) \in Digests
<1>1. s.owned \subseteq Patterns /\ Op[c].paths \subseteq Patterns
  BY SupervisorAssumption, Zenon
<1>2. RelevantPaths(s, Op[c]) \in SUBSET Patterns
  BY <1>1 DEF RelevantPaths
<1> QED BY <1>2, DigestTyped

\* What a hook loads is a scope, written or not.
LEMMA LoadedTyped ==
  ASSUME Typing, NEW c \in Calls
  PROVE  Loaded(c) \in Scopes
BY SupervisorAssumption DEF Typing, TypeOK, Loaded, Scopes, DefaultScopes

\* What nothing denies mutates owned files only.
LEMMA ApprovedIsOwned ==
  ASSUME NEW c \in Calls, NEW s, NEW digest, NEW obs,
         Denials(s, Op[c], digest, obs) = {}, Op[c].mutating
  PROVE  NamesOwned(c, s)
<1>1. Op[c].target # "supervisor.transition"
  BY SupervisorAssumption, Zenon
<1>2. MatchedDenials(s, Op[c], digest, obs) = {}
  BY <1>1 DEF Denials
<1>3. ~InvalidChurn(s, Op[c])
  <2> DEFINE churn == InvalidChurn(s, Op[c])
  <2>1. churn => "phase-invalid-churn" \in MatchedDenials(s, Op[c], digest, obs)
    <3> HIDE DEF churn
    <3> QED BY DEF MatchedDenials, churn
  <2> QED BY <1>2, <2>1
<1>4. PathsOwned(Op[c], s) /\ Op[c].paths # {} /\ Op[c].paths \subseteq Files
  BY <1>3 DEF InvalidChurn
<1> QED BY <1>4 DEF PathsOwned, NamesOwned

\* A decision leaves an entry exactly when it approves, and files both.
LEMMA HandlePreStep ==
  ASSUME IInv, NEW c \in Calls, HandlePre(c)
  PROVE  IInv'
<1> DEFINE digest  == Digest(ws, RelevantPaths(Loaded(c), Op[c]))
           denials == Denials(Loaded(c), Op[c], digest, Observations(log))
           entry   == [scope |-> Loaded(c), digest |-> digest]
           next    == IF denials = {} THEN "allowed" ELSE "denied"
           r       == PreDecision(c, digest, denials)
<1>1. /\ phase[c] = "pre-scoped"
      /\ c \notin Unrecognized
      /\ pending' = IF denials = {} THEN [pending EXCEPT ![c] = entry] ELSE pending
      /\ File(c, r, next)
      /\ scope' = Loaded(c)
      /\ UNCHANGED <<ws, result, edits>>
  BY DEF HandlePre
<1>2. entry \in Pending
  <2>1. Loaded(c) \in Scopes
    BY LoadedTyped DEF IInv
  <2>2. digest \in Digests
    BY <2>1, RelevantDigestTyped DEF IInv
  <2> QED BY <2>1, <2>2 DEF Pending
<1>3. denials = {} /\ Op[c].mutating =>
        NamesOwned(c, Loaded(c))
  BY ApprovedIsOwned
<1>4. /\ r.kind = "pre-decision" /\ r.call = c
      /\ r.scope = Loaded(c) /\ r.digest = digest
      /\ denials = {} => r.action = "approve"
  BY DEF PreDecision
<1> HIDE DEF digest, denials, r
<1>5. Outcome(c, r, next) /\ LogTyped' /\ Grows /\ next \in Phases
  BY <1>1, Filed DEF IInv, Phases
<1>6. /\ phase' \in [Calls -> Phases]
      /\ dead' \subseteq Calls /\ dead \subseteq dead'
      /\ \A b \in Calls \ {c} : phase'[b] = phase[b]
      /\ phase'[c] \in {next, FailOpen(c)}
      /\ c \notin dead' => phase'[c] = next
  BY <1>5, OutcomeTyped DEF IInv
<1>7. /\ pending' \in [Calls -> Pending \cup {None}]
      /\ \A b \in Calls \ {c} : pending'[b] = pending[b]
      /\ pending'[c] = IF denials = {} THEN entry ELSE pending[c]
      /\ entry # None
  BY <1>1, <1>2, SupervisorAssumption DEF IInv, Typing
<1>8. Typing'
  BY <1>1, <1>6, <1>7, LoadedTyped DEF IInv, Typing, TypeOK
<1>9. PendingIsOwed'
  BY <1>1, <1>6, <1>7 DEF IInv, PendingIsOwed
<1>10. EntriesAreDecided'
  <2> SUFFICES ASSUME NEW b \in Calls \ dead', pending'[b] # None
               PROVE  \E j \in DOMAIN log' : IsApproval(log'[j], b, pending'[b])
    BY DEF EntriesAreDecided, IsApproval
  <2>1. CASE b = c /\ denials = {}
    <3>1. Len(log) + 1 \in DOMAIN log' /\ log'[Len(log) + 1] = r
      BY <1>5, <2>1 DEF Outcome
    <3>2. IsApproval(r, b, pending'[b])
      BY <1>4, <1>7, <2>1 DEF IsApproval
    <3> QED BY <3>1, <3>2
  <2>2. CASE ~(b = c /\ denials = {})
    <3>1. pending'[b] = pending[b] /\ b \in Calls \ dead
      BY <1>6, <1>7, <2>2
    <3>2. PICK j \in DOMAIN log : IsApproval(log[j], b, pending[b])
      BY <3>1 DEF IInv, EntriesAreDecided
    <3> QED BY <1>5, <3>1, <3>2 DEF Grows
  <2> QED BY <2>1, <2>2
<1>11. ObservedIsDone' /\ ObservationsAreDecided'
  <2>1. \A i \in DOMAIN log' : i \in DOMAIN log \/ log'[i].kind # "post-observation"
    BY <1>4, <1>5 DEF Outcome
  <2> QED BY <1>1, <1>5, <1>6, <2>1, NothingObserved DEF IInv
<1>12. EntriesAreOwned'
  BY <1>3, <1>7 DEF IInv, EntriesAreOwned
<1>13. RanReturned'
  <2>1. phase'[c] \in {"allowed", "denied", "done"}
    BY <1>1, <1>6 DEF FailOpen
  <2> QED BY <1>1, <1>6, <2>1, StillReturned DEF IInv
<1> QED BY <1>5, <1>8, <1>9, <1>10, <1>11, <1>12, <1>13 DEF IInv

-----------------------------------------------------------------------------
(* The observation *)

\* A result is filed with what its entry says, and takes the entry with it.
LEMMA HandlePostStep ==
  ASSUME IInv, NEW c \in Calls, HandlePost(c)
  PROVE  IInv'
<1>1. /\ phase[c] = "post-scoped"
      /\ c \notin Unrecognized
      /\ pending' = [pending EXCEPT ![c] = None]
      /\ scope' = Loaded(c)
      /\ UNCHANGED <<ws, result, edits>>
  BY DEF HandlePost
<1>2. PICK r :
        /\ File(c, r, "done")
        /\ r.kind = "post-observation" =>
             /\ r.call = c
             /\ pending[c] # None
             /\ r.scope = pending[c].scope
             /\ r.digest = pending[c].digest
  <2>1. CASE pending[c] = None /\ File(c, Unclassified(c, "post"), "done")
    BY <2>1 DEF Unclassified
  <2>2. CASE /\ pending[c] # None
             /\ File(c, PostObservation(c, pending[c],
                     Digest(ws, RelevantPaths(pending[c].scope, Op[c]))), "done")
    BY <2>2 DEF PostObservation
  <2>3. CASE pending[c] # None /\ File(c, ReductionError(c), "done")
    BY <2>3 DEF ReductionError
  <2> QED BY <2>1, <2>2, <2>3 DEF HandlePost
<1>3. Outcome(c, r, "done") /\ LogTyped' /\ Grows /\ "done" \in Phases
  BY <1>2, Filed DEF IInv, Phases
<1>4. /\ phase' \in [Calls -> Phases]
      /\ dead' \subseteq Calls /\ dead \subseteq dead'
      /\ \A b \in Calls \ {c} : phase'[b] = phase[b]
      /\ phase'[c] \in {"done", FailOpen(c)}
      /\ c \notin dead' => phase'[c] = "done"
  BY <1>3, OutcomeTyped DEF IInv
<1>5. Typing'
  BY <1>1, <1>4, LoadedTyped DEF IInv, Typing, TypeOK
<1>6. PendingIsOwed'
  BY <1>1, <1>4 DEF IInv, Typing, PendingIsOwed
<1>7. EntriesAreDecided'
  BY <1>1, <1>3, <1>4, StillDecided DEF IInv, Typing
<1>8. EntriesAreOwned'
  BY <1>1 DEF IInv, Typing, EntriesAreOwned
<1>11. RanReturned'
  <2>1. phase'[c] \in {"allowed", "done"}
    BY <1>4 DEF FailOpen
  <2> QED BY <1>1, <1>4, <2>1, StillReturned DEF IInv
<1>9. CASE \A i \in DOMAIN log' : i \in DOMAIN log \/ log'[i].kind # "post-observation"
  <2>1. ObservedIsDone' /\ ObservationsAreDecided'
    BY <1>1, <1>3, <1>4, <1>9, NothingObserved DEF IInv
  <2> QED BY <1>3, <1>5, <1>6, <1>7, <1>8, <1>11, <2>1 DEF IInv
<1>10. CASE \E i \in DOMAIN log' : i \notin DOMAIN log /\ log'[i].kind = "post-observation"
  <2> DEFINE n == Len(log)
  <2>1. /\ n + 1 \in DOMAIN log'
        /\ log'[n + 1] = r
        /\ r.kind = "post-observation"
        /\ \A i \in DOMAIN log' : i \in DOMAIN log \/ i = n + 1
        /\ phase' = [phase EXCEPT ![c] = "done"] /\ dead' = dead
    BY <1>3, <1>10 DEF Outcome
  <2>2. DOMAIN log = 1 .. n /\ n \in Nat
    BY DEF IInv, LogTyped
  <2> HIDE DEF n
  <2>3. \A i \in DOMAIN log : log'[i] = log[i]
    BY <1>3 DEF Grows
  <2>4. \A i \in DOMAIN log : IsPost(i) => log[i].call \in Calls \ {c}
    BY <1>1 DEF IInv, ObservedIsDone
  <2>5. ObservedIsDone'
    BY <1>2, <1>4, <2>1, <2>3, <2>4 DEF IInv, Typing, TypeOK, ObservedIsDone, IsPost
  <2>6. \A i, j \in DOMAIN log' :
          /\ log'[i].kind = "post-observation" /\ log'[j].kind = "post-observation"
          /\ log'[i].call = log'[j].call
          => i = j
    BY <1>2, <2>1, <2>3, <2>4 DEF IInv, ObservationsAreDecided, IsPost
  <2>7. \A i \in DOMAIN log' : log'[i].kind = "post-observation" =>
          \/ log'[i].call \in dead'
          \/ \E j \in 1 .. (i - 1) : /\ log'[j].kind = "pre-decision"
                                     /\ log'[j].call = log'[i].call
                                     /\ log'[j].action = "approve"
                                     /\ log'[j].scope = log'[i].scope
                                     /\ log'[j].digest = log'[i].digest
    <3> SUFFICES ASSUME NEW i \in DOMAIN log', log'[i].kind = "post-observation",
                        log'[i].call \notin dead'
                 PROVE  \E j \in 1 .. (i - 1) : /\ log'[j].kind = "pre-decision"
                                                /\ log'[j].call = log'[i].call
                                                /\ log'[j].action = "approve"
                                                /\ log'[j].scope = log'[i].scope
                                                /\ log'[j].digest = log'[i].digest
      OBVIOUS
    <3>1. CASE i \in DOMAIN log
      <4>1. IsPost(i) /\ log'[i] = log[i] /\ log[i].call \notin dead
        BY <2>1, <2>3, <3>1 DEF IsPost
      <4>2. PICK j \in 1 .. (i - 1) : /\ IsPre(j)
                                      /\ log[j].call = log[i].call
                                      /\ log[j].action = "approve"
                                      /\ log[j].scope = log[i].scope
                                      /\ log[j].digest = log[i].digest
        BY <3>1, <4>1 DEF IInv, ObservationsAreDecided
      <4>3. j \in DOMAIN log
        BY <2>2, <3>1
      <4> QED BY <2>3, <4>1, <4>2, <4>3 DEF IsPre
    <3>2. CASE i = n + 1
      <4>1. r.call = c /\ c \in Calls \ dead /\ pending[c] # None
        BY <1>2, <2>1, <3>2
      <4>2. PICK j \in DOMAIN log : IsApproval(log[j], c, pending[c])
        BY <4>1 DEF IInv, EntriesAreDecided
      <4>3. j \in 1 .. (i - 1)
        BY <2>2, <3>2
      <4> QED BY <1>2, <2>1, <2>3, <3>2, <4>2, <4>3 DEF IsApproval
    <3> QED BY <2>1, <3>1, <3>2
  <2>8. ObservationsAreDecided'
    BY <2>6, <2>7 DEF ObservationsAreDecided, IsPost, IsPre
  <2> QED BY <1>3, <1>5, <1>6, <1>7, <1>8, <1>11, <2>5, <2>8 DEF IInv
<1> QED BY <1>9, <1>10

-----------------------------------------------------------------------------
(* The invariant, and what follows from it *)

\* The invariant holds of a fresh ledger, and every step keeps it.
LEMMA Invariant == Spec => []IInv
<1>1. Init => IInv
  <2> SUFFICES ASSUME Init PROVE IInv
    OBVIOUS
  <2>1. Typing
    BY SupervisorAssumption DEF Init, Typing, TypeOK, Scopes, Phases
  <2>2. LogTyped
    BY DEF Init, LogTyped
  <2>3. PendingIsOwed /\ EntriesAreDecided /\ EntriesAreOwned /\ RanReturned
    BY DEF Init, PendingIsOwed, EntriesAreDecided, EntriesAreOwned, RanReturned
  <2>4. ObservedIsDone /\ ObservationsAreDecided
    BY DEF Init, ObservedIsDone, ObservationsAreDecided
  <2> QED BY <2>1, <2>2, <2>3, <2>4 DEF IInv
<1>2. IInv /\ [Next]_vars => IInv'
  <2> SUFFICES ASSUME IInv, [Next]_vars PROVE IInv'
    OBVIOUS
  <2>1. CASE UNCHANGED vars
    <3>1. Typing' /\ LogTyped'
      BY <2>1 DEF IInv, vars, Typing, TypeOK, LogTyped
    <3>2. PendingIsOwed' /\ EntriesAreDecided' /\ EntriesAreOwned' /\ ObservedIsDone' /\ RanReturned'
      BY <2>1 DEF IInv, vars, PendingIsOwed, EntriesAreDecided, IsApproval, EntriesAreOwned,
                  ObservedIsDone, IsPost, RanReturned
    <3>3. ObservationsAreDecided'
      BY <2>1 DEF IInv, vars, ObservationsAreDecided, IsPost, IsPre
    <3> QED BY <3>1, <3>2, <3>3 DEF IInv
  <2>2. CASE \E c \in Calls : Hook(c)
    BY <2>2, EnsureScopeStep, HandlePreStep, HandlePostStep, UnclassifiedStep DEF Hook
  <2>3. CASE \E c \in Calls : FailHook(c)
    BY <2>3, FailHookStep
  <2>4. CASE \E c \in Calls : RunTool(c)
    BY <2>4, RunToolStep
  <2>5. CASE \E f \in Files : Edit(f)
    BY <2>5, EditStep
  <2> QED BY <2>1, <2>2, <2>3, <2>4, <2>5 DEF Next
<1> QED BY <1>1, <1>2, PTL DEF Spec

\* Scope, files and pending entries stay what the code may write: every entry
\* holds a digest of declared paths under a scope that some host declared.
THEOREM Typed == Spec => []TypeOK
BY Invariant, PTL DEF IInv, Typing

\* However many hosts and calls interleave, the pending entries of the shared
\* state are the approvals that still wait for their observation.
THEOREM PendingIsTheUnfinished == Spec => []PendingIsOwed
BY Invariant, PTL DEF IInv

\* However far the scope, the files and the ledger have moved, a result is filed
\* once, under the scope and the state that approved its call.
THEOREM ObservedAsDecided == Spec => []ObservationsAreDecided
BY Invariant, PTL DEF IInv

\* Whatever the scope is by the time a mutation runs, the scope of its approval
\* owns every file it names.
THEOREM ApprovedMutationsAreOwned == Spec => GuardedMutationsAreOwned
<1>1. IInv /\ [Next]_vars =>
        [\A c \in Calls \ dead :
           (RunTool(c) /\ c \notin Unrecognized /\ Op[c].mutating) =>
             /\ Op[c].paths \cap Files # {}
             /\ \A f \in Op[c].paths : \E p \in pending[c].scope.owned : f \in Covers[p]]_vars
  <2> SUFFICES ASSUME IInv, NEW c \in Calls \ dead,
                      RunTool(c), c \notin Unrecognized, Op[c].mutating
               PROVE  NamesOwned(c, pending[c].scope)
    BY DEF NamesOwned
  <2>1. pending[c] # None
    BY DEF IInv, PendingIsOwed, RunTool
  <2> QED BY <2>1 DEF IInv, EntriesAreOwned
<1> QED BY <1>1, Invariant, PTL DEF Spec, GuardedMutationsAreOwned

-----------------------------------------------------------------------------
(* The history: what every record of a decision or of a result says.  This is *)
(* kept apart from IInv, which its steps use.                                 *)

IsPast(c) == phase[c] \notin {"new", "pre-scoped"}

\* The observations that the decision at place j was taken on.
ObservedBefore(j) == [i \in {n \in 1 .. (j - 1) : IsPost(n)} |-> log[i]]

\* Record r is the decision that the policy takes on the observations obs.
IsDecided(r, obs) ==
  /\ r.call \in Calls
  /\ r.matched = Denials(r.scope, Op[r.call], r.digest, obs)
  /\ r.action = "approve" <=> r.matched = {}

\* Record r is the observation of a call and has the signature of a failure.
IsReduced(r) ==
  /\ r.call \in Calls /\ r.scope \in Scopes
  /\ r.digest \in Digests /\ r.candidate \in Digests
  /\ r.target = Op[r.call].target /\ r.request = Op[r.call].request
  /\ r.class \in {q.class : q \in Results}
  /\ r.signature = Signature(r.scope, Op[r.call], r.digest, [error |-> r.error, class |-> r.class])

DecidedOnHistory ==
  \A j \in DOMAIN log : IsPre(j) => IsDecided(log[j], ObservedBefore(j))

ObservedIsReduced == \A i \in DOMAIN log : IsPost(i) => IsReduced(log[i])

\* A call has an entry, and a decision in the ledger, only after its pre hook.
DecisionsArePast ==
  /\ \A j \in DOMAIN log : IsPre(j) => IsPast(log[j].call)
  /\ \A c \in Calls : pending[c] # None => IsPast(c)

\* Dead hooks or not: an entry, or an observation, of a call whose decision is
\* in the ledger is that decision's.
EntriesAgree ==
  \A j \in DOMAIN log : IsPre(j) /\ pending[log[j].call] # None =>
    IsApproval(log[j], log[j].call, pending[log[j].call])

ObservationsAgree ==
  \A j, k \in DOMAIN log : IsPre(j) /\ IsPost(k) /\ log[j].call = log[k].call =>
    IsApproval(log[j], log[k].call, log[k])

History ==
  /\ DecidedOnHistory
  /\ ObservedIsReduced
  /\ DecisionsArePast
  /\ EntriesAgree
  /\ ObservationsAgree

\* What was observed before a place does not change while the ledger grows.
LEMMA SameHistory ==
  ASSUME LogTyped, Grows, NEW j, j \in DOMAIN log \/ j = Len(log) + 1
  PROVE  /\ ObservedBefore(j)' = ObservedBefore(j)
         /\ j = Len(log) + 1 => ObservedBefore(j) = Observations(log)
<1>1. DOMAIN log = 1 .. Len(log) /\ Len(log) \in Nat
  BY DEF LogTyped
<1>2. \A n \in 1 .. (j - 1) : n \in DOMAIN log /\ log'[n] = log[n]
  BY <1>1 DEF Grows
<1>3. ObservedBefore(j)' = [i \in {n \in 1 .. (j - 1) : log'[n].kind = "post-observation"} |-> log'[i]]
  BY DEF ObservedBefore, IsPost
<1>4. {n \in 1 .. (j - 1) : log'[n].kind = "post-observation"} = {n \in 1 .. (j - 1) : IsPost(n)}
  BY <1>2 DEF IsPost
<1>5. ObservedBefore(j)' = ObservedBefore(j)
  BY <1>2, <1>3, <1>4 DEF ObservedBefore
<1>6. j = Len(log) + 1 => ObservedBefore(j) = Observations(log)
  BY <1>1 DEF ObservedBefore, Observations, IsPost
<1> QED BY <1>5, <1>6

\* The history survives a step that adds neither a decision nor an observation
\* and makes no entry.
LEMMA NothingDecided ==
  ASSUME IInv, History, LogTyped', Grows,
         \A i \in DOMAIN log' :
           i \in DOMAIN log \/ log'[i].kind \notin {"pre-decision", "post-observation"},
         \A c \in Calls : IsPast(c) => IsPast(c)',
         \A c \in Calls : pending'[c] \in {pending[c], None}
  PROVE  History'
<1>1. \A i \in DOMAIN log' : log'[i].kind \in {"pre-decision", "post-observation"} =>
        i \in DOMAIN log /\ log'[i] = log[i] /\ IsPre(i)' = IsPre(i) /\ IsPost(i)' = IsPost(i)
  BY DEF Grows, IsPre, IsPost
<1>2. \A i \in DOMAIN log : IsPre(i) \/ IsPost(i) => log[i].call \in Calls
  BY DEF IInv, ObservedIsDone, History, DecidedOnHistory, IsDecided
<1>3. DecidedOnHistory'
  <2> SUFFICES ASSUME NEW j \in DOMAIN log', IsPre(j)'
               PROVE  IsDecided(log[j], ObservedBefore(j))'
    BY DEF DecidedOnHistory
  <2>1. j \in DOMAIN log /\ log'[j] = log[j] /\ IsPre(j)
    BY <1>1 DEF IsPre
  <2>2. ObservedBefore(j)' = ObservedBefore(j)
    BY <2>1, SameHistory DEF IInv
  <2>3. IsDecided(log[j], ObservedBefore(j))
    BY <2>1 DEF History, DecidedOnHistory
  <2> QED BY <2>1, <2>2, <2>3 DEF IsDecided
<1>4. ObservedIsReduced'
  <2> SUFFICES ASSUME NEW j \in DOMAIN log', IsPost(j)'
               PROVE  IsReduced(log[j])'
    BY DEF ObservedIsReduced
  <2>1. j \in DOMAIN log /\ log'[j] = log[j] /\ IsPost(j)
    BY <1>1 DEF IsPost
  <2> QED BY <2>1 DEF History, ObservedIsReduced, IsReduced
<1>5. DecisionsArePast'
  BY <1>1, <1>2 DEF History, DecisionsArePast, IsPre
<1>6. EntriesAgree'
  BY <1>1, <1>2 DEF History, EntriesAgree, IsPre, IsApproval
<1>7. ObservationsAgree'
  BY <1>1 DEF History, ObservationsAgree, IsPre, IsPost, IsApproval
<1> QED BY <1>3, <1>4, <1>5, <1>6, <1>7 DEF History

\* The steps that decide and observe nothing.
LEMMA OtherHistory ==
  ASSUME IInv, IInv', History,
         \/ UNCHANGED vars
         \/ \E c \in Calls : \/ EnsureScope(c) \/ RecordUnclassifiedPre(c)
                             \/ RecordUnclassifiedPost(c) \/ FailHook(c) \/ RunTool(c)
         \/ \E f \in Files : Edit(f)
  PROVE  History'
<1>1. CASE UNCHANGED vars \/ \E f \in Files : Edit(f)
  <2>1. UNCHANGED <<log, phase, pending>>
    BY <1>1 DEF vars, Edit
  <2>2. Grows
    BY <2>1, Unchanged DEF IInv
  <2> QED BY <2>1, <2>2, NothingDecided DEF IInv, IsPast
<1>2. CASE \E c \in Calls : FailHook(c) \/ RunTool(c)
  <2>1. UNCHANGED <<log, pending>>
    BY <1>2 DEF FailHook, RunTool
  <2>2. Grows
    BY <2>1, Unchanged DEF IInv
  <2>3. \A c \in Calls : IsPast(c) => IsPast(c)'
    BY <1>2 DEF IInv, Typing, TypeOK, IsPast, FailHook, RunTool, Dies, Move, FailOpen
  <2> QED BY <2>1, <2>2, <2>3, NothingDecided DEF IInv
<1>3. CASE \E c \in Calls : \/ EnsureScope(c) \/ RecordUnclassifiedPre(c)
                            \/ RecordUnclassifiedPost(c)
  <2>1. PICK c \in Calls : \/ EnsureScope(c) \/ RecordUnclassifiedPre(c)
                           \/ RecordUnclassifiedPost(c)
    BY <1>3
  <2>2. pending' = pending
    BY <2>1 DEF EnsureScope, RecordUnclassifiedPre, RecordUnclassifiedPost
  <2>3. \/ /\ UNCHANGED log
           /\ Move(c, AfterScope(c))
        \/ \E r, next : /\ File(c, r, next)
                        /\ r.kind \notin {"pre-decision", "post-observation"}
                        /\ next \in {AfterScope(c), "allowed", "done"}
    BY <2>1 DEF EnsureScope, RecordUnclassifiedPre, RecordUnclassifiedPost,
                Transition, Unclassified
  <2>4. IsPast(c) => AfterScope(c) \notin {"new", "pre-scoped"}
    BY DEF IsPast, AfterScope
  <2>5. FailOpen(c) \notin {"new", "pre-scoped"}
    BY DEF FailOpen
  <2>6. /\ Grows
        /\ \A i \in DOMAIN log' :
             i \in DOMAIN log \/ log'[i].kind \notin {"pre-decision", "post-observation"}
        /\ \A b \in Calls : IsPast(b) => IsPast(b)'
    <3>1. CASE UNCHANGED log /\ Move(c, AfterScope(c))
      BY <2>4, <3>1, Unchanged DEF IInv, Typing, TypeOK, IsPast, Move
    <3>2. CASE \E r, next : /\ File(c, r, next)
                            /\ r.kind \notin {"pre-decision", "post-observation"}
                            /\ next \in {AfterScope(c), "allowed", "done"}
      <4>1. PICK r, next : /\ File(c, r, next)
                           /\ r.kind \notin {"pre-decision", "post-observation"}
                           /\ next \in {AfterScope(c), "allowed", "done"}
        BY <3>2
      <4>2. Outcome(c, r, next) /\ Grows
        BY <4>1, Filed DEF IInv
      <4> QED BY <2>4, <2>5, <4>1, <4>2 DEF Outcome, IInv, Typing, TypeOK, IsPast
    <3> QED BY <2>3, <3>1, <3>2
  <2> QED BY <2>2, <2>6, NothingDecided DEF IInv
<1> QED BY <1>1, <1>2, <1>3

\* A decision is the policy's, on all that the ledger has observed by then.
LEMMA HandlePreHistory ==
  ASSUME IInv, IInv', History, NEW c \in Calls, HandlePre(c)
  PROVE  History'
<1> DEFINE digest  == Digest(ws, RelevantPaths(Loaded(c), Op[c]))
           denials == Denials(Loaded(c), Op[c], digest, Observations(log))
           entry   == [scope |-> Loaded(c), digest |-> digest]
           next    == IF denials = {} THEN "allowed" ELSE "denied"
           r       == PreDecision(c, digest, denials)
           n       == Len(log) + 1
<1>1. /\ phase[c] = "pre-scoped"
      /\ pending' = IF denials = {} THEN [pending EXCEPT ![c] = entry] ELSE pending
      /\ File(c, r, next)
  BY DEF HandlePre
<1>2. /\ r.kind = "pre-decision" /\ r.call = c
      /\ r.scope = Loaded(c) /\ r.digest = digest /\ r.matched = denials
      /\ r.action = IF denials = {} THEN "approve" ELSE "deny"
      /\ entry.scope = Loaded(c) /\ entry.digest = digest
  BY DEF PreDecision
<1>3. denials = Denials(Loaded(c), Op[c], digest, Observations(log))
  OBVIOUS
<1> HIDE DEF digest, denials, r, entry
<1>4. Outcome(c, r, next) /\ LogTyped' /\ Grows
  BY <1>1, Filed DEF IInv
<1>5. /\ pending[c] = None
      /\ \A j \in DOMAIN log : IsPre(j) \/ IsPost(j) => log[j].call \in Calls \ {c}
  BY <1>1 DEF IInv, ObservedIsDone, History, DecidedOnHistory, IsDecided,
              DecisionsArePast, IsPast
<1>6. /\ \A b \in Calls \ {c} : pending'[b] = pending[b] /\ phase'[b] = phase[b]
      /\ pending'[c] = IF denials = {} THEN entry ELSE None
      /\ IsPast(c)'
  <2>1. phase'[c] \in {next, FailOpen(c)} /\ \A b \in Calls \ {c} : phase'[b] = phase[b]
    BY <1>4 DEF Outcome, IInv, Typing, TypeOK
  <2> QED BY <1>1, <1>5, <2>1 DEF IInv, Typing, FailOpen, IsPast
<1>7. CASE log' = log
  <2>1. DecidedOnHistory' /\ ObservedIsReduced' /\ ObservationsAgree'
    BY <1>7 DEF History, DecidedOnHistory, ObservedIsReduced, ObservationsAgree, IsPre, IsPost,
                IsDecided, ObservedBefore, IsReduced, IsApproval
  <2>2. DecisionsArePast'
    BY <1>5, <1>6, <1>7 DEF History, DecisionsArePast, IsPre, IsPast
  <2>3. EntriesAgree'
    BY <1>5, <1>6, <1>7 DEF History, EntriesAgree, IsPre, IsApproval
  <2> QED BY <2>1, <2>2, <2>3 DEF History
<1>8. CASE n \in DOMAIN log' /\ log'[n] = r /\ \A i \in DOMAIN log' : i \in DOMAIN log \/ i = n
  <2>0. \A i \in DOMAIN log : i # n
    BY DEF IInv, LogTyped
  <2>1. \A i \in DOMAIN log' :
          \/ i = n /\ log'[i] = r /\ IsPre(i)' /\ ~IsPost(i)'
          \/ i \in DOMAIN log /\ log'[i] = log[i] /\ IsPre(i)' = IsPre(i) /\ IsPost(i)' = IsPost(i)
    BY <1>2, <1>4, <1>8 DEF Grows, IsPre, IsPost
  <2>2. DecidedOnHistory'
    <3> SUFFICES ASSUME NEW j \in DOMAIN log', IsPre(j)'
                 PROVE  IsDecided(log[j], ObservedBefore(j))'
      BY DEF DecidedOnHistory
    <3>1. ObservedBefore(j)' = ObservedBefore(j)
      BY <1>4, <2>1, SameHistory DEF IInv
    <3>2. CASE j = n
      <4>1. ObservedBefore(j) = Observations(log)
        BY <1>4, <3>2, SameHistory DEF IInv
      <4> QED BY <1>2, <1>3, <1>8, <3>1, <3>2, <4>1 DEF IsDecided
    <3>3. CASE j \in DOMAIN log
      <4>1. log'[j] = log[j] /\ IsPre(j)
        BY <2>0, <2>1, <3>3
      <4>2. IsDecided(log[j], ObservedBefore(j))
        BY <3>3, <4>1 DEF History, DecidedOnHistory
      <4> QED BY <3>1, <4>1, <4>2 DEF IsDecided
    <3> QED BY <2>1, <3>2, <3>3
  <2>3. ObservedIsReduced'
    BY <2>1 DEF History, ObservedIsReduced, IsReduced
  <2>4. DecisionsArePast'
    BY <1>2, <1>5, <1>6, <2>1 DEF History, DecisionsArePast, IsPast
  <2>5. EntriesAgree'
    <3>1. IsApproval(r, c, entry) \/ denials # {}
      BY <1>2 DEF IsApproval
    <3> SUFFICES ASSUME NEW j \in DOMAIN log', IsPre(j)', pending'[log'[j].call] # None
                 PROVE  IsApproval(log'[j], log'[j].call, pending'[log'[j].call])
      BY DEF EntriesAgree, IsApproval
    <3>2. CASE j = n
      BY <1>2, <1>6, <1>8, <3>1, <3>2
    <3>3. CASE j \in DOMAIN log
      BY <1>5, <1>6, <2>0, <2>1, <3>3 DEF History, EntriesAgree
    <3> QED BY <2>1, <3>2, <3>3
  <2>6. ObservationsAgree'
    BY <1>2, <1>5, <2>1 DEF History, ObservationsAgree, IsApproval
  <2> QED BY <2>2, <2>3, <2>4, <2>5, <2>6 DEF History
<1> QED BY <1>4, <1>7, <1>8 DEF Outcome

\* A result is reduced from its entry, which is the decision's if there is one.
LEMMA HandlePostHistory ==
  ASSUME IInv, IInv', History, NEW c \in Calls, HandlePost(c)
  PROVE  History'
<1> DEFINE candidate == Digest(ws, RelevantPaths(pending[c].scope, Op[c]))
           r == PostObservation(c, pending[c], candidate)
           n == Len(log) + 1
<1>1. /\ phase[c] = "post-scoped"
      /\ pending' = [pending EXCEPT ![c] = None]
      /\ \A b \in Calls : pending'[b] \in {pending[b], None}
  BY DEF HandlePost, IInv, Typing
<1>2. CASE \E q : File(c, q, "done") /\ q.kind \notin {"pre-decision", "post-observation"}
  <2>1. PICK q : File(c, q, "done") /\ q.kind \notin {"pre-decision", "post-observation"}
    BY <1>2
  <2>2. Outcome(c, q, "done") /\ Grows
    BY <2>1, Filed DEF IInv
  <2>3. \A b \in Calls : IsPast(b) => IsPast(b)'
    BY <1>1, <2>2 DEF Outcome, IInv, Typing, TypeOK, IsPast, FailOpen
  <2>4. \A i \in DOMAIN log' :
          i \in DOMAIN log \/ log'[i].kind \notin {"pre-decision", "post-observation"}
    BY <2>1, <2>2 DEF Outcome
  <2> QED BY <1>1, <2>2, <2>3, <2>4, NothingDecided DEF IInv
<1>3. CASE pending[c] # None /\ File(c, r, "done")
  <2>1. /\ pending[c] \in Pending
        /\ pending[c].scope \in Scopes /\ pending[c].digest \in Digests
    BY <1>3 DEF IInv, Typing, Pending
  <2>2. candidate \in Digests
    BY <2>1, RelevantDigestTyped DEF IInv
  <2>3. IsReduced(r)
    <3>1. result[c] \in Results
      BY <1>1 DEF IInv, RanReturned
    <3>2. Signature(pending[c].scope, Op[c], pending[c].digest, result[c]) =
            Signature(pending[c].scope, Op[c], pending[c].digest,
                      [error |-> result[c].error, class |-> result[c].class])
      BY DEF Signature
    <3> QED BY <2>1, <2>2, <3>1, <3>2 DEF IsReduced, PostObservation
  <2>4. /\ r.kind = "post-observation" /\ r.call = c
        /\ r.scope = pending[c].scope /\ r.digest = pending[c].digest
    BY DEF PostObservation
  <2> HIDE DEF candidate, r
  <2>5. Outcome(c, r, "done") /\ Grows
    BY <1>3, Filed DEF IInv
  <2>6. \A b \in Calls : IsPast(b) => IsPast(b)'
    BY <1>1, <2>5 DEF Outcome, IInv, Typing, TypeOK, IsPast, FailOpen
  <2>7. CASE log' = log
    <3>1. \A i \in DOMAIN log' : i \in DOMAIN log
      BY <2>7
    <3> QED BY <1>1, <2>5, <2>6, <3>1, NothingDecided DEF IInv
  <2>8. CASE n \in DOMAIN log' /\ log'[n] = r /\ \A i \in DOMAIN log' : i \in DOMAIN log \/ i = n
    <3>1. \A i \in DOMAIN log' :
            \/ i = n /\ log'[i] = r /\ ~IsPre(i)' /\ IsPost(i)'
            \/ i \in DOMAIN log /\ log'[i] = log[i] /\ IsPre(i)' = IsPre(i) /\ IsPost(i)' = IsPost(i)
      BY <2>4, <2>5, <2>8 DEF Grows, IsPre, IsPost
    <3>2. \A i \in DOMAIN log : IsPre(i) => log[i].call \in Calls
      BY DEF History, DecidedOnHistory, IsDecided
    <3>3. DecidedOnHistory'
      <4> SUFFICES ASSUME NEW j \in DOMAIN log', IsPre(j)'
                   PROVE  IsDecided(log[j], ObservedBefore(j))'
        BY DEF DecidedOnHistory
      <4>1. j \in DOMAIN log /\ log'[j] = log[j] /\ IsPre(j)
        BY <3>1
      <4>2. ObservedBefore(j)' = ObservedBefore(j)
        BY <2>5, <4>1, SameHistory DEF IInv
      <4>3. IsDecided(log[j], ObservedBefore(j))
        BY <4>1 DEF History, DecidedOnHistory
      <4> QED BY <4>1, <4>2, <4>3 DEF IsDecided
    <3>4. ObservedIsReduced'
      BY <2>3, <3>1 DEF History, ObservedIsReduced, IsReduced
    <3>5. DecisionsArePast'
      BY <1>1, <2>6, <3>1, <3>2 DEF History, DecisionsArePast
    <3>6. EntriesAgree'
      BY <1>1, <3>1, <3>2 DEF History, EntriesAgree, IsApproval
    <3>7. ObservationsAgree'
      <4> SUFFICES ASSUME NEW j \in DOMAIN log', NEW k \in DOMAIN log', IsPre(j)', IsPost(k)',
                          log'[j].call = log'[k].call
                   PROVE  IsApproval(log'[j], log'[k].call, log'[k])
        BY DEF ObservationsAgree, IsApproval
      <4>1. j \in DOMAIN log /\ log'[j] = log[j] /\ IsPre(j)
        BY <3>1
      <4>2. CASE k = n
        <5>1. log'[k] = r /\ log[j].call = c
          BY <2>4, <2>8, <4>1, <4>2
        <5>2. IsApproval(log[j], c, pending[c])
          BY <1>3, <4>1, <5>1 DEF History, EntriesAgree
        <5> QED BY <2>4, <4>1, <5>1, <5>2 DEF IsApproval
      <4>3. CASE k \in DOMAIN log /\ log'[k] = log[k] /\ IsPost(k)
        BY <4>1, <4>3 DEF History, ObservationsAgree
      <4> QED BY <3>1, <4>2, <4>3
    <3> QED BY <3>3, <3>4, <3>5, <3>6, <3>7 DEF History
  <2> QED BY <2>5, <2>7, <2>8 DEF Outcome
<1>4. (pending[c] # None /\ File(c, r, "done"))
      \/ \E q : File(c, q, "done") /\ q.kind \notin {"pre-decision", "post-observation"}
  <2>1. Unclassified(c, "post").kind = "unclassified-observation"
    BY DEF Unclassified
  <2>2. ReductionError(c).kind = "reduction-error"
    BY DEF ReductionError
  <2> QED BY <2>1, <2>2 DEF HandlePost
<1> QED BY <1>2, <1>3, <1>4

\* Every record of a decision or a result in the ledger says what it should.
LEMMA HistoryInvariant == Spec => [](IInv /\ History)
<1>1. Init => History
  BY DEF Init, History, DecidedOnHistory, ObservedIsReduced, DecisionsArePast, EntriesAgree,
         ObservationsAgree
<1>2. IInv /\ IInv' /\ History /\ [Next]_vars => History'
  BY OtherHistory, HandlePreHistory, HandlePostHistory DEF Next, Hook
<1> QED BY <1>1, <1>2, Invariant, PTL DEF Spec

-----------------------------------------------------------------------------
(* What the history of observations allows and denies *)

\* A reason is in the denials exactly when its predicate holds.
LEMMA Denied ==
  ASSUME NEW s, NEW op, NEW digest, NEW obs, op.target # "supervisor.transition"
  PROVE  LET D == Denials(s, op, digest, obs)
         IN  /\ "mixed-candidate-state" \in D <=> MixedCandidate(s, obs, digest)
             /\ "wrong-observation-channel" \in D <=> WrongChannel(obs, op)
             /\ "identical-retry" \in D <=> IdenticalRetry(obs, op, digest)
             /\ "failure-cluster-exhausted" \in D <=> ClusterExhausted(obs, op, digest)
<1> DEFINE mixed == MixedCandidate(s, obs, digest)
           wrong == WrongChannel(obs, op)
           retry == IdenticalRetry(obs, op, digest)
           cluster == ClusterExhausted(obs, op, digest)
           churn == InvalidChurn(s, op)
<1>1. Denials(s, op, digest, obs) = MatchedDenials(s, op, digest, obs)
  BY DEF Denials
<1>2. /\ mixed <=> MixedCandidate(s, obs, digest)
      /\ wrong <=> WrongChannel(obs, op)
      /\ retry <=> IdenticalRetry(obs, op, digest)
      /\ cluster <=> ClusterExhausted(obs, op, digest)
  OBVIOUS
<1>3. LET M == MatchedDenials(s, op, digest, obs)
      IN  /\ "mixed-candidate-state" \in M <=> mixed
          /\ "wrong-observation-channel" \in M <=> wrong
          /\ "identical-retry" \in M <=> retry
          /\ "failure-cluster-exhausted" \in M <=> cluster
  <2> HIDE DEF mixed, wrong, retry, cluster, churn
  <2> QED BY DEF MatchedDenials, mixed, wrong, retry, cluster, churn
<1> HIDE DEF mixed, wrong, retry, cluster, churn
<1> QED BY <1>1, <1>2, <1>3

\* A nonempty set of places of a ledger has a last one.
LEMMA MaxOfPlaces ==
  ASSUME NEW n \in Nat, NEW S \in SUBSET (1 .. n), S # {}
  PROVE  Max(S) \in S /\ \A x \in S : x <= Max(S)
<1> DEFINE above == {m \in Nat : \A x \in S : x <= m}
           R == OpToRel(<, Nat)
<1>1. above \subseteq Nat /\ n \in above
  OBVIOUS
<1>2. \E m \in above : \A k \in above : <<k, m>> \notin R
  <2> HIDE DEF above, R
  <2>1. IsWellFoundedOn(R, Nat)
    BY NatLessThanWellFounded DEF R
  <2> QED BY <1>1, <2>1, WFMin
<1>3. PICK m \in above : \A k \in above : ~ (k < m)
  BY <1>1, <1>2 DEF OpToRel
<1>4. m \in Nat /\ \A x \in S : x \in Nat /\ x <= m
  OBVIOUS
<1>5. m \in S
  <2> SUFFICES ASSUME m \notin S PROVE FALSE
    OBVIOUS
  <2> HIDE DEF above, R
  <2>1. \A x \in S : x < m
    BY <1>4
  <2>2. m - 1 \in Nat
    <3>1. PICK x \in S : TRUE
      OBVIOUS
    <3>2. x \in Nat /\ x < m
      BY <1>4, <2>1, <3>1
    <3> QED BY <1>4, <3>2
  <2>3. \A x \in S : x <= m - 1
    BY <1>4, <2>1
  <2>4. m - 1 \in above
    BY <2>2, <2>3 DEF above
  <2> QED BY <1>3, <1>4, <2>4
<1> QED BY <1>4, <1>5 DEF Max

\* What a decision that is not about a transition was taken on.
LEMMA DecisionAt ==
  ASSUME LogTyped, History, NEW k \in DOMAIN log, IsPre(k),
         Op[log[k].call].target # "supervisor.transition"
  PROVE  LET obs == ObservedBefore(k)
             op  == Op[log[k].call]
             D   == log[k].matched
         IN  /\ log[k].action = "approve" <=> D = {}
             /\ "mixed-candidate-state" \in D <=> MixedCandidate(log[k].scope, obs, log[k].digest)
             /\ "wrong-observation-channel" \in D <=> WrongChannel(obs, op)
             /\ "identical-retry" \in D <=> IdenticalRetry(obs, op, log[k].digest)
             /\ "failure-cluster-exhausted" \in D <=> ClusterExhausted(obs, op, log[k].digest)
<1>1. IsDecided(log[k], ObservedBefore(k))
  BY DEF History, DecidedOnHistory
<1>2. log[k].matched = Denials(log[k].scope, Op[log[k].call], log[k].digest, ObservedBefore(k))
  BY <1>1 DEF IsDecided
<1>3. log[k].action = "approve" <=> log[k].matched = {}
  BY <1>1 DEF IsDecided
<1> QED BY <1>2, <1>3, Denied

\* The observations before a place are those records of the ledger.
LEMMA ObservationsAt ==
  ASSUME LogTyped, NEW k \in DOMAIN log
  PROVE  /\ k \in Nat /\ k - 1 \in Nat
         /\ \A i \in DOMAIN log : i < k => i \in 1 .. (k - 1)
         /\ DOMAIN ObservedBefore(k) = {n \in 1 .. (k - 1) : IsPost(n)}
         /\ \A n \in DOMAIN ObservedBefore(k) :
              n \in DOMAIN log /\ n < k /\ IsPost(n) /\ ObservedBefore(k)[n] = log[n]
<1>1. DOMAIN log = 1 .. Len(log) /\ Len(log) \in Nat
  BY DEF LogTyped
<1>2. k \in Nat /\ k - 1 \in Nat
  BY <1>1
<1>3. \A n \in 1 .. (k - 1) : n \in DOMAIN log /\ n < k
  BY <1>1, <1>2
<1>4. \A i \in DOMAIN log : i < k => i \in 1 .. (k - 1)
  BY <1>1, <1>2
<1> QED BY <1>2, <1>3, <1>4 DEF ObservedBefore

\* If nothing was observed between i and k, observation i is the last before k.
LEMMA LatestObserved ==
  ASSUME LogTyped, NEW i \in DOMAIN log, NEW k \in DOMAIN log, i < k, IsPost(i),
         \A n \in (i + 1) .. (k - 1) : ~IsPost(n)
  PROVE  /\ i \in DOMAIN ObservedBefore(k)
         /\ Latest(ObservedBefore(k)) = log[i]
<1> DEFINE S == {n \in 1 .. (k - 1) : IsPost(n)}
<1>1. /\ DOMAIN ObservedBefore(k) = S
      /\ i \in 1 .. (k - 1) /\ k - 1 \in Nat
      /\ \A n \in S : ObservedBefore(k)[n] = log[n]
  BY ObservationsAt
<1>2. i \in S
  BY <1>1
<1>3. Max(S) \in S /\ \A n \in S : n <= Max(S)
  BY <1>1, <1>2, MaxOfPlaces
<1>4. \A n \in S : n <= i
  <2> SUFFICES ASSUME NEW n \in 1 .. (k - 1), IsPost(n) PROVE n <= i
    OBVIOUS
  <2>1. n \notin (i + 1) .. (k - 1)
    OBVIOUS
  <2> QED BY <1>1, <2>1
<1>5. Max(S) = i
  <2>1. Max(S) \in 1 .. (k - 1)
    BY <1>3
  <2> HIDE DEF S
  <2> QED BY <1>1, <1>2, <1>3, <1>4, <2>1
<1> HIDE DEF S
<1> QED BY <1>1, <1>2, <1>5 DEF Latest

LEMMA RetriesFailed ==
  ASSUME IInv, History
  PROVE  SuccessIsNoRetry
<1> SUFFICES ASSUME NEW k \in DOMAIN log, IsPre(k), "identical-retry" \in log[k].matched
             PROVE  \E j \in 1 .. (k - 1) : /\ IsPost(j)
                                            /\ log[j].error
                                            /\ log[j].request = Op[log[k].call].request
                                            /\ log[j].digest = log[k].digest
  BY DEF SuccessIsNoRetry
<1> DEFINE obs == ObservedBefore(k)
           op  == Op[log[k].call]
<1>1. op.target # "supervisor.transition"
  BY DEF History, DecidedOnHistory, IsDecided, Denials
<1>2. IdenticalRetry(obs, op, log[k].digest)
  BY <1>1, DecisionAt DEF IInv
<1>3. PICK j \in DOMAIN obs : /\ obs[j].error
                              /\ obs[j].request = op.request
                              /\ obs[j].digest = log[k].digest
  BY <1>2 DEF IdenticalRetry, Failures
<1>4. j \in 1 .. (k - 1) /\ IsPost(j) /\ obs[j] = log[j]
  BY <1>3, ObservationsAt DEF IInv
<1> QED BY <1>3, <1>4

LEMMA CandidateIsKept ==
  ASSUME IInv, History
  PROVE  EvaluationsSeeOneCandidate
<1> SUFFICES ASSUME NEW i \in DOMAIN log, NEW j \in DOMAIN log, NEW k \in DOMAIN log,
                    i < j, j < k, IsPost(i), IsPre(j), IsPost(k),
                    log[j].call = log[k].call,
                    log[j].scope.activity \in {"evaluate", "collect-evidence"},
                    Op[log[j].call].target # "supervisor.transition",
                    \A n \in (i + 1) .. (j - 1) : ~IsPost(n)
             PROVE  log[k].digest = log[i].candidate
  BY DEF EvaluationsSeeOneCandidate
<1> DEFINE obs == ObservedBefore(j)
<1>1. log[j].action = "approve" /\ log[j].digest = log[k].digest
  BY DEF History, ObservationsAgree, IsApproval
<1>2. ~MixedCandidate(log[j].scope, obs, log[j].digest)
  BY <1>1, DecisionAt DEF IInv
<1>3. i \in DOMAIN obs /\ Latest(obs) = log[i]
  BY LatestObserved DEF IInv
<1>4. log[i].candidate # None
  BY SupervisorAssumption DEF History, ObservedIsReduced, IsReduced
<1> HIDE DEF obs
<1>5. ActiveCandidate(obs) = log[i].candidate
  BY <1>3 DEF ActiveCandidate
<1> QED BY <1>1, <1>2, <1>4, <1>5 DEF MixedCandidate

LEMMA ChannelIsKept ==
  ASSUME IInv, History
  PROVE  ChannelStaysRequired
<1> SUFFICES ASSUME NEW i \in DOMAIN log, NEW k \in DOMAIN log,
                    i < k, IsPost(i), log[i].channel # None, log[i].introduces # {},
                    \A n \in (i + 1) .. (k - 1) : IsPost(n) =>
                      log[n].channel = None /\ log[n].resolves \cap log[i].introduces = {},
                    IsPre(k), log[k].action = "approve",
                    Op[log[k].call].target # "supervisor.transition"
             PROVE  Op[log[k].call].channel = log[i].channel
  BY DEF ChannelStaysRequired
<1> DEFINE obs == ObservedBefore(k)
           asked == {n \in DOMAIN obs : obs[n].channel # None}
<1>1. /\ k - 1 \in Nat
      /\ DOMAIN obs = {n \in 1 .. (k - 1) : IsPost(n)}
      /\ \A n \in DOMAIN obs : obs[n] = log[n]
      /\ i \in 1 .. (k - 1)
  BY ObservationsAt DEF IInv
<1>2. ~WrongChannel(obs, Op[log[k].call])
  BY DecisionAt DEF IInv
<1> HIDE DEF obs
<1>3. i \in asked /\ asked \in SUBSET (1 .. (k - 1))
  BY <1>1
<1>4. Max(asked) \in asked /\ \A n \in asked : n <= Max(asked)
  <2> HIDE DEF asked
  <2> QED BY <1>1, <1>3, MaxOfPlaces
<1>5. \A n \in DOMAIN obs : i < n => n \in (i + 1) .. (k - 1) /\ IsPost(n)
  BY <1>1
<1>6. Max(asked) = i
  <2>1. \A n \in asked : ~(i < n)
    BY <1>1, <1>5
  <2>2. Max(asked) \in 1 .. (k - 1)
    BY <1>3, <1>4
  <2> HIDE DEF asked
  <2> QED BY <1>1, <1>3, <1>4, <2>1, <2>2
<1>7. PICK q : q \in log[i].introduces
  OBVIOUS
<1>8. \A j \in DOMAIN obs : i < j => OpenQuestions(obs, j) # {}
  <2> SUFFICES ASSUME NEW j \in DOMAIN obs, i < j PROVE q \in OpenQuestions(obs, j)
    OBVIOUS
  <2>1. i \in DOMAIN obs /\ obs[i] = log[i]
    BY <1>1
  <2>2. q \in UNION {obs[n].introduces : n \in DOMAIN obs}
    BY <1>7, <2>1
  <2>3. \A n \in DOMAIN obs : i < n /\ n <= j => q \notin obs[n].resolves
    BY <1>1, <1>5, <1>7
  <2>4. i <= j
    BY <1>1
  <2> QED BY <1>7, <2>1, <2>2, <2>3, <2>4 DEF OpenQuestions
<1>9. RequiredChannel(obs) = log[i].channel
  <2>1. asked # {} /\ obs[Max(asked)].channel = log[i].channel
    BY <1>1, <1>3, <1>6
  <2> QED BY <1>6, <1>8, <2>1 DEF RequiredChannel
<1> QED BY <1>2, <1>9 DEF WrongChannel

LEMMA ClusterIsBounded ==
  ASSUME IInv, History
  PROVE  ClusterStops
<1> DEFINE Alike(n, i) == /\ IsPost(n) /\ log[n].error
                          /\ log[n].target = log[i].target /\ log[n].class = log[i].class
                          /\ log[n].digest = log[i].digest
                          /\ log[n].scope.activity = log[i].scope.activity
                          /\ log[n].scope.surface = log[i].scope.surface
           Tried(i) == {<<log[j].request, log[j].candidate>> : j \in {n \in 1 .. i : Alike(n, i)}}
<1> SUFFICES ASSUME NEW i \in DOMAIN log, NEW k \in DOMAIN log,
                    i < k, IsPost(i), log[i].error,
                    \A n \in (i + 1) .. (k - 1) : ~IsPost(n),
                    IsPre(k), log[k].action = "approve",
                    Op[log[k].call].target = log[i].target,
                    log[i].target # "supervisor.transition"
             PROVE  Cardinality(Tried(i)) < MaxCorrections
  BY DEF ClusterStops
<1> DEFINE obs == ObservedBefore(k)
           op  == Op[log[k].call]
           sig == log[i].signature
           cluster == {o \in Failures(obs) : o.target = op.target /\ o.signature = ActiveFailure(obs)}
           corrections == {<<o.request, o.digest, o.candidate>> : o \in cluster}
\* The active failure is that of observation i.
<1>1. /\ k - 1 \in Nat
      /\ DOMAIN obs = {n \in 1 .. (k - 1) : IsPost(n)}
      /\ \A n \in DOMAIN obs : n \in DOMAIN log /\ IsPost(n) /\ obs[n] = log[n]
      /\ i \in 1 .. (k - 1)
  BY ObservationsAt DEF IInv
<1>2. ActiveFailure(obs) = sig
  BY LatestObserved DEF IInv, ActiveFailure
<1>3. sig = [target |-> log[i].target, activity |-> log[i].scope.activity,
             surface |-> log[i].scope.surface, errorClass |-> log[i].class,
             source |-> log[i].digest]
  BY DEF History, ObservedIsReduced, IsReduced, Signature
<1>4. sig # None
  <2>1. /\ log[i].call \in Calls /\ log[i].scope \in Scopes /\ log[i].digest \in Digests
        /\ log[i].target = Op[log[i].call].target
        /\ log[i].class \in {r.class : r \in Results}
    BY DEF History, ObservedIsReduced, IsReduced
  <2>2. sig \in Signatures
    BY <1>3, <2>1 DEF Signatures
  <2> QED BY <2>2, SupervisorAssumption
<1>5. ~IdenticalRetry(obs, op, log[k].digest) /\ ~ClusterExhausted(obs, op, log[k].digest)
  BY DecisionAt DEF IInv
\* All failures with one signature are of one target on one state.
<1>6. \A n \in DOMAIN log : IsPost(n) /\ log[n].signature = sig =>
        log[n].error /\ log[n].target = op.target /\ log[n].digest = log[i].digest
  <2> SUFFICES ASSUME NEW n \in DOMAIN log, IsPost(n), log[n].signature = sig
               PROVE  log[n].error /\ log[n].target = op.target /\ log[n].digest = log[i].digest
    OBVIOUS
  <2>1. /\ log[n].target = Op[log[n].call].target
        /\ log[n].signature = Signature(log[n].scope, Op[log[n].call], log[n].digest,
                                        [error |-> log[n].error, class |-> log[n].class])
    BY DEF History, ObservedIsReduced, IsReduced
  <2>2. log[n].error
    BY <1>4, <2>1 DEF Signature
  <2>3. log[n].signature = [target |-> log[n].target, activity |-> log[n].scope.activity,
                            surface |-> log[n].scope.surface, errorClass |-> log[n].class,
                            source |-> log[n].digest]
    BY <2>1, <2>2 DEF Signature
  <2> QED BY <1>3, <2>2, <2>3
\* What failed alike has one signature.
<1>11. \A n \in DOMAIN log : Alike(n, i) => log[n].signature = sig
  <2> SUFFICES ASSUME NEW n \in DOMAIN log, Alike(n, i) PROVE log[n].signature = sig
    OBVIOUS
  <2>1. /\ log[n].target = Op[log[n].call].target
        /\ log[n].signature = Signature(log[n].scope, Op[log[n].call], log[n].digest,
                                        [error |-> log[n].error, class |-> log[n].class])
    BY DEF History, ObservedIsReduced, IsReduced
  <2> QED BY <1>3, <2>1 DEF Signature
<1> HIDE DEF obs, op, sig
<1>7. \A o \in cluster : o.digest = log[i].digest
  BY <1>1, <1>2, <1>6 DEF Failures
\* An exhausted cluster would make the approved attempt one of its failures.
<1>8. ~ (Cardinality(corrections) >= MaxCorrections)
  <2> SUFFICES ASSUME Cardinality(corrections) >= MaxCorrections PROVE FALSE
    OBVIOUS
  <2>1. <<op.request, log[k].digest, log[k].digest>> \in corrections
    <3> DEFINE spent == Cardinality(corrections) >= MaxCorrections
               again == <<op.request, log[k].digest, log[k].digest>> \in corrections
    <3>1. ClusterExhausted(obs, op, log[k].digest) <=>
            ActiveFailure(obs) # None /\ spent /\ ~again
      BY DEF ClusterExhausted
    <3> HIDE DEF spent, again
    <3>2. spent => again
      BY <1>2, <1>4, <1>5, <3>1
    <3> QED BY <3>2 DEF spent, again
  <2>2. PICK o \in cluster : o.request = op.request /\ o.digest = log[k].digest
    <3>1. PICK o \in cluster : <<op.request, log[k].digest, log[k].digest>> =
                               <<o.request, o.digest, o.candidate>>
      BY <2>1
    <3> QED BY <3>1
  <2> QED BY <1>5, <2>2 DEF IdenticalRetry
\* What was tried is the corrections without their digest.
<1>9. IsFiniteSet(corrections)
  <2> DEFINE P == {n \in 1 .. (k - 1) : n \in DOMAIN obs /\ obs[n] \in cluster}
             f == [n \in P |-> <<obs[n].request, obs[n].digest, obs[n].candidate>>]
  <2>1. IsFiniteSet(P)
    <3>1. P \in SUBSET (1 .. (k - 1)) /\ IsFiniteSet(1 .. (k - 1))
      BY <1>1, FS_Interval
    <3> QED BY <3>1, FS_Subset
  <2>2. \A o \in cluster : \E n \in P : obs[n] = o
    BY <1>1 DEF Failures
  <2>3. f \in Surjection(P, corrections)
    <3>1. f \in [P -> corrections]
      OBVIOUS
    <3>2. \A t \in corrections : \E n \in P : f[n] = t
      BY <2>2
    <3> QED BY <3>1, <3>2 DEF Surjection
  <2> HIDE DEF P, f, corrections
  <2> QED BY <2>1, <2>3, FS_Surjection
<1>10. IsFiniteSet(Tried(i)) /\ Cardinality(Tried(i)) <= Cardinality(corrections)
  <2> DEFINE f == [t \in corrections |-> <<t[1], t[3]>>]
             T == {f[t] : t \in corrections}
  <2>1. f \in Surjection(corrections, T)
    <3> HIDE DEF corrections
    <3> QED BY DEF Surjection
  <2>2. IsFiniteSet(T) /\ Cardinality(T) <= Cardinality(corrections)
    <3> HIDE DEF T, f, corrections
    <3> QED BY <1>9, <2>1, FS_Surjection
  <2>3. Tried(i) \subseteq T
    <3> SUFFICES ASSUME NEW j \in 1 .. i, Alike(j, i)
                 PROVE  <<log[j].request, log[j].candidate>> \in T
      OBVIOUS
    <3>1. j \in DOMAIN obs /\ obs[j] = log[j] /\ j \in DOMAIN log
      BY <1>1
    <3>2. obs[j] \in cluster
      BY <1>2, <1>6, <1>11, <3>1 DEF Failures
    <3>3. <<log[j].request, log[j].digest, log[j].candidate>> \in corrections
      BY <3>1, <3>2
    <3> HIDE DEF corrections
    <3> QED BY <3>3
  <2> HIDE DEF T, Tried, corrections
  <2>4. IsFiniteSet(Tried(i)) /\ Cardinality(Tried(i)) <= Cardinality(T)
    BY <2>2, <2>3, FS_Subset
  <2> QED BY <1>9, <2>2, <2>4, FS_CardinalityType
<1> HIDE DEF corrections, Tried
<1> QED BY <1>8, <1>9, <1>10, FS_CardinalityType, PolicyAssumption

\* README of the hooks: a retry is denied for what failed, under any interleaving
\* of calls, edits and dying hooks; no success triggers the denial.
THEOREM RetriesAreOfFailures == Spec => []SuccessIsNoRetry
BY HistoryInvariant, RetriesFailed, PTL

\* An evaluation that is decided after another was observed looks at the candidate
\* that the other left, whatever is edited and whoever calls in between.
THEOREM EvaluationsShareTheCandidate == Spec => []EvaluationsSeeOneCandidate
BY HistoryInvariant, CandidateIsKept, PTL

\* A channel that was asked for binds every approval until its question is
\* resolved or another channel is asked for, however long the ledger gets.
THEOREM ChannelBindsApprovals == Spec => []ChannelStaysRequired
BY HistoryInvariant, ChannelIsKept, PTL

\* For any budget, no attempt is approved right after a failure whose cluster of
\* attempts is exhausted.
THEOREM ClustersStop == Spec => []ClusterStops
BY HistoryInvariant, ClusterIsBounded, PTL

-----------------------------------------------------------------------------
(* The scope and its transitions *)

\* The recorded scope depends on the records up to its place.
LEMMA RecordedKept ==
  ASSUME NEW l, NEW m, NEW s, NEW n \in Nat, \A i \in 1 .. n : l[i] = m[i]
  PROVE  IsRecorded(l, n, s) <=> IsRecorded(m, n, s)
<1> DEFINE moves == {i \in 1 .. n : l[i].kind = "control-transition"}
<1>1. moves = {i \in 1 .. n : m[i].kind = "control-transition"}
  OBVIOUS
<1>2. moves # {} => l[Max(moves)] = m[Max(moves)]
  <2> SUFFICES ASSUME moves # {} PROVE Max(moves) \in 1 .. n
    OBVIOUS
  <2>1. moves \in SUBSET (1 .. n)
    OBVIOUS
  <2> HIDE DEF moves
  <2> QED BY <2>1, MaxOfPlaces
<1>3. /\ IsRecorded(l, n, s) <=>
           IF moves = {} THEN s \in DefaultScopes \cup {None} ELSE s = l[Max(moves)].scope
      /\ IsRecorded(m, n, s) <=>
           IF moves = {} THEN s \in DefaultScopes \cup {None} ELSE s = m[Max(moves)].scope
  BY <1>1 DEF IsRecorded
<1> HIDE DEF moves
<1> QED BY <1>2, <1>3

\* It moves with a transition only.
LEMMA RecordedNext ==
  ASSUME NEW l, NEW s, NEW n \in Nat
  PROVE  /\ l[n + 1].kind = "control-transition" =>
              (IsRecorded(l, n + 1, s) <=> s = l[n + 1].scope)
         /\ l[n + 1].kind # "control-transition" =>
              (IsRecorded(l, n + 1, s) <=> IsRecorded(l, n, s))
<1> DEFINE M(k) == {i \in 1 .. k : l[i].kind = "control-transition"}
<1>1. \A k : IsRecorded(l, k, s) <=>
        IF M(k) = {} THEN s \in DefaultScopes \cup {None} ELSE s = l[Max(M(k))].scope
  BY DEF IsRecorded
<1>2. CASE l[n + 1].kind # "control-transition"
  <2>1. M(n + 1) = M(n)
    BY <1>2
  <2> HIDE DEF M
  <2> QED BY <1>1, <1>2, <2>1
<1>3. CASE l[n + 1].kind = "control-transition"
  <2>1. n + 1 \in M(n + 1) /\ M(n + 1) \in SUBSET (1 .. (n + 1)) /\ n + 1 \in Nat
    BY <1>3
  <2> HIDE DEF M
  <2>2. Max(M(n + 1)) \in M(n + 1) /\ \A x \in M(n + 1) : x <= Max(M(n + 1))
    BY <2>1, MaxOfPlaces
  <2>3. Max(M(n + 1)) \in 1 .. (n + 1) /\ n + 1 <= Max(M(n + 1))
    BY <2>1, <2>2
  <2>4. Max(M(n + 1)) = n + 1
    BY <2>3
  <2> QED BY <1>1, <1>3, <2>1, <2>4
<1> QED BY <1>2, <1>3

\* Transitions lead to scopes, so a state that is not written follows none; what
\* a hook then loads is a default.
TransitionsScoped ==
  \A i \in DOMAIN log : log[i].kind = "control-transition" => log[i].scope \in Scopes

LEMMA LoadedIsRecorded ==
  ASSUME LogTyped, TransitionsScoped, NEW c \in Calls, IsRecorded(log, Len(log), scope)
  PROVE  IsRecorded(log, Len(log), Loaded(c))
<1> DEFINE n == Len(log)
           moves == {i \in 1 .. n : log[i].kind = "control-transition"}
<1>1. /\ IsRecorded(log, n, scope) <=>
           IF moves = {} THEN scope \in DefaultScopes \cup {None} ELSE scope = log[Max(moves)].scope
      /\ IsRecorded(log, n, Loaded(c)) <=>
           IF moves = {} THEN Loaded(c) \in DefaultScopes \cup {None}
                         ELSE Loaded(c) = log[Max(moves)].scope
  BY DEF IsRecorded
<1>2. n \in Nat /\ DOMAIN log = 1 .. n
  BY DEF LogTyped
<1>3. moves # {} => log[Max(moves)].scope \in Scopes
  <2> SUFFICES ASSUME moves # {} PROVE Max(moves) \in moves
    BY <1>2 DEF TransitionsScoped
  <2>1. moves \in SUBSET (1 .. n)
    OBVIOUS
  <2> HIDE DEF moves, n
  <2> QED BY <1>2, <2>1, MaxOfPlaces
<1> HIDE DEF moves, n
<1>4. DefaultScope[HostOf[c]] \in DefaultScopes
  BY SupervisorAssumption DEF DefaultScopes
<1>5. None \notin Scopes
  BY SupervisorAssumption
<1> QED BY <1>1, <1>3, <1>4, <1>5 DEF Loaded, n

\* What a transaction of call c may do to the scope: nothing, a transition from
\* the scope it loaded, or a decision under it.
ScopeStep(c, r) ==
  \/ /\ r.kind = "control-transition"
     /\ r.previous = Loaded(c) /\ r.scope = scope' /\ scope' \in Scopes
  \/ /\ r.kind # "control-transition"
     /\ scope' \in {scope, Loaded(c)}
     /\ r.kind = "pre-decision" => r.scope = Loaded(c)

\* Such a transaction keeps the transitions in a chain, if its hook does not die.
LEMMA ScopeFiled ==
  ASSUME LogTyped, TransitionsScoped, ScopeIsRecorded, dead \subseteq dead', dead' = {},
         NEW c \in Calls, NEW r, log' = Append(log, r), ScopeStep(c, r)
  PROVE  ScopeIsRecorded'
<1> DEFINE n == Len(log)
<1>1. /\ IsRecorded(log, n, scope)
      /\ \A i \in DOMAIN log :
           /\ log[i].kind = "control-transition" => IsRecorded(log, i - 1, log[i].previous)
           /\ log[i].kind = "pre-decision" => IsRecorded(log, i - 1, log[i].scope)
  BY DEF ScopeIsRecorded, IsPre
<1>2. /\ n \in Nat
      /\ DOMAIN log = 1 .. n /\ DOMAIN log' = 1 .. (n + 1)
      /\ log'[n + 1] = r
      /\ \A i \in 1 .. n : log'[i] = log[i]
  BY Appended DEF Grows
<1>3. Len(log') = n + 1
  BY DEF LogTyped
<1>4. IsRecorded(log, n, Loaded(c))
  BY <1>1, LoadedIsRecorded
<1> HIDE DEF n
<1>5. \A i \in 0 .. n : \A s : IsRecorded(log', i, s) <=> IsRecorded(log, i, s)
  <2> SUFFICES ASSUME NEW i \in 0 .. n, NEW s PROVE IsRecorded(log', i, s) <=> IsRecorded(log, i, s)
    OBVIOUS
  <2>1. i \in Nat /\ \A k \in 1 .. i : log'[k] = log[k]
    BY <1>2
  <2> QED BY <2>1, RecordedKept
<1>6. n \in 0 .. n
  BY <1>2
<1>7. IsRecorded(log', n + 1, scope')
  <2> DEFINE l == log'
             s == scope'
  <2>1. n \in Nat /\ l[n + 1] = r
    BY <1>2
  <2>2. IsRecorded(l, n, scope) /\ IsRecorded(l, n, Loaded(c))
    BY <1>1, <1>4, <1>5, <1>6
  <2>3. /\ r.kind = "control-transition" => r.scope = s
        /\ r.kind # "control-transition" => s \in {scope, Loaded(c)}
    BY DEF ScopeStep
  <2> HIDE DEF l, s
  <2>4. IsRecorded(l, n + 1, s)
    BY <2>1, <2>2, <2>3, RecordedNext
  <2> QED BY <2>4 DEF l, s
<1>8. \A i \in DOMAIN log' :
        /\ log'[i].kind = "control-transition" => IsRecorded(log', i - 1, log'[i].previous)
        /\ log'[i].kind = "pre-decision" => IsRecorded(log', i - 1, log'[i].scope)
  <2> SUFFICES ASSUME NEW i \in 1 .. (n + 1)
               PROVE  /\ log'[i].kind = "control-transition" =>
                           IsRecorded(log', i - 1, log'[i].previous)
                      /\ log'[i].kind = "pre-decision" => IsRecorded(log', i - 1, log'[i].scope)
    BY <1>2
  <2>1. CASE i \in 1 .. n
    <3>1. i - 1 \in 0 .. n /\ log'[i] = log[i] /\ i \in DOMAIN log
      BY <1>2, <2>1
    <3> QED BY <1>1, <1>5, <3>1
  <2>2. CASE i = n + 1
    <3>1. i - 1 = n /\ log'[i] = r
      BY <1>2, <2>2
    <3>2. IsRecorded(log', n, Loaded(c))
      BY <1>4, <1>5, <1>6
    <3> QED BY <3>1, <3>2 DEF ScopeStep
  <2> QED BY <1>2, <2>1, <2>2
<1> QED BY <1>3, <1>7, <1>8 DEF ScopeIsRecorded, IsPre

\* What a hook does to scope and ledger, if it does not only read them.
LEMMA HookScopes ==
  ASSUME NEW c \in Calls, Hook(c)
  PROVE  \/ UNCHANGED <<log, scope, dead>>
         \/ \E r, next : File(c, r, next) /\ ScopeStep(c, r)
<1>1. CASE EnsureScope(c)
  <2>1. HostScope[HostOf[c]] \in Scopes
    BY SupervisorAssumption DEF Scopes
  <2> QED BY <1>1, <2>1 DEF EnsureScope, Transition, ScopeStep
<1>2. CASE RecordUnclassifiedPre(c) \/ RecordUnclassifiedPost(c)
  BY <1>2 DEF RecordUnclassifiedPre, RecordUnclassifiedPost, Unclassified, ScopeStep
<1>3. CASE HandlePre(c)
  <2>1. PICK digest, denials, next : File(c, PreDecision(c, digest, denials), next)
    BY <1>3 DEF HandlePre
  <2>2. ScopeStep(c, PreDecision(c, digest, denials))
    BY <1>3 DEF HandlePre, PreDecision, ScopeStep
  <2> QED BY <2>1, <2>2
<1>4. CASE HandlePost(c)
  <2>1. \A expected, candidate :
          PostObservation(c, expected, candidate).kind = "post-observation"
    BY DEF PostObservation
  <2>2. scope' = Loaded(c)
    BY <1>4 DEF HandlePost
  <2> QED BY <1>4, <2>1, <2>2 DEF HandlePost, Unclassified, ReductionError, ScopeStep
<1> QED BY <1>1, <1>2, <1>3, <1>4 DEF Hook

\* As long as no hook dies over its record, the recorded transitions lead from
\* the default of a host to the active scope, and every decision was taken under
\* the scope that they had led to, however the hosts take turns.
THEOREM ScopesAreRecorded == Spec => []ScopeIsRecorded
<1>1. Init => ScopeIsRecorded /\ TransitionsScoped
  BY DEF Init, ScopeIsRecorded, IsRecorded, TransitionsScoped
<1>2. IInv /\ ScopeIsRecorded /\ TransitionsScoped /\ [Next]_vars =>
        ScopeIsRecorded' /\ TransitionsScoped'
  <2> SUFFICES ASSUME IInv, ScopeIsRecorded, TransitionsScoped, [Next]_vars
               PROVE  ScopeIsRecorded' /\ TransitionsScoped'
    OBVIOUS
  <2>0. LogTyped
    BY DEF IInv
  <2>1. CASE UNCHANGED <<log, scope, dead>>
    BY <2>1 DEF ScopeIsRecorded, TransitionsScoped, IsPre
  <2>2. CASE \E c \in Calls : FailHook(c)
    <3>1. dead' # {} /\ log' = log
      BY <2>2 DEF FailHook, Dies
    <3> QED BY <3>1 DEF ScopeIsRecorded, TransitionsScoped
  <2>3. CASE \E c \in Calls : \E r, next : File(c, r, next) /\ ScopeStep(c, r)
    <3>0. PICK c \in Calls : \E r, next : File(c, r, next) /\ ScopeStep(c, r)
      BY <2>3
    <3>1. PICK r, next : File(c, r, next) /\ ScopeStep(c, r)
      BY <3>0
    <3>2. CASE dead' # {} /\ log' = log
      BY <3>2 DEF ScopeIsRecorded, TransitionsScoped
    <3>3. CASE log' = Append(log, r) /\ dead' = dead
      <4>1. /\ LogTyped' /\ Grows
            /\ DOMAIN log = 1 .. Len(log) /\ DOMAIN log' = 1 .. (Len(log) + 1)
            /\ Len(log) \in Nat
            /\ log'[Len(log) + 1] = r
        BY <2>0, <3>3, Appended
      <4>2. TransitionsScoped'
        <5> SUFFICES ASSUME NEW i \in DOMAIN log', log'[i].kind = "control-transition"
                     PROVE  log'[i].scope \in Scopes
          BY DEF TransitionsScoped
        <5>1. CASE i \in DOMAIN log
          BY <4>1, <5>1 DEF Grows, TransitionsScoped
        <5>2. CASE i = Len(log) + 1
          BY <3>1, <4>1, <5>2 DEF ScopeStep
        <5> QED BY <4>1, <5>1, <5>2
      <4>3. ScopeIsRecorded'
        <5>1. CASE dead' = {}
          BY <2>0, <3>1, <3>3, <5>1, ScopeFiled
        <5>2. CASE dead' # {}
          BY <5>2 DEF ScopeIsRecorded
        <5> QED BY <5>1, <5>2
      <4> QED BY <4>2, <4>3
    <3> QED BY <3>1, <3>2, <3>3 DEF File, Dies
  <2>4. UNCHANGED vars \/ (\E c \in Calls : RunTool(c)) \/ (\E f \in Files : Edit(f)) =>
          UNCHANGED <<log, scope, dead>>
    BY DEF vars, RunTool, Edit
  <2> QED BY <2>1, <2>2, <2>3, <2>4, HookScopes DEF Next
<1> QED BY <1>1, <1>2, Invariant, PTL DEF Spec
=============================================================================
