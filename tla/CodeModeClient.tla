--------------------------- MODULE CodeModeClient ---------------------------
(***************************************************************************)
(* The bootstrap code-mode client (bootstrap_client/): typed operations on *)
(* the cells of one live notebook, for callers that work in parallel with  *)
(* each other and with people who edit the notebook.  Every operation is a *)
(* sequence of awaited requests to the Marimo server, between which the    *)
(* notebook may change; a transaction that times out may still be carried  *)
(* out by the kernel.                                                      *)
(*                                                                         *)
(* The state of a notebook is the content of every cell; its revision and  *)
(* its graph digest are functions of that.  A call that is denied before   *)
(* its first request changes nothing and is not a step.                    *)
(***************************************************************************)
EXTENDS Naturals, Sequences, FiniteSets

CONSTANTS Callers,      \* agents, each with one client at a time
          FirstPhase,   \* FirstPhase[c]: the phase of the first run binding of c
          NextPhases,   \* phases of the run bindings that later calls bring
          PerCall,      \* callers for which the server makes a client for every call
          Cells,        \* cell identifiers
          Contents,     \* contents of a cell
          Sessions,     \* sessions of the workbook
          MaxEdits,     \* bound: changes that no client asked for
          MaxRecords,   \* bound: no call starts after this many observations
          None          \* no cell, no session, no state

Phases == {"inspect", "probe", "implement", "evaluate", "collect-evidence"}

ASSUME ClientAssumption ==
  /\ FirstPhase \in [Callers -> Phases]
  /\ NextPhases \subseteq Phases
  /\ PerCall \subseteq Callers
  /\ MaxEdits \in Nat /\ MaxRecords \in Nat

VARIABLES live,         \* the notebook: live[x] is the content of cell x
          session,      \* the session list_sessions shows for the workbook
          inflight,     \* transactions that the kernel may still carry out, with their callers
          edits,
          at,           \* at[c]: the next request of the client of c
          op,           \* op[c]: the operation it serves
          before,       \* before[c]: the state captured before a transaction
          phase,        \* phase[c]: the phase of its run binding
          bound,        \* bound[c]: its session binding
          gate,         \* gate[c]: _mutation_gate_open
          quarantined,  \* quarantined[c]: _quarantined
          log           \* log[c]: the observations recorded for c, and shown to it

notebook == <<live, session, inflight, edits>>
client   == <<at, op, before, phase, bound, gate, quarantined>>
vars     == <<notebook, client, log>>

States == [Cells -> Contents \cup {None}]

\* A transaction replaces the contents of some cells, whose preimages and the
\* workbook revision it names.
Transactions == UNION {[kind : {"apply-cell-transaction"}, expected : States,
                        old : [T -> Contents], new : [T -> Contents]] :
                       T \in SUBSET Cells \ {{}}}
Simple == [kind : {"resolve-session", "capture-state", "run-focused-probe"}]
NoOp   == [kind |-> "none"]

\* _PHASE_OPERATIONS
Permitted(p) ==
  CASE p = "inspect"          -> {"resolve-session", "capture-state"}
    [] p = "probe"            -> {"resolve-session", "capture-state", "run-focused-probe"}
    [] p = "implement"        -> {"capture-state", "apply-cell-transaction"}
    [] p = "evaluate"         -> {"capture-state", "run-focused-probe"}
    [] p = "collect-evidence" -> {"capture-state"}

Init == /\ live \in [Cells -> Contents]
        /\ session \in Sessions
        /\ inflight = {}
        /\ edits = 0
        /\ at = [c \in Callers |-> "idle"]
        /\ op = [c \in Callers |-> NoOp]
        /\ before = [c \in Callers |-> None]
        /\ phase = FirstPhase
        /\ bound = [c \in Callers |-> session]
        /\ gate = [c \in Callers |-> TRUE]
        /\ quarantined = [c \in Callers |-> FALSE]
        /\ log = [c \in Callers |-> <<>>]

-----------------------------------------------------------------------------
(* Observations: build_observation and disposition *)

Changed(b, a) == IF b = None \/ a = None THEN {} ELSE {x \in Cells : b[x] # a[x]}

StructuralResult(o, b, a) ==
  LET targets == DOMAIN o.new IN
  IF a = None THEN "post-state-unavailable"
  ELSE IF b = None \/ Changed(b, a) = {} THEN "not-applied"
  ELSE IF \E x \in targets : a[x] = None THEN "cell-identity-changed"
  ELSE IF ~(Changed(b, a) \subseteq targets) THEN "unexpected-cell-change"
  ELSE IF Changed(b, a) = targets /\ \A x \in targets : a[x] = o.new[x]
  THEN "applied-as-declared"
  ELSE "partially-applied"

\* What disposition may release; it may quarantine more, for output that is
\* truncated or cannot be associated with the request.
Releasable(o, b, a) ==
  CASE o.kind = "resolve-session"        -> TRUE
    [] o.kind = "apply-cell-transaction" -> StructuralResult(o, b, a) = "applied-as-declared"
    [] OTHER                             -> a # None /\ Changed(b, a) = {}

Observation(o, b, a, released) == [op |-> o, before |-> b, after |-> a, released |-> released]

\* A released observation reopens the gate if it is a capture; a quarantined
\* one closes it, and so does every transaction.
Record(c, b, a, released) ==
  /\ released => Releasable(op[c], b, a)
  /\ log' = [log EXCEPT ![c] = Append(@, Observation(op[c], b, a, released))]
  /\ quarantined' = [quarantined EXCEPT
                       ![c] = ~released \/ (@ /\ op[c].kind # "capture-state")]
  /\ gate' = [gate EXCEPT
                ![c] = /\ released
                       /\ op[c].kind # "apply-cell-transaction"
                       /\ @ \/ op[c].kind = "capture-state"]
  /\ at' = [at EXCEPT ![c] = "idle"]
  /\ op' = [op EXCEPT ![c] = NoOp]
  /\ before' = [before EXCEPT ![c] = None]
  /\ UNCHANGED phase

\* An exception leaves the call without an observation.
Deny(c) == /\ at' = [at EXCEPT ![c] = "idle"]
           /\ op' = [op EXCEPT ![c] = NoOp]
           /\ before' = [before EXCEPT ![c] = None]
           /\ UNCHANGED <<phase, gate, quarantined, log>>

Goto(c, place) == /\ at' = [at EXCEPT ![c] = place]
                  /\ UNCHANGED <<op, phase, bound, gate, quarantined>>

-----------------------------------------------------------------------------
(* The client *)

\* (mutant) the quarantine is looked at, the gate is not
AdmittedOnce(c, o) ==
  /\ o.kind \in Permitted(phase[c])
  /\ o.kind # "resolve-session" => bound[c] # None
  /\ o.kind = "apply-cell-transaction" => ~quarantined[c]

\* The gates of apply_cell_transaction, then the pre-hook, which defers the
\* state of a transaction.
Admitted(c, o) ==
  /\ o.kind \in Permitted(phase[c])
  /\ o.kind # "resolve-session" => bound[c] # None
  /\ o.kind = "apply-cell-transaction" => ~quarantined[c] /\ gate[c]

\* Everything that was recorded, for the bound.
Filed == UNION {{c} \X DOMAIN log[c] : c \in Callers}

Call(c, o) ==
  /\ at[c] = "idle"
  /\ Cardinality(Filed) < MaxRecords
  /\ Admitted(c, o)
  /\ op' = [op EXCEPT ![c] = o]
  /\ at' = [at EXCEPT ![c] = IF o.kind = "resolve-session" THEN "resolve" ELSE "check"]
  /\ UNCHANGED <<notebook, before, phase, bound, gate, quarantined, log>>

\* The states a caller has been shown: those before and after what it asked for,
\* whether the observation was released to it or handed over as quarantined.
Seen(c) == ({log[c][i].before : i \in DOMAIN log[c]} \cup {log[c][i].after : i \in DOMAIN log[c]})
             \ {None}

\* A caller makes its transactions from the states it was shown; the first three
\* guards are those of every call, before the inputs are enumerated.
Propose(c) ==
  /\ at[c] = "idle"
  /\ Cardinality(Filed) < MaxRecords
  /\ "apply-cell-transaction" \in Permitted(phase[c])
  /\ \E now, then \in Seen(c), T \in SUBSET Cells \ {{}} :
       /\ \A x \in T : then[x] # None
       /\ \E new \in [T -> Contents] :
            Call(c, [kind |-> "apply-cell-transaction", expected |-> now,
                     old |-> [x \in T |-> then[x]], new |-> new])

\* resolve_session: an observation that is quarantined leaves the old binding.
Resolve(c) ==
  /\ at[c] = "resolve"
  /\ \/ /\ session # None
        /\ \E released \in BOOLEAN :
             /\ Record(c, None, None, released)
             /\ bound' = [bound EXCEPT ![c] = IF released THEN session ELSE @]
     \/ Deny(c) /\ UNCHANGED bound
  /\ UNCHANGED notebook

\* _validate_current_session: another session, or no list, drops the binding;
\* zero or several sessions raise before the comparison.
CheckSession(c) ==
  /\ at[c] = "check"
  /\ \/ /\ session = bound[c]
        /\ Goto(c, op[c].kind)
        /\ UNCHANGED <<before, log>>
     \/ /\ session = None
        /\ Deny(c)
        /\ UNCHANGED bound
     \/ /\ Deny(c)
        /\ bound' = [bound EXCEPT ![c] = None]
  /\ UNCHANGED notebook

\* What a request for the state answers: the state of the notebook, if the
\* session is still there, or nothing that can be used.
Answers(c) == IF session = bound[c] THEN {live, None} ELSE {None}

\* The client drops the state after if a cell that was asked for is missing or the
\* engine is not the one of the run: one more way to quarantine what shows s.
CaptureState(c) ==
  /\ at[c] = "capture-state"
  /\ \E s \in Answers(c), released \in BOOLEAN : Record(c, s, s, released)
  /\ UNCHANGED <<notebook, bound>>

RunFocusedProbe(c) ==
  /\ at[c] = "run-focused-probe"
  /\ \E s \in Answers(c), released \in BOOLEAN : Record(c, s, s, released)
  /\ UNCHANGED <<notebook, bound>>

\* (mutant) the preimages are compared, the revision is not
FreshCells(o, s) ==
  /\ s # None
  /\ \A x \in DOMAIN o.old : s[x] = o.old[x]

\* evaluate_pre_hook on the captured state: revision and preimages are fresh.
Fresh(o, s) ==
  /\ s # None
  /\ o.expected = s
  /\ \A x \in DOMAIN o.old : s[x] = o.old[x]

CaptureBefore(c) ==
  /\ at[c] = "apply-cell-transaction"
  /\ \E s \in Answers(c) :
       \/ /\ Fresh(op[c], s)
          /\ before' = [before EXCEPT ![c] = s]
          /\ Goto(c, "transact")
          /\ UNCHANGED log
       \/ /\ ~Fresh(op[c], s)
          /\ Deny(c)
          /\ UNCHANGED bound
  /\ UNCHANGED notebook

\* execute_code: the request reaches the kernel or is lost; the client goes on
\* with what comes back, be it a result, an exception or a timeout.
Transact(c) ==
  /\ at[c] = "transact"
  /\ Goto(c, "after")
  /\ \/ /\ session = bound[c]
        /\ inflight' = inflight \cup {[by |-> c, op |-> op[c]]}
     \/ UNCHANGED inflight
  /\ UNCHANGED <<live, session, edits, before, log>>

\* The capture after the transaction closes the gate, whatever it shows.
CaptureAfter(c) ==
  /\ at[c] = "after"
  /\ \E s \in Answers(c), released \in BOOLEAN : Record(c, before[c], s, released)
  /\ UNCHANGED <<notebook, bound>>

\* workbook_mcp_server constructs a client for every call, with the run and
\* session bindings that come with it.
NewClient(c) ==
  /\ c \in PerCall
  /\ at[c] = "idle"
  /\ Cardinality(Filed) < MaxRecords
  /\ gate' = [gate EXCEPT ![c] = TRUE]
  /\ quarantined' = [quarantined EXCEPT ![c] = FALSE]
  /\ \E s \in Sessions \cup {None} : bound' = [bound EXCEPT ![c] = s]
  /\ \E p \in NextPhases : phase' = [phase EXCEPT ![c] = p]
  /\ UNCHANGED <<notebook, at, op, before, log>>

Serve(c) == \/ Resolve(c)
            \/ CheckSession(c)
            \/ CaptureState(c)
            \/ RunFocusedProbe(c)
            \/ CaptureBefore(c)
            \/ Transact(c)
            \/ CaptureAfter(c)

-----------------------------------------------------------------------------
(* The notebook *)

\* (mutant) the generated code edits without looking at the preimages
CommitBlindly(t) ==
  /\ inflight' = inflight \ {t}
  /\ live' = [x \in Cells |-> IF x \in DOMAIN t.op.new THEN t.op.new[x] ELSE live[x]]
  /\ UNCHANGED <<session, edits, client, log>>

\* The generated code compares all preimages before it edits any cell.
Commit(t) ==
  /\ inflight' = inflight \ {t}
  /\ live' = IF \A x \in DOMAIN t.op.old : live[x] = t.op.old[x]
             THEN [x \in Cells |-> IF x \in DOMAIN t.op.new THEN t.op.new[x] ELSE live[x]]
             ELSE live
  /\ UNCHANGED <<session, edits, client, log>>

Lose(t) ==
  /\ inflight' = inflight \ {t}
  /\ UNCHANGED <<live, session, edits, client, log>>

\* A person edits, adds or removes a cell, or the workbook changes its session.
Edit == /\ edits < MaxEdits
        /\ edits' = edits + 1
        /\ \/ /\ \E x \in Cells, v \in Contents \cup {None} :
                   v # live[x] /\ live' = [live EXCEPT ![x] = v]
              /\ UNCHANGED session
           \/ /\ \E s \in Sessions \cup {None} : s # session /\ session' = s
              /\ UNCHANGED live
        /\ UNCHANGED <<inflight, client, log>>

Next == \/ \E c \in Callers : \/ \E o \in Simple : Call(c, o)
                              \/ Propose(c)
                              \/ Serve(c)
                              \/ NewClient(c)
        \/ \E t \in inflight : Commit(t) \/ Lose(t)
        \/ Edit

Spec == Init /\ [][Next]_vars

-----------------------------------------------------------------------------
(* Properties *)

IsApply(o) == o.op.kind = "apply-cell-transaction"

\* "After a transaction, capture a fresh state before proposing another
\* transaction.  After quarantine, do not mutate until a fresh capture": for
\* callers whose client lives on, what comes before a transaction, if anything
\* does, is a released capture.
GateHolds ==
  \A c \in Callers \ PerCall : \A i \in DOMAIN log[c] :
    (IsApply(log[c][i]) /\ i > 1) =>
      /\ log[c][i - 1].op.kind = "capture-state"
      /\ log[c][i - 1].released

\* A released transaction turned a state that an earlier observation had shown
\* its caller into the declared one, and no other cell is different, however
\* edits, other callers and late transactions interleaved with its requests.
ReleasedIsDeclared ==
  \A c \in Callers : \A i \in DOMAIN log[c] :
    LET o == log[c][i] IN
    (IsApply(o) /\ o.released) =>
      /\ o.before = o.op.expected
      /\ \E j \in 1 .. (i - 1) : o.before \in {log[c][j].before, log[c][j].after}
      /\ o.after = [x \in Cells |-> IF x \in DOMAIN o.op.new THEN o.op.new[x] ELSE o.before[x]]

\* No transaction, not even one that is late, overwrites content that the caller
\* who submitted it has not been shown, whatever others have been shown.
NothingUnseenIsLost ==
  [][\A t \in inflight : (t \notin inflight' /\ live' # live) =>
       \A x \in Cells : live'[x] # live[x] =>
         \E s \in Seen(t.by) : s[x] = live[x]]_vars
=============================================================================
