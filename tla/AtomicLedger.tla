---------------------------- MODULE AtomicLedger ----------------------------
(***************************************************************************)
(* What the supervisory ledger promises its handlers: every transaction    *)
(* sees the latest control state, and its new state and its evidence       *)
(* record appear together.  The one exception the code makes is a          *)
(* transaction that dies after its state and before its record.            *)
(***************************************************************************)
EXTENDS Naturals, Sequences

CONSTANTS Updates,    \* what a handler may do in one transaction
          Recording,  \* the updates that append an evidence record
          States,     \* control states
          Apply,      \* Apply[u][s]: the control state u makes of s
          Initial     \* control states a ledger may start in

VARIABLES state, log

vars == <<state, log>>

Record(n, u) == [sequence |-> n, update |-> u]

Init == state \in Initial /\ log = <<>>

Commit(u) == /\ state' = Apply[u][state]
             /\ log' = IF u \in Recording
                       THEN Append(log, Record(Len(log) + 1, u))
                       ELSE log

\* The state of u survives, its evidence does not.
LoseEvidence(u) == /\ state' = Apply[u][state]
                   /\ UNCHANGED log

Next == \E u \in Updates : Commit(u) \/ LoseEvidence(u)

Spec == Init /\ [][Next]_vars
=============================================================================
