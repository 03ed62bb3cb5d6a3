-------------------------- MODULE MCDurableLedger --------------------------
(* The control state is the set of bodies applied to it, so that a lost     *)
(* update shows; the ledger starts empty or with a v1 document.             *)
EXTENDS DurableLedger

CONSTANTS p1, p2, p3, approve, rescope, observe, status, v1

ThreeProcesses == {p1, p2, p3}
FourBodies     == {approve, rescope, observe, status}
ThreeRecording == {approve, rescope, observe}
Changing       == {approve, rescope}
AppliedSets    == {{}, {approve}, {rescope}, {approve, rescope}}
OneLegacy      == {v1}
MigrateV1      == [d \in AppliedSets \cup OneLegacy |-> IF d = v1 THEN {} ELSE d]
ApplyBody      == [u \in FourBodies |->
                    [s \in AppliedSets |-> IF u \in Changing THEN s \cup {u} ELSE s]]
EmptyOrLegacy  == {{}, v1}
=============================================================================
