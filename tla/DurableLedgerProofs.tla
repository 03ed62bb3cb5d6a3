------------------------ MODULE DurableLedgerProofs ------------------------
(***************************************************************************)
(* Proofs about the durable ledger for any number of hook processes and    *)
(* any bodies of transactions.                                             *)
(*                                                                         *)
(* The argument: the process inside the transaction is the one the flock   *)
(* names, so what it loaded is still what is on disk when it writes.       *)
(***************************************************************************)
EXTENDS DurableLedger, TLAPS

\* The flock names the one process between its lock and its unlock.
LockedIsInside == \A p \in Processes : pc[p] \in Inside <=> lock = p

\* Every process runs a body.
BusyHasBody == \A p \in Processes : pc[p] # "idle" => update[p] \in Updates

\* What a process loaded is what the files hold when it is about to write.
LoadedIsCurrent ==
  \A p \in Processes : pc[p] = "writing" =>
    ~torn /\ base[p] = Migrate[stateFile] /\ seen[p] = Len(events)

\* Once the state is replaced, the record is the only thing still missing.
WrittenIsApplied ==
  \A p \in Processes : pc[p] = "appending" =>
    /\ ~torn
    /\ base[p] \in States
    /\ stateFile = Apply[update[p]][base[p]]
    /\ seen[p] = Len(events)

\* The inductive invariant.
Inv == /\ TypeOK
       /\ LockedIsInside
       /\ BusyHasBody
       /\ LoadedIsCurrent
       /\ WrittenIsApplied
       /\ SequenceIsPosition

-----------------------------------------------------------------------------
(* Facts about the values *)

\* The highest sequence of a gapless history is its length.
LEMMA LastSequenceIsLength ==
  ASSUME TypeOK, SequenceIsPosition
  PROVE  LastSequence(events) = Len(events)
<1> DEFINE numbers == {0} \cup {events[i].sequence : i \in DOMAIN events}
           Highest(n) == \A i \in DOMAIN events : events[i].sequence <= n
<1>1. events \in Seq([sequence : Nat, update : Recording])
  BY DEF TypeOK
<1>2. DOMAIN events = 1 .. Len(events) /\ Len(events) \in Nat
  BY <1>1
<1>3. \A i \in DOMAIN events : events[i].sequence = i
  BY DEF SequenceIsPosition
<1>4. Len(events) \in numbers
  <2>1. CASE Len(events) = 0
    BY <2>1
  <2>2. CASE Len(events) > 0
    BY <2>2, <1>2, <1>3
  <2>3. QED  BY <1>2, <2>1, <2>2
<1>5. Highest(Len(events))
  BY <1>2, <1>3
<1>6. \A n \in numbers : Highest(n) => n = Len(events)
  <2>1. SUFFICES ASSUME NEW n \in numbers, Highest(n) PROVE n = Len(events)
    OBVIOUS
  <2>2. n \in Nat /\ n <= Len(events)
    BY <1>2, <1>3
  <2>3. Len(events) <= n
    <3>1. CASE Len(events) = 0
      BY <2>2, <3>1
    <3>2. CASE Len(events) # 0
      <4>1. Len(events) \in DOMAIN events
        BY <3>2, <1>2
      <4>2. events[Len(events)].sequence <= n
        BY <4>1, <2>1
      <4>3. QED  BY <4>1, <4>2, <1>3
    <3>3. QED  BY <3>1, <3>2
  <2>4. \A m, k \in Nat : m <= k /\ k <= m => m = k
    OBVIOUS
  <2>5. QED  BY <1>2, <2>2, <2>3, <2>4, Zenon
<1>7. LastSequence(events) = CHOOSE n \in numbers : Highest(n)
  BY DEF LastSequence
<1>8. QED  BY <1>4, <1>5, <1>6, <1>7

\* A migrated document is a control state, and so is what a body makes of it.
LEMMA DocumentsTyped ==
  ASSUME NEW d \in Documents, NEW u \in Updates
  PROVE  /\ Migrate[d] \in States
         /\ Apply[u][Migrate[d]] \in States
         /\ Apply[u][Migrate[d]] \in Documents
         /\ \A s \in States : Migrate[s] = s /\ Apply[u][s] \in States
BY LedgerAssumption DEF Documents

-----------------------------------------------------------------------------
(* Init and every step keep the invariant *)

LEMMA InitInv == Init => Inv
<1> SUFFICES ASSUME Init PROVE Inv
  OBVIOUS
<1>1. TypeOK
  <2>1. stateFile \in Documents
    BY LedgerAssumption DEF Init
  <2>2. events \in Seq([sequence : Nat, update : Recording])
    BY DEF Init
  <2>3. QED  BY <2>1, <2>2 DEF Init, TypeOK, Steps
<1>2. LockedIsInside
  BY LedgerAssumption DEF Init, LockedIsInside, Inside
<1>3. BusyHasBody /\ LoadedIsCurrent /\ WrittenIsApplied
  BY DEF Init, BusyHasBody, LoadedIsCurrent, WrittenIsApplied
<1>4. SequenceIsPosition
  BY DEF Init, SequenceIsPosition
<1>5. QED  BY <1>1, <1>2, <1>3, <1>4 DEF Inv

\* Two processes are never inside at once.
LEMMA InsideIsAlone ==
  ASSUME Inv, NEW p \in Processes, NEW q \in Processes,
         pc[p] \in Inside, pc[q] \in Inside
  PROVE  p = q
BY DEF Inv, LockedIsInside

LEMMA BeginInv ==
  ASSUME Inv, NEW p \in Processes, NEW u \in Updates, Begin(p, u)
  PROVE  Inv'
<1> USE DEF Inv, Begin, Goto, files
<1>1. TypeOK'
  BY DEF TypeOK, Steps
<1>2. LockedIsInside'
  BY DEF LockedIsInside, Inside, TypeOK
<1>3. BusyHasBody'
  BY DEF BusyHasBody, TypeOK
<1>4. LoadedIsCurrent' /\ WrittenIsApplied'
  BY DEF LoadedIsCurrent, WrittenIsApplied, TypeOK
<1>5. SequenceIsPosition'
  BY DEF SequenceIsPosition
<1>6. QED  BY <1>1, <1>2, <1>3, <1>4, <1>5

LEMMA LockInv ==
  ASSUME Inv, NEW p \in Processes, Lock(p)
  PROVE  Inv'
<1> USE DEF Inv, Lock, Goto, files, local
<1>1. TypeOK'
  BY DEF TypeOK, Steps
<1>2. LockedIsInside'
  BY LedgerAssumption DEF LockedIsInside, Inside, Steps, TypeOK
<1>3. BusyHasBody'
  BY DEF BusyHasBody, TypeOK
<1>4. LoadedIsCurrent' /\ WrittenIsApplied'
  BY DEF LoadedIsCurrent, WrittenIsApplied, TypeOK
<1>5. SequenceIsPosition'
  BY DEF SequenceIsPosition
<1>6. QED  BY <1>1, <1>2, <1>3, <1>4, <1>5

LEMMA LoadInv ==
  ASSUME Inv, NEW p \in Processes, Load(p)
  PROVE  Inv'
<1>1. LastSequence(events) = Len(events) /\ Len(events) \in Nat
  BY LastSequenceIsLength DEF Inv, TypeOK
<1>2. Migrate[stateFile] \in States
  BY LedgerAssumption DEF Inv, TypeOK
<1> USE DEF Inv, Load, Goto, files, local
<1>3. TypeOK'
  <2>1. lock' \in Processes \cup {None} /\ stateFile' \in Documents /\ torn' \in BOOLEAN
        /\ events' \in Seq([sequence : Nat, update : Recording])
    BY DEF TypeOK
  <2>2. pc' \in [Processes -> Steps] /\ update' \in [Processes -> Updates \cup {None}]
    BY DEF TypeOK, Steps
  <2>3. base' \in [Processes -> States \cup {None}]
    BY <1>2 DEF TypeOK
  <2>4. seen' \in [Processes -> Nat]
    BY <1>1 DEF TypeOK
  <2>5. QED  BY <2>1, <2>2, <2>3, <2>4 DEF TypeOK
<1>4. LockedIsInside'
  BY DEF LockedIsInside, Inside, Steps, TypeOK
<1>5. BusyHasBody'
  BY DEF BusyHasBody, TypeOK
<1>6. LoadedIsCurrent' /\ WrittenIsApplied'
  BY <1>1 DEF LoadedIsCurrent, WrittenIsApplied, TypeOK
<1>7. SequenceIsPosition'
  BY DEF SequenceIsPosition
<1>8. QED  BY <1>3, <1>4, <1>5, <1>6, <1>7

LEMMA WriteStateInv ==
  ASSUME Inv, NEW p \in Processes, WriteState(p)
  PROVE  Inv'
<1> USE DEF Inv, WriteState, Goto, local
<1>1. /\ pc[p] = "writing" /\ update[p] \in Updates
      /\ base[p] = Migrate[stateFile] /\ stateFile \in Documents
      /\ base[p] \in States /\ stateFile' \in Documents
      /\ pc' = [pc EXCEPT ![p] = "appending"]
  BY DocumentsTyped DEF BusyHasBody, LoadedIsCurrent, TypeOK
<1>2. TypeOK'
  BY <1>1 DEF TypeOK, Steps
<1>3. LockedIsInside'
  BY <1>1 DEF LockedIsInside, Inside, Steps, TypeOK
<1>4. BusyHasBody'
  BY <1>1 DEF BusyHasBody, TypeOK
<1>5. \A q \in Processes \ {p} : pc[q] \notin Inside /\ pc'[q] = pc[q]
  BY <1>1, InsideIsAlone DEF Inside, Steps, TypeOK
<1>6. LoadedIsCurrent'
  BY <1>1, <1>5 DEF LoadedIsCurrent, Inside, Steps, TypeOK
<1>7. WrittenIsApplied'
  BY <1>1, <1>5 DEF WrittenIsApplied, LoadedIsCurrent, Inside, Steps, TypeOK
<1>8. SequenceIsPosition'
  BY DEF SequenceIsPosition
<1>9. QED  BY <1>2, <1>3, <1>4, <1>6, <1>7, <1>8

LEMMA AppendRecordInv ==
  ASSUME Inv, NEW p \in Processes, AppendRecord(p)
  PROVE  Inv'
<1> USE DEF Inv, AppendRecord, Goto, local
<1>1. /\ pc[p] = "appending" /\ update[p] \in Updates
      /\ seen[p] = Len(events) /\ events \in Seq([sequence : Nat, update : Recording])
      /\ pc' = [pc EXCEPT ![p] = "unlocking"]
  BY DEF BusyHasBody, WrittenIsApplied, TypeOK
<1>2. events' \in Seq([sequence : Nat, update : Recording])
  <2>1. CASE update[p] \in Recording
    <3>1. Record(seen[p] + 1, update[p]) \in [sequence : Nat, update : Recording]
      BY <1>1, <2>1 DEF Record
    <3>2. QED  BY <1>1, <2>1, <3>1
  <2>2. CASE update[p] \notin Recording
    BY <1>1, <2>2
  <2>3. QED  BY <2>1, <2>2
<1>3. TypeOK'
  <2>1. pc' \in [Processes -> Steps]
    BY <1>1 DEF TypeOK, Steps
  <2>2. QED  BY <1>2, <2>1 DEF TypeOK
<1>4. LockedIsInside'
  BY <1>1 DEF LockedIsInside, Inside, Steps, TypeOK
<1>5. BusyHasBody'
  BY <1>1 DEF BusyHasBody, TypeOK
<1>6. \A q \in Processes \ {p} : pc[q] \notin Inside /\ pc'[q] = pc[q]
  BY <1>1, InsideIsAlone DEF Inside, Steps, TypeOK
<1>7. LoadedIsCurrent' /\ WrittenIsApplied'
  BY <1>1, <1>6 DEF LoadedIsCurrent, WrittenIsApplied, Inside, Steps, TypeOK
<1>8. SequenceIsPosition'
  <2>1. CASE update[p] \in Recording
    <3>1. events' = Append(events, Record(Len(events) + 1, update[p]))
      BY <1>1, <2>1
    <3>2. Record(Len(events) + 1, update[p]) \in [sequence : Nat, update : Recording]
      BY <1>1, <2>1 DEF Record
    <3>3. SUFFICES ASSUME NEW i \in DOMAIN events' PROVE events'[i].sequence = i
      BY DEF SequenceIsPosition
    <3>4. CASE i = Len(events) + 1
      BY <1>1, <3>1, <3>2, <3>4 DEF Record
    <3>5. CASE i # Len(events) + 1
      BY <1>1, <3>1, <3>2, <3>3, <3>5 DEF SequenceIsPosition
    <3>6. QED  BY <3>4, <3>5
  <2>2. CASE update[p] \notin Recording
    BY <2>2 DEF SequenceIsPosition
  <2>3. QED  BY <2>1, <2>2
<1>9. QED  BY <1>3, <1>4, <1>5, <1>7, <1>8

\* Leaving the transaction, with or without the flock, by exception or death.
LEMMA LeaveInv ==
  ASSUME Inv, NEW p \in Processes,
         Unlock(p) \/ Raise(p) \/ FailAppend(p) \/ Kill(p)
  PROVE  Inv'
<1> USE DEF Inv
<1>1. /\ pc[p] # "idle"
      /\ events' = events /\ stateFile' = stateFile /\ torn' \in BOOLEAN
      /\ \A q \in Processes \ {p} :
           /\ pc'[q] = pc[q] /\ update'[q] = update[q]
           /\ base'[q] = base[q] /\ seen'[q] = seen[q]
      /\ torn' # torn => pc[p] = "appending"
  BY DEF Unlock, Raise, FailAppend, Kill, End, Goto, files, local, TypeOK
<1>2. \/ /\ pc' = [pc EXCEPT ![p] = "unlocking"]
         /\ lock' = lock /\ UNCHANGED local /\ pc[p] \in {"writing", "appending"}
      \/ /\ pc' = [pc EXCEPT ![p] = "idle"]
         /\ lock' = IF pc[p] = "waiting" THEN lock ELSE None
         /\ update' = [update EXCEPT ![p] = None]
         /\ base' = [base EXCEPT ![p] = None]
         /\ seen' = [seen EXCEPT ![p] = 0]
  BY DEF Unlock, Raise, FailAppend, Kill, End, Goto, files, local
<1>3. TypeOK'
  <2>1. lock' \in Processes \cup {None} /\ pc' \in [Processes -> Steps]
    BY <1>2 DEF TypeOK, Steps
  <2>2. update' \in [Processes -> Updates \cup {None}]
    BY <1>2 DEF TypeOK, local
  <2>3. base' \in [Processes -> States \cup {None}]
    BY <1>2 DEF TypeOK, local
  <2>4. seen' \in [Processes -> Nat]
    <3>1. seen' = seen \/ seen' = [seen EXCEPT ![p] = 0]
      BY <1>2 DEF local
    <3>2. QED  BY <3>1 DEF TypeOK
  <2>5. QED  BY <1>1, <2>1, <2>2, <2>3, <2>4 DEF TypeOK
<1>4. LockedIsInside'
  BY <1>1, <1>2, LedgerAssumption DEF LockedIsInside, Inside, Steps, TypeOK
<1>5. pc'[p] \in {"idle", "unlocking"}
  BY <1>2 DEF TypeOK
<1>6. BusyHasBody'
  BY <1>1, <1>2 DEF BusyHasBody, local, TypeOK
<1>7. \A q \in Processes \ {p} : pc[q] \in {"writing", "appending"} => torn' = torn
  BY <1>1, InsideIsAlone DEF Inside, Steps
<1>8. LoadedIsCurrent' /\ WrittenIsApplied'
  BY <1>1, <1>5, <1>7 DEF LoadedIsCurrent, WrittenIsApplied
<1>9. SequenceIsPosition'
  BY <1>1 DEF SequenceIsPosition
<1>10. QED  BY <1>3, <1>4, <1>6, <1>8, <1>9

LEMMA StepInv == Inv /\ [Next]_vars => Inv'
<1> SUFFICES ASSUME Inv, [Next]_vars PROVE Inv'
  OBVIOUS
<1>1. CASE Next
  BY <1>1, BeginInv, LockInv, LoadInv, WriteStateInv, AppendRecordInv, LeaveInv
  DEF Next, Progress
<1>2. CASE UNCHANGED vars
  BY <1>2 DEF vars, Inv, TypeOK, LockedIsInside, BusyHasBody, LoadedIsCurrent,
              WrittenIsApplied, SequenceIsPosition
<1>3. QED  BY <1>1, <1>2

\* The inductive invariant holds in every behaviour.
THEOREM InvHolds == Spec => []Inv
BY InitInv, StepInv, PTL DEF Spec

-----------------------------------------------------------------------------
(* What follows from the invariant *)

\* Every variable of the ledger keeps its type; in particular no process ever
\* works on a v1 document it did not migrate.
THEOREM Typed == Spec => []TypeOK
<1>1. Inv => TypeOK
  BY DEF Inv
<1>2. QED  BY <1>1, InvHolds, PTL

\* The evidence is numbered 1, 2, 3, ... whichever processes interleave or die.
THEOREM EvidenceIsGapless == Spec => []SequenceIsPosition
<1>1. Inv => SequenceIsPosition
  BY DEF Inv
<1>2. QED  BY <1>1, InvHolds, PTL

\* After a torn line neither the state nor the evidence ever changes again.
THEOREM TornIsFinal == Spec => TornIsTerminal
<1>1. Inv /\ [Next]_vars => [torn => torn' /\ UNCHANGED <<stateFile, events>>]_vars
  <2> SUFFICES ASSUME Inv, Next, torn
               PROVE  torn' /\ UNCHANGED <<stateFile, events>>
    OBVIOUS
  <2>1. \A p \in Processes : pc[p] \notin {"writing", "appending"}
    BY DEF Inv, LoadedIsCurrent, WrittenIsApplied
  <2>2. QED
    BY <2>1 DEF Next, Progress, Begin, Lock, Load, WriteState, AppendRecord, Unlock,
                Raise, FailAppend, Kill, End, files
<1>2. QED  BY <1>1, InvHolds, PTL DEF Spec, TornIsTerminal

-----------------------------------------------------------------------------
(* The ledger keeps the promise of atomic transactions *)

\* While a process is appending, the promise still stands at the state it loaded.
LEMMA CommittedWhileAppending ==
  ASSUME Inv, NEW p \in Processes, pc[p] = "appending"
  PROVE  Committed = base[p]
<1>1. \A q \in Processes : pc[q] = "appending" => q = p
  BY InsideIsAlone DEF Inside, Steps
<1>2. (CHOOSE q \in Processes : pc[q] = "appending") = p
  BY <1>1
<1>3. QED  BY <1>2 DEF Committed

\* Otherwise it stands at the state on disk.
LEMMA CommittedAtRest ==
  ASSUME \A p \in Processes : pc[p] # "appending"
  PROVE  Committed = Migrate[stateFile]
BY DEF Committed

LEMMA InitAtomic == Init => Atomic!Init
<1> SUFFICES ASSUME Init PROVE Atomic!Init
  OBVIOUS
<1>1. Committed = Migrate[stateFile]
  BY CommittedAtRest DEF Init
<1>2. QED  BY <1>1 DEF Init, Atomic!Init

LEMMA StepAtomic == Inv /\ Inv' /\ [Next]_vars => [Atomic!Next]_(Atomic!vars)
<1> SUFFICES ASSUME Inv, Inv', [Next]_vars PROVE [Atomic!Next]_(Atomic!vars)
  OBVIOUS
<1>1. ASSUME NEW p \in Processes, WriteState(p)
      PROVE  UNCHANGED Atomic!vars
  <2>1. /\ pc[p] = "writing" /\ base[p] = Migrate[stateFile]
        /\ pc'[p] = "appending" /\ base' = base /\ events' = events
    BY <1>1 DEF WriteState, Goto, local, Inv, LoadedIsCurrent, TypeOK
  <2>2. \A q \in Processes : pc[q] # "appending"
    BY <2>1, InsideIsAlone DEF Inside, Steps
  <2>3. Committed = base[p]
    BY <2>1, <2>2, CommittedAtRest
  <2>4. \A q \in Processes : pc'[q] = "appending" <=> q = p
    BY <1>1, <2>1, <2>2 DEF WriteState, Goto, Inv, TypeOK
  <2>5. (CHOOSE q \in Processes : pc'[q] = "appending") = p
    BY <2>4
  <2>6. Committed' = base[p]
    BY <2>1, <2>4, <2>5 DEF Committed
  <2>7. QED  BY <2>1, <2>3, <2>6 DEF Atomic!vars
<1>2. ASSUME NEW p \in Processes, pc[p] = "appending",
             AppendRecord(p) \/ FailAppend(p) \/ Kill(p)
      PROVE  Atomic!Next
  <2>1. /\ update[p] \in Updates /\ base[p] \in States
        /\ stateFile = Apply[update[p]][base[p]]
        /\ seen[p] = Len(events)
        /\ Committed = base[p]
    BY <1>2, CommittedWhileAppending DEF Inv, BusyHasBody, WrittenIsApplied
  <2>2. stateFile \in States /\ Migrate[stateFile] = stateFile
    BY <2>1, LedgerAssumption
  <2>3. \A q \in Processes : pc'[q] # "appending"
    BY <1>2, InsideIsAlone
    DEF AppendRecord, FailAppend, Kill, End, Goto, Inside, Steps, Inv, TypeOK
  <2>4. stateFile' = stateFile
    BY <1>2 DEF AppendRecord, FailAppend, Kill
  <2>5. Committed' = Apply[update[p]][Committed]
    BY <2>1, <2>2, <2>3, <2>4 DEF Committed
  <2>6. CASE events' = events
    BY <2>1, <2>5, <2>6 DEF Atomic!LoseEvidence, Atomic!Next
  <2>7. CASE events' # events
    <3>1. /\ update[p] \in Recording
          /\ events' = Append(events, Record(Len(events) + 1, update[p]))
      BY <1>2, <2>1, <2>7 DEF AppendRecord, FailAppend, Kill
    <3>2. Atomic!Commit(update[p])
      BY <2>5, <3>1 DEF Atomic!Commit, Atomic!Record, Record
    <3>3. QED  BY <2>1, <3>2 DEF Atomic!Next
  <2>8. QED  BY <2>6, <2>7
<1>3. ASSUME UNCHANGED <<stateFile, events>>,
             \A q \in Processes : pc[q] = "appending" <=> pc'[q] = "appending",
             \A q \in Processes : pc[q] = "appending" => base'[q] = base[q]
      PROVE  UNCHANGED Atomic!vars
  <2>1. CASE \E p \in Processes : pc[p] = "appending"
    <3>1. PICK p \in Processes : pc[p] = "appending"
      BY <2>1
    <3>2. \A q \in Processes : pc'[q] = "appending" <=> q = p
      BY <1>3, <3>1, InsideIsAlone DEF Inside, Steps
    <3>3. (CHOOSE q \in Processes : pc'[q] = "appending") = p
      BY <3>2
    <3>4. Committed' = base[p] /\ Committed = base[p]
      BY <1>3, <3>1, <3>2, <3>3, CommittedWhileAppending DEF Committed
    <3>5. QED  BY <1>3, <3>4 DEF Atomic!vars
  <2>2. CASE \A p \in Processes : pc[p] # "appending"
    BY <1>3, <2>2 DEF Committed, Atomic!vars
  <2>3. QED  BY <2>1, <2>2
<1>4. ASSUME NEW p \in Processes, NEW u \in Updates,
             Begin(p, u) \/ Lock(p) \/ Load(p) \/ Unlock(p) \/ Raise(p)
      PROVE  UNCHANGED Atomic!vars
  <2>1. UNCHANGED <<stateFile, events>>
    BY <1>4 DEF Begin, Lock, Load, Unlock, Raise, files
  <2>2. \A q \in Processes : pc[q] = "appending" <=> pc'[q] = "appending"
    BY <1>4 DEF Begin, Lock, Load, Unlock, Raise, End, Goto, Inv, TypeOK
  <2>3. \A q \in Processes : pc[q] = "appending" => base'[q] = base[q]
    BY <1>4 DEF Begin, Lock, Load, Unlock, Raise, End, Goto, local, Inv, TypeOK
  <2>4. QED  BY <1>3, <2>1, <2>2, <2>3
<1>5. ASSUME NEW p \in Processes, Kill(p), pc[p] # "appending"
      PROVE  UNCHANGED Atomic!vars
  <2>1. UNCHANGED <<stateFile, events>>
    BY <1>5 DEF Kill
  <2>2. \A q \in Processes : pc[q] = "appending" <=> pc'[q] = "appending"
    BY <1>5 DEF Kill, End, Goto, Inv, TypeOK
  <2>3. \A q \in Processes : pc[q] = "appending" => base'[q] = base[q]
    BY <1>5 DEF Kill, End, Goto, Inv, TypeOK
  <2>4. QED  BY <1>3, <2>1, <2>2, <2>3
<1>6. ASSUME UNCHANGED vars
      PROVE  UNCHANGED Atomic!vars
  BY <1>3, <1>6 DEF vars
<1>7. ASSUME NEW p \in Processes, AppendRecord(p) \/ FailAppend(p)
      PROVE  pc[p] = "appending"
  BY <1>7 DEF AppendRecord, FailAppend
<1>8. ASSUME Next PROVE [Atomic!Next]_(Atomic!vars)
  <2>1. PICK p \in Processes : \/ \E u \in Updates : Begin(p, u)
                              \/ Lock(p)
                              \/ Progress(p)
                              \/ Raise(p)
                              \/ FailAppend(p)
                              \/ Kill(p)
    BY <1>8 DEF Next
  <2>2. CASE \E u \in Updates : Begin(p, u)
    BY <2>2, <1>4
  <2>3. CASE WriteState(p)
    BY <2>3, <1>1
  <2>4. CASE AppendRecord(p) \/ FailAppend(p) \/ (Kill(p) /\ pc[p] = "appending")
    BY <2>4, <1>2, <1>7
  <2>5. CASE Kill(p) /\ pc[p] # "appending"
    BY <2>5, <1>5
  <2>6. CASE Lock(p) \/ Load(p) \/ Unlock(p) \/ Raise(p)
    <3>1. PICK u \in Updates : TRUE
      BY <2>6 DEF Lock, Load, Unlock, Raise, Inv, BusyHasBody
    <3>2. QED  BY <2>6, <3>1, <1>4
  <2>7. QED  BY <2>1, <2>2, <2>3, <2>4, <2>5, <2>6 DEF Progress
<1>9. QED  BY <1>6, <1>8

\* Every behaviour of the interleaved processes is one of atomic transactions
\* that follow each other.
THEOREM LedgerKeepsAtomic == Spec => KeepsAtomic
<1>1. QED
  BY InitAtomic, StepAtomic, InvHolds, PTL DEF Spec, KeepsAtomic, Atomic!Spec
=============================================================================
