---------------------------- MODULE DurableLedger ----------------------------
(***************************************************************************)
(* The durable ledger of the supervisory hooks (supervisory_hooks/         *)
(* ledger.py).  Every hook invocation is a process of its own; all of them *)
(* share one directory under the common git directory:                     *)
(*                                                                         *)
(*   lock          flock, exclusive for the length of a transaction        *)
(*   state.json    the control state, replaced atomically                  *)
(*   events.jsonl  evidence records, one line each, appended               *)
(*                                                                         *)
(* A transaction loads both files, runs the body of its handler, writes    *)
(* the state and then appends the record.  The host kills a hook that      *)
(* outlives its timeout, the disk may fill up, and a machine may lose      *)
(* power while a line is being appended: then the last line is torn, and   *)
(* the json parser refuses the whole file from there on.  (A line that     *)
(* lacks no more than its newline still parses until the next append makes *)
(* it torn; the model tears it at once.)                                   *)
(***************************************************************************)
EXTENDS Naturals, Sequences

CONSTANTS Processes,   \* hook invocations
          Updates,     \* bodies of transactions
          Recording,   \* the bodies that append a record
          States,      \* control states of the current schema (v2)
          Legacy,      \* state documents of the v1 schema
          Migrate,     \* migrate_state_document
          Apply,       \* Apply[u][s]: the state the body u makes of s
          Initial,     \* state documents a ledger may start with
          MaxRecords,  \* bound: no body that records starts beyond this length
          None

Documents == States \cup Legacy

ASSUME LedgerAssumption ==
  /\ Recording \subseteq Updates
  /\ Migrate \in [Documents -> States]
  /\ \A s \in States : Migrate[s] = s
  /\ Apply \in [Updates -> [States -> States]]
  /\ Initial \subseteq Documents
  /\ MaxRecords \in Nat
  /\ None \notin Processes

VARIABLES lock,       \* the process that holds the flock
          stateFile,  \* state.json
          events,     \* the whole lines of events.jsonl
          torn,       \* events.jsonl ends in a torn line
          pc,         \* pc[p]: where process p is in transaction()
          update,     \* update[p]: the body p runs
          base,       \* base[p]: the state p loaded
          seen        \* seen[p]: the highest sequence p loaded

files == <<stateFile, events, torn>>
local == <<update, base, seen>>
vars  == <<lock, stateFile, events, torn, pc, update, base, seen>>

Steps  == {"idle", "waiting", "locked", "writing", "appending", "unlocking"}
Inside == Steps \ {"idle", "waiting"}

Record(n, u) == [sequence |-> n, update |-> u]

\* max(..., default=0) over the sequences of the loaded history.
LastSequence(log) ==
  CHOOSE n \in {0} \cup {log[i].sequence : i \in DOMAIN log} :
    \A i \in DOMAIN log : log[i].sequence <= n

Init == /\ lock = None
        /\ stateFile \in Initial
        /\ events = <<>>
        /\ torn = FALSE
        /\ pc = [p \in Processes |-> "idle"]
        /\ update = [p \in Processes |-> None]
        /\ base = [p \in Processes |-> None]
        /\ seen = [p \in Processes |-> 0]

-----------------------------------------------------------------------------
(* Steps of transaction() *)

Goto(p, step) == pc' = [pc EXCEPT ![p] = step]

Begin(p, u) == /\ pc[p] = "idle"
               /\ u \in Recording => Len(events) < MaxRecords
               /\ update' = [update EXCEPT ![p] = u]
               /\ Goto(p, "waiting")
               /\ UNCHANGED <<lock, files, base, seen>>

\* (mutant) a shared lock keeps nobody out
LockShared(p) == /\ pc[p] = "waiting"
                 /\ lock' = p
                 /\ Goto(p, "locked")
                 /\ UNCHANGED <<files, local>>

\* fcntl.flock(LOCK_EX)
Lock(p) == /\ pc[p] = "waiting"
           /\ lock = None
           /\ lock' = p
           /\ Goto(p, "locked")
           /\ UNCHANGED <<files, local>>

\* (mutant) lines that do not parse are skipped
LoadTorn(p) ==
  /\ pc[p] = "locked"
  /\ base' = [base EXCEPT ![p] = Migrate[stateFile]]
  /\ seen' = [seen EXCEPT ![p] = LastSequence(events)]
  /\ Goto(p, "writing")
  /\ UNCHANGED <<lock, files, update>>

\* _load_state and _load_records; a torn line raises before the body runs.
Load(p) ==
  /\ pc[p] = "locked"
  /\ \/ /\ torn
        /\ Goto(p, "unlocking")
        /\ UNCHANGED local
     \/ /\ ~torn
        /\ base' = [base EXCEPT ![p] = Migrate[stateFile]]
        /\ seen' = [seen EXCEPT ![p] = LastSequence(events)]
        /\ Goto(p, "writing")
        /\ UNCHANGED update
  /\ UNCHANGED <<lock, files>>

\* (mutant) the lock is dropped before the record is appended
WriteStateUnlocking(p) == /\ pc[p] = "writing"
                          /\ stateFile' = Apply[update[p]][base[p]]
                          /\ lock' = None
                          /\ Goto(p, "appending")
                          /\ UNCHANGED <<events, torn, local>>

\* The body has run: _write_state replaces state.json.  It is skipped when the
\* loaded document was of the current schema and the body changed nothing,
\* and then writing would not change the file either.
WriteState(p) == /\ pc[p] = "writing"
                 /\ stateFile' = Apply[update[p]][base[p]]
                 /\ Goto(p, "appending")
                 /\ UNCHANGED <<lock, events, torn, local>>

\* _append_records: no handler appends more than one record.
AppendRecord(p) ==
  /\ pc[p] = "appending"
  /\ events' = IF update[p] \in Recording
               THEN Append(events, Record(seen[p] + 1, update[p]))
               ELSE events
  /\ Goto(p, "unlocking")
  /\ UNCHANGED <<lock, stateFile, torn, local>>

\* The process is gone, and what it had loaded with it.
End(p) == /\ Goto(p, "idle")
          /\ update' = [update EXCEPT ![p] = None]
          /\ base' = [base EXCEPT ![p] = None]
          /\ seen' = [seen EXCEPT ![p] = 0]

\* finally: fcntl.flock(LOCK_UN)
Unlock(p) == /\ pc[p] = "unlocking"
             /\ lock' = None
             /\ End(p)
             /\ UNCHANGED files

\* The body raises (git or a file it digests fails), or the temporary state
\* file cannot be written: nothing is changed.
Raise(p) == /\ pc[p] = "writing"
            /\ Goto(p, "unlocking")
            /\ UNCHANGED <<lock, files, local>>

\* The append fails and raises, with or without a part of the line written.
FailAppend(p) == /\ pc[p] = "appending"
                 /\ update[p] \in Recording
                 /\ torn' \in {torn, TRUE}
                 /\ Goto(p, "unlocking")
                 /\ UNCHANGED <<lock, stateFile, events, local>>

\* (mutant) the lock is a file that a dead process leaves behind
KillHolding(p) == /\ pc[p] # "idle"
                  /\ End(p)
                  /\ UNCHANGED <<lock, files>>

\* The process dies; the kernel drops its flock.  A record that was being
\* appended is lost, or torn.
Kill(p) == /\ pc[p] # "idle"
           /\ lock' = IF pc[p] = "waiting" THEN lock ELSE None
           /\ torn' \in IF pc[p] = "appending" /\ update[p] \in Recording
                        THEN {torn, TRUE}
                        ELSE {torn}
           /\ End(p)
           /\ UNCHANGED <<stateFile, events>>

Progress(p) == Load(p) \/ WriteState(p) \/ AppendRecord(p) \/ Unlock(p)

Next == \E p \in Processes : \/ \E u \in Updates : Begin(p, u)
                             \/ Lock(p)
                             \/ Progress(p)
                             \/ Raise(p)
                             \/ FailAppend(p)
                             \/ Kill(p)

Spec == Init /\ [][Next]_vars

\* A process that runs keeps running, and the kernel hands a contended flock
\* to its waiters in turn.
FairSpec == Spec /\ \A p \in Processes : WF_vars(Progress(p)) /\ SF_vars(Lock(p))

-----------------------------------------------------------------------------
(* Properties *)

TypeOK == /\ lock \in Processes \cup {None}
          /\ stateFile \in Documents
          /\ events \in Seq([sequence : Nat, update : Recording])
          /\ torn \in BOOLEAN
          /\ pc \in [Processes -> Steps]
          /\ update \in [Processes -> Updates \cup {None}]
          /\ base \in [Processes -> States \cup {None}]
          /\ seen \in [Processes -> Nat]

\* The evidence is numbered without gap or repetition, though every process
\* takes its number from a copy of the history it loaded, and whatever dies.
SequenceIsPosition == \A i \in DOMAIN events : events[i].sequence = i

\* A transaction that asked for the lock is over some time later.
TransactionsEnd == \A p \in Processes : (pc[p] = "waiting") ~> (pc[p] = "idle")

\* Once a line is torn no transaction changes anything any more: the ledger
\* refuses every later hook and does not repair itself.
TornIsTerminal == [][torn => torn' /\ UNCHANGED <<stateFile, events>>]_vars

-----------------------------------------------------------------------------
(* The promise to the handlers: a transaction happens when it appends.      *)

\* The control state that the next transaction to append will build on.
Committed ==
  IF \E p \in Processes : pc[p] = "appending"
  THEN base[CHOOSE p \in Processes : pc[p] = "appending"]
  ELSE Migrate[stateFile]

Atomic == INSTANCE AtomicLedger WITH state   <- Committed,
                                     log     <- events,
                                     Initial <- {Migrate[d] : d \in Initial}

\* Interleaved, killed and failing processes still run one atomic transaction
\* after another: no handler decides on a state another one has replaced.
KeepsAtomic == Atomic!Spec
=============================================================================
