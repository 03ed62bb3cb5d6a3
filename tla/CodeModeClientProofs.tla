------------------------ MODULE CodeModeClientProofs ------------------------
(***************************************************************************)
(* What holds of the bootstrap client for any number of callers, cells,    *)
(* sessions, edits and late transactions.                                  *)
(*                                                                         *)
(* A transaction is made of states that its caller was shown, and goes on  *)
(* only if the notebook is in the very state it expects; whoever commits   *)
(* it, however late, finds the preimages or changes nothing.  The gate of  *)
(* a client that lives on tells what its last observation was.             *)
(***************************************************************************)
EXTENDS CodeModeClient, TLAPS

Places == {"idle", "resolve", "check", "capture-state", "run-focused-probe",
           "apply-cell-transaction", "transact", "after"}

Operations == Simple \cup Transactions

ObservationRecords ==
  [op : Operations, before : States \cup {None}, after : States \cup {None},
   released : BOOLEAN]

-----------------------------------------------------------------------------
(* The parts of the invariant *)

Typing ==
  /\ live \in States
  /\ inflight \subseteq [by : Callers, op : Transactions]
  /\ at \in [Callers -> Places]
  /\ op \in [Callers -> Operations \cup {NoOp}]
  /\ before \in [Callers -> States \cup {None}]
  /\ phase \in [Callers -> Phases]
  /\ gate \in [Callers -> BOOLEAN]
  /\ quarantined \in [Callers -> BOOLEAN]
  /\ log \in [Callers -> Seq(ObservationRecords)]

\* A request serves an operation of its kind.
Serves(place, o) ==
  /\ place = "resolve" => o.kind = "resolve-session"
  /\ place = "check" => o \in Operations /\ o.kind # "resolve-session"
  /\ place = "capture-state" => o.kind = "capture-state"
  /\ place = "run-focused-probe" => o.kind = "run-focused-probe"
  /\ place \in {"apply-cell-transaction", "transact", "after"} => o \in Transactions

RequestsServe == \A c \in Callers : Serves(at[c], op[c])

\* The preimages of o are what caller c was shown at some time.
ShownTo(c, o) == \E s \in Seen(c) : \A x \in DOMAIN o.old : o.old[x] = s[x]

TransactionsAreShown ==
  \A c \in Callers : op[c] \in Transactions => op[c].expected \in Seen(c) /\ ShownTo(c, op[c])

\* So is what the kernel may still carry out, to the caller who submitted it.
LateOnesAreShown == \A t \in inflight : ShownTo(t.by, t.op)

\* A transaction that was submitted found the state it expects.
SubmittedIsFresh ==
  \A c \in Callers : at[c] \in {"transact", "after"} => before[c] = op[c].expected

IInv ==
  /\ Typing
  /\ RequestsServe
  /\ TransactionsAreShown
  /\ LateOnesAreShown
  /\ SubmittedIsFresh
  /\ ReleasedIsDeclared

-----------------------------------------------------------------------------
(* Operations *)

\* Whatever is served has a kind of its own.
LEMMA Kinds ==
  /\ \A o \in Simple : o.kind \in {"resolve-session", "capture-state", "run-focused-probe"}
  /\ \A o \in Transactions :
       /\ o.kind = "apply-cell-transaction"
       /\ o.expected \in States
       /\ DOMAIN o.old = DOMAIN o.new
       /\ DOMAIN o.new \subseteq Cells
       /\ \A x \in DOMAIN o.new : o.new[x] \in Contents
  /\ NoOp.kind = "none"
BY DEF Simple, Transactions, NoOp

\* What the gates of a transaction look at is the transaction of the proposal.
LEMMA ProposedIsTransaction ==
  ASSUME NEW now \in States, NEW T \in SUBSET Cells \ {{}}, NEW old \in [T -> Contents],
         NEW new \in [T -> Contents]
  PROVE  [kind |-> "apply-cell-transaction", expected |-> now, old |-> old, new |-> new]
           \in Transactions
BY DEF Transactions

\* A result that is "applied-as-declared" is the state before with the declared
\* cells, and no others, replaced.
LEMMA AppliedIsDeclared ==
  ASSUME NEW o, NEW b, NEW a \in States \cup {None},
         StructuralResult(o, b, a) = "applied-as-declared"
  PROVE  a = [x \in Cells |-> IF x \in DOMAIN o.new THEN o.new[x] ELSE b[x]]
<1>1. a # None /\ b # None
  BY DEF StructuralResult
<1>2. Changed(b, a) = DOMAIN o.new /\ \A x \in DOMAIN o.new : a[x] = o.new[x]
  <2> DEFINE declared == Changed(b, a) = DOMAIN o.new /\ \A x \in DOMAIN o.new : a[x] = o.new[x]
  <2>1. ~declared => StructuralResult(o, b, a) # "applied-as-declared"
    BY DEF StructuralResult
  <2> QED BY <2>1
<1>3. \A x \in Cells : x \notin DOMAIN o.new => a[x] = b[x]
  BY <1>1, <1>2 DEF Changed
<1>4. a = [x \in Cells |-> a[x]]
  BY <1>1 DEF States
<1> QED BY <1>2, <1>3, <1>4

-----------------------------------------------------------------------------
(* What a client does with its call *)

\* What a caller has been shown are the states of its observations.
LEMMA SeenIsLogged ==
  ASSUME NEW c \in Callers
  PROVE  \A s : s \in Seen(c) <=>
                (s # None /\ \E i \in DOMAIN log[c] : s \in {log[c][i].before, log[c][i].after})
BY DEF Seen

\* They are states, as the log says.
LEMMA SeenIsStates ==
  ASSUME log \in [Callers -> Seq(ObservationRecords)], NEW c \in Callers
  PROVE  Seen(c) \subseteq States
<1> SUFFICES ASSUME NEW s \in Seen(c) PROVE s \in States
  OBVIOUS
<1>1. s # None /\ \E i \in DOMAIN log[c] : s \in {log[c][i].before, log[c][i].after}
  BY SeenIsLogged
<1>2. PICK i \in DOMAIN log[c] : s \in {log[c][i].before, log[c][i].after}
  BY <1>1
<1>3. log[c][i] \in ObservationRecords
  OBVIOUS
<1> QED BY <1>1, <1>2, <1>3 DEF ObservationRecords

\* A longer log shows no less.
LEMMA SeenGrows ==
  ASSUME NEW c \in Callers,
         DOMAIN log[c] \subseteq DOMAIN log'[c],
         \A i \in DOMAIN log[c] : log'[c][i] = log[c][i]
  PROVE  Seen(c) \subseteq Seen(c)'
<1>1. \A s : s \in Seen(c) =>
               (s # None /\ \E i \in DOMAIN log[c] : s \in {log[c][i].before, log[c][i].after})
  BY SeenIsLogged
<1>2. (\A s : s \in Seen(c) <=>
               (s # None /\ \E i \in DOMAIN log[c] : s \in {log[c][i].before, log[c][i].after}))'
  BY SeenIsLogged, PTL
<1> QED BY <1>1, <1>2

\* A caller that has been shown more still has been shown a transaction.
LEMMA ShownForGood ==
  ASSUME NEW c \in Callers, Seen(c) \subseteq Seen(c)'
  PROVE  \A o \in Transactions :
           /\ ShownTo(c, o) => ShownTo(c, o)'
           /\ o.expected \in Seen(c) => o.expected \in Seen(c)'
BY DEF ShownTo

\* While nothing is filed, nobody is shown more.
LEMMA SameLog ==
  ASSUME log' = log
  PROVE  \A c \in Callers : /\ Seen(c)' = Seen(c)
                            /\ \A o : ShownTo(c, o) <=> ShownTo(c, o)'
BY DEF Seen, ShownTo

\* Filing the observation of a call keeps the invariant, provided the state
\* before a transaction is the one it expects.
LEMMA RecordStep ==
  ASSUME IInv, NEW c \in Callers, NEW b \in States \cup {None}, NEW a \in States \cup {None},
         NEW released \in BOOLEAN, op[c] \in Operations, Record(c, b, a, released),
         op[c] \in Transactions => b = op[c].expected,
         UNCHANGED <<live, inflight>>
  PROVE  IInv'
<1>1. /\ log' \in [Callers -> Seq(ObservationRecords)]
      /\ log'[c] = Append(log[c], Observation(op[c], b, a, released))
      /\ \A d \in Callers \ {c} : log'[d] = log[d]
      /\ at' = [at EXCEPT ![c] = "idle"]
      /\ op' = [op EXCEPT ![c] = NoOp]
      /\ before' = [before EXCEPT ![c] = None]
      /\ phase' = phase
      /\ gate' \in [Callers -> BOOLEAN]
      /\ quarantined' \in [Callers -> BOOLEAN]
  <2> DEFINE r == Observation(op[c], b, a, released)
  <2>1. r \in ObservationRecords
    BY DEF Observation, ObservationRecords
  <2>2. log' = [log EXCEPT ![c] = Append(@, r)]
    BY DEF Record
  <2> HIDE DEF r
  <2>3. Append(log[c], r) \in Seq(ObservationRecords)
    BY <2>1 DEF IInv, Typing
  <2>4. /\ log' \in [Callers -> Seq(ObservationRecords)]
        /\ log'[c] = Append(log[c], r)
        /\ \A d \in Callers \ {c} : log'[d] = log[d]
    BY <2>2, <2>3 DEF IInv, Typing
  <2>5. gate' \in [Callers -> BOOLEAN] /\ quarantined' \in [Callers -> BOOLEAN]
    BY DEF IInv, Typing, Record
  <2> QED BY <2>4, <2>5 DEF Record, r
<1>2. Typing'
  BY <1>1 DEF IInv, Typing, Places
<1>3. RequestsServe'
  BY <1>1 DEF IInv, Typing, RequestsServe, Serves
<1>4. NoOp \notin Transactions
  BY Kinds
<1>9. ASSUME NEW d \in Callers PROVE Seen(d) \subseteq Seen(d)'
  <2>1. /\ DOMAIN log[d] \subseteq DOMAIN log'[d]
        /\ \A i \in DOMAIN log[d] : log'[d][i] = log[d][i]
    <3>1. CASE d = c
      <4> DEFINE r == Observation(op[c], b, a, released)
      <4>1. log[c] \in Seq(ObservationRecords) /\ log'[c] = Append(log[c], r)
        BY <1>1 DEF IInv, Typing
      <4> HIDE DEF r
      <4> QED BY <3>1, <4>1
    <3> QED BY <1>1, <3>1
  <2> QED BY <2>1, SeenGrows
<1>5. TransactionsAreShown'
  <2> SUFFICES ASSUME NEW d \in Callers, op'[d] \in Transactions
               PROVE  op'[d].expected \in Seen(d)' /\ ShownTo(d, op[d])' /\ op'[d] = op[d]
    BY DEF TransactionsAreShown, ShownTo
  <2>1. op'[d] = op[d] /\ op[d] \in Transactions
    BY <1>1, <1>4 DEF IInv, Typing
  <2>2. op[d].expected \in Seen(d) /\ ShownTo(d, op[d])
    BY <2>1 DEF IInv, TransactionsAreShown
  <2>3. Seen(d) \subseteq Seen(d)'
    BY <1>9
  <2>4. op[d].expected \in Seen(d)' /\ (\E s \in Seen(d)' : \A x \in DOMAIN op[d].old : op[d].old[x] = s[x])
    BY <2>2, <2>3 DEF ShownTo
  <2> QED BY <2>1, <2>4 DEF ShownTo
<1>6. LateOnesAreShown'
  <2> SUFFICES ASSUME NEW t \in inflight PROVE ShownTo(t.by, t.op)'
    BY DEF LateOnesAreShown
  <2>1. ShownTo(t.by, t.op) /\ t.by \in Callers
    BY DEF IInv, Typing, LateOnesAreShown
  <2>2. Seen(t.by) \subseteq Seen(t.by)'
    BY <1>9, <2>1
  <2> QED BY <2>1, <2>2 DEF ShownTo
<1>7. SubmittedIsFresh'
  BY <1>1 DEF IInv, Typing, SubmittedIsFresh
<1>8. ReleasedIsDeclared'
  <2> SUFFICES ASSUME NEW d \in Callers, NEW i \in DOMAIN log'[d],
                      log'[d][i].op.kind = "apply-cell-transaction", log'[d][i].released
               PROVE  LET o == log'[d][i] IN
                      /\ o.before = o.op.expected
                      /\ \E j \in 1 .. (i - 1) : o.before \in {log'[d][j].before, log'[d][j].after}
                      /\ o.after = [x \in Cells |->
                                      IF x \in DOMAIN o.op.new THEN o.op.new[x] ELSE o.before[x]]
    BY DEF ReleasedIsDeclared, IsApply
  <2>0. /\ log[d] \in Seq(ObservationRecords) /\ Len(log[d]) \in Nat
        /\ DOMAIN log[d] = 1 .. Len(log[d])
        /\ \A j \in DOMAIN log[d] : log'[d][j] = log[d][j]
    <3>1. CASE d = c
      <4> DEFINE r == Observation(op[c], b, a, released)
      <4>1. log[c] \in Seq(ObservationRecords) /\ log'[c] = Append(log[c], r)
        BY <1>1 DEF IInv, Typing
      <4> HIDE DEF r
      <4> QED BY <3>1, <4>1
    <3> QED BY <1>1, <3>1 DEF IInv, Typing
  <2>1. CASE i \in DOMAIN log[d] /\ log'[d][i] = log[d][i]
    <3>1. \A j \in 1 .. (i - 1) : log'[d][j] = log[d][j]
      BY <2>0, <2>1
    <3> QED BY <2>1, <3>1 DEF IInv, ReleasedIsDeclared, IsApply
  <2>2. CASE d = c /\ i = Len(log[c]) + 1 /\ log'[d][i] = Observation(op[c], b, a, released)
    <3>1. op[c].kind = "apply-cell-transaction" /\ released
      BY <2>2 DEF Observation
    <3>2. op[c] \in Transactions
      BY <3>1, Kinds DEF Operations
    <3>3. b = op[c].expected /\ op[c].expected \in Seen(c)
      BY <3>2 DEF IInv, TransactionsAreShown
    <3>6. \E j \in 1 .. (i - 1) : b \in {log'[c][j].before, log'[c][j].after}
      <4>1. PICK j \in DOMAIN log[c] : b \in {log[c][j].before, log[c][j].after}
        BY <3>3, SeenIsLogged
      <4>2. j \in 1 .. (i - 1) /\ log'[c][j] = log[c][j]
        BY <2>0, <2>2
      <4> QED BY <4>1, <4>2
    <3>4. StructuralResult(op[c], b, a) = "applied-as-declared"
      BY <3>1 DEF Record, Releasable
    <3>5. a = [x \in Cells |-> IF x \in DOMAIN op[c].new THEN op[c].new[x] ELSE b[x]]
      BY <3>4, AppliedIsDeclared
    <3> QED BY <2>2, <3>3, <3>5, <3>6 DEF Observation
  <2>3. \/ i \in DOMAIN log[d] /\ log'[d][i] = log[d][i]
        \/ d = c /\ i = Len(log[c]) + 1 /\ log'[d][i] = Observation(op[c], b, a, released)
    <3>1. CASE d = c
      <4>1. log[c] \in Seq(ObservationRecords)
        BY DEF IInv, Typing
      <4> DEFINE r == Observation(op[c], b, a, released)
      <4>2. log'[c] = Append(log[c], r) /\ i \in DOMAIN log'[c]
        BY <1>1, <3>1
      <4> HIDE DEF r
      <4>3. (i \in DOMAIN log[c] /\ log'[c][i] = log[c][i]) \/ (i = Len(log[c]) + 1 /\ log'[c][i] = r)
        BY <4>1, <4>2
      <4> QED BY <3>1, <4>3 DEF r
    <3>2. CASE d # c
      BY <1>1, <3>2
    <3> QED BY <3>1, <3>2
  <2> QED BY <2>1, <2>2, <2>3
<1> QED BY <1>2, <1>3, <1>5, <1>6, <1>7, <1>8 DEF IInv

\* A call that ends without an observation leaves nothing behind.
LEMMA DenyStep ==
  ASSUME IInv, NEW c \in Callers, Deny(c), UNCHANGED <<live, inflight>>
  PROVE  IInv'
<1>1. /\ at' = [at EXCEPT ![c] = "idle"]
      /\ op' = [op EXCEPT ![c] = NoOp]
      /\ before' = [before EXCEPT ![c] = None]
      /\ UNCHANGED <<phase, gate, quarantined, log>>
  BY DEF Deny
<1>2. Typing'
  BY <1>1 DEF IInv, Typing, Places
<1>3. RequestsServe' /\ SubmittedIsFresh'
  BY <1>1 DEF IInv, Typing, RequestsServe, Serves, SubmittedIsFresh
<1>4. NoOp \notin Transactions
  BY Kinds
<1>5. TransactionsAreShown'
  <2> SUFFICES ASSUME NEW d \in Callers, op'[d] \in Transactions
               PROVE  op'[d].expected \in Seen(d) /\ ShownTo(d, op'[d])
    BY <1>1, SameLog DEF TransactionsAreShown
  <2>1. op'[d] = op[d] /\ op[d] \in Transactions
    BY <1>1, <1>4 DEF IInv, Typing
  <2> QED BY <2>1 DEF IInv, TransactionsAreShown
<1>6. LateOnesAreShown' /\ ReleasedIsDeclared'
  <2>1. LateOnesAreShown'
    <3>1. \A t \in inflight : t.by \in Callers /\ ShownTo(t.by, t.op)
      BY DEF IInv, Typing, LateOnesAreShown
    <3> QED BY <1>1, <3>1, SameLog DEF LateOnesAreShown
  <2>2. ReleasedIsDeclared'
    BY <1>1 DEF IInv, ReleasedIsDeclared, IsApply
  <2> QED BY <2>1, <2>2
<1> QED BY <1>2, <1>3, <1>5, <1>6 DEF IInv

\* Between two requests of a call nothing but the place changes.
LEMMA GotoStep ==
  ASSUME IInv, NEW c \in Callers, NEW place \in Places, Goto(c, place),
         Serves(place, op[c]),
         before' \in [Callers -> States \cup {None}],
         \A d \in Callers \ {c} : before'[d] = before[d],
         place \in {"transact", "after"} => before'[c] = op[c].expected,
         \A t \in inflight' : t \in inflight \/ (t = [by |-> c, op |-> op[c]] /\ op[c] \in Transactions),
         UNCHANGED <<live, log>>
  PROVE  IInv'
<1>1. /\ at' = [at EXCEPT ![c] = place]
      /\ UNCHANGED <<op, phase, gate, quarantined>>
  BY DEF Goto
<1>2. Typing'
  <2>1. inflight' \subseteq [by : Callers, op : Transactions]
    BY DEF IInv, Typing
  <2> QED BY <1>1, <2>1 DEF IInv, Typing
<1>3. RequestsServe'
  <2> SUFFICES ASSUME NEW d \in Callers PROVE Serves(at'[d], op'[d])
    BY DEF RequestsServe, Serves
  <2>1. CASE d = c
    BY <1>1, <2>1 DEF IInv, Typing
  <2>2. CASE d # c
    BY <1>1, <2>2 DEF IInv, Typing, RequestsServe
  <2> QED BY <2>1, <2>2
<1>4. TransactionsAreShown'
  BY <1>1, SameLog DEF IInv, TransactionsAreShown
<1>5. LateOnesAreShown'
  <2> SUFFICES ASSUME NEW t \in inflight' PROVE ShownTo(t.by, t.op) /\ t.by \in Callers
    BY SameLog DEF LateOnesAreShown
  <2>1. CASE t \in inflight
    BY <2>1 DEF IInv, Typing, LateOnesAreShown
  <2>2. CASE t = [by |-> c, op |-> op[c]] /\ op[c] \in Transactions
    BY <2>2 DEF IInv, TransactionsAreShown
  <2> QED BY <2>1, <2>2
<1>6. SubmittedIsFresh'
  BY <1>1 DEF IInv, Typing, SubmittedIsFresh
<1>7. ReleasedIsDeclared'
  BY DEF IInv, ReleasedIsDeclared, IsApply
<1> QED BY <1>2, <1>3, <1>4, <1>5, <1>6, <1>7 DEF IInv

\* Every request of a call keeps the invariant.
LEMMA ServeStep ==
  ASSUME IInv, NEW c \in Callers, Serve(c)
  PROVE  IInv'
<1>1. /\ at[c] \in Places /\ Serves(at[c], op[c])
      /\ before \in [Callers -> States \cup {None}]
      /\ live \in States
      /\ None \in States \cup {None}
  BY DEF IInv, Typing, RequestsServe
<1>2. ASSUME NEW s \in Answers(c)
      PROVE  s \in States \cup {None} /\ (s # None => s = live)
  BY <1>1, <1>2 DEF Answers
<1>3. CASE Resolve(c)
  <2>1. /\ at[c] = "resolve" /\ UNCHANGED <<live, inflight>>
        /\ (\E released \in BOOLEAN : Record(c, None, None, released)) \/ Deny(c)
    BY <1>3 DEF Resolve, notebook
  <2>2. op[c].kind = "resolve-session" /\ at[c] # "idle"
    BY <1>1, <2>1 DEF Serves
  <2>3. op[c] \in Operations /\ op[c] \notin Transactions
    BY <2>2, Kinds DEF IInv, Typing
  <2> QED BY <1>1, <2>1, <2>3, RecordStep, DenyStep
<1>4. CASE CheckSession(c)
  <2>1. /\ at[c] = "check" /\ UNCHANGED <<live, inflight>>
        /\ (Goto(c, op[c].kind) /\ UNCHANGED <<before, log>>) \/ Deny(c)
    BY <1>4 DEF CheckSession, notebook
  <2>2. CASE Goto(c, op[c].kind) /\ UNCHANGED <<before, log>>
    <3>1. op[c] \in Operations /\ op[c].kind # "resolve-session"
      BY <1>1, <2>1 DEF Serves
    <3>2. /\ op[c].kind \in Places
          /\ op[c].kind \notin {"transact", "after"}
          /\ Serves(op[c].kind, op[c])
      <4>1. CASE op[c] \in Simple
        <5>1. op[c].kind \in {"capture-state", "run-focused-probe"}
          BY <3>1, <4>1, Kinds
        <5> QED BY <5>1 DEF Places, Serves
      <4>2. CASE op[c] \in Transactions
        <5>1. op[c].kind = "apply-cell-transaction"
          BY <4>2, Kinds
        <5> QED BY <4>2, <5>1 DEF Places, Serves
      <4> QED BY <3>1, <4>1, <4>2 DEF Operations
    <3> QED BY <1>1, <2>1, <2>2, <3>2, GotoStep
  <2> QED BY <2>1, <2>2, DenyStep
<1>5. CASE CaptureState(c)
  <2>1. PICK s \in Answers(c), released \in BOOLEAN : Record(c, s, s, released)
    BY <1>5 DEF CaptureState
  <2>2. at[c] = "capture-state" /\ UNCHANGED <<live, inflight>>
    BY <1>5 DEF CaptureState, notebook
  <2>3. op[c].kind = "capture-state"
    BY <1>1, <2>2 DEF Serves
  <2>4. op[c] \in Operations /\ op[c] \notin Transactions
    BY <2>3, Kinds DEF IInv, Typing
  <2> QED BY <1>1, <1>2, <2>1, <2>2, <2>4, RecordStep
<1>6. CASE RunFocusedProbe(c)
  <2>1. PICK s \in Answers(c), released \in BOOLEAN : Record(c, s, s, released)
    BY <1>6 DEF RunFocusedProbe
  <2>2. at[c] = "run-focused-probe" /\ UNCHANGED <<live, inflight>>
    BY <1>6 DEF RunFocusedProbe, notebook
  <2>3. op[c].kind = "run-focused-probe"
    BY <1>1, <2>2 DEF Serves
  <2>4. op[c] \in Operations /\ op[c] \notin Transactions
    BY <2>3, Kinds DEF IInv, Typing
  <2> QED BY <1>1, <1>2, <2>1, <2>2, <2>4, RecordStep
<1>7. CASE CaptureBefore(c)
  <2>1. PICK s \in Answers(c) :
          \/ /\ Fresh(op[c], s)
             /\ before' = [before EXCEPT ![c] = s]
             /\ Goto(c, "transact")
             /\ UNCHANGED log
          \/ Deny(c)
    BY <1>7 DEF CaptureBefore
  <2>2. at[c] = "apply-cell-transaction" /\ UNCHANGED <<live, inflight>>
    BY <1>7 DEF CaptureBefore, notebook
  <2>3. CASE /\ Fresh(op[c], s)
             /\ before' = [before EXCEPT ![c] = s]
             /\ Goto(c, "transact")
             /\ UNCHANGED log
    <3>1. s \in States \cup {None} /\ s = op[c].expected
      BY <1>2, <2>3 DEF Fresh
    <3>2. "transact" \in Places /\ Serves("transact", op[c])
      BY <1>1, <2>2 DEF Places, Serves
    <3>3. /\ before' \in [Callers -> States \cup {None}]
          /\ before'[c] = op[c].expected
          /\ \A d \in Callers \ {c} : before'[d] = before[d]
      BY <1>1, <2>3, <3>1
    <3> QED BY <2>2, <2>3, <3>2, <3>3, GotoStep
  <2> QED BY <2>1, <2>2, <2>3, DenyStep
<1>8. CASE Transact(c)
  <2>1. /\ at[c] = "transact" /\ Goto(c, "after")
        /\ inflight' \subseteq inflight \cup {[by |-> c, op |-> op[c]]}
        /\ UNCHANGED <<live, before, log>>
    BY <1>8 DEF Transact
  <2>2. op[c] \in Transactions /\ "after" \in Places /\ Serves("after", op[c])
    BY <1>1, <2>1 DEF Places, Serves
  <2>3. before[c] = op[c].expected
    BY <2>1 DEF IInv, SubmittedIsFresh
  <2> QED BY <1>1, <2>1, <2>2, <2>3, GotoStep
<1>9. CASE CaptureAfter(c)
  <2>1. PICK s \in Answers(c), released \in BOOLEAN : Record(c, before[c], s, released)
    BY <1>9 DEF CaptureAfter
  <2>2. at[c] = "after" /\ UNCHANGED <<live, inflight>>
    BY <1>9 DEF CaptureAfter, notebook
  <2>3. op[c] \in Operations /\ before[c] = op[c].expected
    BY <1>1, <2>2 DEF Serves, Operations, IInv, SubmittedIsFresh
  <2> QED BY <1>1, <1>2, <2>1, <2>2, <2>3, RecordStep
<1> QED BY <1>3, <1>4, <1>5, <1>6, <1>7, <1>8, <1>9 DEF Serve

\* A call that is admitted starts with its first request.
LEMMA CallStep ==
  ASSUME IInv, NEW c \in Callers, NEW o \in Operations, Call(c, o),
         o \in Transactions => o.expected \in Seen(c) /\ ShownTo(c, o)
  PROVE  IInv'
<1>1. /\ at[c] = "idle"
      /\ op' = [op EXCEPT ![c] = o]
      /\ UNCHANGED <<live, inflight, before, phase, gate, quarantined, log>>
  BY DEF Call, notebook
<1>2. PICK place \in {"resolve", "check"} :
        /\ at' = [at EXCEPT ![c] = place]
        /\ (place = "resolve" <=> o.kind = "resolve-session")
  BY DEF Call
<1>3. Typing'
  BY <1>1, <1>2 DEF IInv, Typing, Places
<1>4. RequestsServe' /\ SubmittedIsFresh'
  BY <1>1, <1>2 DEF IInv, Typing, RequestsServe, Serves, SubmittedIsFresh
<1>5. TransactionsAreShown'
  <2> SUFFICES ASSUME NEW d \in Callers, op'[d] \in Transactions
               PROVE  op'[d].expected \in Seen(d) /\ ShownTo(d, op'[d])
    BY <1>1, SameLog DEF TransactionsAreShown
  <2>1. op'[d] = IF d = c THEN o ELSE op[d]
    BY <1>1 DEF IInv, Typing
  <2> QED BY <2>1 DEF IInv, TransactionsAreShown
<1>6. LateOnesAreShown' /\ ReleasedIsDeclared'
  <2>1. LateOnesAreShown'
    <3>1. \A t \in inflight : t.by \in Callers /\ ShownTo(t.by, t.op)
      BY DEF IInv, Typing, LateOnesAreShown
    <3> QED BY <1>1, <3>1, SameLog DEF LateOnesAreShown
  <2>2. ReleasedIsDeclared'
    BY <1>1 DEF IInv, ReleasedIsDeclared, IsApply
  <2> QED BY <2>1, <2>2
<1> QED BY <1>3, <1>4, <1>5, <1>6 DEF IInv

\* A caller proposes from what it was shown.
LEMMA ProposeStep ==
  ASSUME IInv, NEW c \in Callers, Propose(c)
  PROVE  IInv'
<1>1. PICK now \in Seen(c), then \in Seen(c), T \in SUBSET Cells \ {{}} :
        /\ \A x \in T : then[x] # None
        /\ \E new \in [T -> Contents] :
             Call(c, [kind |-> "apply-cell-transaction", expected |-> now,
                      old |-> [x \in T |-> then[x]], new |-> new])
  BY DEF Propose
<1>2. PICK new \in [T -> Contents] :
        Call(c, [kind |-> "apply-cell-transaction", expected |-> now,
                 old |-> [x \in T |-> then[x]], new |-> new])
  BY <1>1
<1> DEFINE old == [x \in T |-> then[x]]
           o   == [kind |-> "apply-cell-transaction", expected |-> now, old |-> old, new |-> new]
<1>3. now \in States /\ then \in States
  BY SeenIsStates DEF IInv, Typing
<1>4. old \in [T -> Contents]
  BY <1>1, <1>3 DEF States
<1>5. o \in Transactions
  BY <1>3, <1>4, ProposedIsTransaction
<1>6. o.expected \in Seen(c) /\ ShownTo(c, o)
  BY DEF ShownTo
<1> QED BY <1>2, <1>5, <1>6, CallStep DEF Operations

\* The client of a new call knows the phase, and nothing of earlier calls.
LEMMA NewClientStep ==
  ASSUME IInv, NEW c \in Callers, NewClient(c)
  PROVE  IInv'
<1>1. /\ UNCHANGED <<live, inflight, at, op, before, log>>
      /\ gate' = [gate EXCEPT ![c] = TRUE]
      /\ quarantined' = [quarantined EXCEPT ![c] = FALSE]
      /\ \E p \in NextPhases : phase' = [phase EXCEPT ![c] = p]
  BY DEF NewClient, notebook
<1>2. Typing'
  BY <1>1, ClientAssumption DEF IInv, Typing
<1>3. RequestsServe' /\ SubmittedIsFresh' /\ TransactionsAreShown' /\ LateOnesAreShown'
  BY <1>1, SameLog DEF IInv, Typing, RequestsServe, Serves, SubmittedIsFresh,
                       TransactionsAreShown, LateOnesAreShown
<1>4. ReleasedIsDeclared'
  BY <1>1 DEF IInv, ReleasedIsDeclared, IsApply
<1> QED BY <1>2, <1>3, <1>4 DEF IInv

\* The notebook changes, and fewer transactions are on their way to it.
LEMMA NotebookStep ==
  ASSUME IInv, live' \in States, inflight' \subseteq inflight,
         UNCHANGED <<client, log>>
  PROVE  IInv'
<1>1. Typing'
  BY DEF IInv, Typing, client
<1>2. RequestsServe' /\ SubmittedIsFresh' /\ TransactionsAreShown' /\ LateOnesAreShown'
  BY SameLog DEF IInv, Typing, client, RequestsServe, Serves, SubmittedIsFresh,
                 TransactionsAreShown, LateOnesAreShown
<1>3. ReleasedIsDeclared'
  BY DEF IInv, ReleasedIsDeclared, IsApply
<1> QED BY <1>1, <1>2, <1>3 DEF IInv

\* A transaction that is carried out leaves a state of the notebook.
LEMMA CommittedIsState ==
  ASSUME Typing, NEW t \in inflight, Commit(t)
  PROVE  live' \in States
<1>1. \A x \in DOMAIN t.op.new : t.op.new[x] \in Contents
  BY Kinds DEF Typing
<1> QED BY <1>1 DEF Commit, Typing, States

\* The invariant holds of a fresh client, and every step keeps it.
LEMMA Invariant == Spec => []IInv
<1>1. Init => IInv
  <2> SUFFICES ASSUME Init PROVE IInv
    OBVIOUS
  <2>1. Typing
    <3>1. live \in States
      BY DEF Init, States
    <3>2. log \in [Callers -> Seq(ObservationRecords)]
      BY DEF Init
    <3> QED BY <3>1, <3>2, ClientAssumption DEF Init, Typing, Places
  <2>2. RequestsServe /\ SubmittedIsFresh
    BY DEF Init, RequestsServe, Serves, SubmittedIsFresh
  <2>3. TransactionsAreShown /\ LateOnesAreShown
    BY Kinds DEF Init, TransactionsAreShown, LateOnesAreShown
  <2>4. ReleasedIsDeclared
    BY DEF Init, ReleasedIsDeclared
  <2> QED BY <2>1, <2>2, <2>3, <2>4 DEF IInv
<1>2. IInv /\ [Next]_vars => IInv'
  <2> SUFFICES ASSUME IInv, [Next]_vars PROVE IInv'
    OBVIOUS
  <2>1. CASE UNCHANGED vars
    BY <2>1, NotebookStep DEF vars, notebook, IInv, Typing
  <2>2. CASE \E c \in Callers, o \in Simple : Call(c, o)
    <3>1. PICK c \in Callers, o \in Simple : Call(c, o)
      BY <2>2
    <3>2. o \in Operations /\ o \notin Transactions
      BY Kinds DEF Operations
    <3> QED BY <3>1, <3>2, CallStep
  <2>3. CASE \E c \in Callers : Propose(c) \/ Serve(c) \/ NewClient(c)
    BY <2>3, ProposeStep, ServeStep, NewClientStep
  <2>4. CASE \E t \in inflight : Commit(t) \/ Lose(t)
    <3>1. PICK t \in inflight : Commit(t) \/ Lose(t)
      BY <2>4
    <3>2. /\ inflight' \subseteq inflight
          /\ UNCHANGED <<client, log>>
      BY <3>1 DEF Commit, Lose
    <3>3. live' \in States
      BY <3>1, CommittedIsState DEF Lose, IInv, Typing
    <3> QED BY <3>2, <3>3, NotebookStep
  <2>5. CASE Edit
    <3>1. live' \in States
      BY <2>5 DEF Edit, IInv, Typing, States
    <3> QED BY <2>5, <3>1, NotebookStep DEF Edit
  <2> QED BY <2>1, <2>2, <2>3, <2>4, <2>5 DEF Next
<1> QED BY <1>1, <1>2, PTL DEF Spec

-----------------------------------------------------------------------------
(* What follows *)

\* A transaction that was released turned a state its caller had been shown into
\* the declared one, whoever edits in between.
THEOREM ReleasedDidAsDeclared == Spec => []ReleasedIsDeclared
BY Invariant, PTL DEF IInv

\* No transaction, however late it is carried out, overwrites what the caller who
\* submitted it has not been shown, whatever other callers know.
THEOREM NothingUnseenIsOverwritten == Spec => NothingUnseenIsLost
<1>1. IInv /\ [Next]_vars =>
        [\A t \in inflight : (t \notin inflight' /\ live' # live) =>
           \A x \in Cells : live'[x] # live[x] => \E s \in Seen(t.by) : s[x] = live[x]]_vars
  <2> SUFFICES ASSUME IInv, Next, NEW t \in inflight, t \notin inflight', live' # live,
                      NEW x \in Cells, live'[x] # live[x]
               PROVE  \E s \in Seen(t.by) : s[x] = live[x]
    OBVIOUS
  <2>1. Commit(t)
    <3>1. ASSUME NEW c \in Callers, NEW o, Call(c, o) PROVE FALSE
      BY <3>1 DEF Call, notebook
    <3>2. ASSUME NEW c \in Callers, Propose(c) \/ NewClient(c) PROVE FALSE
      BY <3>1, <3>2 DEF Propose, NewClient, notebook
    <3>3. ASSUME NEW c \in Callers, Serve(c) PROVE FALSE
      BY <3>3 DEF Serve, Resolve, CheckSession, CaptureState, RunFocusedProbe, CaptureBefore,
                  Transact, CaptureAfter, notebook
    <3>4. ASSUME NEW u \in inflight, Lose(u) PROVE FALSE
      BY <3>4 DEF Lose
    <3>5. ~Edit
      BY DEF Edit
    <3>6. PICK u \in inflight : Commit(u)
      BY <3>1, <3>2, <3>3, <3>4, <3>5 DEF Next
    <3> QED BY <3>6 DEF Commit
  <2>2. /\ \A y \in DOMAIN t.op.old : live[y] = t.op.old[y]
        /\ x \in DOMAIN t.op.new
    BY <2>1 DEF Commit, IInv, Typing, States
  <2>3. x \in DOMAIN t.op.old
    BY <2>2, Kinds DEF IInv, Typing
  <2>4. ShownTo(t.by, t.op)
    BY DEF IInv, LateOnesAreShown
  <2> QED BY <2>2, <2>3, <2>4 DEF ShownTo
<1> QED BY <1>1, Invariant, PTL DEF Spec, NothingUnseenIsLost

-----------------------------------------------------------------------------
(* The gate of a client that lives on.  A client in phase "implement" only *)
(* captures and transacts, so an open gate without quarantine means that   *)
(* its last observation, if there is one, is a capture that was released.  *)

LastIsCapture(c) ==
  LET last == log[c][Len(log[c])] IN last.op.kind = "capture-state" /\ last.released

GateTells ==
  \A c \in Callers \ PerCall :
    /\ phase[c] = "implement" =>
         op[c].kind \in {"capture-state", "apply-cell-transaction", "none"}
    /\ phase[c] # "implement" =>
         op[c] \notin Transactions /\ \A i \in DOMAIN log[c] : ~IsApply(log[c][i])
    /\ (/\ phase[c] = "implement"
        /\ Len(log[c]) > 0
        /\ (gate[c] /\ ~quarantined[c]) \/ op[c] \in Transactions)
       => LastIsCapture(c)

\* Only "implement" permits transactions, and it permits nothing else that
\* leaves the gate open.
LEMMA ImplementPermits ==
  /\ Permitted("implement") = {"capture-state", "apply-cell-transaction"}
  /\ \A p \in Phases : p # "implement" => "apply-cell-transaction" \notin Permitted(p)
BY DEF Permitted, Phases

\* Filing an observation leaves the gate open only behind a released capture.
LEMMA RecordKeepsGate ==
  ASSUME IInv, GateTells, GateHolds,
         NEW c \in Callers, NEW b, NEW a, NEW released \in BOOLEAN,
         op[c] \in Operations, Record(c, b, a, released)
  PROVE  GateTells' /\ GateHolds'
<1> DEFINE r == Observation(op[c], b, a, released)
           n == Len(log[c])
<1>1. /\ op' = [op EXCEPT ![c] = NoOp] /\ phase' = phase
      /\ log' = [log EXCEPT ![c] = Append(@, r)]
      /\ r.op = op[c] /\ (r.released <=> released)
      /\ gate' = [gate EXCEPT ![c] = /\ released
                                     /\ op[c].kind # "apply-cell-transaction"
                                     /\ @ \/ op[c].kind = "capture-state"]
      /\ quarantined' = [quarantined EXCEPT
                           ![c] = ~released \/ (@ /\ op[c].kind # "capture-state")]
  BY DEF Record, Observation
<1> HIDE DEF r
<1>2. /\ log[c] \in Seq(ObservationRecords) /\ n \in Nat /\ DOMAIN log[c] = 1 .. n
      /\ log'[c] = Append(log[c], r)
      /\ \A d \in Callers \ {c} : log'[d] = log[d]
  BY <1>1 DEF IInv, Typing
<1>3. /\ DOMAIN log'[c] = 1 .. (n + 1) /\ Len(log'[c]) = n + 1
      /\ log'[c][n + 1] = r
      /\ \A i \in 1 .. n : log'[c][i] = log[c][i]
  BY <1>2
<1> HIDE DEF n
<1>4. /\ \A d \in Callers \ {c} : /\ op'[d] = op[d] /\ gate'[d] = gate[d]
                                  /\ quarantined'[d] = quarantined[d]
      /\ op'[c] = NoOp
      /\ gate'[c] => released /\ op[c].kind # "apply-cell-transaction"
  BY <1>1 DEF IInv, Typing
<1>5. /\ NoOp.kind = "none" /\ NoOp \notin Transactions
      /\ op[c].kind # "none"
      /\ op[c] \in Transactions <=> op[c].kind = "apply-cell-transaction"
  BY Kinds DEF Operations
<1>6. GateTells'
  <2> SUFFICES ASSUME NEW d \in Callers \ PerCall
               PROVE  /\ phase[d] = "implement" =>
                           op'[d].kind \in {"capture-state", "apply-cell-transaction", "none"}
                      /\ phase[d] # "implement" =>
                           /\ op'[d] \notin Transactions
                           /\ \A i \in DOMAIN log'[d] :
                                log'[d][i].op.kind # "apply-cell-transaction"
                      /\ (/\ phase[d] = "implement"
                          /\ Len(log'[d]) > 0
                          /\ (gate'[d] /\ ~quarantined'[d]) \/ op'[d] \in Transactions)
                         => /\ log'[d][Len(log'[d])].op.kind = "capture-state"
                            /\ log'[d][Len(log'[d])].released
    BY <1>1 DEF GateTells, LastIsCapture, IsApply
  <2>1. CASE d # c
    BY <1>2, <1>4, <2>1 DEF GateTells, LastIsCapture, IsApply
  <2>2. CASE d = c /\ phase[c] = "implement"
    <3>1. op[c].kind \in {"capture-state", "apply-cell-transaction"}
      BY <1>5, <2>2 DEF GateTells
    <3>2. gate'[c] => r.op.kind = "capture-state" /\ r.released
      BY <1>1, <1>4, <3>1
    <3> QED BY <1>3, <1>4, <1>5, <2>2, <3>2
  <2>3. CASE d = c /\ phase[c] # "implement"
    <3>1. r.op.kind # "apply-cell-transaction"
      BY <1>1, <1>5, <2>3 DEF GateTells
    <3>2. \A i \in 1 .. n : log[c][i].op.kind # "apply-cell-transaction"
      BY <1>2, <2>3 DEF GateTells, IsApply
    <3>3. \A i \in 1 .. (n + 1) : i \in 1 .. n \/ i = n + 1
      BY <1>2
    <3> QED BY <1>3, <1>4, <1>5, <2>3, <3>1, <3>2, <3>3
  <2> QED BY <2>1, <2>2, <2>3
<1>7. GateHolds'
  <2> SUFFICES ASSUME NEW d \in Callers \ PerCall, NEW i \in DOMAIN log'[d],
                      log'[d][i].op.kind = "apply-cell-transaction", i > 1
               PROVE  /\ log'[d][i - 1].op.kind = "capture-state"
                      /\ log'[d][i - 1].released
    BY DEF GateHolds, IsApply
  <2>1. CASE d # c
    BY <1>2, <2>1 DEF GateHolds, IsApply
  <2>2. CASE d = c /\ i \in 1 .. n
    <3>1. log'[c][i] = log[c][i] /\ i - 1 \in 1 .. n /\ log'[c][i - 1] = log[c][i - 1]
      BY <1>2, <1>3, <2>2
    <3> QED BY <1>2, <2>2, <3>1 DEF GateHolds, IsApply
  <2>3. CASE d = c /\ i = n + 1
    <3>1. op[c] \in Transactions /\ n > 0
      BY <1>1, <1>2, <1>3, <1>5, <2>3
    <3>2. phase[c] = "implement"
      BY <2>3, <3>1 DEF GateTells
    <3>3. LastIsCapture(c)
      BY <2>3, <3>1, <3>2 DEF GateTells, n
    <3>4. log'[c][n] = log[c][n]
      BY <1>2, <1>3, <3>1
    <3> QED BY <1>2, <2>3, <3>3, <3>4 DEF LastIsCapture, n
  <2> QED BY <1>2, <1>3, <2>1, <2>2, <2>3
<1> QED BY <1>6, <1>7

\* Steps that neither file nor admit leave the gate and what it tells alone.
LEMMA QuietKeepsGate ==
  ASSUME IInv, GateTells, GateHolds,
         UNCHANGED <<phase, gate, quarantined, log>>,
         \A c \in Callers : op'[c] \in {op[c], NoOp}
  PROVE  GateTells' /\ GateHolds'
<1>1. NoOp.kind = "none" /\ NoOp \notin Transactions
  BY Kinds
<1>2. GateTells'
  <2> SUFFICES ASSUME NEW d \in Callers \ PerCall
               PROVE  /\ phase[d] = "implement" =>
                           op'[d].kind \in {"capture-state", "apply-cell-transaction", "none"}
                      /\ phase[d] # "implement" =>
                           op'[d] \notin Transactions /\ \A i \in DOMAIN log[d] : ~IsApply(log[d][i])
                      /\ (/\ phase[d] = "implement"
                          /\ Len(log[d]) > 0
                          /\ (gate[d] /\ ~quarantined[d]) \/ op'[d] \in Transactions)
                         => LastIsCapture(d)
    BY DEF GateTells, LastIsCapture, IsApply
  <2> QED BY <1>1 DEF GateTells
<1>3. GateHolds'
  BY DEF GateHolds, IsApply
<1> QED BY <1>2, <1>3

\* A transaction is admitted only behind a released capture.
LEMMA CallKeepsGate ==
  ASSUME IInv, GateTells, GateHolds, NEW c \in Callers, NEW o \in Operations, Call(c, o)
  PROVE  GateTells' /\ GateHolds'
<1>1. /\ op' = [op EXCEPT ![c] = o]
      /\ UNCHANGED <<phase, gate, quarantined, log>>
      /\ o.kind \in Permitted(phase[c])
      /\ o.kind = "apply-cell-transaction" => ~quarantined[c] /\ gate[c]
  BY DEF Call, Admitted
<1>2. /\ o \in Transactions <=> o.kind = "apply-cell-transaction"
      /\ phase[c] \in Phases
  BY Kinds DEF Operations, IInv, Typing
<1>3. GateTells'
  <2> SUFFICES ASSUME NEW d \in Callers \ PerCall
               PROVE  /\ phase[d] = "implement" =>
                           op'[d].kind \in {"capture-state", "apply-cell-transaction", "none"}
                      /\ phase[d] # "implement" =>
                           op'[d] \notin Transactions /\ \A i \in DOMAIN log[d] : ~IsApply(log[d][i])
                      /\ (/\ phase[d] = "implement"
                          /\ Len(log[d]) > 0
                          /\ (gate[d] /\ ~quarantined[d]) \/ op'[d] \in Transactions)
                         => LastIsCapture(d)
    BY <1>1 DEF GateTells, LastIsCapture, IsApply
  <2>1. CASE d = c
    <3>1. op'[c] = o
      BY <1>1 DEF IInv, Typing
    <3> QED BY <1>1, <1>2, <2>1, <3>1, ImplementPermits DEF GateTells
  <2>2. CASE d # c
    BY <1>1, <2>2 DEF GateTells, IInv, Typing
  <2> QED BY <2>1, <2>2
<1>4. GateHolds'
  BY <1>1 DEF GateHolds, IsApply
<1> QED BY <1>3, <1>4

\* The doc's rule holds of every client that is kept between the calls of its
\* caller, whatever callers with a new client for every call do beside it: a
\* transaction that is filed comes right after a released capture.
THEOREM LastingClientsHoldTheGate == Spec => []GateHolds
<1>1. Init => GateTells /\ GateHolds
  BY Kinds DEF Init, GateTells, GateHolds
<1>2. IInv /\ GateTells /\ GateHolds /\ [Next]_vars => GateTells' /\ GateHolds'
  <2> SUFFICES ASSUME IInv, GateTells, GateHolds, [Next]_vars PROVE GateTells' /\ GateHolds'
    OBVIOUS
  <2>1. CASE UNCHANGED vars
    BY <2>1, QuietKeepsGate DEF vars, client
  <2>2. CASE \E c \in Callers, o \in Simple : Call(c, o)
    BY <2>2, CallKeepsGate DEF Operations
  <2>3. CASE \E c \in Callers : Propose(c)
    <3>1. PICK c \in Callers, o \in Transactions : Call(c, o)
      <4>1. PICK c \in Callers : Propose(c)
        BY <2>3
      <4>2. PICK now \in Seen(c), then \in Seen(c), T \in SUBSET Cells \ {{}} :
              /\ \A x \in T : then[x] # None
              /\ \E new \in [T -> Contents] :
                   Call(c, [kind |-> "apply-cell-transaction", expected |-> now,
                            old |-> [x \in T |-> then[x]], new |-> new])
        BY <4>1 DEF Propose
      <4>3. PICK new \in [T -> Contents] :
              Call(c, [kind |-> "apply-cell-transaction", expected |-> now,
                       old |-> [x \in T |-> then[x]], new |-> new])
        BY <4>2
      <4>4. now \in States /\ [x \in T |-> then[x]] \in [T -> Contents]
        BY <4>2, SeenIsStates DEF IInv, Typing, States
      <4> QED BY <4>3, <4>4, ProposedIsTransaction
    <3> QED BY <3>1, CallKeepsGate DEF Operations
  <2>4. CASE \E c \in Callers : Serve(c)
    <3>1. PICK c \in Callers : Serve(c)
      BY <2>4
    <3>2. CASE /\ at[c] \in {"resolve", "capture-state", "run-focused-probe", "after"}
               /\ \E b, a, released : released \in BOOLEAN /\ Record(c, b, a, released)
      <4>1. op[c] # NoOp
        BY <3>2, Kinds DEF IInv, RequestsServe, Serves
      <4>2. op[c] \in Operations
        BY <4>1 DEF IInv, Typing
      <4> QED BY <3>2, <4>2, RecordKeepsGate
    <3>3. CASE Deny(c)
      BY <3>3, QuietKeepsGate DEF Deny, IInv, Typing
    <3>4. CASE \E place : Goto(c, place) /\ UNCHANGED log
      BY <3>4, QuietKeepsGate DEF Goto
    <3>5. \/ /\ at[c] \in {"resolve", "capture-state", "run-focused-probe", "after"}
             /\ \E b, a, released : released \in BOOLEAN /\ Record(c, b, a, released)
          \/ Deny(c)
          \/ \E place : Goto(c, place) /\ UNCHANGED log
      <4>1. CASE Resolve(c)
        BY <4>1 DEF Resolve
      <4>2. CASE CheckSession(c) \/ CaptureBefore(c) \/ Transact(c)
        BY <4>2 DEF CheckSession, CaptureBefore, Transact
      <4>3. CASE CaptureState(c)
        BY <4>3 DEF CaptureState
      <4>4. CASE RunFocusedProbe(c)
        BY <4>4 DEF RunFocusedProbe
      <4>5. CASE CaptureAfter(c)
        BY <4>5 DEF CaptureAfter
      <4> QED BY <3>1, <4>1, <4>2, <4>3, <4>4, <4>5 DEF Serve
    <3> QED BY <3>2, <3>3, <3>4, <3>5
  <2>5. CASE \E c \in Callers : NewClient(c)
    <3>1. PICK c \in PerCall : NewClient(c)
      BY <2>5 DEF NewClient
    <3>2. /\ UNCHANGED <<op, log>>
          /\ \A d \in Callers \ PerCall : /\ phase'[d] = phase[d]
                                          /\ gate'[d] = gate[d]
                                          /\ quarantined'[d] = quarantined[d]
      BY <3>1 DEF NewClient, IInv, Typing
    <3>3. GateTells'
      BY <3>2 DEF GateTells, LastIsCapture, IsApply
    <3> QED BY <3>2, <3>3 DEF GateHolds, IsApply
  <2>6. CASE \E t \in inflight : Commit(t) \/ Lose(t)
    BY <2>6, QuietKeepsGate DEF Commit, Lose, client
  <2>7. CASE Edit
    BY <2>7, QuietKeepsGate DEF Edit, client
  <2> QED BY <2>1, <2>2, <2>3, <2>4, <2>5, <2>6, <2>7 DEF Next
<1> QED BY <1>1, <1>2, Invariant, PTL DEF Spec
=============================================================================
