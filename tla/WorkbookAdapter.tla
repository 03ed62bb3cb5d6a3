--------------------------- MODULE WorkbookAdapter ---------------------------
(***************************************************************************)
(* The operation workbook adapter (workbook_adapter.py) over the operation *)
(* controller.  Clients are processes of the workbook MCP server or of the *)
(* operation command line: each serves one call at a time, all of them use *)
(* the private directory of the operation key, which now also holds        *)
(*                                                                         *)
(*   code-mode-binding.json   request and session the operation is bound to*)
(*   release.json             the revocation of the binding                *)
(*                                                                         *)
(* A client binds a request to the one Marimo session of the operation     *)
(* workbook, and then inspects, executes, diagnoses and releases it.  Its  *)
(* checks are file reads and an awaited list_sessions; the code it submits *)
(* runs in the kernel of the session, as an executor of Controller, and    *)
(* keeps running when the client stops waiting.                            *)
(***************************************************************************)
EXTENDS Controller

CONSTANTS Clients,     \* processes that run WorkbookAdapterService
          Sessions,    \* sessions of the operation workbook
          MaxMoves     \* bound: how often the workbook changes its session

VARIABLES bindingFile, \* bindingFile[k]: code-mode-binding.json
          releaseFile, \* releaseFile[k]: the binding that release.json revokes
          issued,      \* bindings that bind_operation has returned
          session,     \* the session list_sessions shows for the workbook
          moves,       \* how often it has changed
          at,          \* at[c]: the next step of client c
          task,        \* task[c]: the call that c serves
          ran,         \* ran[c]: the executor c waits for
          result       \* result[c]: what the last call of c returned

kernelVars == <<pc, req, outcome, answer, claimFile, receiptFile, runs>>
adapterFiles == <<bindingFile, releaseFile>>
world == <<session, moves>>
adapterVars == <<kernelVars, requestFile, adapterFiles, issued, world, at, task, ran, result>>

-----------------------------------------------------------------------------
(* Values *)

\* ControllerCodeModeBinding: endpoint and workbook are the same throughout.
Binding == [identity : Requests, session : Sessions]

Operations == {"inspect", "execute", "diagnose", "release"}
NoTask == [op |-> "none", request |-> None, binding |-> None]

\* A result is a status and, where it reports a receipt, what the receipt says.
\* "not-executed" is the fault of a call that timed out or lost its transport.
ResultStatuses == Statuses \cup {"bound", "observed", "released",
                                     "already-released", "not-executed"}
Plain(status) == [status |-> status, identity |-> None, outcome |-> "none"]

Wanted(c) == task[c].request
Dir(c)    == KeyOf[task[c].request]

AdapterInit ==
  /\ Init
  /\ bindingFile = [k \in Keys |-> None]
  /\ releaseFile = [k \in Keys |-> None]
  /\ issued = {}
  /\ session \in Sessions
  /\ moves = 0
  /\ at = [c \in Clients |-> "idle"]
  /\ task = [c \in Clients |-> NoTask]
  /\ ran = [c \in Clients |-> None]
  /\ result = [c \in Clients |-> Plain("none")]

-----------------------------------------------------------------------------
(* Serving a call *)

Go(c, place) == /\ at' = [at EXCEPT ![c] = place]
                /\ UNCHANGED <<task, ran, result>>

Finish(c, r) == /\ at' = [at EXCEPT ![c] = "idle"]
                /\ task' = [task EXCEPT ![c] = NoTask]
                /\ ran' = [ran EXCEPT ![c] = None]
                /\ result' = [result EXCEPT ![c] = r]

Start(c, t, place) == /\ at' = [at EXCEPT ![c] = place]
                      /\ task' = [task EXCEPT ![c] = t]
                      /\ result' = [result EXCEPT ![c] = Plain("none")]
                      /\ UNCHANGED ran

Quietly == UNCHANGED <<kernelVars, requestFile, adapterFiles, issued, world>>

\* bind_operation validates the request; write_bound_request looks at
\* request.json, and writes it in a later step without looking again.
Bind(c, r) ==
  /\ at[c] = "idle"
  /\ LET t == [op |-> "bind", request |-> r, binding |-> None]
         found == requestFile[KeyOf[r]]
     IN  \/ r \in Admissible /\ found = None /\ Start(c, t, "write-request")
         \/ r \in Admissible /\ found = r /\ Start(c, t, "resolve")
         \/ (r \notin Admissible \/ found \notin {None, r}) /\ Finish(c, Plain("raised"))
  /\ Quietly

WriteBoundRequest(c) ==
  /\ at[c] = "write-request"
  /\ requestFile' = [requestFile EXCEPT ![Dir(c)] = Wanted(c)]
  /\ Go(c, "resolve")
  /\ UNCHANGED <<kernelVars, adapterFiles, issued, world>>

\* await list_sessions: the binding names the session of the moment; no session,
\* several of them, a timeout or an error raise.
ResolveSession(c) ==
  /\ at[c] = "resolve"
  /\ \/ /\ session # None
        /\ task' = [task EXCEPT ![c].binding = [identity |-> Wanted(c), session |-> session]]
        /\ at' = [at EXCEPT ![c] = "unreleased"]
        /\ UNCHANGED <<ran, result>>
     \/ Finish(c, Plain("raised"))
  /\ Quietly

BindUnreleased(c) ==
  /\ at[c] = "unreleased"
  /\ \/ releaseFile[Dir(c)] = None /\ Go(c, "unbound")
     \/ releaseFile[Dir(c)] # None /\ Finish(c, Plain("raised"))
  /\ Quietly

BindUnbound(c) ==
  /\ at[c] = "unbound"
  /\ \/ bindingFile[Dir(c)] \in {None, task[c].binding} /\ Go(c, "write-binding")
     \/ bindingFile[Dir(c)] \notin {None, task[c].binding} /\ Finish(c, Plain("raised"))
  /\ Quietly

\* (mutant) a new binding takes the place of a released one
WriteBindingRevived(c) ==
  /\ at[c] = "write-binding"
  /\ bindingFile' = [bindingFile EXCEPT ![Dir(c)] = task[c].binding]
  /\ releaseFile' = [releaseFile EXCEPT ![Dir(c)] = None]
  /\ issued' = issued \cup {task[c].binding}
  /\ Finish(c, Plain("bound"))
  /\ UNCHANGED <<kernelVars, requestFile, world>>

WriteBinding(c) ==
  /\ at[c] = "write-binding"
  /\ bindingFile' = [bindingFile EXCEPT ![Dir(c)] = task[c].binding]
  /\ issued' = issued \cup {task[c].binding}
  /\ Finish(c, Plain("bound"))
  /\ UNCHANGED <<kernelVars, requestFile, releaseFile, world>>

\* A call on a bound operation: release_binding looks for its own record
\* first, everything else starts with _check_binding.
Operate(c, op, r, b) ==
  /\ at[c] = "idle"
  /\ b \in issued
  /\ Start(c, [op |-> op, request |-> r, binding |-> b],
           IF op = "release" THEN "released" ELSE "stored")
  /\ Quietly

FindRelease(c) ==
  /\ at[c] = "released"
  /\ \/ releaseFile[Dir(c)] = None /\ Go(c, "stored")
     \/ /\ releaseFile[Dir(c)] = task[c].binding
        /\ task[c].binding.identity = Wanted(c)
        /\ Finish(c, Plain("already-released"))
     \/ /\ releaseFile[Dir(c)] # None
        /\ \/ releaseFile[Dir(c)] # task[c].binding
           \/ task[c].binding.identity # Wanted(c)
        /\ Finish(c, Plain("raised"))
  /\ Quietly

\* _check_binding, in its order: the request, the stored binding,
CheckStored(c) ==
  /\ at[c] = "stored"
  /\ \/ /\ Wanted(c) \in Admissible
        /\ task[c].binding.identity = Wanted(c)
        /\ bindingFile[Dir(c)] = task[c].binding
        /\ Go(c, "revoked")
     \/ /\ \/ Wanted(c) \notin Admissible
           \/ task[c].binding.identity # Wanted(c)
           \/ bindingFile[Dir(c)] # task[c].binding
        /\ Finish(c, Plain("raised"))
  /\ Quietly

\* (mutant) only the stored binding is looked at
CheckNothing(c) ==
  /\ at[c] = "revoked"
  /\ Go(c, "session")
  /\ Quietly

\* the release record ("binding-released"),
CheckRevoked(c) ==
  /\ at[c] = "revoked"
  /\ \/ releaseFile[Dir(c)] = None /\ Go(c, "session")
     \/ releaseFile[Dir(c)] # None /\ Finish(c, Plain("raised"))
  /\ Quietly

\* and, awaiting list_sessions, that the workbook still has that session.
CheckSession(c) ==
  /\ at[c] = "session"
  /\ \/ session = task[c].binding.session /\ Go(c, "operate")
     \/ Finish(c, Plain("raised"))
  /\ Quietly

\* release_binding writes its record over whatever is there by now.
WriteRelease(c) ==
  /\ at[c] = "operate"
  /\ task[c].op = "release"
  /\ releaseFile' = [releaseFile EXCEPT ![Dir(c)] = task[c].binding]
  /\ Finish(c, Plain("released"))
  /\ UNCHANGED <<kernelVars, requestFile, bindingFile, issued, world>>

\* Inspection reads no receipt, diagnosis reads the one there is; the read
\* happens in the kernel, which may fault.
Observe(c) ==
  /\ at[c] = "operate"
  /\ task[c].op \in {"inspect", "diagnose"}
  /\ LET found == receiptFile[Dir(c)] IN
     \/ /\ task[c].op = "inspect" \/ found = NoReceipt
        /\ Finish(c, Plain("observed"))
     \/ /\ task[c].op = "diagnose"
        /\ found.identity = Wanted(c)
        /\ Finish(c, [status |-> "observed", identity |-> found.identity,
                      outcome |-> found.outcome])
     \/ Finish(c, Plain("raised"))
     \/ Finish(c, Plain("not-executed"))
  /\ Quietly

Busy(e) == pc[e] # "idle" \/ \E c \in Clients : ran[c] = e

\* execute_code: the kernel starts an execution of the controller, unless the
\* submission never reaches one.
Submit(c) ==
  /\ at[c] = "operate"
  /\ task[c].op = "execute"
  /\ \/ \E e \in Executors :
          /\ ~Busy(e)
          /\ Call(e, Wanted(c))
          /\ at' = [at EXCEPT ![c] = "await"]
          /\ ran' = [ran EXCEPT ![c] = e]
          /\ UNCHANGED <<task, result>>
     \/ /\ \E status \in {"raised", "not-executed"} : Finish(c, Plain(status))
        /\ UNCHANGED <<kernelVars, requestFile>>
  /\ UNCHANGED <<adapterFiles, issued, world>>

\* The execution is over: its receipt, or the fault of an exception or a death.
Return(c) ==
  /\ at[c] = "await"
  /\ pc[ran[c]] = "idle"
  /\ Finish(c, IF answer[ran[c]] = NoAnswer THEN Plain("raised") ELSE answer[ran[c]])
  /\ Quietly

\* (mutant) after a timeout the claim is removed, so that a retry can run
GiveUpUnclaiming(c) ==
  /\ at[c] = "await"
  /\ claimFile' = [claimFile EXCEPT ![Dir(c)] = None]
  /\ Finish(c, Plain("not-executed"))
  /\ UNCHANGED <<pc, req, outcome, answer, requestFile, receiptFile, runs,
                 adapterFiles, issued, world>>

\* (mutant) a timeout after the effect started is reported as the effect's
GiveUpGuessing(c) ==
  /\ at[c] = "await"
  /\ Finish(c, [status |-> "completed", identity |-> Wanted(c), outcome |-> "timeout"])
  /\ Quietly

\* The call times out, timeoutSeconds after its submission, or the transport
\* fails; the execution in the kernel is not told.
GiveUp(c) == /\ at[c] = "await"
             /\ Finish(c, Plain("not-executed"))
             /\ Quietly

Serve(c) == \/ WriteBoundRequest(c)
            \/ ResolveSession(c)
            \/ BindUnreleased(c)
            \/ BindUnbound(c)
            \/ WriteBinding(c)
            \/ FindRelease(c)
            \/ CheckStored(c)
            \/ CheckRevoked(c)
            \/ CheckSession(c)
            \/ WriteRelease(c)
            \/ Observe(c)
            \/ Submit(c)
            \/ Return(c)
            \/ GiveUp(c)

-----------------------------------------------------------------------------
(* Kernels and sessions *)

Execution(e) == /\ Step(e) \/ RaiseWithClaim(e) \/ Crash(e)
                /\ UNCHANGED <<adapterFiles, issued, world, at, task, ran, result>>

\* The workbook is closed, opened again or opened twice; executions that a
\* kernel has begun may survive it.
MoveSession(s) == /\ moves < MaxMoves
                  /\ s # session
                  /\ session' = s
                  /\ moves' = moves + 1
                  /\ UNCHANGED <<kernelVars, requestFile, adapterFiles, issued,
                                 at, task, ran, result>>

AdapterNext ==
  \/ \E c \in Clients :
       \/ \E r \in Requests : Bind(c, r)
       \/ \E op \in Operations, r \in Requests, b \in Binding : Operate(c, op, r, b)
       \/ Serve(c)
  \/ \E e \in Executors : Execution(e)
  \/ \E s \in Sessions \cup {None} : MoveSession(s)

AdapterSpec == AdapterInit /\ [][AdapterNext]_adapterVars

-----------------------------------------------------------------------------
(* Properties, with KeepsPromise of Controller: clients that bind, retry,  *)
(* time out and release at any moment do not make it break its promise.    *)

\* What a client was told of an effect, by its own execution, a replay or a
\* diagnosis, is what the terminal receipt says now and for good.
ToldTheTruth ==
  \A c \in Clients :
    (result[c].status \in {"completed", "replayed", "observed"} /\ result[c].identity # None)
      => receiptFile[KeyOf[result[c].identity]] =
           [identity |-> result[c].identity, outcome |-> result[c].outcome]

\* Nobody who passed the checks before the release is under way any more.
Quiet(k) == /\ releaseFile[k] # None
            /\ \A c \in Clients : /\ at[c] \in {"session", "operate", "await"} => Dir(c) # k
                                  /\ at[c] \in {"unbound", "write-binding"} => Dir(c) # k
            /\ \A e \in Executors : pc[e] # "idle" => KeyOf[req[e]] # k

\* "Release writes a durable revocation record; subsequent bound operations
\* fail": once the calls it overtook are over, a released operation stays
\* released, and nobody binds it, starts its effect or files its receipt.
ReleaseIsFinal ==
  [][\A k \in Keys : Quiet(k) =>
       /\ Quiet(k)'
       /\ bindingFile'[k] = bindingFile[k]
       /\ receiptFile'[k] = receiptFile[k]
       /\ \A r \in Requests : KeyOf[r] = k => runs'[r] = runs[r]]_adapterVars
=============================================================================
