# A verification project for cuestrap

These TLA+ modules model the parts of this repository that keep state, share it
or judge what others do: the operation controller, the supervisory ledger, the
anti-churn policy and the hooks that apply it, the routing of tool calls, the
adapter that binds operations to a live notebook and the client that edits one,
the bridge to the CUE language server, the native build and the probes that rely
on it, and the installer of the tool bundles. TLC checks them on small
instances; TLAPS proves every safety property that these runs check, for all
values of the constants.

Paths below are relative to the repository; `H` stands for
`src/cue-workbook/supervisory_hooks`, `W` for `src/cue-workbook`.

## 1. The system

A Codex host works on a CUE code base through governed tools. Every tool call
passes a `PreToolUse` hook, which may deny it, and a `PostToolUse` hook, which
files what it did. Operations with an effect go through an operation notebook
(Marimo, code mode) and there through the operation controller.

| Component | State it keeps | Operations | Talks to |
|---|---|---|---|
| Operation controller `H/controller.py` | `request.json`, `claim.json`, `receipt.json` in one directory per operation key | `execute_controller_request`, `read_controller_receipt` | the file system, subprocesses |
| Durable ledger `H/ledger.py`, `H/models.py` | `state.json`, `events.jsonl`, a lock file under the common git directory | `transaction`, `read_state`, `read_records` | the file system, `flock` |
| Anti-churn policy `H/policy.py` | none | `classify_tool`, `decide`, `reduce_observation`, `project_evidence`, `repository_state_digest` | the work tree (git) |
| Supervisor and hook command `H/supervisor.py`, `H/cli.py` | the active scope and the pending calls, in the ledger | `ensure_scope`, `handle_pre`, `handle_post`, `set_scope` | ledger, policy, the host's environment |
| Tool routing and transport admission `H/routing.py`, `H/execution_transport.py` | none | `plan_pretool_route`, `classify_execution_argv` | called before the supervisor |
| Operation workbook adapter `W/workbook_adapter.py`, `W/operation_controller_cli.py`, `W/workbook_mcp_server.py` | `code-mode-binding.json`, `release.json` | bind, inspect, execute, diagnose, release | Marimo's code mode, the controller |
| Bootstrap code-mode client `W/bootstrap_client/` | mutation gate, quarantine, an append-only record | `resolve_session`, `capture_state`, `run_focused_probe`, `apply_cell_transaction` | Marimo's code mode |
| LSP bridge `W/lsp_client.py`, `W/mcp_server.py` | request ids, pending answers, open documents, diagnostics | requests, notifications, restart | the CUE language server |
| Native bootstrap and backends `W/bootstrap_native.py`, `W/native*.py`, `W/backends.py`, `W/runtime.py`, `W/validation.py` | built libraries and their manifest | build, verify, evaluate | Go tool chain, ctypes |
| Tool bundles `tools/bundles/` | installed bundle directories and the active link | build, verify, install, activate | the file system, GitHub releases |
| S04 fixtures and properties `src/cuestrap/s04/` | none | load packages, evaluate, compare with the oracle | the CUE evaluator |
| Runner and bindings `runner/` | none between calls | evaluate one input | the CUE library |
| Notebooks and command lines | none of their own | presentation | everything above |

### What is hard here

* **Concurrent executions of one operation.** A reactive notebook may run the
  cell that calls the controller any number of times, in several kernels, and
  callers retry. The effect (a subprocess or a patch) must start once. Files are
  tested, written and opened in separate steps.
* **Hooks of many hosts on one ledger.** A hook is a short-lived process. All
  hosts and all worktrees of a repository share `state.json` and
  `events.jsonl`. A hook runs two ledger transactions with other hooks between
  them, and a tool call has its tool between its two hooks.
* **Deaths.** The host kills a hook that outlives its timeout; kernels are
  restarted; a disk fills up. State and record are two writes; claim and receipt
  are two files.
* **Decisions from history.** What a call may do depends on the observations of
  earlier calls, of other calls in flight and of edits nobody reported.
* **Two readings of one command.** The router, the supervisor, the controller,
  the code-mode client and finally `execve` or a shell each make something of the
  same words, at different times and in different directories.
* **A server that answers late.** The LSP bridge retries what timed out, and a
  reader thread records what arrives without a lock around what it records.
* **Artifacts in place.** Sources, built libraries, the manifest and installed
  versions are replaced while others digest, run and verify them.
* **Awaits.** The workbook adapter and the code-mode client check a session, a
  release record or a preimage, then await, then act.

### What makes each part correct

* Controller: one effect for one key; receipts are true, terminal and what the
  caller was told; an abandoned claim is never retried; claims get resolved.
* Ledger: transactions are atomic; evidence is gaplessly numbered; a v1 document
  is never worked on; waiting hooks get their turn.
* Policy and supervisor: an observation answers exactly one approval and carries
  what that approval saw; pending calls are the unfinished approvals; decisions
  are taken under the caller's own scope; retries are denied for failures only;
  consecutive evaluations see one candidate; an open question binds the channel.
* Adapter: nothing runs on a released binding or a session that changed; a
  timeout is not taken for an effect that did not happen.
* Code-mode client: a transaction overwrites nothing that the caller who submitted it
  was not shown; the gate stays closed after a mutation until the next capture.
* Routing: what is approved as an argv is what a shell would split the command into; an
  operation of the vocabulary is carried out by the controller alone, and the supervisor
  has seen it as what it is; the code-mode client takes the bindings that the router
  judged.
* LSP bridge: an answer is that of its own request and about the text just sent;
  every call ends.
* Probes: a comparison is about the text its digests name and about artifacts of
  a build that was finished, and a difference it reports is one of texts or of Go sources.
* Installer: the active link leads to a whole version whatever runs overlap, fail
  or die, and a run activates its own bundle.

## 2. The modules

| Module | Models | Kind |
|---|---|---|
| `OneUse` | the promise of the controller | abstract specification |
| `Controller` | `H/controller.py` | component, implements `OneUse` |
| `MCController` | | constants for TLC |
| `AtomicLedger` | the promise of the ledger | abstract specification |
| `DurableLedger` | `H/ledger.py` | component, implements `AtomicLedger` |
| `DurableLedgerProofs` | | theorems about `DurableLedger` |
| `MCDurableLedger` | | constants for TLC |
| `Policy` | `H/policy.py` as pure operators | used by `Supervisor` |
| `Supervisor` | `H/supervisor.py`, `H/cli.py`, the host and the work tree | composition |
| `SupervisorProofs` | | theorems about `Supervisor` |
| `MCSupervisor` | | constants for TLC |
| `StrictShell` | `strict_shell_tokens` of `H/execution_transport.py`, shlex and a shell | automata over characters |
| `Routing` | `H/routing.py`, the rest of `H/execution_transport.py`, `classify_tool`, `W/bootstrap_client/admission.py` | composition over `StrictShell` |
| `RoutingProofs` | | theorems about `StrictShell` and `Routing` |
| `MCRouting` | | constants for TLC |
| `WorkbookAdapter` | `W/workbook_adapter.py`, `W/operation_controller_cli.py`, the calls of `W/workbook_mcp_server.py` | composition that extends `Controller` |
| `OperationProofs` | | theorems about `Controller` and `WorkbookAdapter` |
| `MCWorkbookAdapter` | | constants for TLC |
| `CodeModeClient` | `W/bootstrap_client/` | component |
| `CodeModeClientProofs` | | theorems about `CodeModeClient` |
| `MCCodeModeClient` | | constants for TLC |
| `LspBridge` | `W/lsp_client.py`, `W/mcp_server.py` and a language server | component |
| `LspBridgeProofs` | | theorems about `LspBridge` |
| `MCLspBridge` | | constants for TLC |
| `NativeBuild` | `W/bootstrap_native.py` | used by `BackendProbe` |
| `BackendProbe` | `W/backends.py`, `W/native*.py`, `W/validation.py`, the answers of `runner/cmd/cueprobe` | composition over `NativeBuild` |
| `BackendProbeProofs` | | theorems about `BackendProbe` |
| `MCBackendProbe` | | constants for TLC |
| `Installer` | `tools/bundles/install.sh` | component |
| `InstallerProofs` | | theorems about `Installer` |
| `MCInstaller` | | constants for TLC |

### Controller

One action per file operation of `execute_controller_request`
(controller.py:328-403). An executor is one execution of it; `pc` says which
operation is next. `requestFile`, `claimFile`, `receiptFile` are the three files
of each key. `runs` counts started effects: history, which the code does not
keep. `_atomic_json` writes a temporary file, syncs it and renames it, so a write
is one action; the existence test of `request.json` and its writing are two
(`CheckRequest`, `WriteRequest`), as in the code. `Claim` is the `O_EXCL` open.
The death of a kernel is `Crash`; a digest or an effect that raises while the
claim is held is `RaiseWithClaim`. What an effect does is abstracted to its
outcome, a request to its identity; the fields of the receipt that only repeat
the request (argv, paths, digests) are left out.

### DurableLedger

One action per step of `transaction()` (ledger.py:141-157): `Lock`, `Load`,
`WriteState`, `AppendRecord`, `Unlock`, with `Raise` for a body that fails,
`FailAppend` for a failing append and `Kill` for the death of the process,
either of which may leave a torn line. Bodies are functions
on control states (`Apply`), so the proofs hold for every handler. A body that
appends appends once, as every handler does. A torn line that lacks nothing but
its newline is torn at once in the model; in the code it still loads until
the next append joins a record to it.

### Policy and Supervisor

`Policy` states each denial predicate of `_matched_denials` as an operator over
the scope, the canonical operation, the digest and the observations. A digest
is the record it is computed from (the relevant paths and the version of every
file they cover), so two digests are equal exactly when the code's are.
`classify_tool` is the constant `Op`: what operation a call is; `Routing` models
how it reads commands. A failure signature is its target, activity, surface, error
class (`exit-code:N` where the result has one) and digest, as at policy.py:666. The
order of relevant paths and the operation class are left out: the class follows the
target, and no property tells the orders apart.

`Supervisor` runs the calls of all hosts: `EnsureScope` and `HandlePre` before
the tool, `RunTool`, then `EnsureScope` and `HandlePost`. Each is one ledger
transaction, which `DurableLedger` shows to be one step but for the loss of the
record when the hook dies over it; `File` includes that loss. A hook that
dies or fails lets the tool run (`FailOpen`: cli.py answers every failure with
context instead of a denial). The ledger starts without a `state.json`: every hook then
reads the default scope of its own activity (`Loaded`, ledger.py:97), until the first
write. What a tool changes is free: `RunTool` of any call, whatever it is classed as, may
leave any file in any version, for `classify_tool` knows what a call names and not what
it does (policy.py:386 takes `sed --in-place` for a read, policy.py:77 does not see the
target of a `*** Move to:`, an evaluation runs any code). `Edit` is an edit of the work
tree no hook sees.
Session and turn of records are left out; the redirect route, which answers before
the supervisor, is in `Routing`.

### WorkbookAdapter

The module extends `Controller`: the code an adapter call submits runs as an executor of
the controller, on the same files and by the same actions; `AdapterInit`, `AdapterNext`
and `AdapterSpec` are those of the whole. A client is a process of the MCP server or of
the command line, which serves one call at a time. Each file read, file write and await of
`bind_operation`, `_check_binding`, `release_binding` and `_execute_code` is an action;
`WriteBoundRequest` is a second writer of the controller's `request.json`. A client that
stops waiting (`GiveUp`) leaves its execution behind. Endpoint and workbook digest do not
change within a run and are left out of the binding; its sequence is always zero. The
session changes through `MoveSession`: another one, or none, which stands for several as
well. Callers pass bindings that `bind_operation` returned, for any request.

### CodeModeClient

A notebook is the content of its cells; revision and graph digest are functions of it.
Each awaited request of an operation is an action: the session check, the captures, the
submission. `Admitted` is what denies a call before its first request, `Fresh` what denies
a transaction after its first capture. `Releasable` is what `disposition` can release; it
may quarantine any observation, for output that is truncated or not decodable. The kernel
carries a submitted transaction out (`Commit`), at once, late or never (`Lose`); that the
generated code compares and edits in one step is an assumption about Marimo's code mode. A
transaction on its way to the kernel keeps the caller that submitted it. A caller makes
its transactions from every state it was shown (`Seen`): the states before and after each
of its observations, quarantined ones included, since the client hands these over as well
(workbook_mcp_server.py:150). `NewClient` is the MCP server, which constructs a client for
each call of the callers in `PerCall`, with the phase and the session the call brings. No
call starts after `MaxRecords` observations of all callers together. Sizes, shapes,
redaction and identities of run, skill and engine are left out: they only add ways to deny
or to quarantine.

### StrictShell and Routing

`strict_shell_tokens` is two passes over the characters of a command: a scan for
what a shell would interpret, and `shlex`. Both are automata here, which run in
step with a third one: what a shell makes of the characters (bash, where shells differ).
A run of letters is one character, and so are the characters that code and shell treat
alike (`;` stands for `;`, `&&` and `||`). `StrictShellTokens` is what the code
returns after the characters so far; `active` says that the shell expands, composes,
redirects, comments or assigns, `Leads` that it takes the first word for a reserved word
or for an assignment that appends (`a+=1`), neither of which the pattern at
execution_transport.py:109 knows. What follows such a word is a command for the shell
(`Led`); further words of the kind are taken as written bare, and the options of `time`
for its command.

`Routing` gives a command, a list of words, a patch or an adapter call to the hooks. A
word is a sequence of those characters, a file name or option one of them; `LastPart` is
`Path.name`. `ClassifyExecutionArgv`, `ExactWorkbook` and `PlanPretoolRoute` are the
router's, `Supervised` is what the supervisor makes of the same call (`classify_tool`,
`_semantic_pre_event`, `restore_posttool_event`), `Validated` what the controller accepts.
`RouterWord` is how the router parses a word of a command line. `ClientWord` is how
argparse does it for the code-mode client: it also takes abbreviations, values joined by
an `=`, words after `--`, repeated options, and negative numbers or dashed words with a
blank as values; `-h` is an unknown option to it, since either way the client carries
nothing out. An agent may take a request it was given, or a changed one, to the controller
(`Reissue`); the files of a command come and go (`ChangeFiles`). The supervisor's answer
is free where it may deny. A command that runs another one (`env`, `command`, `eval`) is
an operation of its own.

### LspBridge

One thread serves tool calls; the reader thread of the session takes messages in
one by one: the report of diagnostics first, then its generation, then its
version, each a step of its own, as in `_read_loop`. The pipes hold whole
messages; a send waits for room and fails on a dead server. The language server
reads in order, answers late, in any order or never, publishes what it knew
earlier, asks, sends what the reader cannot take, and dies. A document is known by
its version. `hover`, `definition`, `references` and `document_symbols` differ in a
method name and are one tool, `ask`.

### NativeBuild and BackendProbe

`NativeBuild` replaces the extension and the binary in place, then writes the
manifest; it fails or dies between any two steps. An artifact is the version of
the Go sources it was built from, so equal digests are equal contents. There is one
builder at a time, and the content of an artifact never comes back after a later
build: builds are assumed to differ when their sources do.

`BackendProbe` runs one probe through two backends. The sources are a text: a name, which
stands for its digest, and what evaluating it gives, one of six `Meanings`; an edit may
bring an earlier text back. Each digests the sources, lets a process evaluate them, and a
native one then verifies the artifact that ran (parse the manifest, digest the artifact,
read the manifest again for its digest); in the end two observations are compared. Edits
and builds fall between any two steps. The two native engines file each meaning in their
own way, with the kinds (`GopyOutcomes`, `CueprobeOutcomes`), and an engine that was built
from edited Go sources may take the text for any other (`Readings`), so the two engines
differ when their versions do. `between` counts the edits between the two subject digests.
A failing export and an output that is cut at its limit are both filed as not concrete
(backends.py:123), as in the code. `subsumes` of the CLI and of cue-py share no facts, so
their comparison is always `incomparable`.

### Installer

One action per command of `install.sh` that touches the prefix. A directory is the
bundle it was copied from, whether all of it is there, and the links that were
dropped into it: `ln -s` with the name of a link that leads to a directory makes
its link in that directory. A command that fails runs the exit trap (`Fail`), a
death does not (`Kill`). Process numbers may come back once a run is over. All
bundles of one lock carry the same lock digest (build-linux-amd64.sh:149, :179).

## 3. What TLC checks

| Run | Instance | Shows |
|---|---|---|
| `Controller_executors` | 2 executors, 2 keys, 4 requests (two share a key, one is inadmissible) | the safety properties under every interleaving, crash and exception; `Controller` implements `OneUse`; `ClaimResolves` |
| `DurableLedger_hooks` | 3 processes, 4 bodies, empty or v1 start, 2 records | numbering, torn lines; implements `AtomicLedger`; `TransactionsEnd` |
| `Supervisor_hosts` | 3 hosts with a narrow, a wide and the default scope, 2 patches and an unknown command, 2 files, 1 change of files, one hook may die | observations, pending calls, recorded transitions, files that mutations name |
| `Supervisor_alone` | 1 host, 3 parallel evaluations of one target that fail in two ways, ask or answer, 2 changes of the files by tools or people, one hook may die | retries, one candidate, the required channel, the failure budget |
| `Supervisor_race` | as `Supervisor_hosts`, no deaths | the finding below |
| `WorkbookAdapter_calls` | 2 clients, 2 kernel executions, 1 request, a session that may close | the promise of the controller under retries, timeouts and releases; what clients are told; a release is final |
| `CodeModeClient_callers` | 2 callers, one with a new client for every call, 2 cells, 1 edit, calls until 3 observations are filed | the gate of the client that lives on; released transactions; a transaction overwrites nothing its own caller has not seen |
| `BackendProbe_edits` | one probe on either route, 2 names and 6 meanings of texts, 2 edits or builds | which text and which artifacts a comparison is about |
| `LspBridge_calls` | 3 calls, 1 document, pipes of 1 message, 2 unasked messages | whose answer a call returns, of which text; every call ends |
| `Routing_calls` | commands of up to 5 characters, some thousand argvs from 3 directories, patches, adapters | one meaning of a command for everyone who reads it; who carries an operation out |
| `Routing_apart` | commands of up to 3 characters, 2 reserved words | the other finding below |
| `Installer_prefix` | 4 runs of 3 bundles of 2 locks, one forced, two of one process number, 1 damage | the active link, what is left behind, whose bundle is active |

**Bounds.** Two executors reach every race of the controller (check against write, claim
against claim, receipt against replay); more are covered by the proofs. A ledger needs two
processes for a lost update and a third for a waiter that is overtaken; `MaxRecords` = 2
lets a record follow another. A supervisor call has two transactions and a tool, so three
calls give up to six transactions in every order; two files and one pattern that covers
both tell a patch of one file from a patch of both; two versions and two changes
(`MaxEdits`) allow an edit and its reversal, the case in which a digest comes back, and a
tool may change both files at once. `MaxDeaths` = 1: the properties exempt only the call
that died, so one death shows what it does to all others. `MaxCorrections` = 2 is the
code's default; two of three calls reach it when a change between them makes two attempts
of one request; two error classes give two clusters. In `Supervisor_hosts` tools always
succeed, since what failures lead to is the question of `Supervisor_alone`. Two adapter
clients are a binder against a binder, a releaser against an executor and a retry against
a late execution; a second kernel execution lets the retry overlap it. Two cells tell a
declared change from another one; a capture and the transaction it leads to take two
observations, what follows them a third (`MaxRecords` = 3), and calls that have started by
then go on, so transactions of both callers overlap. One probe is enough, since probes
share nothing but the sources and the artifacts; with `MaxWork` = 2 an edit and its
reversal, an edit and a build, or two builds, fall anywhere in it. Three calls to the
language server let an answer to the first arrive in the second or the third (`MaxCalls`);
a pipe of one message (`Pipe`) makes every order of steps possible that a larger one does,
since senders wait; `MaxUnasked` = 2 publications are a late one and the one waited for.
Five characters hold an escaped or quoted special character with something on either side
of it (`MaxLength`); the proofs are for any length. Four runs of the installer are two of
one lock with different bundles, and a dead run with its successor of the same number;
`MaxDamage` = 1 makes an existing version fail its verification. Executors of the adapter
and its clients, cells and their contents, names of texts, and the two calls of
`Supervisor_alone` that are the same, are interchangeable, which `SYMMETRY` uses in runs
without liveness properties.

**Fairness.** In `Controller`, weak fairness of the steps of each executor: the
effect is a `subprocess.run` with `timeoutSeconds`, and no step waits for
another executor. Calls, exceptions and crashes are not owed. In
`DurableLedger`, weak fairness of the steps of a process and strong fairness of
`Lock`: the kernel must hand a contended `flock` to its waiters in turn, which
Linux does in practice and the code relies on (it calls `flock` without a
timeout). In `LspBridge`, weak fairness of the serving thread, whose waits all have a
timeout, and strong fairness of `Deadline`, since the loop of `diagnostics` looks at the
clock only between its looks at the session; weak fairness of `Receive`, an
assumption about the server: the code writes to its input without a timeout
(lsp_client.py:168). Neither the reader thread nor any answer is relied on. The
other modules are checked for safety only.

Runs set `CHECK_DEADLOCK FALSE` where the system really stops: each call of `Supervisor`
and of `Routing` happens once, each run of the installer ends, and the LSP bridge ends
with its input; a code-mode client that has lost its session in a phase that may not
resolve one, or at the bound `MaxRecords`, has nothing left to do. The other modules run
with deadlock checking.

**Mutants.** Operators marked `(mutant)` are plausible slips in the code (no
`O_EXCL`, a shared lock, an unchecked identity, a forgotten pending entry...).
Each breaks the property it is paired with in `PROJECT.json`.

### Findings

*Scope of a decision* (`Supervisor_race`). The scope is reconciled in one
transaction (cli.py:55), the call decided in another; a hook of another host may set
its scope between them. A host that is alone on its ledger is not exposed to this.

*One meaning* (`Routing_apart`). execution_transport.py:95 promises an argv "only when
shell parsing and direct exec have identical meaning". A shell takes `!` and `time` for
reserved words and `a+=1` for an assignment; the pattern at execution_transport.py:109
knows neither, so `! rm x`, `time rm x` and `a+=1 rm x` get an argv, stand for nothing, and
pass to a shell that runs `rm`. Besides, shlex takes a carriage return outside quotes for a
blank, and keeps the backslash of an escaped backquote between double quotes; a shell does
neither. TLC shows the shortest case, a reserved word alone. `SameMeaning` is about how
commands are split and expanded, and exempts the two differences in splitting;
`GeneralIsRedirected` exempts what a first word of this kind leads.

Reading the code, modelling it and proving about it showed more places where it does
not do what a document or a comment says. They have no run of their own; the properties
that are checked exempt exactly them, or say what holds instead.

* *Binding of a receipt.* `request.json` is tested at controller.py:348 and written
  at :353 without looking again. Two requests with one session, turn and operation ID
  can leave the request of one beside the receipt of the other;
  `.codex/hooks/README.md:108` says the two files make the binding reconstructable. The
  receipt carries its own identity (`AnswerMatchesReceipt`).
* *Replaced binding.* `bind_operation` tests for a binding at workbook_adapter.py:282
  and writes its own at :284. Two clients that resolved different sessions both write;
  the binding the first has returned, which `.codex/hooks/WORKBOOK_ARCHITECTURE.md:63`
  calls immutable, is refused from then on.
* *What an approved call changes.* `policy.py:386` takes `sed --in-place` and `sed -i.bak`
  for reads, `policy.py:77` does not see the target of a `*** Move to:` line, and an
  evaluation runs any code, so approved calls change files that their scope does not own.
  `GuardedMutationsAreOwned` is about what a call that is classed as a mutation names.
* *Clusters of one exit code.* The error class is part of a failure's signature
  (policy.py:672): attempts that fail with changing exit codes exhaust no budget.
  `ClusterStops` counts the failures of one class.
* *First default.* Before `state.json` is written each hook reads the default scope of its
  own activity (ledger.py:97); the first write makes one of them the state of all, without
  a transition. `ScopeIsRecorded` starts from a default of some host.
* *Arguments of the client.* argparse takes abbreviated options, `--run-binding=x`, words
  after `--`, dashed words with a blank as values and repeated options
  (code_mode_client.py:36); the router refuses
  these, so the command is none of the workbook to it, and the client runs with bindings
  that nobody judged but its own admission. `RouterAndClientAgree` admits exactly such
  command lines (`Irregular`) and files that were missing when they were judged.
* *Gate per call.* The mutation gate and the quarantine live in the client object, and
  workbook_mcp_server.py:136 makes a new one for every call;
  `.codex/skills/cuestrap-code-mode/SKILL.md:79` asks for a fresh capture between
  transactions and after quarantine. `GateHolds` is about clients that
  live on; `NothingUnseenIsLost` holds with either, for each transaction and the caller
  that submitted it.
* *Lost transition.* A hook that dies between `state.json` and `events.jsonl`
  (ledger.py:153-155) has changed the scope, and no later hook records it;
  `ScopeIsRecorded` exempts exactly that.
* *Cell transactions* have no target paths, and a mutating operation without target
  paths is always `phase-invalid-churn` (policy.py:524), although the hook README
  gives a scope that allows them.
* *Timeouts* are reported with execution state `not-executed` (mcp_adapter.py:88)
  while the effect runs on in the kernel; `KeepsPromise` shows that a retry is harmless
  all the same.
* *Restored action.* `.codex/hooks/README.md:139` says that the post event of a
  controller execution is restored to the canonical semantic action. For words that
  are all punctuation or hold `;`, `&&`, `||` or a backquote, for mentions of
  `code_mode_client.py`, `workbook_cli.py` or `cuestrap_tool_supervisor.py` (which
  `README.md:28` calls ordinary) and for `uv`, the supervisor reads another operation
  than the router did; `SameReading` lists them. Mutation paths are taken relative to
  the repository root whatever the directory of the command.
* *Failing open.* A command with an empty argument, or a patch whose text is not in
  the field `command`, makes planning raise, and the hook lets it pass;
  `GeneralIsRedirected` exempts the two. It also exempts a typed command that has
  another argv for the shell than for shlex: the attempt to prove the property without
  that failed on a command of seven characters, beyond the bound of the run, which is
  an operation of the vocabulary for the shell alone.
* *Current artifacts.* `README.md:54` has both current artifacts match one build
  manifest. The second verification closes the window for cueprobe's binary
  (`CueprobeRanAsVouched`), nothing closes it for gopy's extension, which is digested
  after it ran; likewise the second subject digest shows an edit of the text that the
  first backend read (`FirstReadsItsSubject`), unless it was undone between the two
  digests, and nothing closes the window for the second. So a difference may be one of
  texts, or of Go sources whose build was replaced in time (`DifferenceIsOfTexts`).
  A probe that nobody   disturbs is exact (`QuietProbeIsExact`).
* *First diagnostics.* The reader counts a generation before it records the version
  (lsp_client.py:129-134). At the first publication with versions a late report of an
  older text passes as fresh; `FreshIsCurrent` is about those after it. A document
  whose first text cannot be read (lsp_client.py:202) is never opened at the server, and
  later answers are about nothing; `AnswersAreOwn` exempts it.
* *Independent archives.* tools/bundles/README.md:16 has five independently installable
  archives. All bundles of a lock have its digest, and install.sh:105 takes a version
  directory of that name for its own: a second archive of one lock reports "activated
  existing version" without being installed, and with `--force` replaces the first.
* *A link left behind.* A run killed between `ln -s` and `mv -Tf` leaves
  `.current.<pid>.tmp`. A later run of the same process number makes its link inside
  the version that link leads to, activates that version and reports success for its
  own; with `bin/python3` the stray link then fails the verification of that version.
  `ActivatesItsOwn` names both cases and shows there is no third.

## 4. What TLAPS proves

Assumptions are the named ones of the modules; sets of executors, requests, keys,
processes, hosts, calls, files, documents, clients, callers, sessions, cells, letters,
argvs, runs and bundles are arbitrary, and the bounds any natural numbers.
`ControllerAssumption`: keys are a function of requests, `None` is no request.
`LedgerAssumption`: bodies and migration map states to states; migration leaves current
states alone. `PolicyAssumption`: a file is a pattern that covers itself alone, the
budget is positive. `SupervisorAssumption`: every call has a host, patterns cover what
scopes own and operations name, a transition mutates nothing, the scope a host starts
from has its activity and owns nothing. `ShellAssumption`: letters
are no special characters, and reserved words are letters or `!`. `RoutingAssumption`: the
argvs of the argv tools are nonempty lists of nonempty words, the options of the client
begin with two dashes, abbreviations are no options, values with a single dash are no long
ones, and `python` is the name of `.venv/bin/python`. `BridgeAssumption`: a pipe holds a
message. `ProbeAssumption`: there is a text, and its meaning is one of the six.
`WorkAssumption`, `ClientAssumption`, `InstallerAssumption`: types of the constants.

*Controller.* `Typed`, `EffectAtMostOnce`, `ReceiptsAreTrue`,
`ReceiptsAreTerminal`, `AnswersAreDurable`, `AbandonedIsNeverRetried` and
`ControllerImplementsOneUse`. None of the invariants is inductive alone. The
inductive one says whose the claim is: an executor past `_claim` owns the claim
file of its key (`HolderOwnsClaim`) and is alone in that (`HolderIsAlone`); the
count of started effects agrees with where the holder is (`HolderCounts`); who
has started owns the claim (`StartedOwnsClaim`); a receipt reports the effect of
the claim's owner (`ReceiptReportsEffect`); and once it exists nobody holds the
claim (`ReceiptEndsHolding`). The refinement needs it too: `Use` is `StartEffect`
because the key was never used, `Report` is `WriteReceipt` because the key's
used request is the holder's.

*Workbook adapter.* `AdapterTyped`, `ClientsAreToldTheTruth`, `AdapterKeepsThePromise`
and `ReleasesAreFinal`. The controller's proofs serve here as well: an adapter step is a
step of the controller, leaves it alone, or is `WriteBoundRequest`, which the
controller's invariant survives (`ControllerMoves`). What a client is told is the answer
of an execution or a receipt read in the same step, and receipts stay. A release is
final because every way past it starts at a check that reads it, and `Quiet` says that
nobody is past those checks.

*Ledger.* `Typed`, `EvidenceIsGapless`, `TornIsFinal` and `LedgerKeepsAtomic`.
The inductive invariant says that whoever is inside holds the lock
(`LockedIsInside`) and has a body (`BusyHasBody`), that what it loaded is still
what the files say (`LoadedIsCurrent`) and that a process about to append has
written its state (`WrittenIsApplied`). The refinement maps the control state to
the loaded one while a process is about to append: the transaction takes effect
when it appends, and a process that dies before is `LoseEvidence` or a stutter.

*Supervisor.* All of its properties, by two invariants and a chain. The first is about
pending entries (`PendingIsTheUnfinished`, `ObservedAsDecided`,
`ApprovedMutationsAreOwned`). An entry is the trace a decision leaves in the state
until its observation. The invariant ties the two together: the approval of an entry
is in the ledger unless a hook of that call died (`EntriesAreDecided`), an observed
call is over (`ObservedIsDone`), and the scope kept in an entry owns the paths its
operation mutates (`EntriesAreOwned`), whatever the active scope has become.

The second, `History`, is about the ledger as it grows: a decision is what the policy
makes of the observations before its place (`DecidedOnHistory`, which `SameHistory`
carries over every append), an observation has the signature of its result
(`ObservedIsReduced`), and the decision, the entry and the observation of a call name the
same scope and digest (`EntriesAgree`, `ObservationsAgree`). The rest follows in one
state, from what each denial of the policy rules out: `RetriesAreOfFailures`,
`EvaluationsShareTheCandidate`, `ChannelBindsApprovals` and `ClustersStop`, the last by
counting the attempts of a cluster against the budget. `ScopesAreRecorded` is inductive:
the scope after the last recorded transition is the active one, or the default of a host if
there is none, and each transition starts where the one before it ended. None of these
theorems assumes anything of what tools do to files.

*Commands and routes.* `ArgvMeansTheCommand`: for commands of any length, what
`strict_shell_tokens` returns are the words a shell makes of it, and the shell neither
expands, composes, redirects, comments nor assigns; what the shell takes its first word
for is not part of it. The three automata are in corresponding states as long as nothing was
flagged; where they part, a dollar or an assignment is left in the words, for which
the code refuses them. `GeneralsAreRedirected`, `ExecutionsWereSeen` and
`RouterBindsTheClient` are about argvs of any length and files that come and go between
the hook and the call. So the invariant (`CallInv`) keeps of an approval what does not
depend on files: what the general classification made of the words, or how their options
were parsed. The option parsers of the router and of argparse are compared position by
position from the last word to the first: what argparse accepts the router parses alike,
or its words are `Irregular` (`Agreed`). The least position at which they differ stands
in place of an induction over sequences (`AllNumbers`, from the well-foundedness of the
naturals). `RequestInv` says that every request an agent holds came from the router.

*LSP bridge.* `AnswersAreTheirOwn` and `FreshReportsAreCurrent`, with
`SessionsStayTyped`. Versions grow on the way to the server and back: of every document
the version recorded is at most the one shown, told, taken in and counted, in this order
(`RecordedIsShown`, `PublishedInOrder`, `TextsInOrder`). A text is in the pipe before the
request about it (`TextIsSent`), so the server knows it when it answers; request ids are
not used again (`IdsAreOld`), so whatever carries the id that is waited for is about the
call's own document and version (`AwaitedIsOwn`). What was recorded once stays recorded
(`RecordsStay`), so a version that is not older than the call's is the call's. Neither
theorem assumes anything of the server's timing, of deaths or of the reader thread.

*Code-mode client.* `ReleasedDidAsDeclared`, `NothingUnseenIsOverwritten` and
`LastingClientsHoldTheGate`, for the callers outside `PerCall`. A transaction is made of
states that its own caller was shown, it keeps that caller on its way to the kernel
(`inflight`), what was shown stays shown, and the kernel, however late, finds the
preimages or changes nothing; the gate tells what the last observation of its client was
(`GateTells`).

*Probes.* `Typed`, `FirstIsOfItsSubject`, `CueprobeWasVouchedFor`,
`OnlyFinishedAreCompared`, `QuietProbesAreExact` and `DifferencesAreOfTexts`. Texts may
come back, so equal digests show nothing by themselves: the invariant counts the edits
between the two digests, of which none leaves the text what it was, and one leaves it
another. Versions of artifacts only grow: the binary that ran lies between the manifest
parsed before and the one parsed after it. For the last two a second invariant (`Beyond`)
adds what undisturbed readers have read, and that engines of the repository's own Go
sources say of the text they read what it means, in the facts both have: there a
difference between them means two texts, or two versions.

*Installer.* `ActiveStaysWhole`, `OnlyKilledRunsLitter` and `RunsActivateTheirOwn`. A
version directory is never removed, and what is moved or exchanged into place is a
candidate that was verified (`CandidatesAreOwn`, `VersionsAreInstalled`), so a link
never leads to less than a whole version (`LinksLead`). Runs that are alive differ in
number (`NumbersDiffer`), so a temporary link a run finds is that of a dead one
(`LinksAreOwned`).

*Only model-checked:* the liveness properties `ClaimResolves`, `TransactionsEnd` and
`EveryCallEnds`. They hold under fairness, whose `ENABLED` the provers cannot expand.
Every invariant and every action property of a passing run is a theorem. The two
findings are counterexamples and have nothing to prove. Induction over sequences is not
available either; where a property is about a whole history or a whole argv, it is stated
by places in it, which a step of the system or the least counterexample settles.

## 5. What is not modelled, and what could follow

* S04 fixtures and properties (`src/cuestrap/s04/`): one process checks given
  documents from top to bottom. Nothing is kept, shared or retried, and a model would
  restate the checks one by one.
* The notebooks and command lines: presentation and argument parsing over the
  components above. The arguments that decide where a call goes are in `Routing`.
* `runner/`: what cueprobe answers is in `BackendProbe`; how it computes it is the CUE
  library's business, which is external as Marimo, git, the host and the language
  server are. Their actions are what the code sees of them.
* Building and downloading a bundle prepare a private directory before the installer
  runs.
* Session and turn attribution of records; what effects do to files; formatting,
  truncation and redaction, except where they decide what a call may do.

What could follow: a second builder at a time in `NativeBuild`; the runner's evaluation as
operators of its own, from which the `Meanings` of `BackendProbe` would follow.
