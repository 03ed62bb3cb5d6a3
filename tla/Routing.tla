------------------------------ MODULE Routing ------------------------------
(***************************************************************************)
(* The routing of a tool call by the hooks (routing.py) and the transport  *)
(* it is admitted to (execution_transport.py): a command that was typed, a *)
(* list of words or another tool is left alone, sent directly, or refused  *)
(* with a controller request that the agent takes to the controller, by    *)
(* its command line or by the workbook tools.                              *)
(*                                                                         *)
(* A word is a sequence of characters as in StrictShell.  A whole file     *)
(* name, option or executable is one character.                            *)
(***************************************************************************)
EXTENDS StrictShell

CONSTANTS Lists,       \* the argvs that tool_exec is given
          Options,     \* words that begin with a dash
          LongOptions, \* those of them that begin with two
          DashedValues, \* those of them that argparse takes for values: numbers, "-"
          Abbreviated, \* Abbreviated[w]: the one option that w is a prefix of
          LastPart,    \* LastPart[w]: the last component of a path
          Relative,    \* Relative[w]: the path in the repository that w is absolute for
          RunFiles, SessionFiles, RequestFiles   \* words for files under the admitted roots

\* An argv that is given as a list is not empty, and neither is any of its words.
CodeModeOptions == {"--endpoint", "--repository-root", "--run-binding", "--session-binding"}

ASSUME RoutingAssumption ==
  /\ \A ws \in Lists : ws # None /\ ws \in Seq(ToSet(ws)) /\ ws # <<>> /\ <<>> \notin ToSet(ws)
  /\ None \notin RunFiles \cup SessionFiles \cup RequestFiles
  /\ CodeModeOptions \cup {"--"} \subseteq LongOptions
  /\ LongOptions \subseteq Options /\ DashedValues \subseteq Options \ LongOptions
  /\ DOMAIN Abbreviated \subseteq LongOptions \ (CodeModeOptions \cup {"--"})
  /\ ".venv/bin/python" \in DOMAIN LastPart /\ LastPart[".venv/bin/python"] = "python"

VARIABLES at,          \* how far the call has come
          event,       \* the call as the hook is told of it
          plan,        \* its route
          request,     \* the controller request the agent was given
          missing,     \* a file that has been removed
          absent,      \* (history) the one that was when the call was judged
          sawPre, sawPost, \* what the supervisor has made of the call
          effect       \* what the controller, or the code-mode client, has carried out

routing == <<at, event, plan, request, missing, absent, sawPre, sawPost, effect>>
vars    == <<command, routing>>

Dirs == {"root", "sub", "outside"}   \* working directories
W(x) == <<x>>

-----------------------------------------------------------------------------
(* Classification: the operation that an argv stands for *)

\* The digest covers target and subject.
Operation(target, subject, paths) ==
  [target |-> target, subject |-> subject, paths |-> paths]
Unrecognized  == Operation("none", <<>>, <<>>)
Recognized(o) == o.target # "none"

Dashed(w)         == w # <<>> /\ w[1] \in Options
LongDashed(w)     == w # <<>> /\ w[1] \in LongOptions
TargetPaths(ws)   == SelectSeq(Tail(ws), LAMBDA w : w # <<>> /\ ~Dashed(w))
NormalizePaths(ws) ==
  [i \in DOMAIN ws |-> IF ws[i] \in DOMAIN Relative THEN Relative[ws[i]] ELSE ws[i]]
Drop(ws, n)        == SubSeq(ws, n + 1, Len(ws))
Begins(ws, prefix) == IsPrefix(prefix, ws)
Has(ws, x)         == Contains(ws, W(x))
First(ws)          == IF ws # <<>> /\ Len(ws[1]) = 1 THEN ws[1][1] ELSE "other"
Name(ws)           == IF First(ws) \in DOMAIN LastPart THEN LastPart[First(ws)] ELSE First(ws)

GitReads     == {"diff", "log", "show", "status", "rev-parse", "ls-files"}
GitMutations == {"add", "am", "apply", "branch", "checkout", "cherry-pick", "clean",
                 "commit", "merge", "mv", "pull", "push", "rebase", "reset", "restore",
                 "revert", "rm", "stash", "switch", "tag"}
Reads        == {"rg", "ls", "stat", "ss", "head", "tail", "wc", "jq", "sed"}
Mutations    == {"rm", "mv", "cp", "mkdir", "touch", "truncate", "install", "tee"}

EditsInPlace(name, ws) == name = "sed" /\ Has(ws, "-i")

JustTarget == [f \in {"--list", "--summary", "--dump"} |->
                 CASE f = "--list"    -> "just.list"
                   [] f = "--summary" -> "just.summary"
                   [] f = "--dump"    -> "just.dump"]

JustOperation(ws) ==
  LET flags   == {f \in DOMAIN JustTarget : Has(ws, f)}
      places  == {i \in DOMAIN ws : ws[i] = W("--justfile")}
      first   == CHOOSE i \in places : \A j \in places : i <= j
      paths   == IF places = {} THEN <<>> ELSE NormalizePaths(<<ws[first + 1]>>)
      target  == JustTarget[CHOOSE f \in flags : TRUE]
      allowed == {W("just"), W("--justfile")} \cup {W(f) : f \in flags} \cup ToSet(paths)
  IN IF ws = <<W("just"), W("--fmt"), W("--check")>>
     THEN Operation("just.check", <<W("justfile")>>, <<>>)
     ELSE IF \/ Cardinality(flags) # 1
             \/ places # {} /\ first = Len(ws)
             \/ \E i \in DOMAIN ws : ws[i] \notin allowed
     THEN Unrecognized
     ELSE Operation(target, IF paths = <<>> THEN <<W("justfile")>> ELSE paths, paths)

GitOperation(ws) ==
  IF Len(ws) > 1 /\ First(Tail(ws)) \in GitReads THEN Operation("git.read", ws, <<>>)
  ELSE IF Len(ws) > 1 /\ First(Tail(ws)) \in GitMutations
  THEN Operation("git.mutation", ws, NormalizePaths(TargetPaths(Tail(ws))))
  ELSE Unrecognized

IsRead(ws) == \/ Name(ws) \in Reads /\ ~EditsInPlace(Name(ws), ws)
              \/ Begins(ws, <<W("command"), W("-v")>>)

MutationOperation(ws) ==
  Operation("workspace.mutation", ws, NormalizePaths(TargetPaths(ws)))

\* The evaluation that a command, or the command under uv run, stands for
Evaluation(ws) ==
  CASE Name(ws) = "cue" /\ Len(ws) > 1 /\ First(Tail(ws)) \in {"vet", "eval", "export"}
         -> "evaluation.cue"
    [] \/ Name(ws) \in {"python", "python3"} /\ Begins(Tail(ws), <<W("-m"), W("unittest")>>)
       \/ Name(ws) = "python" /\ Begins(Tail(ws), <<W("-m"), W("pytest")>>)
         -> "evaluation.python"
    [] Name(ws) = "go" /\ Begins(Tail(ws), <<W("test")>>) -> "evaluation.go"
    [] OTHER -> "none"

\* Where a path leads from a directory
Resolved(dir, w) ==
  CASE w \in {W("."), <<>>} -> dir
    [] w = W("..")    -> IF dir = "sub" THEN "root" ELSE "outside"
    [] w = W("/repo") -> "root"
    [] OTHER          -> "elsewhere"

UvRuns(ws, dir) ==
  /\ Len(ws) >= 8
  /\ SubSeq(ws, 2, 3) = <<W("run"), W("--project")>>
  /\ Resolved(dir, ws[4]) = "root"
  /\ SubSeq(ws, 5, 7) = <<W("--locked"), W("--exact"), W("--")>>
Evaluated(ws) == IF Name(ws) = "uv" THEN Drop(ws, 7) ELSE ws

-----------------------------------------------------------------------------
(* The workbook command lines *)

CodeModeTarget  == [a \in {"resolve-session", "capture-state", "run-focused-probe",
                           "apply-cell-transaction"} |->
                      CASE a = "resolve-session"        -> "code-mode.resolve-session"
                        [] a = "capture-state"          -> "code-mode.capture-state"
                        [] a = "run-focused-probe"      -> "code-mode.run-focused-probe"
                        [] a = "apply-cell-transaction" -> "code-mode.apply-cell-transaction"]

\* The options and the other words of a command line.  A flag has the value <<>>.
Parsed(ok) == [ok |-> ok, options |-> [o \in {} |-> <<>>], rest |-> <<>>]
Failed == Parsed(FALSE)
Empty  == Parsed(TRUE)

\* An option and its value, before what the words after them were parsed to
With(r, o, v, repeated) ==
  IF ~r.ok \/ (o \in DOMAIN r.options /\ repeated = "refused") THEN Failed
  ELSE IF o \in DOMAIN r.options /\ repeated = "last" THEN r
  ELSE [r EXCEPT !.options = [x \in DOMAIN @ \cup {o} |-> IF x = o THEN v ELSE @[x]]]

\* A word of a command line, before what the words after it were parsed to:
\* _parse_closed_options and _closed_workbook_cli_action
RouterWord(ws, i, next, afterNext, valued, flags, repeated) ==
  IF \E o \in valued : ws[i] = W(o)
  THEN IF i = Len(ws) \/ LongDashed(ws[i + 1]) THEN Failed
       ELSE With(afterNext, ws[i][1], ws[i + 1], repeated)
  ELSE IF \E o \in flags : ws[i] = W(o) THEN With(next, ws[i][1], <<>>, repeated)
  ELSE IF Dashed(ws[i]) THEN Failed
  ELSE [next EXCEPT !.rest = <<ws[i]>> \o @]

\* argparse, as code_mode_client.py uses it: an option may be abbreviated, and
\* its value may be joined to it by an =; what follows a -- is no option; a
\* dashed word with a blank in it, a negative number or a dash is a value.
Full(c) == IF c \in DOMAIN Abbreviated THEN Abbreviated[c] ELSE c
Given(w) == w # <<>> /\ Full(w[1]) \in CodeModeOptions /\ (Len(w) = 1 \/ w[2] = "=")
OptionLike(w) ==
  Given(w) \/ (Dashed(w) /\ ~Contains(w, "sp") /\ \A v \in DashedValues : w # W(v))
EndOfOptions(ws, i) == i = Len(ws) /\ ws[i] = W("--")

ClientWord(ws, i, next, afterNext) ==
  IF ws[i] = W("--")
  THEN IF i = Len(ws) THEN Failed ELSE [Empty EXCEPT !.rest = Drop(ws, i)]
  ELSE IF Given(ws[i]) /\ Len(ws[i]) > 1
  THEN With(next, Full(ws[i][1]), Drop(ws[i], 2), "last")
  ELSE IF Given(ws[i])
  THEN IF i = Len(ws) \/ OptionLike(ws[i + 1]) THEN Failed
       ELSE With(afterNext, Full(ws[i][1]), ws[i + 1], "last")
  ELSE IF OptionLike(ws[i]) THEN Failed
  ELSE [(IF EndOfOptions(ws, i + 1) THEN Empty ELSE next) EXCEPT !.rest = <<ws[i]>> \o @]

ParseWord(ws, i, next, afterNext, valued, flags, repeated) ==
  IF repeated = "last" THEN ClientWord(ws, i, next, afterNext)
  ELSE RouterWord(ws, i, next, afterNext, valued, flags, repeated)

Parse(ws, valued, flags, repeated) ==
  LET from[i \in 1..(Len(ws) + 2)] ==
        IF i > Len(ws) THEN Empty
        ELSE ParseWord(ws, i, from[i + 1], from[i + 2], valued, flags, repeated)
  IN from[1]

\* (mutant) a repeated option is not refused
ParseClosedOptionsFirst(ws) == Parse(ws, CodeModeOptions, {}, "first")

ParseClosedOptions(ws) == Parse(ws, CodeModeOptions, {}, "refused")
ParseArguments(ws)     == Parse(ws, CodeModeOptions, {}, "last")

\* The coordinates of a code-mode command, and admits_invocation
Value(p, o, default) == IF o \in DOMAIN p.options THEN p.options[o] ELSE default
Coordinates(p) ==
  [action |-> p.rest[1][1], request |-> p.rest[2],
   run |-> Value(p, "--run-binding", None), session |-> Value(p, "--session-binding", None)]

AdmitsInvocation(p, dir, gone) ==
  LET c == Coordinates(p)
      Admitted(w, files) == w \in files \ {gone}
  IN /\ Value(p, "--endpoint", W("canonical")) = W("canonical")
     /\ Resolved(dir, Value(p, "--repository-root", W("."))) = "root"
     /\ Admitted(c.run, RunFiles)
     /\ IF c.action = "resolve-session" THEN c.session = None
        ELSE Admitted(c.session, SessionFiles)
     /\ Admitted(c.request, RequestFiles)

CodeModeAction(p, dir, gone) ==
  IF /\ p.ok /\ Len(p.rest) = 2
     /\ \E a \in DOMAIN CodeModeTarget : p.rest[1] = W(a)
     /\ AdmitsInvocation(p, dir, gone)
  THEN Coordinates(p) ELSE None

ClosedCodeModeAction(ws, dir) == CodeModeAction(ParseClosedOptions(ws), dir, missing)

ClosedWorkbookCliAction(ws, dir) ==
  LET p == Parse(ws, {"--repo-root", "--probe-request"}, {"--validate"}, "refused")
      probes    == "--probe-request" \in DOMAIN p.options
      validates == "--validate" \in DOMAIN p.options
  IN IF /\ p.ok /\ p.rest = <<>> /\ probes # validates
        /\ Resolved(dir, Value(p, "--repo-root", W("."))) = "root"
        /\ probes => p.options["--probe-request"] \in RequestFiles
     THEN IF probes THEN "probe" ELSE "validate"
     ELSE None

\* is_exact_workbook_argv; the paths of interpreter and scripts are relative,
\* and lead to the canonical ones from the root alone.
ExactWorkbook(ws, dir) ==
  /\ dir = "root" /\ Len(ws) >= 2 /\ ws[1] = W(".venv/bin/python")
  /\ LET tail == Drop(ws, 2) IN
     \/ ws[2] = W("code_mode_client.py") /\ ClosedCodeModeAction(tail, dir) # None
     \/ ws[2] = W("workbook_cli.py") /\ ClosedWorkbookCliAction(tail, dir) # None

-----------------------------------------------------------------------------
(* The two classifications of a command *)

ClassifyGeneralArgv(ws, dir) ==
  IF Name(ws) = "just" THEN JustOperation(ws)
  ELSE IF Name(ws) = "git" /\ Recognized(GitOperation(ws)) THEN GitOperation(ws)
  ELSE IF IsRead(ws) THEN Operation("shell.read", ws, <<>>)
  ELSE IF Name(ws) = "uv" /\ ~UvRuns(ws, dir) THEN Unrecognized
  ELSE LET run == Evaluated(ws) IN
       IF Evaluation(run) # "none" THEN Operation(Evaluation(run), ws, <<>>)
       ELSE IF Name(run) \in Mutations \/ EditsInPlace(Name(run), ws) THEN MutationOperation(ws)
       ELSE Unrecognized

ClassifyExecutionArgv(ws, dir) ==
  IF ~ExactWorkbook(ws, dir) THEN ClassifyGeneralArgv(ws, dir)
  ELSE IF ws[2] = W("workbook_cli.py") THEN Operation("evaluation.workbook", ws, <<>>)
  ELSE Operation(CodeModeTarget[ClosedCodeModeAction(Drop(ws, 2), dir).action], ws, <<>>)

\* classify_tool of the command that shlex.join makes of words
\* A mention of a script is a substring of the command.
Holds(ws, chars) == \E i \in DOMAIN ws : ToSet(ws[i]) \cap chars # {}
FirstAction(ws) ==
  LET order == <<"resolve-session", "capture-state", "run-focused-probe",
                 "apply-cell-transaction">>
      found == {i \in DOMAIN order : Has(ws, order[i])}
  IN IF found = {} THEN Unrecognized
     ELSE Operation(CodeModeTarget[order[CHOOSE i \in found : \A j \in found : i <= j]],
                    ws, <<>>)

ClassifyCommand(ws) ==
  IF Holds(ws, {";", "NL"}) THEN Unrecognized
  ELSE IF Holds(ws, {"cuestrap_tool_supervisor.py"}) /\ (Has(ws, "set-phase") \/ Has(ws, "set-scope"))
  THEN Operation("supervisor.transition", ws, <<>>)
  ELSE IF Holds(ws, {"code_mode_client.py"}) THEN FirstAction(ws)
  ELSE IF Name(ws) = "just" THEN JustOperation(ws)
  ELSE IF Name(ws) = "git" /\ Recognized(GitOperation(ws)) THEN GitOperation(ws)
  ELSE IF IsRead(ws) THEN Operation("shell.read", ws, <<>>)
  ELSE IF Name(ws) = "uv" /\ ~UvRuns(ws, "root") THEN Unrecognized
  ELSE IF Evaluation(Evaluated(ws)) # "none"
  THEN Operation(Evaluation(Evaluated(ws)), ws, <<>>)
  ELSE IF Holds(ws, {"workbook_cli.py"}) /\ (Has(ws, "--validate") \/ Has(ws, "--probe-request"))
  THEN Operation("evaluation.workbook", ws, <<>>)
  ELSE IF Name(ws) \in Mutations \/ EditsInPlace(Name(ws), ws) THEN MutationOperation(ws)
  ELSE Unrecognized

AmbiguousShellForm(ws) ==
  \/ Holds(ws, {"NL", "bq", "<("})
  \/ \E i \in DOMAIN ws : ws[i] # <<>> /\ ToSet(ws[i]) \subseteq Punctuation

SupervisedCommand(ws) == IF AmbiguousShellForm(ws) THEN Unrecognized ELSE ClassifyCommand(ws)

PatchOperation == Operation("workspace.apply-patch", <<W("patch")>>, <<W("x")>>)

AdapterOperation(name) ==
  Operation(CASE name = "git_diff"   -> "git.read"
              [] name = "git_commit" -> "git.mutation"
              [] name = "cue_lsp"    -> "cue.lsp"
              [] name = "gopls"      -> "gopls.read", <<W(name)>>, <<>>)

-----------------------------------------------------------------------------
(* Routes *)

WorkbookTargets == {"evaluation.workbook"} \cup {CodeModeTarget[a] : a \in DOMAIN CodeModeTarget}
ControllerOperations == {"serve", "inspect", "execute", "diagnose", "close"}

\* A call: a command, typed or a list, in a directory; the controller's command
\* line, or workbook.execute_operation, with a payload; a patch, whose text is
\* in a field of some name; a typed adapter; another tool.
Event(kind, name, words, dir, payload) ==
  [kind |-> kind, name |-> name, words |-> words, dir |-> dir, payload |-> payload]

ControllerRequest(tool, words, dir, o) ==
  [tool |-> tool, words |-> words, dir |-> dir, target |-> o.target, subject |-> o.subject]

ClassificationForRequest(r) ==
  IF r.tool = "apply_patch" THEN PatchOperation ELSE ClassifyExecutionArgv(r.words, r.dir)

\* (mutant) whatever is recognized passes
RevalidatedRecognized(r) == Recognized(ClassificationForRequest(r))

\* _semantic_pre_event
Revalidated(r) ==
  LET o == ClassificationForRequest(r)
  IN Recognized(o) /\ o.target = r.target /\ o.subject = r.subject

\* The request is the one to be reissued or to be executed, or the coordinates
\* of a code-mode command.
Route(behavior, r) == [behavior |-> behavior, request |-> r]

\* A request with an empty argument cannot be built: NonEmpty raises.
PlanExecution(e) ==
  IF e.words = None THEN Route("neutral", None)
  ELSE LET o == ClassifyExecutionArgv(e.words, e.dir) IN
       IF ExactWorkbook(e.words, e.dir)
       THEN Route("direct", ClosedCodeModeAction(Drop(e.words, 2), e.dir))
       ELSE IF ~Recognized(o) THEN Route("neutral", None)
       ELSE IF e.dir = "outside" THEN Route("redirect", None)
       ELSE IF <<>> \in ToSet(e.words) THEN Route("raises", None)
       ELSE Route("redirect", ControllerRequest(e.name, e.words, e.dir, o))

PlanController(e) ==
  IF e.payload = None \/ e.name \notin ControllerOperations THEN Route("redirect", None)
  ELSE IF e.name # "execute" THEN Route("direct", None)
  ELSE IF ~Revalidated(e.payload) THEN Route("redirect", None)
  ELSE Route("direct", e.payload)

\* (mutant) what is proposed outside the repository is not its business
PlanPatchInside(e) ==
  IF e.dir = "outside" THEN Route("neutral", None)
  ELSE Route("redirect", ControllerRequest("apply_patch", None, e.dir, PatchOperation))

PlanPatch(e) ==
  IF e.dir = "outside" THEN Route("redirect", None)
  ELSE IF e.name # "command" THEN Route("raises", None)
  ELSE Route("redirect", ControllerRequest("apply_patch", None, e.dir, PatchOperation))

PlanPretoolRoute(e) ==
  CASE e.kind = "execution"  -> PlanExecution(e)
    [] e.kind = "controller" -> PlanController(e)
    [] e.kind = "patch"      -> PlanPatch(e)
    [] e.kind \in {"workbook", "adapter"} -> Route("direct", None)
    [] e.kind = "other"      -> Route("neutral", None)

\* What the supervisor makes of the event, or of the semantic event that a
\* controller execution is restored to.  What it makes of a typed command that
\* has no argv is left out ("unseen").
Supervised(e) ==
  CASE e.kind = "controller" ->
         IF e.name # "execute" \/ e.payload = None THEN Unrecognized
         ELSE IF ~Revalidated(e.payload) THEN Unrecognized
         ELSE IF e.payload.tool = "apply_patch" THEN PatchOperation
         ELSE SupervisedCommand(e.payload.words)
    [] e.kind = "workbook" ->
         IF e.payload = None \/ e.payload.target \in WorkbookTargets \ {"evaluation.workbook"}
         THEN Unrecognized
         ELSE Operation(e.payload.target, <<W("input")>>,
                        IF e.payload.tool = "apply_patch" THEN PatchOperation.paths ELSE <<>>)
    [] e.kind = "execution" ->
         IF e.words = None THEN Operation("unseen", <<>>, <<>>)
         ELSE IF e.name = "Bash" THEN SupervisedCommand(e.words) ELSE Unrecognized
    [] e.kind = "patch"   -> PatchOperation
    [] e.kind = "adapter" -> AdapterOperation(e.name)
    [] e.kind = "other"   -> Unrecognized

-----------------------------------------------------------------------------
(* The calls of an agent *)

NoEvent  == Event("none", "none", None, "root", None)
NoEffect == [by |-> "nobody", of |-> Unrecognized]

RoutingInit ==
  /\ Init
  /\ at = "typing"
  /\ event = NoEvent /\ plan = Route("none", None) /\ request = None /\ missing = None /\ absent = None
  /\ sawPre = Unrecognized /\ sawPost = Unrecognized
  /\ effect = NoEffect

TypeCharacter == /\ at = "typing"
                 /\ Next
                 /\ UNCHANGED routing

Propose(e) ==
  /\ at' = "proposed" /\ event' = e
  /\ UNCHANGED <<command, plan, request, missing, absent, sawPre, sawPost, effect>>

\* What Bash is given; its own meaning stays in "shell".
ProposeCommand ==
  /\ at = "typing" /\ length > 0
  /\ Propose(Event("execution", "Bash", StrictShellTokens, "root", None))

ProposeList ==
  /\ at = "typing" /\ length = 0
  /\ \E ws \in Lists, dir \in Dirs : Propose(Event("execution", "tool_exec", ws, dir, None))

ProposeTool ==
  /\ at = "typing" /\ length = 0
  /\ \/ \E field \in {"command", "patch"}, dir \in Dirs :
          Propose(Event("patch", field, None, dir, None))
     \/ \E name \in {"git_diff", "git_commit", "cue_lsp", "gopls"} :
          Propose(Event("adapter", name, None, "root", None))
     \/ Propose(Event("other", "other", None, "root", None))

\* cli.main: a redirection is denied without the supervisor; an exception lets
\* the call pass; the supervisor may deny what it recognizes.
PreHook ==
  /\ at = "proposed"
  /\ plan' = PlanPretoolRoute(event) /\ absent' = missing
  /\ CASE plan'.behavior = "redirect" ->
            /\ at' = "refused" /\ request' = plan'.request
            /\ UNCHANGED sawPre
       [] plan'.behavior = "raises" ->
            /\ at' = "approved"
            /\ UNCHANGED <<request, sawPre>>
       [] plan'.behavior \in {"direct", "neutral"} ->
            /\ sawPre' = Supervised(event)
            /\ at' \in {"approved"} \cup (IF Recognized(sawPre') THEN {"denied"} ELSE {})
            /\ UNCHANGED request
  /\ UNCHANGED <<command, event, missing, sawPost, effect>>

\* The agent takes the request, a request it has changed or something that is
\* none, to the controller.
Reissue ==
  /\ at = "refused" /\ request # None
  /\ \E payload \in {None, request} \cup
                    {[request EXCEPT !.target = t] : t \in {"shell.read", "evaluation.workbook"}} :
       \/ \E o \in ControllerOperations \cup {"bogus"} :
            Propose(Event("controller", o, None, "root", payload))
       \/ Propose(Event("workbook", "execute_operation", None, "root", payload))

\* validate_controller_request
Validated(r) == r # None /\ Revalidated(r) /\ r.target \notin WorkbookTargets

\* code_mode_client.py
ClientAction(ws, dir) == CodeModeAction(ParseArguments(ws), dir, missing)
IsClient(ws, dir) ==
  dir = "root" /\ Begins(ws, <<W(".venv/bin/python"), W("code_mode_client.py")>>)

\* A file of a code-mode command goes, or comes back.
ChangeFiles ==
  /\ at \in {"proposed", "approved"}
  /\ event.kind = "execution" /\ event.words # None /\ IsClient(event.words, event.dir)
  /\ missing' \in ({None} \cup RunFiles \cup SessionFiles \cup RequestFiles) \ {missing}
  /\ UNCHANGED <<command, at, event, plan, request, absent, sawPre, sawPost, effect>>

Effect(by, o) == [by |-> by, of |-> o]

\* The command that reserved words and assignments stand before
Led(ws) == LET n == SelectInSeq(ws, LAMBDA w : ~Leading(w))
           IN IF n = 0 THEN <<>> ELSE Drop(ws, n - 1)
Carried ==
  CASE event.kind \in {"controller", "workbook"} ->
         IF event.kind = "controller" /\ event.name # "execute" THEN NoEffect
         ELSE IF Validated(event.payload)
         THEN Effect("controller", ClassificationForRequest(event.payload)) ELSE NoEffect
    [] event.kind = "execution" /\ event.name = "Bash" ->
         Effect("itself",
                IF active THEN Unrecognized
                ELSE ClassifyExecutionArgv(IF Leads THEN Led(WordsOf(shell)) ELSE WordsOf(shell),
                                           event.dir))
    [] event.kind = "execution" /\ event.name = "tool_exec" ->
         IF IsClient(event.words, event.dir)
         THEN IF ClientAction(Drop(event.words, 2), event.dir) = None THEN NoEffect
              ELSE Effect("client", ClientAction(Drop(event.words, 2), event.dir))
         ELSE Effect("itself", ClassifyExecutionArgv(event.words, event.dir))
    [] event.kind = "patch"   -> Effect("itself", PatchOperation)
    [] event.kind = "adapter" -> Effect("adapter", AdapterOperation(event.name))
    [] event.kind = "other"   -> Effect("itself", Unrecognized)

Run == /\ at = "approved"
       /\ at' = "ran" /\ effect' = Carried
       /\ UNCHANGED <<command, event, plan, request, missing, absent, sawPre, sawPost>>

\* restore_posttool_event and the supervisor
PostHook == /\ at = "ran"
            /\ at' = "over" /\ sawPost' = Supervised(event)
            /\ UNCHANGED <<command, event, plan, request, missing, absent, sawPre, effect>>

RoutingNext == \/ TypeCharacter
               \/ ProposeCommand \/ ProposeList \/ ProposeTool
               \/ PreHook \/ Reissue \/ ChangeFiles \/ Run \/ PostHook

RoutingSpec == RoutingInit /\ [][RoutingNext]_vars
-----------------------------------------------------------------------------
\* What the supervisor reads in a command is what the router read in the words,
\* but for words that hold ; && || or a backquote or are all punctuation, for
\* words that mention a script it looks for, and for uv, whose project it takes
\* from the root and whose mutations it does not know.
SameReading(ws) ==
  /\ ~Holds(ws, {";", "NL", "bq", "<(", "cuestrap_tool_supervisor.py",
                 "code_mode_client.py", "workbook_cli.py"})
  /\ ~\E i \in DOMAIN ws : ws[i] # <<>> /\ ToSet(ws[i]) \subseteq Punctuation
  /\ Name(ws) # "uv"

\* An operation of the vocabulary that belongs to no workbook is carried out by
\* nobody but the controller (plan_pretool_route), whatever the shell would have
\* made of the command - except a typed command that has no argv for the router
\* (which refuses more than a shell would interpret) or another one than for the
\* shell (SameMeaning), one that follows a reserved word or an assignment that
\* appends ("! rm x", "time rm x" and "a+=1 rm x" pass as unknown, and the shell
\* carries out rm: Leads), and a command with an empty argument or a patch in a
\* field other than "command", for which the hook fails and lets them pass.  A
\* command that runs another (env, command, eval) is an operation of its own.
GeneralIsRedirected ==
  effect.by = "itself" /\ Recognized(effect.of) =>
    \/ effect.of.target \in WorkbookTargets
    \/ event.kind = "execution" /\ event.name = "Bash"
         /\ (event.words = None \/ apart \/ Leads \/ <<>> \in ToSet(event.words))
    \/ event.kind = "patch" /\ event.name # "command"

\* Of what the controller carries out the supervisor has seen the target before,
\* and of a command line's execution the very operation, before and afterwards
\* (_semantic_pre_event, restore_posttool_event) - as far as it reads commands
\* as the router does.
SeenAsExecuted ==
  effect.by = "controller" =>
    /\ event.kind = "workbook" => sawPre.target = effect.of.target
    /\ event.kind = "controller"
         /\ (event.payload.words = None \/ SameReading(event.payload.words)) =>
         /\ sawPre = effect.of
         /\ at = "over" => sawPost = effect.of

\* What argparse accepts and the router refuses: a dashed word that is no option
\* by its own name, unless it is the value of one and has a single dash (so
\* "--run x", "--run-binding=x", "--" and "--a b" are), and an option twice.
Option(w) == \E o \in CodeModeOptions : w = W(o)
Irregular(ws) ==
  \/ \E i \in 1..Len(ws) :
       /\ Dashed(ws[i]) /\ ~Option(ws[i])
       /\ ~(i > 1 /\ Option(ws[i - 1]) /\ ~LongDashed(ws[i]))
  \/ \E i, j \in 1..Len(ws) : i # j /\ Option(ws[i]) /\ ws[i] = ws[j]

\* The code-mode client carries out the action, on the bindings, that the router
\* judged, although they parse the command apart and a file may go or come back
\* in between (_closed_code_mode_action, code_mode_client.py) - or one that the
\* router did not recognize, and the supervisor did not see, for one of two
\* reasons: the words are of a form that only argparse accepts, or a file they
\* name was missing when the call was judged and has come back since.
RouterAndClientAgree ==
  effect.by = "client" =>
    \/ plan = Route("direct", effect.of)
    \/ /\ plan.behavior = "neutral" /\ ~Recognized(sawPre)
       /\ \/ Irregular(Drop(event.words, 2))
          \/ absent # None /\ absent \in {effect.of.run, effect.of.session, effect.of.request}
=============================================================================
