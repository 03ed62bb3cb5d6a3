---------------------------- MODULE MCSupervisor ----------------------------
(* Two files under one glob.  Either three hosts, a coder with a narrow     *)
(* scope and a lead with a wide one, who implement, and a reader with the   *)
(* default scope; or a tester with the default scope who evaluates the      *)
(* same thing twice and another one.                                        *)
EXTENDS Supervisor

CONSTANTS first, again, other  \* the calls of the tester

OneFile   == {"a"}
TwoFiles  == {"a", "b"}
ThreePaths == {"a", "b", "src/**"}
CoversOf  == [p \in ThreePaths |-> IF p = "src/**" THEN TwoFiles ELSE {p}]
TwoPaths  == {"a", "src/**"}
CoversOne == [p \in TwoPaths |-> OneFile]

Default(activity, targets) ==
  [activity |-> activity, surface |-> "none", owned |-> {}, targets |-> targets]
Inspect   == Default("inspect", {"shell.read"})
Implement == Default("implement", {"workspace.apply-patch", "shell.read"})
Evaluate  == Default("evaluate", {"evaluation.go", "shell.read"})
ImplementA   == [Implement EXCEPT !.surface = "go", !.owned = {"a"}]
ImplementAll == [Implement EXCEPT !.surface = "go", !.owned = {"src/**"}]

ThreeHosts == {"coder", "lead", "reader"}
OneHost    == {"tester"}
ScopeOfThree == [h \in ThreeHosts |-> CASE h = "coder"  -> ImplementA
                                        [] h = "lead"   -> ImplementAll
                                        [] h = "reader" -> Inspect]
DefaultOfThree == [h \in ThreeHosts |-> IF h = "reader" THEN Inspect ELSE Implement]
ScopeOfTester  == [h \in OneHost |-> Evaluate]

Plain(target, request, channel) ==
  [target |-> target, request |-> request, mutating |-> FALSE, paths |-> {},
   protected |-> FALSE, wide |-> FALSE, channel |-> channel]
GoTest   == Plain("evaluation.go", "go test", "native-evaluation")
GoTestV  == Plain("evaluation.go", "go test -v", "native-evaluation")
ReadFile == Plain("shell.read", "cat a", "static-source")
Patch(request, paths) ==
  [Plain("workspace.apply-patch", request, "static-source") EXCEPT
     !.mutating = TRUE, !.paths = paths]
PatchA    == Patch("patch a", {"a"})
PatchBoth == Patch("patch a b", {"a", "b"})

\* The coder tries to patch both files, of which it owns one, the lead patches
\* a file, and the reader runs a command that classify_tool does not know.
MixedCalls == {"both", "patch", "what"}
MixedHost  == [c \in MixedCalls |-> CASE c = "both"  -> "coder"
                                      [] c = "patch" -> "lead"
                                      [] c = "what"  -> "reader"]
MixedOp    == [c \in MixedCalls |-> CASE c = "both"  -> PatchBoth
                                      [] c = "patch" -> PatchA
                                      [] c = "what"  -> ReadFile]
WhatOnly == {"what"}

\* Three evaluations of one target, two of them the same.
TesterCalls == {first, again, other}
TesterHost  == [c \in TesterCalls |-> "tester"]
TesterOp    == [c \in TesterCalls |-> IF c = other THEN GoTestV ELSE GoTest]
NoCalls     == {}
Twins == Permutations({first, again})

Done(error, class, channel, introduces, resolves) ==
  [error |-> error, class |-> class, channel |-> channel, introduces |-> introduces,
   resolves |-> resolves]
Success == {Done(FALSE, "exit-code:0", None, {}, {})}
\* Errors of two classes, a question for another channel, and a success that
\* answers it.
AllResults == {Done(TRUE, "exit-code:1", None, {}, {}),
               Done(TRUE, "exit-code:2", None, {}, {}),
               Done(FALSE, "exit-code:0", "runtime", {"why"}, {}),
               Done(FALSE, "exit-code:0", None, {}, {"why"})}
=============================================================================
