----------------------------- MODULE MCRouting -----------------------------
EXTENDS Routing

CommandLetters == {"rm", "time"}
ReservedWords  == {"!", "time"}

\* Words of one character, in a row
R(a, b)    == <<W(a), W(b)>>
Uv(where)  == <<W("run"), W("--project"), W(where), W("--locked"), W("--exact"), W("--")>>

\* Lists that begin with head, and go on with at most n of the segments
Begun(head, segments, n) == {head \o FlattenSeq(s) : s \in SeqOf(segments, n)}

FileWords == {<<W("x")>>, <<W("/repo/x")>>, <<<<"x", ";">>>>, <<<<"<">>>>,
              <<W("code_mode_client.py")>>}
SomeLists ==
  UNION {Begun(<<W("git")>>, FileWords \cup {<<W("diff")>>, <<W("commit")>>}, 2),
         Begun(<<W("rm")>>, FileWords, 2), Begun(<<W("/bin/rm")>>, FileWords, 1), Begun(<<W("ls")>>, FileWords, 2),
         Begun(<<W("sed")>>, FileWords \cup {<<W("-i")>>}, 2),
         Begun(<<W("just")>>, {<<W("--list")>>, <<W("--dump")>>, R("--justfile", "x"),
                               R("--justfile", "/repo/x"), R("--fmt", "--check")}, 2),
         Begun(<<W("uv")>>, {Uv("/repo"), Uv("."), Uv(".."), R("rm", "x"), R("cue", "vet")}, 2),
         Begun(<<W("cue")>>, {<<W("vet")>>, <<W("x")>>}, 2),
         Begun(<<W("python")>>, {R("-m", "unittest"), R("workbook_cli.py", "--validate")}, 2),
         Begun(R(".venv/bin/python", "workbook_cli.py"),
               {<<W("--validate")>>, R("--probe-request", "request"), R("--repo-root", "..")}, 3),
         Begun(R(".venv/bin/python", "code_mode_client.py"),
               {R("--run-binding", "run"), R("--run-binding", "run2"), R("--run-binding", "x"),
                R("--session-binding", "session"), R("--repository-root", ".."),
                R("capture-state", "request"), R("resolve-session", "request")}, 4),
         Begun(R(".venv/bin/python", "code_mode_client.py"),
               {R("--run-binding", "run"), R("--run", "run"), <<<<"--run-binding", "=", "run2">>>>,
                R("--run-binding", "-1"), R("--run-binding", "--run"), <<W("--")>>,
                R("resolve-session", "request"), R("resolve-session", "--")}, 3)}

SomeOptions  == {"--list", "--summary", "--dump", "--justfile", "--fmt", "--check", "-i", "-m", "-v",
                 "--project", "--locked", "--exact", "--", "--run-binding", "--session-binding",
                 "--run", "-1", "--endpoint", "--repository-root", "--validate", "--probe-request", "--repo-root"}
SomeLong     == SomeOptions \ {"-i", "-m", "-v", "-1"}
SomeDashed   == {"-1"}
SomePrefixes == [w \in {"--run"} |-> "--run-binding"]
SomeLast     == [w \in {".venv/bin/python", "/bin/rm"} |-> IF w = "/bin/rm" THEN "rm" ELSE "python"]
SomeRelative == [w \in {W("/repo/x")} |-> W("x")]
SomeRuns     == {W("run"), W("run2")}
SomeSessions == {W("session")}
SomeRequests == {W("request")}
=============================================================================
