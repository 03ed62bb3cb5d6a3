----------------------------- MODULE LspBridge -----------------------------
(***************************************************************************)
(* The MCP facade of a language server (mcp_server.py, lsp_client.py): one *)
(* thread serves tool calls one after the other, a reader thread of the    *)
(* session takes in what the server sends, without a lock around what it   *)
(* records, and the server answers late, not at all, unasked, or dies.     *)
(*                                                                         *)
(* A document text is known by its version: every call sends the text it   *)
(* has just read as the next version.  The two pipes hold whole messages,  *)
(* and a send is one step: the write lock keeps frames apart.  A session   *)
(* whose server was started in vain is forgotten, its process with it.     *)
(***************************************************************************)
EXTENDS Naturals, Sequences

CONSTANTS Docs,        \* documents under the root
          Pipe,        \* messages a pipe holds
          MaxCalls,    \* bound: calls of tools and of initialize
          MaxUnasked,  \* bound: messages that answer no request
          None         \* no document, no answer, no recorded version

ASSUME BridgeAssumption ==
  /\ Pipe \in Nat \ {0}
  /\ MaxCalls \in Nat /\ MaxUnasked \in Nat
  /\ None \notin Docs /\ None \notin Nat

VARIABLES caller,      \* the serving thread: where it is, and its call
          session,     \* the newest LspSession
          reader,      \* its reader thread: where it is, and its message
          toServer,    \* its stdin pipe
          toClient,    \* its stdout pipe
          server,      \* the language server
          calls, unasked,
          told         \* what the last call has returned

pipes == <<toServer, toClient>>
vars  == <<caller, session, reader, pipes, server, calls, unasked, told>>

\* hover, definition, references and document_symbols differ in the method
\* they name: "ask" stands for each of them.
Tools == {"initialize", "diagnostics", "ask"}

Message(kind, id, doc, version) ==
  [kind |-> kind, id |-> id, doc |-> doc, version |-> version]
NoMessage == Message("note", 0, None, 0)
Note      == NoMessage

NoCall  == [at |-> "idle", tool |-> "initialize", doc |-> None, id |-> 0,
            version |-> 0, generation |-> 0, before |-> None, found |-> None]
Nothing == [kind |-> "nothing", call |-> NoCall, doc |-> None, version |-> 0]

NoSession ==
  [installed |-> FALSE, nextId |-> 1, pending |-> [i \in {} |-> NoMessage],
   versions |-> [x \in Docs |-> 0], unsent |-> {},
   shown |-> [x \in Docs |-> 0], generations |-> [x \in Docs |-> 0],
   recorded |-> [x \in Docs |-> None]]

\* A server that tells the version of every publication, or of none.
NewServer(tells) ==
  [up |-> TRUE, tells |-> tells, owed |-> {}, told |-> [x \in Docs |-> 0],
   has |-> [x \in Docs |-> 0]]

Init == /\ caller = NoCall
        /\ session = NoSession
        /\ reader = [at |-> "dead", msg |-> NoMessage]
        /\ toServer = <<>> /\ toClient = <<>>
        /\ server = [NewServer(FALSE) EXCEPT !.up = FALSE]
        /\ calls = 0 /\ unasked = 0
        /\ told = Nothing

-----------------------------------------------------------------------------
(* The serving thread *)

At(pcs) == caller.at \in pcs
Goto(pc) == caller' = [caller EXCEPT !.at = pc]

\* The call ends with a result, or raises and is answered with an error.
Return(result) == caller' = NoCall /\ told' = result

\* _send after its poll, or a broken pipe while it waits for room
Sent(m)  == /\ server.up /\ Len(toServer) < Pipe
            /\ toServer' = Append(toServer, m)
SendFails == ~server.up

\* LspSession.__init__ up to the start of its threads: a new session knows
\* nothing of the last one, as its server does not.
NewSessionSameVersions == [NoSession EXCEPT !.versions = session.versions]
NewSession == NoSession

\* McpServer.call and handle: _session installs a new LspSession unless the
\* present one has a live server.
Call(tool, doc) ==
  /\ At({"idle"}) /\ calls < MaxCalls
  /\ calls' = calls + 1 /\ told' = Nothing
  /\ IF session.installed /\ server.up
     THEN /\ caller' = IF tool = "initialize" THEN NoCall
                       ELSE [NoCall EXCEPT !.at = "path", !.tool = tool, !.doc = doc]
          /\ UNCHANGED <<session, reader, pipes, server>>
     ELSE /\ caller' = [NoCall EXCEPT !.at = "init", !.tool = tool, !.doc = doc]
          /\ session' = NewSession
          /\ reader' = [at |-> "reading", msg |-> NoMessage]
          /\ toServer' = <<>> /\ toClient' = <<>>
          /\ \E tells \in BOOLEAN : server' = NewServer(tells)
  /\ UNCHANGED unasked

\* request: the entry is made before the message is sent, and the try that
\* removes it begins after that.
NewId == session.nextId
Pend(s, id)   == [s EXCEPT !.nextId = id + 1,
                           !.pending = [i \in DOMAIN s.pending \cup {id} |->
                                          IF i = id THEN NoMessage ELSE s.pending[i]]]
Forget(s, id) == [s EXCEPT !.pending = [i \in DOMAIN s.pending \ {id} |-> s.pending[i]]]

Request(from, wait) ==
  /\ At({from})
  /\ session' = Pend(session, NewId)
  /\ \/ /\ Sent(Message("request", NewId, caller.doc, 0))
        /\ caller' = [caller EXCEPT !.at = wait, !.id = NewId]
        /\ UNCHANGED told
     \/ SendFails /\ Return(Nothing) /\ UNCHANGED toServer
  /\ UNCHANGED <<reader, toClient, server, calls, unasked>>

Answered == /\ caller.id \in DOMAIN session.pending
            /\ session.pending[caller.id] # NoMessage

TimeOutOfInit ==
  /\ At({"await-init"}) /\ ~Answered
  /\ session' = Forget(session, caller.id)
  /\ Return(Nothing)
  /\ UNCHANGED <<reader, pipes, server, calls, unasked>>

\* pending.response.get raises queue.Empty, whoever answers later
TimeOut ==
  /\ At({"await-init", "await"}) /\ ~Answered
  /\ session' = Forget(session, caller.id)
  /\ Return(Nothing)
  /\ UNCHANGED <<reader, pipes, server, calls, unasked>>

\* The server accepts or refuses to be initialized.
Initialized ==
  /\ At({"await-init"}) /\ Answered
  /\ session' = Forget(session, caller.id)
  /\ \/ Goto("greet") /\ UNCHANGED told
     \/ Return(Nothing)
  /\ UNCHANGED <<reader, pipes, server, calls, unasked>>

Greet ==
  /\ At({"greet"})
  /\ \/ /\ Sent(Note)
        /\ session' = [session EXCEPT !.installed = TRUE]
        /\ IF caller.tool = "initialize" THEN Return(Nothing)
           ELSE Goto("path") /\ UNCHANGED told
     \/ SendFails /\ Return(Nothing) /\ UNCHANGED <<session, toServer>>
  /\ UNCHANGED <<reader, toClient, server, calls, unasked>>

\* _path, then open_document up to its notify: the version is counted before
\* the text is read, and read_text may raise.  diagnostics has taken the
\* generation before.
OpenDocument ==
  LET x == caller.doc
      v == session.versions[x] + 1
  IN /\ At({"path"})
     /\ \/ Return(Nothing) /\ UNCHANGED session
        \/ /\ session' = [session EXCEPT !.versions[x] = v]
           /\ caller' = [caller EXCEPT !.at = "notify", !.version = v,
                                       !.generation = session.generations[x],
                                       !.before = session.recorded[x]]
           /\ UNCHANGED told
        \/ /\ session' = [session EXCEPT !.versions[x] = v,
                             !.unsent = IF v = 1 THEN @ \cup {x} ELSE @]
           /\ Return(Nothing)
     /\ UNCHANGED <<reader, pipes, server, calls, unasked>>

Notify ==
  LET kind == IF caller.version = 1 THEN "open" ELSE "change"
  IN /\ At({"notify"})
     /\ \/ /\ Sent(Message(kind, 0, caller.doc, caller.version))
           /\ Goto(IF caller.tool = "diagnostics" THEN "poll" ELSE "request")
           /\ UNCHANGED told
        \/ SendFails /\ Return(Nothing) /\ UNCHANGED toServer
     /\ UNCHANGED <<session, reader, toClient, server, calls, unasked>>

\* The answer of the server to hover, definition, references or symbols
TakeAnswer ==
  /\ At({"await"}) /\ Answered
  /\ session' = Forget(session, caller.id)
  /\ LET a == session.pending[caller.id] IN
     Return([kind |-> "answer", call |-> caller, doc |-> a.doc, version |-> a.version])
  /\ UNCHANGED <<reader, pipes, server, calls, unasked>>

\* The loop of diagnostics: it looks for the recorded version, then for the
\* generation, and gives up three seconds after the text was sent.
Poll ==
  /\ At({"poll"})
  /\ caller' = [caller EXCEPT !.at = "compare", !.found = session.recorded[caller.doc]]
  /\ UNCHANGED <<session, reader, pipes, server, calls, unasked, told>>

FreshGeneration == session.generations[caller.doc] > caller.generation
Fresh == /\ session.generations[caller.doc] > caller.generation
         /\ caller.found = None \/ caller.found >= caller.version

Compare ==
  /\ At({"compare"})
  /\ Goto(IF Fresh THEN "report" ELSE "poll")
  /\ UNCHANGED <<session, reader, pipes, server, calls, unasked, told>>

Deadline ==
  /\ At({"poll"})
  /\ Return(Nothing)
  /\ UNCHANGED <<session, reader, pipes, server, calls, unasked>>

Report ==
  /\ At({"report"})
  /\ Return([kind |-> "report", call |-> caller, doc |-> caller.doc,
             version |-> session.shown[caller.doc]])
  /\ UNCHANGED <<session, reader, pipes, server, calls, unasked>>

\* serve after the end of its input: the session is closed if it is installed
\* and its server is up, by shutdown and exit or, if anything fails or takes
\* too long, by a kill.
EndOfInput ==
  /\ At({"idle"})
  /\ Goto(IF session.installed /\ server.up THEN "shutdown" ELSE "gone")
  /\ told' = Nothing
  /\ UNCHANGED <<session, reader, pipes, server, calls, unasked>>

Shutdown ==
  /\ At({"shutdown"})
  /\ session' = Pend(session, NewId)
  /\ \/ /\ Sent(Message("request", NewId, None, 0))
        /\ caller' = [caller EXCEPT !.at = "await-shutdown", !.id = NewId]
     \/ SendFails /\ Goto("kill") /\ UNCHANGED toServer
  /\ UNCHANGED <<reader, toClient, server, calls, unasked, told>>

ShutdownEnds ==
  /\ At({"await-shutdown"})
  /\ session' = Forget(session, caller.id)
  /\ Goto(IF Answered THEN "exit" ELSE "kill")
  /\ UNCHANGED <<reader, pipes, server, calls, unasked, told>>

Exit ==
  /\ At({"exit"})
  /\ \/ Sent(Message("exit", 0, None, 0)) /\ Goto("wait")
     \/ SendFails /\ Goto("kill") /\ UNCHANGED toServer
  /\ UNCHANGED <<session, reader, toClient, server, calls, unasked, told>>

Wait ==
  /\ At({"wait"})
  /\ Goto(IF server.up THEN "kill" ELSE "gone")
  /\ UNCHANGED <<session, reader, pipes, server, calls, unasked, told>>

Kill ==
  /\ At({"kill"})
  /\ Goto("gone")
  /\ server' = [server EXCEPT !.up = FALSE]
  /\ UNCHANGED <<session, reader, pipes, calls, unasked, told>>

Close == Shutdown \/ ShutdownEnds \/ Exit \/ Wait \/ Kill

Serve == \/ Request("init", "await-init") \/ Initialized \/ Greet \/ OpenDocument
         \/ Notify \/ Request("request", "await") \/ TakeAnswer \/ TimeOut
         \/ Poll \/ Compare \/ Report \/ Close

-----------------------------------------------------------------------------
(* The reader thread *)

\* The next message: an answer goes to whoever waits for it, if anyone does;
\* int(None) ends the thread.
TakeMessage ==
  LET m == Head(toClient)
  IN /\ reader.at = "reading" /\ toClient # <<>>
     /\ toClient' = Tail(toClient)
     /\ CASE m.kind = "answer" ->
               /\ session' = IF m.id \in DOMAIN session.pending
                             THEN [session EXCEPT !.pending[m.id] = m] ELSE session
               /\ UNCHANGED reader
          [] m.kind = "publish" ->
               /\ session' = [session EXCEPT !.shown[m.doc] = m.version]
               /\ reader' = [at |-> "count", msg |-> m]
          [] m.kind = "ask" ->
               /\ reader' = [at |-> "reply", msg |-> NoMessage]
               /\ UNCHANGED session
          [] m.kind = "null-answer" ->
               /\ reader' = [at |-> "dead", msg |-> NoMessage]
               /\ UNCHANGED session
     /\ UNCHANGED <<caller, toServer, server, calls, unasked, told>>

CountGeneration ==
  /\ reader.at = "count"
  /\ session' = [session EXCEPT !.generations[reader.msg.doc] = @ + 1]
  /\ reader' = [reader EXCEPT !.at = "record"]
  /\ UNCHANGED <<caller, pipes, server, calls, unasked, told>>

\* A publication without a version removes the recorded one.
RecordVersion ==
  LET x == reader.msg.doc
  IN /\ reader.at = "record"
     /\ session' = [session EXCEPT !.recorded[x] =
                      IF server.tells THEN reader.msg.version ELSE None]
     /\ reader' = [at |-> "reading", msg |-> NoMessage]
     /\ UNCHANGED <<caller, pipes, server, calls, unasked, told>>

\* _respond_to_server_request: a send that raises ends the thread.
Respond ==
  /\ reader.at = "reply"
  /\ \/ Sent(Note) /\ reader' = [at |-> "reading", msg |-> NoMessage]
     \/ /\ SendFails /\ UNCHANGED toServer
        /\ reader' = [at |-> "dead", msg |-> NoMessage]
  /\ UNCHANGED <<caller, session, toClient, server, calls, unasked, told>>

EndOfOutput ==
  /\ reader.at = "reading" /\ toClient = <<>> /\ ~server.up
  /\ reader' = [at |-> "dead", msg |-> NoMessage]
  /\ UNCHANGED <<caller, session, pipes, server, calls, unasked, told>>

Read == TakeMessage \/ CountGeneration \/ RecordVersion \/ Respond \/ EndOfOutput

-----------------------------------------------------------------------------
(* The language server: it reads its input in order, and answers or publishes *)
(* what it then knows, in any order, late or never.                           *)

Receive ==
  LET m == Head(toServer)
      x == m.doc
  IN /\ server.up /\ toServer # <<>>
     /\ toServer' = Tail(toServer)
     /\ server' =
          CASE m.kind = "open" -> [server EXCEPT !.has[x] = m.version]
            [] m.kind = "change" ->
                 [server EXCEPT !.has[x] = IF @ = 0 THEN 0 ELSE m.version]
            [] m.kind = "request" ->
                 [server EXCEPT !.owed = @ \cup
                    {Message("answer", m.id, x, IF x = None THEN 0 ELSE server.has[x])}]
            [] m.kind = "exit" -> [server EXCEPT !.up = FALSE]
            [] OTHER -> server
     /\ UNCHANGED <<caller, session, reader, toClient, calls, unasked, told>>

Answer ==
  \E m \in server.owed :
     /\ server.up /\ Len(toClient) < Pipe
     /\ toClient' = Append(toClient, m)
     /\ server' = [server EXCEPT !.owed = @ \ {m}]
     /\ UNCHANGED <<caller, session, reader, toServer, calls, unasked, told>>

\* Diagnostics of a text it has had, never older than those of the last time;
\* or a request of its own; or an answer to something it could not read.
Unasked ==
  /\ server.up /\ Len(toClient) < Pipe /\ unasked < MaxUnasked
  /\ unasked' = unasked + 1
  /\ \/ \E x \in Docs : \E v \in 1..server.has[x] :
          /\ v >= server.told[x]
          /\ toClient' = Append(toClient, Message("publish", 0, x, v))
          /\ server' = [server EXCEPT !.told[x] = v]
     \/ \E kind \in {"ask", "null-answer"} :
          /\ toClient' = Append(toClient, Message(kind, 0, None, 0))
          /\ UNCHANGED server
  /\ UNCHANGED <<caller, session, reader, toServer, calls, told>>

Die == /\ server.up
       /\ server' = [server EXCEPT !.up = FALSE]
       /\ UNCHANGED <<caller, session, reader, pipes, calls, unasked, told>>

Next == \/ \E tool \in Tools, x \in Docs : Call(tool, x)
        \/ Serve \/ Deadline \/ EndOfInput \/ Read
        \/ Receive \/ Answer \/ Unasked \/ Die

\* The serving thread runs, and its timeouts pass; so does the deadline of a
\* diagnostics call, which is not looked at in every state.  A server that is
\* up reads its input.  Neither an answer nor the reader thread is relied on.
Spec == /\ Init /\ [][Next]_vars
        /\ WF_vars(Serve) /\ SF_vars(Deadline) /\ WF_vars(Receive)

-----------------------------------------------------------------------------
\* What hover, definition, references or symbols return answers this very
\* request and is about the text this call has sent, however many requests
\* have timed out before and are answered late (ids and pending table of
\* request, open_document once per call, per session) - except for a document
\* whose first text could not be read, which the server is never told to open.
AnswersAreOwn ==
  told.kind = "answer" =>
    /\ told.doc = told.call.doc
    /\ told.version = told.call.version \/ told.doc \in session.unsent

\* Diagnostics are reported for the text this call has sent (the loop of
\* diagnostics), if the server tells versions and one was recorded before the
\* text was sent.  At the first publication the reader counts the generation
\* before it records the version, and a late report of an older text passes.
FreshIsCurrent ==
  /\ told.kind = "report" /\ server.tells /\ told.call.before # None
  => told.version = told.call.version

\* Every call ends, with a result or an error, and the server process is gone
\* when the facade is, if its session was installed (request, diagnostics,
\* close) - even if no answer ever comes or the reader thread has died.
EveryCallEnds ==
  caller.at \notin {"idle", "gone"} ~>
    caller.at = "idle" \/ (caller.at = "gone" /\ ~server.up)
=============================================================================
