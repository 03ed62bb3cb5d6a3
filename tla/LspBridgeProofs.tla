--------------------------- MODULE LspBridgeProofs ---------------------------
(***************************************************************************)
(* Proofs about the LSP bridge for any documents, any size of the pipes    *)
(* and any number of calls and unasked messages.                           *)
(*                                                                         *)
(* The argument: the versions of a document only grow on their way from    *)
(* the session's count through the pipe to the server (TextsInOrder), and  *)
(* back through publications to what the session has shown and recorded    *)
(* (PublishedInOrder, RecordedIsShown).  A call keeps the version it       *)
(* counted; so a server that has taken in its text knows that version when *)
(* it comes to the request behind it (TextIsSent), and a request that      *)
(* timed out has another id (AwaitedIsOwn).  A recorded version that is    *)
(* not older than the call's is the call's.                                *)
(***************************************************************************)
EXTENDS LspBridge, TLAPS

Places == {"idle", "init", "await-init", "greet", "path", "notify", "request", "await", "poll",
           "compare", "report", "shutdown", "await-shutdown", "exit", "kill", "wait", "gone"}
Working == {"notify", "request", "await", "poll", "compare", "report"}

Messages(kinds) == [kind : kinds, id : Nat, doc : Docs \cup {None}, version : Nat]
ToServer == Messages({"request", "open", "change", "exit", "note"})
ToClient == Messages({"answer", "publish", "ask", "null-answer"})
Calls    == [at : Places, tool : Tools, doc : Docs \cup {None}, id : Nat, version : Nat,
             generation : Nat, before : Nat \cup {None}, found : Nat \cup {None}]

SessionTyped ==
  /\ session = [installed |-> session.installed, nextId |-> session.nextId,
                pending |-> session.pending, versions |-> session.versions,
                unsent |-> session.unsent, shown |-> session.shown,
                generations |-> session.generations, recorded |-> session.recorded]
  /\ session.nextId \in Nat
  /\ session.versions \in [Docs -> Nat] /\ session.shown \in [Docs -> Nat]
  /\ session.generations \in [Docs -> Nat] /\ session.recorded \in [Docs -> Nat \cup {None}]

ServerTyped ==
  /\ server = [up |-> server.up, tells |-> server.tells, owed |-> server.owed,
               told |-> server.told, has |-> server.has]
  /\ server.owed \in SUBSET Messages({"answer"})
  /\ server.told \in [Docs -> Nat] /\ server.has \in [Docs -> Nat]

Typed ==
  /\ caller \in Calls /\ SessionTyped /\ ServerTyped
  /\ reader \in [at : {"reading", "count", "record", "reply", "dead"},
                 msg : ToClient \cup {NoMessage}]
  /\ toServer \in Seq(ToServer) /\ toClient \in Seq(ToClient)

IsText(m) == m.kind \in {"open", "change"}

\* A call is about a document, and keeps the version that it counted.
CallKeepsVersion ==
  /\ At(Working \cup {"init", "await-init", "greet", "path"}) => caller.doc \in Docs
  /\ At(Working) => caller.version = session.versions[caller.doc] /\ caller.version >= 1

\* The texts under way are newer than what the server has, in their order, and
\* none is as new as one still to be sent.
TextsInOrder ==
  /\ \A x \in Docs : server.has[x] <= session.versions[x]
  /\ \A i \in 1..Len(toServer) : IsText(toServer[i]) =>
       LET m == toServer[i] IN
       /\ m.doc \in Docs /\ server.has[m.doc] < m.version /\ m.version <= session.versions[m.doc]
       /\ m.kind = "open" <=> m.version = 1
  /\ \A i, j \in 1..Len(toServer) :
       i < j /\ IsText(toServer[i]) /\ IsText(toServer[j]) /\ toServer[i].doc = toServer[j].doc
         => toServer[i].version < toServer[j].version
  /\ At({"notify"}) =>
       /\ server.has[caller.doc] < caller.version
       /\ \A i \in 1..Len(toServer) :
            IsText(toServer[i]) /\ toServer[i].doc = caller.doc
              => toServer[i].version < caller.version

\* A live server is told to open what the session has counted, unless its first
\* text could not be read.
Opened ==
  server.up => \A x \in Docs \ session.unsent : session.versions[x] >= 1 =>
    \/ server.has[x] > 0
    \/ \E i \in 1..Len(toServer) : toServer[i].kind = "open" /\ toServer[i].doc = x
    \/ At({"notify"}) /\ caller.doc = x /\ caller.version = 1

\* The server has the text of the call that makes a request, or will have it.
TextIsSent ==
  At({"request", "await"}) =>
    \/ caller.doc \in session.unsent
    \/ server.has[caller.doc] = caller.version
    \/ \E i \in 1..Len(toServer) :
         IsText(toServer[i]) /\ toServer[i].doc = caller.doc /\ toServer[i].version = caller.version

Own(m) == m.doc = caller.doc /\ (m.version = caller.version \/ caller.doc \in session.unsent)

IdsAreOld ==
  /\ \A i \in 1..Len(toServer) : toServer[i].kind = "request" => toServer[i].id < session.nextId
  /\ \A m \in server.owed : m.id < session.nextId
  /\ \A i \in 1..Len(toClient) : toClient[i].kind = "answer" => toClient[i].id < session.nextId

\* Whatever goes by the id of the request that is waited for is its own.
AwaitedIsOwn ==
  At({"await"}) =>
    /\ caller.id < session.nextId
    /\ \A i \in 1..Len(toServer) :
         toServer[i].kind = "request" /\ toServer[i].id = caller.id =>
           /\ toServer[i].doc = caller.doc
           /\ \A j \in 1..Len(toServer) : i < j => ~IsText(toServer[j])
    /\ \A m \in server.owed : m.id = caller.id => Own(m)
    /\ \A i \in 1..Len(toClient) :
         toClient[i].kind = "answer" /\ toClient[i].id = caller.id => Own(toClient[i])
    /\ Answered => Own(session.pending[caller.id])

\* Publications are of versions that grow, and end up in what is shown.
PublishedInOrder ==
  /\ \A x \in Docs : session.shown[x] <= server.told[x] /\ server.told[x] <= server.has[x]
  /\ \A i \in 1..Len(toClient) : toClient[i].kind = "publish" =>
       LET m == toClient[i] IN
       /\ m.doc \in Docs
       /\ session.shown[m.doc] <= m.version /\ m.version <= server.told[m.doc]
  /\ \A i, j \in 1..Len(toClient) :
       /\ i < j /\ toClient[i].kind = "publish" /\ toClient[j].kind = "publish"
       /\ toClient[i].doc = toClient[j].doc
       => toClient[i].version <= toClient[j].version
  /\ reader.at \in {"count", "record"} =>
       reader.msg.doc \in Docs /\ reader.msg.version = session.shown[reader.msg.doc]

RecordedIsShown ==
  \A x \in Docs : session.recorded[x] # None => session.recorded[x] <= session.shown[x]

\* A server that tells versions: what was recorded once stays recorded.
RecordsStay ==
  server.tells /\ At(Working) /\ caller.before # None =>
    /\ session.recorded[caller.doc] # None
    /\ At({"compare", "report"}) => /\ caller.found # None
                                    /\ caller.found <= session.recorded[caller.doc]
    /\ At({"report"}) => caller.found >= caller.version

Inv == /\ Typed /\ CallKeepsVersion /\ TextsInOrder /\ Opened /\ TextIsSent
       /\ IdsAreOld /\ AwaitedIsOwn
       /\ PublishedInOrder /\ RecordedIsShown /\ RecordsStay
       /\ AnswersAreOwn /\ FreshIsCurrent

-----------------------------------------------------------------------------
(* Types *)

LEMMA NoCallTyped == NoCall \in Calls
BY BridgeAssumption DEF NoCall, Calls, Places, Tools

LEMMA InitInv == Init => Inv
<1> SUFFICES ASSUME Init PROVE Inv
  OBVIOUS
<1>1. SessionTyped
  BY DEF Init, SessionTyped, NoSession
<1>2. Typed
  <2>1. ServerTyped
    BY DEF Init, NewServer, ServerTyped
  <2>2. reader \in [at : {"reading", "count", "record", "reply", "dead"},
                    msg : ToClient \cup {NoMessage}]
    BY DEF Init
  <2>3. toServer \in Seq(ToServer) /\ toClient \in Seq(ToClient)
    BY DEF Init
  <2>4. QED  BY <1>1, <2>1, <2>2, <2>3, NoCallTyped, Zenon DEF Init, Typed
<1>3. caller.at = "idle" /\ told.kind = "nothing" /\ reader.at = "dead"
  BY DEF Init, NoCall, Nothing
<1>4. toServer = <<>> /\ toClient = <<>> /\ ~server.up /\ server.owed = {}
  BY DEF Init, NewServer
<1>5. \A x \in Docs : /\ server.has[x] = 0 /\ server.told[x] = 0
                      /\ session.versions[x] = 0 /\ session.shown[x] = 0 /\ session.recorded[x] = None
  BY DEF Init, NewServer, NoSession
<1>6. QED
  BY <1>2, <1>3, <1>4, <1>5
  DEF Inv, At, Working, CallKeepsVersion, TextsInOrder, Opened, TextIsSent, IdsAreOld,
      AwaitedIsOwn, PublishedInOrder, RecordedIsShown, RecordsStay, AnswersAreOwn, FreshIsCurrent

LEMMA MessageTyped ==
  /\ Note \in ToServer
  /\ \A id \in Nat, x \in Docs \cup {None} : Message("request", id, x, 0) \in ToServer
  /\ \A x \in Docs, v \in Nat, kind \in {"open", "change"} : Message(kind, 0, x, v) \in ToServer
  /\ Message("exit", 0, None, 0) \in ToServer
BY DEF Message, Note, NoMessage, ToServer, Messages

LEMMA SessionStaysTyped ==
  ASSUME SessionTyped, NEW id \in Nat
  PROVE  /\ session' = Pend(session, id) => SessionTyped'
         /\ session' = Forget(session, id) => SessionTyped'
         /\ session' = [session EXCEPT !.installed = TRUE] => SessionTyped'
<1>1. ASSUME session' = Pend(session, id) PROVE SessionTyped'
  <2> DEFINE p == [i \in DOMAIN session.pending \cup {id} |->
                     IF i = id THEN NoMessage ELSE session.pending[i]]
             s == [session EXCEPT !.nextId = id + 1]
  <2>1. session' = [s EXCEPT !.pending = p]
    BY <1>1 DEF Pend
  <2>2. s = [installed |-> session.installed, nextId |-> id + 1,
             pending |-> session.pending, versions |-> session.versions,
             unsent |-> session.unsent, shown |-> session.shown,
             generations |-> session.generations, recorded |-> session.recorded]
    BY DEF SessionTyped
  <2> HIDE DEF p, s
  <2>3. session' = [installed |-> session.installed, nextId |-> id + 1,
                    pending |-> p, versions |-> session.versions,
                    unsent |-> session.unsent, shown |-> session.shown,
                    generations |-> session.generations, recorded |-> session.recorded]
    BY <2>1, <2>2
  <2>4. QED  BY <2>3 DEF SessionTyped
<1>2. ASSUME session' = Forget(session, id) PROVE SessionTyped'
  BY <1>2 DEF SessionTyped, Forget
<1>3. ASSUME session' = [session EXCEPT !.installed = TRUE] PROVE SessionTyped'
  BY <1>3 DEF SessionTyped
<1>4. QED  BY <1>1, <1>2, <1>3

LEMMA NoSessionTyped == session' = NoSession => SessionTyped'
BY DEF SessionTyped, NoSession

LEMMA SentTyped ==
  ASSUME toServer \in Seq(ToServer), NEW m \in ToServer, Sent(m)
  PROVE  toServer' \in Seq(ToServer)
BY DEF Sent

LEMMA TypedServe ==
  ASSUME Typed, CallKeepsVersion,
         Serve \/ Deadline \/ EndOfInput \/ \E tool \in Tools, x \in Docs : Call(tool, x)
  PROVE  Typed'
<1>0. /\ caller \in Calls /\ SessionTyped /\ ServerTyped
      /\ toServer \in Seq(ToServer) /\ toClient \in Seq(ToClient)
      /\ reader \in [at : {"reading", "count", "record", "reply", "dead"},
                     msg : ToClient \cup {NoMessage}]
  BY DEF Typed
<1> DEFINE Rest == UNCHANGED <<reader, toClient, server>>
<1>1. ASSUME Rest, caller' \in Calls, SessionTyped', toServer' \in Seq(ToServer)
      PROVE  Typed'
  BY <1>0, <1>1 DEF Typed, ServerTyped
<1>2. UNCHANGED session => SessionTyped'
  BY <1>0 DEF SessionTyped
<1>3. \A pc \in Places : [caller EXCEPT !.at = pc] \in Calls
  BY <1>0 DEF Calls
<1>4. ASSUME NEW pc \in Places, Goto(pc) PROVE caller' \in Calls
  BY <1>3, <1>4 DEF Goto
<1>5. ASSUME NEW r, Return(r) PROVE caller' \in Calls
  BY <1>5, NoCallTyped DEF Return
<1>6. session.nextId \in Nat /\ caller.id \in Nat /\ caller.doc \in Docs \cup {None}
      /\ caller.version \in Nat
  BY <1>0 DEF SessionTyped, Calls
<1>7. ASSUME NEW from, NEW wait \in {"await-init", "await"}, Request(from, wait) PROVE Typed'
  <2>1. Rest /\ session' = Pend(session, NewId)
    BY <1>7 DEF Request
  <2>2. SessionTyped'
    BY <1>0, <1>6, <2>1, SessionStaysTyped DEF NewId
  <2>3. CASE /\ Sent(Message("request", NewId, caller.doc, 0))
             /\ caller' = [caller EXCEPT !.at = wait, !.id = NewId]
    <3>1. toServer' \in Seq(ToServer)
      BY <1>0, <1>6, <2>3, MessageTyped, SentTyped DEF NewId
    <3>2. caller' \in Calls
      BY <1>0, <1>6, <2>3 DEF Calls, NewId, Places
    <3>3. QED  BY <1>1, <2>1, <2>2, <3>1, <3>2
  <2>4. CASE Return(Nothing) /\ UNCHANGED toServer
    BY <1>0, <1>1, <1>5, <2>1, <2>2, <2>4
  <2>5. QED  BY <1>7, <2>3, <2>4 DEF Request
<1>8. CASE TimeOut \/ Initialized \/ TakeAnswer
  <2>1. Rest /\ session' = Forget(session, caller.id) /\ UNCHANGED toServer
    BY <1>8 DEF TimeOut, Initialized, TakeAnswer, pipes
  <2>2. SessionTyped'
    BY <1>0, <1>6, <2>1, SessionStaysTyped
  <2>3. caller' \in Calls
    BY <1>4, <1>5, <1>8 DEF TimeOut, Initialized, TakeAnswer, Places
  <2>4. QED  BY <1>0, <1>1, <2>1, <2>2, <2>3
<1>9. CASE Greet
  <2>1. Rest
    BY <1>9 DEF Greet
  <2>2. CASE Sent(Note) /\ session' = [session EXCEPT !.installed = TRUE]
    <3>1. SessionTyped'
      BY <1>0, <1>6, <2>2, SessionStaysTyped
    <3>2. toServer' \in Seq(ToServer)
      BY <1>0, <2>2, MessageTyped, SentTyped
    <3>3. Goto("path") \/ Return(Nothing)
      BY <1>9 DEF Greet
    <3>4. caller' \in Calls
      BY <1>4, <1>5, <3>3 DEF Places
    <3>5. QED  BY <1>1, <2>1, <3>1, <3>2, <3>4
  <2>3. CASE Return(Nothing) /\ UNCHANGED <<session, toServer>>
    BY <1>0, <1>1, <1>2, <1>5, <2>1, <2>3
  <2>4. QED  BY <1>9, <2>2, <2>3 DEF Greet
<1>10. CASE OpenDocument
  <2> DEFINE x == caller.doc
             v == session.versions[x] + 1
  <2>1. Rest /\ UNCHANGED toServer
    BY <1>10 DEF OpenDocument, pipes
  <2>2. x \in Docs
    BY <1>10 DEF OpenDocument, At, CallKeepsVersion
  <2>3. v \in Nat
    BY <1>0, <2>2 DEF SessionTyped
  <2>4. CASE /\ session' = [session EXCEPT !.versions[x] = v]
             /\ caller' = [caller EXCEPT !.at = "notify", !.version = v,
                             !.generation = session.generations[x],
                             !.before = session.recorded[x]]
    <3>1. SessionTyped'
      BY <1>0, <2>2, <2>3, <2>4 DEF SessionTyped
    <3>2. session.generations[x] \in Nat /\ session.recorded[x] \in Nat \cup {None}
      BY <1>0, <2>2 DEF SessionTyped
    <3>3. caller' \in Calls
      BY <1>0, <2>3, <2>4, <3>2 DEF Calls, Places
    <3>4. QED  BY <1>0, <1>1, <2>1, <3>1, <3>3
  <2>5. CASE Return(Nothing) /\ UNCHANGED session
    BY <1>0, <1>1, <1>2, <1>5, <2>1, <2>5
  <2>6. CASE /\ session' = [session EXCEPT !.versions[x] = v,
                              !.unsent = IF v = 1 THEN @ \cup {x} ELSE @]
             /\ Return(Nothing)
    <3>1. SessionTyped'
      <4> DEFINE u == IF v = 1 THEN session.unsent \cup {x} ELSE session.unsent
                 s == [session EXCEPT !.versions[x] = v]
      <4>1. session' = [s EXCEPT !.unsent = u]
        BY <1>0, <2>6 DEF SessionTyped
      <4>2. s = [session EXCEPT !.versions = [session.versions EXCEPT ![x] = v]]
        BY <1>0 DEF SessionTyped
      <4> HIDE DEF u, s
      <4>3. QED  BY <1>0, <2>2, <2>3, <4>1, <4>2 DEF SessionTyped
    <3>2. QED  BY <1>0, <1>1, <1>5, <2>1, <2>6, <3>1
  <2>7. QED  BY <1>10, <2>4, <2>5, <2>6 DEF OpenDocument
<1>11. CASE Notify
  <2>1. Rest /\ UNCHANGED session
    BY <1>11 DEF Notify
  <2>2. caller.doc \in Docs
    BY <1>11 DEF Notify, At, CallKeepsVersion, Working
  <2>3. CASE UNCHANGED toServer /\ Return(Nothing)
    BY <1>0, <1>1, <1>2, <1>5, <2>1, <2>3
  <2>4. CASE /\ \E kind \in {"open", "change"} :
                  Sent(Message(kind, 0, caller.doc, caller.version))
             /\ \E pc \in {"poll", "request"} : Goto(pc)
    <3>1. toServer' \in Seq(ToServer)
      BY <1>0, <1>6, <2>2, <2>4, MessageTyped, SentTyped
    <3>2. caller' \in Calls
      BY <1>4, <2>4 DEF Places
    <3>3. QED  BY <1>0, <1>1, <1>2, <2>1, <3>1, <3>2
  <2>5. QED  BY <1>11, <2>3, <2>4 DEF Notify
<1>12. CASE Poll
  <2>1. session.recorded[caller.doc] \in Nat \cup {None}
    BY <1>0, <1>12 DEF Poll, At, CallKeepsVersion, Working, SessionTyped
  <2>2. caller' \in Calls
    BY <1>0, <1>12, <2>1 DEF Poll, Calls, Places
  <2>3. QED  BY <1>0, <1>1, <1>2, <1>12, <2>2 DEF Poll, pipes
<1>13. CASE Compare \/ Report \/ Deadline \/ EndOfInput \/ Wait
  <2>1. caller' \in Calls
    BY <1>4, <1>5, <1>13 DEF Compare, Report, Deadline, EndOfInput, Wait, Places, Goto, Return
  <2>2. QED  BY <1>0, <1>1, <1>2, <1>13, <2>1 DEF Compare, Report, Deadline, EndOfInput, Wait, pipes
<1>14. CASE Shutdown
  <2>1. Rest /\ session' = Pend(session, NewId)
    BY <1>14 DEF Shutdown
  <2>2. SessionTyped'
    BY <1>0, <1>6, <2>1, SessionStaysTyped DEF NewId
  <2>3. CASE /\ Sent(Message("request", NewId, None, 0))
             /\ caller' = [caller EXCEPT !.at = "await-shutdown", !.id = NewId]
    <3>1. toServer' \in Seq(ToServer)
      BY <1>0, <1>6, <2>3, MessageTyped, SentTyped DEF NewId
    <3>2. caller' \in Calls
      BY <1>0, <1>6, <2>3 DEF Calls, NewId, Places
    <3>3. QED  BY <1>1, <2>1, <2>2, <3>1, <3>2
  <2>4. CASE Goto("kill") /\ UNCHANGED toServer
    BY <1>0, <1>1, <1>4, <2>1, <2>2, <2>4 DEF Places
  <2>5. QED  BY <1>14, <2>3, <2>4 DEF Shutdown
<1>15. CASE ShutdownEnds
  <2>1. SessionTyped'
    BY <1>0, <1>6, <1>15, SessionStaysTyped DEF ShutdownEnds
  <2>2. caller' \in Calls
    BY <1>4, <1>15 DEF ShutdownEnds, Places
  <2>3. QED  BY <1>0, <1>1, <1>15, <2>1, <2>2 DEF ShutdownEnds, pipes
<1>16. CASE Exit
  <2>1. Rest /\ UNCHANGED session
    BY <1>16 DEF Exit
  <2>2. toServer' \in Seq(ToServer)
    BY <1>0, <1>16, MessageTyped, SentTyped DEF Exit
  <2>3. caller' \in Calls
    BY <1>4, <1>16 DEF Exit, Places
  <2>4. QED  BY <1>1, <1>2, <2>1, <2>2, <2>3
<1>17. CASE Kill
  <2>1. ServerTyped'
    BY <1>0, <1>17 DEF Kill, ServerTyped
  <2>2. caller' \in Calls
    BY <1>4, <1>17 DEF Kill, Places
  <2>3. QED  BY <1>0, <1>2, <1>17, <2>1, <2>2 DEF Kill, pipes, Typed
<1>18. ASSUME NEW tool \in Tools, NEW x \in Docs, Call(tool, x) PROVE Typed'
  <2>1. CASE session.installed /\ server.up
    <3>0. \/ caller' = NoCall
          \/ caller' = [NoCall EXCEPT !.at = "path", !.tool = tool, !.doc = x]
      BY <1>18, <2>1, Zenon DEF Call
    <3>1. caller' \in Calls
      BY <3>0, NoCallTyped DEF Calls, Places
    <3>2. QED  BY <1>0, <1>1, <1>2, <1>18, <2>1, <3>1 DEF Call, pipes
  <2>2. CASE ~(session.installed /\ server.up)
    <3>0. caller' = [NoCall EXCEPT !.at = "init", !.tool = tool, !.doc = x]
      BY <1>18, <2>2 DEF Call
    <3>1. caller' \in Calls
      BY <3>0, NoCallTyped DEF Calls, Places
    <3>2. SessionTyped'
      BY <1>18, <2>2, NoSessionTyped DEF Call, NewSession
    <3>3. PICK tells \in BOOLEAN : server' = NewServer(tells)
      BY <1>18, <2>2 DEF Call
    <3>4. ServerTyped'
      BY <3>3 DEF ServerTyped, NewServer
    <3>5. reader' = [at |-> "reading", msg |-> NoMessage] /\ toServer' = <<>> /\ toClient' = <<>>
      BY <1>18, <2>2 DEF Call
    <3>6. QED  BY <3>1, <3>2, <3>4, <3>5 DEF Typed
  <2>3. QED  BY <2>1, <2>2
<1>19. QED
  BY <1>7, <1>8, <1>9, <1>10, <1>11, <1>12, <1>13, <1>14, <1>15, <1>16, <1>17, <1>18
  DEF Serve, Close

LEMMA HeadTyped ==
  ASSUME NEW S, NEW s \in Seq(S), s # <<>>
  PROVE  /\ Head(s) \in S /\ Head(s) = s[1] /\ 1 \in 1..Len(s)
         /\ Tail(s) \in Seq(S) /\ Len(Tail(s)) = Len(s) - 1
         /\ \A i \in 1..Len(Tail(s)) : Tail(s)[i] = s[i + 1] /\ i + 1 \in 1..Len(s)
OBVIOUS

LEMMA AppendTyped ==
  ASSUME NEW S, NEW s \in Seq(S), NEW m \in S
  PROVE  /\ Append(s, m) \in Seq(S) /\ Len(Append(s, m)) = Len(s) + 1 /\ Len(s) \in Nat
         /\ Append(s, m)[Len(s) + 1] = m
         /\ \A i \in 1..Len(s) : Append(s, m)[i] = s[i]
OBVIOUS

LEMMA TypedRead ==
  ASSUME Typed, PublishedInOrder, TextsInOrder, Read \/ Receive \/ Answer \/ Unasked \/ Die
  PROVE  Typed'
<1>0. /\ caller \in Calls /\ SessionTyped /\ ServerTyped
      /\ toServer \in Seq(ToServer) /\ toClient \in Seq(ToClient)
      /\ reader \in [at : {"reading", "count", "record", "reply", "dead"},
                     msg : ToClient \cup {NoMessage}]
  BY DEF Typed
<1>1. UNCHANGED session => SessionTyped'
  BY <1>0 DEF SessionTyped
<1>2. UNCHANGED server => ServerTyped'
  BY <1>0 DEF ServerTyped
<1>3. \A pc \in {"reading", "count", "record", "reply", "dead"}, m \in ToClient \cup {NoMessage} :
        [at |-> pc, msg |-> m] \in [at : {"reading", "count", "record", "reply", "dead"},
                                   msg : ToClient \cup {NoMessage}]
  OBVIOUS
<1>4. CASE TakeMessage
  <2> DEFINE m == Head(toClient)
  <2>0. toClient # <<>> /\ toClient' = Tail(toClient)
        /\ UNCHANGED <<caller, toServer, server>>
    BY <1>4 DEF TakeMessage
  <2>1. /\ m \in ToClient /\ m = toClient[1] /\ 1 \in 1..Len(toClient)
        /\ toClient' \in Seq(ToClient)
    BY <1>0, <2>0, HeadTyped
  <2>2. m.kind \in {"answer", "publish", "ask", "null-answer"} /\ m.version \in Nat
    BY <2>1 DEF ToClient, Messages
  <2>3. CASE m.kind = "answer"
    <3>1. UNCHANGED reader
      BY <1>4, <2>3 DEF TakeMessage
    <3>2. session' = session \/ session' = [session EXCEPT !.pending[m.id] = m]
      BY <1>4, <2>3 DEF TakeMessage
    <3>3. SessionTyped'
      BY <1>0, <3>2 DEF SessionTyped
    <3>4. QED  BY <1>0, <1>2, <2>0, <2>1, <3>1, <3>3 DEF Typed
  <2>4. CASE m.kind = "publish"
    <3>1. m.doc \in Docs
      BY <2>1, <2>4 DEF PublishedInOrder
    <3>2. session' = [session EXCEPT !.shown[m.doc] = m.version]
          /\ reader' = [at |-> "count", msg |-> m]
      BY <1>4, <2>4 DEF TakeMessage
    <3>3. SessionTyped'
      BY <1>0, <2>2, <3>1, <3>2 DEF SessionTyped
    <3>4. QED  BY <1>0, <1>2, <1>3, <2>0, <2>1, <3>2, <3>3 DEF Typed
  <2>5. CASE m.kind \in {"ask", "null-answer"}
    <3>1. UNCHANGED session /\ \E pc \in {"reply", "dead"} : reader' = [at |-> pc, msg |-> NoMessage]
      BY <1>4, <2>5 DEF TakeMessage
    <3>2. QED  BY <1>0, <1>1, <1>2, <1>3, <2>0, <2>1, <3>1 DEF Typed
  <2>6. QED  BY <2>2, <2>3, <2>4, <2>5
<1>5. CASE CountGeneration
  <2>1. reader.msg.doc \in Docs
    BY <1>5 DEF CountGeneration, PublishedInOrder
  <2>2. SessionTyped'
    <3> DEFINE g == [session.generations EXCEPT ![reader.msg.doc] = @ + 1]
    <3>1. g \in [Docs -> Nat]
      BY <1>0, <2>1 DEF SessionTyped
    <3>2. session' = [session EXCEPT !.generations = g]
      BY <1>5 DEF CountGeneration
    <3> HIDE DEF g
    <3>3. QED  BY <1>0, <3>1, <3>2 DEF SessionTyped
  <2>3. reader' = [at |-> "record", msg |-> reader.msg]
    BY <1>0, <1>5 DEF CountGeneration
  <2>4. UNCHANGED <<caller, pipes, server>>
    BY <1>5 DEF CountGeneration
  <2>5. QED  BY <1>0, <1>2, <1>3, <2>2, <2>3, <2>4 DEF Typed, pipes
<1>6. CASE RecordVersion
  <2>1. reader.msg.doc \in Docs /\ reader.msg.version \in Nat
    BY <1>0, <1>6 DEF RecordVersion, PublishedInOrder, SessionTyped
  <2>2. PICK v \in Nat \cup {None} : session' = [session EXCEPT !.recorded[reader.msg.doc] = v]
    BY <1>6, <2>1 DEF RecordVersion
  <2>3. SessionTyped'
    <3> DEFINE r == [session.recorded EXCEPT ![reader.msg.doc] = v]
    <3>1. r \in [Docs -> Nat \cup {None}]
      BY <1>0, <2>1, <2>2 DEF SessionTyped
    <3>2. session' = [session EXCEPT !.recorded = r]
      BY <2>2
    <3> HIDE DEF r
    <3>3. QED  BY <1>0, <3>1, <3>2 DEF SessionTyped
  <2>4. reader' = [at |-> "reading", msg |-> NoMessage] /\ UNCHANGED <<caller, pipes, server>>
    BY <1>6 DEF RecordVersion
  <2>5. QED  BY <1>0, <1>2, <1>3, <2>3, <2>4 DEF Typed, pipes
<1>7. CASE Respond \/ EndOfOutput
  <2>1. /\ UNCHANGED <<caller, session, toClient, server>>
        /\ \E pc \in {"reading", "dead"} : reader' = [at |-> pc, msg |-> NoMessage]
    BY <1>7 DEF Respond, EndOfOutput, pipes
  <2>2. toServer' \in Seq(ToServer)
    BY <1>0, <1>7, MessageTyped, SentTyped DEF Respond, EndOfOutput, pipes
  <2>3. QED  BY <1>0, <1>1, <1>2, <1>3, <2>1, <2>2 DEF Typed
<1>8. CASE Receive
  <2> DEFINE m == Head(toServer)
  <2>0. toServer # <<>> /\ toServer' = Tail(toServer)
        /\ UNCHANGED <<caller, session, reader, toClient>>
    BY <1>8 DEF Receive
  <2>1. /\ m \in ToServer /\ m = toServer[1] /\ 1 \in 1..Len(toServer)
        /\ toServer' \in Seq(ToServer)
    BY <1>0, <2>0, HeadTyped
  <2>2. /\ m.kind \in {"request", "open", "change", "exit", "note"}
        /\ m.id \in Nat /\ m.version \in Nat /\ m.doc \in Docs \cup {None}
    BY <2>1 DEF ToServer, Messages
  <2>3. ASSUME m.kind \in {"open", "change"} PROVE ServerTyped'
    <3>1. m.doc \in Docs
      BY <2>1, <2>3 DEF TextsInOrder, IsText
    <3>2. PICK v \in Nat : server' = [server EXCEPT !.has[m.doc] = v]
      BY <1>0, <1>8, <2>2, <2>3, <3>1 DEF Receive, ServerTyped
    <3> DEFINE h == [server.has EXCEPT ![m.doc] = v]
    <3>3. h \in [Docs -> Nat]
      BY <1>0, <3>1, <3>2 DEF ServerTyped
    <3>4. server' = [server EXCEPT !.has = h]
      BY <3>2
    <3> HIDE DEF h
    <3>5. QED  BY <1>0, <3>3, <3>4 DEF ServerTyped
  <2>4. ASSUME m.kind = "request" PROVE ServerTyped'
    <3>1. PICK v \in Nat : server' = [server EXCEPT !.owed = @ \cup {Message("answer", m.id, m.doc, v)}]
      BY <1>0, <1>8, <2>2, <2>4, BridgeAssumption DEF Receive, ServerTyped
    <3>2. Message("answer", m.id, m.doc, v) \in Messages({"answer"})
      BY <2>2 DEF Message, Messages
    <3>3. QED  BY <1>0, <3>1, <3>2 DEF ServerTyped
  <2>5. ASSUME m.kind = "exit" PROVE ServerTyped'
    BY <1>0, <1>8, <2>5 DEF Receive, ServerTyped
  <2>6. ASSUME m.kind = "note" PROVE ServerTyped'
    BY <1>0, <1>8, <2>6 DEF Receive, ServerTyped
  <2>7. ServerTyped'
    BY <2>2, <2>3, <2>4, <2>5, <2>6
  <2>8. QED  BY <1>0, <1>1, <2>0, <2>1, <2>7 DEF Typed
<1>9. CASE Answer
  <2>1. PICK m \in server.owed : /\ toClient' = Append(toClient, m)
                                 /\ server' = [server EXCEPT !.owed = @ \ {m}]
    BY <1>9 DEF Answer
  <2>2. m \in ToClient
    BY <1>0, <2>1 DEF ServerTyped, Messages, ToClient
  <2>3. ServerTyped'
    BY <1>0, <2>1 DEF ServerTyped
  <2>4. toClient' \in Seq(ToClient)
    BY <1>0, <2>1, <2>2, AppendTyped
  <2>5. QED  BY <1>0, <1>1, <1>9, <2>3, <2>4 DEF Typed, Answer
<1>10. CASE Unasked
  <2>1. UNCHANGED <<caller, session, reader, toServer>>
    BY <1>10 DEF Unasked
  <2>2. CASE \E x \in Docs : \E v \in 1..server.has[x] :
                /\ toClient' = Append(toClient, Message("publish", 0, x, v))
                /\ server' = [server EXCEPT !.told[x] = v]
    <3>1. PICK x \in Docs : \E v \in 1..server.has[x] :
                /\ toClient' = Append(toClient, Message("publish", 0, x, v))
                /\ server' = [server EXCEPT !.told[x] = v]
      BY <2>2
    <3> PICK v \in 1..server.has[x] : /\ toClient' = Append(toClient, Message("publish", 0, x, v))
                                      /\ server' = [server EXCEPT !.told[x] = v]
      BY <3>1
    <3>2. v \in Nat /\ Message("publish", 0, x, v) \in ToClient
      BY <1>0 DEF ServerTyped, Message, Messages, ToClient
    <3>3. ServerTyped'
      BY <1>0, <3>2 DEF ServerTyped
    <3>4. QED  BY <1>0, <1>1, <2>1, <3>2, <3>3, AppendTyped DEF Typed
  <2>3. CASE \E kind \in {"ask", "null-answer"} :
                /\ toClient' = Append(toClient, Message(kind, 0, None, 0)) /\ UNCHANGED server
    <3>1. PICK kind \in {"ask", "null-answer"} :
                /\ toClient' = Append(toClient, Message(kind, 0, None, 0)) /\ UNCHANGED server
      BY <2>3
    <3>2. Message(kind, 0, None, 0) \in ToClient
      BY DEF Message, Messages, ToClient
    <3>3. QED  BY <1>0, <1>1, <1>2, <2>1, <3>1, <3>2, AppendTyped DEF Typed
  <2>4. QED  BY <1>10, <2>2, <2>3 DEF Unasked
<1>11. CASE Die
  <2>1. ServerTyped'
    BY <1>0, <1>11 DEF Die, ServerTyped
  <2>2. QED  BY <1>0, <1>1, <1>11, <2>1 DEF Die, pipes, Typed
<1>12. QED
  BY <1>4, <1>5, <1>6, <1>7, <1>8, <1>9, <1>10, <1>11 DEF Read

-----------------------------------------------------------------------------
(* Steps that send no text, take nothing in and publish nothing *)

\* What is sent, if anything, is no text.
Quiet ==
  /\ UNCHANGED <<session.versions, session.unsent, session.shown, session.recorded, toClient,
                 server.tells, server.owed, server.told, server.has>>
  /\ server'.up => server.up
  /\ reader'.at \in {"count", "record"} =>
       reader.at \in {"count", "record"} /\ reader'.msg = reader.msg
  /\ toServer' = toServer \/ \E m \in ToServer : ~IsText(m) /\ toServer' = Append(toServer, m)

\* A call goes on, or ends, and takes up no new version.
CallGoesOn ==
  /\ caller'.at \in Working \cup {"init", "await-init", "greet", "path"} =>
       /\ caller.at \in Working \cup {"init", "await-init", "greet", "path"}
       /\ caller'.doc = caller.doc
  /\ caller'.at \in Working =>
       /\ caller.at \in Working
       /\ caller'.version = caller.version /\ caller'.before = caller.before
  /\ caller'.at = "notify" <=> caller.at = "notify" /\ caller' = caller
  /\ caller'.at \in {"request", "await"} => caller.at \in {"request", "await"}

LEMMA QueueGrows ==
  ASSUME Typed, Quiet
  PROVE  /\ \A i \in 1..Len(toServer) : i \in 1..Len(toServer') /\ toServer'[i] = toServer[i]
         /\ \A i \in 1..Len(toServer') : i \in 1..Len(toServer) \/ ~IsText(toServer'[i])
<1>1. CASE toServer' = toServer
  BY <1>1
<1>2. CASE \E m \in ToServer : ~IsText(m) /\ toServer' = Append(toServer, m)
  <2>1. PICK m \in ToServer : ~IsText(m) /\ toServer' = Append(toServer, m)
    BY <1>2
  <2>2. toServer \in Seq(ToServer)
    BY DEF Typed
  <2>3. QED  BY <2>1, <2>2, AppendTyped
<1>3. QED  BY <1>1, <1>2 DEF Quiet

LEMMA QuietKeeps ==
  ASSUME Inv, Quiet, CallGoesOn, At({"notify"}) /\ server'.up => caller' = caller
  PROVE  /\ CallKeepsVersion' /\ TextsInOrder' /\ Opened' /\ TextIsSent'
         /\ PublishedInOrder' /\ RecordedIsShown'
<1>1. /\ \A i \in 1..Len(toServer) : i \in 1..Len(toServer') /\ toServer'[i] = toServer[i]
      /\ \A i \in 1..Len(toServer') : i \in 1..Len(toServer) \/ ~IsText(toServer'[i])
  BY QueueGrows DEF Inv
<1>2. \A i \in 1..Len(toServer') : IsText(toServer'[i]) =>
        i \in 1..Len(toServer) /\ toServer'[i] = toServer[i]
  BY <1>1
<1>3. CallKeepsVersion'
  BY DEF Inv, CallKeepsVersion, CallGoesOn, Quiet, At
<1>4. TextsInOrder'
  <2>1. UNCHANGED <<server.has, session.versions>>
    BY DEF Quiet
  <2>2. caller'.at = "notify" => caller.at = "notify" /\ caller' = caller
    BY DEF CallGoesOn
  <2>3. QED  BY <1>2, <2>1, <2>2 DEF Inv, TextsInOrder, At, IsText
<1>5. Opened'
  <2>1. /\ UNCHANGED <<server.has, session.versions, session.unsent>>
        /\ server'.up => server.up
    BY DEF Quiet
  <2>2. QED  BY <1>1, <2>1 DEF Inv, Opened, At
<1>6. TextIsSent'
  <2>1. UNCHANGED <<server.has, session.unsent>>
    BY DEF Quiet
  <2>2. caller'.at \in {"request", "await"} =>
          caller.at \in {"request", "await"} /\ caller'.doc = caller.doc
          /\ caller'.version = caller.version
    BY DEF CallGoesOn, Working
  <2>3. QED  BY <1>1, <2>1, <2>2 DEF Inv, TextIsSent, At, IsText
<1>7. PublishedInOrder'
  BY DEF Inv, PublishedInOrder, Quiet
<1>8. RecordedIsShown'
  BY DEF Inv, RecordedIsShown, Quiet
<1>9. QED  BY <1>3, <1>4, <1>5, <1>6, <1>7, <1>8

\* If such a step sends no request, and the table of those that wait stays what
\* it is as long as the call waits:
LEMMA IdsKeep ==
  ASSUME Inv, Quiet, CallGoesOn, UNCHANGED session.nextId,
         toServer' = toServer \/ \E m \in ToServer : ~IsText(m) /\ m.kind # "request"
                                                     /\ toServer' = Append(toServer, m),
         At({"await"})' => caller' = caller /\ UNCHANGED session.pending
  PROVE  IdsAreOld' /\ AwaitedIsOwn'
<1>1. /\ \A i \in 1..Len(toServer) : i \in 1..Len(toServer') /\ toServer'[i] = toServer[i]
      /\ \A i \in 1..Len(toServer') : i \in 1..Len(toServer) \/ ~IsText(toServer'[i])
  BY QueueGrows DEF Inv
<1>2. \A i \in 1..Len(toServer') :
        i \in 1..Len(toServer) \/ toServer'[i].kind # "request"
  <2>1. CASE toServer' = toServer
    BY <2>1
  <2>2. CASE \E m \in ToServer : ~IsText(m) /\ m.kind # "request"
                                 /\ toServer' = Append(toServer, m)
    <3>1. PICK m \in ToServer : m.kind # "request" /\ toServer' = Append(toServer, m)
      BY <2>2
    <3>2. toServer \in Seq(ToServer)
      BY DEF Inv, Typed
    <3>3. QED  BY <3>1, <3>2, AppendTyped
  <2>3. QED  BY <2>1, <2>2
<1>3. UNCHANGED <<session.nextId, session.unsent, toClient, server.owed>>
  BY DEF Quiet
<1>4. IdsAreOld'
  BY <1>1, <1>2, <1>3 DEF Inv, IdsAreOld
<1>5. ASSUME At({"await"})' PROVE AwaitedIsOwn'
  <2>1. caller' = caller /\ UNCHANGED session.pending /\ At({"await"})
    BY <1>5 DEF At
  <2>2. \A m : Own(m)' = Own(m)
    BY <1>3, <2>1 DEF Own
  <2>3. Answered' = Answered /\ session'.pending[caller'.id] = session.pending[caller.id]
    BY <2>1 DEF Answered
  <2>4. \A i \in 1..Len(toServer') : toServer'[i].kind = "request" =>
          i \in 1..Len(toServer) /\ toServer'[i] = toServer[i]
    BY <1>1, <1>2
  <2>5. \A m \in server.owed : m.id = caller.id => Own(m)'
    BY <2>1, <2>2 DEF Inv, AwaitedIsOwn
  <2>6. \A i \in 1..Len(toClient) :
          toClient[i].kind = "answer" /\ toClient[i].id = caller.id => Own(toClient[i])'
    BY <1>3, <2>1, <2>2 DEF Inv, AwaitedIsOwn
  <2>7. Answered' => Own(session.pending[caller.id])'
    BY <2>1, <2>2, <2>3 DEF Inv, AwaitedIsOwn
  <2>8. \A i \in 1..Len(toServer') :
         toServer'[i].kind = "request" /\ toServer'[i].id = caller.id =>
           /\ toServer'[i].doc = caller.doc
           /\ \A j \in 1..Len(toServer') : i < j => ~IsText(toServer'[j])
    BY <1>1, <2>1, <2>4 DEF Inv, AwaitedIsOwn
  <2>9. QED  BY <1>3, <2>1, <2>5, <2>6, <2>7, <2>8 DEF Inv, AwaitedIsOwn
<1>6. QED  BY <1>4, <1>5 DEF AwaitedIsOwn

\* Records are only forgotten for want of a version.
LEMMA RecordsKeep ==
  ASSUME Inv, CallGoesOn, UNCHANGED server.tells, RecordedIsShown', SessionTyped',
         caller' = caller \/ caller'.at \notin {"compare", "report"},
         \A x \in Docs : server.tells /\ session.recorded[x] # None =>
           session'.recorded[x] # None /\ session'.recorded[x] >= session.recorded[x]
  PROVE  RecordsStay'
<1> SUFFICES ASSUME server.tells, caller'.at \in Working, caller'.before # None
             PROVE  RecordsStay'
  BY DEF RecordsStay, At
<1>1. /\ caller.at \in Working /\ caller'.doc = caller.doc /\ caller'.before = caller.before
      /\ caller.doc \in Docs
  BY DEF CallGoesOn, Inv, CallKeepsVersion, At
<1>2. session.recorded[caller.doc] # None /\ session'.recorded[caller.doc] # None
      /\ session'.recorded[caller.doc] >= session.recorded[caller.doc]
  BY <1>1 DEF Inv, RecordsStay, At
<1>3. session.recorded[caller.doc] \in Nat /\ session'.recorded[caller.doc] \in Nat
      /\ caller.found \in Nat \cup {None}
  BY <1>1, <1>2 DEF Inv, Typed, SessionTyped, Calls
<1>4. CASE caller' = caller
  BY <1>1, <1>2, <1>3, <1>4 DEF Inv, RecordsStay, At
<1>5. CASE caller'.at \notin {"compare", "report"}
  BY <1>1, <1>2, <1>5 DEF RecordsStay, At
<1>6. QED  BY <1>4, <1>5

\* What was returned stays true: until another session begins, documents only
\* join those that the server was not told to open.
LEMMA ToldKeeps ==
  ASSUME Inv,
         \/ told' = Nothing
         \/ UNCHANGED <<told, server.tells>> /\ session.unsent \subseteq session'.unsent
  PROVE  AnswersAreOwn' /\ FreshIsCurrent'
<1>1. CASE told' = Nothing
  BY <1>1 DEF Nothing, AnswersAreOwn, FreshIsCurrent
<1>2. CASE UNCHANGED <<told, server.tells>> /\ session.unsent \subseteq session'.unsent
  BY <1>2 DEF Inv, AnswersAreOwn, FreshIsCurrent
<1>3. QED  BY <1>1, <1>2

-----------------------------------------------------------------------------
(* The serving thread *)

LEMMA SessionFields ==
  ASSUME SessionTyped, NEW id,
         \/ session' = session \/ session' = Pend(session, id) \/ session' = Forget(session, id)
         \/ session' = [session EXCEPT !.installed = TRUE]
  PROVE  /\ UNCHANGED <<session.versions, session.unsent, session.shown, session.recorded>>
         /\ session' # Pend(session, id) => UNCHANGED session.nextId
BY DEF SessionTyped, Pend, Forget

LEMMA CallLeaves ==
  ASSUME Typed,
         \/ \E r : Return(r)
         \/ \E pc \in Places \ (Working \cup {"init", "await-init", "greet", "path"}) : Goto(pc)
  PROVE  CallGoesOn /\ caller'.at \notin Working
<1>1. caller'.at \notin Working \cup {"init", "await-init", "greet", "path"}
  BY DEF Return, Goto, NoCall, Working, Typed, Calls
<1>2. QED  BY <1>1 DEF CallGoesOn, Working

LEMMA CallProceeds ==
  ASSUME Typed, NEW pc \in {"greet", "path"}, Goto(pc), caller.at \in {"await-init", "greet"}
  PROVE  CallGoesOn
<1>1. caller' = [caller EXCEPT !.at = pc] /\ caller'.at = pc /\ caller'.doc = caller.doc
  BY DEF Goto, Typed, Calls
<1>2. QED  BY <1>1 DEF CallGoesOn, Working

\* All of it, for a step that leaves the queues' texts and the requests alone.
LEMMA QuietStep ==
  ASSUME Inv, Typed', Quiet, CallGoesOn, UNCHANGED <<session.nextId, server.tells>>,
         At({"notify"}) /\ server'.up => caller' = caller,
         toServer' = toServer \/ \E m \in ToServer : ~IsText(m) /\ m.kind # "request"
                                                     /\ toServer' = Append(toServer, m),
         At({"await"})' => caller' = caller /\ UNCHANGED session.pending,
         caller' = caller \/ caller'.at \notin {"compare", "report"} \/ RecordsStay',
         told' \in {told, Nothing} \/ (AnswersAreOwn' /\ FreshIsCurrent')
  PROVE  Inv'
<1>1. /\ CallKeepsVersion' /\ TextsInOrder' /\ Opened' /\ TextIsSent'
      /\ PublishedInOrder' /\ RecordedIsShown'
  BY QuietKeeps
<1>2. IdsAreOld' /\ AwaitedIsOwn'
  BY IdsKeep
<1>3. UNCHANGED <<session.recorded, session.unsent>>
  BY DEF Quiet
<1>4. RecordsStay'
  <2>1. ASSUME NEW x \in Docs, session.recorded[x] # None
        PROVE  session'.recorded[x] # None /\ session'.recorded[x] >= session.recorded[x]
    BY <1>3, <2>1 DEF Inv, Typed, SessionTyped
  <2>2. SessionTyped'
    BY DEF Typed
  <2>3. QED  BY <1>1, <2>1, <2>2, RecordsKeep
<1>5. AnswersAreOwn' /\ FreshIsCurrent'
  BY <1>3, ToldKeeps
<1>6. QED  BY <1>1, <1>2, <1>4, <1>5 DEF Inv

LEMMA ServerFields ==
  ASSUME ServerTyped, server' = server \/ server' = [server EXCEPT !.up = FALSE]
  PROVE  /\ UNCHANGED <<server.tells, server.owed, server.told, server.has>>
         /\ server'.up => server.up
BY DEF ServerTyped

\* A call that ends, or looks for its answer or its diagnostics.
LEMMA ServeQuietly ==
  ASSUME Inv, Typed',
         \/ TimeOut \/ Initialized \/ Greet \/ Poll \/ Compare \/ Deadline \/ EndOfInput
         \/ ShutdownEnds \/ Exit \/ Wait \/ Kill \/ TakeAnswer \/ Report
  PROVE  Inv'
<1>0. Typed /\ SessionTyped /\ ServerTyped
  BY DEF Inv, Typed
<1>1. UNCHANGED <<reader, toClient>>
  BY DEF TimeOut, Initialized, Greet, Poll, Compare, Deadline, EndOfInput, ShutdownEnds, Exit,
         Wait, Kill, TakeAnswer, Report, pipes
<1>2. server' = server \/ server' = [server EXCEPT !.up = FALSE]
  BY DEF TimeOut, Initialized, Greet, Poll, Compare, Deadline, EndOfInput, ShutdownEnds, Exit,
         Wait, Kill, TakeAnswer, Report
<1>3. \/ session' = session \/ session' = Forget(session, caller.id)
      \/ session' = [session EXCEPT !.installed = TRUE]
  BY DEF TimeOut, Initialized, Greet, Poll, Compare, Deadline, EndOfInput, ShutdownEnds, Exit,
         Wait, Kill, TakeAnswer, Report
<1>4. \/ toServer' = toServer
      \/ \E m \in ToServer : ~IsText(m) /\ m.kind # "request" /\ toServer' = Append(toServer, m)
  <2>1. toServer' = toServer \/ Sent(Note) \/ Sent(Message("exit", 0, None, 0))
    BY DEF TimeOut, Initialized, Greet, Poll, Compare, Deadline, EndOfInput, ShutdownEnds, Exit,
           Wait, Kill, TakeAnswer, Report, pipes
  <2>2. Note.kind = "note" /\ Message("exit", 0, None, 0).kind = "exit"
    BY DEF Note, NoMessage, Message
  <2>3. QED  BY <2>1, <2>2, MessageTyped DEF Sent, IsText
<1>5. /\ UNCHANGED <<session.versions, session.unsent, session.shown, session.recorded,
                     session.nextId>>
  <2>1. UNCHANGED <<session.versions, session.unsent, session.shown, session.recorded>>
    BY <1>0, <1>3, SessionFields
  <2>2. UNCHANGED session.nextId
    BY <1>0, <1>3 DEF SessionTyped, Forget
  <2>3. QED  BY <2>1, <2>2
<1>6. Quiet
  BY <1>0, <1>1, <1>2, <1>4, <1>5, ServerFields DEF Quiet
<1>7. ASSUME NEW r, Return(r) PROVE CallGoesOn /\ caller'.at \notin Working
  BY <1>0, <1>7, CallLeaves
<1>8. ASSUME NEW pc \in {"shutdown", "gone", "exit", "kill", "wait"}, Goto(pc)
      PROVE  CallGoesOn /\ caller'.at \notin Working
  <2>1. pc \in Places \ (Working \cup {"init", "await-init", "greet", "path"})
    BY DEF Places, Working
  <2>2. QED  BY <1>0, <1>8, <2>1, CallLeaves
<1>9. CASE TimeOut \/ Deadline \/ EndOfInput \/ ShutdownEnds \/ Exit \/ Wait \/ Kill
  <2>1. CallGoesOn /\ caller'.at \notin Working
    BY <1>7, <1>8, <1>9 DEF TimeOut, Deadline, EndOfInput, ShutdownEnds, Exit, Wait, Kill
  <2>2. ~At({"notify"})
    BY <1>9 DEF TimeOut, Deadline, EndOfInput, ShutdownEnds, Exit, Wait, Kill, At
  <2>3. told' \in {told, Nothing}
    BY <1>9 DEF TimeOut, Deadline, EndOfInput, ShutdownEnds, Exit, Wait, Kill, Return
  <2>4. QED
    BY <1>0, <1>2, <1>4, <1>5, <1>6, <2>1, <2>2, <2>3, QuietStep, ServerFields DEF At, Working
<1>10. CASE Initialized \/ Greet
  <2>1. CallGoesOn /\ caller'.at \notin Working
    <3>1. ASSUME NEW pc \in {"greet", "path"}, Goto(pc), caller.at \in {"await-init", "greet"}
          PROVE  CallGoesOn /\ caller'.at \notin Working
      <4>1. caller'.at = pc
        BY <1>0, <3>1 DEF Goto, Typed, Calls
      <4>2. QED  BY <1>0, <3>1, <4>1, CallProceeds DEF Working
    <3>2. QED  BY <1>7, <1>10, <3>1 DEF Initialized, Greet, At
  <2>2. ~At({"notify"})
    BY <1>10 DEF Initialized, Greet, At
  <2>3. told' \in {told, Nothing}
    BY <1>10 DEF Initialized, Greet, Return
  <2>4. QED
    BY <1>0, <1>2, <1>4, <1>5, <1>6, <2>1, <2>2, <2>3, QuietStep, ServerFields DEF At, Working
<1>11. CASE Poll
  <2>1. /\ caller' = [caller EXCEPT !.at = "compare", !.found = session.recorded[caller.doc]]
        /\ UNCHANGED <<session, server, told>> /\ caller.at = "poll"
    BY <1>11 DEF Poll, At
  <2>2. /\ caller'.at = "compare" /\ caller'.found = session.recorded[caller.doc]
        /\ caller'.doc = caller.doc /\ caller'.version = caller.version
        /\ caller'.before = caller.before
    BY <1>0, <2>1 DEF Typed, Calls
  <2>3. CallGoesOn
    BY <2>1, <2>2 DEF CallGoesOn, Working
  <2>4. RecordsStay'
    <3>1. ASSUME server.tells, caller.before # None
          PROVE  /\ session.recorded[caller.doc] # None
                 /\ session.recorded[caller.doc] <= session.recorded[caller.doc]
      <4>1. session.recorded[caller.doc] # None /\ caller.doc \in Docs
        BY <2>1, <3>1 DEF Inv, RecordsStay, CallKeepsVersion, At, Working
      <4>2. QED  BY <1>0, <4>1 DEF SessionTyped
    <3>2. QED  BY <2>1, <2>2, <3>1 DEF RecordsStay, At
  <2>5. QED  BY <1>4, <1>5, <1>6, <2>1, <2>2, <2>3, <2>4, QuietStep DEF At
<1>12. CASE Compare
  <2>1. /\ \E pc \in {"report", "poll"} : Goto(pc)
        /\ Goto("report") => Fresh
        /\ UNCHANGED <<session, server, told>> /\ caller.at = "compare"
    <3>1. [caller EXCEPT !.at = "report"] # [caller EXCEPT !.at = "poll"]
      BY <1>0 DEF Typed, Calls
    <3>2. QED  BY <1>12, <3>1 DEF Compare, At, Goto
  <2>2. PICK pc \in {"report", "poll"} : Goto(pc)
    BY <2>1
  <2>3. /\ caller'.at = pc /\ caller'.found = caller.found
        /\ caller'.doc = caller.doc /\ caller'.version = caller.version
        /\ caller'.before = caller.before
    BY <1>0, <2>2 DEF Typed, Calls, Goto
  <2>4. CallGoesOn
    BY <2>1, <2>3 DEF CallGoesOn, Working
  <2>5. RecordsStay'
    <3>1. pc = "report" => caller.found = None \/ caller.found >= caller.version
      BY <2>1, <2>2 DEF Fresh
    <3>2. QED  BY <2>1, <2>3, <3>1 DEF Inv, RecordsStay, At, Working
  <2>6. QED  BY <1>4, <1>5, <1>6, <2>1, <2>3, <2>4, <2>5, QuietStep DEF At
<1>13. CASE TakeAnswer
  <2> DEFINE a == session.pending[caller.id]
  <2>1. /\ At({"await"}) /\ Answered /\ UNCHANGED server
        /\ Return([kind |-> "answer", call |-> caller, doc |-> a.doc, version |-> a.version])
    BY <1>13 DEF TakeAnswer
  <2>2. Own(a)
    BY <2>1 DEF Inv, AwaitedIsOwn
  <2>3. told'.kind = "answer" /\ told'.doc = a.doc /\ told'.version = a.version
        /\ told'.call = caller
    BY <2>1 DEF Return
  <2>4. AnswersAreOwn' /\ FreshIsCurrent'
    BY <1>5, <2>2, <2>3 DEF AnswersAreOwn, FreshIsCurrent, Own
  <2>5. CallGoesOn /\ caller'.at \notin Working
    BY <1>7, <2>1
  <2>6. QED  BY <1>4, <1>5, <1>6, <2>1, <2>4, <2>5, QuietStep DEF At, Working
<1>14. CASE Report
  <2> DEFINE x == caller.doc
  <2>1. /\ At({"report"}) /\ UNCHANGED <<session, server>>
        /\ Return([kind |-> "report", call |-> caller, doc |-> x, version |-> session.shown[x]])
    BY <1>14 DEF Report
  <2>2. told'.kind = "report" /\ told'.version = session.shown[x] /\ told'.call = caller
    BY <2>1 DEF Return
  <2>3. ASSUME server.tells, caller.before # None PROVE session.shown[x] = caller.version
    <3>1. x \in Docs /\ caller.version = session.versions[x]
      BY <2>1 DEF Inv, CallKeepsVersion, At, Working
    <3>2. /\ session.recorded[x] # None
          /\ caller.found # None /\ caller.found <= session.recorded[x]
          /\ caller.found >= caller.version
      BY <2>1, <2>3 DEF Inv, RecordsStay, At, Working
    <3>3. session.recorded[x] <= session.shown[x]
      BY <3>1, <3>2 DEF Inv, RecordedIsShown
    <3>4. session.shown[x] <= server.told[x] /\ server.told[x] <= server.has[x]
          /\ server.has[x] <= session.versions[x]
      BY <3>1 DEF Inv, PublishedInOrder, TextsInOrder
    <3>5. /\ session.recorded[x] \in Nat /\ session.shown[x] \in Nat /\ server.told[x] \in Nat
          /\ server.has[x] \in Nat /\ caller.version \in Nat /\ caller.found \in Nat
      BY <1>0, <3>1, <3>2 DEF Typed, SessionTyped, ServerTyped, Calls
    <3>6. QED  BY <3>1, <3>2, <3>3, <3>4, <3>5
  <2>4. AnswersAreOwn' /\ FreshIsCurrent'
    BY <2>1, <2>2, <2>3 DEF AnswersAreOwn, FreshIsCurrent
  <2>5. CallGoesOn /\ caller'.at \notin Working
    BY <1>7, <2>1
  <2>6. QED  BY <1>4, <1>5, <1>6, <2>1, <2>4, <2>5, QuietStep DEF At, Working
<1>15. QED  BY <1>9, <1>10, <1>11, <1>12, <1>13, <1>14

\* A request, of a call or of the shutdown, gets an id that nothing has yet.
LEMMA AsksAnew ==
  ASSUME Inv, Typed',
         Request("init", "await-init") \/ Request("request", "await") \/ Shutdown
  PROVE  Inv'
<1> DEFINE m == Message("request", NewId, IF At({"shutdown"}) THEN None ELSE caller.doc, 0)
<1>0. Typed /\ SessionTyped /\ ServerTyped /\ NewId \in Nat /\ toServer \in Seq(ToServer)
  BY DEF Inv, Typed, NewId, SessionTyped
<1>1. /\ UNCHANGED <<reader, toClient, server>> /\ session' = Pend(session, NewId)
      /\ \/ toServer' = toServer /\ caller'.at \notin Working
         \/ toServer' = Append(toServer, m)
      /\ ~At({"notify"}) /\ told' \in {told, Nothing}
  <2>1. CASE Request("init", "await-init") \/ Request("request", "await")
    <3>1. caller.at \in {"init", "request"}
      BY <2>1 DEF Request, At
    <3>2. \/ toServer' = Append(toServer, Message("request", NewId, caller.doc, 0)) /\ UNCHANGED told
          \/ toServer' = toServer /\ Return(Nothing)
      BY <2>1 DEF Request, Sent
    <3>3. Return(Nothing) => caller'.at \notin Working /\ told' = Nothing
      BY DEF Return, NoCall, Working
    <3>4. QED  BY <2>1, <3>1, <3>2, <3>3 DEF Request, At
  <2>2. CASE Shutdown
    <3>1. Goto("kill") => caller'.at \notin Working
      BY <1>0 DEF Goto, Typed, Calls, Working
    <3>2. QED  BY <2>2, <3>1 DEF Shutdown, At, Sent
  <2>3. QED  BY <2>1, <2>2
<1>2. /\ caller'.at \in Working =>
           /\ caller.at = "request" /\ caller'.at = "await" /\ caller'.id = NewId
           /\ caller'.doc = caller.doc /\ caller'.version = caller.version
           /\ caller'.before = caller.before
      /\ caller'.at \notin {"init", "greet", "path", "notify"}
      /\ caller'.at = "await-init" => caller.at = "init" /\ caller'.doc = caller.doc
  <2>1. \/ /\ caller.at = "init" /\ caller' = [caller EXCEPT !.at = "await-init", !.id = NewId]
        \/ /\ caller.at = "request" /\ caller' = [caller EXCEPT !.at = "await", !.id = NewId]
        \/ caller' = [caller EXCEPT !.at = "await-shutdown", !.id = NewId]
        \/ caller' = [caller EXCEPT !.at = "kill"]
        \/ caller' = NoCall
    BY DEF Request, Shutdown, Return, Goto, At
  <2>2. caller \in Calls
    BY <1>0 DEF Typed
  <2>3. CASE caller' = NoCall \/ caller' = [caller EXCEPT !.at = "kill"]
    BY <2>2, <2>3 DEF NoCall, Calls, Working
  <2>4. ASSUME NEW pc, caller' = [caller EXCEPT !.at = pc, !.id = NewId]
        PROVE  /\ caller'.at = pc /\ caller'.id = NewId
               /\ caller'.doc = caller.doc /\ caller'.version = caller.version
               /\ caller'.before = caller.before
    BY <2>2, <2>4 DEF Calls
  <2>5. QED  BY <2>1, <2>3, <2>4 DEF Working
<1>3. /\ m.kind = "request" /\ m.id = NewId /\ ~IsText(m) /\ m \in ToServer
      /\ ~At({"shutdown"}) => m.doc = caller.doc
  <2>1. caller.doc \in Docs \cup {None}
    BY <1>0 DEF Typed, Calls
  <2>2. m \in ToServer
    BY <1>0, <2>1, MessageTyped
  <2>3. QED  BY <2>2 DEF Message, IsText
<1>4. /\ UNCHANGED <<session.versions, session.unsent, session.shown, session.recorded>>
      /\ session'.nextId = NewId + 1
      /\ session'.pending[NewId] = NoMessage
  <2>1. UNCHANGED <<session.versions, session.unsent, session.shown, session.recorded>>
    BY <1>0, <1>1, SessionFields
  <2> DEFINE p == [i \in DOMAIN session.pending \cup {NewId} |->
                     IF i = NewId THEN NoMessage ELSE session.pending[i]]
  <2>2. session'.nextId = NewId + 1 /\ session'.pending = p
    BY <1>0, <1>1 DEF Pend, SessionTyped
  <2>3. QED  BY <2>1, <2>2
<1>5. Quiet
  BY <1>0, <1>1, <1>3, <1>4 DEF Quiet
<1>6. CallGoesOn
  BY <1>1, <1>2 DEF CallGoesOn, At, Working
<1>7. /\ CallKeepsVersion' /\ TextsInOrder' /\ Opened' /\ TextIsSent'
      /\ PublishedInOrder' /\ RecordedIsShown'
  BY <1>1, <1>5, <1>6, QuietKeeps
<1>8. RecordsStay'
  <2>1. ASSUME NEW x \in Docs, session.recorded[x] # None
        PROVE  session'.recorded[x] # None /\ session'.recorded[x] >= session.recorded[x]
    BY <1>0, <1>4, <2>1 DEF SessionTyped
  <2>2. SessionTyped'
    BY DEF Typed
  <2>3. caller'.at \notin {"compare", "report"}
    BY <1>2 DEF Working
  <2>4. QED  BY <1>1, <1>6, <1>7, <2>1, <2>2, <2>3, RecordsKeep
<1>9. AnswersAreOwn' /\ FreshIsCurrent'
  BY <1>1, <1>4, ToldKeeps
<1>10. /\ \A i \in 1..Len(toServer') : \/ i \in 1..Len(toServer) /\ toServer'[i] = toServer[i]
                                       \/ i = Len(toServer') /\ toServer'[i] = m
  <2>1. CASE toServer' = toServer
    BY <2>1
  <2>2. CASE toServer' = Append(toServer, m)
    BY <1>0, <1>3, <2>2, AppendTyped
  <2>3. QED  BY <1>1, <2>1, <2>2
<1>11. IdsAreOld'
  <2>1. \A i \in 1..Len(toServer) : toServer[i].id \in Nat
    <3>1. \A k \in ToServer : k.id \in Nat
      BY DEF ToServer, Messages
    <3>2. QED  BY <1>0, <3>1
  <2>2. \A i \in 1..Len(toClient) : toClient[i].id \in Nat
    <3>1. \A k \in ToClient : k.id \in Nat
      BY DEF ToClient, Messages
    <3>2. QED  BY <3>1 DEF Inv, Typed
  <2>3. \A k \in server.owed : k.id \in Nat
    BY <1>0 DEF ServerTyped, Messages
  <2>4. NewId = session.nextId
    BY DEF NewId
  <2>5. ASSUME NEW i \in 1..Len(toServer'), toServer'[i].kind = "request"
        PROVE  toServer'[i].id < session'.nextId
    BY <1>0, <1>3, <1>4, <1>10, <2>1, <2>4, <2>5 DEF Inv, IdsAreOld
  <2>6. QED  BY <1>0, <1>1, <1>4, <2>2, <2>3, <2>4, <2>5 DEF Inv, IdsAreOld
<1>12. AwaitedIsOwn'
  <2>1. SUFFICES ASSUME At({"await"})' PROVE AwaitedIsOwn'
    BY DEF AwaitedIsOwn
  <2>2. caller.at = "request" /\ caller'.id = NewId /\ caller'.doc = caller.doc
    BY <1>2, <2>1 DEF At, Working
  <2>3. NewId = session.nextId /\ ~At({"shutdown"})
    BY <2>2 DEF NewId, At
  <2>4. ~Answered'
    BY <1>4, <2>2 DEF Answered
  <2>5. ASSUME NEW i \in 1..Len(toServer'),
               toServer'[i].kind = "request", toServer'[i].id = caller'.id
        PROVE  /\ toServer'[i].doc = caller'.doc
               /\ \A j \in 1..Len(toServer') : i < j => ~IsText(toServer'[j])
    <3>1. ~(i \in 1..Len(toServer) /\ toServer'[i] = toServer[i])
      BY <1>0, <2>2, <2>3, <2>5 DEF Inv, IdsAreOld
    <3>2. i = Len(toServer') /\ toServer'[i] = m
      BY <1>10, <3>1
    <3>3. QED  BY <1>3, <2>2, <2>3, <3>2
  <2>6. \A k \in server.owed : k.id # NewId
    BY <1>0, <2>3 DEF Inv, IdsAreOld
  <2>7. \A i \in 1..Len(toClient) : toClient[i].kind = "answer" => toClient[i].id # NewId
    BY <1>0, <2>3 DEF Inv, IdsAreOld
  <2>8. caller'.id < session'.nextId
    BY <1>0, <1>4, <2>2
  <2>9. QED  BY <1>1, <2>2, <2>4, <2>5, <2>6, <2>7, <2>8 DEF AwaitedIsOwn
<1>13. QED  BY <1>7, <1>8, <1>9, <1>11, <1>12 DEF Inv

\* The versions and the documents that open_document counts.
LEMMA CountsAnew ==
  ASSUME Inv, Typed', OpenDocument
  PROVE  Inv'
<1> DEFINE x == caller.doc
           v == session.versions[x] + 1
<1>0. /\ Typed /\ SessionTyped /\ ServerTyped
      /\ caller.at = "path" /\ UNCHANGED <<reader, toServer, toClient, server>>
      /\ x \in Docs
  BY DEF Inv, Typed, OpenDocument, pipes, At, CallKeepsVersion
<1>1. CASE Return(Nothing) /\ UNCHANGED session
  <2>1. CallGoesOn /\ caller'.at \notin Working
    BY <1>0, <1>1, CallLeaves
  <2>2. Quiet
    BY <1>0, <1>1 DEF Quiet
  <2>3. told' = Nothing
    BY <1>1 DEF Return
  <2>4. QED  BY <1>0, <1>1, <2>1, <2>2, <2>3, QuietStep DEF At, Working
<1>2. ASSUME \/ /\ session' = [session EXCEPT !.versions[x] = v]
                /\ caller' = [caller EXCEPT !.at = "notify", !.version = v,
                                !.generation = session.generations[x],
                                !.before = session.recorded[x]]
                /\ UNCHANGED told
             \/ /\ session' = [session EXCEPT !.versions[x] = v,
                                 !.unsent = IF v = 1 THEN @ \cup {x} ELSE @]
                /\ Return(Nothing)
      PROVE  Inv'
  <2>1. /\ UNCHANGED <<session.nextId, session.shown, session.recorded, session.pending>>
        /\ session'.versions = [session.versions EXCEPT ![x] = v]
        /\ session.unsent \subseteq session'.unsent
        /\ session'.unsent # session.unsent => caller'.at # "notify"
        /\ caller'.at # "notify" /\ v = 1 => x \in session'.unsent
    <3> DEFINE u == IF v = 1 THEN session.unsent \cup {x} ELSE session.unsent
               s == [session EXCEPT !.versions[x] = v]
    <3>1. /\ s.nextId = session.nextId /\ s.shown = session.shown /\ s.recorded = session.recorded
          /\ s.pending = session.pending /\ s.unsent = session.unsent
          /\ s.versions = [session.versions EXCEPT ![x] = v]
          /\ DOMAIN s = DOMAIN session
      BY <1>0 DEF SessionTyped
    <3>2. CASE /\ session' = s
               /\ caller' = [caller EXCEPT !.at = "notify", !.version = v,
                               !.generation = session.generations[x],
                               !.before = session.recorded[x]]
      <4>1. caller'.at = "notify"
        BY <1>0, <3>2 DEF Typed, Calls
      <4> HIDE DEF s
      <4>2. QED  BY <3>1, <3>2, <4>1
    <3>3. CASE session' = [s EXCEPT !.unsent = u] /\ Return(Nothing)
      <4>1. caller'.at = "idle"
        BY <3>3 DEF Return, NoCall
      <4>2. s = [installed |-> session.installed, nextId |-> session.nextId,
                 pending |-> session.pending,
                 versions |-> [session.versions EXCEPT ![x] = v],
                 unsent |-> session.unsent, shown |-> session.shown,
                 generations |-> session.generations, recorded |-> session.recorded]
        BY <1>0 DEF SessionTyped
      <4>3. session.unsent \subseteq u /\ (v = 1 => x \in u)
        OBVIOUS
      <4> HIDE DEF s, u, v
      <4>4. session' = [installed |-> session.installed, nextId |-> session.nextId,
                        pending |-> session.pending,
                        versions |-> [session.versions EXCEPT ![x] = v],
                        unsent |-> u, shown |-> session.shown,
                        generations |-> session.generations, recorded |-> session.recorded]
        BY <3>3, <4>2
      <4>5. QED  BY <4>1, <4>3, <4>4
    <3>4. [session EXCEPT !.versions[x] = v, !.unsent = IF v = 1 THEN @ \cup {x} ELSE @]
            = [s EXCEPT !.unsent = u]
      BY <3>1
    <3>5. QED  BY <1>2, <3>2, <3>3, <3>4
  <2>2. /\ caller'.at \in {"notify", "idle"}
        /\ caller'.at = "notify" => /\ caller'.doc = x /\ caller'.version = v
                                    /\ caller'.before = session.recorded[x]
        /\ told' \in {told, Nothing}
    <3>1. CASE /\ caller' = [caller EXCEPT !.at = "notify", !.version = v,
                              !.generation = session.generations[x],
                              !.before = session.recorded[x]]
               /\ UNCHANGED told
      <4> HIDE DEF v
      <4>1. caller \in Calls
        BY <1>0 DEF Typed
      <4>2. QED  BY <3>1, <4>1 DEF Calls
    <3>2. CASE Return(Nothing)
      BY <3>2 DEF Return, NoCall
    <3>3. QED  BY <1>2, <3>1, <3>2
  <2>3. /\ session'.versions[x] = v /\ v \in Nat /\ v >= 1
        /\ session.versions[x] \in Nat /\ session.versions[x] < v
        /\ \A y \in Docs : y # x => session'.versions[y] = session.versions[y]
        /\ \A y \in Docs : /\ session.versions[y] \in Nat /\ server.has[y] \in Nat
                           /\ session.versions[y] <= session'.versions[y]
                           /\ session'.versions[y] \in Nat
    BY <1>0, <2>1 DEF SessionTyped, ServerTyped
  <2>4. CallKeepsVersion'
    BY <1>0, <2>2, <2>3 DEF CallKeepsVersion, At, Working
  <2>5. TextsInOrder'
    <3>1. \A i \in 1..Len(toServer) : toServer[i].version \in Nat
      <4>1. \A k \in ToServer : k.version \in Nat
        BY DEF ToServer, Messages
      <4>2. QED  BY <1>0, <4>1 DEF Typed
    <3> HIDE DEF v
    <3>2. \A y \in Docs : server.has[y] <= session'.versions[y]
      BY <2>3 DEF Inv, TextsInOrder
    <3>3. ASSUME NEW i \in 1..Len(toServer), IsText(toServer[i])
          PROVE  /\ toServer[i].doc \in Docs
                 /\ server.has[toServer[i].doc] < toServer[i].version
                 /\ toServer[i].version <= session'.versions[toServer[i].doc]
                 /\ toServer[i].kind = "open" <=> toServer[i].version = 1
                 /\ toServer[i].doc = x => toServer[i].version < v
      <4>1. /\ toServer[i].doc \in Docs
            /\ server.has[toServer[i].doc] < toServer[i].version
            /\ toServer[i].version <= session.versions[toServer[i].doc]
            /\ toServer[i].kind = "open" <=> toServer[i].version = 1
        BY <3>3 DEF Inv, TextsInOrder
      <4>2. QED  BY <2>3, <3>1, <4>1
    <3>4. server.has[x] < v
      BY <1>0, <2>3 DEF Inv, TextsInOrder
    <3>5. \A i, j \in 1..Len(toServer) :
            i < j /\ IsText(toServer[i]) /\ IsText(toServer[j]) /\ toServer[i].doc = toServer[j].doc
              => toServer[i].version < toServer[j].version
      BY DEF Inv, TextsInOrder
    <3>6. QED  BY <1>0, <2>2, <3>2, <3>3, <3>4, <3>5 DEF TextsInOrder, At
  <2>6. Opened'
    <3> HIDE DEF v
    <3> SUFFICES ASSUME server.up, NEW y \in Docs \ session'.unsent, session'.versions[y] >= 1
                 PROVE  \/ server.has[y] > 0
                        \/ \E i \in 1..Len(toServer) : toServer[i].kind = "open" /\ toServer[i].doc = y
                        \/ caller'.at = "notify" /\ caller'.doc = y /\ caller'.version = 1
      BY <1>0 DEF Opened, At
    <3>1. CASE session.versions[y] >= 1
      BY <1>0, <2>1, <3>1 DEF Inv, Opened, At
    <3>2. CASE ~(session.versions[y] >= 1)
      <4>1. y = x /\ v = 1
        BY <2>3, <3>2 DEF v
      <4>2. caller'.at = "notify"
        BY <2>1, <4>1
      <4>3. QED  BY <2>2, <4>1, <4>2
    <3>3. QED  BY <3>1, <3>2
  <2>7. TextIsSent' /\ AwaitedIsOwn'
    BY <2>2 DEF TextIsSent, AwaitedIsOwn, At
  <2>8. IdsAreOld'
    BY <1>0, <2>1 DEF Inv, IdsAreOld
  <2>9. PublishedInOrder' /\ RecordedIsShown'
    BY <1>0, <2>1 DEF Inv, PublishedInOrder, RecordedIsShown
  <2>10. RecordsStay'
    <3> SUFFICES ASSUME caller'.at \in Working, caller'.before # None PROVE RecordsStay'
      BY DEF RecordsStay, At
    <3>1. caller'.at = "notify"
      BY <2>2 DEF Working
    <3>2. session'.recorded[caller'.doc] # None
      BY <2>1, <2>2, <3>1
    <3>3. QED  BY <3>1, <3>2 DEF RecordsStay, At
  <2>11. AnswersAreOwn' /\ FreshIsCurrent'
    BY <1>0, <2>1, <2>2, ToldKeeps
  <2>12. QED
    BY <2>4, <2>5, <2>6, <2>7, <2>8, <2>9, <2>10, <2>11 DEF Inv
<1>3. QED  BY <1>1, <1>2 DEF OpenDocument

\* The text goes out last, and is the newest that the session has counted.
LEMMA SendsText ==
  ASSUME Inv, Typed', Notify
  PROVE  Inv'
<1> DEFINE x == caller.doc
           m == Message(IF caller.version = 1 THEN "open" ELSE "change", 0, x, caller.version)
<1>0. /\ Typed /\ SessionTyped /\ ServerTyped /\ caller \in Calls
      /\ toServer \in Seq(ToServer) /\ toServer' \in Seq(ToServer)
      /\ caller.at = "notify" /\ UNCHANGED <<session, reader, toClient, server>>
  BY DEF Inv, Typed, Notify, At
<1>1. /\ x \in Docs /\ caller.version = session.versions[x] /\ caller.version >= 1
      /\ caller.version \in Nat
  BY <1>0 DEF Inv, CallKeepsVersion, At, Working, Calls
<1>2. CASE SendFails /\ Return(Nothing) /\ UNCHANGED toServer
  <2>1. CallGoesOn /\ caller'.at \notin Working
    BY <1>0, <1>2, CallLeaves
  <2>2. Quiet
    BY <1>0, <1>2 DEF Quiet
  <2>3. told' = Nothing /\ ~server'.up
    BY <1>0, <1>2 DEF Return, SendFails
  <2>4. QED  BY <1>0, <1>2, <2>1, <2>2, <2>3, QuietStep DEF At, Working
<1>3. ASSUME Sent(m), NEW pc \in {"poll", "request"}, Goto(pc), UNCHANGED told
      PROVE  Inv'
  <2>1. /\ caller'.at = pc /\ caller'.doc = x /\ caller'.version = caller.version
        /\ caller'.before = caller.before
    BY <1>0, <1>3 DEF Goto, Calls
  <2>2. /\ m.doc = x /\ m.version = caller.version /\ IsText(m) /\ m \in ToServer
        /\ m.kind = "open" <=> caller.version = 1
    <3>1. m \in ToServer
      BY <1>1, MessageTyped
    <3>2. QED  BY <3>1 DEF Message, IsText
  <2> HIDE DEF m
  <2>3. /\ toServer' = Append(toServer, m) /\ Len(toServer) \in Nat
        /\ Len(toServer') = Len(toServer) + 1 /\ toServer'[Len(toServer')] = m
        /\ \A i \in 1..Len(toServer) : i \in 1..Len(toServer') /\ toServer'[i] = toServer[i]
        /\ \A i \in 1..Len(toServer') : i \in 1..Len(toServer) \/ i = Len(toServer')
        /\ \A i \in 1..Len(toServer') : i < Len(toServer') => i \in 1..Len(toServer)
        /\ Len(toServer') \in 1..Len(toServer')
    BY <1>0, <1>3, <2>2, AppendTyped DEF Sent
  <2>4. CallKeepsVersion'
    BY <1>0, <1>1, <2>1 DEF CallKeepsVersion, At
  <2>5. TextsInOrder'
    <3>1. ASSUME NEW i \in 1..Len(toServer), IsText(toServer[i])
          PROVE  /\ toServer[i].doc \in Docs
                 /\ server.has[toServer[i].doc] < toServer[i].version
                 /\ toServer[i].version <= session.versions[toServer[i].doc]
                 /\ toServer[i].kind = "open" <=> toServer[i].version = 1
                 /\ toServer[i].doc = x => toServer[i].version < m.version
      BY <1>0, <2>2, <3>1 DEF Inv, TextsInOrder, At
    <3>2. /\ m.doc \in Docs /\ server.has[m.doc] < m.version
          /\ m.version <= session.versions[m.doc] /\ (m.kind = "open" <=> m.version = 1)
      BY <1>0, <1>1, <2>2 DEF Inv, TextsInOrder, At
    <3>3. ASSUME NEW i \in 1..Len(toServer'), NEW j \in 1..Len(toServer'), i < j,
                 IsText(toServer'[i]), IsText(toServer'[j]), toServer'[i].doc = toServer'[j].doc
          PROVE  toServer'[i].version < toServer'[j].version
      <4>1. i \in 1..Len(toServer) /\ toServer'[i] = toServer[i]
        BY <2>3, <3>3
      <4>2. CASE j \in 1..Len(toServer)
        BY <2>3, <3>3, <4>1, <4>2 DEF Inv, TextsInOrder
      <4>3. CASE j = Len(toServer')
        BY <2>2, <2>3, <3>1, <3>3, <4>1, <4>3
      <4>4. QED  BY <2>3, <4>2, <4>3
    <3>4. \A y \in Docs : server.has[y] <= session.versions[y]
      BY DEF Inv, TextsInOrder
    <3>5. \A i \in 1..Len(toServer') : IsText(toServer'[i]) =>
            /\ toServer'[i].doc \in Docs
            /\ server.has[toServer'[i].doc] < toServer'[i].version
            /\ toServer'[i].version <= session.versions[toServer'[i].doc]
            /\ toServer'[i].kind = "open" <=> toServer'[i].version = 1
      BY <2>3, <3>1, <3>2
    <3>6. QED  BY <1>0, <2>1, <3>3, <3>4, <3>5 DEF TextsInOrder, At
  <2>6. Opened'
    BY <1>0, <2>2, <2>3 DEF Inv, Opened, At
  <2>7. TextIsSent'
    BY <2>1, <2>2, <2>3 DEF TextIsSent, At
  <2>8. IdsAreOld'
    BY <1>0, <2>2, <2>3 DEF Inv, IdsAreOld, IsText
  <2>9. AwaitedIsOwn'
    BY <2>1 DEF AwaitedIsOwn, At
  <2>10. PublishedInOrder' /\ RecordedIsShown'
    BY <1>0 DEF Inv, PublishedInOrder, RecordedIsShown
  <2>11. RecordsStay'
    BY <1>0, <2>1 DEF Inv, RecordsStay, At, Working
  <2>12. AnswersAreOwn' /\ FreshIsCurrent'
    BY <1>0, <1>3, ToldKeeps
  <2>13. QED
    BY <2>4, <2>5, <2>6, <2>7, <2>8, <2>9, <2>10, <2>11, <2>12 DEF Inv
<1>4. QED  BY <1>2, <1>3 DEF Notify

\* A new session and a new server know nothing.
LEMMA Begins ==
  ASSUME Inv, Typed', NEW tool \in Tools, NEW x \in Docs, Call(tool, x)
  PROVE  Inv'
<1>0. Typed /\ caller.at = "idle" /\ told' = Nothing
  BY DEF Inv, Call, At
<1>1. AnswersAreOwn' /\ FreshIsCurrent'
  BY <1>0, ToldKeeps
<1>2. CASE session.installed /\ server.up
  <2>1. /\ UNCHANGED <<session, reader, toServer, toClient, server>>
        /\ caller'.at \in {"idle", "path"} /\ (caller'.at = "path" => caller'.doc = x)
    <3>1. UNCHANGED <<session, reader, toServer, toClient, server>>
      BY <1>2 DEF Call, pipes
    <3>2. \/ caller' = NoCall
          \/ caller' = [NoCall EXCEPT !.at = "path", !.tool = tool, !.doc = x]
      BY <1>2, Zenon DEF Call
    <3>3. caller' = NoCall => caller'.at = "idle"
      BY DEF NoCall
    <3>4. caller' = [NoCall EXCEPT !.at = "path", !.tool = tool, !.doc = x]
            => caller'.at = "path" /\ caller'.doc = x
      BY DEF NoCall
    <3>5. QED  BY <3>1, <3>2, <3>3, <3>4
  <2>2. CallKeepsVersion'
    BY <2>1 DEF CallKeepsVersion, At, Working
  <2>3. TextsInOrder'
    BY <2>1 DEF Inv, TextsInOrder, At
  <2>4. Opened'
    BY <1>0, <2>1 DEF Inv, Opened, At
  <2>5. TextIsSent' /\ AwaitedIsOwn' /\ RecordsStay'
    BY <2>1 DEF TextIsSent, AwaitedIsOwn, RecordsStay, At, Working
  <2>6. IdsAreOld'
    BY <2>1 DEF Inv, IdsAreOld
  <2>7. PublishedInOrder' /\ RecordedIsShown'
    BY <2>1 DEF Inv, PublishedInOrder, RecordedIsShown
  <2>8. QED  BY <1>1, <2>2, <2>3, <2>4, <2>5, <2>6, <2>7 DEF Inv
<1>3. CASE ~(session.installed /\ server.up)
  <2>1. /\ session' = NoSession /\ toServer' = <<>> /\ toClient' = <<>>
        /\ reader' = [at |-> "reading", msg |-> NoMessage]
        /\ \E tells \in BOOLEAN : server' = NewServer(tells)
        /\ caller' = [NoCall EXCEPT !.at = "init", !.tool = tool, !.doc = x]
    BY <1>3 DEF Call, NewSession
  <2>2. caller'.at = "init" /\ caller'.doc = x
    BY <2>1 DEF NoCall
  <2>3. /\ server'.owed = {} /\ reader'.at = "reading"
        /\ \A y \in Docs : /\ server'.has[y] = 0 /\ server'.told[y] = 0
                           /\ session'.versions[y] = 0 /\ session'.shown[y] = 0
                           /\ session'.recorded[y] = None
    BY <2>1 DEF NewServer, NoSession
  <2>4. QED
    BY <1>1, <2>1, <2>2, <2>3
    DEF Inv, At, Working, CallKeepsVersion, TextsInOrder, Opened, TextIsSent, IdsAreOld,
        AwaitedIsOwn, PublishedInOrder, RecordedIsShown, RecordsStay
<1>4. QED  BY <1>2, <1>3

-----------------------------------------------------------------------------
(* The reader thread *)

LEMMA CallStays ==
  UNCHANGED caller => CallGoesOn
BY DEF CallGoesOn, Working

\* Steps that count a publication, reply to the server, or see the end of it.
LEMMA ReadsQuietly ==
  ASSUME Inv, Typed', CountGeneration \/ Respond \/ EndOfOutput \/ Die
  PROVE  Inv'
<1>0. Typed /\ SessionTyped /\ ServerTyped
  BY DEF Inv, Typed
<1>1. UNCHANGED <<caller, toClient, told>>
  BY DEF CountGeneration, Respond, EndOfOutput, Die, pipes
<1>2. /\ UNCHANGED <<session.versions, session.unsent, session.shown, session.recorded,
                     session.nextId, session.pending>>
  <2>1. CASE CountGeneration
    <3> DEFINE g == [session.generations EXCEPT ![reader.msg.doc] = @ + 1]
    <3>1. session' = [session EXCEPT !.generations = g]
      BY <2>1 DEF CountGeneration
    <3> HIDE DEF g
    <3>2. QED  BY <1>0, <3>1 DEF SessionTyped
  <2>2. CASE Respond \/ EndOfOutput \/ Die
    BY <2>2 DEF Respond, EndOfOutput, Die
  <2>3. QED  BY <2>1, <2>2
<1>3. /\ UNCHANGED <<server.tells, server.owed, server.told, server.has>>
      /\ server'.up => server.up
  <2>1. server' = server \/ server' = [server EXCEPT !.up = FALSE]
    BY DEF CountGeneration, Respond, EndOfOutput, Die
  <2>2. QED  BY <1>0, <2>1, ServerFields
<1>4. \/ toServer' = toServer
      \/ \E m \in ToServer : ~IsText(m) /\ m.kind # "request" /\ toServer' = Append(toServer, m)
  <2>1. toServer' = toServer \/ Sent(Note)
    BY DEF CountGeneration, Respond, EndOfOutput, Die, pipes
  <2>2. Note.kind = "note"
    BY DEF Note, NoMessage, Message
  <2>3. QED  BY <2>1, <2>2, MessageTyped DEF Sent, IsText
<1>5. reader'.at \in {"count", "record"} =>
        reader.at \in {"count", "record"} /\ reader'.msg = reader.msg
  <2>1. reader \in [at : {"reading", "count", "record", "reply", "dead"},
                    msg : ToClient \cup {NoMessage}]
    BY <1>0 DEF Typed
  <2>2. CASE CountGeneration
    BY <2>1, <2>2 DEF CountGeneration
  <2>3. CASE Respond \/ EndOfOutput \/ Die
    BY <2>3 DEF Respond, EndOfOutput, Die
  <2>4. QED  BY <2>2, <2>3
<1>6. Quiet
  BY <1>1, <1>2, <1>3, <1>4, <1>5 DEF Quiet
<1>7. QED  BY <1>1, <1>2, <1>3, <1>4, <1>6, CallStays, QuietStep

\* What the reader takes in does not concern the texts on their way.
LEMMA ReaderKeeps ==
  ASSUME Inv, UNCHANGED <<caller, server, told, toServer, session.versions, session.unsent>>
  PROVE  /\ CallKeepsVersion' /\ TextsInOrder' /\ Opened' /\ TextIsSent'
         /\ AnswersAreOwn' /\ FreshIsCurrent'
<1>1. CallKeepsVersion' /\ AnswersAreOwn' /\ FreshIsCurrent'
  BY DEF Inv, CallKeepsVersion, AnswersAreOwn, FreshIsCurrent, At
<1>2. TextsInOrder'
  BY DEF Inv, TextsInOrder, At
<1>3. Opened' /\ TextIsSent'
  BY DEF Inv, Opened, TextIsSent, At
<1>4. QED  BY <1>1, <1>2, <1>3

LEMMA TakesIn ==
  ASSUME Inv, Typed', TakeMessage
  PROVE  Inv'
<1> DEFINE m == Head(toClient)
<1>0. /\ Typed /\ SessionTyped /\ ServerTyped /\ toClient \in Seq(ToClient)
      /\ toClient # <<>> /\ toClient' = Tail(toClient) /\ reader.at = "reading"
      /\ UNCHANGED <<caller, toServer, server, told>>
  BY DEF Inv, Typed, TakeMessage
<1>1. /\ m \in ToClient /\ m = toClient[1] /\ 1 \in 1..Len(toClient)
      /\ \A i \in 1..Len(toClient') : toClient'[i] = toClient[i + 1] /\ i + 1 \in 1..Len(toClient)
  BY <1>0, HeadTyped
<1>2. m.kind \in {"answer", "publish", "ask", "null-answer"} /\ m.version \in Nat
  BY <1>1 DEF ToClient, Messages
<1>3. \/ /\ m.kind = "answer" /\ UNCHANGED reader
         /\ session' = IF m.id \in DOMAIN session.pending
                       THEN [session EXCEPT !.pending[m.id] = m] ELSE session
      \/ /\ m.kind = "publish" /\ reader' = [at |-> "count", msg |-> m]
         /\ session' = [session EXCEPT !.shown[m.doc] = m.version]
      \/ UNCHANGED session /\ reader'.at \in {"reply", "dead"}
  <2>1. CASE m.kind = "answer"
    BY <2>1 DEF TakeMessage
  <2>2. CASE m.kind = "publish"
    BY <2>2 DEF TakeMessage
  <2>3. CASE m.kind \in {"ask", "null-answer"}
    <3>1. UNCHANGED session /\ \E pc \in {"reply", "dead"} : reader' = [at |-> pc, msg |-> NoMessage]
      BY <2>3 DEF TakeMessage
    <3>2. QED  BY <3>1
  <2>4. QED  BY <1>2, <2>1, <2>2, <2>3
<1>4. m.kind = "publish" => /\ m.doc \in Docs /\ session.shown[m.doc] <= m.version
                            /\ m.version <= server.told[m.doc]
  BY <1>1 DEF Inv, PublishedInOrder
<1> HIDE DEF m
<1>5. /\ UNCHANGED <<session.versions, session.unsent, session.recorded, session.nextId>>
      /\ \A x \in Docs : /\ session'.shown[x] \in Nat
                         /\ session.shown[x] <= session'.shown[x]
                         /\ session'.shown[x] # session.shown[x] => m.kind = "publish" /\ x = m.doc
      /\ m.kind = "publish" /\ session' # session => session'.shown[m.doc] = m.version
      /\ UNCHANGED session.pending
         \/ /\ m.kind = "answer"
            /\ session'.pending = [session.pending EXCEPT ![m.id] = m]
  <2>1. \A x \in Docs : session.shown[x] \in Nat
    BY <1>0 DEF SessionTyped
  <2>2. CASE session' = session
    BY <2>1, <2>2
  <2>3. CASE m.kind = "answer" /\ session' = [session EXCEPT !.pending[m.id] = m]
    <3>1. UNCHANGED <<session.versions, session.unsent, session.recorded, session.nextId,
                      session.shown>>
          /\ session'.pending = [session.pending EXCEPT ![m.id] = m]
      BY <1>0, <2>3 DEF SessionTyped
    <3>2. QED  BY <2>1, <2>3, <3>1
  <2>4. CASE m.kind = "publish" /\ session' = [session EXCEPT !.shown[m.doc] = m.version]
    <3>1. /\ UNCHANGED <<session.versions, session.unsent, session.recorded, session.nextId,
                         session.pending>>
          /\ session'.shown = [session.shown EXCEPT ![m.doc] = m.version]
          /\ session.shown \in [Docs -> Nat]
      BY <1>0, <2>4 DEF SessionTyped
    <3>2. QED  BY <1>2, <1>4, <2>1, <2>4, <3>1
  <2>5. QED  BY <1>3, <2>2, <2>3, <2>4
<1>6. /\ CallKeepsVersion' /\ TextsInOrder' /\ Opened' /\ TextIsSent'
      /\ AnswersAreOwn' /\ FreshIsCurrent'
  BY <1>0, <1>5, ReaderKeeps
<1>7. IdsAreOld'
  BY <1>0, <1>1, <1>5 DEF Inv, IdsAreOld
<1>8. AwaitedIsOwn'
  <2> SUFFICES ASSUME At({"await"}) PROVE AwaitedIsOwn'
    BY <1>0 DEF AwaitedIsOwn, At
  <2>1. \A k : Own(k)' = Own(k)
    BY <1>0, <1>5 DEF Own
  <2>2. /\ caller.id < session.nextId
        /\ \A i \in 1..Len(toServer) :
             toServer[i].kind = "request" /\ toServer[i].id = caller.id =>
               /\ toServer[i].doc = caller.doc
               /\ \A j \in 1..Len(toServer) : i < j => ~IsText(toServer[j])
        /\ \A k \in server.owed : k.id = caller.id => Own(k)
        /\ \A i \in 1..Len(toClient) :
             toClient[i].kind = "answer" /\ toClient[i].id = caller.id => Own(toClient[i])
        /\ Answered => Own(session.pending[caller.id])
    BY DEF Inv, AwaitedIsOwn
  <2>3. ASSUME Answered' PROVE Own(session'.pending[caller.id])
    <3>1. CASE UNCHANGED session.pending
      BY <1>0, <2>2, <2>3, <3>1 DEF Answered
    <3>2. CASE m.kind = "answer" /\ session'.pending = [session.pending EXCEPT ![m.id] = m]
      <4>1. /\ caller.id \in DOMAIN session.pending
            /\ session'.pending[caller.id] = IF caller.id = m.id THEN m ELSE session.pending[caller.id]
            /\ session'.pending[caller.id] # NoMessage
        BY <1>0, <2>3, <3>2 DEF Answered
      <4>2. CASE caller.id = m.id
        BY <1>1, <2>2, <3>2, <4>1, <4>2
      <4>3. CASE caller.id # m.id
        BY <2>2, <4>1, <4>3 DEF Answered
      <4>4. QED  BY <4>2, <4>3
    <3>3. QED  BY <1>5, <3>1, <3>2
  <2>4. /\ \A k \in server'.owed : k.id = caller'.id => Own(k)'
        /\ \A i \in 1..Len(toClient') :
             toClient'[i].kind = "answer" /\ toClient'[i].id = caller'.id => Own(toClient'[i])
        /\ Answered' => Own(session.pending[caller.id])'
    BY <1>0, <1>1, <2>1, <2>2, <2>3
  <2>5. QED  BY <1>0, <1>5, <2>1, <2>2, <2>4 DEF AwaitedIsOwn
<1>9. PublishedInOrder'
  <2>1. \A x \in Docs : session'.shown[x] <= server.told[x] /\ server.told[x] <= server.has[x]
    BY <1>4, <1>5, <1>3 DEF Inv, PublishedInOrder
  <2>2. ASSUME NEW i \in 1..Len(toClient'), toClient'[i].kind = "publish"
        PROVE  /\ toClient'[i].doc \in Docs
               /\ session'.shown[toClient'[i].doc] <= toClient'[i].version
               /\ toClient'[i].version <= server.told[toClient'[i].doc]
    <3>1. toClient'[i] = toClient[i + 1] /\ i + 1 \in 1..Len(toClient) /\ 1 < i + 1
      BY <1>1
    <3>2. /\ toClient'[i].doc \in Docs
          /\ session.shown[toClient'[i].doc] <= toClient'[i].version
          /\ toClient'[i].version <= server.told[toClient'[i].doc]
          /\ m.kind = "publish" /\ m.doc = toClient'[i].doc => m.version <= toClient'[i].version
      BY <1>1, <2>2, <3>1 DEF Inv, PublishedInOrder
    <3>3. QED  BY <1>3, <1>5, <3>2
  <2>3. \A i, j \in 1..Len(toClient') :
          /\ i < j /\ toClient'[i].kind = "publish" /\ toClient'[j].kind = "publish"
          /\ toClient'[i].doc = toClient'[j].doc
          => toClient'[i].version <= toClient'[j].version
    BY <1>1 DEF Inv, PublishedInOrder
  <2>4. reader'.at \in {"count", "record"} =>
          reader'.msg.doc \in Docs /\ reader'.msg.version = session'.shown[reader'.msg.doc]
    <3>1. CASE m.kind = "publish" /\ reader' = [at |-> "count", msg |-> m]
               /\ session' = [session EXCEPT !.shown[m.doc] = m.version]
      BY <1>0, <1>4, <3>1 DEF SessionTyped
    <3>2. CASE reader'.at \in {"reading", "reply", "dead"}
      BY <3>2
    <3>3. QED  BY <1>0, <1>3, <3>1, <3>2
  <2>5. QED  BY <1>0, <2>1, <2>2, <2>3, <2>4 DEF PublishedInOrder
<1>10. RecordedIsShown'
  <2>1. \A x \in Docs : session.recorded[x] \in Nat \cup {None} /\ session.shown[x] \in Nat
    BY <1>0 DEF SessionTyped
  <2>2. QED  BY <1>5, <2>1 DEF Inv, RecordedIsShown
<1>11. RecordsStay'
  BY <1>0, <1>5 DEF Inv, RecordsStay, At
<1>12. QED
  BY <1>6, <1>7, <1>8, <1>9, <1>10, <1>11 DEF Inv

\* The version that is recorded is the one shown.
LEMMA Records ==
  ASSUME Inv, Typed', RecordVersion
  PROVE  Inv'
<1> DEFINE x == reader.msg.doc
           v == IF server.tells THEN reader.msg.version ELSE None
           r == [session.recorded EXCEPT ![x] = v]
<1>0. /\ Typed /\ SessionTyped /\ ServerTyped /\ SessionTyped'
      /\ UNCHANGED <<caller, toServer, toClient, server, told>> /\ reader'.at = "reading"
  BY DEF Inv, Typed, RecordVersion, pipes
<1>1. x \in Docs /\ reader.msg.version = session.shown[x]
  BY DEF Inv, PublishedInOrder, RecordVersion
<1>2. /\ UNCHANGED <<session.versions, session.unsent, session.shown, session.nextId, session.pending>>
      /\ session'.recorded = r
  <2>1. session' = [session EXCEPT !.recorded = r]
    BY DEF RecordVersion
  <2> HIDE DEF r
  <2>2. QED  BY <1>0, <2>1 DEF SessionTyped
<1>3. \A y \in Docs : /\ session'.recorded[y] = IF y = x THEN v ELSE session.recorded[y]
                      /\ session.recorded[y] \in Nat \cup {None} /\ session.shown[y] \in Nat
  BY <1>0, <1>2 DEF SessionTyped
<1>4. /\ CallKeepsVersion' /\ TextsInOrder' /\ Opened' /\ TextIsSent'
      /\ AnswersAreOwn' /\ FreshIsCurrent'
  BY <1>0, <1>2, ReaderKeeps
<1>5. IdsAreOld'
  BY <1>0, <1>2 DEF Inv, IdsAreOld
<1>6. AwaitedIsOwn'
  BY <1>0, <1>2 DEF Inv, AwaitedIsOwn, At, Own, Answered
<1>7. PublishedInOrder'
  BY <1>0, <1>2 DEF Inv, PublishedInOrder
<1>8. RecordedIsShown'
  BY <1>1, <1>2, <1>3 DEF Inv, RecordedIsShown
<1>9. RecordsStay'
  <2>1. \A y \in Docs : server.tells /\ session.recorded[y] # None =>
          session'.recorded[y] # None /\ session'.recorded[y] >= session.recorded[y]
    <3> SUFFICES ASSUME NEW y \in Docs, server.tells, session.recorded[y] # None
                 PROVE  session'.recorded[y] # None /\ session'.recorded[y] >= session.recorded[y]
      OBVIOUS
    <3>1. CASE y = x
      BY <1>1, <1>3, <3>1, BridgeAssumption DEF Inv, RecordedIsShown
    <3>2. CASE y # x
      BY <1>3, <3>2
    <3>3. QED  BY <3>1, <3>2
  <2>2. QED  BY <1>0, <1>8, <2>1, CallStays, RecordsKeep
<1>10. QED  BY <1>4, <1>5, <1>6, <1>7, <1>8, <1>9 DEF Inv

-----------------------------------------------------------------------------
(* The language server *)

\* Its answers and publications do not concern the texts on their way to it.
LEMMA ServerKeeps ==
  ASSUME Inv, UNCHANGED <<caller, session, told, toServer, server.up, server.tells, server.has>>
  PROVE  /\ CallKeepsVersion' /\ TextsInOrder' /\ Opened' /\ TextIsSent'
         /\ RecordedIsShown' /\ RecordsStay' /\ AnswersAreOwn' /\ FreshIsCurrent'
<1>1. CallKeepsVersion' /\ AnswersAreOwn' /\ FreshIsCurrent'
  BY DEF Inv, CallKeepsVersion, AnswersAreOwn, FreshIsCurrent, At
<1>2. TextsInOrder'
  BY DEF Inv, TextsInOrder, At
<1>3. Opened' /\ TextIsSent'
  BY DEF Inv, Opened, TextIsSent, At
<1>4. RecordedIsShown' /\ RecordsStay'
  BY DEF Inv, RecordedIsShown, RecordsStay, At
<1>5. QED  BY <1>1, <1>2, <1>3, <1>4

LEMMA Answers ==
  ASSUME Inv, Typed', Answer
  PROVE  Inv'
<1>0. Typed /\ ServerTyped /\ toClient \in Seq(ToClient)
  BY DEF Inv, Typed
<1>1. PICK m \in server.owed : /\ toClient' = Append(toClient, m)
                               /\ server' = [server EXCEPT !.owed = @ \ {m}]
                               /\ UNCHANGED <<caller, session, reader, toServer, told>>
  BY DEF Answer
<1>2. m \in ToClient /\ m.kind = "answer"
  BY <1>0 DEF ServerTyped, Messages, ToClient
<1>3. /\ UNCHANGED <<server.up, server.tells, server.told, server.has>>
      /\ server'.owed \subseteq server.owed
  BY <1>0, <1>1 DEF ServerTyped
<1>4. /\ CallKeepsVersion' /\ TextsInOrder' /\ Opened' /\ TextIsSent'
      /\ RecordedIsShown' /\ RecordsStay' /\ AnswersAreOwn' /\ FreshIsCurrent'
  BY <1>1, <1>3, ServerKeeps
<1>5. /\ \A i \in 1..Len(toClient') : \/ i \in 1..Len(toClient) /\ toClient'[i] = toClient[i]
                                      \/ toClient'[i] = m
      /\ \A i \in 1..Len(toClient') : toClient'[i].kind = "publish" =>
           i \in 1..Len(toClient) /\ toClient'[i] = toClient[i]
  BY <1>0, <1>1, <1>2, AppendTyped
<1>6. IdsAreOld'
  BY <1>1, <1>3, <1>5 DEF Inv, IdsAreOld
<1>7. AwaitedIsOwn'
  <2> SUFFICES ASSUME At({"await"}) PROVE AwaitedIsOwn'
    BY <1>1 DEF AwaitedIsOwn, At
  <2>1. /\ \A k : Own(k)' = Own(k)
        /\ Answered' = Answered
    BY <1>1 DEF Own, Answered
  <2>2. /\ \A k \in server'.owed : k.id = caller.id => Own(k)
        /\ \A i \in 1..Len(toClient') :
             toClient'[i].kind = "answer" /\ toClient'[i].id = caller.id => Own(toClient'[i])
        /\ Answered => Own(session.pending[caller.id])
    BY <1>1, <1>3, <1>5 DEF Inv, AwaitedIsOwn
  <2>3. QED  BY <1>1, <2>1, <2>2 DEF Inv, AwaitedIsOwn
<1>8. PublishedInOrder'
  BY <1>1, <1>3, <1>5 DEF Inv, PublishedInOrder
<1>9. QED  BY <1>4, <1>6, <1>7, <1>8 DEF Inv

LEMMA Publishes ==
  ASSUME Inv, Typed', Unasked
  PROVE  Inv'
<1>0. Typed /\ SessionTyped /\ ServerTyped /\ toClient \in Seq(ToClient) /\ Len(toClient) \in Nat
      /\ UNCHANGED <<caller, session, reader, toServer, told>>
  BY DEF Inv, Typed, Unasked
<1>1. PICK m \in ToClient, t \in [Docs -> Nat] :
        /\ toClient' = Append(toClient, m) /\ server' = [server EXCEPT !.told = t]
        /\ \/ m.kind \in {"ask", "null-answer"} /\ t = server.told
           \/ /\ m.kind = "publish" /\ m.doc \in Docs
              /\ t = [server.told EXCEPT ![m.doc] = m.version]
              /\ server.told[m.doc] <= m.version /\ m.version <= server.has[m.doc]
              /\ m.version \in Nat
  <2>1. CASE \E x \in Docs : \E v \in 1..server.has[x] :
                /\ v >= server.told[x]
                /\ toClient' = Append(toClient, Message("publish", 0, x, v))
                /\ server' = [server EXCEPT !.told[x] = v]
    <3>1. PICK x \in Docs : \E v \in 1..server.has[x] :
                /\ v >= server.told[x]
                /\ toClient' = Append(toClient, Message("publish", 0, x, v))
                /\ server' = [server EXCEPT !.told[x] = v]
      BY <2>1
    <3> PICK v \in 1..server.has[x] : /\ v >= server.told[x]
                                      /\ toClient' = Append(toClient, Message("publish", 0, x, v))
                                      /\ server' = [server EXCEPT !.told[x] = v]
      BY <3>1
    <3> DEFINE m == Message("publish", 0, x, v)
               t == [server.told EXCEPT ![x] = v]
    <3>2. /\ v \in Nat /\ server.told[x] \in Nat /\ server.has[x] \in Nat /\ v <= server.has[x]
          /\ t \in [Docs -> Nat]
      BY <1>0 DEF ServerTyped
    <3>3. m \in ToClient /\ m.kind = "publish" /\ m.doc = x /\ m.version = v
      BY <3>2 DEF Message, Messages, ToClient
    <3>4. toClient' = Append(toClient, m) /\ server' = [server EXCEPT !.told = t]
      OBVIOUS
    <3> HIDE DEF m
    <3>5. t = [server.told EXCEPT ![m.doc] = m.version]
      BY <3>3
    <3> HIDE DEF t
    <3>6. QED  BY <3>2, <3>3, <3>4, <3>5
  <2>2. CASE \E kind \in {"ask", "null-answer"} :
                /\ toClient' = Append(toClient, Message(kind, 0, None, 0)) /\ UNCHANGED server
    <3>1. PICK kind \in {"ask", "null-answer"} :
                /\ toClient' = Append(toClient, Message(kind, 0, None, 0)) /\ UNCHANGED server
      BY <2>2
    <3> DEFINE m == Message(kind, 0, None, 0)
    <3>2. m \in ToClient /\ m.kind \in {"ask", "null-answer"}
      BY DEF Message, Messages, ToClient
    <3>3. server' = [server EXCEPT !.told = server.told] /\ server.told \in [Docs -> Nat]
      BY <1>0, <3>1 DEF ServerTyped
    <3> HIDE DEF m
    <3>4. QED  BY <3>1, <3>2, <3>3 DEF m
  <2>3. QED  BY <2>1, <2>2 DEF Unasked
<1>2. UNCHANGED <<server.up, server.tells, server.owed, server.has>> /\ server'.told = t
  BY <1>0, <1>1 DEF ServerTyped
<1>3. /\ CallKeepsVersion' /\ TextsInOrder' /\ Opened' /\ TextIsSent'
      /\ RecordedIsShown' /\ RecordsStay' /\ AnswersAreOwn' /\ FreshIsCurrent'
  BY <1>0, <1>2, ServerKeeps
<1>4. /\ Len(toClient') = Len(toClient) + 1 /\ toClient'[Len(toClient')] = m
      /\ \A i \in 1..Len(toClient') : \/ i \in 1..Len(toClient) /\ toClient'[i] = toClient[i]
                                      \/ i = Len(toClient') /\ toClient'[i] = m
      /\ \A i \in 1..Len(toClient') : i < Len(toClient') =>
           i \in 1..Len(toClient) /\ toClient'[i] = toClient[i]
  BY <1>0, <1>1, AppendTyped
<1>5. m.kind # "answer"
  BY <1>1
<1>6. IdsAreOld'
  BY <1>0, <1>2, <1>4, <1>5 DEF Inv, IdsAreOld
<1>7. AwaitedIsOwn'
  <2> SUFFICES ASSUME At({"await"}) PROVE AwaitedIsOwn'
    BY <1>0 DEF AwaitedIsOwn, At
  <2>1. /\ \A k : Own(k)' = Own(k)
        /\ Answered' = Answered
    BY <1>0 DEF Own, Answered
  <2>2. \A i \in 1..Len(toClient') : toClient'[i].kind = "answer" /\ toClient'[i].id = caller.id
          => Own(toClient'[i])
    BY <1>4, <1>5 DEF Inv, AwaitedIsOwn
  <2>3. QED  BY <1>0, <1>2, <2>1, <2>2 DEF Inv, AwaitedIsOwn
<1>8. PublishedInOrder'
  <2>0. \A x \in Docs : /\ session.shown[x] \in Nat /\ server.told[x] \in Nat
                        /\ server.has[x] \in Nat /\ t[x] \in Nat
                        /\ session.shown[x] <= server.told[x] /\ server.told[x] <= server.has[x]
    BY <1>0 DEF SessionTyped, ServerTyped, Inv, PublishedInOrder
  <2>1. \A x \in Docs : server.told[x] <= t[x] /\ t[x] <= server.has[x]
    <3>1. CASE t = server.told
      BY <2>0, <3>1
    <3>2. CASE /\ m.doc \in Docs /\ t = [server.told EXCEPT ![m.doc] = m.version]
               /\ server.told[m.doc] <= m.version /\ m.version <= server.has[m.doc]
               /\ m.version \in Nat
      <4> DEFINE has == server.has
                 old == server.told
      <4>1. old \in [Docs -> Nat]
        BY <1>0 DEF ServerTyped
      <4> HIDE DEF has, old
      <4>2. \A x \in Docs : t[x] = IF x = m.doc THEN m.version ELSE old[x]
        BY <3>2, <4>1 DEF old
      <4>3. QED  BY <2>0, <3>2, <4>2 DEF has, old
    <3>3. QED  BY <1>1, <3>1, <3>2
  <2>2. \A i \in 1..Len(toClient) : toClient[i].version \in Nat
    <3>1. \A k \in ToClient : k.version \in Nat
      BY DEF ToClient, Messages
    <3>2. QED  BY <1>0, <3>1
  <2>3. m.kind = "publish" => m.doc \in Docs /\ m.version = t[m.doc] /\ m.version \in Nat
                              /\ server.told[m.doc] <= m.version
    BY <1>0, <1>1 DEF ServerTyped
  <2>4. ASSUME NEW i \in 1..Len(toClient), toClient[i].kind = "publish"
        PROVE  /\ toClient[i].doc \in Docs
               /\ session.shown[toClient[i].doc] <= toClient[i].version
               /\ toClient[i].version <= server.told[toClient[i].doc]
    BY <2>4 DEF Inv, PublishedInOrder
  <2>5. ASSUME NEW i \in 1..Len(toClient'), toClient'[i].kind = "publish"
        PROVE  /\ toClient'[i].doc \in Docs
               /\ session.shown[toClient'[i].doc] <= toClient'[i].version
               /\ toClient'[i].version <= t[toClient'[i].doc]
    <3>1. CASE i \in 1..Len(toClient) /\ toClient'[i] = toClient[i]
      BY <2>0, <2>1, <2>2, <2>4, <2>5, <3>1
    <3>2. CASE toClient'[i] = m
      BY <2>0, <2>3, <2>5, <3>2
    <3>3. QED  BY <1>4, <3>1, <3>2
  <2>6. ASSUME NEW i \in 1..Len(toClient'), NEW j \in 1..Len(toClient'), i < j,
               toClient'[i].kind = "publish", toClient'[j].kind = "publish",
               toClient'[i].doc = toClient'[j].doc
        PROVE  toClient'[i].version <= toClient'[j].version
    <3>1. i \in 1..Len(toClient) /\ toClient'[i] = toClient[i]
      BY <1>0, <1>4, <2>6
    <3>2. CASE j \in 1..Len(toClient) /\ toClient'[j] = toClient[j]
      BY <2>6, <3>1, <3>2 DEF Inv, PublishedInOrder
    <3>3. CASE toClient'[j] = m
      BY <2>0, <2>2, <2>3, <2>4, <2>6, <3>1, <3>3
    <3>4. QED  BY <1>4, <3>2, <3>3
  <2>7. reader'.at \in {"count", "record"} =>
          reader'.msg.doc \in Docs /\ reader'.msg.version = session'.shown[reader'.msg.doc]
    BY <1>0 DEF Inv, PublishedInOrder
  <2>8. \A x \in Docs : session'.shown[x] <= t[x] /\ t[x] <= server'.has[x]
    BY <1>0, <1>2, <2>0, <2>1
  <2>9. QED  BY <1>0, <1>2, <2>5, <2>6, <2>7, <2>8 DEF PublishedInOrder
<1>9. QED  BY <1>3, <1>6, <1>7, <1>8 DEF Inv

\* The server takes in a text that is newer than what it has, or answers a
\* request by what it has; whatever came before the request, it has.
LEMMA Receives ==
  ASSUME Inv, Typed', Receive
  PROVE  Inv'
<1> DEFINE m == Head(toServer)
           x == m.doc
           a == Message("answer", m.id, x, IF x = None THEN 0 ELSE server.has[x])
<1>0. /\ Typed /\ SessionTyped /\ ServerTyped /\ ServerTyped' /\ toServer \in Seq(ToServer)
      /\ caller \in Calls
      /\ toServer # <<>> /\ toServer' = Tail(toServer) /\ server.up
      /\ UNCHANGED <<caller, session, reader, toClient, told>>
  BY DEF Inv, Typed, Receive
<1>1. /\ m \in ToServer /\ m = toServer[1] /\ 1 \in 1..Len(toServer)
      /\ \A i \in 1..Len(toServer') : toServer'[i] = toServer[i + 1] /\ i + 1 \in 1..Len(toServer)
      /\ \A i \in 1..Len(toServer) : i # 1 =>
           i - 1 \in 1..Len(toServer') /\ toServer'[i - 1] = toServer[i]
  <2>1. Len(toServer') = Len(toServer) - 1 /\ Len(toServer) \in Nat
    BY <1>0, HeadTyped
  <2>2. \A i \in 1..Len(toServer') : toServer'[i] = toServer[i + 1] /\ i + 1 \in 1..Len(toServer)
    BY <1>0, HeadTyped
  <2>3. \A i \in 1..Len(toServer) : i # 1 => i - 1 \in 1..Len(toServer') /\ (i - 1) + 1 = i
    BY <2>1
  <2>4. QED  BY <1>0, <2>2, <2>3, HeadTyped
<1>2. /\ m.kind \in {"request", "open", "change", "exit", "note"}
      /\ m.id \in Nat /\ m.version \in Nat /\ x \in Docs \cup {None}
  BY <1>1 DEF ToServer, Messages
<1>3. IsText(m) => /\ x \in Docs /\ server.has[x] < m.version /\ m.version <= session.versions[x]
                   /\ m.kind = "open" <=> m.version = 1
  BY <1>1 DEF Inv, TextsInOrder
<1>4. /\ a.kind = "answer" /\ a.id = m.id /\ a.doc = x
      /\ a.version = IF x = None THEN 0 ELSE server.has[x]
  BY DEF Message
<1>5. \A y \in Docs : /\ server.has[y] \in Nat /\ session.versions[y] \in Nat
                      /\ server'.has[y] \in Nat /\ server.told[y] \in Nat
  BY <1>0 DEF SessionTyped, ServerTyped
<1> HIDE DEF m, a
<1>6. /\ UNCHANGED <<server.told, server.tells>>
      /\ m.kind # "request" => UNCHANGED server.owed
      /\ m.kind = "request" => server'.owed = server.owed \cup {a}
      /\ ~IsText(m) => UNCHANGED server.has
      /\ IsText(m) => /\ \A y \in Docs : y # x => server'.has[y] = server.has[y]
                      /\ \/ server'.has[x] = m.version
                         \/ m.kind = "change" /\ server.has[x] = 0 /\ server'.has[x] = 0
  <2>1. CASE m.kind = "request"
    <3>1. server' = [server EXCEPT !.owed = @ \cup {a}]
      BY <2>1 DEF Receive, m, a
    <3>2. QED  BY <1>0, <2>1, <3>1 DEF ServerTyped, IsText
  <2>2. CASE IsText(m)
    <3>1. PICK v \in Nat : /\ server' = [server EXCEPT !.has[x] = v]
                           /\ v = m.version \/ (m.kind = "change" /\ server.has[x] = 0 /\ v = 0)
      <4>1. CASE m.kind = "open"
        BY <1>2, <4>1 DEF Receive, m
      <4>2. CASE m.kind = "change"
        <5>1. server' = [server EXCEPT !.has[x] = IF @ = 0 THEN 0 ELSE m.version]
          BY <4>2 DEF Receive, m
        <5>2. QED  BY <1>2, <4>2, <5>1
      <4>3. QED  BY <2>2, <4>1, <4>2 DEF IsText
    <3> DEFINE h == [server.has EXCEPT ![x] = v]
    <3>2. server' = [server EXCEPT !.has = h]
      BY <3>1
    <3>3. /\ \A y \in Docs : y # x => h[y] = server.has[y]
          /\ h[x] = v
      BY <1>0, <1>3, <2>2 DEF ServerTyped
    <3> HIDE DEF h
    <3>4. UNCHANGED <<server.told, server.tells, server.owed>> /\ server'.has = h
      BY <1>0, <3>2 DEF ServerTyped
    <3>5. m.kind # "request"
      BY <2>2 DEF IsText
    <3>6. QED  BY <2>2, <3>1, <3>3, <3>4, <3>5
  <2>3. CASE m.kind \in {"exit", "note"}
    <3>1. server' = [server EXCEPT !.up = FALSE] \/ server' = server
      BY <2>3 DEF Receive, m
    <3>2. QED  BY <1>0, <2>3, <3>1 DEF ServerTyped, IsText
  <2>4. QED  BY <1>2, <2>1, <2>2, <2>3 DEF IsText
<1>7. CallKeepsVersion' /\ RecordedIsShown' /\ RecordsStay' /\ AnswersAreOwn' /\ FreshIsCurrent'
  BY <1>0, <1>6 DEF Inv, CallKeepsVersion, RecordedIsShown, RecordsStay, AnswersAreOwn,
                    FreshIsCurrent, At
<1>8. \A y \in Docs : /\ server.has[y] <= server'.has[y]
                      /\ server'.has[y] <= session.versions[y]
                      /\ IsText(m) /\ y = x => server'.has[y] <= m.version
                      /\ ~(IsText(m) /\ y = x) => server'.has[y] = server.has[y]
  BY <1>2, <1>3, <1>5, <1>6 DEF Inv, TextsInOrder
<1>9. TextsInOrder'
  <2>1. ASSUME NEW i \in 1..Len(toServer'), IsText(toServer'[i])
        PROVE  /\ toServer'[i].doc \in Docs
               /\ server'.has[toServer'[i].doc] < toServer'[i].version
               /\ toServer'[i].version <= session.versions[toServer'[i].doc]
               /\ toServer'[i].kind = "open" <=> toServer'[i].version = 1
    <3> DEFINE n == toServer'[i]
    <3>1. n = toServer[i + 1] /\ i + 1 \in 1..Len(toServer) /\ 1 < i + 1
      BY <1>1
    <3>2. /\ n.doc \in Docs /\ server.has[n.doc] < n.version
          /\ n.version <= session.versions[n.doc] /\ (n.kind = "open" <=> n.version = 1)
          /\ IsText(m) /\ n.doc = x => m.version < n.version
      BY <1>1, <2>1, <3>1 DEF Inv, TextsInOrder
    <3>3. n.version \in Nat
      <4>1. \A k \in ToServer : k.version \in Nat
        BY DEF ToServer, Messages
      <4>2. QED  BY <1>0, <3>1, <4>1
    <3> HIDE DEF n
    <3>4. server'.has[n.doc] < n.version
      BY <1>2, <1>5, <1>8, <3>2, <3>3
    <3>5. QED  BY <3>2, <3>4 DEF n
  <2>2. \A i, j \in 1..Len(toServer') :
          i < j /\ IsText(toServer'[i]) /\ IsText(toServer'[j]) /\ toServer'[i].doc = toServer'[j].doc
            => toServer'[i].version < toServer'[j].version
    BY <1>1 DEF Inv, TextsInOrder
  <2>3. ASSUME At({"notify"})
        PROVE  /\ server'.has[caller.doc] < caller.version
               /\ \A i \in 1..Len(toServer') :
                    IsText(toServer'[i]) /\ toServer'[i].doc = caller.doc
                      => toServer'[i].version < caller.version
    <3>1. caller.doc \in Docs /\ caller.version \in Nat
      BY <1>0, <2>3 DEF Inv, CallKeepsVersion, At, Working, Calls
    <3>2. /\ server.has[caller.doc] < caller.version
          /\ IsText(m) /\ x = caller.doc => m.version < caller.version
          /\ \A i \in 1..Len(toServer') :
                IsText(toServer'[i]) /\ toServer'[i].doc = caller.doc
                  => toServer'[i].version < caller.version
      BY <1>1, <2>3 DEF Inv, TextsInOrder
    <3>3. server'.has[caller.doc] < caller.version
      BY <1>2, <1>5, <1>8, <3>1, <3>2
    <3>4. QED  BY <3>2, <3>3
  <2>4. QED  BY <1>0, <1>8, <2>1, <2>2, <2>3 DEF TextsInOrder, At
<1>10. ASSUME NEW y \in Docs \ session.unsent, session.versions[y] >= 1
       PROVE  \/ server'.has[y] > 0
              \/ \E i \in 1..Len(toServer') : toServer'[i].kind = "open" /\ toServer'[i].doc = y
              \/ At({"notify"}) /\ caller.doc = y /\ caller.version = 1
  <2>1. CASE server.has[y] > 0
    BY <1>5, <1>8, <2>1
  <2>2. ASSUME NEW i \in 1..Len(toServer), toServer[i].kind = "open", toServer[i].doc = y
        PROVE  \/ server'.has[y] > 0
               \/ \E j \in 1..Len(toServer') : toServer'[j].kind = "open" /\ toServer'[j].doc = y
    <3>1. CASE i = 1
      <4>1. m.kind = "open" /\ x = y /\ IsText(m)
        BY <1>1, <2>2, <3>1 DEF IsText
      <4>2. server'.has[y] = 1
        BY <1>3, <1>6, <4>1
      <4>3. QED  BY <4>2
    <3>2. CASE i # 1
      BY <1>1, <2>2, <3>2
    <3>3. QED  BY <3>1, <3>2
  <2>3. QED  BY <1>0, <1>10, <2>1, <2>2 DEF Inv, Opened
<1>11. Opened'
  BY <1>0, <1>10 DEF Opened, At
<1>12. ASSUME At({"request", "await"}), caller.doc \notin session.unsent
       PROVE  \/ server'.has[caller.doc] = caller.version
              \/ \E i \in 1..Len(toServer') :
                   IsText(toServer'[i]) /\ toServer'[i].doc = caller.doc
                   /\ toServer'[i].version = caller.version
  <2>1. /\ caller.doc \in Docs /\ caller.version = session.versions[caller.doc]
        /\ caller.version >= 1 /\ ~At({"notify"})
    BY <1>12 DEF Inv, CallKeepsVersion, At, Working
  <2>2. CASE server.has[caller.doc] = caller.version
    BY <1>5, <1>8, <2>1, <2>2
  <2>3. ASSUME NEW i \in 1..Len(toServer), IsText(toServer[i]), toServer[i].doc = caller.doc,
               toServer[i].version = caller.version
        PROVE  \/ server'.has[caller.doc] = caller.version
               \/ \E j \in 1..Len(toServer') :
                    IsText(toServer'[j]) /\ toServer'[j].doc = caller.doc
                    /\ toServer'[j].version = caller.version
    <3>1. CASE i # 1
      BY <1>1, <2>3, <3>1
    <3>2. CASE i = 1
      <4>1. IsText(m) /\ x = caller.doc /\ m.version = caller.version
        BY <1>1, <2>3, <3>2
      <4>2. ASSUME m.kind = "change", server.has[x] = 0 PROVE FALSE
        <5>1. PICK k \in 1..Len(toServer) : toServer[k].kind = "open" /\ toServer[k].doc = x
          BY <1>0, <1>12, <2>1, <4>1, <4>2 DEF Inv, Opened
        <5>2. k # 1 /\ 1 < k
          BY <1>1, <4>2, <5>1
        <5>3. toServer[k].version = 1 /\ m.version < toServer[k].version
          BY <1>1, <4>1, <5>1, <5>2 DEF Inv, TextsInOrder, IsText
        <5>4. QED  BY <1>2, <1>3, <4>1, <4>2, <5>3
      <4>3. QED  BY <1>6, <4>1, <4>2
    <3>3. QED  BY <3>1, <3>2
  <2>4. QED  BY <1>12, <2>2, <2>3 DEF Inv, TextIsSent
<1>13. TextIsSent'
  BY <1>0, <1>12 DEF TextIsSent, At
<1>14. IdsAreOld'
  <2>1. m.kind = "request" => a.id < session.nextId
    BY <1>1, <1>4 DEF Inv, IdsAreOld
  <2>2. \A k \in server'.owed : k.id < session.nextId
    BY <1>6, <2>1 DEF Inv, IdsAreOld
  <2>3. QED  BY <1>0, <1>1, <2>2 DEF Inv, IdsAreOld
<1>15. AwaitedIsOwn'
  <2> SUFFICES ASSUME At({"await"}) PROVE AwaitedIsOwn'
    BY <1>0 DEF AwaitedIsOwn, At
  <2>1. \A k : Own(k)' = Own(k)
    BY <1>0 DEF Own
  <2>2. ASSUME m.kind = "request", m.id = caller.id PROVE Own(a)
    <3>1. x = caller.doc /\ \A j \in 1..Len(toServer) : 1 < j => ~IsText(toServer[j])
      BY <1>1, <2>2 DEF Inv, AwaitedIsOwn
    <3>2. caller.doc \in Docs /\ x # None
      BY <3>1, BridgeAssumption DEF Inv, CallKeepsVersion, At, Working
    <3>3. \A j \in 1..Len(toServer) : ~IsText(toServer[j])
      BY <1>1, <2>2, <3>1 DEF IsText
    <3>4. caller.doc \in session.unsent \/ server.has[caller.doc] = caller.version
      BY <3>3 DEF Inv, TextIsSent, At
    <3>5. QED  BY <1>4, <3>1, <3>2, <3>4 DEF Own
  <2>3. \A k \in server'.owed : k.id = caller.id => Own(k)
    BY <1>4, <1>6, <2>2 DEF Inv, AwaitedIsOwn
  <2>4. \A i \in 1..Len(toServer') :
          toServer'[i].kind = "request" /\ toServer'[i].id = caller.id =>
            /\ toServer'[i].doc = caller.doc
            /\ \A j \in 1..Len(toServer') : i < j => ~IsText(toServer'[j])
    BY <1>1 DEF Inv, AwaitedIsOwn
  <2>5. Answered' = Answered
    BY <1>0 DEF Answered
  <2>6. QED  BY <1>0, <2>1, <2>3, <2>4, <2>5 DEF Inv, AwaitedIsOwn
<1>16. PublishedInOrder'
  <2>1. \A y \in Docs : session.shown[y] <= server.told[y] /\ server.told[y] <= server'.has[y]
    BY <1>5, <1>8 DEF Inv, PublishedInOrder
  <2>2. QED  BY <1>0, <1>6, <2>1 DEF Inv, PublishedInOrder
<1>17. QED
  BY <1>7, <1>9, <1>11, <1>13, <1>14, <1>15, <1>16 DEF Inv

-----------------------------------------------------------------------------
(* The theorems *)

LEMMA InvStep ==
  ASSUME Inv, [Next]_vars
  PROVE  Inv'
<1>0. Typed /\ CallKeepsVersion /\ PublishedInOrder /\ TextsInOrder
  BY DEF Inv
<1>1. CASE UNCHANGED vars
  <2>1. Typed' /\ CallKeepsVersion' /\ RecordedIsShown' /\ RecordsStay'
    BY <1>1 DEF vars, pipes, Inv, Typed, SessionTyped, ServerTyped, CallKeepsVersion,
                RecordedIsShown, RecordsStay, At
  <2>2. TextsInOrder'
    BY <1>1 DEF vars, pipes, Inv, TextsInOrder, At
  <2>3. Opened' /\ TextIsSent' /\ IdsAreOld'
    BY <1>1 DEF vars, pipes, Inv, Opened, TextIsSent, IdsAreOld, At
  <2>4. AwaitedIsOwn'
    BY <1>1 DEF vars, pipes, Inv, AwaitedIsOwn, At, Own, Answered
  <2>5. PublishedInOrder'
    BY <1>1 DEF vars, pipes, Inv, PublishedInOrder
  <2>6. AnswersAreOwn' /\ FreshIsCurrent'
    BY <1>1 DEF vars, pipes, Inv, AnswersAreOwn, FreshIsCurrent
  <2>7. QED  BY <2>1, <2>2, <2>3, <2>4, <2>5, <2>6 DEF Inv
<1>2. CASE Serve \/ Deadline \/ EndOfInput \/ \E tool \in Tools, x \in Docs : Call(tool, x)
  <2>1. Typed'
    BY <1>0, <1>2, TypedServe
  <2>2. QED
    BY <1>2, <2>1, ServeQuietly, AsksAnew, CountsAnew, SendsText, Begins DEF Serve, Close
<1>3. CASE Read \/ Receive \/ Answer \/ Unasked \/ Die
  <2>1. Typed'
    BY <1>0, <1>3, TypedRead
  <2>2. QED
    BY <1>3, <2>1, ReadsQuietly, TakesIn, Records, Receives, Answers, Publishes DEF Read
<1>4. QED  BY <1>1, <1>2, <1>3 DEF Next

LEMMA InvHolds == Spec => []Inv
<1>1. Inv /\ [Next]_vars => Inv'
  BY InvStep
<1>2. QED  BY <1>1, InitInv, PTL DEF Spec

\* Types: what is recorded is about documents under the root, and every message
\* under way is of a kind its receiver has a case for (TakeMessage, Receive).
THEOREM SessionsStayTyped == Spec => []Typed
<1>1. Inv => Typed
  BY DEF Inv
<1>2. QED  BY <1>1, InvHolds, PTL

\* What hover, definition, references or symbols return answers this request
\* and is about the text this call has sent, however many requests have timed
\* out before and are answered late, unless the document was never opened
\* (request, open_document).
THEOREM AnswersAreTheirOwn == Spec => []AnswersAreOwn
<1>1. Inv => AnswersAreOwn
  BY DEF Inv
<1>2. QED  BY <1>1, InvHolds, PTL

\* A diagnostics call that returns before its deadline reports the publication
\* for its own text, if the server tells versions and had told one when the
\* call began (diagnostics, _handle_notification).
THEOREM FreshReportsAreCurrent == Spec => []FreshIsCurrent
<1>1. Inv => FreshIsCurrent
  BY DEF Inv
<1>2. QED  BY <1>1, InvHolds, PTL
=============================================================================
