----------------------------- MODULE Controller -----------------------------
(***************************************************************************)
(* The operation controller (supervisory_hooks/controller.py): every       *)
(* execution of execute_controller_request is an executor that walks       *)
(* through the private operation directory one file operation at a time.   *)
(*                                                                         *)
(*   request.json   the request bound to the operation key                 *)
(*   claim.json     created with O_EXCL before the effect                  *)
(*   receipt.json   the terminal receipt, written after the effect         *)
(*                                                                         *)
(* Executors are the code-mode executions of the operation workbook; they  *)
(* interleave freely, may die between any two file operations, and a       *)
(* caller may repeat a request as often as it likes.  request.json and     *)
(* receipt.json are replaced atomically (_atomic_json: fsync, os.replace), *)
(* so a reader sees a whole file or none.  The contents of claim.json are  *)
(* never read back; the model keeps the request that was written there.    *)
(***************************************************************************)
EXTENDS Naturals

CONSTANTS Executors,    \* executions of execute_controller_request
          Requests,     \* controller requests, told apart by requestIdentity
          Admissible,   \* requests that pass validate_controller_request
          Keys,         \* operation keys
          KeyOf,        \* controller_operation_key, as a function
          None          \* no request, no file

ASSUME ControllerAssumption ==
  /\ Admissible \subseteq Requests
  /\ KeyOf \in [Requests -> Keys]
  /\ None \notin Requests

VARIABLES pc,           \* pc[e]: the next step of executor e
          req,          \* req[e]: the request e was called with
          outcome,      \* outcome[e]: the outcome of the effect e ran
          answer,       \* answer[e]: what the last call of e answered
          requestFile,  \* requestFile[k]: request.json of key k
          claimFile,    \* claimFile[k]: claim.json of key k
          receiptFile,  \* receiptFile[k]: receipt.json of key k
          runs          \* runs[r]: how often the effect of r was started

files == <<requestFile, claimFile, receiptFile>>
vars  == <<pc, req, outcome, answer, requestFile, claimFile, receiptFile, runs>>

-----------------------------------------------------------------------------
(* Values *)

\* Outcomes of _run_effect: exit code 0, exit code # 0, timeout, no executable.
Outcomes == {"returned", "reported-error", "timeout", "unavailable"}

Receipt   == [identity : Requests, outcome : Outcomes]
NoReceipt == [identity |-> None, outcome |-> "none"]

Steps   == {"idle", "replay", "bind", "write-request", "claim", "claimed",
            "running", "ran", "lost-claim"}
Holding == {"claimed", "running", "ran"}   \* after _claim returned True

\* An answer is the status of the returned receipt, the request identity it
\* carries and its outcome; "raised" stands for every exception of the call.
Statuses == {"none", "completed", "replayed", "claimed-without-receipt", "raised"}
Answer   == [status : Statuses, identity : Requests \cup {None},
             outcome : Outcomes \cup {"none", "indeterminate"}]
NoAnswer == [status |-> "none", identity |-> None, outcome |-> "none"]
Raised   == [status |-> "raised", identity |-> None, outcome |-> "none"]

Key(e) == KeyOf[req[e]]

Init == /\ pc = [e \in Executors |-> "idle"]
        /\ req = [e \in Executors |-> None]
        /\ outcome = [e \in Executors |-> "none"]
        /\ answer = [e \in Executors |-> NoAnswer]
        /\ requestFile = [k \in Keys |-> None]
        /\ claimFile = [k \in Keys |-> None]
        /\ receiptFile = [k \in Keys |-> NoReceipt]
        /\ runs = [r \in Requests |-> 0]

-----------------------------------------------------------------------------
(* Steps of execute_controller_request *)

Goto(e, step) == /\ pc' = [pc EXCEPT ![e] = step]
                 /\ UNCHANGED <<req, answer>>

\* Leave the call with answer a.
Leave(e, a) == /\ pc' = [pc EXCEPT ![e] = "idle"]
               /\ req' = [req EXCEPT ![e] = None]
               /\ answer' = [answer EXCEPT ![e] = a]
               /\ outcome' = [outcome EXCEPT ![e] = "none"]

\* (mutant) the identity of the receipt is not compared with the request
ReplayedUnchecked(e) ==
  [status |-> "replayed", identity |-> req[e], outcome |-> receiptFile[Key(e)].outcome]

\* _read_receipt: a receipt of another request raises, one's own is replayed.
Replayed(e) ==
  LET found == receiptFile[Key(e)] IN
  IF found.identity = req[e]
  THEN [status |-> "replayed", identity |-> found.identity, outcome |-> found.outcome]
  ELSE Raised

\* The call starts: a request outside the closed vocabulary, or a working
\* directory outside the repository, raises before any file is touched.
Call(e, r) ==
  /\ pc[e] = "idle"
  /\ \/ /\ r \in Admissible
        /\ pc' = [pc EXCEPT ![e] = "replay"]
        /\ req' = [req EXCEPT ![e] = r]
        /\ answer' = [answer EXCEPT ![e] = NoAnswer]
        /\ UNCHANGED outcome
     \/ /\ r \notin Admissible
        /\ Leave(e, Raised)
  /\ UNCHANGED <<files, runs>>

\* if receipt_path.exists(): return _read_receipt(...)
CheckReceipt(e) ==
  /\ pc[e] = "replay"
  /\ \/ /\ receiptFile[Key(e)] # NoReceipt
        /\ Leave(e, Replayed(e))
     \/ /\ receiptFile[Key(e)] = NoReceipt
        /\ Goto(e, "bind")
        /\ UNCHANGED outcome
  /\ UNCHANGED <<files, runs>>

\* An existing request.json must equal the request; an absent one is written
\* in a later step, without looking again.
CheckRequest(e) ==
  /\ pc[e] = "bind"
  /\ \/ /\ requestFile[Key(e)] = None
        /\ Goto(e, "write-request")
        /\ UNCHANGED outcome
     \/ /\ requestFile[Key(e)] = req[e]
        /\ Goto(e, "claim")
        /\ UNCHANGED outcome
     \/ /\ requestFile[Key(e)] \notin {None, req[e]}
        /\ Leave(e, Raised)
  /\ UNCHANGED <<files, runs>>

WriteRequest(e) ==
  /\ pc[e] = "write-request"
  /\ requestFile' = [requestFile EXCEPT ![Key(e)] = req[e]]
  /\ Goto(e, "claim")
  /\ UNCHANGED <<outcome, claimFile, receiptFile, runs>>

\* (mutant) the claim is opened with O_CREAT alone
ClaimShared(e) ==
  /\ pc[e] = "claim"
  /\ claimFile' = [claimFile EXCEPT ![Key(e)] = req[e]]
  /\ Goto(e, "claimed")
  /\ UNCHANGED <<outcome, requestFile, receiptFile, runs>>

\* os.open(O_CREAT | O_EXCL): exactly one executor creates the claim.
Claim(e) ==
  /\ pc[e] = "claim"
  /\ \/ /\ claimFile[Key(e)] = None
        /\ claimFile' = [claimFile EXCEPT ![Key(e)] = req[e]]
        /\ Goto(e, "claimed")
     \/ /\ claimFile[Key(e)] # None
        /\ Goto(e, "lost-claim")
        /\ UNCHANGED claimFile
  /\ UNCHANGED <<outcome, requestFile, receiptFile, runs>>

\* (mutant) a claim without a receipt is taken over
TakeOverClaim(e) ==
  /\ pc[e] = "lost-claim"
  /\ IF receiptFile[Key(e)] # NoReceipt
     THEN Leave(e, Replayed(e))
     ELSE Goto(e, "claimed") /\ UNCHANGED outcome
  /\ UNCHANGED <<files, runs>>

\* (mutant) the indeterminate answer is filed as the terminal receipt
FileIndeterminate(e) ==
  /\ pc[e] = "lost-claim"
  /\ receiptFile[Key(e)] = NoReceipt
  /\ receiptFile' = [receiptFile EXCEPT
                       ![Key(e)] = [identity |-> req[e], outcome |-> "timeout"]]
  /\ Leave(e, Raised)
  /\ UNCHANGED <<requestFile, claimFile, runs>>

\* The claim was taken: replay the receipt, or report an indeterminate effect.
AnswerWithoutClaim(e) ==
  /\ pc[e] = "lost-claim"
  /\ Leave(e, IF receiptFile[Key(e)] # NoReceipt
              THEN Replayed(e)
              ELSE [status |-> "claimed-without-receipt", identity |-> req[e],
                    outcome |-> "indeterminate"])
  /\ UNCHANGED <<files, runs>>

StartEffect(e) ==
  /\ pc[e] = "claimed"
  /\ runs' = [runs EXCEPT ![req[e]] = @ + 1]
  /\ Goto(e, "running")
  /\ UNCHANGED <<outcome, files>>

\* (mutant) without timeoutSeconds the effect may print for ever
FinishUntimed(e) ==
  /\ pc[e] = "running"
  /\ \/ Goto(e, "ran") /\ outcome' = [outcome EXCEPT ![e] = "returned"]
     \/ /\ outcome' = [outcome EXCEPT ![e] = IF @ = "none" THEN "timeout" ELSE "none"]
        /\ UNCHANGED <<pc, req, answer>>
  /\ UNCHANGED <<files, runs>>

\* subprocess.run returns, or kills the child after timeoutSeconds.
FinishEffect(e) ==
  /\ pc[e] = "running"
  /\ \E o \in Outcomes : outcome' = [outcome EXCEPT ![e] = o]
  /\ Goto(e, "ran")
  /\ UNCHANGED <<files, runs>>

WriteReceipt(e) ==
  /\ pc[e] = "ran"
  /\ receiptFile' = [receiptFile EXCEPT
                       ![Key(e)] = [identity |-> req[e], outcome |-> outcome[e]]]
  /\ Leave(e, [status |-> "completed", identity |-> req[e], outcome |-> outcome[e]])
  /\ UNCHANGED <<requestFile, claimFile, runs>>

\* (mutant) an exception removes the claim again
RaiseAndUnclaim(e) ==
  /\ pc[e] \in Holding
  /\ claimFile' = [claimFile EXCEPT ![Key(e)] = None]
  /\ Leave(e, Raised)
  /\ UNCHANGED <<requestFile, receiptFile, runs>>

\* The state digests around the effect run git and read files, and the effect
\* itself may raise (an executable without permission): the exception leaves
\* the call and the claim stays behind.
RaiseWithClaim(e) ==
  /\ pc[e] \in Holding
  /\ Leave(e, Raised)
  /\ UNCHANGED <<files, runs>>

\* The kernel that runs the executor dies or is restarted; nothing is undone.
Crash(e) ==
  /\ pc[e] # "idle"
  /\ Leave(e, NoAnswer)
  /\ UNCHANGED <<files, runs>>

Step(e) == \/ CheckReceipt(e)
           \/ CheckRequest(e)
           \/ WriteRequest(e)
           \/ Claim(e)
           \/ AnswerWithoutClaim(e)
           \/ StartEffect(e)
           \/ FinishEffect(e)
           \/ WriteReceipt(e)

Next == \E e \in Executors : \/ \E r \in Requests : Call(e, r)
                             \/ Step(e)
                             \/ RaiseWithClaim(e)
                             \/ Crash(e)

Spec == Init /\ [][Next]_vars

\* An executor that is alive keeps going: the effect is bounded by
\* timeoutSeconds, and nothing in the call waits for another executor.  Calls,
\* exceptions and deaths are never owed.
FairSpec == Spec /\ \A e \in Executors : WF_vars(Step(e))

-----------------------------------------------------------------------------
(* Properties *)

TypeOK == /\ pc \in [Executors -> Steps]
          /\ req \in [Executors -> Requests \cup {None}]
          /\ outcome \in [Executors -> Outcomes \cup {"none"}]
          /\ answer \in [Executors -> Answer]
          /\ requestFile \in [Keys -> Requests \cup {None}]
          /\ claimFile \in [Keys -> Requests \cup {None}]
          /\ receiptFile \in [Keys -> Receipt \cup {NoReceipt}]
          /\ runs \in [Requests -> Nat]

\* README of the hooks: "one claim-protected effect".  Whatever executors
\* interleave, crash or repeat, the effects started under one operation key
\* are at most one, counting every request that shares the key.
AtMostOnce ==
  \A r, s \in Requests :
    (KeyOf[r] = KeyOf[s] /\ runs[r] > 0 /\ runs[s] > 0) => (r = s /\ runs[r] = 1)

\* A receipt on disk reports an effect that was started, for the request that
\* holds the claim: no receipt is invented, and none is filed under a key by a
\* request that did not win it.
ReceiptReportsEffect ==
  \A k \in Keys : receiptFile[k] # NoReceipt =>
    /\ claimFile[k] = receiptFile[k].identity
    /\ KeyOf[receiptFile[k].identity] = k
    /\ runs[receiptFile[k].identity] = 1

\* What a caller is told about its effect ("completed" or "replayed") is what
\* the durable receipt says, whoever wrote it and whatever happened since.
AnswerMatchesReceipt ==
  \A e \in Executors : answer[e].status \in {"completed", "replayed"} =>
    \E k \in Keys : receiptFile[k] = [identity |-> answer[e].identity,
                                      outcome |-> answer[e].outcome]

\* A terminal receipt is never replaced, not even by an equal key's request.
ReceiptIsTerminal ==
  [][\A k \in Keys : receiptFile[k] # NoReceipt => receiptFile'[k] = receiptFile[k]]_vars

\* Nobody is left to finish the claimed effect of key k.
Abandoned(k) == /\ claimFile[k] # None
                /\ receiptFile[k] = NoReceipt
                /\ \A e \in Executors : ~(pc[e] \in Holding /\ Key(e) = k)

\* "A claim with no terminal receipt produces claimed-without-receipt and is
\* never retried automatically": once its executor is gone, no step starts an
\* effect or files a receipt under the key.
NeverRetried ==
  [][\A k \in Keys : Abandoned(k) =>
       /\ Abandoned(k)'
       /\ \A r \in Requests : KeyOf[r] = k => runs'[r] = runs[r]]_vars

\* Every claim is resolved: it ends with its receipt, or it is abandoned.
ClaimResolves ==
  \A k \in Keys : (claimFile[k] # None) ~> (receiptFile[k] # NoReceipt \/ Abandoned(k))

-----------------------------------------------------------------------------
(* The promise, and the mapping under which the controller keeps it *)

UsedBy(k) == IF \E r \in Requests : KeyOf[r] = k /\ runs[r] > 0
             THEN CHOOSE r \in Requests : KeyOf[r] = k /\ runs[r] > 0
             ELSE None

Promise == INSTANCE OneUse WITH used    <- [k \in Keys |-> UsedBy(k)],
                                receipt <- receiptFile

\* The controller's files and steps implement the one-use promise.
KeepsPromise == Promise!Spec
=============================================================================
