--------------------------- MODULE OperationProofs ---------------------------
(***************************************************************************)
(* Proofs about the operation controller, for any number of executors,     *)
(* requests and operation keys, and about the operation workbook adapter   *)
(* over it, for any number of clients and sessions.                        *)
(*                                                                         *)
(* The argument for the controller: whoever is past _claim wrote the claim *)
(* of its key, so two such executors of one key are the same executor; an  *)
(* effect is started only from there, once per claim; and a receipt is     *)
(* written only after it, at the moment its writer stops holding.          *)
(*                                                                         *)
(* The argument for the adapter: a client changes the state of the         *)
(* controller only where Submit begins a call, which is a step of the      *)
(* controller, and where WriteBoundRequest replaces request.json, which    *)
(* the controller's invariant says nothing about but its type.  So that    *)
(* invariant, with its facts on receipts and answers, holds here too; what *)
(* a client is told is one of those answers, or the receipt read in the    *)
(* same step.                                                              *)
(***************************************************************************)
EXTENDS WorkbookAdapter, TLAPS

\* An executor inside the call carries the request it was called with.
CarriesRequest == \A e \in Executors : pc[e] # "idle" => req[e] \in Requests

\* The executor past _claim is the one whose request the claim names, and it
\* is alone under its key.
HolderOwnsClaim ==
  \A e \in Executors : pc[e] \in Holding => claimFile[Key(e)] = req[e]

HolderIsAlone ==
  \A e, f \in Executors :
    (pc[e] \in Holding /\ pc[f] \in Holding /\ Key(e) = Key(f)) => e = f

\* The effect has run as often as the holder's position says.
HolderCounts ==
  \A e \in Executors :
    /\ pc[e] = "claimed" => runs[req[e]] = 0
    /\ pc[e] \in {"running", "ran"} => runs[req[e]] = 1
    /\ pc[e] = "ran" => outcome[e] \in Outcomes

\* Only the request that holds the claim of its key was ever started.
StartedOwnsClaim ==
  \A r \in Requests : runs[r] > 0 => runs[r] = 1 /\ claimFile[KeyOf[r]] = r

\* Under a key with a receipt nobody holds the claim any more.
ReceiptEndsHolding ==
  \A k \in Keys : receiptFile[k] # NoReceipt =>
    \A e \in Executors : pc[e] \in Holding => Key(e) # k

\* The inductive invariant.
Inv == /\ TypeOK
       /\ CarriesRequest
       /\ HolderOwnsClaim
       /\ HolderIsAlone
       /\ HolderCounts
       /\ StartedOwnsClaim
       /\ ReceiptReportsEffect
       /\ ReceiptEndsHolding

-----------------------------------------------------------------------------
(* Facts about the values *)

\* The absent receipt is no receipt.
LEMMA NoReceiptIsNone == NoReceipt \notin Receipt
BY ControllerAssumption DEF NoReceipt, Receipt

\* Every call ends with an answer.
LEMMA AnswersTyped ==
  ASSUME TypeOK, CarriesRequest, NEW e \in Executors, pc[e] # "idle"
  PROVE  /\ Key(e) \in Keys
         /\ Raised \in Answer
         /\ NoAnswer \in Answer
         /\ receiptFile[Key(e)] # NoReceipt => Replayed(e) \in Answer
<1>1. req[e] \in Requests /\ Key(e) \in Keys
  BY ControllerAssumption DEF CarriesRequest, Key
<1>2. Raised \in Answer /\ NoAnswer \in Answer
  BY DEF Raised, NoAnswer, Answer, Statuses
<1>3. ASSUME receiptFile[Key(e)] # NoReceipt
      PROVE  Replayed(e) \in Answer
  <2>1. receiptFile[Key(e)] \in Receipt
    BY <1>1, <1>3 DEF TypeOK
  <2>2. /\ receiptFile[Key(e)].identity \in Requests
        /\ receiptFile[Key(e)].outcome \in Outcomes
    BY <2>1 DEF Receipt
  <2>3. CASE receiptFile[Key(e)].identity = req[e]
    BY <2>2, <2>3 DEF Replayed, Answer, Statuses
  <2>4. CASE receiptFile[Key(e)].identity # req[e]
    BY <2>4, <1>2 DEF Replayed
  <2>5. QED  BY <2>3, <2>4
<1>4. QED  BY <1>1, <1>2, <1>3

-----------------------------------------------------------------------------
(* Init establishes the invariant *)

LEMMA InitInv == Init => Inv
<1> SUFFICES ASSUME Init PROVE Inv
  OBVIOUS
<1>1. \A e \in Executors : pc[e] = "idle"
  BY DEF Init
<1>2. TypeOK
  BY DEF Init, TypeOK, Steps, Answer, NoAnswer, Statuses
<1>3. CarriesRequest /\ HolderOwnsClaim /\ HolderIsAlone /\ HolderCounts
  BY <1>1 DEF CarriesRequest, HolderOwnsClaim, HolderIsAlone, HolderCounts, Holding
<1>4. StartedOwnsClaim
  BY DEF Init, StartedOwnsClaim
<1>5. ReceiptReportsEffect /\ ReceiptEndsHolding
  BY DEF Init, ReceiptReportsEffect, ReceiptEndsHolding
<1>6. QED  BY <1>2, <1>3, <1>4, <1>5 DEF Inv

-----------------------------------------------------------------------------
(* Steps that touch neither a file nor a counter, and that do not make an    *)
(* executor a holder, keep the invariant: every conjunct but the types       *)
(* speaks of holders and files only.                                         *)
LEMMA QuietStep ==
  ASSUME Inv, TypeOK', NEW e \in Executors,
         UNCHANGED <<files, runs>>,
         CarriesRequest',
         pc'[e] \notin Holding,
         \A f \in Executors \ {e} :
            pc'[f] = pc[f] /\ req'[f] = req[f] /\ outcome'[f] = outcome[f]
  PROVE  Inv'
<1> USE DEF Inv
<1>1. \A f \in Executors : pc'[f] \in Holding =>
        /\ f # e
        /\ pc'[f] = pc[f] /\ req'[f] = req[f] /\ outcome'[f] = outcome[f]
        /\ Key(f)' = Key(f)
  BY DEF Key
<1>2. requestFile' = requestFile /\ claimFile' = claimFile
        /\ receiptFile' = receiptFile /\ runs' = runs
  BY DEF files
<1>3. HolderOwnsClaim'
  BY <1>1, <1>2 DEF HolderOwnsClaim
<1>4. HolderIsAlone'
  BY <1>1, <1>2 DEF HolderIsAlone
<1>5. HolderCounts'
  BY <1>1, <1>2 DEF HolderCounts, Holding
<1>6. StartedOwnsClaim' /\ ReceiptReportsEffect'
  BY <1>2 DEF StartedOwnsClaim, ReceiptReportsEffect
<1>7. ReceiptEndsHolding'
  BY <1>1, <1>2 DEF ReceiptEndsHolding
<1>8. QED  BY <1>3, <1>4, <1>5, <1>6, <1>7

\* Leaving the call is such a step when no file is written on the way out.
LEMMA LeavingStep ==
  ASSUME Inv, NEW e \in Executors, NEW a \in Answer,
         Leave(e, a), UNCHANGED <<files, runs>>
  PROVE  Inv'
<1>1. /\ pc' = [pc EXCEPT ![e] = "idle"]
      /\ req' = [req EXCEPT ![e] = None]
      /\ outcome' = [outcome EXCEPT ![e] = "none"]
      /\ answer' = [answer EXCEPT ![e] = a]
  BY DEF Leave
<1>2. TypeOK'
  BY <1>1 DEF Inv, TypeOK, Steps, files
<1>3. CarriesRequest'
  BY <1>1 DEF Inv, TypeOK, CarriesRequest
<1>4. pc'[e] \notin Holding
  BY <1>1 DEF Inv, TypeOK, Holding
<1>5. \A f \in Executors \ {e} :
        pc'[f] = pc[f] /\ req'[f] = req[f] /\ outcome'[f] = outcome[f]
  BY <1>1 DEF Inv, TypeOK
<1>6. QED  BY <1>2, <1>3, <1>4, <1>5, QuietStep

\* So is going on to a step before the claim.
LEMMA GoingStep ==
  ASSUME Inv, NEW e \in Executors, NEW step \in Steps \ Holding,
         pc[e] # "idle", Goto(e, step), UNCHANGED <<outcome, files, runs>>
  PROVE  Inv'
<1>1. pc' = [pc EXCEPT ![e] = step] /\ req' = req /\ answer' = answer
  BY DEF Goto
<1>2. TypeOK'
  BY <1>1 DEF Inv, TypeOK, Steps, files
<1>3. CarriesRequest'
  BY <1>1 DEF Inv, TypeOK, CarriesRequest
<1>4. pc'[e] \notin Holding
  BY <1>1 DEF Inv, TypeOK
<1>5. \A f \in Executors \ {e} :
        pc'[f] = pc[f] /\ req'[f] = req[f] /\ outcome'[f] = outcome[f]
  BY <1>1 DEF Inv, TypeOK
<1>6. QED  BY <1>2, <1>3, <1>4, <1>5, QuietStep

-----------------------------------------------------------------------------
(* The steps that matter: taking the claim, the effect, the receipt *)

LEMMA ClaimStep ==
  ASSUME Inv, NEW e \in Executors, Claim(e)
  PROVE  Inv'
<1> USE DEF Inv
<1>1. pc[e] = "claim" /\ req[e] \in Requests /\ Key(e) \in Keys
  BY ControllerAssumption DEF Claim, CarriesRequest, Key
<1>2. CASE claimFile[Key(e)] # None
  BY <1>1, <1>2, GoingStep DEF Claim, Steps, Holding, files
<1>3. CASE claimFile[Key(e)] = None
  <2>1. /\ pc' = [pc EXCEPT ![e] = "claimed"]
        /\ req' = req /\ answer' = answer /\ outcome' = outcome
        /\ requestFile' = requestFile /\ receiptFile' = receiptFile /\ runs' = runs
        /\ claimFile' = [claimFile EXCEPT ![Key(e)] = req[e]]
    BY <1>3 DEF Claim, Goto
  <2>2. \A f \in Executors : Key(f)' = Key(f)
    BY <2>1 DEF Key
  <2>3. \A f \in Executors : pc[f] \in Holding => Key(f) # Key(e)
    BY <1>3, ControllerAssumption DEF HolderOwnsClaim, CarriesRequest, Holding
  <2>4. TypeOK'
    BY <2>1, <1>1 DEF TypeOK, Steps
  <2>5. CarriesRequest'
    BY <2>1, <1>1 DEF CarriesRequest, TypeOK
  <2>6. HolderOwnsClaim'
    BY <2>1, <2>2, <2>3, <1>1 DEF HolderOwnsClaim, TypeOK
  <2>7. HolderIsAlone'
    BY <2>1, <2>2, <2>3 DEF HolderIsAlone, TypeOK
  <2>8. runs[req[e]] = 0
    BY <1>1, <1>3, ControllerAssumption DEF StartedOwnsClaim, Key, TypeOK
  <2>9. HolderCounts'
    BY <2>1, <2>8 DEF HolderCounts, TypeOK
  <2>10. StartedOwnsClaim'
    BY <2>1, <1>3, ControllerAssumption DEF StartedOwnsClaim, TypeOK
  <2>11. receiptFile[Key(e)] = NoReceipt
    BY <1>1, <1>3, ControllerAssumption, NoReceiptIsNone
    DEF ReceiptReportsEffect, TypeOK, Receipt
  <2>12. ReceiptReportsEffect'
    BY <2>1, <2>11 DEF ReceiptReportsEffect, TypeOK
  <2>13. ReceiptEndsHolding'
    BY <2>1, <2>2, <2>11 DEF ReceiptEndsHolding, TypeOK
  <2>14. QED
    BY <2>4, <2>5, <2>6, <2>7, <2>9, <2>10, <2>12, <2>13
<1>4. QED  BY <1>2, <1>3

LEMMA StartEffectStep ==
  ASSUME Inv, NEW e \in Executors, StartEffect(e)
  PROVE  Inv'
<1> USE DEF Inv
<1>1. /\ pc[e] = "claimed" /\ req[e] \in Requests /\ Key(e) \in Keys
      /\ claimFile[Key(e)] = req[e] /\ runs[req[e]] = 0
  BY ControllerAssumption
  DEF StartEffect, CarriesRequest, HolderOwnsClaim, HolderCounts, Holding, Key
<1>2. /\ pc' = [pc EXCEPT ![e] = "running"]
      /\ req' = req /\ answer' = answer /\ outcome' = outcome
      /\ requestFile' = requestFile /\ receiptFile' = receiptFile
      /\ claimFile' = claimFile
      /\ runs' = [runs EXCEPT ![req[e]] = @ + 1]
  BY DEF StartEffect, Goto, files
<1>3. runs' = [runs EXCEPT ![req[e]] = 1]
  BY <1>1, <1>2 DEF TypeOK
<1>4. \A f \in Executors : Key(f)' = Key(f)
  BY <1>2 DEF Key
<1>5. \A f \in Executors : pc[f] \in Holding /\ f # e => req[f] # req[e]
  BY <1>1 DEF HolderIsAlone, Key, Holding
<1>6. TypeOK' /\ CarriesRequest'
  BY <1>1, <1>2, <1>3 DEF TypeOK, Steps, CarriesRequest
<1>7. HolderOwnsClaim' /\ HolderIsAlone'
  BY <1>1, <1>2, <1>4 DEF HolderOwnsClaim, HolderIsAlone, TypeOK, Holding
<1>8. HolderCounts'
  BY <1>1, <1>2, <1>3, <1>5 DEF HolderCounts, TypeOK, Holding, CarriesRequest
<1>9. StartedOwnsClaim'
  BY <1>1, <1>2, <1>3 DEF StartedOwnsClaim, TypeOK, Key
<1>10. \A k \in Keys : receiptFile[k] # NoReceipt => receiptFile[k].identity # req[e]
  BY <1>1 DEF ReceiptReportsEffect
<1>11. ReceiptReportsEffect'
  <2> SUFFICES ASSUME NEW k \in Keys, receiptFile[k] # NoReceipt
               PROVE  runs'[receiptFile[k].identity] = 1
    BY <1>2 DEF ReceiptReportsEffect
  <2>1. receiptFile[k].identity \in Requests
    BY DEF TypeOK, Receipt
  <2>2. QED
    BY <2>1, <1>3, <1>10 DEF ReceiptReportsEffect, TypeOK
<1>12. ReceiptEndsHolding'
  BY <1>1, <1>2, <1>4 DEF ReceiptEndsHolding, TypeOK, Holding
<1>13. QED
  BY <1>6, <1>7, <1>8, <1>9, <1>11, <1>12

LEMMA FinishEffectStep ==
  ASSUME Inv, NEW e \in Executors, FinishEffect(e)
  PROVE  Inv'
<1> USE DEF Inv
<1>1. PICK o \in Outcomes : outcome' = [outcome EXCEPT ![e] = o]
  BY DEF FinishEffect
<1>2. /\ pc[e] = "running"
      /\ pc' = [pc EXCEPT ![e] = "ran"]
      /\ req' = req /\ answer' = answer
      /\ requestFile' = requestFile /\ receiptFile' = receiptFile
      /\ claimFile' = claimFile /\ runs' = runs
  BY DEF FinishEffect, Goto, files
<1>3. \A f \in Executors : Key(f)' = Key(f)
  BY <1>2 DEF Key
<1>4. TypeOK' /\ CarriesRequest'
  BY <1>1, <1>2 DEF TypeOK, Steps, CarriesRequest
<1>5. HolderOwnsClaim' /\ HolderIsAlone'
  BY <1>2, <1>3 DEF HolderOwnsClaim, HolderIsAlone, TypeOK, Holding
<1>6. HolderCounts'
  BY <1>1, <1>2 DEF HolderCounts, TypeOK
<1>7. StartedOwnsClaim' /\ ReceiptReportsEffect'
  BY <1>2 DEF StartedOwnsClaim, ReceiptReportsEffect
<1>8. ReceiptEndsHolding'
  BY <1>2, <1>3 DEF ReceiptEndsHolding, TypeOK, Holding
<1>9. QED
  BY <1>4, <1>5, <1>6, <1>7, <1>8

LEMMA WriteReceiptStep ==
  ASSUME Inv, NEW e \in Executors, WriteReceipt(e)
  PROVE  Inv'
<1> USE DEF Inv
<1> DEFINE written == [identity |-> req[e], outcome |-> outcome[e]]
           told == [status |-> "completed", identity |-> req[e], outcome |-> outcome[e]]
<1>1. /\ pc[e] = "ran" /\ req[e] \in Requests /\ Key(e) \in Keys
      /\ Key(e) = KeyOf[req[e]]
      /\ claimFile[Key(e)] = req[e] /\ runs[req[e]] = 1 /\ outcome[e] \in Outcomes
  BY ControllerAssumption
  DEF WriteReceipt, CarriesRequest, HolderOwnsClaim, HolderCounts, Holding, Key
<1>2. /\ receiptFile' = [receiptFile EXCEPT ![Key(e)] = written]
      /\ pc' = [pc EXCEPT ![e] = "idle"]
      /\ req' = [req EXCEPT ![e] = None]
      /\ outcome' = [outcome EXCEPT ![e] = "none"]
      /\ answer' = [answer EXCEPT ![e] = told]
      /\ requestFile' = requestFile /\ claimFile' = claimFile /\ runs' = runs
  BY DEF WriteReceipt, Leave
<1>3. written \in Receipt /\ told \in Answer
  BY <1>1 DEF Receipt, Answer, Statuses
<1>4. TypeOK'
  BY <1>1, <1>2, <1>3 DEF TypeOK, Steps
<1>5. \A f \in Executors : pc'[f] \in Holding =>
        /\ f # e /\ pc'[f] = pc[f] /\ req'[f] = req[f] /\ outcome'[f] = outcome[f]
        /\ Key(f)' = Key(f)
  BY <1>2 DEF TypeOK, Holding, Key
<1>6. CarriesRequest'
  BY <1>2 DEF CarriesRequest, TypeOK
<1>7. HolderOwnsClaim' /\ HolderIsAlone'
  BY <1>2, <1>5 DEF HolderOwnsClaim, HolderIsAlone
<1>8. HolderCounts'
  BY <1>2, <1>5 DEF HolderCounts, Holding
<1>9. StartedOwnsClaim'
  BY <1>2 DEF StartedOwnsClaim
<1>10. ReceiptReportsEffect'
  BY <1>1, <1>2 DEF ReceiptReportsEffect, TypeOK
<1>11. ReceiptEndsHolding'
  BY <1>1, <1>2, <1>5 DEF ReceiptEndsHolding, HolderIsAlone, Holding, TypeOK
<1>12. QED
  BY <1>4, <1>6, <1>7, <1>8, <1>9, <1>10, <1>11

-----------------------------------------------------------------------------
(* Every step keeps the invariant *)

LEMMA CallStep ==
  ASSUME Inv, NEW e \in Executors, NEW r \in Requests, Call(e, r)
  PROVE  Inv'
<1>1. Raised \in Answer /\ NoAnswer \in Answer
  BY DEF Raised, NoAnswer, Answer, Statuses
<1>2. CASE r \notin Admissible
  BY <1>1, <1>2, LeavingStep DEF Call
<1>3. CASE r \in Admissible
  <2>1. /\ pc' = [pc EXCEPT ![e] = "replay"]
        /\ req' = [req EXCEPT ![e] = r]
        /\ answer' = [answer EXCEPT ![e] = NoAnswer]
        /\ outcome' = outcome
        /\ UNCHANGED <<files, runs>>
    BY <1>3 DEF Call
  <2>2. TypeOK' /\ CarriesRequest'
    BY <2>1, <1>1 DEF Inv, TypeOK, CarriesRequest, Steps, files
  <2>3. pc'[e] \notin Holding
    BY <2>1 DEF Inv, TypeOK, Holding
  <2>4. \A f \in Executors \ {e} :
          pc'[f] = pc[f] /\ req'[f] = req[f] /\ outcome'[f] = outcome[f]
    BY <2>1 DEF Inv, TypeOK
  <2>5. QED  BY <2>1, <2>2, <2>3, <2>4, QuietStep DEF Inv
<1>4. QED  BY <1>2, <1>3

LEMMA WriteRequestStep ==
  ASSUME Inv, NEW e \in Executors, WriteRequest(e)
  PROVE  Inv'
<1> USE DEF Inv
<1>1. /\ pc[e] = "write-request" /\ req[e] \in Requests
      /\ pc' = [pc EXCEPT ![e] = "claim"]
      /\ req' = req /\ answer' = answer /\ outcome' = outcome
      /\ requestFile' = [requestFile EXCEPT ![Key(e)] = req[e]]
      /\ claimFile' = claimFile /\ receiptFile' = receiptFile /\ runs' = runs
  BY DEF WriteRequest, Goto, CarriesRequest
<1>2. \A f \in Executors : pc'[f] \in Holding => pc'[f] = pc[f]
  BY <1>1 DEF TypeOK, Holding
<1>3. \A f \in Executors : Key(f)' = Key(f)
  BY <1>1 DEF Key
<1>4. TypeOK' /\ CarriesRequest'
  BY <1>1 DEF TypeOK, CarriesRequest, Steps
<1>5. HolderOwnsClaim' /\ HolderIsAlone'
  BY <1>1, <1>2, <1>3 DEF HolderOwnsClaim, HolderIsAlone
<1>6. HolderCounts'
  BY <1>1, <1>2 DEF HolderCounts, Holding
<1>7. StartedOwnsClaim' /\ ReceiptReportsEffect'
  BY <1>1 DEF StartedOwnsClaim, ReceiptReportsEffect
<1>8. ReceiptEndsHolding'
  BY <1>1, <1>2, <1>3 DEF ReceiptEndsHolding
<1>9. QED
  BY <1>4, <1>5, <1>6, <1>7, <1>8

LEMMA NextInv == Inv /\ [Next]_vars => Inv'
<1> SUFFICES ASSUME Inv, [Next]_vars PROVE Inv'
  OBVIOUS
<1>1. CASE UNCHANGED vars
  BY <1>1 DEF vars, files, Inv, TypeOK, CarriesRequest, HolderOwnsClaim, HolderIsAlone,
     HolderCounts, StartedOwnsClaim, ReceiptReportsEffect, ReceiptEndsHolding, Key
<1>2. ASSUME NEW e \in Executors, NEW r \in Requests, Call(e, r)
      PROVE  Inv'
  BY <1>2, CallStep
<1>3. ASSUME NEW e \in Executors, Step(e) \/ RaiseWithClaim(e) \/ Crash(e)
      PROVE  Inv'
  <2> USE AnswersTyped DEF Inv
  <2>1. CASE CheckReceipt(e)
    BY <2>1, LeavingStep, GoingStep DEF CheckReceipt, Steps, Holding
  <2>2. CASE CheckRequest(e)
    BY <2>2, LeavingStep, GoingStep DEF CheckRequest, Steps, Holding
  <2>3. CASE WriteRequest(e)
    BY <2>3, WriteRequestStep
  <2>4. CASE Claim(e)
    BY <2>4, ClaimStep
  <2>5. CASE AnswerWithoutClaim(e)
    <3> DEFINE unknown == [status |-> "claimed-without-receipt", identity |-> req[e],
                           outcome |-> "indeterminate"]
    <3>1. unknown \in Answer
      BY <2>5 DEF AnswerWithoutClaim, CarriesRequest, Answer, Statuses
    <3>2. QED
      BY <3>1, <2>5, LeavingStep DEF AnswerWithoutClaim
  <2>6. CASE StartEffect(e)
    BY <2>6, StartEffectStep
  <2>7. CASE FinishEffect(e)
    BY <2>7, FinishEffectStep
  <2>8. CASE WriteReceipt(e)
    BY <2>8, WriteReceiptStep
  <2>9. CASE RaiseWithClaim(e)
    BY <2>9, LeavingStep DEF RaiseWithClaim, Holding
  <2>10. CASE Crash(e)
    BY <2>10, LeavingStep DEF Crash
  <2>11. QED
    BY <1>3, <2>1, <2>2, <2>3, <2>4, <2>5, <2>6, <2>7, <2>8, <2>9, <2>10 DEF Step
<1>4. QED
  BY <1>1, <1>2, <1>3 DEF Next

\* The invariant holds in every reachable state.
LEMMA InvHolds == Spec => []Inv
<1>1. QED  BY InitInv, NextInv, PTL DEF Spec

-----------------------------------------------------------------------------
(* Theorems *)

\* Every variable of the controller keeps its type, for any number of
\* executors, requests and keys.
THEOREM Typed == Spec => []TypeOK
<1>1. Inv => TypeOK
  BY DEF Inv
<1>2. QED  BY <1>1, InvHolds, PTL

LEMMA InvGivesAtMostOnce == Inv => AtMostOnce
<1> SUFFICES ASSUME Inv, NEW r \in Requests, NEW s \in Requests,
                    KeyOf[r] = KeyOf[s], runs[r] > 0, runs[s] > 0
             PROVE  r = s /\ runs[r] = 1
  BY DEF AtMostOnce
<1>1. runs[r] = 1 /\ claimFile[KeyOf[r]] = r /\ claimFile[KeyOf[s]] = s
  BY DEF Inv, StartedOwnsClaim
<1>2. QED  BY <1>1

\* One operation key starts at most one effect (execute_controller_request):
\* the exclusive claim suffices, though request.json is checked and written
\* without exclusion.
THEOREM EffectAtMostOnce == Spec => []AtMostOnce
<1>1. QED  BY InvGivesAtMostOnce, InvHolds, PTL

\* A receipt on disk names the request that won the claim and whose effect ran.
THEOREM ReceiptsAreTrue == Spec => []ReceiptReportsEffect
<1>1. Inv => ReceiptReportsEffect
  BY DEF Inv
<1>2. QED  BY <1>1, InvHolds, PTL

\* A step that files a receipt files it where there was none.
LEMMA StepKeepsReceipts ==
  ASSUME Inv, [Next]_vars, NEW k \in Keys, receiptFile[k] # NoReceipt
  PROVE  receiptFile'[k] = receiptFile[k]
<1>1. CASE UNCHANGED receiptFile
  BY <1>1
<1>2. ASSUME NEW e \in Executors, WriteReceipt(e)
      PROVE  receiptFile'[k] = receiptFile[k]
  <2>1. Key(e) # k
    BY <1>2 DEF Inv, ReceiptEndsHolding, WriteReceipt, Holding
  <2>2. QED  BY <1>2, <2>1 DEF WriteReceipt, Inv, TypeOK
<1>3. QED
  BY <1>1, <1>2
  DEF Next, Step, vars, files, Call, CheckReceipt, CheckRequest, WriteRequest, Claim,
      AnswerWithoutClaim, StartEffect, FinishEffect, RaiseWithClaim, Crash

\* No step replaces a receipt (_atomic_json would do so silently): the one
\* writer of receipt.json is a holder, and a holder's key has no receipt.
THEOREM ReceiptsAreTerminal == Spec => ReceiptIsTerminal
<1>1. Inv /\ [Next]_vars =>
        [\A k \in Keys : receiptFile[k] # NoReceipt => receiptFile'[k] = receiptFile[k]]_vars
  BY StepKeepsReceipts
<1>2. QED  BY <1>1, InvHolds, PTL DEF Spec, ReceiptIsTerminal

-----------------------------------------------------------------------------
(* Answers *)

\* The receipt file that backs the answer of executor e.
Backed(e) ==
  answer[e].status \in {"completed", "replayed"} =>
    /\ answer[e].identity \in Requests
    /\ \E k \in Keys : receiptFile[k] = [identity |-> answer[e].identity,
                                       outcome |-> answer[e].outcome]

\* An answer that was true stays true.
LEMMA BackedAnswerStays ==
  ASSUME Inv, [Next]_vars, NEW e \in Executors, Backed(e), answer'[e] = answer[e]
  PROVE  Backed(e)'
<1> SUFFICES ASSUME answer[e].status \in {"completed", "replayed"}
             PROVE  \E k \in Keys : receiptFile'[k] = [identity |-> answer[e].identity,
                                                       outcome |-> answer[e].outcome]
  BY DEF Backed
<1>1. PICK k \in Keys : receiptFile[k] = [identity |-> answer[e].identity,
                                         outcome |-> answer[e].outcome]
  BY DEF Backed
<1>2. receiptFile[k] # NoReceipt
  BY <1>1, ControllerAssumption DEF Backed, NoReceipt
<1>3. QED  BY <1>1, <1>2, StepKeepsReceipts

\* A replayed answer is the receipt that was read.
LEMMA ReplayedIsBacked ==
  ASSUME Inv, NEW e \in Executors, pc[e] # "idle", receiptFile[Key(e)] # NoReceipt,
         Leave(e, Replayed(e)), UNCHANGED <<files, runs>>
  PROVE  Backed(e)'
<1>1. receiptFile[Key(e)] \in Receipt /\ Key(e) \in Keys
  BY AnswersTyped DEF Inv, TypeOK
<1>2. answer'[e] = Replayed(e) /\ receiptFile' = receiptFile
  BY DEF Leave, Inv, TypeOK, files
<1>3. CASE receiptFile[Key(e)].identity = req[e]
  <2>1. /\ answer'[e].identity = receiptFile[Key(e)].identity
        /\ answer'[e].outcome = receiptFile[Key(e)].outcome
    BY <1>2, <1>3 DEF Replayed
  <2>2. QED  BY <1>1, <1>2, <2>1 DEF Backed, Receipt
<1>4. CASE receiptFile[Key(e)].identity # req[e]
  BY <1>2, <1>4 DEF Replayed, Raised, Backed
<1>5. QED  BY <1>3, <1>4

LEMMA AnswersStayBacked ==
  ASSUME Inv, [Next]_vars, \A f \in Executors : Backed(f)
  PROVE  \A f \in Executors : Backed(f)'
<1>1. CASE UNCHANGED answer
  BY <1>1, BackedAnswerStays
<1>2. ASSUME NEW e \in Executors, NEW a, Leave(e, a), Backed(e)'
      PROVE  \A f \in Executors : Backed(f)'
  <2>1. \A f \in Executors \ {e} : answer'[f] = answer[f]
    BY <1>2 DEF Leave, Inv, TypeOK
  <2>2. QED  BY <1>2, <2>1, BackedAnswerStays
<1>3. ASSUME NEW e \in Executors, NEW a, Leave(e, a),
             a.status \notin {"completed", "replayed"}
      PROVE  \A f \in Executors : Backed(f)'
  <2>1. Backed(e)'
    BY <1>3 DEF Backed, Leave, Inv, TypeOK
  <2>2. QED  BY <1>2, <1>3, <2>1
<1>4. Raised.status = "raised" /\ NoAnswer.status = "none"
  BY DEF Raised, NoAnswer
<1>5. ASSUME NEW e \in Executors, NEW r \in Requests, Call(e, r)
      PROVE  \A f \in Executors : Backed(f)'
  <2>1. CASE r \notin Admissible
    BY <1>3, <1>4, <1>5, <2>1 DEF Call
  <2>2. CASE r \in Admissible
    <3>1. answer' = [answer EXCEPT ![e] = NoAnswer]
      BY <1>5, <2>2 DEF Call
    <3>2. Backed(e)'
      BY <1>4, <3>1 DEF Backed, Inv, TypeOK
    <3>3. \A f \in Executors \ {e} : answer'[f] = answer[f]
      BY <3>1 DEF Inv, TypeOK
    <3>4. QED  BY <3>2, <3>3, BackedAnswerStays
  <2>3. QED  BY <2>1, <2>2
<1>6. ASSUME NEW e \in Executors, CheckReceipt(e) \/ AnswerWithoutClaim(e)
      PROVE  \A f \in Executors : Backed(f)'
  <2>1. CASE receiptFile[Key(e)] # NoReceipt
    <3>1. Leave(e, Replayed(e)) /\ UNCHANGED <<files, runs>> /\ pc[e] # "idle"
      BY <1>6, <2>1 DEF CheckReceipt, AnswerWithoutClaim
    <3>2. QED  BY <1>2, <2>1, <3>1, ReplayedIsBacked
  <2>2. CASE receiptFile[Key(e)] = NoReceipt /\ CheckReceipt(e)
    BY <1>1, <2>2 DEF CheckReceipt, Goto
  <2>3. CASE receiptFile[Key(e)] = NoReceipt /\ AnswerWithoutClaim(e)
    BY <1>3, <2>3 DEF AnswerWithoutClaim
  <2>4. QED  BY <1>6, <2>1, <2>2, <2>3
<1>7. ASSUME NEW e \in Executors, WriteReceipt(e)
      PROVE  \A f \in Executors : Backed(f)'
  <2> DEFINE told == [status |-> "completed", identity |-> req[e], outcome |-> outcome[e]]
  <2>1. req[e] \in Requests /\ Key(e) \in Keys
    BY <1>7, ControllerAssumption DEF WriteReceipt, Inv, CarriesRequest, Key
  <2>2. /\ Leave(e, told)
        /\ receiptFile'[Key(e)] = [identity |-> req[e], outcome |-> outcome[e]]
    BY <1>7, <2>1 DEF WriteReceipt, Inv, TypeOK
  <2>3. Backed(e)'
    BY <2>1, <2>2 DEF Backed, Leave, Inv, TypeOK
  <2>4. QED  BY <1>2, <2>2, <2>3
<1>8. ASSUME NEW e \in Executors, CheckRequest(e) \/ RaiseWithClaim(e) \/ Crash(e)
      PROVE  \A f \in Executors : Backed(f)'
  BY <1>1, <1>3, <1>4, <1>8 DEF CheckRequest, RaiseWithClaim, Crash, Goto
<1>9. ASSUME NEW e \in Executors,
             WriteRequest(e) \/ Claim(e) \/ StartEffect(e) \/ FinishEffect(e)
      PROVE  \A f \in Executors : Backed(f)'
  BY <1>1, <1>9 DEF WriteRequest, Claim, StartEffect, FinishEffect, Goto
<1>10. QED
  BY <1>1, <1>5, <1>6, <1>7, <1>8, <1>9 DEF Next, Step, vars

\* A caller who is told an outcome is told the durable one, for good: the
\* receipt that backs the answer is never replaced afterwards.
THEOREM AnswersAreDurable == Spec => []AnswerMatchesReceipt
<1> DEFINE AllBacked == \A f \in Executors : Backed(f)
<1>1. Init => AllBacked
  BY DEF Init, Backed, NoAnswer
<1>2. Inv /\ AllBacked /\ [Next]_vars => AllBacked'
  BY AnswersStayBacked
<1>3. AllBacked => AnswerMatchesReceipt
  BY DEF Backed, AnswerMatchesReceipt
<1> HIDE DEF AllBacked
<1>4. QED  BY <1>1, <1>2, <1>3, InvHolds, PTL DEF Spec

-----------------------------------------------------------------------------
(* Abandoned claims *)

LEMMA AbandonedStays ==
  ASSUME Inv, [Next]_vars, NEW k \in Keys, Abandoned(k)
  PROVE  /\ Abandoned(k)'
         /\ \A r \in Requests : KeyOf[r] = k => runs'[r] = runs[r]
<1> USE DEF Inv
<1>1. ASSUME NEW e \in Executors, pc[e] # "idle", Key(e) = k
      PROVE  pc[e] \notin Holding
  BY <1>1 DEF Abandoned
<1>2. CASE UNCHANGED vars
  BY <1>2 DEF vars, files, Abandoned, Key
<1>3. ASSUME NEW e \in Executors, Claim(e)
      PROVE  /\ Abandoned(k)'
             /\ UNCHANGED runs
  <2>1. CASE Key(e) = k
    <3>1. /\ pc' = [pc EXCEPT ![e] = "lost-claim"]
          /\ UNCHANGED <<req, files, runs>>
      BY <1>3, <2>1 DEF Claim, Goto, Abandoned, files
    <3>2. QED  BY <3>1 DEF Abandoned, Key, files, TypeOK, Holding
  <2>2. CASE Key(e) # k
    <3>1. /\ pc' \in {[pc EXCEPT ![e] = "claimed"], [pc EXCEPT ![e] = "lost-claim"]}
          /\ claimFile'[k] = claimFile[k]
          /\ UNCHANGED <<req, receiptFile, runs>>
      BY <1>3, <2>2 DEF Claim, Goto, TypeOK
    <3>2. QED  BY <2>2, <3>1 DEF Abandoned, Key, TypeOK, Holding
  <2>3. QED  BY <2>1, <2>2
<1>4. ASSUME NEW e \in Executors, StartEffect(e) \/ FinishEffect(e)
      PROVE  /\ Abandoned(k)'
             /\ \A r \in Requests : KeyOf[r] = k => runs'[r] = runs[r]
  <2>1. pc[e] \in Holding /\ Key(e) # k
    BY <1>1, <1>4 DEF StartEffect, FinishEffect, Holding
  <2>2. /\ pc' \in {[pc EXCEPT ![e] = "running"], [pc EXCEPT ![e] = "ran"]}
        /\ UNCHANGED <<req, claimFile, receiptFile>>
    BY <1>4 DEF StartEffect, FinishEffect, Goto, files
  <2>3. \A r \in Requests : KeyOf[r] = k => runs'[r] = runs[r]
    BY <1>4, <2>1 DEF StartEffect, FinishEffect, Key, TypeOK
  <2>4. QED  BY <2>1, <2>2, <2>3 DEF Abandoned, Key, TypeOK, Holding
<1>5. ASSUME NEW e \in Executors, WriteReceipt(e)
      PROVE  Abandoned(k)' /\ UNCHANGED runs
  <2>1. Key(e) # k
    BY <1>1, <1>5 DEF WriteReceipt, Holding
  <2>2. /\ pc' = [pc EXCEPT ![e] = "idle"] /\ req' = [req EXCEPT ![e] = None]
        /\ receiptFile'[k] = receiptFile[k] /\ UNCHANGED <<claimFile, runs>>
    BY <1>5, <2>1 DEF WriteReceipt, Leave, TypeOK
  <2>3. QED  BY <2>2 DEF Abandoned, Key, TypeOK, Holding
<1>6. ASSUME NEW e \in Executors, NEW a, Leave(e, a), UNCHANGED <<files, runs>>
      PROVE  Abandoned(k)' /\ UNCHANGED runs
  BY <1>6 DEF Leave, Abandoned, Key, TypeOK, Holding, files
<1>7. ASSUME NEW e \in Executors, NEW step \in Steps \ Holding, Goto(e, step),
             UNCHANGED <<claimFile, receiptFile, runs>>
      PROVE  Abandoned(k)' /\ UNCHANGED runs
  BY <1>7 DEF Goto, Abandoned, Key, TypeOK
<1>8. ASSUME NEW e \in Executors, NEW r \in Requests, Call(e, r)
      PROVE  Abandoned(k)' /\ UNCHANGED runs
  <2>1. CASE r \in Admissible
    BY <1>8, <2>1 DEF Call, Abandoned, Key, TypeOK, Holding, files
  <2>2. CASE r \notin Admissible
    BY <1>8, <2>2, <1>6 DEF Call
  <2>3. QED  BY <2>1, <2>2
<1>9. ASSUME NEW e \in Executors,
             CheckReceipt(e) \/ CheckRequest(e) \/ WriteRequest(e) \/ AnswerWithoutClaim(e)
             \/ RaiseWithClaim(e) \/ Crash(e)
      PROVE  Abandoned(k)' /\ UNCHANGED runs
  <2>1. {"bind", "write-request", "claim"} \subseteq Steps \ Holding
    BY DEF Steps, Holding
  <2>2. CASE CheckReceipt(e) \/ CheckRequest(e) \/ WriteRequest(e)
    BY <1>6, <1>7, <2>1, <2>2 DEF CheckReceipt, CheckRequest, WriteRequest, files
  <2>3. CASE AnswerWithoutClaim(e) \/ RaiseWithClaim(e) \/ Crash(e)
    BY <1>6, <2>3 DEF AnswerWithoutClaim, RaiseWithClaim, Crash
  <2>4. QED  BY <1>9, <2>2, <2>3
<1>10. QED
  BY <1>2, <1>3, <1>4, <1>5, <1>8, <1>9 DEF Next, Step

\* A claim whose executor is gone stays as it is: no later call, of whatever
\* request, starts an effect or files a receipt under its key.
THEOREM AbandonedIsNeverRetried == Spec => NeverRetried
<1>1. Inv /\ [Next]_vars =>
        [\A k \in Keys : Abandoned(k) =>
           /\ Abandoned(k)'
           /\ \A r \in Requests : KeyOf[r] = k => runs'[r] = runs[r]]_vars
  BY AbandonedStays
<1>2. QED  BY <1>1, InvHolds, PTL DEF Spec, NeverRetried

-----------------------------------------------------------------------------
(* The controller implements the one-use promise *)

\* Under the invariant the started request of a key is the one in its claim.
LEMMA UsedByFacts ==
  ASSUME Inv, NEW k \in Keys
  PROVE  /\ \A r \in Requests : KeyOf[r] = k /\ runs[r] > 0 => UsedBy(k) = r
         /\ (\A r \in Requests : KeyOf[r] = k => runs[r] = 0) => UsedBy(k) = None
<1>1. ASSUME NEW r \in Requests, KeyOf[r] = k, runs[r] > 0
      PROVE  UsedBy(k) = r
  <2>1. PICK s \in Requests : KeyOf[s] = k /\ runs[s] > 0 /\ UsedBy(k) = s
    BY <1>1 DEF UsedBy
  <2>2. QED  BY <1>1, <2>1, InvGivesAtMostOnce DEF AtMostOnce
<1>2. ASSUME \A r \in Requests : KeyOf[r] = k => runs[r] = 0
      PROVE  UsedBy(k) = None
  BY <1>2 DEF UsedBy
<1>3. QED  BY <1>1, <1>2

\* A step that changes no counter changes no use.
LEMMA UsedByUnchanged ==
  ASSUME runs' = runs, NEW k \in Keys
  PROVE  UsedBy(k)' = UsedBy(k)
BY DEF UsedBy

LEMMA InitPromise == Init => Promise!Init
<1> SUFFICES ASSUME Init PROVE Promise!Init
  OBVIOUS
<1>1. \A k \in Keys : UsedBy(k) = None
  BY DEF Init, UsedBy
<1>2. receiptFile = [k \in Keys |-> NoReceipt]
  BY DEF Init
<1>3. QED  BY <1>1, <1>2 DEF Promise!Init, Promise!NoReceipt, NoReceipt

LEMMA StepPromise == Inv /\ Inv' /\ [Next]_vars => [Promise!Next]_(Promise!vars)
<1> SUFFICES ASSUME Inv, Inv', [Next]_vars PROVE [Promise!Next]_(Promise!vars)
  OBVIOUS
<1> DEFINE uses == [k \in Keys |-> UsedBy(k)]
<1>1. CASE UNCHANGED <<runs, receiptFile>>
  <2>1. uses' = uses
    BY <1>1, UsedByUnchanged
  <2>2. QED  BY <1>1, <2>1 DEF Promise!vars
<1>2. ASSUME NEW e \in Executors, StartEffect(e)
      PROVE  Promise!Next
  <2>1. /\ req[e] \in Requests /\ Key(e) \in Keys /\ Key(e) = KeyOf[req[e]]
        /\ claimFile[Key(e)] = req[e] /\ runs[req[e]] = 0
        /\ runs' = [runs EXCEPT ![req[e]] = 1] /\ receiptFile' = receiptFile
    <3>1. pc[e] = "claimed" /\ req[e] \in Requests
      BY <1>2 DEF StartEffect, Inv, CarriesRequest
    <3>2. claimFile[Key(e)] = req[e] /\ runs[req[e]] = 0
      BY <3>1 DEF Inv, HolderOwnsClaim, HolderCounts, Holding
    <3>3. runs' = [runs EXCEPT ![req[e]] = @ + 1] /\ receiptFile' = receiptFile
      BY <1>2 DEF StartEffect, files
    <3>4. QED  BY <3>1, <3>2, <3>3, ControllerAssumption DEF Key
  <2>2. \A r \in Requests : KeyOf[r] = Key(e) => runs[r] = 0
    BY <2>1 DEF Inv, StartedOwnsClaim, TypeOK
  <2>3. UsedBy(Key(e)) = None
    BY <2>1, <2>2, UsedByFacts
  <2>4. \A r \in Requests : runs'[r] > 0 /\ KeyOf[r] = Key(e) => r = req[e]
    BY <2>1, <2>2 DEF Inv, TypeOK
  <2>5. runs'[req[e]] > 0
    BY <2>1 DEF Inv, TypeOK
  <2>6. IF \E r \in Requests : KeyOf[r] = Key(e) /\ runs'[r] > 0
        THEN (CHOOSE r \in Requests : KeyOf[r] = Key(e) /\ runs'[r] > 0) = req[e]
        ELSE FALSE
    BY <2>1, <2>4, <2>5
  <2>7. ASSUME NEW k \in Keys
        PROVE  uses'[k] = IF k = Key(e) THEN req[e] ELSE uses[k]
    <3>1. CASE k = Key(e)
      BY <3>1, <2>6 DEF UsedBy
    <3>2. CASE k # Key(e)
      <4>1. \A r \in Requests : KeyOf[r] = k => runs'[r] = runs[r]
        BY <2>1, <3>2 DEF Inv, TypeOK
      <4>2. CASE \E r \in Requests : KeyOf[r] = k /\ runs[r] > 0
        <5>1. PICK r \in Requests : KeyOf[r] = k /\ runs[r] > 0
          BY <4>2
        <5>2. UsedBy(k) = r
          BY <5>1, UsedByFacts
        <5>3. \A s \in Requests : KeyOf[s] = k /\ runs'[s] > 0 => s = r
          BY <4>1, <5>1, InvGivesAtMostOnce DEF AtMostOnce
        <5>4. UsedBy(k)' = r
          BY <4>1, <5>1, <5>3 DEF UsedBy
        <5>5. QED  BY <3>2, <5>2, <5>4
      <4>3. CASE ~\E r \in Requests : KeyOf[r] = k /\ runs[r] > 0
        BY <3>2, <4>1, <4>3 DEF UsedBy
      <4>4. QED  BY <4>2, <4>3
    <3>3. QED  BY <3>1, <3>2
  <2>8. uses' = [uses EXCEPT ![KeyOf[req[e]]] = req[e]]
    BY <2>1, <2>7
  <2>9. Promise!Use(req[e])
    BY <2>1, <2>3, <2>8 DEF Promise!Use
  <2>10. QED  BY <2>1, <2>9 DEF Promise!Next
<1>3. ASSUME NEW e \in Executors, WriteReceipt(e)
      PROVE  Promise!Next
  <2>1. /\ req[e] \in Requests /\ Key(e) \in Keys /\ Key(e) = KeyOf[req[e]]
        /\ runs[req[e]] = 1 /\ outcome[e] \in Outcomes
        /\ receiptFile[Key(e)] = NoReceipt
    BY <1>3, ControllerAssumption
    DEF WriteReceipt, Inv, CarriesRequest, HolderCounts, ReceiptEndsHolding, Holding, Key
  <2>2. UsedBy(Key(e)) = req[e]
    BY <2>1, UsedByFacts
  <2>3. req[e] # None
    BY <2>1, ControllerAssumption
  <2>4. /\ runs' = runs
        /\ receiptFile' = [receiptFile EXCEPT
                             ![Key(e)] = [identity |-> req[e], outcome |-> outcome[e]]]
    BY <1>3 DEF WriteReceipt
  <2>5. uses' = uses
    BY <2>4, UsedByUnchanged
  <2>6. Promise!Report(Key(e), outcome[e])
    BY <2>1, <2>2, <2>3, <2>4, <2>5
    DEF Promise!Report, Promise!NoReceipt, NoReceipt
  <2>7. QED  BY <2>1, <2>6 DEF Promise!Next
<1>4. QED
  BY <1>1, <1>2, <1>3
  DEF Next, Step, vars, files, Call, CheckReceipt, CheckRequest, WriteRequest, Claim,
      AnswerWithoutClaim, FinishEffect, RaiseWithClaim, Crash

\* The files and steps of the controller implement OneUse: under every key one
\* request at most is put to use, once, and only its effect is ever reported.
THEOREM ControllerImplementsOneUse == Spec => KeepsPromise
<1>1. QED
  BY InitPromise, StepPromise, InvHolds, PTL DEF Spec, KeepsPromise, Promise!Spec

-----------------------------------------------------------------------------
(* The invariant of the adapter *)

Places  == {"idle", "write-request", "resolve", "unreleased", "unbound", "write-binding",
            "released", "stored", "revoked", "session", "operate", "await"}
Bound   == Places \ {"idle", "write-request", "resolve"}
Tasks   == [op : {"none", "bind"} \cup Operations, request : Requests \cup {None},
            binding : Binding \cup {None}]
Results == [status : ResultStatuses, identity : Requests \cup {None},
            outcome : Outcomes \cup {"none", "indeterminate"}]

FilesTyped == /\ bindingFile \in [Keys -> Binding \cup {None}]
              /\ releaseFile \in [Keys -> Binding \cup {None}]
              /\ issued \subseteq Binding
              /\ session \in Sessions \cup {None}

\* A client inside a call has its request, past the session its binding, and
\* while it waits its execution.
ClientsTyped ==
  /\ at \in [Clients -> Places]
  /\ task \in [Clients -> Tasks]
  /\ ran \in [Clients -> Executors \cup {None}]
  /\ result \in [Clients -> Results]
  /\ \A c \in Clients : /\ at[c] # "idle" => task[c].request \in Requests
                        /\ at[c] \in Bound => task[c].binding \in Binding
                        /\ at[c] = "await" => ran[c] \in Executors

AdapterTypeOK == TypeOK /\ FilesTyped /\ ClientsTyped

\* The receipt that backs what a client was told.
IsBacked(r) ==
  (r.status \in {"completed", "replayed", "observed"} /\ r.identity # None)
    => receiptFile[KeyOf[r.identity]] = [identity |-> r.identity, outcome |-> r.outcome]

\* The inductive invariant.
AdapterInv == /\ Inv
              /\ \A e \in Executors : Backed(e)
              /\ FilesTyped
              /\ ClientsTyped
              /\ \A c \in Clients : IsBacked(result[c])

-----------------------------------------------------------------------------
(* Serving a call keeps the types *)

LEMMA GoTyped ==
  ASSUME ClientsTyped, NEW c \in Clients, NEW place \in Places \ {"idle", "await"},
         at[c] # "idle", place \in Bound => at[c] \in Bound, Go(c, place)
  PROVE  ClientsTyped'
BY DEF ClientsTyped, Go

LEMMA FinishTyped ==
  ASSUME ClientsTyped, NEW c \in Clients, NEW r \in Results, Finish(c, r)
  PROVE  ClientsTyped'
<1>1. NoTask \in Tasks /\ "idle" \in Places \ Bound
  BY DEF NoTask, Tasks, Places, Bound
<1>2. QED  BY <1>1 DEF ClientsTyped, Finish, Bound

LEMMA StartTyped ==
  ASSUME ClientsTyped, NEW c \in Clients, NEW t \in Tasks, t.request \in Requests,
         NEW place \in Places \ {"idle", "await"},
         place \in Bound => t.binding \in Binding,
         Start(c, t, place)
  PROVE  ClientsTyped'
<1>1. Plain("none") \in Results
  BY DEF Plain, Results, ResultStatuses, Statuses
<1>2. QED  BY <1>1 DEF ClientsTyped, Start

\* What a step without a receipt returns, and what it says: nothing.
LEMMA PlainResults ==
  ASSUME NEW s \in ResultStatuses
  PROVE  /\ Plain(s) \in Results
         /\ Plain(s).identity = None
BY DEF Plain, Results

-----------------------------------------------------------------------------
(* What a step does to the controller *)

\* A step of the adapter is a step of the controller, or leaves it alone,
\* unless it is WriteBoundRequest, which replaces a request file.
LEMMA ControllerMoves ==
  ASSUME ClientsTyped, [AdapterNext]_adapterVars
  PROVE  [Next]_vars \/ \E c \in Clients : WriteBoundRequest(c)
<1>1. ASSUME Quietly
      PROVE  UNCHANGED vars
  BY <1>1 DEF Quietly, kernelVars, vars
<1>2. CASE UNCHANGED adapterVars
  BY <1>2 DEF adapterVars, kernelVars, vars
<1>3. ASSUME NEW c \in Clients, NEW r \in Requests, Bind(c, r)
      PROVE  UNCHANGED vars
  BY <1>1, <1>3 DEF Bind
<1>4. ASSUME NEW c \in Clients, NEW op \in Operations, NEW r \in Requests,
             NEW b \in Binding, Operate(c, op, r, b)
      PROVE  UNCHANGED vars
  BY <1>1, <1>4 DEF Operate
<1>5. ASSUME NEW c \in Clients, Submit(c)
      PROVE  [Next]_vars
  <2>1. CASE \E e \in Executors : Call(e, Wanted(c))
    <3>1. Wanted(c) \in Requests
      BY <1>5 DEF Submit, Wanted, ClientsTyped
    <3>2. QED  BY <2>1, <3>1 DEF Next
  <2>2. CASE UNCHANGED <<kernelVars, requestFile>>
    BY <2>2 DEF kernelVars, vars
  <2>3. QED  BY <1>5, <2>1, <2>2 DEF Submit
<1>6. ASSUME NEW c \in Clients, Serve(c)
      PROVE  [Next]_vars \/ WriteBoundRequest(c)
  <2>1. CASE WriteBinding(c) \/ WriteRelease(c)
    BY <2>1 DEF WriteBinding, WriteRelease, kernelVars, vars
  <2>2. CASE ResolveSession(c) \/ BindUnreleased(c) \/ BindUnbound(c) \/ FindRelease(c)
    BY <1>1, <2>2 DEF ResolveSession, BindUnreleased, BindUnbound, FindRelease
  <2>3. CASE CheckStored(c) \/ CheckRevoked(c) \/ CheckSession(c)
    BY <1>1, <2>3 DEF CheckStored, CheckRevoked, CheckSession
  <2>4. CASE Observe(c) \/ Return(c) \/ GiveUp(c)
    BY <1>1, <2>4 DEF Observe, Return, GiveUp
  <2>5. QED  BY <1>5, <1>6, <2>1, <2>2, <2>3, <2>4 DEF Serve
<1>7. ASSUME NEW e \in Executors, Execution(e)
      PROVE  Next
  BY <1>7 DEF Execution, Next
<1>8. ASSUME NEW s, MoveSession(s)
      PROVE  UNCHANGED vars
  BY <1>8 DEF MoveSession, kernelVars, vars
<1>9. QED
  BY <1>2, <1>3, <1>4, <1>6, <1>7, <1>8 DEF AdapterNext

LEMMA RequestWritten ==
  ASSUME ClientsTyped, Inv, NEW c \in Clients, WriteBoundRequest(c)
  PROVE  /\ UNCHANGED kernelVars
         /\ Inv'
<1>1. /\ UNCHANGED kernelVars
      /\ requestFile' = [requestFile EXCEPT ![Dir(c)] = Wanted(c)]
      /\ Wanted(c) \in Requests
  BY DEF WriteBoundRequest, Wanted, ClientsTyped
<1>2. TypeOK'
  BY <1>1 DEF Inv, TypeOK, kernelVars
<1>3. QED
  BY <1>1, <1>2
  DEF kernelVars, Inv, CarriesRequest, HolderOwnsClaim,
      HolderIsAlone, HolderCounts, StartedOwnsClaim,
      ReceiptReportsEffect, ReceiptEndsHolding, Key

\* The controller's invariant, and what it says of answers and receipts.
LEMMA ControllerStays ==
  ASSUME AdapterInv, [AdapterNext]_adapterVars
  PROVE  /\ Inv'
         /\ \A e \in Executors : Backed(e)'
         /\ \A k \in Keys :
              receiptFile[k] # NoReceipt => receiptFile'[k] = receiptFile[k]
<1>1. CASE [Next]_vars
  <2>1. Inv'
    BY <1>1, NextInv DEF AdapterInv
  <2>2. \A e \in Executors : Backed(e)'
    BY <1>1, AnswersStayBacked DEF AdapterInv
  <2>3. \A k \in Keys : receiptFile[k] # NoReceipt => receiptFile'[k] = receiptFile[k]
    BY <1>1, StepKeepsReceipts DEF AdapterInv
  <2>4. QED  BY <2>1, <2>2, <2>3
<1>2. ASSUME NEW c \in Clients, WriteBoundRequest(c)
      PROVE  /\ Inv'
             /\ \A e \in Executors : Backed(e)'
             /\ receiptFile' = receiptFile
  BY <1>2, RequestWritten DEF AdapterInv, kernelVars, Backed
<1>3. QED  BY <1>1, <1>2, ControllerMoves DEF AdapterInv

-----------------------------------------------------------------------------
(* Types *)

LEMMA FilesStayTyped ==
  ASSUME ClientsTyped, FilesTyped, [AdapterNext]_adapterVars
  PROVE  FilesTyped'
<1>1. ASSUME UNCHANGED <<adapterFiles, issued, session>>
      PROVE  FilesTyped'
  BY <1>1 DEF FilesTyped, adapterFiles
<1>2. ASSUME NEW c \in Clients, WriteBinding(c) \/ WriteRelease(c)
      PROVE  FilesTyped'
  <2>1. task[c].binding \in Binding /\ session' = session
    BY <1>2 DEF WriteBinding, WriteRelease, ClientsTyped, Bound, Places, world
  <2>2. QED  BY <1>2, <2>1 DEF WriteBinding, WriteRelease, FilesTyped
<1>3. ASSUME NEW c \in Clients, Serve(c)
      PROVE  FilesTyped'
  BY <1>1, <1>2, <1>3
  DEF Serve, WriteBoundRequest, ResolveSession, BindUnreleased, BindUnbound, FindRelease,
      CheckStored, CheckRevoked, CheckSession, Observe, Submit, Return, GiveUp, Quietly, world
<1>4. ASSUME NEW s \in Sessions \cup {None}, MoveSession(s)
      PROVE  FilesTyped'
  BY <1>4 DEF MoveSession, FilesTyped, adapterFiles
<1>5. QED
  BY <1>1, <1>3, <1>4 DEF AdapterNext, Bind, Operate, Execution, Quietly, world, adapterVars

\* What Return passes on has the type of a result.
LEMMA AnswersAreResults ==
  ASSUME Inv, NEW e \in Executors
  PROVE  answer[e] \in Results
BY DEF Inv, TypeOK, Answer, Statuses, Outcomes, Results, ResultStatuses

LEMMA ClientsStayTyped ==
  ASSUME Inv, FilesTyped, ClientsTyped, [AdapterNext]_adapterVars
  PROVE  ClientsTyped'
<1>1. CASE UNCHANGED <<at, task, ran, result>>
  BY <1>1 DEF ClientsTyped
<1>2. {"raised", "not-executed", "bound", "observed", "released", "already-released"}
        \subseteq ResultStatuses
  BY DEF ResultStatuses, Statuses
<1>3. ASSUME NEW c \in Clients, NEW s \in ResultStatuses, Finish(c, Plain(s))
      PROVE  ClientsTyped'
  BY <1>3, PlainResults, FinishTyped
<1>4. ASSUME NEW c \in Clients, NEW r \in Requests, Bind(c, r)
      PROVE  ClientsTyped'
  <2> DEFINE t == [op |-> "bind", request |-> r, binding |-> None]
  <2>1. t \in Tasks /\ t.request \in Requests
    BY DEF Tasks
  <2>2. {"write-request", "resolve"} \subseteq (Places \ {"idle", "await"}) \ Bound
    BY DEF Places, Bound
  <2>3. \/ Start(c, t, "write-request") \/ Start(c, t, "resolve")
        \/ Finish(c, Plain("raised"))
    BY <1>4 DEF Bind
  <2> HIDE DEF t
  <2>4. QED  BY <1>2, <1>3, <2>1, <2>2, <2>3, StartTyped
<1>5. ASSUME NEW c \in Clients, NEW op \in Operations, NEW r \in Requests,
             NEW b \in Binding, Operate(c, op, r, b)
      PROVE  ClientsTyped'
  <2> DEFINE t == [op |-> op, request |-> r, binding |-> b]
             place == IF op = "release" THEN "released" ELSE "stored"
  <2>1. t \in Tasks /\ t.request \in Requests /\ t.binding \in Binding
    BY DEF Tasks
  <2>2. place \in Places \ {"idle", "await"}
    BY DEF Places
  <2>3. Start(c, t, place)
    BY <1>5 DEF Operate
  <2> HIDE DEF t, place
  <2>4. QED  BY <2>1, <2>2, <2>3, StartTyped
<1>6. ASSUME NEW c \in Clients, ResolveSession(c)
      PROVE  ClientsTyped'
  <2>1. CASE Finish(c, Plain("raised"))
    BY <1>2, <1>3, <2>1
  <2>2. CASE /\ session # None
             /\ task' = [task EXCEPT ![c].binding = [identity |-> Wanted(c),
                                                     session |-> session]]
             /\ at' = [at EXCEPT ![c] = "unreleased"]
             /\ UNCHANGED <<ran, result>>
    <3> DEFINE b == [identity |-> Wanted(c), session |-> session]
    <3>1. task[c] \in Tasks /\ task[c].request \in Requests
      BY <1>6 DEF ResolveSession, ClientsTyped
    <3>2. b \in Binding
      BY <2>2, <3>1 DEF FilesTyped, Binding, Wanted
    <3>3. [task[c] EXCEPT !.binding = b] \in Tasks
      BY <3>1, <3>2 DEF Tasks
    <3>4. task' = [task EXCEPT ![c] = [task[c] EXCEPT !.binding = b]]
      BY <2>2 DEF ClientsTyped
    <3>5. [task[c] EXCEPT !.binding = b].request = task[c].request
          /\ [task[c] EXCEPT !.binding = b].binding = b
      BY <3>1 DEF Tasks
    <3>6. "unreleased" \in Places
      BY DEF Places
    <3> HIDE DEF b
    <3>7. QED  BY <2>2, <3>1, <3>2, <3>3, <3>4, <3>5, <3>6 DEF ClientsTyped
  <2>3. QED  BY <1>6, <2>1, <2>2 DEF ResolveSession
<1>7. ASSUME NEW c \in Clients,
             BindUnreleased(c) \/ BindUnbound(c) \/ FindRelease(c) \/ CheckStored(c)
             \/ CheckRevoked(c) \/ CheckSession(c) \/ WriteBoundRequest(c)
      PROVE  ClientsTyped'
  <2>1. \/ /\ at[c] \in Bound
           /\ \E place \in {"unbound", "write-binding", "stored", "revoked", "session",
                            "operate"} : Go(c, place)
        \/ at[c] = "write-request" /\ Go(c, "resolve")
        \/ \E s \in ResultStatuses : Finish(c, Plain(s))
    BY <1>2, <1>7
    DEF BindUnreleased, BindUnbound, FindRelease, CheckStored, CheckRevoked, CheckSession,
        WriteBoundRequest, Bound, Places
  <2>2. /\ {"unbound", "write-binding", "stored", "revoked", "session", "operate", "resolve"}
              \subseteq Places \ {"idle", "await"}
        /\ "resolve" \notin Bound /\ "idle" \notin Bound
    BY DEF Places, Bound
  <2>3. QED  BY <1>3, <2>1, <2>2, GoTyped
<1>8. ASSUME NEW c \in Clients, WriteBinding(c) \/ WriteRelease(c) \/ GiveUp(c)
      PROVE  ClientsTyped'
  BY <1>2, <1>3, <1>8 DEF WriteBinding, WriteRelease, GiveUp
<1>9. ASSUME NEW c \in Clients, Observe(c)
      PROVE  ClientsTyped'
  <2> DEFINE found == receiptFile[Dir(c)]
             seen  == [status |-> "observed", identity |-> found.identity,
                       outcome |-> found.outcome]
  <2>1. found.identity \in Requests \cup {None}
        /\ found.outcome \in Outcomes \cup {"none", "indeterminate"}
    <3>1. found \in Receipt \cup {NoReceipt}
      BY <1>9, ControllerAssumption
      DEF Observe, Dir, Bound, Places, ClientsTyped, Inv, TypeOK
    <3>2. QED
      BY <3>1 DEF Receipt, NoReceipt, Outcomes
  <2>2. seen \in Results
    BY <1>2, <2>1 DEF Results
  <2>3. Finish(c, seen) \/ \E s \in ResultStatuses : Finish(c, Plain(s))
    BY <1>2, <1>9 DEF Observe
  <2> HIDE DEF seen
  <2>4. QED  BY <1>3, <2>2, <2>3, FinishTyped
<1>10. ASSUME NEW c \in Clients, Submit(c)
       PROVE  ClientsTyped'
  <2>1. CASE \E s \in ResultStatuses : Finish(c, Plain(s))
    BY <1>3, <2>1
  <2>2. CASE \E e \in Executors : /\ at' = [at EXCEPT ![c] = "await"]
                                  /\ ran' = [ran EXCEPT ![c] = e]
                                  /\ UNCHANGED <<task, result>>
    <3>1. task[c].request \in Requests /\ task[c].binding \in Binding
      BY <1>10 DEF Submit, Bound, Places, ClientsTyped
    <3>2. "await" \in Places
      BY DEF Places
    <3>3. QED  BY <2>2, <3>1, <3>2 DEF ClientsTyped
  <2>3. QED  BY <1>2, <1>10, <2>1, <2>2 DEF Submit
<1>11. ASSUME NEW c \in Clients, Return(c)
       PROVE  ClientsTyped'
  <2>1. answer[ran[c]] \in Results
    BY <1>11, AnswersAreResults DEF Return, ClientsTyped
  <2>2. Finish(c, answer[ran[c]]) \/ Finish(c, Plain("raised"))
    BY <1>11 DEF Return
  <2>3. QED  BY <1>2, <1>3, <2>1, <2>2, FinishTyped
<1>12. ASSUME NEW c \in Clients, Serve(c)
       PROVE  ClientsTyped'
  BY <1>6, <1>7, <1>8, <1>9, <1>10, <1>11, <1>12 DEF Serve
<1>13. QED
  BY <1>1, <1>4, <1>5, <1>12 DEF AdapterNext, Execution, MoveSession, adapterVars

-----------------------------------------------------------------------------
(* What clients are told *)

\* What a client was told stays true: the receipt behind it stays.
LEMMA ToldStays ==
  ASSUME AdapterInv, [AdapterNext]_adapterVars, NEW c \in Clients, result'[c] = result[c]
  PROVE  IsBacked(result[c])'
<1> SUFFICES ASSUME result[c].status \in {"completed", "replayed", "observed"},
                    result[c].identity # None
             PROVE  receiptFile'[KeyOf[result[c].identity]] =
                      [identity |-> result[c].identity, outcome |-> result[c].outcome]
  BY DEF IsBacked
<1> DEFINE k == KeyOf[result[c].identity]
<1>1. receiptFile[k] = [identity |-> result[c].identity, outcome |-> result[c].outcome]
  BY DEF AdapterInv, IsBacked
<1>2. k \in Keys
  BY ControllerAssumption DEF AdapterInv, ClientsTyped, Results
<1>3. receiptFile[k] # NoReceipt
  BY <1>1 DEF NoReceipt
<1>4. receiptFile'[k] = receiptFile[k]
  BY <1>2, <1>3, ControllerStays
<1>5. QED  BY <1>1, <1>4

\* A client that is told r, which is true now, leaves everyone well informed.
LEMMA TellingStep ==
  ASSUME AdapterInv, [AdapterNext]_adapterVars, NEW c \in Clients, NEW r \in Results,
         result' = [result EXCEPT ![c] = r], IsBacked(r)
  PROVE  \A d \in Clients : IsBacked(result[d])'
<1>1. ASSUME NEW d \in Clients \ {c}
      PROVE  IsBacked(result[d])'
  <2>1. result'[d] = result[d]
    BY DEF AdapterInv, ClientsTyped
  <2>2. QED  BY <2>1, ToldStays
<1>2. IsBacked(result[c])'
  <2>1. result'[c] = r
    BY DEF AdapterInv, ClientsTyped
  <2> SUFFICES ASSUME r.status \in {"completed", "replayed", "observed"}, r.identity # None
               PROVE  receiptFile'[KeyOf[r.identity]] = [identity |-> r.identity,
                                                         outcome |-> r.outcome]
    BY <2>1 DEF IsBacked
  <2>2. receiptFile[KeyOf[r.identity]] = [identity |-> r.identity, outcome |-> r.outcome]
    BY DEF IsBacked
  <2>3. KeyOf[r.identity] \in Keys
    BY ControllerAssumption DEF Results
  <2>4. receiptFile[KeyOf[r.identity]] # NoReceipt
    BY <2>2 DEF NoReceipt
  <2>5. QED  BY <2>2, <2>3, <2>4, ControllerStays
<1>3. QED  BY <1>1, <1>2

\* The answer of an execution is backed by the receipt of its request's key.
LEMMA AnswersAreBacked ==
  ASSUME AdapterInv, NEW e \in Executors
  PROVE  IsBacked(answer[e])
<1> SUFFICES ASSUME answer[e].status \in {"completed", "replayed", "observed"},
                    answer[e].identity # None
             PROVE  receiptFile[KeyOf[answer[e].identity]] =
                      [identity |-> answer[e].identity, outcome |-> answer[e].outcome]
  BY DEF IsBacked
<1>1. answer[e].status \in {"completed", "replayed"}
  BY DEF AdapterInv, Inv, TypeOK, Answer, Statuses
<1>2. PICK k \in Keys : receiptFile[k] = [identity |-> answer[e].identity,
                                         outcome |-> answer[e].outcome]
  BY <1>1 DEF AdapterInv, Backed
<1>3. receiptFile[k] # NoReceipt
  BY <1>2 DEF NoReceipt
<1>4. KeyOf[answer[e].identity] = k
  BY <1>2, <1>3 DEF AdapterInv, Inv, ReceiptReportsEffect
<1>5. QED  BY <1>2, <1>4

LEMMA ToldTruthStays ==
  ASSUME AdapterInv, [AdapterNext]_adapterVars
  PROVE  \A c \in Clients : IsBacked(result[c])'
<1>1. CASE UNCHANGED result
  BY <1>1, ToldStays
<1>2. ASSUME NEW c \in Clients, NEW s \in ResultStatuses, result' = [result EXCEPT ![c] = Plain(s)]
      PROVE  \A d \in Clients : IsBacked(result[d])'
  <2>1. IsBacked(Plain(s))
    BY PlainResults DEF IsBacked
  <2>2. QED  BY <1>2, <2>1, PlainResults, TellingStep
<1>3. {"none", "raised", "not-executed", "bound", "observed", "released", "already-released"}
        \subseteq ResultStatuses
  BY DEF ResultStatuses, Statuses
<1>4. ASSUME NEW c \in Clients, Observe(c)
      PROVE  \A d \in Clients : IsBacked(result[d])'
  <2> DEFINE found == receiptFile[Dir(c)]
             seen  == [status |-> "observed", identity |-> found.identity,
                       outcome |-> found.outcome]
  <2>1. Finish(c, seen) \/ \E s \in ResultStatuses : Finish(c, Plain(s))
    BY <1>3, <1>4 DEF Observe
  <2>2. ASSUME Finish(c, seen), found.identity = Wanted(c)
        PROVE  \A d \in Clients : IsBacked(result[d])'
    <3>1. found \in Receipt \cup {NoReceipt}
      BY <1>4, ControllerAssumption
      DEF Observe, Dir, ClientsTyped, AdapterInv, Inv, TypeOK
    <3>2. seen \in Results
      BY <1>3, <3>1
      DEF Results, Receipt, NoReceipt, Outcomes
    <3>3. found = [identity |-> found.identity, outcome |-> found.outcome]
      BY <3>1 DEF Receipt, NoReceipt
    <3>4. IsBacked(seen)
      BY <2>2, <3>3 DEF IsBacked, Dir, Wanted
    <3>5. result' = [result EXCEPT ![c] = seen]
      BY <2>2 DEF Finish
    <3> HIDE DEF seen
    <3>6. QED  BY <3>2, <3>4, <3>5, TellingStep
  <2>3. ASSUME NEW s \in ResultStatuses, Finish(c, Plain(s))
        PROVE  \A d \in Clients : IsBacked(result[d])'
    BY <1>2, <2>3 DEF Finish
  <2>4. \/ Finish(c, seen) /\ found.identity = Wanted(c)
        \/ \E s \in ResultStatuses : Finish(c, Plain(s))
    BY <1>3, <1>4 DEF Observe
  <2>5. QED  BY <2>2, <2>3, <2>4
<1>5. ASSUME NEW c \in Clients, Return(c)
      PROVE  \A d \in Clients : IsBacked(result[d])'
  <2>1. ran[c] \in Executors
    BY <1>5 DEF Return, AdapterInv, ClientsTyped
  <2>2. answer[ran[c]] \in Results /\ IsBacked(answer[ran[c]])
    BY <2>1, AnswersAreResults, AnswersAreBacked DEF AdapterInv
  <2>3. \/ result' = [result EXCEPT ![c] = answer[ran[c]]]
        \/ result' = [result EXCEPT ![c] = Plain("raised")]
    BY <1>5 DEF Return, Finish
  <2>4. QED  BY <1>2, <1>3, <2>2, <2>3, TellingStep
<1>6. ASSUME NEW c \in Clients, Serve(c), ~Observe(c), ~Return(c)
      PROVE  UNCHANGED result \/ \E s \in ResultStatuses : result' = [result EXCEPT ![c] = Plain(s)]
  BY <1>3, <1>6
  DEF Serve, WriteBoundRequest, ResolveSession, BindUnreleased, BindUnbound, WriteBinding,
      FindRelease, CheckStored, CheckRevoked, CheckSession, WriteRelease, Submit, GiveUp,
      Go, Finish
<1>7. ASSUME NEW c \in Clients, NEW r \in Requests, Bind(c, r)
      PROVE  \E s \in ResultStatuses : result' = [result EXCEPT ![c] = Plain(s)]
  BY <1>3, <1>7 DEF Bind, Start, Finish
<1>8. ASSUME NEW c \in Clients, NEW op \in Operations, NEW r \in Requests,
             NEW b \in Binding, Operate(c, op, r, b)
      PROVE  \E s \in ResultStatuses : result' = [result EXCEPT ![c] = Plain(s)]
  BY <1>3, <1>8 DEF Operate, Start
<1>9. ASSUME NEW c \in Clients, Serve(c)
      PROVE  \A d \in Clients : IsBacked(result[d])'
  BY <1>1, <1>2, <1>4, <1>5, <1>6, <1>9
<1>10. QED
  BY <1>1, <1>2, <1>7, <1>8, <1>9 DEF AdapterNext, Execution, MoveSession, adapterVars

-----------------------------------------------------------------------------
(* The invariant *)

LEMMA AdapterInitInv == AdapterInit => AdapterInv
<1> SUFFICES ASSUME AdapterInit PROVE AdapterInv
  OBVIOUS
<1>1. Init
  BY  DEF AdapterInit
<1>2. Inv
  BY <1>1, InitInv
<1>3. \A e \in Executors : Backed(e)
  BY <1>1 DEF Init, Backed, NoAnswer
<1>4. FilesTyped
  BY DEF AdapterInit, FilesTyped
<1>5. NoTask \in Tasks /\ "idle" \in Places \ Bound
  BY DEF NoTask, Tasks, Places, Bound
<1>6. Plain("none") \in Results /\ Plain("none").identity = None
  BY PlainResults DEF ResultStatuses, Statuses
<1>7. ClientsTyped
  BY <1>5, <1>6 DEF AdapterInit, ClientsTyped, Bound
<1>8. \A c \in Clients : IsBacked(result[c])
  BY <1>6 DEF AdapterInit, IsBacked
<1>9. QED  BY <1>2, <1>3, <1>4, <1>7, <1>8 DEF AdapterInv

LEMMA AdapterNextInv == AdapterInv /\ [AdapterNext]_adapterVars => AdapterInv'
<1> SUFFICES ASSUME AdapterInv, [AdapterNext]_adapterVars PROVE AdapterInv'
  OBVIOUS
<1>1. Inv' /\ \A e \in Executors : Backed(e)'
  BY ControllerStays
<1>2. FilesTyped' /\ ClientsTyped'
  BY FilesStayTyped, ClientsStayTyped DEF AdapterInv
<1>3. \A c \in Clients : IsBacked(result[c])'
  BY ToldTruthStays
<1>4. QED  BY <1>1, <1>2, <1>3 DEF AdapterInv

LEMMA AdapterInvHolds == AdapterSpec => []AdapterInv
<1>1. QED  BY AdapterInitInv, AdapterNextInv, PTL DEF AdapterSpec

-----------------------------------------------------------------------------
(* Theorems *)

\* The files, the clients and the controller below them keep their types.
THEOREM AdapterTyped == AdapterSpec => []AdapterTypeOK
<1>1. AdapterInv => AdapterTypeOK
  BY DEF AdapterInv, AdapterTypeOK, Inv
<1>2. QED  BY <1>1, AdapterInvHolds, PTL

\* Whatever times out, dies, is released or retried, what a client was told of
\* an effect is what the terminal receipt says now and ever after.
THEOREM ClientsAreToldTheTruth == AdapterSpec => []ToldTheTruth
<1>1. AdapterInv => ToldTheTruth
  BY DEF AdapterInv, IsBacked, ToldTheTruth
<1>2. QED  BY <1>1, AdapterInvHolds, PTL

-----------------------------------------------------------------------------
(* The adapter keeps the promise of the controller *)

LEMMA AdapterInitPromise == AdapterInit => Promise!Init
BY InitPromise DEF AdapterInit

LEMMA AdapterStepPromise ==
  AdapterInv /\ AdapterInv' /\ [AdapterNext]_adapterVars => [Promise!Next]_(Promise!vars)
<1> SUFFICES ASSUME AdapterInv, AdapterInv', [AdapterNext]_adapterVars
             PROVE  [Promise!Next]_(Promise!vars)
  OBVIOUS
<1>1. CASE [Next]_vars
  BY <1>1, StepPromise DEF AdapterInv
<1>2. ASSUME NEW c \in Clients, WriteBoundRequest(c)
      PROVE  UNCHANGED Promise!vars
  BY <1>2 DEF WriteBoundRequest, kernelVars, Promise!vars, UsedBy
<1>3. QED  BY <1>1, <1>2, ControllerMoves DEF AdapterInv

\* Clients that bind, retry, time out and release at any moment leave the
\* one-use promise of the controller standing: the executions they begin, and
\* those they no longer wait for, implement OneUse.
THEOREM AdapterKeepsThePromise == AdapterSpec => KeepsPromise
<1>1. QED
  BY AdapterInitPromise, AdapterStepPromise, AdapterInvHolds, PTL
  DEF AdapterSpec, KeepsPromise, Promise!Spec

-----------------------------------------------------------------------------
(* Releases *)

\* A step of a client whose call is not past its check of the release record,
\* or belongs to another key, leaves key k quiet.
LEMMA ClientStaysQuiet ==
  ASSUME AdapterInv, NEW k \in Keys, Quiet(k), NEW c \in Clients,
         \A d \in Clients \ {c} : at'[d] = at[d] /\ task'[d] = task[d],
         \/ at'[c] \notin {"session", "operate", "await", "unbound", "write-binding"}
         \/ task'[c].request = task[c].request /\ Dir(c) # k,
         releaseFile'[k] = releaseFile[k],
         \A e \in Executors : pc'[e] # "idle" => KeyOf[req'[e]] # k
  PROVE  Quiet(k)'
BY DEF Quiet, Dir

LEMMA ReleaseStays ==
  ASSUME AdapterInv, [AdapterNext]_adapterVars, NEW k \in Keys, Quiet(k)
  PROVE  /\ Quiet(k)'
         /\ bindingFile'[k] = bindingFile[k]
         /\ receiptFile'[k] = receiptFile[k]
         /\ \A r \in Requests : KeyOf[r] = k => runs'[r] = runs[r]
<1> DEFINE Unmoved == /\ bindingFile'[k] = bindingFile[k]
                      /\ releaseFile'[k] = releaseFile[k]
                      /\ receiptFile'[k] = receiptFile[k]
                      /\ \A r \in Requests : KeyOf[r] = k => runs'[r] = runs[r]
           Engaged == {"session", "operate", "await", "unbound", "write-binding"}
<1> SUFFICES Quiet(k)' /\ Unmoved
  OBVIOUS
<1>1. ASSUME UNCHANGED <<adapterFiles, receiptFile, runs>>
      PROVE  Unmoved
  BY <1>1 DEF adapterFiles
<1>2. ASSUME NEW c \in Clients, at[c] \in Engaged
      PROVE  Dir(c) # k
  BY <1>2 DEF Quiet
<1>3. ASSUME NEW c \in Clients, NEW p, Go(c, p), p \in Engaged => Dir(c) # k,
             UNCHANGED <<kernelVars, releaseFile>>
      PROVE  Quiet(k)'
  <2>1. /\ \A d \in Clients \ {c} : at'[d] = at[d] /\ task'[d] = task[d]
        /\ at'[c] = p /\ task'[c].request = task[c].request
    BY <1>3 DEF Go, AdapterInv, ClientsTyped
  <2>2. QED  BY <1>3, <2>1, ClientStaysQuiet DEF kernelVars, Quiet
<1>4. ASSUME NEW c \in Clients, NEW r, Finish(c, r), UNCHANGED <<pc, req>>,
             releaseFile'[k] = releaseFile[k]
      PROVE  Quiet(k)'
  <2>1. /\ \A d \in Clients \ {c} : at'[d] = at[d] /\ task'[d] = task[d]
        /\ at'[c] = "idle"
    BY <1>4 DEF Finish, AdapterInv, ClientsTyped
  <2>2. QED  BY <1>4, <2>1, ClientStaysQuiet DEF Quiet
<1>5. ASSUME NEW c \in Clients, NEW t, NEW p, Start(c, t, p), p \notin Engaged, Quietly
      PROVE  Quiet(k)' /\ Unmoved
  <2>1. /\ \A d \in Clients \ {c} : at'[d] = at[d] /\ task'[d] = task[d]
        /\ at'[c] = p
    BY <1>5 DEF Start, AdapterInv, ClientsTyped
  <2>2. UNCHANGED <<adapterFiles, receiptFile, runs, pc, req>> /\ releaseFile' = releaseFile
    BY <1>5 DEF Quietly, kernelVars, adapterFiles
  <2>3. Quiet(k)'
    BY <1>5, <2>1, <2>2, ClientStaysQuiet DEF Quiet
  <2>4. QED  BY <1>1, <2>2, <2>3
<1>6. ASSUME Quietly
      PROVE  Unmoved /\ UNCHANGED <<kernelVars, releaseFile, pc, req>>
  BY <1>1, <1>6 DEF Quietly, kernelVars, adapterFiles
<1>7. ASSUME NEW c \in Clients, NEW r \in Requests, Bind(c, r)
      PROVE  Quiet(k)' /\ Unmoved
  <2>1. {"write-request", "resolve"} \cap Engaged = {}
    OBVIOUS
  <2> HIDE DEF Unmoved, Engaged
  <2>2. QED  BY <1>4, <1>5, <1>6, <1>7, <2>1 DEF Bind
<1>8. ASSUME NEW c \in Clients, NEW op \in Operations, NEW r \in Requests,
             NEW b \in Binding, Operate(c, op, r, b)
      PROVE  Quiet(k)' /\ Unmoved
  <2>1. {"released", "stored"} \cap Engaged = {}
    OBVIOUS
  <2> HIDE DEF Unmoved, Engaged
  <2>2. QED  BY <1>5, <1>8, <2>1 DEF Operate
<1>9. ASSUME NEW c \in Clients, WriteBoundRequest(c)
      PROVE  Quiet(k)' /\ Unmoved
  <2>1. Go(c, "resolve") /\ UNCHANGED <<kernelVars, releaseFile>>
        /\ UNCHANGED <<adapterFiles, receiptFile, runs>>
    BY <1>9 DEF WriteBoundRequest, kernelVars, adapterFiles
  <2>2. QED  BY <1>1, <1>3, <2>1
<1>10. ASSUME NEW c \in Clients, ResolveSession(c)
       PROVE  Quiet(k)' /\ Unmoved
  <2>1. CASE Finish(c, Plain("raised"))
    BY <1>4, <1>6, <1>10, <2>1 DEF ResolveSession
  <2>2. CASE ~Finish(c, Plain("raised"))
    <3>1. /\ \A d \in Clients \ {c} : at'[d] = at[d] /\ task'[d] = task[d]
          /\ at'[c] = "unreleased"
      BY <1>10, <2>2 DEF ResolveSession, AdapterInv, ClientsTyped
    <3>2. Unmoved /\ releaseFile' = releaseFile /\ UNCHANGED <<pc, req>>
      BY <1>6, <1>10 DEF ResolveSession
    <3> HIDE DEF Unmoved
    <3>3. QED  BY <3>1, <3>2, ClientStaysQuiet DEF Quiet
  <2>3. QED  BY <2>1, <2>2
<1>11. ASSUME NEW c \in Clients,
              BindUnreleased(c) \/ BindUnbound(c) \/ FindRelease(c) \/ CheckStored(c)
              \/ CheckRevoked(c) \/ CheckSession(c)
       PROVE  Quiet(k)' /\ Unmoved
  <2>1. releaseFile[k] # None
    BY DEF Quiet
  <2>2. \/ \E p \in Engaged \cup {"stored", "revoked"} :
             Go(c, p) /\ (p \in Engaged => Dir(c) # k)
        \/ \E s \in ResultStatuses : Finish(c, Plain(s))
    <3>1. {"raised", "already-released"} \subseteq ResultStatuses
      BY DEF ResultStatuses, Statuses
    <3>2. QED
      BY <1>2, <1>11, <2>1, <3>1
      DEF BindUnreleased, BindUnbound, FindRelease, CheckStored, CheckRevoked, CheckSession
  <2>3. Quietly
    BY <1>11
    DEF BindUnreleased, BindUnbound, FindRelease, CheckStored, CheckRevoked, CheckSession
  <2> HIDE DEF Unmoved, Engaged
  <2>4. QED  BY <1>3, <1>4, <1>6, <2>2, <2>3
<1>12. ASSUME NEW c \in Clients, WriteBinding(c) \/ WriteRelease(c)
       PROVE  Quiet(k)' /\ Unmoved
  <2>1. Dir(c) # k
    BY <1>2, <1>12 DEF WriteBinding, WriteRelease
  <2>2. /\ bindingFile'[k] = bindingFile[k] /\ releaseFile'[k] = releaseFile[k]
        /\ UNCHANGED kernelVars
        /\ \E s \in ResultStatuses : Finish(c, Plain(s))
    BY <1>12, <2>1 DEF WriteBinding, WriteRelease, AdapterInv, FilesTyped, ResultStatuses
  <2>3. QED  BY <1>4, <2>2 DEF kernelVars
<1>13. ASSUME NEW c \in Clients, Observe(c) \/ Return(c) \/ GiveUp(c)
       PROVE  Quiet(k)' /\ Unmoved
  <2>1. Quietly /\ \E r : Finish(c, r)
    BY <1>13 DEF Observe, Return, GiveUp
  <2> HIDE DEF Unmoved
  <2>2. QED  BY <1>4, <1>6, <2>1
<1>14. ASSUME NEW c \in Clients, Submit(c)
       PROVE  Quiet(k)' /\ Unmoved
  <2>1. Dir(c) # k /\ UNCHANGED adapterFiles /\ Wanted(c) \in Requests
    BY <1>2, <1>14 DEF Submit, AdapterInv, ClientsTyped, Wanted
  <2>2. CASE UNCHANGED <<kernelVars, requestFile>> /\ \E r : Finish(c, r)
    BY <1>1, <1>4, <2>1, <2>2 DEF kernelVars, adapterFiles
  <2>3. ASSUME NEW e \in Executors, Call(e, Wanted(c)),
               at' = [at EXCEPT ![c] = "await"], UNCHANGED <<task, result>>
        PROVE  Quiet(k)' /\ Unmoved
    <3>1. /\ UNCHANGED <<receiptFile, runs>>
          /\ \A f \in Executors : pc'[f] # "idle" =>
               \/ pc'[f] = pc[f] /\ req'[f] = req[f]
               \/ req'[f] = Wanted(c)
      BY <2>3 DEF Call, Leave, files, AdapterInv, Inv, TypeOK
    <3>2. \A f \in Executors : pc'[f] # "idle" => KeyOf[req'[f]] # k
      BY <2>1, <3>1 DEF Quiet, Dir, Wanted
    <3>3. /\ \A d \in Clients \ {c} : at'[d] = at[d] /\ task'[d] = task[d]
          /\ task'[c].request = task[c].request /\ releaseFile' = releaseFile
      BY <2>1, <2>3 DEF AdapterInv, ClientsTyped, adapterFiles
    <3>4. Quiet(k)'
      BY <2>1, <3>2, <3>3, ClientStaysQuiet
    <3>5. QED  BY <1>1, <2>1, <3>1, <3>4
  <2>4. QED  BY <1>14, <2>2, <2>3 DEF Submit
<1>15. ASSUME NEW e \in Executors, Execution(e)
       PROVE  Quiet(k)' /\ Unmoved
  <2>1. pc[e] # "idle" /\ KeyOf[req[e]] # k
    BY <1>15
    DEF Execution, Quiet, Step, CheckReceipt, CheckRequest,
        WriteRequest, Claim, AnswerWithoutClaim, StartEffect,
        FinishEffect, WriteReceipt, RaiseWithClaim, Crash,
        Holding
  <2>2. ASSUME NEW f \in Executors, pc'[f] # "idle"
        PROVE  (f = e \/ pc'[f] = pc[f]) /\ req'[f] = req[f]
    BY <1>15, <2>2
    DEF Execution, Step, CheckReceipt, CheckRequest,
        WriteRequest, Claim, AnswerWithoutClaim, StartEffect,
        FinishEffect, WriteReceipt, RaiseWithClaim, Crash,
        Goto, Leave, AdapterInv, Inv, TypeOK
  <2>3. receiptFile'[k] = receiptFile[k]
    BY <1>15, <2>1
    DEF Execution, Step, CheckReceipt, CheckRequest,
        WriteRequest, Claim, AnswerWithoutClaim, StartEffect,
        FinishEffect, WriteReceipt, RaiseWithClaim, Crash,
        files, Key, AdapterInv, Inv, TypeOK
  <2>4. \A r \in Requests : KeyOf[r] = k => runs'[r] = runs[r]
    BY <1>15, <2>1
    DEF Execution, Step, CheckReceipt, CheckRequest,
        WriteRequest, Claim, AnswerWithoutClaim, StartEffect,
        FinishEffect, WriteReceipt, RaiseWithClaim, Crash,
        AdapterInv, Inv, TypeOK
  <2>5. UNCHANGED <<adapterFiles, at, task>>
    BY <1>15 DEF Execution
  <2>6. \A f \in Executors : pc'[f] # "idle" => KeyOf[req'[f]] # k
    BY <2>1, <2>2 DEF Quiet
  <2>7. Quiet(k)'
    BY <2>5, <2>6 DEF Quiet, Dir, adapterFiles
  <2>8. QED  BY <2>3, <2>4, <2>5, <2>7 DEF adapterFiles
<1>16. ASSUME UNCHANGED <<kernelVars, adapterFiles, at, task>>
       PROVE  Quiet(k)' /\ Unmoved
  BY <1>16 DEF kernelVars, adapterFiles, Quiet, Dir
<1>17. ASSUME NEW c \in Clients, Serve(c)
       PROVE  Quiet(k)' /\ Unmoved
  BY <1>9, <1>10, <1>11, <1>12, <1>13, <1>14, <1>17 DEF Serve
<1> HIDE DEF Unmoved
<1>18. QED
  BY <1>7, <1>8, <1>15, <1>16, <1>17 DEF AdapterNext, MoveSession, adapterVars

\* Once the calls that a release overtook are over, no later call, of whatever
\* client, binds the operation again, starts its effect or files its receipt.
THEOREM ReleasesAreFinal == AdapterSpec => ReleaseIsFinal
<1>1. AdapterInv /\ [AdapterNext]_adapterVars =>
        [\A k \in Keys : Quiet(k) =>
           /\ Quiet(k)'
           /\ bindingFile'[k] = bindingFile[k]
           /\ receiptFile'[k] = receiptFile[k]
           /\ \A r \in Requests : KeyOf[r] = k => runs'[r] = runs[r]]_adapterVars
  BY ReleaseStays
<1>2. QED  BY <1>1, AdapterInvHolds, PTL DEF AdapterSpec, ReleaseIsFinal
=============================================================================
