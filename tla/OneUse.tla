------------------------------- MODULE OneUse -------------------------------
(***************************************************************************)
(* What the operation controller promises about one effect: under one      *)
(* operation key at most one request is ever put to use, its effect is     *)
(* started once, and the only receipt the key can ever carry is the one    *)
(* that reports that effect.  Nothing is said about how the promise is     *)
(* kept; Controller.tla shows the files and the steps that keep it.        *)
(***************************************************************************)
CONSTANTS Requests,   \* controller requests, told apart by requestIdentity
          Keys,       \* operation keys: digest of session, turn and operation
          KeyOf,      \* the key of every request
          Outcomes,   \* outcomes a terminal receipt may report
          None        \* the absent value

VARIABLES used,       \* used[k]: the request whose effect key k has spent
          receipt     \* receipt[k]: the terminal receipt of key k

vars == <<used, receipt>>

NoReceipt == [identity |-> None, outcome |-> "none"]

Init == /\ used = [k \in Keys |-> None]
        /\ receipt = [k \in Keys |-> NoReceipt]

\* The effect of request r starts: its key was never used before.
Use(r) == /\ used[KeyOf[r]] = None
          /\ used' = [used EXCEPT ![KeyOf[r]] = r]
          /\ UNCHANGED receipt

\* The effect spent under key k is reported, once and for all.
Report(k, o) == /\ used[k] # None
                /\ receipt[k] = NoReceipt
                /\ receipt' = [receipt EXCEPT ![k] = [identity |-> used[k], outcome |-> o]]
                /\ UNCHANGED used

Next == \/ \E r \in Requests : Use(r)
        \/ \E k \in Keys, o \in Outcomes : Report(k, o)

Spec == Init /\ [][Next]_vars
=============================================================================
