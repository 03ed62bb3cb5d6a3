---------------------------- MODULE MCInstaller -----------------------------
(* Two locks.  The combined bundle of the first is installed once, the one  *)
(* of the second twice, by processes that get the same number one after the *)
(* other.  Meanwhile the Go bundle of the first lock is installed by force. *)
EXTENDS Installer

FourRuns == {"tools", "go", "next", "next again"}
ThreeBundles == {"tools 1", "go 1", "tools 2"}
BundleOf == [r \in FourRuns |-> CASE r = "tools" -> "tools 1"
                                  [] r = "go"    -> "go 1"
                                  [] r \in {"next", "next again"} -> "tools 2"]
TwoLocks == {"lock 1", "lock 2"}
LockOf == [b \in ThreeBundles |-> IF b = "tools 2" THEN "lock 2" ELSE "lock 1"]
CombinedOnly == {"tools 1", "tools 2"}
GoOnly  == {"go"}
Numbers == [r \in FourRuns |-> IF r = "go" THEN 2 ELSE 1]
=============================================================================
