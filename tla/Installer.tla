----------------------------- MODULE Installer ------------------------------
(***************************************************************************)
(* The installer of the tool bundles (tools/bundles/install.sh).  A run    *)
(* copies its bundle into a candidate directory, verifies it, renames it   *)
(* to versions/<lock digest>, or exchanges it with what is there, and      *)
(* switches the symbolic link "current" by the rename of a temporary link  *)
(* that is named after the process.  Runs for one prefix overlap freely:   *)
(* there is no lock.  A command may fail, which runs the exit trap, and a  *)
(* run may be killed, which does not.                                      *)
(*                                                                         *)
(* All bundles built from one lock, the combined one and one for each      *)
(* tool, carry the same lock digest.                                       *)
(***************************************************************************)
EXTENDS Naturals

CONSTANTS Runs,        \* runs of install.sh for one prefix
          Bundles,     \* extracted archives
          Bundle,      \* Bundle[r]: the one that r installs
          Digests,
          DigestOf,    \* DigestOf[b]: lockDigest in the manifest of b
          WithPython,  \* bundles that verify themselves with bin/python3
          Forced,      \* runs with --force
          Pid,         \* Pid[r]: the process number of r
          MaxDamage,   \* bound: installed versions that get damaged
          None

\* A directory is the bundle it was copied from, how much of it is there and
\* the links that were dropped into it.
Directories == [bundle : Bundles, files : {"partial", "whole", "damaged"}, links : SUBSET Digests]

ASSUME InstallerAssumption ==
  /\ Bundle \in [Runs -> Bundles]
  /\ DigestOf \in [Bundles -> Digests]
  /\ WithPython \subseteq Bundles /\ Forced \subseteq Runs
  /\ DOMAIN Pid = Runs
  /\ MaxDamage \in Nat
  /\ None \notin Digests \cup Directories

VARIABLES version,    \* version[d]: the content of versions/<d>
          candidate,  \* candidate[r]: the content of r's versions/.install.<d>.XXXXXX
          link,       \* link[p]: where .current.<p>.tmp leads
          current,    \* where the active link leads
          pc,         \* pc[r]: the next command of r
          damage

vars == <<version, candidate, link, current, pc, damage>>

Running == {"inspect", "verify-existing", "copy", "verify", "place", "exchange", "move", "link",
            "switch", "clean"}

Target(r) == DigestOf[Bundle[r]]

\* PIDs, which name the temporary links.
ProcessNumbers == {Pid[r] : r \in Runs}

Init == /\ version = [d \in Digests |-> None]
        /\ candidate = [r \in Runs |-> None]
        /\ link = [p \in ProcessNumbers |-> None]
        /\ current = None
        /\ pc = [r \in Runs |-> "new"]
        /\ damage = 0

-----------------------------------------------------------------------------
(* verify_installed: the checksums of all files, and with Python no others *)

Verifies(c) == c.files = "whole" /\ (c.bundle \in WithPython => c.links = {})

At(r, command) == pc[r] = command
Goto(r, command) == pc' = [pc EXCEPT ![r] = command]

\* A run whose archive verified takes a free process number.
Start(r) == /\ At(r, "new")
            /\ \A q \in Runs : Pid[q] = Pid[r] => pc[q] \notin Running
            /\ Goto(r, "inspect")
            /\ UNCHANGED <<version, candidate, link, current, damage>>

\* An existing version is used as it is, unless the run is forced.  Otherwise
\* mktemp makes the candidate, and from here on the exit trap removes it.
Inspect(r) ==
  /\ At(r, "inspect")
  /\ \/ /\ version[Target(r)] # None /\ r \notin Forced
        /\ Goto(r, "verify-existing")
        /\ UNCHANGED candidate
     \/ /\ version[Target(r)] = None \/ r \in Forced
        /\ candidate' = [candidate EXCEPT
                           ![r] = [bundle |-> Bundle[r], files |-> "partial", links |-> {}]]
        /\ Goto(r, "copy")
  /\ UNCHANGED <<version, link, current, damage>>

VerifyExisting(r) ==
  /\ At(r, "verify-existing")
  /\ Goto(r, IF Verifies(version[Target(r)]) THEN "link" ELSE "failed")
  /\ UNCHANGED <<version, candidate, link, current, damage>>

Copy(r) == /\ At(r, "copy")
           /\ candidate' = [candidate EXCEPT ![r].files = "whole"]
           /\ Goto(r, "verify")
           /\ UNCHANGED <<version, link, current, damage>>

\* The candidate is verified and, in the combined bundle, examined by its
\* doctor; that fails as any command may.
Verify(r) == /\ At(r, "verify")
             /\ Goto(r, "place")
             /\ UNCHANGED <<version, candidate, link, current, damage>>

\* [[ -e "$target" ]]
Place(r) == /\ At(r, "place")
            /\ Goto(r, IF version[Target(r)] # None THEN "exchange" ELSE "move")
            /\ UNCHANGED <<version, candidate, link, current, damage>>

\* (mutant) the old version is taken out of the way first
ReplaceInTwoSteps(r) ==
  /\ At(r, "exchange")
  /\ version' = [version EXCEPT ![Target(r)] = None]
  /\ Goto(r, "move")
  /\ UNCHANGED <<candidate, link, current, damage>>

\* mv --exchange: the candidate directory holds the old version from now on.
Exchange(r) ==
  /\ At(r, "exchange")
  /\ version' = [version EXCEPT ![Target(r)] = candidate[r]]
  /\ candidate' = [candidate EXCEPT ![r] = version[Target(r)]]
  /\ Goto(r, "link")
  /\ UNCHANGED <<link, current, damage>>

\* mv -T onto a version that has appeared meanwhile fails: it is not empty.
Move(r) ==
  /\ At(r, "move")
  /\ candidate' = [candidate EXCEPT ![r] = None]
  /\ \/ /\ version[Target(r)] = None
        /\ version' = [version EXCEPT ![Target(r)] = candidate[r]]
        /\ Goto(r, "link")
     \/ /\ version[Target(r)] # None
        /\ Goto(r, "failed")
        /\ UNCHANGED version
  /\ UNCHANGED <<link, current, damage>>

\* (mutant) every process uses the same temporary link
CommonLink(r) == CHOOSE p \in DOMAIN link : TRUE

TemporaryLink(r) == Pid[r]

\* activate, first command.  ln -s with the name of a link that leads to a
\* directory makes the new link in that directory, or fails if it has one.
Link(r) ==
  /\ At(r, "link")
  /\ LET p == TemporaryLink(r)
         d == link[p]
     IN  \/ /\ d = None
            /\ link' = [link EXCEPT ![p] = Target(r)]
            /\ Goto(r, "switch")
            /\ UNCHANGED <<version, candidate>>
         \/ /\ d # None
            /\ Target(r) \notin version[d].links
            /\ version' = [version EXCEPT ![d].links = @ \cup {Target(r)}]
            /\ Goto(r, "switch")
            /\ UNCHANGED <<candidate, link>>
         \/ /\ d # None
            /\ Target(r) \in version[d].links
            /\ candidate' = [candidate EXCEPT ![r] = None]
            /\ Goto(r, "failed")
            /\ UNCHANGED <<version, link>>
  /\ UNCHANGED <<current, damage>>

\* activate, second command: the rename of the temporary link.
Switch(r) ==
  /\ At(r, "switch")
  /\ link[TemporaryLink(r)] # None
  /\ current' = link[TemporaryLink(r)]
  /\ link' = [link EXCEPT ![TemporaryLink(r)] = None]
  /\ Goto(r, "clean")
  /\ UNCHANGED <<version, candidate, damage>>

Clean(r) == /\ At(r, "clean")
            /\ candidate' = [candidate EXCEPT ![r] = None]
            /\ Goto(r, "done")
            /\ UNCHANGED <<version, link, current, damage>>

\* (mutant) there is no exit trap
FailWithoutTrap(r) ==
  /\ pc[r] \in Running
  /\ Goto(r, "failed")
  /\ UNCHANGED <<version, candidate, link, current, damage>>

\* A command fails without effect (set -e): the trap removes the candidate.
Fail(r) == /\ pc[r] \in Running
           /\ candidate' = [candidate EXCEPT ![r] = None]
           /\ Goto(r, "failed")
           /\ UNCHANGED <<version, link, current, damage>>

Kill(r) == /\ pc[r] \in Running
           /\ Goto(r, "killed")
           /\ UNCHANGED <<version, candidate, link, current, damage>>

\* A file of an installed version is changed or lost.
Damage(d) == /\ damage < MaxDamage
             /\ version[d] # None
             /\ version' = [version EXCEPT ![d].files = "damaged"]
             /\ damage' = damage + 1
             /\ UNCHANGED <<candidate, link, current, pc>>

Step(r) == \/ Start(r) \/ Inspect(r) \/ VerifyExisting(r) \/ Copy(r) \/ Verify(r)
           \/ Place(r) \/ Exchange(r) \/ Move(r) \/ Link(r) \/ Switch(r) \/ Clean(r)

Next == \/ \E r \in Runs : Step(r) \/ Fail(r) \/ Kill(r)
        \/ \E d \in Digests : Damage(d)

Spec == Init /\ [][Next]_vars

-----------------------------------------------------------------------------
(* Properties *)

\* "atomically activates it under DIR/current": whoever follows the active link
\* finds all files of one bundle, whichever runs overlap, fail or are killed.
\* Nor does a temporary link that a dead run left lead anywhere else.
ActiveIsWhole ==
  \A d \in {current} \cup {link[p] : p \in DOMAIN link} :
    d # None => version[d] # None /\ version[d].files # "partial"

\* Only a killed run leaves its candidate, or the version it replaced, behind.
NoLitter ==
  \A r \in Runs : candidate[r] # None => pc[r] \in Running \cup {"killed"}

\* Another bundle of the same lock got the directory of r.
SameLock(r) == \E q \in Runs \ {r} : /\ pc[q] # "new"
                                     /\ Target(q) = Target(r)
                                     /\ Bundle[q] # Bundle[r]

\* A dead run of the same process number may have left its link.
Reused(r) == \E q \in Runs \ {r} : Pid[q] = Pid[r] /\ pc[q] \in {"failed", "killed"}

\* "Verifies an extracted CUEstrap bundle and atomically activates it": the
\* switch of a run makes its own bundle the active one.  There are two ways to
\* report success for another one: bundles of one lock share a directory, and
\* a process number may come back after a run died between its two commands.
ActivatesItsOwn ==
  [][\A r \in Runs : Switch(r) =>
       \/ current' = Target(r) /\ version[Target(r)].bundle = Bundle[r]
       \/ current' = Target(r) /\ SameLock(r)
       \/ Reused(r)]_vars
=============================================================================
