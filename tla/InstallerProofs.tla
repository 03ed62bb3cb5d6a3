-------------------------- MODULE InstallerProofs --------------------------
(***************************************************************************)
(* The installer keeps its promise for any number of overlapping runs, of  *)
(* bundles and of locks, and whichever of them fail or are killed.         *)
(*                                                                         *)
(* A version directory is never removed, only exchanged, and what is moved *)
(* there is a candidate that is whole; so wherever a link was once able to *)
(* lead, it leads to something whole.  A link that a run finds under its   *)
(* own number was made by a dead one, since live runs differ in number.    *)
(***************************************************************************)
EXTENDS Installer, TLAPS

Entries == Directories \cup {None}
Ended   == {"done", "failed", "killed"}
Dead    == {"failed", "killed"}

-----------------------------------------------------------------------------
(* The parts of the invariant *)

Typing ==
  /\ version \in [Digests -> Entries]
  /\ candidate \in [Runs -> Entries]
  /\ link \in [ProcessNumbers -> Digests \cup {None}]
  /\ current \in Digests \cup {None}
  /\ pc \in [Runs -> Running \cup Ended \cup {"new"}]

Placing == {"verify", "place", "exchange", "move"}

\* What a run is about to put in place is its own bundle, all of it.
CandidatesAreOwn ==
  \A r \in Runs :
    /\ pc[r] \in Placing \cup {"copy"} => candidate[r] # None /\ candidate[r].bundle = Bundle[r]
    /\ pc[r] \in Placing => candidate[r].files = "whole"
    /\ pc[r] \in {"new", "inspect", "verify-existing"} => candidate[r] = None

\* What is in place was put there by a run for that directory.
VersionsAreInstalled ==
  \A d \in Digests : version[d] # None =>
    /\ version[d].files # "partial"
    /\ \E q \in Runs : pc[q] # "new" /\ Target(q) = d /\ version[d].bundle = Bundle[q]

\* No link leads to nothing, nor is one about to.
LinksLead ==
  /\ current # None => version[current] # None
  /\ \A p \in ProcessNumbers : link[p] # None => version[link[p]] # None
  /\ \A r \in Runs : pc[r] \in {"verify-existing", "link", "switch"} => version[Target(r)] # None

NumbersDiffer ==
  \A q, r \in Runs : q # r /\ pc[q] \in Running /\ pc[r] \in Running => Pid[q] # Pid[r]

\* Whose a temporary link is, and what a run that made one will rename.
LinksAreOwned ==
  /\ \A p \in ProcessNumbers : link[p] # None =>
       \E q \in Runs : Pid[q] = p /\ pc[q] \in {"switch"} \cup Dead
  /\ \A r \in Runs : pc[r] = "switch" => link[Pid[r]] = Target(r) \/ Reused(r)

Inv == /\ Typing
       /\ CandidatesAreOwn
       /\ VersionsAreInstalled
       /\ LinksLead
       /\ NoLitter
       /\ NumbersDiffer
       /\ LinksAreOwned

-----------------------------------------------------------------------------
(* Directories *)

LEMMA AmendedFiles ==
  ASSUME NEW c \in Directories, NEW f \in {"partial", "whole", "damaged"}
  PROVE  /\ [c EXCEPT !.files = f] \in Directories
         /\ [c EXCEPT !.files = f].bundle = c.bundle
         /\ [c EXCEPT !.files = f].files = f
BY DEF Directories

LEMMA AmendedLinks ==
  ASSUME NEW c \in Directories, NEW d \in Digests
  PROVE  /\ [c EXCEPT !.links = @ \cup {d}] \in Directories
         /\ [c EXCEPT !.links = @ \cup {d}].bundle = c.bundle
         /\ [c EXCEPT !.links = @ \cup {d}].files = c.files
BY DEF Directories

\* ln -s changes no version, or drops a link into one that is there.
LEMMA LinkAdds ==
  ASSUME Inv, NEW r \in Runs, Link(r), link[Pid[r]] # None
  PROVE  LET d == link[Pid[r]]
         IN  /\ d \in Digests
             /\ version[d] \in Directories
             /\ link' = link
             /\ \/ version' = version
                \/ version' = [version EXCEPT ![d] = [version[d] EXCEPT !.links = @ \cup {Target(r)}]]
<1>1. link[Pid[r]] \in Digests /\ version[link[Pid[r]]] \in Directories
  BY DEF Inv, Typing, Entries, LinksLead, ProcessNumbers
<1>2. /\ link' = link
      /\ \/ version' = version
         \/ version' = [version EXCEPT ![link[Pid[r]]] =
                          [version[link[Pid[r]]] EXCEPT !.links = @ \cup {Target(r)}]]
  BY DEF Link, TemporaryLink
<1>3. QED  BY <1>1, <1>2

\* So it leaves what every version says of bundle and files.
LEMMA LinkKeeps ==
  ASSUME Inv, NEW r \in Runs, Link(r)
  PROVE  /\ version' \in [Digests -> Entries]
         /\ \A d \in Digests : /\ version'[d] = None <=> version[d] = None
                               /\ version[d] # None => /\ version'[d].bundle = version[d].bundle
                                                       /\ version'[d].files = version[d].files
<1>1. CASE link[Pid[r]] = None
  BY <1>1 DEF Link, TemporaryLink, Inv, Typing
<1>2. CASE link[Pid[r]] # None
  <2>1. link[Pid[r]] \in Digests /\ version[link[Pid[r]]] \in Directories /\ Target(r) \in Digests
    BY <1>2, LinkAdds, InstallerAssumption DEF Target
  <2>2. CASE version' = version
    BY <2>2 DEF Inv, Typing
  <2>3. CASE version' = [version EXCEPT ![link[Pid[r]]] =
                          [version[link[Pid[r]]] EXCEPT !.links = @ \cup {Target(r)}]]
    <3> DEFINE new == [version[link[Pid[r]]] EXCEPT !.links = @ \cup {Target(r)}]
    <3>1. /\ new \in Directories
          /\ new.bundle = version[link[Pid[r]]].bundle
          /\ new.files = version[link[Pid[r]]].files
      BY <2>1, AmendedLinks
    <3>2. version' = [version EXCEPT ![link[Pid[r]]] = new]
      BY <2>3
    <3> HIDE DEF new
    <3>3. QED
      BY <2>1, <3>1, <3>2, InstallerAssumption DEF Inv, Typing, Entries
  <2>4. QED  BY <1>2, <2>2, <2>3, LinkAdds
<1>3. QED  BY <1>1, <1>2

\* What else it does.
LEMMA LinkDoes ==
  ASSUME NEW r \in Runs, Link(r)
  PROVE  /\ pc[r] = "link" /\ current' = current
         /\ \/ candidate' = candidate /\ pc' = [pc EXCEPT ![r] = "switch"]
            \/ candidate' = [candidate EXCEPT ![r] = None] /\ pc' = [pc EXCEPT ![r] = "failed"]
         /\ \/ link[Pid[r]] # None /\ link' = link
            \/ /\ link[Pid[r]] = None
               /\ link' = [link EXCEPT ![Pid[r]] = Target(r)]
               /\ pc' = [pc EXCEPT ![r] = "switch"]
BY DEF Link, At, Goto, TemporaryLink

-----------------------------------------------------------------------------
(* Every step keeps every part *)

\* Every step keeps the types.
LEMMA TypingStep == ASSUME Inv, Next PROVE Typing'
<1>1. ASSUME NEW r \in Runs, \/ Start(r) \/ VerifyExisting(r) \/ Verify(r)
                               \/ Place(r) \/ Kill(r)
             PROVE Typing'
  BY <1>1, InstallerAssumption
  DEF Inv, Start, VerifyExisting, Verify, Place, Kill, At, Goto, Typing,
      Entries, Running, Ended, Directories, Target
<1>2. ASSUME NEW r \in Runs, Inspect(r) PROVE Typing'
  BY <1>2, InstallerAssumption
  DEF Inv, Inspect, At, Goto, Typing,
      Entries, Running, Ended, Directories, Target
<1>3. ASSUME NEW r \in Runs, Copy(r) PROVE Typing'
  <2>1. candidate[r] \in Directories
    BY <1>3 DEF Inv, Copy, At, Typing, Entries, CandidatesAreOwn
  <2>2. [candidate[r] EXCEPT !.files = "whole"] \in Directories
    BY <2>1, AmendedFiles
  <2>3. QED
    BY <1>3, <2>2 DEF Inv, Copy, At, Goto, Typing, Entries, Running
<1>4. ASSUME NEW r \in Runs, Exchange(r) PROVE Typing'
  BY <1>4, InstallerAssumption
  DEF Inv, Exchange, At, Goto, Typing,
      Entries, Running, Ended, Directories, Target
<1>5. ASSUME NEW r \in Runs, Move(r) PROVE Typing'
  BY <1>5, InstallerAssumption
  DEF Inv, Move, At, Goto, Typing,
      Entries, Running, Ended, Directories, Target
<1>6. ASSUME NEW r \in Runs, Link(r) PROVE Typing'
  <2>1. version' \in [Digests -> Entries]
    BY <1>6, LinkKeeps
  <2>2. candidate' \in [Runs -> Entries]
    BY <1>6, LinkDoes DEF Inv, Typing, Entries
  <2>3. link' \in [ProcessNumbers -> Digests \cup {None}]
    BY <1>6, LinkDoes, InstallerAssumption DEF Inv, Typing, Target
  <2>4. pc' \in [Runs -> Running \cup Ended \cup {"new"}] /\ current' = current
    BY <1>6, LinkDoes DEF Inv, Typing, Running, Ended
  <2>5. QED  BY <2>1, <2>2, <2>3, <2>4 DEF Inv, Typing
<1>7. ASSUME NEW r \in Runs, Switch(r) PROVE Typing'
  BY <1>7 DEF Inv, Switch, TemporaryLink, At, Goto, Typing, Running, ProcessNumbers
<1>8. ASSUME NEW r \in Runs, Clean(r) \/ Fail(r) PROVE Typing'
  BY <1>8, InstallerAssumption
  DEF Inv, Clean, Fail, At, Goto, Typing,
      Entries, Running, Ended, Directories, Target
<1>9. ASSUME NEW d \in Digests, Damage(d) PROVE Typing'
  BY <1>9, InstallerAssumption
  DEF Inv, Damage, At, Goto, Typing,
      Entries, Running, Ended, Directories, Target
<1>10. QED
  BY <1>1, <1>2, <1>3, <1>4, <1>5, <1>6, <1>7, <1>8, <1>9 DEF Next, Step

\* Nobody touches the candidate of another run; only Inspect makes one.
LEMMA CandidatesStep == ASSUME Inv, Next PROVE CandidatesAreOwn'
<1>1. ASSUME NEW r \in Runs, \/ Start(r) \/ VerifyExisting(r)
                               \/ Verify(r) \/ Place(r)
             PROVE CandidatesAreOwn'
  BY <1>1, InstallerAssumption
  DEF Inv, Start, VerifyExisting, Verify, Place, At, Goto, Typing,
      CandidatesAreOwn, Placing, Entries, Running, Directories
<1>2. ASSUME NEW r \in Runs, Inspect(r) PROVE CandidatesAreOwn'
  BY <1>2, InstallerAssumption
  DEF Inv, Inspect, At, Goto, Typing,
      CandidatesAreOwn, Placing, Entries, Running, Directories
<1>3. ASSUME NEW r \in Runs, Copy(r) PROVE CandidatesAreOwn'
  BY <1>3, InstallerAssumption
  DEF Inv, Copy, At, Goto, Typing,
      CandidatesAreOwn, Placing, Entries, Running, Directories
<1>4. ASSUME NEW r \in Runs, Exchange(r) \/ Move(r) PROVE CandidatesAreOwn'
  BY <1>4, InstallerAssumption
  DEF Inv, Exchange, Move, At, Goto, Typing,
      CandidatesAreOwn, Placing, Entries, Running, Directories
<1>5. ASSUME NEW r \in Runs, Link(r) PROVE CandidatesAreOwn'
  BY <1>5, InstallerAssumption
  DEF Inv, Link, At, Goto, Typing,
      CandidatesAreOwn, Placing, Entries, Running, Directories
<1>6. ASSUME NEW r \in Runs, Switch(r) PROVE CandidatesAreOwn'
  BY <1>6, InstallerAssumption
  DEF Inv, Switch, At, Goto, Typing,
      CandidatesAreOwn, Placing, Entries, Running, Directories
<1>7. ASSUME NEW r \in Runs, Clean(r) \/ Fail(r) \/ Kill(r) PROVE CandidatesAreOwn'
  BY <1>7, InstallerAssumption
  DEF Inv, Clean, Fail, Kill, At, Goto, Typing,
      CandidatesAreOwn, Placing, Entries, Running, Directories
<1>8. ASSUME NEW d \in Digests, Damage(d) PROVE CandidatesAreOwn'
  BY <1>8, InstallerAssumption
  DEF Inv, Damage, At, Goto, Typing,
      CandidatesAreOwn, Placing, Entries, Running, Directories
<1>9. QED
  BY <1>1, <1>2, <1>3, <1>4, <1>5, <1>6, <1>7, <1>8 DEF Next, Step

\* Only Exchange and Move bring a version, from a candidate that was verified.
LEMMA VersionsStep == ASSUME Inv, Next PROVE VersionsAreInstalled'
<1>1. ASSUME NEW r \in Runs, \/ Start(r) \/ VerifyExisting(r) \/ Verify(r)
                               \/ Place(r) \/ Kill(r)
             PROVE VersionsAreInstalled'
  BY <1>1, InstallerAssumption
  DEF Inv, Start, VerifyExisting, Verify, Place, Kill, At, Goto, Typing,
      VersionsAreInstalled, CandidatesAreOwn, Placing, Target, Entries, Directories
<1>2. ASSUME NEW r \in Runs, \/ Inspect(r) \/ Copy(r) \/ Clean(r)
                               \/ Fail(r) \/ Switch(r)
             PROVE VersionsAreInstalled'
  BY <1>2, InstallerAssumption
  DEF Inv, Inspect, Copy, Clean, Fail, Switch, At, Goto, Typing,
      VersionsAreInstalled, CandidatesAreOwn, Placing, Target, Entries, Directories
<1>3. ASSUME NEW r \in Runs, Exchange(r) PROVE VersionsAreInstalled'
  BY <1>3, InstallerAssumption
  DEF Inv, Exchange, At, Goto, Typing,
      VersionsAreInstalled, CandidatesAreOwn, Placing, Target, Entries, Directories
<1>4. ASSUME NEW r \in Runs, Move(r) PROVE VersionsAreInstalled'
  BY <1>4, InstallerAssumption
  DEF Inv, Move, At, Goto, Typing,
      VersionsAreInstalled, CandidatesAreOwn, Placing, Target, Entries, Directories
<1>5. ASSUME NEW r \in Runs, Link(r) PROVE VersionsAreInstalled'
  <2>1. ASSUME NEW d \in Digests, version'[d] # None
        PROVE  /\ version'[d].files # "partial"
               /\ \E q \in Runs : pc[q] # "new" /\ Target(q) = d /\ version'[d].bundle = Bundle[q]
    BY <1>5, <2>1, LinkKeeps DEF Inv, VersionsAreInstalled
  <2>2. \A q \in Runs : pc[q] # "new" => pc'[q] # "new"
    BY <1>5, LinkDoes DEF Inv, Typing
  <2>3. QED  BY <2>1, <2>2 DEF VersionsAreInstalled, Target
<1>6. ASSUME NEW d \in Digests, Damage(d) PROVE VersionsAreInstalled'
  BY <1>6, InstallerAssumption
  DEF Inv, Damage, At, Goto, Typing,
      VersionsAreInstalled, CandidatesAreOwn, Placing, Target, Entries, Directories
<1>7. QED
  BY <1>1, <1>2, <1>3, <1>4, <1>5, <1>6 DEF Next, Step

\* No step removes a version, and a link is made for one that is there.
LEMMA LinksStep == ASSUME Inv, Next PROVE LinksLead'
<1>1. ASSUME NEW r \in Runs, \/ Start(r) \/ VerifyExisting(r) \/ Verify(r)
                               \/ Place(r) \/ Kill(r)
             PROVE LinksLead'
  BY <1>1, InstallerAssumption
  DEF Inv, Start, VerifyExisting, Verify, Place, Kill, At, Goto, Typing,
      LinksLead, CandidatesAreOwn, Placing, Target, Entries, Directories
<1>2. ASSUME NEW r \in Runs, Inspect(r) \/ Copy(r) \/ Clean(r) \/ Fail(r) PROVE LinksLead'
  BY <1>2, InstallerAssumption
  DEF Inv, Inspect, Copy, Clean, Fail, At, Goto, Typing,
      LinksLead, CandidatesAreOwn, Placing, Target, Entries, Directories
<1>3. ASSUME NEW r \in Runs, Exchange(r) PROVE LinksLead'
  BY <1>3, InstallerAssumption
  DEF Inv, Exchange, At, Goto, Typing,
      LinksLead, CandidatesAreOwn, Placing, Target, Entries, Directories
<1>4. ASSUME NEW r \in Runs, Move(r) PROVE LinksLead'
  <2>1. \A d \in Digests : version[d] # None => version'[d] # None
    BY <1>4 DEF Inv, Move, Typing, Target
  <2>2. pc'[r] = "link" => version'[Target(r)] # None
    <3>1. CASE version[Target(r)] = None
      <4>1. candidate[r] # None /\ Target(r) \in Digests
        BY <1>4, InstallerAssumption DEF Inv, Move, At, CandidatesAreOwn, Placing, Target
      <4>2. QED  BY <1>4, <3>1, <4>1 DEF Inv, Move, Typing
    <3>2. CASE version[Target(r)] # None
      BY <1>4, <3>2, <2>1, InstallerAssumption DEF Target
    <3>3. QED  BY <3>1, <3>2
  <2>3. QED
    BY <1>4, <2>1, <2>2, InstallerAssumption DEF Inv, Move, Goto, Typing, LinksLead, Target
<1>5. ASSUME NEW r \in Runs, Link(r) PROVE LinksLead'
  <2>1. version[Target(r)] # None
    BY <1>5 DEF Inv, Link, At, LinksLead
  <2>2. \A d \in Digests : version'[d] = None <=> version[d] = None
    BY <1>5, LinkKeeps
  <2>3. \A p \in ProcessNumbers : link'[p] = link[p] \/ link'[p] = Target(r)
    BY <1>5, LinkDoes DEF Inv, Typing
  <2>4. \A p \in ProcessNumbers : link'[p] # None => version'[link'[p]] # None
    BY <2>1, <2>2, <2>3, InstallerAssumption DEF Inv, Typing, LinksLead, Target
  <2>5. QED
    BY <1>5, <2>1, <2>2, <2>4, LinkDoes, InstallerAssumption DEF Inv, Typing, LinksLead, Target
<1>6. ASSUME NEW r \in Runs, Switch(r) PROVE LinksLead'
  BY <1>6 DEF Inv, Switch, TemporaryLink, At, Goto, Typing, LinksLead, ProcessNumbers, Target
<1>7. ASSUME NEW d \in Digests, Damage(d) PROVE LinksLead'
  BY <1>7, InstallerAssumption
  DEF Inv, Damage, At, Goto, Typing,
      LinksLead, CandidatesAreOwn, Placing, Target, Entries, Directories
<1>8. QED
  BY <1>1, <1>2, <1>3, <1>4, <1>5, <1>6, <1>7 DEF Next, Step

\* A run that ends removes its candidate on the way.
LEMMA LitterStep == ASSUME Inv, Next PROVE NoLitter'
<1>1. ASSUME NEW r \in Runs, Start(r) \/ VerifyExisting(r) PROVE NoLitter'
  BY <1>1 DEF Inv, NoLitter, Start, VerifyExisting, Typing, Goto, At, Running, CandidatesAreOwn
<1>2. ASSUME NEW r \in Runs, Verify(r) \/ Place(r) \/ Kill(r) PROVE NoLitter'
  BY <1>2, InstallerAssumption
  DEF Inv, Verify, Place, Kill, At, Goto, Typing,
      NoLitter, CandidatesAreOwn, Running
<1>3. ASSUME NEW r \in Runs, Inspect(r) PROVE NoLitter'
  BY <1>3, InstallerAssumption
  DEF Inv, Inspect, At, Goto, Typing,
      NoLitter, CandidatesAreOwn, Running
<1>4. ASSUME NEW r \in Runs, Copy(r) PROVE NoLitter'
  BY <1>4, InstallerAssumption
  DEF Inv, Copy, At, Goto, Typing,
      NoLitter, CandidatesAreOwn, Running
<1>5. ASSUME NEW r \in Runs, Exchange(r) \/ Move(r) PROVE NoLitter'
  BY <1>5, InstallerAssumption
  DEF Inv, Exchange, Move, At, Goto, Typing,
      NoLitter, CandidatesAreOwn, Running
<1>6. ASSUME NEW r \in Runs, Link(r) PROVE NoLitter'
  BY <1>6, InstallerAssumption
  DEF Inv, Link, At, Goto, Typing,
      NoLitter, CandidatesAreOwn, Running
<1>7. ASSUME NEW r \in Runs, Switch(r) PROVE NoLitter'
  BY <1>7, InstallerAssumption
  DEF Inv, Switch, At, Goto, Typing,
      NoLitter, CandidatesAreOwn, Running
<1>8. ASSUME NEW r \in Runs, Clean(r) \/ Fail(r) PROVE NoLitter'
  BY <1>8, InstallerAssumption
  DEF Inv, Clean, Fail, At, Goto, Typing,
      NoLitter, CandidatesAreOwn, Running
<1>9. ASSUME NEW d \in Digests, Damage(d) PROVE NoLitter'
  BY <1>9, InstallerAssumption
  DEF Inv, Damage, At, Goto, Typing,
      NoLitter, CandidatesAreOwn, Running
<1>10. QED
  BY <1>1, <1>2, <1>3, <1>4, <1>5, <1>6, <1>7, <1>8, <1>9 DEF Next, Step

\* Only Start makes a run live, and its number is free then.
LEMMA NumbersStep == ASSUME Inv, Next PROVE NumbersDiffer'
<1>1. ASSUME NEW r \in Runs, Start(r) PROVE NumbersDiffer'
  BY <1>1, InstallerAssumption
  DEF Inv, Start, At, Goto, Typing,
      NumbersDiffer, Running
<1>2. ASSUME NEW r \in Runs, \/ Inspect(r) \/ VerifyExisting(r) \/ Copy(r)
                               \/ Verify(r) \/ Place(r)
             PROVE NumbersDiffer'
  BY <1>2, InstallerAssumption
  DEF Inv, Inspect, VerifyExisting, Copy, Verify, Place, At, Goto, Typing,
      NumbersDiffer, Running
<1>3. ASSUME NEW r \in Runs, Exchange(r) \/ Move(r) PROVE NumbersDiffer'
  BY <1>3, InstallerAssumption
  DEF Inv, Exchange, Move, At, Goto, Typing,
      NumbersDiffer, Running
<1>4. ASSUME NEW r \in Runs, Link(r) \/ Switch(r) PROVE NumbersDiffer'
  BY <1>4, InstallerAssumption
  DEF Inv, Link, Switch, At, Goto, Typing,
      NumbersDiffer, Running
<1>5. ASSUME NEW r \in Runs, Clean(r) \/ Fail(r) \/ Kill(r) PROVE NumbersDiffer'
  BY <1>5, InstallerAssumption
  DEF Inv, Clean, Fail, Kill, At, Goto, Typing,
      NumbersDiffer, Running
<1>6. ASSUME NEW d \in Digests, Damage(d) PROVE NumbersDiffer'
  BY <1>6, InstallerAssumption
  DEF Inv, Damage, At, Goto, Typing,
      NumbersDiffer, Running
<1>7. QED
  BY <1>1, <1>2, <1>3, <1>4, <1>5, <1>6 DEF Next, Step

\* A step that leaves the links alone.
LEMMA OwnersStay ==
  ASSUME Inv, NEW r \in Runs, NEW s, pc' = [pc EXCEPT ![r] = s], link' = link,
         pc[r] \in Running \cup {"new"}, pc[r] = "switch" => s \in Dead, s # "switch"
  PROVE  LinksAreOwned'
<1>1. \A q \in Runs : pc[q] \in Dead => pc'[q] = pc[q]
  BY DEF Inv, Typing, Running, Dead
<1>2. \A q \in Runs : pc[q] = "switch" => pc'[q] \in {"switch"} \cup Dead
  BY DEF Inv, Typing
<1>3. \A q \in Runs : pc'[q] = "switch" => pc[q] = "switch"
  BY DEF Inv, Typing
<1>4. \A q \in Runs : Reused(q) => Reused(q)'
  BY <1>1 DEF Reused, Dead
<1>5. \A p \in ProcessNumbers : link'[p] # None =>
        \E q \in Runs : Pid[q] = p /\ pc'[q] \in {"switch"} \cup Dead
  BY <1>1, <1>2 DEF Inv, LinksAreOwned, ProcessNumbers
<1>6. QED  BY <1>3, <1>4, <1>5 DEF Inv, LinksAreOwned, Target

\* A run that makes a link, or drops it into a directory because of an older one.
LEMMA OwnersLink ==
  ASSUME Inv, NEW r \in Runs, Link(r) PROVE LinksAreOwned'
<1>1. \A q \in Runs : pc[q] \in Dead \cup {"switch"} => pc'[q] = pc[q]
  BY LinkDoes DEF Inv, Typing, Dead
<1>2. \A q \in Runs : Reused(q) => Reused(q)'
  BY <1>1 DEF Reused, Dead
<1>3. \A q \in Runs \ {r} : pc'[q] = pc[q] /\ (pc[q] = "switch" => Pid[q] # Pid[r])
  BY LinkDoes DEF Inv, Typing, NumbersDiffer, Running
<1>4. pc'[r] \in {"switch"} \cup Dead
  BY LinkDoes DEF Inv, Typing, Dead
<1>5. CASE link[Pid[r]] = None
  <2>1. link' = [link EXCEPT ![Pid[r]] = Target(r)]
    BY <1>5, LinkDoes
  <2>2. link'[Pid[r]] = Target(r) /\ \A p \in ProcessNumbers : p # Pid[r] => link'[p] = link[p]
    BY <2>1 DEF Inv, Typing, ProcessNumbers
  <2>3. \A p \in ProcessNumbers : link'[p] # None =>
          \E q \in Runs : Pid[q] = p /\ pc'[q] \in {"switch"} \cup Dead
    BY <1>1, <1>4, <2>2 DEF Inv, LinksAreOwned, ProcessNumbers
  <2>4. ASSUME NEW q \in Runs, pc'[q] = "switch" PROVE link'[Pid[q]] = Target(q) \/ Reused(q)'
    BY <1>2, <1>3, <2>2, <2>4 DEF Inv, LinksAreOwned, ProcessNumbers
  <2>5. QED  BY <2>3, <2>4 DEF LinksAreOwned, Target
<1>6. CASE link[Pid[r]] # None
  <2>1. link' = link
    BY <1>6, LinkDoes
  <2>2. PICK o \in Runs : Pid[o] = Pid[r] /\ pc[o] \in {"switch"} \cup Dead
    BY <1>6 DEF Inv, LinksAreOwned, ProcessNumbers
  <2>3. o # r /\ pc[o] \in Dead
    BY <2>2, LinkDoes DEF Inv, NumbersDiffer, Running, Dead
  <2>4. Reused(r)'
    BY <1>1, <2>2, <2>3 DEF Reused, Dead
  <2>5. \A p \in ProcessNumbers : link'[p] # None =>
          \E q \in Runs : Pid[q] = p /\ pc'[q] \in {"switch"} \cup Dead
    BY <1>1, <2>1 DEF Inv, LinksAreOwned, ProcessNumbers
  <2>6. ASSUME NEW q \in Runs, pc'[q] = "switch" PROVE link'[Pid[q]] = Target(q) \/ Reused(q)'
    BY <1>2, <1>3, <2>1, <2>4, <2>6 DEF Inv, LinksAreOwned, ProcessNumbers
  <2>7. QED  BY <2>5, <2>6 DEF LinksAreOwned, Target
<1>7. QED  BY <1>5, <1>6

\* A run finds only the links of dead runs under its number, and renames its own.
LEMMA OwnersStep == ASSUME Inv, Next PROVE LinksAreOwned'
<1>1. ASSUME NEW r \in Runs, \/ Start(r) \/ Inspect(r) \/ VerifyExisting(r)
                               \/ Copy(r) \/ Verify(r)
             PROVE LinksAreOwned'
  BY <1>1, OwnersStay DEF Start, Inspect, VerifyExisting, Copy, Verify, At, Goto, Running, Dead
<1>2. ASSUME NEW r \in Runs, \/ Place(r) \/ Exchange(r) \/ Move(r)
                               \/ Clean(r) \/ Fail(r) \/ Kill(r)
             PROVE LinksAreOwned'
  BY <1>2, OwnersStay DEF Place, Exchange, Move, Clean, Fail, Kill, At, Goto, Running, Dead
<1>3. ASSUME NEW r \in Runs, Link(r) PROVE LinksAreOwned'
  BY <1>3, OwnersLink
<1>4. ASSUME NEW r \in Runs, Switch(r) PROVE LinksAreOwned'
  BY <1>4, InstallerAssumption
  DEF Inv, Switch, At, Goto, Typing,
      LinksAreOwned, NumbersDiffer, Reused, Dead, Target, TemporaryLink, Running, ProcessNumbers
<1>5. ASSUME NEW d \in Digests, Damage(d) PROVE LinksAreOwned'
  BY <1>5, InstallerAssumption
  DEF Inv, Damage, At, Goto, Typing,
      LinksAreOwned, NumbersDiffer, Reused, Dead, Target, TemporaryLink, Running, ProcessNumbers
<1>6. QED
  BY <1>1, <1>2, <1>3, <1>4, <1>5 DEF Next, Step

THEOREM InvHolds == Spec => []Inv
<1>1. Init => Inv
  BY InstallerAssumption
  DEF Init, Inv, Typing, Entries, CandidatesAreOwn, VersionsAreInstalled, LinksLead, NoLitter,
      NumbersDiffer, LinksAreOwned, Placing, Dead, Running, Ended
<1>2. Inv /\ [Next]_vars => Inv'
  <2>1. ASSUME Inv, Next PROVE Inv'
    BY <2>1, TypingStep, CandidatesStep, VersionsStep, LinksStep, LitterStep, NumbersStep, OwnersStep
    DEF Inv
  <2>2. ASSUME Inv, UNCHANGED vars PROVE Inv'
    BY <2>2
    DEF vars, Inv, Typing, CandidatesAreOwn, VersionsAreInstalled, LinksLead, NoLitter, NumbersDiffer,
        LinksAreOwned, Reused
  <2>3. QED  BY <2>1, <2>2
<1>3. QED  BY <1>1, <1>2, PTL DEF Spec

\* "atomically activates it under DIR/current" (install.sh): whichever runs
\* overlap, fail or are killed, the active link leads to all files of a bundle.
THEOREM ActiveStaysWhole == Spec => []ActiveIsWhole
<1>1. Inv => ActiveIsWhole
  BY DEF Inv, Typing, LinksLead, VersionsAreInstalled, ActiveIsWhole
<1>2. QED  BY <1>1, InvHolds, PTL

\* A run that ends, well or not, leaves no candidate behind (cleanup).
THEOREM OnlyKilledRunsLitter == Spec => []NoLitter
<1>1. Inv => NoLitter
  BY DEF Inv
<1>2. QED  BY <1>1, InvHolds, PTL

\* A run makes its own bundle the active one (activate), unless another bundle
\* of the same lock was installed or its process number had been used before.
THEOREM RunsActivateTheirOwn == Spec => ActivatesItsOwn
<1> DEFINE Own(r) == \/ current' = Target(r) /\ version[Target(r)].bundle = Bundle[r]
                     \/ current' = Target(r) /\ SameLock(r)
                     \/ Reused(r)
<1>1. ASSUME Inv, NEW r \in Runs, Switch(r) PROVE Own(r)
  <2>1. link[Pid[r]] = Target(r) \/ Reused(r)
    BY <1>1 DEF Inv, Switch, At, LinksAreOwned
  <2>2. PICK q \in Runs : /\ pc[q] # "new" /\ Target(q) = Target(r)
                          /\ version[Target(r)].bundle = Bundle[q]
    BY <1>1, InstallerAssumption DEF Inv, Switch, At, LinksLead, VersionsAreInstalled, Target
  <2>3. Bundle[q] = Bundle[r] \/ SameLock(r)
    BY <2>2 DEF SameLock
  <2>4. QED
    BY <1>1, <2>1, <2>2, <2>3 DEF Switch, TemporaryLink
<1>2. Inv /\ [Next]_vars => [\A r \in Runs : Switch(r) => Own(r)]_vars
  BY <1>1
<1>3. QED  BY <1>2, InvHolds, PTL DEF ActivatesItsOwn, Spec
=============================================================================
