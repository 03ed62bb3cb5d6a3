------------------------- MODULE BackendProbeProofs -------------------------
(***************************************************************************)
(* What a comparison of two backends is about, for any number of edits and *)
(* builds.  Two equal subject digests enclose the first evaluation: one    *)
(* edit between them would have changed the text, and only a second one can *)
(* bring it back.  The binary that ran between two equal manifests is at    *)
(* least as new as the first one, which was written after its binary was   *)
(* built, and at most as new as the one it was compared with, which was    *)
(* parsed before the second: versions of builds only grow.                 *)
(***************************************************************************)
EXTENDS BackendProbe, TLAPS

Verifying == {"parse", "digest", "reparse", "vouch"}
Stages == {"idle", "materialize", "eval", "candidate", "unify", "export", "payload", "run",
           "compare", "done"} \cup Verifying

-----------------------------------------------------------------------------
(* The parts of the invariant *)

\* The versions of the sources and of what is built of them.
BuildTyped ==
  /\ work \in 0..MaxWork
  /\ runner \in 1..(work + 1)
  /\ staged \in 0..runner
  /\ extension \in Contents
  /\ binary \in 0..runner
  /\ manifest \in ManifestDigests
  /\ finished \subseteq Manifests
  /\ build \in {"remove", "move"} => staged \in Versions
  /\ build \in {"digest", "write"} => binary \in Versions
  /\ build = "write" => extension \in Versions

\* The binary is at least as new as every whole manifest says, and the manifest
\* in place, if it is whole, is the newest.
BuildsGrow ==
  /\ manifest \in Manifests => manifest \in finished
  /\ \A m \in finished :
       /\ m.cueprobe <= binary
       /\ manifest \in Manifests => m.cueprobe <= manifest.cueprobe

IsObservation(o) ==
  o = [state |-> o.state, available |-> o.available, facts |-> o.facts, pinned |-> o.pinned]

ProbeTyped ==
  /\ TypeOK
  /\ route \in {"native", "cue-py"}
  /\ stage \in Stages
  /\ outcome = [b \in Backends |-> outcome[b]]
  /\ \A b \in Backends : IsObservation(outcome[b])

\* Whose turn it is in which stage.
Turns ==
  /\ at \in {Left, Right, "none"}
  /\ at = "none" <=> stage \in {"idle", "compare", "done"}
  /\ stage \in Verifying => at \in Native

\* What the subject digests and the texts that were evaluated have to do with
\* each other, and with the edits between the digests.
TextsEnclosed ==
  /\ at = Left => subject[Right] = NoText
  /\ at # "none" => IF stage = "materialize" THEN subject[at] = NoText
                                             ELSE subject[at] \in Texts
  /\ \A b \in Backends : subject[b] = NoText => reads[b] = {}
  /\ subject[Left] = NoText => between = 0
  /\ Enclosed => /\ between = 0 => text = subject[Left] /\ reads[Left] \subseteq {text}
                 /\ between = 1 => text # subject[Left]
  /\ subject[Right] # NoText /\ subject[Left] = subject[Right] /\ between < 2
       => reads[Left] \subseteq {subject[Left]}

FactsAreRead == \A b \in Backends : DOMAIN outcome[b].facts # {} => reads[b] # {}

Part(b, m) == IF b = "gopy" THEN m.extension ELSE m.cueprobe

\* What is vouched for, and by what.
VouchedBuilds ==
  /\ at = "gopy" => vouched["gopy"] = NoManifest
  /\ at \in Native => vouched["cueprobe"] = NoManifest
  /\ stage \in {"digest", "reparse", "vouch"} => parsed \in finished
  /\ \A b \in Native :
       /\ vouched[b] \in Manifests => vouched[b] \in finished
       /\ vouched[b] # NoManifest \/ (at = b /\ stage \in {"reparse", "vouch"})
            => \E m \in finished : Part(b, m) = artifact[b]

AtLeastFirst == vouched["gopy"] \in Manifests => vouched["gopy"].cueprobe <= ran["cueprobe"]

\* The binary that ran is between the first manifest and the second.
RanBetween ==
  /\ at = "cueprobe" /\ stage \in Verifying => ran["cueprobe"] <= binary /\ AtLeastFirst
  /\ at = "cueprobe" /\ stage \in {"reparse", "vouch"} => ran["cueprobe"] <= parsed.cueprobe
  /\ vouched["cueprobe"] \in Manifests =>
       ran["cueprobe"] <= vouched["cueprobe"].cueprobe /\ AtLeastFirst

ComparedAlike ==
  Compared => /\ subject[Left] = subject[Right]
              /\ SharedFacts # {}
              /\ route = "native" => /\ vouched["gopy"] = vouched["cueprobe"]
                                     /\ vouched["gopy"] # NoManifest

Inv == /\ BuildTyped /\ BuildsGrow
       /\ ProbeTyped /\ Turns
       /\ TextsEnclosed /\ FactsAreRead
       /\ VouchedBuilds /\ RanBetween
       /\ ComparedAlike

-----------------------------------------------------------------------------
(* The build, whatever the probe does *)

\* A step of people or of a build keeps the versions in order, and neither the
\* whole manifests nor the binary go back.
LEMMA BuildStep ==
  ASSUME BuildTyped, BuildsGrow, EditRunner \/ Build
  PROVE  /\ BuildTyped' /\ BuildsGrow'
         /\ finished \subseteq finished' /\ binary <= binary'
<1>0. /\ MaxWork \in Nat /\ work \in 0..MaxWork /\ runner \in 1..(work + 1)
      /\ staged \in 0..runner /\ binary \in 0..runner
      /\ extension \in Contents /\ manifest \in ManifestDigests
      /\ finished \subseteq Manifests
      /\ Versions = 1..(MaxWork + 1)
  BY WorkAssumption DEF BuildTyped, Versions
<1>1. CASE EditRunner
  BY <1>0, <1>1 DEF EditRunner, Work, BuildTyped, BuildsGrow
<1>2. CASE StageExtension
  BY <1>0, <1>2 DEF StageExtension, Work, BuildTyped, BuildsGrow
<1>3. CASE RemoveExtension
  BY <1>0, <1>3 DEF RemoveExtension, BuildTyped, BuildsGrow, Contents
<1>4. CASE MoveExtension
  BY <1>0, <1>4 DEF MoveExtension, BuildTyped, BuildsGrow, Contents, Absent
<1>5. CASE BuildCueprobe
  <2>1. \A m \in finished : m.cueprobe \in Versions
    BY <1>0 DEF Manifests
  <2>2. binary' = runner /\ runner \in Versions
    BY <1>0, <1>5 DEF BuildCueprobe
  <2>3. \A m \in finished : m.cueprobe <= runner
    BY <1>0, <2>1 DEF BuildsGrow
  <2>4. BuildsGrow'
    BY <1>0, <1>5, <2>2, <2>3 DEF BuildCueprobe, BuildsGrow
  <2>5. QED  BY <1>0, <1>5, <2>2, <2>4 DEF BuildCueprobe, BuildTyped
<1>6. CASE TruncateManifest
  <2>1. Torn \in ManifestDigests /\ Torn \notin Manifests
    BY <1>0 DEF Torn, ManifestDigests, Manifests, Partial
  <2>2. QED  BY <1>0, <1>6, <2>1 DEF TruncateManifest, BuildTyped, BuildsGrow
<1>7. CASE WriteManifest
  <2>1. /\ manifest' \in Manifests /\ manifest'.cueprobe = binary
        /\ finished' = finished \cup {manifest'}
        /\ UNCHANGED <<runner, staged, extension, binary, work>> /\ build' = "none"
    BY <1>7 DEF WriteManifest, BuildTyped, Manifests
  <2>2. \A m \in finished : m.cueprobe \in Versions
    BY <1>0 DEF Manifests
  <2>3. BuildTyped'
    BY <1>0, <2>1 DEF BuildTyped, ManifestDigests
  <2>4. BuildsGrow'
    BY <1>0, <2>1, <2>2 DEF BuildsGrow
  <2>5. QED  BY <1>0, <2>1, <2>3, <2>4
<1>8. CASE StopBuild
  BY <1>0, <1>8 DEF StopBuild, BuildTyped, BuildsGrow, Absent
<1>9. QED  BY <1>1, <1>2, <1>3, <1>4, <1>5, <1>6, <1>7, <1>8 DEF Build

-----------------------------------------------------------------------------
(* A step of the probe, in outline *)

Cleared ==
  /\ \/ at' = "none" /\ stage' = "idle" /\ route' = route
     \/ at' = Left' /\ stage' = "materialize" /\ route' \in {"native", "cue-py"}
  /\ Clear

\* The backend at hand goes on, or it is the turn of the next one.
Goes ==
  \/ /\ at' = at /\ stage' \in Stages \ {"idle", "materialize", "compare", "done"}
     /\ stage' \in Verifying => at \in Native
  \/ Advance

Observes ==
  \/ outcome' = outcome
  \/ \E o : /\ Observe(o) /\ IsObservation(o)
            /\ DOMAIN o.facts # {} => reads'[at] # {}

Works ==
  /\ at # "none" /\ UNCHANGED <<route, result, between>>
  /\ Goes
  /\ \/ Materialize /\ UNCHANGED reads
     \/ stage # "materialize" /\ Reading /\ UNCHANGED subject
     \/ stage # "materialize" /\ UNCHANGED <<subject, reads>>
  /\ Observes

\* An observation that was not made, or failed, has no facts.
LEMMA Incomplete ==
  /\ IsObservation(Nothing) /\ Nothing.facts = NoFacts
  /\ IsObservation(Failed) /\ Failed.facts = NoFacts
  /\ IsObservation(Unavailable) /\ Unavailable.facts = NoFacts
  /\ \A p : IsObservation(Unsupported(p)) /\ Unsupported(p).facts = NoFacts
  /\ DOMAIN NoFacts = {}
BY DEF Nothing, Failed, Unavailable, Unsupported, NoFacts, Observation, IsObservation

\* Each of the outcomes of the workers is an observation.
LEMMA WorkerOutcomes ==
  ASSUME NEW t, NEW o,
         o = CuePyOutcome(t) \/ o \in GopyOutcomes(t) \/ o \in CueprobeOutcomes(t)
  PROVE  IsObservation(o)
<1>1. CASE o = CuePyOutcome(t)
  BY <1>1 DEF CuePyOutcome, Observation, IsObservation
<1>2. CASE o \in GopyOutcomes(t)
  <2>1. \/ o = Observation("load-error", TRUE, NoFacts, TRUE)
        \/ o = Observation("evaluation-error", TRUE, Bottom(TRUE), TRUE)
        \/ o = Unsupported(TRUE)
        \/ o = Conflicting("evaluate", TRUE)
        \/ o = Observation("materialization-error", TRUE, NoFacts, TRUE)
        \/ o = Observation("compare", TRUE, [subsumes |-> t.meaning = "value"], TRUE)
        \/ o = Projected(t, TRUE)
        \/ o = Unprojected(t, TRUE)
    BY <1>2 DEF GopyOutcomes
  <2>2. QED
    BY <2>1 DEF Unsupported, Conflicting, Projected, Unprojected, Observation, IsObservation
<1>3. CASE o \in CueprobeOutcomes(t)
  <2> DEFINE Bottoms(p) == {Observation("evaluation-error", TRUE, f, p) :
                             f \in {NoFacts, Bottom(TRUE)}}
  <2>1. PICK p \in BOOLEAN :
          \/ o = Observation("load-error", TRUE, NoFacts, p)
          \/ o \in Bottoms(p)
          \/ o = Observation("evaluate", TRUE, Bottom(TRUE), p)
          \/ o = Projected(t, p)
          \/ o = Unprojected(t, p)
          \/ o = Observation("materialization-error", TRUE, NoFacts, p)
          \/ o = Observation("compare", TRUE, [subsumes |-> t.meaning = "value"], p)
          \/ o = Unsupported(p)
    BY <1>3 DEF CueprobeOutcomes
  <2>2. CASE o \in Bottoms(p)
    <3>1. PICK f \in {NoFacts, Bottom(TRUE)} : o = Observation("evaluation-error", TRUE, f, p)
      BY <2>2
    <3>2. QED  BY <3>1 DEF Observation, IsObservation
  <2>3. CASE o \notin Bottoms(p)
    <3> HIDE DEF Bottoms
    <3>1. QED  BY <2>1, <2>3 DEF Unsupported, Projected, Unprojected, Observation, IsObservation
  <2>4. QED  BY <2>2, <2>3
<1>4. QED  BY <1>1, <1>2, <1>3

\* An identity error changes the state of an observation alone.
LEMMA StateAlone ==
  ASSUME ProbeTyped, FactsAreRead, at \in Backends, UNCHANGED reads,
         outcome' = outcome \/ outcome' = [outcome EXCEPT ![at].state = "identity-error"]
  PROVE  Observes
<1> DEFINE o == [outcome[at] EXCEPT !.state = "identity-error"]
<1>1. CASE outcome' = outcome
  BY <1>1 DEF Observes
<1>2. CASE outcome' = [outcome EXCEPT ![at].state = "identity-error"]
  <2>1. outcome' = [outcome EXCEPT ![at] = o]
    BY <1>2
  <2>2. outcome[at] = [state |-> outcome[at].state, available |-> outcome[at].available,
                       facts |-> outcome[at].facts, pinned |-> outcome[at].pinned]
    BY DEF ProbeTyped, IsObservation
  <2>3. IsObservation(o) /\ o.facts = outcome[at].facts
    BY <2>2 DEF IsObservation
  <2>4. DOMAIN o.facts # {} => reads'[at] # {}
    BY <2>3 DEF FactsAreRead
  <2> HIDE DEF o
  <2>5. QED  BY <2>1, <2>3, <2>4 DEF Observes, Observe
<1>3. QED  BY <1>1, <1>2

\* What a process answers that has read the sources.
LEMMA OfProcess ==
  ASSUME reads'[at] # {},
         outcome' = outcome \/ \E s, f : Observe(Failed) \/ Observe(Observation(s, TRUE, f, FALSE))
  PROVE  Observes
<1>1. \A s, f : IsObservation(Observation(s, TRUE, f, FALSE))
  BY DEF Observation, IsObservation
<1>2. QED  BY <1>1, Incomplete DEF Observes

\* Every step of the probe fits the outline.
LEMMA ProbeOutline ==
  ASSUME ProbeTyped, Turns, FactsAreRead, Probe
  PROVE  UNCHANGED <<buildVars, text>> /\ (Cleared \/ Compare \/ Works)
<1> DEFINE Fits == UNCHANGED <<buildVars, text>> /\ Works
<1>0. /\ outcome = [b \in Backends |-> outcome[b]]
      /\ \A b \in Backends : IsObservation(outcome[b])
      /\ at \in Backends \cup {"none"} /\ "none" \notin Backends
      /\ at # "none" => at \in Backends
      /\ at = "none" <=> stage \in {"idle", "compare", "done"}
      /\ stage \in Verifying => at \in Native
      /\ reads = [b \in Backends |-> reads[b]]
  BY DEF ProbeTyped, Turns, TypeOK, Backends
<1>1. CASE Start
  BY <1>1 DEF Start, Clear, Cleared, Left
<1>2. CASE Raise
  BY <1>2 DEF Raise, Clear, Cleared
<1>3. CASE CliMaterialize
  <2>1. Goes
    BY <1>0, <1>3 DEF CliMaterialize, Materialize, Step, Goes, Stages, Verifying
  <2>2. outcome' = outcome \/ \E o \in {Unavailable, Unsupported(FALSE)} : Observe(o)
    BY <1>3, Zenon DEF CliMaterialize
  <2>3. Observes
    BY <2>2, Incomplete, Zenon DEF Observes
  <2>5. QED  BY <1>0, <1>3, <2>1, <2>3 DEF CliMaterialize, Materialize, Works, probeVars
<1>4. CASE CliEval
  <2>1. Goes
    BY <1>0, <1>4 DEF CliEval, Step, Goes, Stages, Verifying
  <2>2. reads'[at] # {}
    BY <1>0, <1>4 DEF CliEval, Reading
  <2>3. outcome' = outcome \/ \E s, f : Observe(Failed) \/ Observe(Observation(s, TRUE, f, FALSE))
    BY <1>4 DEF CliEval
  <2>4. Observes
    BY <2>2, <2>3, OfProcess
  <2>5. QED  BY <1>0, <1>4, <2>1, <2>4 DEF CliEval, Works, Verifying
<1>5. CASE CliCandidate
  <2>1. Goes
    BY <1>0, <1>5 DEF CliCandidate, Step, Goes, Stages, Verifying
  <2>2. reads'[at] # {}
    BY <1>0, <1>5 DEF CliCandidate, Reading
  <2>3. outcome' = outcome \/ \E s, f : Observe(Failed) \/ Observe(Observation(s, TRUE, f, FALSE))
    BY <1>5 DEF CliCandidate
  <2>4. Observes
    BY <2>2, <2>3, OfProcess
  <2>5. QED  BY <1>0, <1>5, <2>1, <2>4 DEF CliCandidate, Works, Verifying
<1>6. CASE CliUnify
  <2>1. Goes
    BY <1>0, <1>6 DEF CliUnify, Step, Goes, Stages, Verifying
  <2>2. reads'[at] # {}
    BY <1>0, <1>6 DEF CliUnify, Reading
  <2>3. outcome' = outcome \/ \E s, f : Observe(Failed) \/ Observe(Observation(s, TRUE, f, FALSE))
    BY <1>6 DEF CliUnify
  <2>4. Observes
    BY <2>2, <2>3, OfProcess
  <2>5. QED  BY <1>0, <1>6, <2>1, <2>4 DEF CliUnify, Works, Verifying
<1>7. CASE CliExport
  <2>1. Goes
    BY <1>0, <1>7 DEF CliExport, Step, Goes, Stages, Verifying
  <2>2. reads'[at] # {}
    BY <1>0, <1>7 DEF CliExport, Reading
  <2>3. outcome' = outcome \/ \E s, f : Observe(Failed) \/ Observe(Observation(s, TRUE, f, FALSE))
    BY <1>7 DEF CliExport
  <2>4. Observes
    BY <2>2, <2>3, OfProcess
  <2>5. QED  BY <1>0, <1>7, <2>1, <2>4 DEF CliExport, Works, Verifying
<1>8. CASE CuePyMaterialize
  <2>1. Goes
    BY <1>0, <1>8 DEF CuePyMaterialize, Materialize, Step, Goes, Stages, Verifying
  <2>2. outcome' = outcome \/ \E o \in {Unavailable, Unsupported(FALSE)} : Observe(o)
    BY <1>8, Zenon DEF CuePyMaterialize
  <2>3. Observes
    BY <2>2, Incomplete, Zenon DEF Observes
  <2>5. QED  BY <1>0, <1>8, <2>1, <2>3 DEF CuePyMaterialize, Materialize, Works, probeVars
<1>9. CASE CuePyPayload
  <2>1. Goes
    BY <1>0, <1>9 DEF CuePyPayload, Step, Goes, Stages, Verifying
  <2>2. reads'[at] # {}
    BY <1>0, <1>9 DEF CuePyPayload, Reading
  <2>3. Observes
    BY <1>9, <2>2, Incomplete, Zenon DEF CuePyPayload, Observes
  <2>5. QED  BY <1>0, <1>9, <2>1, <2>3 DEF CuePyPayload, Works, Verifying
<1>10. CASE CuePyRun
  <2>1. Goes
    BY <1>0, <1>10 DEF CuePyRun, Step, Goes, Stages, Verifying
  <2>2. Observe(Failed) \/ \E t \in reads[at] : Observe(CuePyOutcome(t))
    BY <1>10 DEF CuePyRun
  <2>3. Observes
    <3>1. reads' = reads
      BY <1>10 DEF CuePyRun
    <3>2. QED  BY <2>2, <3>1, Incomplete, WorkerOutcomes, Zenon DEF Observes
  <2>5. QED  BY <1>0, <1>10, <2>1, <2>3 DEF CuePyRun, Works
<1>11. CASE NativeMaterialize
  <2>1. Goes
    BY <1>0, <1>11 DEF NativeMaterialize, Materialize, Step, Goes, Stages, Verifying, Native
  <2>2. outcome' = outcome \/ \E o \in {Unavailable, Unsupported(FALSE)} : Observe(o)
    BY <1>11, Zenon DEF NativeMaterialize
  <2>3. Observes
    BY <2>2, Incomplete, Zenon DEF Observes
  <2>5. QED  BY <1>0, <1>11, <2>1, <2>3 DEF NativeMaterialize, Materialize, Works, probeVars
<1>12. CASE NativeRun
  <2>1. Goes
    BY <1>0, <1>12 DEF NativeRun, Step, Goes, Stages, Verifying, Native
  <2>2. reads'[at] # {}
    BY <1>0, <1>12 DEF NativeRun, Reading
  <2>3. Observes
    BY <1>12, <2>2, Incomplete, WorkerOutcomes, Zenon DEF NativeRun, Observes
  <2>5. QED  BY <1>0, <1>12, <2>1, <2>3 DEF NativeRun, Works, Verifying
<1>13. CASE ParseManifest
  <2>1. Goes
    BY <1>0, <1>13 DEF ParseManifest, Step, Goes, Stages, Verifying, IdentityError
  <2>3. outcome' = outcome \/ outcome' = [outcome EXCEPT ![at].state = "identity-error"]
    BY <1>13 DEF ParseManifest, IdentityError
  <2>4. Observes
    BY <1>0, <1>13, <2>3, StateAlone DEF ParseManifest
  <2>5. QED  BY <1>0, <1>13, <2>1, <2>4 DEF ParseManifest, Works
<1>14. CASE DigestArtifact
  <2>1. Goes
    BY <1>0, <1>14 DEF DigestArtifact, Step, Goes, Stages, Verifying, IdentityError
  <2>3. outcome' = outcome \/ outcome' = [outcome EXCEPT ![at].state = "identity-error"]
    BY <1>14 DEF DigestArtifact, IdentityError
  <2>4. Observes
    BY <1>0, <1>14, <2>3, StateAlone DEF DigestArtifact
  <2>5. QED  BY <1>0, <1>14, <2>1, <2>4 DEF DigestArtifact, Works
<1>15. CASE ReparseManifest
  <2>1. Goes
    BY <1>0, <1>15 DEF ReparseManifest, Step, Goes, Stages, Verifying, IdentityError
  <2>3. outcome' = outcome \/ outcome' = [outcome EXCEPT ![at].state = "identity-error"]
    BY <1>15 DEF ReparseManifest, IdentityError
  <2>4. Observes
    BY <1>0, <1>15, <2>3, StateAlone DEF ReparseManifest
  <2>5. QED  BY <1>0, <1>15, <2>1, <2>4 DEF ReparseManifest, Works
<1>16. CASE DigestManifest
  <2>1. Goes
    BY <1>0, <1>16 DEF DigestManifest, Step, Goes, Stages, Verifying
  <2>3. Observes
    BY <1>16 DEF DigestManifest, Observes
  <2>5. QED  BY <1>0, <1>16, <2>1, <2>3 DEF DigestManifest, Works
<1>17. CASE Compare
  BY <1>17 DEF Compare
<1>18. QED  BY <1>1, <1>2, <1>3, <1>4, <1>5, <1>6, <1>7, <1>8, <1>9, <1>10, <1>11, <1>12,
               <1>13, <1>14, <1>15, <1>16, <1>17 DEF Probe

\* The steps that have to do with native artifacts, and the others.
Bystands == UNCHANGED <<ran, parsed, artifact, vouched>> /\ stage' \notin Verifying

Verifies == ParseManifest \/ DigestArtifact \/ ReparseManifest \/ DigestManifest

\* Only the run of a worker and the steps of the verification touch what the probe
\* holds of artifacts.
LEMMA NativeSteps ==
  ASSUME Probe
  PROVE  Cleared \/ Bystands \/ NativeRun \/ Verifies
<1>1. CASE Start \/ Raise
  BY <1>1 DEF Start, Raise, Clear, Cleared, Left
<1>2. CASE CliMaterialize \/ CuePyMaterialize \/ NativeMaterialize
  BY <1>2 DEF CliMaterialize, CuePyMaterialize, NativeMaterialize, Advance, Step, Bystands,
              Verifying
<1>3. CASE CliEval \/ CliCandidate \/ CliUnify \/ CliExport
  BY <1>3 DEF CliEval, CliCandidate, CliUnify, CliExport, Advance, Step, Bystands, Verifying
<1>4. CASE CuePyPayload \/ CuePyRun
  BY <1>4 DEF CuePyPayload, CuePyRun, Advance, Step, Bystands, Verifying
<1>5. CASE Compare
  BY <1>5 DEF Compare, Bystands, Verifying
<1>6. QED  BY <1>1, <1>2, <1>3, <1>4, <1>5 DEF Probe, Verifies

-----------------------------------------------------------------------------
(* The parts of the invariant, over a step of the probe *)

Outlined == UNCHANGED <<buildVars, text>> /\ (Cleared \/ Compare \/ Works)

\* The two backends have their turns one after the other.
LEMMA TurnsStay ==
  ASSUME Turns, Outlined
  PROVE  Turns'
<1>0. "none" \notin {"cli", "cue-py", "gopy", "cueprobe"}
  OBVIOUS
<1>1. CASE Cleared
  BY <1>1 DEF Cleared, Turns, Left, Right, Verifying
<1>2. CASE Compare
  BY <1>2 DEF Compare, Turns, Left, Right, Verifying
<1>3. CASE Works
  <2>1. Left' = Left /\ Right' = Right /\ at \in {Left, Right} /\ at # "none"
    BY <1>3 DEF Works, Turns, Left, Right
  <2>2. CASE at' = at /\ stage' \in Stages \ {"idle", "materialize", "compare", "done"}
             /\ (stage' \in Verifying => at \in Native)
    BY <2>1, <2>2 DEF Turns
  <2>3. CASE Advance
    <3>1. at' = (IF at = Left THEN Right ELSE "none")
      BY <2>1, <2>3 DEF Advance, Following, Left, Right
    <3>2. stage' = IF at' = "none" THEN "compare" ELSE "materialize"
      BY <2>3 DEF Advance
    <3>3. Right # "none"
      BY DEF Right
    <3>4. QED  BY <2>1, <3>1, <3>2, <3>3 DEF Turns, Verifying
  <2>4. QED  BY <1>3, <2>2, <2>3 DEF Works, Goes
<1>4. QED  BY <1>1, <1>2, <1>3 DEF Outlined

\* The texts of a backend whose turn has not come are still to be digested; the
\* second digest is equal to the first only if no single edit came between.
LEMMA TextsStay ==
  ASSUME ProbeTyped, Turns, TextsEnclosed, Outlined
  PROVE  TextsEnclosed'
<1>0. /\ text \in Texts /\ text' = text /\ NoText \notin Texts /\ between \in Nat
      /\ subject \in [Backends -> Texts \cup {NoText}]
      /\ reads \in [Backends -> SUBSET Texts]
      /\ Left \in Backends /\ Right \in Backends /\ Left # Right /\ Left # "none"
      /\ Right # "none"
  <2>1. NoText \notin Texts
    BY ProbeAssumption DEF Texts, NoText, AllMeanings
  <2>2. QED  BY <2>1 DEF ProbeTyped, TypeOK, Outlined, Left, Right, Backends
<1>1. CASE Cleared
  <2>1. /\ subject' = [b \in Backends |-> NoText] /\ reads' = [b \in Backends |-> {}]
        /\ between' = 0 /\ Left' \in Backends /\ Right' \in Backends
        /\ at' = "none" \/ (at' \in Backends /\ stage' = "materialize")
    BY <1>1 DEF Cleared, Clear, Left, Right, Backends
  <2>2. QED  BY <1>0, <2>1 DEF TextsEnclosed, Enclosed
<1>2. CASE Compare
  <2>1. /\ UNCHANGED <<subject, reads, between, at, route, text>>
        /\ Left' = Left /\ Right' = Right /\ (at # "none" => stage' = stage)
    BY <1>0, <1>2 DEF Compare, Turns, Left, Right
  <2>2. QED  BY <2>1 DEF TextsEnclosed, Enclosed
<1>3. CASE Works
  <2>1. /\ Left' = Left /\ Right' = Right /\ between' = between
        /\ at \in {Left, Right} /\ at # "none" /\ at \in Backends
    BY <1>0, <1>3 DEF Works, Turns, Left, Right
  <2>2. \/ at' = at /\ stage' # "materialize"
        \/ at = Left /\ at' = Right /\ stage' = "materialize"
        \/ at = Right /\ at' = "none"
    BY <1>3, <2>1 DEF Works, Goes, Advance, Following, Left, Right
  <2>3. CASE Materialize /\ UNCHANGED reads
    <3>1. /\ stage = "materialize" /\ subject[at] = NoText /\ reads[at] = {}
          /\ subject' = [subject EXCEPT ![at] = text] /\ reads' = reads
      BY <2>1, <2>3 DEF Materialize, TextsEnclosed
    <3>2. at' = Left => subject'[Right] = NoText
      <4>1. at' = Left => at = Left /\ subject[Right] = NoText
        BY <1>0, <2>1, <2>2 DEF TextsEnclosed
      <4>2. QED  BY <1>0, <3>1, <4>1
    <3>3. at' # "none" => IF stage' = "materialize" THEN subject'[at'] = NoText
                                                    ELSE subject'[at'] \in Texts
      BY <1>0, <2>1, <2>2, <3>1 DEF TextsEnclosed
    <3>4. /\ \A b \in Backends : subject'[b] = NoText => reads'[b] = {}
          /\ subject'[Left] = NoText => between = 0
      BY <1>0, <2>1, <3>1 DEF TextsEnclosed
    <3>5. CASE at = Left
      <4>1. /\ subject'[Left] = text /\ subject'[Right] = NoText /\ between = 0
            /\ reads'[Left] = {}
        BY <1>0, <3>1, <3>5 DEF TextsEnclosed
      <4>2. QED  BY <1>0, <2>1, <3>2, <3>3, <3>4, <4>1 DEF TextsEnclosed, Enclosed
    <3>6. CASE at = Right
      <4>1. /\ subject'[Left] = subject[Left] /\ subject'[Right] = text /\ text # NoText
            /\ reads'[Left] = reads[Left]
        BY <1>0, <3>1, <3>6
      <4>2. ASSUME subject[Left] = text, between < 2
            PROVE  reads[Left] \subseteq {text}
        <5>1. Enclosed
          BY <3>1, <3>6, <4>1, <4>2 DEF Enclosed
        <5>2. between = 0
          BY <1>0, <4>2, <5>1 DEF TextsEnclosed
        <5>3. QED  BY <5>1, <5>2 DEF TextsEnclosed
      <4>3. QED  BY <1>0, <2>1, <3>2, <3>3, <3>4, <4>1, <4>2 DEF TextsEnclosed, Enclosed
    <3>7. QED  BY <2>1, <3>5, <3>6
  <2>4. CASE stage # "materialize" /\ Reading /\ UNCHANGED subject
    <3>1. /\ subject[at] \in Texts /\ subject' = subject
          /\ reads' = [reads EXCEPT ![at] = @ \cup {text}]
      BY <2>1, <2>4 DEF Reading, TextsEnclosed
    <3>2. at' = Left => subject'[Right] = NoText
      <4>1. at' = Left => at = Left /\ subject[Right] = NoText
        BY <1>0, <2>1, <2>2 DEF TextsEnclosed
      <4>2. QED  BY <1>0, <3>1, <4>1
    <3>3. at' # "none" => IF stage' = "materialize" THEN subject'[at'] = NoText
                                                    ELSE subject'[at'] \in Texts
      <4>1. at = Left => subject[Right] = NoText
        BY DEF TextsEnclosed
      <4>2. QED  BY <1>0, <2>1, <2>2, <3>1, <4>1 DEF Right
    <3>4. \A b \in Backends : subject'[b] = NoText => reads'[b] = {}
      BY <1>0, <2>1, <3>1 DEF TextsEnclosed
    <3>5. CASE at = Left
      <4>1. /\ subject[Right] = NoText /\ subject[Left] # NoText
            /\ reads'[Left] = reads[Left] \cup {text}
        BY <1>0, <3>1, <3>5 DEF TextsEnclosed
      <4>2. QED  BY <1>0, <2>1, <3>1, <3>2, <3>3, <3>4, <4>1 DEF TextsEnclosed, Enclosed
    <3>6. CASE at = Right
      <4>1. /\ subject[Right] # NoText /\ reads'[Left] = reads[Left]
        BY <1>0, <3>1, <3>6
      <4>2. QED  BY <1>0, <2>1, <3>1, <3>2, <3>3, <3>4, <4>1 DEF TextsEnclosed, Enclosed
    <3>7. QED  BY <2>1, <3>5, <3>6
  <2>5. CASE stage # "materialize" /\ UNCHANGED <<subject, reads>>
    <3>1. subject[at] \in Texts /\ subject' = subject /\ reads' = reads
      BY <2>1, <2>5 DEF TextsEnclosed
    <3>2. at = Left => subject[Right] = NoText
      BY DEF TextsEnclosed
    <3>3. /\ at' = Left => subject'[Right] = NoText
          /\ at' # "none" => IF stage' = "materialize" THEN subject'[at'] = NoText
                                                       ELSE subject'[at'] \in Texts
      BY <1>0, <2>1, <2>2, <3>1, <3>2
    <3>4. QED  BY <1>0, <2>1, <3>1, <3>3 DEF TextsEnclosed, Enclosed
  <2>6. QED  BY <1>3, <2>3, <2>4, <2>5 DEF Works
<1>4. QED  BY <1>1, <1>2, <1>3 DEF Outlined

\* Facts come of a text that was read.
LEMMA FactsStay ==
  ASSUME ProbeTyped, Turns, FactsAreRead, Outlined
  PROVE  FactsAreRead'
<1>0. /\ outcome = [b \in Backends |-> outcome[b]]
      /\ reads \in [Backends -> SUBSET Texts] /\ at \in Backends \cup {"none"}
  BY DEF ProbeTyped, TypeOK
<1>1. CASE Cleared
  <2>1. outcome' = [b \in Backends |-> Nothing]
    BY <1>1 DEF Cleared, Clear
  <2>2. QED  BY <2>1, Incomplete DEF FactsAreRead
<1>2. CASE Compare
  BY <1>2 DEF Compare, FactsAreRead
<1>3. CASE Works
  <2>1. at \in Backends /\ Observes
    BY <1>0, <1>3 DEF Works
  <2>2. \A b \in Backends : reads[b] \subseteq reads'[b]
    <3>1. reads' = reads \/ reads' = [reads EXCEPT ![at] = @ \cup {text}]
      BY <1>3 DEF Works, Reading
    <3>2. QED  BY <1>0, <2>1, <3>1
  <2>3. CASE outcome' = outcome
    BY <2>2, <2>3 DEF FactsAreRead
  <2>4. CASE \E o : Observe(o) /\ IsObservation(o) /\ (DOMAIN o.facts # {} => reads'[at] # {})
    <3>1. PICK o : /\ outcome' = [outcome EXCEPT ![at] = o]
                   /\ DOMAIN o.facts # {} => reads'[at] # {}
      BY <2>4 DEF Observe
    <3>2. ASSUME NEW b \in Backends, DOMAIN outcome'[b].facts # {} PROVE reads'[b] # {}
      <4>1. CASE b = at
        BY <1>0, <3>1, <3>2, <4>1
      <4>2. CASE b # at
        <5>1. outcome'[b] = outcome[b]
          BY <1>0, <3>1, <4>2
        <5>2. QED  BY <2>2, <3>2, <5>1 DEF FactsAreRead
      <4>3. QED  BY <4>1, <4>2
    <3>3. QED  BY <3>2 DEF FactsAreRead
  <2>5. QED  BY <2>1, <2>3, <2>4 DEF Observes
<1>4. QED  BY <1>1, <1>2, <1>3 DEF Outlined

NativeTyped ==
  /\ ran \in [Native -> Contents] /\ artifact \in [Native -> Contents]
  /\ parsed \in ManifestDigests /\ vouched \in [Native -> ManifestDigests]

\* What the probe holds of native artifacts keeps its type.
LEMMA NativeTypedStays ==
  ASSUME BuildTyped, NativeTyped, Turns, Cleared \/ Bystands \/ NativeRun \/ Verifies
  PROVE  NativeTyped'
<1>0. /\ extension \in Contents /\ binary \in Contents /\ manifest \in ManifestDigests
      /\ Absent \in Contents /\ NoManifest \in ManifestDigests
      /\ \A b : Artifact(b) \in Contents
  <2>1. 0..runner \subseteq Contents
    BY WorkAssumption DEF BuildTyped, Contents, Versions, Absent
  <2>2. QED  BY <2>1 DEF BuildTyped, Contents, ManifestDigests, Artifact
<1>1. CASE Cleared
  BY <1>0, <1>1 DEF Cleared, Clear, NativeTyped
<1>2. CASE Bystands
  BY <1>2 DEF Bystands, NativeTyped
<1>3. CASE NativeRun
  BY <1>0, <1>3 DEF NativeRun, NativeTyped
<1>4. CASE ParseManifest
  BY <1>0, <1>4 DEF ParseManifest, IdentityError, NativeTyped
<1>5. CASE DigestArtifact
  BY <1>0, <1>5 DEF DigestArtifact, IdentityError, NativeTyped
<1>6. CASE ReparseManifest
  BY <1>0, <1>6 DEF ReparseManifest, IdentityError, NativeTyped
<1>7. CASE DigestManifest
  BY <1>0, <1>7 DEF DigestManifest, NativeTyped
<1>8. QED  BY <1>1, <1>2, <1>3, <1>4, <1>5, <1>6, <1>7 DEF Verifies

\* The rest of the probe keeps its type.
LEMMA ProbeTypedStays ==
  ASSUME BuildTyped, ProbeTyped, Turns, Outlined, NativeTyped'
  PROVE  ProbeTyped'
<1>0. /\ text \in Texts /\ text' = text /\ UNCHANGED buildVars
      /\ subject \in [Backends -> Texts \cup {NoText}]
      /\ reads \in [Backends -> SUBSET Texts]
      /\ outcome = [b \in Backends |-> outcome[b]]
      /\ \A b \in Backends : IsObservation(outcome[b])
      /\ at \in Backends \cup {"none"} /\ stage \in Stages
      /\ route \in {"native", "cue-py"} /\ between \in Nat
  BY DEF ProbeTyped, TypeOK, Outlined
<1>1. between' \in Nat
  BY <1>0 DEF Outlined, Cleared, Clear, Compare, Works
<1>2. /\ subject' \in [Backends -> Texts \cup {NoText}]
      /\ reads' \in [Backends -> SUBSET Texts]
  <2>1. CASE Cleared
    BY <2>1 DEF Cleared, Clear
  <2>2. CASE Compare
    BY <1>0, <2>2 DEF Compare
  <2>3. CASE Works
    <3>1. subject' = subject \/ subject' = [subject EXCEPT ![at] = text]
      BY <2>3 DEF Works, Materialize
    <3>2. reads' = reads \/ reads' = [reads EXCEPT ![at] = @ \cup {text}]
      BY <2>3 DEF Works, Reading
    <3>3. subject' \in [Backends -> Texts \cup {NoText}]
      BY <1>0, <3>1
    <3>4. reads' \in [Backends -> SUBSET Texts]
      BY <1>0, <3>2
    <3>5. QED  BY <3>3, <3>4
  <2>4. QED  BY <2>1, <2>2, <2>3 DEF Outlined
<1>3. /\ outcome' = [b \in Backends |-> outcome'[b]]
      /\ \A b \in Backends : IsObservation(outcome'[b])
  <2>1. CASE Cleared
    <3>1. outcome' = [b \in Backends |-> Nothing]
      BY <2>1 DEF Cleared, Clear
    <3>2. QED  BY <3>1, Incomplete
  <2>2. CASE Compare
    BY <1>0, <2>2 DEF Compare
  <2>3. CASE Works
    <3>1. outcome' = outcome \/ \E o : IsObservation(o) /\ outcome' = [outcome EXCEPT ![at] = o]
      BY <2>3 DEF Works, Observes, Observe
    <3>2. QED  BY <1>0, <3>1
  <2>4. QED  BY <2>1, <2>2, <2>3 DEF Outlined
<1>4. /\ at' \in Backends \cup {"none"} /\ stage' \in Stages
      /\ route' \in {"native", "cue-py"}
  <2>1. CASE Cleared
    BY <1>0, <2>1 DEF Cleared, Left, Backends, Stages
  <2>2. CASE Compare
    BY <1>0, <2>2 DEF Compare, Stages
  <2>3. CASE Works
    BY <1>0, <2>3 DEF Works, Goes, Advance, Following, Backends, Stages
  <2>4. QED  BY <2>1, <2>2, <2>3 DEF Outlined
<1>5. TypeOK'
  BY <1>0, <1>1, <1>2, <1>4 DEF TypeOK, NativeTyped
<1>6. QED  BY <1>3, <1>4, <1>5 DEF ProbeTyped

\* A comparison has found what it requires.
LEMMA ComparedStays ==
  ASSUME Turns, ComparedAlike, Outlined
  PROVE  ComparedAlike'
<1>1. CASE Cleared
  BY <1>1 DEF Cleared, ComparedAlike, Compared
<1>2. CASE Works
  BY <1>2 DEF Works, Goes, Advance, ComparedAlike, Compared
<1>3. CASE Compare
  <2>1. /\ result' = Comparison
        /\ UNCHANGED <<route, subject, outcome, vouched>>
    BY <1>3 DEF Compare
  <2>2. SharedFacts' = SharedFacts /\ Left' = Left /\ Right' = Right
    BY <2>1 DEF SharedFacts, Left, Right
  <2>3. SUFFICES ASSUME Comparison \in {"shared-facts-equal", "shared-facts-differ"}
                 PROVE  /\ subject[Left] = subject[Right]
                        /\ SharedFacts # {}
                        /\ route = "native" => EquivalentEngines
    BY <2>1, <2>2 DEF ComparedAlike, Compared, EquivalentEngines, Admissible, Verified
  <2> DEFINE available == outcome[Left].available /\ outcome[Right].available
  <2>4. CASE ~available
    BY <2>3, <2>4 DEF Comparison
  <2>5. CASE available /\ subject[Left] # subject[Right]
    BY <2>3, <2>5 DEF Comparison
  <2>6. CASE available /\ subject[Left] = subject[Right] /\ route = "native" /\ ~EquivalentEngines
    BY <2>3, <2>6 DEF Comparison
  <2>7. CASE /\ available /\ subject[Left] = subject[Right]
             /\ ~(route = "native" /\ ~EquivalentEngines)
             /\ SharedFacts = {}
    BY <2>3, <2>7 DEF Comparison
  <2>8. QED  BY <2>4, <2>5, <2>6, <2>7
<1>4. QED  BY <1>1, <1>2, <1>3 DEF Outlined

\* What is vouched for was built, and the manifests are of builds.
LEMMA VouchedStays ==
  ASSUME BuildsGrow, NativeTyped, Turns, VouchedBuilds,
         Cleared \/ Bystands \/ NativeRun \/ Verifies, Outlined
  PROVE  VouchedBuilds'
<1>0. /\ finished' = finished /\ NoManifest \notin Manifests
      /\ manifest \in Manifests => manifest \in finished
      /\ vouched \in [Native -> ManifestDigests] /\ artifact \in [Native -> Contents]
      /\ "gopy" \in Native /\ "cueprobe" \in Native /\ "none" \notin Native
      /\ \A b \in Native : b = "gopy" \/ b = "cueprobe"
      /\ at = "gopy" => vouched["gopy"] = NoManifest
      /\ at \in Native => vouched["cueprobe"] = NoManifest
  <2>1. NoManifest \notin Manifests
    BY DEF NoManifest, Manifests, Absent, Versions
  <2>2. QED  BY <2>1 DEF Outlined, buildVars, BuildsGrow, NativeTyped, Native, VouchedBuilds
<1>1. CASE Cleared
  <2>1. /\ vouched' = [b \in Native |-> NoManifest]
        /\ stage' \in {"idle", "materialize"}
    BY <1>1 DEF Cleared, Clear
  <2>2. QED  BY <1>0, <2>1 DEF VouchedBuilds
<1>2. CASE Bystands /\ ~Cleared
  <2>1. at' \in Native => at \in Native /\ (at' = "gopy" => at = "gopy")
    <3>1. CASE Compare
      BY <3>1 DEF Compare
    <3>2. CASE Works
      BY <1>0, <3>2 DEF Works, Goes, Advance, Following, Native
    <3>3. QED  BY <1>2, <3>1, <3>2 DEF Outlined
  <2>2. QED  BY <1>0, <1>2, <2>1 DEF Bystands, Verifying, VouchedBuilds
<1>3. CASE at \in Native /\ Advance /\ UNCHANGED vouched
           /\ \A b \in Native : b # at => artifact'[b] = artifact[b]
  <2>1. at' \in {"cueprobe", "none"} /\ stage' \in {"materialize", "compare"}
    BY <1>0, <1>3 DEF Advance, Following
  <2>2. vouched[at] = NoManifest
    BY <1>0, <1>3
  <2>3. QED  BY <1>0, <1>3, <2>1, <2>2 DEF VouchedBuilds
<1>4. CASE NativeRun
  <2>1. CASE Advance
    BY <1>3, <1>4, <2>1 DEF NativeRun
  <2>2. CASE Step("run", "parse")
    BY <1>0, <1>4, <2>2 DEF NativeRun, Step, VouchedBuilds
  <2>3. QED  BY <1>4, <2>1, <2>2 DEF NativeRun
<1>5. CASE Verifies
  <2>1. at \in Native /\ stage \in Verifying
    BY <1>5 DEF Verifies, ParseManifest, DigestArtifact, ReparseManifest, DigestManifest, Step,
                Turns, Verifying
  <2>2. CASE IdentityError /\ UNCHANGED vouched
    BY <1>0, <1>3, <2>1, <2>2 DEF IdentityError
  <2>3. CASE ParseManifest /\ ~IdentityError
    BY <1>0, <2>1, <2>3 DEF ParseManifest, Step, VouchedBuilds
  <2>4. CASE DigestArtifact /\ ~IdentityError
    <3>1. /\ parsed \in finished /\ parsed' = parsed /\ vouched' = vouched
          /\ artifact' = [artifact EXCEPT ![at] = Artifact(at)]
          /\ Artifact(at) = Part(at, parsed)
          /\ at' = at /\ stage' = "reparse"
      BY <2>4 DEF DigestArtifact, Step, VouchedBuilds, Part, Section
    <3>2. \E m \in finished : Part(at, m) = artifact'[at]
      BY <1>0, <2>1, <3>1
    <3>3. \A b \in Native : b # at => artifact'[b] = artifact[b]
      BY <1>0, <3>1
    <3>4. QED  BY <1>0, <2>1, <3>1, <3>2, <3>3 DEF VouchedBuilds
  <2>5. CASE ReparseManifest /\ ~IdentityError
    BY <1>0, <2>1, <2>5 DEF ReparseManifest, Step, VouchedBuilds
  <2>6. CASE DigestManifest
    <3>1. /\ vouched' = [vouched EXCEPT ![at] = manifest] /\ artifact' = artifact
          /\ stage = "vouch"
          /\ at' \in {"cueprobe", "none"} /\ stage' \in {"materialize", "compare"}
          /\ at' = "cueprobe" => at = "gopy"
      BY <1>0, <2>1, <2>6 DEF DigestManifest, Advance, Following
    <3>2. at' \in Native => vouched'["cueprobe"] = NoManifest
      BY <1>0, <2>1, <3>1
    <3>3. ASSUME NEW b \in Native
          PROVE  /\ vouched'[b] \in Manifests => vouched'[b] \in finished
                 /\ vouched'[b] # NoManifest => \E m \in finished : Part(b, m) = artifact[b]
      BY <1>0, <2>1, <3>1 DEF VouchedBuilds
    <3>4. QED  BY <1>0, <3>1, <3>2, <3>3 DEF VouchedBuilds
  <2>7. QED  BY <1>5, <2>2, <2>3, <2>4, <2>5, <2>6
             DEF Verifies, ParseManifest, DigestArtifact, ReparseManifest
<1>6. QED  BY <1>1, <1>2, <1>4, <1>5

\* The cueprobe that ran stays between the two manifests.
LEMMA RanStays ==
  ASSUME BuildTyped, BuildsGrow, NativeTyped, Turns, VouchedBuilds, RanBetween,
         Cleared \/ Bystands \/ NativeRun \/ Verifies, Outlined
  PROVE  RanBetween'
<1>0. /\ binary' = binary /\ binary \in Int
      /\ vouched \in [Native -> ManifestDigests] /\ ran \in [Native -> Contents]
      /\ "gopy" \in Native /\ "cueprobe" \in Native /\ "none" \notin Native
      /\ \A b \in Native : b = "gopy" \/ b = "cueprobe"
      /\ at = "gopy" => vouched["gopy"] = NoManifest
      /\ at \in Native => vouched["cueprobe"] = NoManifest
      /\ NoManifest \notin Manifests
      /\ ran["cueprobe"] \in Int
      /\ \A m \in Manifests : m.cueprobe \in Int
      /\ finished \subseteq Manifests
  <2>1. NoManifest \notin Manifests
    BY DEF NoManifest, Manifests, Absent, Versions
  <2>2. Contents \subseteq Int /\ Versions \subseteq Int
    BY WorkAssumption DEF Contents, Versions, Absent, Partial
  <2>3. binary' = binary /\ binary \in Int
    BY WorkAssumption DEF Outlined, buildVars, BuildTyped
  <2>4. ran["cueprobe"] \in Int
    BY <2>2 DEF NativeTyped, Native
  <2>5. finished \subseteq Manifests /\ \A m \in Manifests : m.cueprobe \in Int
    BY <2>2 DEF BuildTyped, Manifests
  <2>6. QED  BY <2>1, <2>3, <2>4, <2>5 DEF NativeTyped, Native, VouchedBuilds
<1>1. CASE Cleared
  <2>1. /\ vouched' = [b \in Native |-> NoManifest]
        /\ stage' \notin Verifying
    BY <1>1 DEF Cleared, Clear, Verifying
  <2>2. QED  BY <1>0, <2>1 DEF RanBetween, Verifying
<1>2. CASE Bystands
  BY <1>2 DEF Bystands, RanBetween, AtLeastFirst, Verifying
<1>3. CASE NativeRun
  <2>1. at \in Native /\ vouched' = vouched /\ ran' = [ran EXCEPT ![at] = Artifact(at)]
    BY <1>3 DEF NativeRun
  <2>2. CASE at = "cueprobe"
    <3>1. ran'["cueprobe"] = binary
      BY <1>0, <2>1, <2>2 DEF Artifact
    <3>2. vouched["gopy"] \in Manifests => vouched["gopy"].cueprobe <= binary
      BY <1>0 DEF VouchedBuilds, BuildsGrow
    <3>3. AtLeastFirst'
      BY <2>1, <3>1, <3>2 DEF AtLeastFirst
    <3>4. stage' \notin {"reparse", "vouch"}
      BY <1>3 DEF NativeRun, Step, Advance
    <3>5. vouched'["cueprobe"] \notin Manifests
      BY <1>0, <2>1, <2>2
    <3>6. QED  BY <1>0, <3>1, <3>3, <3>4, <3>5 DEF RanBetween
  <2>3. CASE at = "gopy"
    <3>1. at' = "cueprobe" => stage' \notin Verifying
      BY <1>3, <2>3 DEF NativeRun, Step, Advance, Following, Verifying
    <3>2. vouched'["cueprobe"] \notin Manifests
      BY <1>0, <2>1, <2>3
    <3>3. QED  BY <3>1, <3>2 DEF RanBetween, Verifying
  <2>4. QED  BY <1>0, <2>1, <2>2, <2>3
<1>4. CASE Verifies
  <2>1. at \in Native /\ stage \in Verifying /\ ran' = ran
    BY <1>4 DEF Verifies, ParseManifest, DigestArtifact, ReparseManifest, DigestManifest, Step,
                Turns, Verifying
  <2>2. CASE vouched' = vouched
    <3>1. /\ vouched'["cueprobe"] \notin Manifests
          /\ AtLeastFirst' <=> AtLeastFirst
      BY <1>0, <2>1, <2>2 DEF AtLeastFirst
    <3>2. CASE Advance
      BY <3>1, <3>2 DEF Advance, RanBetween, Verifying
    <3>3. CASE at' = at /\ ~Advance
      <4>1. stage' \in {"reparse", "vouch"} /\ at = "cueprobe"
              => ran["cueprobe"] <= parsed'.cueprobe
        <5>1. CASE DigestArtifact
          <6>1. Artifact(at) = Section(parsed) /\ parsed' = parsed
            BY <3>3, <5>1 DEF DigestArtifact, IdentityError
          <6>2. at = "cueprobe" => binary = parsed.cueprobe /\ ran["cueprobe"] <= binary
            BY <2>1, <6>1 DEF Artifact, Section, RanBetween
          <6>3. QED  BY <6>1, <6>2
        <5>2. CASE ParseManifest
          BY <3>3, <5>2 DEF ParseManifest, Step, IdentityError
        <5>3. CASE ReparseManifest
          BY <3>3, <5>3 DEF ReparseManifest, Step, IdentityError, RanBetween
        <5>4. CASE DigestManifest
          BY <3>3, <5>4 DEF DigestManifest
        <5>5. QED  BY <1>4, <5>1, <5>2, <5>3, <5>4 DEF Verifies
      <4>2. QED  BY <1>0, <2>1, <3>1, <3>3, <4>1 DEF RanBetween, Verifying
    <3>4. at' = at \/ Advance
      BY <1>4 DEF Verifies, ParseManifest, DigestArtifact, ReparseManifest, DigestManifest, Step,
                  IdentityError
    <3>5. QED  BY <3>2, <3>3, <3>4
  <2>3. CASE DigestManifest
    <3>1. /\ vouched' = [vouched EXCEPT ![at] = manifest] /\ stage = "vouch"
          /\ stage' \notin Verifying
      BY <2>3 DEF DigestManifest, Advance, Verifying
    <3>2. CASE at = "gopy"
      <4>1. vouched'["cueprobe"] \notin Manifests
        BY <1>0, <2>1, <3>1, <3>2
      <4>2. QED  BY <3>1, <4>1 DEF RanBetween, Verifying
    <3>3. CASE at = "cueprobe"
      <4>1. /\ ran["cueprobe"] <= parsed.cueprobe /\ parsed \in finished
            /\ AtLeastFirst
        BY <2>1, <3>1, <3>3 DEF RanBetween, VouchedBuilds
      <4>2. vouched'["cueprobe"] = manifest /\ vouched'["gopy"] = vouched["gopy"]
        BY <1>0, <3>1, <3>3
      <4>3. manifest \in Manifests => parsed.cueprobe <= manifest.cueprobe
        BY <4>1 DEF BuildsGrow
      <4>4. manifest \in Manifests => ran["cueprobe"] <= manifest.cueprobe
        BY <1>0, <4>1, <4>3
      <4>5. AtLeastFirst'
        BY <2>1, <4>1, <4>2 DEF AtLeastFirst
      <4>6. QED  BY <2>1, <3>1, <4>2, <4>4, <4>5 DEF RanBetween, Verifying
    <3>4. QED  BY <1>0, <2>1, <3>2, <3>3
  <2>4. QED  BY <1>4, <2>2, <2>3 DEF Verifies, ParseManifest, DigestArtifact, ReparseManifest
<1>5. QED  BY <1>1, <1>2, <1>3, <1>4

-----------------------------------------------------------------------------
(* The invariant holds in every reachable state *)

\* A fresh clone, or one that was built, satisfies the invariant.
LEMMA InitInv == Init => Inv
<1> SUFFICES ASSUME Init PROVE Inv
  OBVIOUS
<1>0. /\ 1 \in Versions /\ MaxWork \in Nat /\ Versions = 1..(MaxWork + 1)
      /\ NoManifest \notin Manifests /\ NoManifest \in ManifestDigests
      /\ Absent \in Contents /\ 1 \in Contents /\ 0 \notin Versions
  BY WorkAssumption DEF Versions, NoManifest, Manifests, ManifestDigests, Contents, Absent
<1>1. BuildTyped
  <2>1. manifest \in ManifestDigests
    <3>1. CASE extension = 1
      BY <1>0, <3>1 DEF Init, BuildInit, ManifestDigests, Manifests
    <3>2. CASE extension = Absent
      BY <3>2 DEF Init, BuildInit, ManifestDigests, NoManifest
    <3>3. QED  BY <3>1, <3>2 DEF Init, BuildInit
  <2>2. QED  BY <1>0, <2>1 DEF Init, BuildInit, BuildTyped, Absent
<1>2. BuildsGrow
  <2>1. manifest.cueprobe = binary /\ finished = {manifest} \cap Manifests
    BY DEF Init, BuildInit
  <2>2. binary \in Int
    BY DEF Init, BuildInit, Absent
  <2>3. QED  BY <2>1, <2>2 DEF BuildsGrow
<1>3. ProbeTyped
  <2>1. /\ outcome = [b \in Backends |-> outcome[b]]
        /\ \A b \in Backends : IsObservation(outcome[b])
    BY Incomplete DEF Init
  <2>2. TypeOK
    BY <1>0 DEF Init, TypeOK
  <2>3. QED  BY <2>1, <2>2 DEF Init, ProbeTyped, Stages
<1>4. Turns /\ ComparedAlike
  BY DEF Init, Turns, Verifying, ComparedAlike, Compared
<1>5. TextsEnclosed
  <2>1. Left # "none" /\ Left \in Backends /\ Right \in Backends
    BY DEF Init, Left, Right, Backends
  <2>2. QED  BY <2>1 DEF Init, TextsEnclosed, Enclosed
<1>6. FactsAreRead
  BY Incomplete DEF Init, FactsAreRead
<1>7. VouchedBuilds /\ RanBetween
  BY <1>0 DEF Init, VouchedBuilds, RanBetween, Verifying, Native
<1>8. QED  BY <1>1, <1>2, <1>3, <1>4, <1>5, <1>6, <1>7 DEF Inv

\* A step of the probe.
LEMMA ProbeInv == Inv /\ Probe => Inv'
<1> SUFFICES ASSUME Inv, Probe PROVE Inv'
  OBVIOUS
<1>1. Outlined
  BY ProbeOutline DEF Inv, Outlined
<1>2. Cleared \/ Bystands \/ NativeRun \/ Verifies
  BY NativeSteps
<1>3. NativeTyped
  BY DEF Inv, ProbeTyped, TypeOK, NativeTyped
<1>4. NativeTyped'
  BY <1>2, <1>3, NativeTypedStays DEF Inv
<1>5. BuildTyped' /\ BuildsGrow'
  BY <1>1 DEF Inv, Outlined, buildVars, BuildTyped, BuildsGrow
<1>6. ProbeTyped' /\ Turns' /\ TextsEnclosed' /\ FactsAreRead' /\ ComparedAlike'
  BY <1>1, <1>4, ProbeTypedStays, TurnsStay, TextsStay, FactsStay, ComparedStays DEF Inv
<1>7. VouchedBuilds' /\ RanBetween'
  BY <1>1, <1>2, <1>3, VouchedStays, RanStays DEF Inv
<1>8. QED  BY <1>5, <1>6, <1>7 DEF Inv

\* A step of the build, or an edit of the runner's sources.
LEMMA RebuildInv == Inv /\ Rebuild => Inv'
<1> SUFFICES ASSUME Inv, Rebuild PROVE Inv'
  OBVIOUS
<1>1. /\ BuildTyped' /\ BuildsGrow' /\ finished \subseteq finished' /\ binary <= binary'
      /\ text' = text /\ between' = between /\ UNCHANGED probeVars
  BY BuildStep DEF Inv, Rebuild, BuildTyped
<1>3. ProbeTyped'
  BY <1>1 DEF Inv, ProbeTyped, TypeOK, probeVars
<1>4. Turns' /\ TextsEnclosed' /\ FactsAreRead' /\ ComparedAlike'
  BY <1>1 DEF Inv, probeVars, Turns, TextsEnclosed, Enclosed, FactsAreRead, ComparedAlike,
              Compared, SharedFacts, Left, Right
<1>5. VouchedBuilds'
  BY <1>1 DEF Inv, probeVars, VouchedBuilds
<1>6. RanBetween'
  <2>1. ran["cueprobe"] \in Int /\ binary \in Int /\ binary' \in Int
    BY <1>1, WorkAssumption DEF Inv, BuildTyped, ProbeTyped, TypeOK, Native, Contents, Versions,
                                Absent, Partial
  <2>2. AtLeastFirst' <=> AtLeastFirst
    BY <1>1 DEF probeVars, AtLeastFirst
  <2>3. QED  BY <1>1, <2>1, <2>2 DEF Inv, probeVars, RanBetween
<1>7. QED  BY <1>1, <1>3, <1>4, <1>5, <1>6 DEF Inv

\* An edit of the probe sources.
LEMMA EditInv == Inv /\ EditText => Inv'
<1> SUFFICES ASSUME Inv, EditText PROVE Inv'
  OBVIOUS
<1>1. /\ text' \in Texts /\ text' # text /\ work' = work + 1 /\ work < MaxWork
      /\ between' = IF Enclosed THEN between + 1 ELSE between
      /\ UNCHANGED <<runner, staged, extension, binary, manifest, build, finished, probeVars>>
  BY DEF EditText, Work
<1>2. BuildTyped' /\ BuildsGrow'
  BY <1>1, WorkAssumption DEF Inv, BuildTyped, BuildsGrow
<1>0. between \in Nat
  BY DEF Inv, ProbeTyped, TypeOK
<1>3. ProbeTyped'
  BY <1>0, <1>1 DEF Inv, ProbeTyped, TypeOK, probeVars
<1>4. TextsEnclosed'
  <2>1. /\ subject' = subject /\ reads' = reads /\ at' = at /\ stage' = stage
        /\ Left' = Left /\ Right' = Right /\ Enclosed' = Enclosed
    BY <1>1 DEF probeVars, Left, Right, Enclosed
  <2>2. CASE Enclosed
    <3>1. /\ subject[Left] # NoText /\ subject[Right] = NoText /\ between' = between + 1
      BY <1>1, <2>2 DEF Enclosed
    <3>2. between' = 1 => text' # subject[Left]
      BY <1>0, <1>1, <2>2, <3>1 DEF Inv, TextsEnclosed
    <3>3. QED  BY <1>0, <2>1, <3>1, <3>2 DEF Inv, TextsEnclosed
  <2>3. CASE ~Enclosed
    BY <1>1, <2>1, <2>3 DEF Inv, TextsEnclosed
  <2>4. QED  BY <2>2, <2>3
<1>5. Turns' /\ FactsAreRead' /\ ComparedAlike'
  BY <1>1 DEF Inv, probeVars, Turns, FactsAreRead, ComparedAlike, Compared,
              SharedFacts, Left, Right
<1>6. VouchedBuilds' /\ RanBetween'
  BY <1>1 DEF Inv, probeVars, VouchedBuilds, RanBetween, AtLeastFirst
<1>7. QED  BY <1>2, <1>3, <1>4, <1>5, <1>6 DEF Inv

\* A step of something else leaves the invariant.
LEMMA StutterInv == Inv /\ UNCHANGED vars => Inv'
<1> SUFFICES ASSUME Inv, UNCHANGED vars PROVE Inv'
  OBVIOUS
<1>1. UNCHANGED <<buildVars, probeVars, text, between>>
  BY DEF vars
<1>2. BuildTyped' /\ BuildsGrow' /\ VouchedBuilds' /\ RanBetween'
  BY <1>1 DEF Inv, buildVars, probeVars, BuildTyped, BuildsGrow, VouchedBuilds, RanBetween,
              AtLeastFirst
<1>3. ProbeTyped' /\ Turns'
  BY <1>1 DEF Inv, probeVars, ProbeTyped, TypeOK, Turns, Left, Right
<1>4. TextsEnclosed'
  BY <1>1 DEF Inv, probeVars, TextsEnclosed, Enclosed, Left, Right
<1>5. FactsAreRead' /\ ComparedAlike'
  BY <1>1 DEF Inv, probeVars, FactsAreRead, ComparedAlike, Compared, SharedFacts, Left, Right
<1>6. QED  BY <1>2, <1>3, <1>4, <1>5 DEF Inv

\* The invariant holds in every reachable state.
LEMMA InvHolds == Spec => []Inv
<1>1. Inv /\ [Next]_vars => Inv'
  BY ProbeInv, RebuildInv, EditInv, StutterInv DEF Next
<1>2. QED  BY <1>1, InitInv, PTL DEF Spec

-----------------------------------------------------------------------------
(* Theorems *)

\* Every variable of the probe keeps its type, for any number of edits and
\* builds.
THEOREM Typed == Spec => []TypeOK
<1>1. Inv => TypeOK
  BY DEF Inv, ProbeTyped
<1>2. QED  BY <1>1, InvHolds, PTL

\* An observation with a text that was read is of the text that both digests name,
\* unless an edit between them was undone.
LEMMA FirstIsEnclosed ==
  ASSUME Inv, subject[Left] = subject[Right], between < 2, reads[Left] # {}
  PROVE  reads[Left] \subseteq {subject[Left]}
<1>1. Left \in Backends
  BY DEF Left, Backends
<1>2. subject[Left] # NoText
  BY <1>1 DEF Inv, TextsEnclosed
<1>3. QED  BY <1>2 DEF Inv, TextsEnclosed

\* Facts are compared only when the first observation is of the text that its
\* subject digest names (compare_backends): what escapes the second digest is an
\* edit undone before it is taken, and nothing else.
THEOREM FirstIsOfItsSubject == Spec => []FirstReadsItsSubject
<1>1. ASSUME Inv PROVE FirstReadsItsSubject
  <2>1. SUFFICES ASSUME Compared, between < 2 PROVE reads[Left] = {subject[Left]}
    BY DEF FirstReadsItsSubject
  <2>2. subject[Left] = subject[Right] /\ SharedFacts # {}
    BY <1>1, <2>1 DEF Inv, ComparedAlike
  <2>3. DOMAIN outcome[Left].facts # {}
    BY <2>2 DEF SharedFacts
  <2>4. reads[Left] # {}
    <3>1. Left \in Backends
      BY DEF Left, Backends
    <3>2. QED  BY <1>1, <2>3, <3>1 DEF Inv, FactsAreRead
  <2>5. reads[Left] \subseteq {subject[Left]}
    BY <1>1, <2>1, <2>2, <2>4, FirstIsEnclosed
  <2>6. QED  BY <2>4, <2>5
<1>2. QED  BY <1>1, InvHolds, PTL

\* The cueprobe that ran is the one in the manifest that vouches for both
\* native observations (verify_cueprobe_artifact), although it is digested only
\* after it ran.
THEOREM CueprobeWasVouchedFor == Spec => []CueprobeRanAsVouched
<1>1. ASSUME Inv PROVE CueprobeRanAsVouched
  <2>1. SUFFICES ASSUME Compared, route = "native", vouched["cueprobe"] \in Manifests
                 PROVE  ran["cueprobe"] = vouched["cueprobe"].cueprobe
    BY DEF CueprobeRanAsVouched
  <2>2. vouched["gopy"] = vouched["cueprobe"]
    BY <1>1, <2>1 DEF Inv, ComparedAlike
  <2>3. /\ ran["cueprobe"] <= vouched["cueprobe"].cueprobe
        /\ vouched["cueprobe"].cueprobe <= ran["cueprobe"]
    BY <1>1, <2>1, <2>2 DEF Inv, RanBetween, AtLeastFirst
  <2>4. ran["cueprobe"] \in Int /\ vouched["cueprobe"].cueprobe \in Int
    BY <1>1, <2>1, WorkAssumption DEF Inv, ProbeTyped, TypeOK, Native, Contents, Versions,
                                      Absent, Partial, Manifests
  <2>5. QED  BY <2>3, <2>4
<1>2. QED  BY <1>1, InvHolds, PTL

\* Artifacts of a build that failed or died half way are never compared: what a
\* manifest vouches for (build_manifest) was built to the end.
THEOREM OnlyFinishedAreCompared == Spec => []ComparedWereFinished
<1>1. ASSUME Inv PROVE ComparedWereFinished
  <2>1. SUFFICES ASSUME Compared, route = "native"
                 PROVE  /\ \E m \in finished : m.extension = artifact["gopy"]
                        /\ \E m \in finished : m.cueprobe = artifact["cueprobe"]
    BY DEF ComparedWereFinished
  <2>2. vouched["gopy"] # NoManifest /\ vouched["cueprobe"] # NoManifest
    BY <1>1, <2>1 DEF Inv, ComparedAlike
  <2>3. "gopy" \in Native /\ "cueprobe" \in Native
    BY DEF Native
  <2>4. /\ \E m \in finished : Part("gopy", m) = artifact["gopy"]
        /\ \E m \in finished : Part("cueprobe", m) = artifact["cueprobe"]
    BY <1>1, <2>2, <2>3 DEF Inv, VouchedBuilds
  <2>5. QED  BY <2>4 DEF Part
<1>2. QED  BY <1>1, InvHolds, PTL

-----------------------------------------------------------------------------
(* What is known beyond Inv, whose steps it uses: an undisturbed probe, and the *)
(* facts of the two native engines.                                             *)

\* As long as nobody disturbs the probe, all it holds is of the text and of the
\* artifacts in place.
Undisturbed ==
  quiet =>
    /\ \A b \in Backends : subject[b] \in {NoText, text} /\ reads[b] \subseteq {text}
    /\ stage \in {"digest", "reparse", "vouch"} => parsed = manifest
    /\ \A b \in Native :
         /\ vouched[b] \in {NoManifest, manifest}
         /\ vouched[b] # NoManifest \/ (at = b /\ stage \in Verifying) => ran[b] = Artifact(b)
         /\ vouched[b] # NoManifest \/ (at = b /\ stage \in {"reparse", "vouch"}) =>
              manifest \in Manifests /\ Artifact(b) = Part(b, manifest)

\* What an engine of the repository's Go sources may say of text t.
Truth(t) ==
  [semanticBottom |-> IF t.meaning \in {"bottom", "conflict"} THEN TRUE ELSE FALSE,
   kind |-> IF t.meaning \in {"value", "incomplete"} THEN t.name ELSE "_|_",
   incompleteKind |-> IF t.meaning \in {"value", "incomplete"} THEN t.name ELSE "_|_",
   concrete |-> IF t.meaning = "value" THEN TRUE ELSE FALSE,
   concreteValueDigest |-> t.name,
   subsumes |-> t.meaning = "value"]

IsAbout(facts, t) == \A f \in DOMAIN facts : facts[f] = Truth(t)[f]

NativeFactsAreTrue ==
  \A b \in Native : ran[b] = 1 /\ DOMAIN outcome[b].facts # {} =>
    \E t \in reads[b] : IsAbout(outcome[b].facts, t)

\* A difference that is reported is one of the facts of the two observations.
DifferenceIsFound ==
  stage = "done" /\ result = "shared-facts-differ" =>
    \E f \in SharedFacts : outcome[Left].facts[f] # outcome[Right].facts[f]

\* Only a new probe, or an exception, starts the watch anew.
LEMMA WatchKept ==
  ASSUME Probe
  PROVE  Cleared \/ quiet' = quiet
<1>1. CASE Start \/ Raise
  BY <1>1 DEF Start, Raise, Clear, Cleared, Left
<1>2. CASE CliMaterialize \/ CliEval \/ CliCandidate \/ CliUnify \/ CliExport
  BY <1>2 DEF CliMaterialize, CliEval, CliCandidate, CliUnify, CliExport
<1>3. CASE CuePyMaterialize \/ CuePyPayload \/ CuePyRun \/ NativeMaterialize \/ NativeRun
  BY <1>3 DEF CuePyMaterialize, CuePyPayload, CuePyRun, NativeMaterialize, NativeRun
<1>4. CASE ParseManifest \/ DigestArtifact \/ ReparseManifest \/ DigestManifest \/ Compare
  BY <1>4 DEF ParseManifest, DigestArtifact, ReparseManifest, DigestManifest, Compare
<1>5. QED  BY <1>1, <1>2, <1>3, <1>4 DEF Probe

\* A step of the probe itself is no disturbance.
LEMMA UndisturbedStays ==
  ASSUME Inv, Undisturbed, Probe, Outlined
  PROVE  Undisturbed'
<1>0. /\ subject \in [Backends -> Texts \cup {NoText}] /\ reads \in [Backends -> SUBSET Texts]
      /\ ran \in [Native -> Contents] /\ vouched \in [Native -> ManifestDigests]
      /\ stage \in Verifying => at \in Native
      /\ stage \in {"digest", "reparse", "vouch"} => parsed \in Manifests
      /\ NoManifest \notin Manifests
  <2>1. NoManifest \notin Manifests
    BY WorkAssumption DEF NoManifest, Manifests, Versions, Absent
  <2>2. QED  BY <2>1 DEF Inv, ProbeTyped, TypeOK, Turns, VouchedBuilds, BuildTyped
<1>1. CASE Cleared
  BY <1>1 DEF Cleared, Clear, Undisturbed, Verifying
<1>2. CASE ~Cleared
  <2>1. SUFFICES ASSUME quiet'
                 PROVE  /\ \A b \in Backends : subject'[b] \in {NoText, text'} /\ reads'[b] \subseteq {text'}
                        /\ stage' \in {"digest", "reparse", "vouch"} => parsed' = manifest'
                        /\ \A b \in Native :
                             /\ vouched'[b] \in {NoManifest, manifest'}
                             /\ vouched'[b] # NoManifest \/ (at' = b /\ stage' \in Verifying) =>
                                  ran'[b] = Artifact(b)'
                             /\ vouched'[b] # NoManifest \/ (at' = b /\ stage' \in {"reparse", "vouch"}) =>
                                  manifest' \in Manifests /\ Artifact(b)' = Part(b, manifest)'
    BY DEF Undisturbed
  <2>2. /\ text' = text /\ manifest' = manifest
        /\ \A b : Artifact(b)' = Artifact(b) /\ Part(b, manifest)' = Part(b, manifest)
    BY DEF Outlined, buildVars, Artifact, Part
  <2>3. /\ \A b \in Backends : subject[b] \in {NoText, text} /\ reads[b] \subseteq {text}
        /\ stage \in {"digest", "reparse", "vouch"} => parsed = manifest
        /\ \A b \in Native :
             /\ vouched[b] \in {NoManifest, manifest}
             /\ vouched[b] # NoManifest \/ (at = b /\ stage \in Verifying) => ran[b] = Artifact(b)
             /\ vouched[b] # NoManifest \/ (at = b /\ stage \in {"reparse", "vouch"}) =>
                  manifest \in Manifests /\ Artifact(b) = Part(b, manifest)
    BY <1>2, <2>1, WatchKept DEF Undisturbed
  <2>4. \A b \in Backends : subject'[b] \in {NoText, text'} /\ reads'[b] \subseteq {text'}
    <3>1. CASE Compare
      BY <2>2, <2>3, <3>1 DEF Compare
    <3>2. CASE Works
      <4>1. subject' = subject \/ subject' = [subject EXCEPT ![at] = text]
        BY <3>2 DEF Works, Materialize
      <4>2. reads' = reads \/ reads' = [reads EXCEPT ![at] = @ \cup {text}]
        BY <3>2 DEF Works, Reading
      <4>3. \A b \in Backends : subject'[b] \in {subject[b], text}
        BY <1>0, <4>1
      <4>4. \A b \in Backends : reads'[b] \subseteq reads[b] \cup {text}
        BY <1>0, <4>2
      <4>5. QED  BY <2>2, <2>3, <4>3, <4>4
    <3>3. QED  BY <1>2, <3>1, <3>2 DEF Outlined
  <2> DEFINE Rest == /\ stage' \in {"digest", "reparse", "vouch"} => parsed' = manifest
                     /\ \A b \in Native :
                          /\ vouched'[b] \in {NoManifest, manifest}
                          /\ vouched'[b] # NoManifest \/ (at' = b /\ stage' \in Verifying) =>
                               ran'[b] = Artifact(b)
                          /\ vouched'[b] # NoManifest \/ (at' = b /\ stage' \in {"reparse", "vouch"}) =>
                               manifest \in Manifests /\ Artifact(b) = Part(b, manifest)
  <2>5. ASSUME Bystands PROVE Rest
    BY <2>3, <2>5 DEF Bystands, Verifying
  <2>6. ASSUME NativeRun PROVE Rest
    <3>1. /\ at \in Native /\ ran' = [ran EXCEPT ![at] = Artifact(at)]
          /\ UNCHANGED <<parsed, vouched>>
          /\ \/ at' = at /\ stage' = "parse"
             \/ stage' \in {"compare", "materialize"}
      BY <2>6 DEF NativeRun, Advance, Step
    <3>2. \A b \in Native : ran'[b] = IF b = at THEN Artifact(b) ELSE ran[b]
      BY <1>0, <3>1
    <3>3. QED  BY <2>3, <3>1, <3>2 DEF Verifying
  <2>7. ASSUME ParseManifest PROVE Rest
    <3>1. /\ stage = "parse" /\ UNCHANGED <<ran, vouched>>
          /\ \/ at' = at /\ stage' = "digest" /\ parsed' = manifest
             \/ stage' \in {"compare", "materialize"}
      BY <2>7 DEF ParseManifest, IdentityError, Advance, Step
    <3>2. QED  BY <2>3, <3>1 DEF Verifying
  <2>8. ASSUME DigestArtifact PROVE Rest
    <3>1. /\ stage = "digest" /\ UNCHANGED <<ran, vouched>>
          /\ \/ at' = at /\ stage' = "reparse" /\ parsed' = parsed /\ Artifact(at) = Section(parsed)
             \/ stage' \in {"compare", "materialize"}
      BY <2>8 DEF DigestArtifact, IdentityError, Advance, Step
    <3>2. Section(parsed) = Part(at, manifest) /\ manifest \in Manifests
      BY <1>0, <2>3, <3>1 DEF Section, Part
    <3>3. QED  BY <2>3, <3>1, <3>2 DEF Verifying
  <2>9. ASSUME ReparseManifest PROVE Rest
    <3>1. /\ stage = "reparse" /\ UNCHANGED <<ran, vouched>>
          /\ \/ at' = at /\ stage' = "vouch" /\ parsed' = parsed
             \/ stage' \in {"compare", "materialize"}
      BY <2>9 DEF ReparseManifest, IdentityError, Advance, Step
    <3>2. QED  BY <2>3, <3>1 DEF Verifying
  <2>10. ASSUME DigestManifest PROVE Rest
    <3>1. /\ stage = "vouch" /\ UNCHANGED ran
          /\ vouched' = [vouched EXCEPT ![at] = manifest]
          /\ stage' \in {"compare", "materialize"}
      BY <2>10 DEF DigestManifest, Advance
    <3>2. at \in Native /\ \A b \in Native : vouched'[b] = IF b = at THEN manifest ELSE vouched[b]
      BY <1>0, <3>1 DEF Verifying
    <3>3. QED  BY <2>3, <3>1, <3>2 DEF Verifying
  <2>11. Rest
    BY <1>2, <2>5, <2>6, <2>7, <2>8, <2>9, <2>10, NativeSteps DEF Verifies
  <2>12. QED  BY <2>2, <2>4, <2>11
<1>3. QED  BY <1>1, <1>2

\* Facts of a record, each with the value that the record gives it.
LEMMA BottomFits ==
  ASSUME NEW r, NEW x, r.semanticBottom = x
  PROVE  \A f \in DOMAIN Bottom(x) : Bottom(x)[f] = r[f]
BY DEF Bottom

LEMMA ConflictFits ==
  ASSUME NEW r, NEW facts,
         facts = [semanticBottom |-> r.semanticBottom, kind |-> r.kind, incompleteKind |-> r.incompleteKind]
  PROVE  \A f \in DOMAIN facts : facts[f] = r[f]
OBVIOUS

LEMMA UnprojectedFits ==
  ASSUME NEW r, NEW facts,
         facts = [semanticBottom |-> r.semanticBottom, kind |-> r.kind, incompleteKind |-> r.incompleteKind,
                  concrete |-> r.concrete]
  PROVE  \A f \in DOMAIN facts : facts[f] = r[f]
OBVIOUS

LEMMA ProjectedFits ==
  ASSUME NEW r, NEW facts,
         facts = [semanticBottom |-> r.semanticBottom, kind |-> r.kind, incompleteKind |-> r.incompleteKind,
                  concrete |-> r.concrete, concreteValueDigest |-> r.concreteValueDigest]
  PROVE  \A f \in DOMAIN facts : facts[f] = r[f]
OBVIOUS

LEMMA SubsumesFits ==
  ASSUME NEW r, NEW x, r.subsumes = x
  PROVE  \A f \in DOMAIN [subsumes |-> x] : [subsumes |-> x][f] = r[f]
OBVIOUS

\* Every outcome of a native engine of the repository's Go sources is true of the
\* text that it evaluated.
LEMMA OutcomesAreTrue ==
  ASSUME NEW t \in Texts, NEW o, o \in GopyOutcomes(t) \cup CueprobeOutcomes(t)
  PROVE  IsAbout(o.facts, t)
<1>0. t.meaning \in AllMeanings
  BY ProbeAssumption DEF Texts
<1> DEFINE Fine(facts) == IsAbout(facts, t)
           conflicting == [semanticBottom |-> TRUE, kind |-> "_|_", incompleteKind |-> "_|_"]
           projected   == [semanticBottom |-> FALSE, kind |-> t.name, incompleteKind |-> t.name,
                           concrete |-> TRUE, concreteValueDigest |-> t.name]
           unprojected == [semanticBottom |-> FALSE, kind |-> t.name, incompleteKind |-> t.name,
                           concrete |-> FALSE]
<1>1. /\ Fine(NoFacts)
      /\ t.meaning \in {"bottom", "conflict"} => Fine(Bottom(TRUE))
      /\ t.meaning = "conflict" => Fine(conflicting)
      /\ t.meaning = "value" => Fine(projected)
      /\ t.meaning = "incomplete" => Fine(unprojected)
      /\ Fine([subsumes |-> t.meaning = "value"])
  <2> DEFINE r == Truth(t)
  <2>1. r.concreteValueDigest = t.name /\ r.subsumes = (t.meaning = "value")
    BY DEF Truth
  <2>2. /\ t.meaning \in {"bottom", "conflict"} =>
             r.semanticBottom = TRUE /\ r.kind = "_|_" /\ r.incompleteKind = "_|_"
        /\ t.meaning = "value" =>
             /\ r.semanticBottom = FALSE /\ r.concrete = TRUE
             /\ r.kind = t.name /\ r.incompleteKind = t.name
        /\ t.meaning = "incomplete" =>
             /\ r.semanticBottom = FALSE /\ r.concrete = FALSE
             /\ r.kind = t.name /\ r.incompleteKind = t.name
    BY DEF Truth
  <2>3. \A facts : Fine(facts) <=> \A f \in DOMAIN facts : facts[f] = r[f]
    BY DEF IsAbout
  <2> HIDE DEF r, Fine
  <2>4. Fine(NoFacts)
    BY <2>3 DEF NoFacts
  <2>5. t.meaning \in {"bottom", "conflict"} => Fine(Bottom(TRUE))
    BY <2>2, <2>3, BottomFits, Zenon
  <2>6. ASSUME t.meaning = "conflict" PROVE Fine(conflicting)
    <3>1. conflicting =
            [semanticBottom |-> r.semanticBottom, kind |-> r.kind, incompleteKind |-> r.incompleteKind]
      BY <2>1, <2>2, <2>6
    <3> HIDE DEF conflicting
    <3>2. QED  BY <2>3, <3>1, ConflictFits
  <2>7. ASSUME t.meaning = "value" PROVE Fine(projected)
    <3>1. projected =
            [semanticBottom |-> r.semanticBottom, kind |-> r.kind, incompleteKind |-> r.incompleteKind,
             concrete |-> r.concrete, concreteValueDigest |-> r.concreteValueDigest]
      BY <2>1, <2>2, <2>7
    <3> HIDE DEF projected
    <3>2. QED  BY <2>3, <3>1, ProjectedFits
  <2>8. ASSUME t.meaning = "incomplete" PROVE Fine(unprojected)
    <3>1. unprojected =
            [semanticBottom |-> r.semanticBottom, kind |-> r.kind, incompleteKind |-> r.incompleteKind,
             concrete |-> r.concrete]
      BY <2>1, <2>2, <2>8
    <3> HIDE DEF unprojected
    <3>2. QED  BY <2>3, <3>1, UnprojectedFits
  <2>9. Fine([subsumes |-> t.meaning = "value"])
    BY <2>1, <2>3, SubsumesFits, Zenon
  <2>10. QED  BY <2>4, <2>5, <2>6, <2>7, <2>8, <2>9
<1> HIDE DEF Fine
<1>2. \A s, a, f, p : Fine(f) /\ o = Observation(s, a, f, p) => Fine(o.facts)
  <2>1. \A s, a, f, p : Observation(s, a, f, p).facts = f
    BY DEF Observation
  <2>2. SUFFICES ASSUME NEW s, NEW a, NEW f, NEW p, Fine(f), o = Observation(s, a, f, p)
                 PROVE  Fine(o.facts)
    BY Zenon
  <2>3. o.facts = f
    BY <2>1, <2>2
  <2>4. QED  BY <2>2, <2>3
<1>3. \A p : o = Unsupported(p) => Fine(o.facts)
  BY <1>1, <1>2, Zenon DEF Unsupported
<1>4. CASE o \in GopyOutcomes(t)
  <2>1. \/ o = Observation("load-error", TRUE, NoFacts, TRUE)
        \/ t.meaning = "bottom" /\ o = Observation("evaluation-error", TRUE, Bottom(TRUE), TRUE)
        \/ o = Unsupported(TRUE)
        \/ t.meaning = "conflict" /\ o = Conflicting("evaluate", TRUE)
        \/ o = Observation("materialization-error", TRUE, NoFacts, TRUE)
        \/ o = Observation("compare", TRUE, [subsumes |-> t.meaning = "value"], TRUE)
        \/ t.meaning = "value" /\ o = Projected(t, TRUE)
        \/ t.meaning = "incomplete" /\ o = Unprojected(t, TRUE)
    BY <1>0, <1>4 DEF GopyOutcomes, AllMeanings
  <2>2. Fine(o.facts)
    <3>1. CASE t.meaning = "bottom" /\ o = Observation("evaluation-error", TRUE, Bottom(TRUE), TRUE)
      <4>1. Fine(Bottom(TRUE))
        BY <1>1, <3>1
      <4>2. QED  BY <1>2, <3>1, <4>1
    <3>2. CASE t.meaning = "conflict" /\ o = Conflicting("evaluate", TRUE)
      BY <1>1, <1>2, <3>2, Zenon DEF Conflicting
    <3>3. CASE o = Observation("compare", TRUE, [subsumes |-> t.meaning = "value"], TRUE)
      BY <1>1, <1>2, <3>3, Zenon
    <3>4. CASE t.meaning = "value" /\ o = Projected(t, TRUE)
      BY <1>1, <1>2, <3>4, Zenon DEF Projected
    <3>5. CASE t.meaning = "incomplete" /\ o = Unprojected(t, TRUE)
      BY <1>1, <1>2, <3>5, Zenon DEF Unprojected
    <3>6. CASE \E s : o = Observation(s, TRUE, NoFacts, TRUE)
      BY <1>1, <1>2, <3>6, Zenon
    <3>7. QED  BY <1>3, <2>1, <3>1, <3>2, <3>3, <3>4, <3>5, <3>6, Zenon
  <2>3. QED  BY <2>2 DEF Fine
<1>5. CASE o \in CueprobeOutcomes(t)
  <2> DEFINE Bottoms(p) == {Observation("evaluation-error", TRUE, f, p) :
                             f \in {NoFacts, Bottom(TRUE)}}
  <2>1. PICK p \in BOOLEAN :
          \/ o = Observation("load-error", TRUE, NoFacts, p)
          \/ t.meaning = "bottom" /\ o \in Bottoms(p)
          \/ t.meaning = "conflict" /\ o = Observation("evaluate", TRUE, Bottom(TRUE), p)
          \/ t.meaning = "value" /\ o = Projected(t, p)
          \/ t.meaning = "incomplete" /\ o = Unprojected(t, p)
          \/ o = Observation("materialization-error", TRUE, NoFacts, p)
          \/ o = Observation("compare", TRUE, [subsumes |-> t.meaning = "value"], p)
          \/ o = Unsupported(p)
    BY <1>0, <1>5 DEF CueprobeOutcomes, AllMeanings
  <2>2. t.meaning = "bottom" /\ o \in Bottoms(p) => Fine(o.facts)
    <3>1. t.meaning = "bottom" => \A f \in {NoFacts, Bottom(TRUE)} : Fine(f)
      BY <1>1, Zenon
    <3>2. QED  BY <1>2, <3>1, Zenon
  <2> HIDE DEF Bottoms
  <2>3. Fine(o.facts)
    <3>1. CASE t.meaning = "conflict" /\ o = Observation("evaluate", TRUE, Bottom(TRUE), p)
      <4>1. Fine(Bottom(TRUE))
        BY <1>1, <3>1
      <4>2. QED  BY <1>2, <3>1, <4>1
    <3>2. CASE o = Observation("compare", TRUE, [subsumes |-> t.meaning = "value"], p)
      BY <1>1, <1>2, <3>2, Zenon
    <3>3. CASE t.meaning = "value" /\ o = Projected(t, p)
      BY <1>1, <1>2, <3>3, Zenon DEF Projected
    <3>4. CASE t.meaning = "incomplete" /\ o = Unprojected(t, p)
      BY <1>1, <1>2, <3>4, Zenon DEF Unprojected
    <3>5. CASE \E s : o = Observation(s, TRUE, NoFacts, p)
      BY <1>1, <1>2, <3>5, Zenon
    <3>6. QED  BY <1>3, <2>1, <2>2, <3>1, <3>2, <3>3, <3>4, <3>5, Zenon
  <2>4. QED  BY <2>3 DEF Fine
<1>6. QED  BY <1>4, <1>5

\* What a step of the probe does to the facts of the native engines: it forgets
\* them, or it files those of what the engine that ran takes the text for.
LEMMA NativeFacts ==
  ASSUME ProbeTyped, Turns, Probe, NEW b \in Native
  PROVE  \/ DOMAIN outcome'[b].facts = {}
         \/ /\ outcome'[b].facts = outcome[b].facts /\ ran'[b] = ran[b]
            /\ reads[b] \subseteq reads'[b]
         \/ /\ text \in reads'[b]
            /\ \E t \in Readings(ran'[b], text) :
                 outcome'[b] \in GopyOutcomes(t) \cup CueprobeOutcomes(t)
<1>0. /\ outcome = [x \in Backends |-> outcome[x]] /\ reads \in [Backends -> SUBSET Texts]
      /\ b \in Backends /\ b \notin {"cli", "cue-py"} /\ DOMAIN NoFacts = {}
      /\ ran \in [Native -> Contents]
      /\ Nothing.facts = NoFacts /\ Failed.facts = NoFacts /\ Unavailable.facts = NoFacts
      /\ stage \in Verifying => at \in Native
      /\ \A x \in Backends : IsObservation(outcome[x])
  BY Incomplete DEF ProbeTyped, TypeOK, Turns, Native, Backends
<1>1. CASE Start \/ Raise
  BY <1>0, <1>1 DEF Start, Raise, Clear
<1>2. CASE \E x \in {"cli", "cue-py"} :
             /\ at = x /\ UNCHANGED ran
             /\ (\E o : Observe(o)) \/ UNCHANGED outcome
             /\ Reading \/ UNCHANGED reads
  BY <1>0, <1>2 DEF Observe, Reading
<1>3. CASE NativeMaterialize
  <2>1. /\ UNCHANGED <<reads, ran>>
        /\ outcome' = outcome \/ outcome' = [outcome EXCEPT ![at] = Unavailable]
    BY <1>3 DEF NativeMaterialize, Observe
  <2>2. QED  BY <1>0, <2>1
<1>4. CASE NativeRun
  <2>1. /\ at \in Native /\ reads' = [reads EXCEPT ![at] = @ \cup {text}]
        /\ ran' = [ran EXCEPT ![at] = Artifact(at)]
        /\ \/ Observe(Failed)
           \/ \E t \in Readings(Artifact(at), text) :
                \E o \in GopyOutcomes(t) \cup CueprobeOutcomes(t) : Observe(o)
    BY <1>4, Zenon DEF NativeRun, Reading
  <2>2. CASE b # at
    BY <1>0, <2>1, <2>2 DEF Observe
  <2>3. CASE b = at /\ Observe(Failed)
    BY <1>0, <2>3 DEF Observe
  <2>4. CASE b = at /\ \E t \in Readings(Artifact(at), text) :
                        \E o \in GopyOutcomes(t) \cup CueprobeOutcomes(t) : Observe(o)
    <3>1. text \in reads'[b] /\ ran'[b] = Artifact(at)
      BY <1>0, <2>1, <2>4
    <3>2. PICK t \in Readings(ran'[b], text) :
            \E o \in GopyOutcomes(t) \cup CueprobeOutcomes(t) : Observe(o)
      BY <2>4, <3>1
    <3>3. \A o : Observe(o) => outcome'[b] = o
      BY <1>0, <2>4 DEF Observe
    <3>4. QED  BY <3>1, <3>2, <3>3
  <2>5. QED  BY <2>1, <2>2, <2>3, <2>4
<1>5. CASE Verifies
  <2>1. /\ UNCHANGED <<reads, ran>>
        /\ outcome' = outcome \/ outcome' = [outcome EXCEPT ![at].state = "identity-error"]
    BY <1>5 DEF Verifies, ParseManifest, DigestArtifact, ReparseManifest, DigestManifest, IdentityError
  <2>2. outcome'[b].facts = outcome[b].facts
    <3>1. CASE outcome' = outcome
      BY <3>1
    <3>2. CASE outcome' = [outcome EXCEPT ![at].state = "identity-error"]
      <4>1. outcome'[b] = IF b = at THEN [outcome[b] EXCEPT !.state = "identity-error"]
                          ELSE outcome[b]
        BY <1>0, <3>2
      <4>2. outcome[b] = [state |-> outcome[b].state, available |-> outcome[b].available,
                          facts |-> outcome[b].facts, pinned |-> outcome[b].pinned]
        BY <1>0 DEF IsObservation
      <4> HIDE DEF Observe
      <4>3. [outcome[b] EXCEPT !.state = "identity-error"].facts = outcome[b].facts
        BY <4>2
      <4>4. QED  BY <4>1, <4>3
    <3>3. QED  BY <2>1, <3>1, <3>2
  <2>3. QED  BY <2>1, <2>2
<1>6. CASE Compare
  BY <1>6 DEF Compare
<1>7. CliMaterialize \/ CliEval \/ CliCandidate \/ CliUnify \/ CliExport
      \/ CuePyMaterialize \/ CuePyPayload \/ CuePyRun =>
        \E x \in {"cli", "cue-py"} :
          /\ at = x /\ UNCHANGED ran
          /\ ((\E o : Observe(o)) \/ UNCHANGED outcome)
          /\ Reading \/ UNCHANGED reads
  <2>1. CliMaterialize => /\ at = "cli" /\ UNCHANGED <<ran, reads>>
                          /\ ((\E o : Observe(o)) \/ UNCHANGED outcome)
    BY Zenon DEF CliMaterialize
  <2>2. CliEval => /\ at = "cli" /\ UNCHANGED ran /\ Reading
                   /\ ((\E o : Observe(o)) \/ UNCHANGED outcome)
    BY Zenon DEF CliEval
  <2>3. CliCandidate => /\ at = "cli" /\ UNCHANGED ran /\ Reading
                        /\ ((\E o : Observe(o)) \/ UNCHANGED outcome)
    BY Zenon DEF CliCandidate
  <2>4. CliUnify => /\ at = "cli" /\ UNCHANGED ran /\ Reading
                    /\ ((\E o : Observe(o)) \/ UNCHANGED outcome)
    BY Zenon DEF CliUnify
  <2>5. CliExport => /\ at = "cli" /\ UNCHANGED ran /\ Reading
                     /\ ((\E o : Observe(o)) \/ UNCHANGED outcome)
    BY Zenon DEF CliExport
  <2>6. CuePyMaterialize => /\ at = "cue-py" /\ UNCHANGED <<ran, reads>>
                            /\ ((\E o : Observe(o)) \/ UNCHANGED outcome)
    BY Zenon DEF CuePyMaterialize
  <2>7. CuePyPayload => /\ at = "cue-py" /\ UNCHANGED ran /\ Reading
                        /\ ((\E o : Observe(o)) \/ UNCHANGED outcome)
    BY Zenon DEF CuePyPayload
  <2>8. CuePyRun => /\ at = "cue-py" /\ UNCHANGED <<ran, reads>>
                    /\ ((\E o : Observe(o)) \/ UNCHANGED outcome)
    BY Zenon DEF CuePyRun
  <2>9. QED  BY <2>1, <2>2, <2>3, <2>4, <2>5, <2>6, <2>7, <2>8, Zenon
<1>8. QED  BY <1>1, <1>2, <1>3, <1>4, <1>5, <1>6, <1>7 DEF Probe, Verifies

\* So the facts of the engines of version 1 stay true of a text that was read.
LEMMA NativeFactsStay ==
  ASSUME ProbeTyped, Turns, NativeFactsAreTrue, Probe
  PROVE  NativeFactsAreTrue'
<1>1. SUFFICES ASSUME NEW b \in Native, ran'[b] = 1, DOMAIN outcome'[b].facts # {}
               PROVE  \E t \in reads'[b] : IsAbout(outcome'[b].facts, t)
  BY DEF NativeFactsAreTrue, IsAbout, Truth
<1>2. CASE /\ outcome'[b].facts = outcome[b].facts /\ ran'[b] = ran[b]
           /\ reads[b] \subseteq reads'[b]
  BY <1>1, <1>2 DEF NativeFactsAreTrue
<1>3. CASE /\ text \in reads'[b]
           /\ \E t \in Readings(ran'[b], text) :
                outcome'[b] \in GopyOutcomes(t) \cup CueprobeOutcomes(t)
  <2>1. text \in Texts /\ Readings(ran'[b], text) = {text}
    BY <1>1 DEF ProbeTyped, TypeOK, Readings
  <2>2. IsAbout(outcome'[b].facts, text)
    BY <1>3, <2>1, OutcomesAreTrue
  <2>3. QED  BY <1>3, <2>2
<1>4. QED  BY <1>1, <1>2, <1>3, NativeFacts

\* Only the comparison reports a difference, and then there is one.
LEMMA DifferenceStays ==
  ASSUME DifferenceIsFound, Outlined
  PROVE  DifferenceIsFound'
<1>1. CASE Cleared
  BY <1>1 DEF Cleared, DifferenceIsFound
<1>2. CASE Works
  BY <1>2 DEF Works, Goes, Advance, DifferenceIsFound
<1>3. CASE Compare
  <2>1. /\ result' = Comparison
        /\ SharedFacts' = SharedFacts /\ Left' = Left /\ Right' = Right /\ outcome' = outcome
    BY <1>3 DEF Compare, SharedFacts, Left, Right
  <2> DEFINE equal == \A f \in SharedFacts : outcome[Left].facts[f] = outcome[Right].facts[f]
  <2>2. Comparison = "shared-facts-differ" => ~equal
    <3> HIDE DEF equal
    <3>1. equal <=> \A f \in SharedFacts : outcome[Left].facts[f] = outcome[Right].facts[f]
      BY DEF equal
    <3>2. QED  BY <3>1, Zenon DEF Comparison
  <2>3. QED  BY <2>1, <2>2 DEF DifferenceIsFound
<1>4. QED  BY <1>1, <1>2, <1>3 DEF Outlined

\* What holds beyond Inv.
Beyond == Undisturbed /\ NativeFactsAreTrue /\ DifferenceIsFound

LEMMA BeyondHolds == Spec => []Beyond
<1>1. Init => Beyond
  <2>1. SUFFICES ASSUME Init PROVE Beyond
    OBVIOUS
  <2>2. Undisturbed
    BY <2>1 DEF Init, Undisturbed, Verifying, Native
  <2>3. NativeFactsAreTrue
    BY <2>1, Incomplete DEF Init, NativeFactsAreTrue, Native, Backends
  <2>4. DifferenceIsFound
    BY <2>1 DEF Init, DifferenceIsFound
  <2>5. QED  BY <2>2, <2>3, <2>4 DEF Beyond
<1>2. Inv /\ Beyond /\ [Next]_vars => Beyond'
  <2>1. SUFFICES ASSUME Inv, Beyond, [Next]_vars PROVE Beyond'
    OBVIOUS
  <2>2. CASE Probe
    <3>1. Outlined
      BY <2>1, <2>2, ProbeOutline DEF Inv, Outlined
    <3>2. Undisturbed'
      BY <2>1, <2>2, <3>1, UndisturbedStays DEF Beyond
    <3>3. NativeFactsAreTrue'
      BY <2>1, <2>2, NativeFactsStay DEF Inv, Beyond
    <3>4. DifferenceIsFound'
      BY <2>1, <3>1, DifferenceStays DEF Beyond
    <3>5. QED  BY <3>2, <3>3, <3>4 DEF Beyond
  <2>3. CASE EditText \/ Rebuild
    <3>1. quiet' = FALSE /\ UNCHANGED probeVars
      BY <2>3 DEF EditText, Rebuild
    <3>2. QED
      BY <2>1, <3>1 DEF Beyond, Undisturbed, probeVars, NativeFactsAreTrue, DifferenceIsFound,
                        SharedFacts, Left, Right
  <2>4. CASE UNCHANGED vars
    BY <2>1, <2>4 DEF vars, buildVars, probeVars, Beyond, Undisturbed, Artifact,
                      NativeFactsAreTrue, DifferenceIsFound, SharedFacts, Left, Right
  <2>5. QED  BY <2>1, <2>2, <2>3, <2>4 DEF Next
<1>3. QED  BY <1>1, <1>2, InvHolds, PTL DEF Spec

\* A probe that nobody disturbs compares what both engines of one finished build
\* say about one text (execute_native_probe), whatever earlier edits and broken
\* builds left behind.
THEOREM QuietProbesAreExact == Spec => []QuietProbeIsExact
<1>1. ASSUME Inv, Beyond PROVE QuietProbeIsExact
  <2>1. SUFFICES ASSUME Compared, quiet
                 PROVE  /\ reads[Left] = {subject[Left]}
                        /\ reads[Right] = {subject[Left]}
                        /\ route = "native" =>
                             [extension |-> ran["gopy"], cueprobe |-> ran["cueprobe"]] \in finished
    BY DEF QuietProbeIsExact
  <2>2. \A b \in {Left, Right} : reads[b] = {text} /\ subject[b] = text
    <3>1. SUFFICES ASSUME NEW b \in {Left, Right} PROVE reads[b] = {text} /\ subject[b] = text
      OBVIOUS
    <3>2. b \in Backends
      BY DEF Left, Right, Backends
    <3>3. SharedFacts # {}
      BY <1>1, <2>1 DEF Inv, ComparedAlike
    <3>4. DOMAIN outcome[b].facts # {}
      BY <3>3 DEF SharedFacts
    <3>5. reads[b] # {}
      BY <1>1, <3>2, <3>4 DEF Inv, FactsAreRead
    <3>6. subject[b] # NoText
      BY <1>1, <3>2, <3>5 DEF Inv, TextsEnclosed
    <3>7. subject[b] \in {NoText, text} /\ reads[b] \subseteq {text}
      BY <1>1, <2>1, <3>2 DEF Beyond, Undisturbed
    <3>8. QED  BY <3>5, <3>6, <3>7
  <2>3. ASSUME route = "native"
        PROVE  [extension |-> ran["gopy"], cueprobe |-> ran["cueprobe"]] \in finished
    <3>1. "gopy" \in Native /\ "cueprobe" \in Native
      BY DEF Native
    <3>2. vouched["gopy"] # NoManifest /\ vouched["cueprobe"] # NoManifest
      BY <1>1, <2>1, <2>3 DEF Inv, ComparedAlike
    <3>3. \A b \in Native : vouched[b] # NoManifest =>
            ran[b] = Artifact(b) /\ manifest \in Manifests /\ Artifact(b) = Part(b, manifest)
      BY <1>1, <2>1 DEF Beyond, Undisturbed
    <3>4. /\ manifest \in Manifests
          /\ ran["gopy"] = manifest.extension /\ ran["cueprobe"] = manifest.cueprobe
      BY <3>1, <3>2, <3>3 DEF Part
    <3>5. manifest = [extension |-> manifest.extension, cueprobe |-> manifest.cueprobe]
      BY <3>4 DEF Manifests
    <3>6. manifest \in finished
      BY <1>1, <3>4 DEF Inv, BuildsGrow
    <3>7. QED  BY <3>4, <3>5, <3>6
  <2>4. QED  BY <2>2, <2>3
<1>2. QED  BY <1>1, InvHolds, BeyondHolds, PTL

\* A difference that is reported (compare_native_backends) is one of texts or of Go
\* sources: engines of the repository's own sources differ only when an edit came
\* between the digest that cueprobe's observation names and its run, or was undone
\* between the two digests.
THEOREM DifferencesAreOfTexts == Spec => []DifferenceIsOfTexts
<1>1. ASSUME Inv, Beyond PROVE DifferenceIsOfTexts
  <2>1. SUFFICES ASSUME Compared, route = "native", result = "shared-facts-differ",
                        reads["cueprobe"] = {subject["cueprobe"]}, ~(between > 1),
                        {ran["gopy"], ran["cueprobe"]} = {1}
                 PROVE  FALSE
    BY DEF DifferenceIsOfTexts
  <2>2. /\ Left = "gopy" /\ Right = "cueprobe" /\ "gopy" \in Native /\ "cueprobe" \in Native
        /\ "gopy" \in Backends /\ ran["gopy"] = 1 /\ ran["cueprobe"] = 1
    BY <2>1 DEF Left, Right, Native, Backends
  <2>3. PICK f \in SharedFacts : outcome["gopy"].facts[f] # outcome["cueprobe"].facts[f]
    BY <1>1, <2>1, <2>2 DEF Beyond, DifferenceIsFound, Compared
  <2>4. f \in DOMAIN outcome["gopy"].facts /\ f \in DOMAIN outcome["cueprobe"].facts
    BY <2>2, <2>3 DEF SharedFacts
  <2>5. reads["gopy"] \subseteq {subject["cueprobe"]}
    <3>1. subject[Left] = subject[Right] /\ between < 2
      BY <1>1, <2>1 DEF Inv, ComparedAlike, ProbeTyped, TypeOK
    <3>2. reads[Left] # {}
      BY <1>1, <2>2, <2>4 DEF Inv, FactsAreRead
    <3>3. QED  BY <1>1, <2>2, <3>1, <3>2, FirstIsEnclosed
  <2>6. /\ IsAbout(outcome["gopy"].facts, subject["cueprobe"])
        /\ IsAbout(outcome["cueprobe"].facts, subject["cueprobe"])
    BY <1>1, <2>1, <2>2, <2>4, <2>5 DEF Beyond, NativeFactsAreTrue
  <2>7. QED  BY <2>3, <2>4, <2>6 DEF IsAbout
<1>2. QED  BY <1>1, InvHolds, BeyondHolds, PTL
=============================================================================
