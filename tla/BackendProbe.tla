---------------------------- MODULE BackendProbe ----------------------------
(***************************************************************************)
(* One probe of the workbook (execute_probe, execute_native_probe): each   *)
(* backend in turn digests the sources, lets a process evaluate them and,  *)
(* for a native one, verifies the artifact that ran; then two observations *)
(* are compared.  People edit the sources, and a build (NativeBuild)       *)
(* replaces the artifacts, between any two steps.                          *)
(* The content of the sources is a text: a name, for its digest, and what  *)
(* evaluating it gives.  An edit may bring an earlier text back.           *)
(***************************************************************************)
EXTENDS NativeBuild

CONSTANTS
  Names,         \* of texts
  Meanings       \* what evaluating a text may give

(* "conflict" is bottom only together with the concrete input, or in the    *)
(* candidate; "broken" does not parse; "foreign" is of another package.     *)
AllMeanings == {"value", "incomplete", "bottom", "conflict", "broken", "foreign"}

ASSUME ProbeAssumption ==
  /\ Meanings \subseteq AllMeanings
  /\ Meanings # {}
  /\ Names # {}

VARIABLES
  text,       \* the probe sources
  route,      \* "native" (execute_native_probe) or "cue-py" (execute_probe)
  operation,  \* of the request
  stage, at,  \* the next step, and the backend it belongs to
  subject,    \* per backend: the text its subject digest was taken from
  reads,      \* history: the texts that its processes evaluated
  ran,        \* history: the content of the artifact that ran
  outcome,    \* per backend: the rest of its observation
  parsed,     \* the manifest that the verification under way compares with
  artifact,   \* per backend: artifactDigest
  vouched,    \* per backend: buildManifestDigest
  quiet,      \* history: neither edit nor build since the probe started
  between,    \* history: edits between the two subject digests
  result      \* state of the comparison

probeVars == <<route, operation, stage, at, subject, reads, ran, outcome, parsed,
               artifact, vouched, result>>
vars == <<buildVars, text, probeVars, quiet, between>>

Backends   == {"cli", "cue-py", "gopy", "cueprobe"}
Native     == {"gopy", "cueprobe"}
Operations == {"evaluate", "subsumes", "other"}
Texts      == [name: Names, meaning: Meanings]
NoText     == [name |-> "none", meaning |-> "none"]
ManifestDigests == Manifests \cup {NoManifest, Torn}

Left  == IF route = "native" THEN "gopy" ELSE "cli"
Right == IF route = "native" THEN "cueprobe" ELSE "cue-py"

(* What is left of an observation: its state, whether the backend was       *)
(* available, the facts to compare, and whether the declared and observed   *)
(* CUE versions are the pinned ones.                                        *)
Observation(state, available, facts, pinned) ==
  [state |-> state, available |-> available, facts |-> facts, pinned |-> pinned]
NoFacts     == [f \in {} |-> FALSE]
Nothing     == Observation("none", FALSE, NoFacts, FALSE)
Unavailable == Observation("unavailable", FALSE, NoFacts, FALSE)
Unsupported(pinned) == Observation("unsupported-operation", TRUE, NoFacts, pinned)

(* Nothing is observed yet, or an exception has left nothing of the probe.  *)
Clear ==
  /\ subject' = [b \in Backends |-> NoText]
  /\ reads' = [b \in Backends |-> {}]
  /\ ran' = [b \in Native |-> Absent]
  /\ outcome' = [b \in Backends |-> Nothing]
  /\ parsed' = NoManifest
  /\ artifact' = [b \in Native |-> Absent]
  /\ vouched' = [b \in Native |-> NoManifest]
  /\ quiet' = TRUE
  /\ between' = 0
  /\ result' = "none"
  /\ UNCHANGED <<buildVars, text>>

(* A native probe calls the CLI backend too, first, and only returns what   *)
(* that observes; the model begins with the observations it compares.       *)
Start ==
  /\ stage \in {"idle", "done"}
  /\ route' \in {"native", "cue-py"}
  /\ operation' \in Operations
  /\ stage' = "materialize"
  /\ at' = IF route' = "native" THEN "gopy" ELSE "cli"
  /\ Clear

(* A source is missing, escapes its module or is not a regular file; the    *)
(* cue-py payload finds another package; a process answers with something   *)
(* that is not an observation.                                              *)
Raise ==
  /\ \/ stage = "materialize"
     \/ stage = "payload" /\ text.meaning = "foreign"
     \/ stage = "run"
  /\ stage' = "idle"
  /\ at' = "none"
  /\ Clear
  /\ UNCHANGED <<route, operation>>

(* Where the probe is once the observation at hand is complete. *)
Following ==
  CASE at = "cli"  -> "cue-py"
    [] at = "gopy" -> "cueprobe"
    [] OTHER       -> "none"

Advance ==
  /\ at' = Following
  /\ stage' = IF at' = "none" THEN "compare" ELSE "materialize"

Observe(o) == outcome' = [outcome EXCEPT ![at] = o]

Step(from, to) == stage = from /\ stage' = to /\ UNCHANGED at

(* run_process: the process times out, does not start or exits with an error. *)
Failed == Observation("failed", TRUE, NoFacts, FALSE)

(* materialize_subject: the digest of every source, before anything runs.   *)
Materialize ==
  /\ stage = "materialize"
  /\ subject' = [subject EXCEPT ![at] = text]

Reading == reads' = [reads EXCEPT ![at] = @ \cup {text}]
-----------------------------------------------------------------------------
(* observe_cli: every cue process reads the sources again.                  *)

CliMaterialize ==
  /\ at = "cli"
  /\ Materialize
  /\ \/ Observe(Unavailable) /\ Advance
     \/ operation = "other" /\ Observe(Unsupported(FALSE)) /\ Advance
     \/ operation # "other" /\ Step("materialize", "eval") /\ UNCHANGED outcome
  /\ UNCHANGED <<buildVars, text, route, operation, reads, ran, parsed, artifact,
                 vouched, quiet, between, result>>

Bottom(b)   == [f \in {"semanticBottom"} |-> b]
Abstract    == [semanticBottom |-> FALSE, concrete |-> FALSE]
Concrete(t) == [semanticBottom |-> FALSE, concrete |-> TRUE, concreteValueDigest |-> t.name]

(* cue eval of the subject; of the candidate too when that is asked for.    *)
CliEval ==
  /\ at = "cli" /\ stage = "eval"
  /\ Reading
  /\ \/ operation = "evaluate" /\ Observe(Failed) /\ Advance
     \/ /\ operation = "evaluate" /\ text.meaning \in {"bottom", "conflict"}
        /\ Observe(Observation("evaluate", TRUE, Bottom(TRUE), FALSE)) /\ Advance
     \/ /\ operation = "evaluate" /\ text.meaning \in {"value", "incomplete"}
        /\ Observe(Observation("evaluate", TRUE, Bottom(FALSE), FALSE))
        /\ Step("eval", "export")
     \/ /\ operation = "subsumes"
        /\ \/ Observe(Failed)
           \/ text.meaning \in {"value", "incomplete", "conflict"} /\ UNCHANGED outcome
        /\ Step("eval", "candidate")
  /\ UNCHANGED <<buildVars, text, route, operation, subject, ran, parsed, artifact,
                 vouched, quiet, between, result>>

CliCandidate ==
  /\ at = "cli" /\ stage = "candidate"
  /\ Reading
  /\ \/ Observe(Observation("materialization-failure", TRUE, NoFacts, FALSE)) /\ Advance
     \/ /\ outcome[at] # Failed
        /\ text.meaning \in {"value", "incomplete"}
        /\ Step("candidate", "unify") /\ UNCHANGED outcome
  /\ UNCHANGED <<buildVars, text, route, operation, subject, ran, parsed, artifact,
                 vouched, quiet, between, result>>

CliUnify ==
  /\ at = "cli" /\ stage = "unify"
  /\ Reading
  /\ \/ Observe(Failed)
     \/ /\ text.meaning \notin {"broken", "foreign"}
        /\ \E b, equal \in BOOLEAN :
             Observe(Observation("compare", TRUE,
                       [semanticBottom |-> b, normalFormEqualToCandidate |-> equal], FALSE))
  /\ Advance
  /\ UNCHANGED <<buildVars, text, route, operation, subject, ran, parsed, artifact,
                 vouched, quiet, between, result>>

(* cue export: a failure, and output cut at 20000 characters, are filed as  *)
(* a value that is not concrete, like one that really is not.               *)
CliExport ==
  /\ at = "cli" /\ stage = "export"
  /\ Reading
  /\ \/ \E state \in {"incomplete", "timeout", "start-error", "protocol-error"} :
          Observe(Observation(state, TRUE, Abstract, FALSE))
     \/ /\ text.meaning = "value"
        /\ Observe(Observation("project", TRUE, Concrete(text), FALSE))
  /\ Advance
  /\ UNCHANGED <<buildVars, text, route, operation, subject, ran, parsed, artifact,
                 vouched, quiet, between, result>>
-----------------------------------------------------------------------------
(* observe_cue_py: the sources are read again for the payload, and the      *)
(* worker evaluates what the payload holds.                                 *)

CuePyMaterialize ==
  /\ at = "cue-py"
  /\ Materialize
  /\ \/ Observe(Unavailable) /\ Advance
     \/ operation = "other" /\ Observe(Unsupported(FALSE)) /\ Advance
     \/ operation # "other" /\ Step("materialize", "payload") /\ UNCHANGED outcome
  /\ UNCHANGED <<buildVars, text, route, operation, reads, ran, parsed, artifact,
                 vouched, quiet, between, result>>

CuePyPayload ==
  /\ at = "cue-py" /\ stage = "payload"
  /\ Reading
  /\ text.meaning # "foreign"
  /\ Step("payload", "run")
  /\ UNCHANGED <<buildVars, text, route, operation, subject, ran, outcome, parsed,
                 artifact, vouched, quiet, between, result>>

CuePyOutcome(t) ==
  IF t.meaning = "broken" THEN Observation("compile-error", TRUE, NoFacts, FALSE)
  ELSE IF t.meaning = "bottom" THEN Observation("evaluation-error", TRUE, NoFacts, FALSE)
  ELSE IF t.meaning = "conflict"
  THEN Observation(IF operation = "evaluate" THEN "evaluation-error" ELSE "materialization-error",
                   TRUE, NoFacts, FALSE)
  ELSE IF operation = "subsumes"
  THEN Observation("compare", TRUE, [subsumes |-> t.meaning = "value"], FALSE)
  ELSE IF t.meaning = "value" THEN Observation("project", TRUE, Concrete(t), FALSE)
  ELSE Observation("incomplete", TRUE, Abstract, FALSE)

CuePyRun ==
  /\ at = "cue-py" /\ stage = "run"
  /\ \/ Observe(Failed) /\ Advance
     \/ \E t \in reads[at] : Observe(CuePyOutcome(t)) /\ Advance
  /\ UNCHANGED <<buildVars, text, route, operation, subject, reads, ran, parsed,
                 artifact, vouched, quiet, between, result>>
-----------------------------------------------------------------------------
(* observe_gopy_worker and observe_cueprobe.                                *)

Artifact(b) == IF b = "gopy" THEN extension ELSE binary
Section(m)  == IF at = "gopy" THEN m.extension ELSE m.cueprobe

NativeMaterialize ==
  /\ at \in Native
  /\ Materialize
  /\ IF Artifact(at) = Absent
     THEN Observe(Unavailable) /\ Advance
     ELSE Step("materialize", "run") /\ UNCHANGED outcome
  /\ UNCHANGED <<buildVars, text, route, operation, reads, ran, parsed, artifact,
                 vouched, quiet, between, result>>

(* The facts with the kinds, which CUE's Kind and IncompleteKind make of the *)
(* value of the text; of bottom both are bottom.                            *)
Conflicting(state, pinned) ==
  Observation(state, TRUE, [semanticBottom |-> TRUE, kind |-> "_|_", incompleteKind |-> "_|_"],
              pinned)
Projected(t, pinned) ==
  Observation("project", TRUE,
              [semanticBottom |-> FALSE, kind |-> t.name, incompleteKind |-> t.name,
               concrete |-> TRUE, concreteValueDigest |-> t.name], pinned)
Unprojected(t, pinned) ==
  Observation("incomplete", TRUE,
              [semanticBottom |-> FALSE, kind |-> t.name, incompleteKind |-> t.name,
               concrete |-> FALSE], pinned)

(* What an engine of version v of the Go sources takes text t for: version 1 *)
(* is the repository's, which reads it as it is; sources that were edited    *)
(* may make of it what the repository's make of any other.                   *)
Readings(v, t) == IF v = 1 THEN {t} ELSE Texts

(* _native_observation of the gopy worker. *)
GopyOutcomes(t) ==
  { IF t.meaning \in {"broken", "foreign"} THEN Observation("load-error", TRUE, NoFacts, TRUE)
    ELSE IF t.meaning = "bottom" THEN Observation("evaluation-error", TRUE, Bottom(TRUE), TRUE)
    ELSE IF operation = "other" THEN Unsupported(TRUE)
    ELSE IF operation = "evaluate" /\ t.meaning = "conflict"
    THEN Conflicting("evaluate", TRUE)
    ELSE IF t.meaning = "conflict" THEN Observation("materialization-error", TRUE, NoFacts, TRUE)
    ELSE IF operation = "subsumes"
    THEN Observation("compare", TRUE, [subsumes |-> t.meaning = "value"], TRUE)
    ELSE IF t.meaning = "value" THEN Projected(t, TRUE)
    ELSE Unprojected(t, TRUE) }

(* (mutant) the concrete input is not unified with the subject *)
CueprobeWithoutInput(t) ==
  { IF t.meaning \in {"broken", "foreign"} THEN Observation("load-error", TRUE, NoFacts, TRUE)
    ELSE IF t.meaning = "bottom" THEN Observation("evaluation-error", TRUE, Bottom(TRUE), TRUE)
    ELSE IF operation # "evaluate" THEN Unsupported(TRUE)
    ELSE IF t.meaning = "value" THEN Projected(t, TRUE)
    ELSE Unprojected(t, TRUE) }

(* execute of the cueprobe process, which reports the CUE it was linked     *)
(* with instead of refusing another one.                                    *)
CueprobeOutcomes(t) ==
  UNION { IF t.meaning \in {"broken", "foreign"}
          THEN {Observation("load-error", TRUE, NoFacts, pinned)}
          ELSE IF t.meaning = "bottom"
          THEN {Observation("evaluation-error", TRUE, f, pinned) : f \in {NoFacts, Bottom(TRUE)}}
          ELSE IF operation = "evaluate"
          THEN { CASE t.meaning = "conflict" -> Observation("evaluate", TRUE, Bottom(TRUE), pinned)
                   [] t.meaning = "value" -> Projected(t, pinned)
                   [] OTHER -> Unprojected(t, pinned) }
          ELSE IF operation = "subsumes"
          THEN { IF t.meaning = "conflict"
                 THEN Observation("materialization-error", TRUE, NoFacts, pinned)
                 ELSE Observation("compare", TRUE, [subsumes |-> t.meaning = "value"], pinned) }
          ELSE {Unsupported(pinned)} : pinned \in BOOLEAN }

NativeRun ==
  /\ at \in Native /\ stage = "run"
  /\ Reading
  /\ ran' = [ran EXCEPT ![at] = Artifact(at)]
  /\ \/ Observe(Failed) /\ Advance
     \/ /\ Artifact(at) \in Versions
        /\ \E t \in Readings(Artifact(at), text) :
             \E o \in IF at = "gopy" THEN GopyOutcomes(t) ELSE CueprobeOutcomes(t) : Observe(o)
        /\ Step("run", "parse")
  /\ UNCHANGED <<buildVars, text, route, operation, subject, parsed, artifact,
                 vouched, quiet, between, result>>

IdentityError ==
  /\ outcome' = [outcome EXCEPT ![at].state = "identity-error"]
  /\ artifact' = [artifact EXCEPT ![at] = Absent]
  /\ parsed' = NoManifest
  /\ Advance

(* verify_extension_artifact, verify_cueprobe_artifact: the manifest is     *)
(* parsed, the artifact is digested and compared, ...                       *)
ParseManifest ==
  /\ stage = "parse"
  /\ IF manifest \in Manifests
     THEN parsed' = manifest /\ Step("parse", "digest") /\ UNCHANGED <<outcome, artifact>>
     ELSE IdentityError
  /\ UNCHANGED <<buildVars, text, route, operation, subject, reads, ran, vouched,
                 quiet, between, result>>

(* (mutant) the artifact is digested but not compared with the manifest *)
DigestUnchecked ==
  /\ stage = "digest"
  /\ Step("digest", "reparse")
  /\ artifact' = [artifact EXCEPT ![at] = Artifact(at)]
  /\ UNCHANGED <<buildVars, text, route, operation, subject, reads, ran, outcome,
                 parsed, vouched, quiet, between, result>>

DigestArtifact ==
  /\ stage = "digest"
  /\ IF Artifact(at) = Section(parsed)
     THEN /\ artifact' = [artifact EXCEPT ![at] = Artifact(at)]
          /\ Step("digest", "reparse")
          /\ UNCHANGED <<outcome, parsed>>
     ELSE IdentityError
  /\ UNCHANGED <<buildVars, text, route, operation, subject, reads, ran, vouched,
                 quiet, between, result>>

(* ... the manifest is parsed again and then read again for its digest:     *)
(* build_manifest_digest.                                                   *)
ReparseManifest ==
  /\ stage = "reparse"
  /\ IF manifest \in Manifests
     THEN Step("reparse", "vouch") /\ UNCHANGED <<outcome, parsed, artifact>>
     ELSE IdentityError
  /\ UNCHANGED <<buildVars, text, route, operation, subject, reads, ran, vouched,
                 quiet, between, result>>

DigestManifest ==
  /\ stage = "vouch"
  /\ vouched' = [vouched EXCEPT ![at] = manifest]
  /\ parsed' = NoManifest
  /\ Advance
  /\ UNCHANGED <<buildVars, text, route, operation, subject, reads, ran, outcome,
                 artifact, quiet, between, result>>
-----------------------------------------------------------------------------
(* compare_native_backends, compare_backends.                               *)

(* (mutant) an observation with an identity error counts as verified *)
VerifiedAnyway(b) == b \in Native

Verified(b)   == vouched[b] # NoManifest
Admissible(b) == outcome[b].pinned /\ Verified(b)

(* (mutant) each engine may be of a build of its own *)
EquivalentAnyBuild == Admissible("gopy") /\ Admissible("cueprobe")

EquivalentEngines ==
  /\ Admissible("gopy")
  /\ Admissible("cueprobe")
  /\ vouched["gopy"] = vouched["cueprobe"]

SharedFacts == DOMAIN outcome[Left].facts \cap DOMAIN outcome[Right].facts

(* (mutant) the subject digests are not compared *)
ComparisonUnbound ==
  IF ~(outcome[Left].available /\ outcome[Right].available) THEN "capability-gap"
  ELSE IF route = "native" /\ ~EquivalentEngines THEN "engine-identity-mismatch"
  ELSE IF SharedFacts = {} THEN "incomparable"
  ELSE "shared-facts-equal"

Comparison ==
  IF ~(outcome[Left].available /\ outcome[Right].available) THEN "capability-gap"
  ELSE IF subject[Left] # subject[Right] THEN "subject-mismatch"
  ELSE IF route = "native" /\ ~EquivalentEngines THEN "engine-identity-mismatch"
  ELSE IF SharedFacts = {} THEN "incomparable"
  ELSE IF \A f \in SharedFacts : outcome[Left].facts[f] = outcome[Right].facts[f]
  THEN "shared-facts-equal"
  ELSE "shared-facts-differ"

Compare ==
  /\ stage = "compare"
  /\ result' = Comparison
  /\ stage' = "done"
  /\ UNCHANGED <<buildVars, text, route, operation, at, subject, reads, ran, outcome,
                 parsed, artifact, vouched, quiet, between>>

Probe ==
  \/ Start
  \/ Raise
  \/ CliMaterialize
  \/ CliEval
  \/ CliCandidate
  \/ CliUnify
  \/ CliExport
  \/ CuePyMaterialize
  \/ CuePyPayload
  \/ CuePyRun
  \/ NativeMaterialize
  \/ NativeRun
  \/ ParseManifest
  \/ DigestArtifact
  \/ ReparseManifest
  \/ DigestManifest
  \/ Compare

(* The probe holds one subject digest and is to take the other.             *)
Enclosed == subject[Left] # NoText /\ subject[Right] = NoText

EditText ==
  /\ Work
  /\ text' \in Texts \ {text}
  /\ quiet' = FALSE
  /\ between' = IF Enclosed THEN between + 1 ELSE between
  /\ UNCHANGED <<runner, staged, extension, binary, manifest, build, finished, probeVars>>

Rebuild ==
  /\ EditRunner \/ Build
  /\ quiet' = FALSE
  /\ UNCHANGED <<text, between, probeVars>>

Init ==
  /\ BuildInit
  /\ text \in Texts
  /\ route = "native"
  /\ operation = "evaluate"
  /\ stage = "idle"
  /\ at = "none"
  /\ subject = [b \in Backends |-> NoText]
  /\ reads = [b \in Backends |-> {}]
  /\ ran = [b \in Native |-> Absent]
  /\ outcome = [b \in Backends |-> Nothing]
  /\ parsed = NoManifest
  /\ artifact = [b \in Native |-> Absent]
  /\ vouched = [b \in Native |-> NoManifest]
  /\ quiet = TRUE
  /\ between = 0
  /\ result = "none"

Next == Probe \/ EditText \/ Rebuild

Spec == Init /\ [][Next]_vars
-----------------------------------------------------------------------------
(* Every variable keeps its type. *)
TypeOK ==
  /\ text \in Texts
  /\ subject \in [Backends -> Texts \cup {NoText}]
  /\ reads \in [Backends -> SUBSET Texts]
  /\ ran \in [Native -> Contents]
  /\ artifact \in [Native -> Contents]
  /\ parsed \in ManifestDigests
  /\ vouched \in [Native -> ManifestDigests]
  /\ at \in Backends \cup {"none"}
  /\ between \in Nat

Compared == stage = "done" /\ result \in {"shared-facts-equal", "shared-facts-differ"}

(* Facts are compared only when the first observation is of the text its    *)
(* subject digest names, however the sources are edited in between: the     *)
(* second digest, taken after the first evaluation, shows an edit.  What    *)
(* escapes the two digests is an edit and its reversal between them.        *)
FirstReadsItsSubject == Compared /\ between < 2 => reads[Left] = {subject[Left]}

(* Of two native observations vouched for by one whole manifest, the        *)
(* cueprobe that ran is the one in that manifest, although it is digested   *)
(* only after it ran and a build may replace both.                          *)
CueprobeRanAsVouched ==
  Compared /\ route = "native" /\ vouched["cueprobe"] \in Manifests
    => ran["cueprobe"] = vouched["cueprobe"].cueprobe

(* Artifacts of a build that failed or died half way are never compared.    *)
ComparedWereFinished ==
  Compared /\ route = "native"
    => /\ \E m \in finished : m.extension = artifact["gopy"]
       /\ \E m \in finished : m.cueprobe = artifact["cueprobe"]

(* A probe that nobody disturbs, on whatever edits and broken builds left   *)
(* behind, compares what both engines of one build say about one text.      *)
QuietProbeIsExact ==
  Compared /\ quiet
    => /\ reads[Left] = {subject[Left]}
       /\ reads[Right] = {subject[Left]}
       /\ route = "native"
            => [extension |-> ran["gopy"], cueprobe |-> ran["cueprobe"]] \in finished

(* A difference that is reported is one of texts or of Go sources: the      *)
(* engines of the repository's own sources differ only when an edit came    *)
(* between cueprobe's digest and its run, or was undone between the digests. *)
DifferenceIsOfTexts ==
  Compared /\ route = "native" /\ result = "shared-facts-differ"
    => \/ reads["cueprobe"] # {subject["cueprobe"]}
       \/ between > 1
       \/ {ran["gopy"], ran["cueprobe"]} # {1}
=============================================================================
