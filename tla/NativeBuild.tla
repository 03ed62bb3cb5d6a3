---------------------------- MODULE NativeBuild ----------------------------
(***************************************************************************)
(* src/cue-workbook/bootstrap_native.py: one process builds the gopy       *)
(* extension and the cueprobe binary in place, then writes the manifest    *)
(* that vouches for both.  Nothing is locked and nothing is undone: a build *)
(* that fails or dies leaves what it has replaced.                         *)
(* The content of an artifact is the version of the Go sources it was built *)
(* from, so its digest is its content.                                     *)
(***************************************************************************)
EXTENDS Integers

CONSTANT MaxWork        \* bound: edits and builds begun

ASSUME WorkAssumption == MaxWork \in Nat

VARIABLES
  runner,     \* version of the Go sources, edited by people
  staged,     \* runner/bin/cue_native, which the next build removes first
  extension,  \* src/cue-workbook/cue_native
  binary,     \* runner/bin/cueprobe
  manifest,   \* .deps/manifest.json
  build,      \* the next step of the build, "none" when there is none
  work,       \* edits and builds begun, for the bound
  finished    \* history: manifests that a build wrote to the end

buildVars == <<runner, staged, extension, binary, manifest, build, work, finished>>

Absent   == 0
Partial  == -1          \* native files are missing
Versions == 1..(MaxWork + 1)
Contents == Versions \cup {Absent, Partial}

Manifests  == [extension: Versions, cueprobe: Versions]
NoManifest == [extension |-> Absent, cueprobe |-> Absent]
Torn       == [extension |-> Partial, cueprobe |-> Partial]  \* truncated, not JSON

BuildSteps == {"none", "remove", "move", "cueprobe", "digest", "write"}

(* A clone in which nothing was built yet, or one built from its sources.   *)
BuildInit ==
  /\ runner = 1
  /\ staged = Absent
  /\ extension \in {Absent, 1}
  /\ binary = extension
  /\ manifest = [extension |-> extension, cueprobe |-> binary]
  /\ build = "none"
  /\ work = 0
  /\ finished = {manifest} \cap Manifests

Work ==
  /\ work < MaxWork
  /\ work' = work + 1

EditRunner ==
  /\ Work
  /\ runner' = runner + 1
  /\ UNCHANGED <<staged, extension, binary, manifest, build, finished>>
-----------------------------------------------------------------------------
(* main(): checkouts, module file and tools are in place or it stops here;  *)
(* then build_extension().                                                  *)

StageExtension ==
  /\ build = "none"
  /\ Work
  /\ staged' = runner
  /\ build' = "remove"
  /\ UNCHANGED <<runner, extension, binary, manifest, finished>>

(* rmtree, anywhere between its first file and its last.                    *)
RemoveExtension ==
  /\ build = "remove"
  /\ extension' \in {extension, Absent} \cup (IF extension = Absent THEN {} ELSE {Partial})
  /\ build' = "move"
  /\ UNCHANGED <<runner, staged, binary, manifest, work, finished>>

MoveExtension ==
  /\ build = "move"
  /\ extension' = staged
  /\ staged' = Absent
  /\ build' = "cueprobe"
  /\ UNCHANGED <<runner, binary, manifest, work, finished>>

BuildCueprobe ==
  /\ build = "cueprobe"
  /\ binary' = runner
  /\ build' = "digest"
  /\ UNCHANGED <<runner, staged, extension, manifest, work, finished>>

(* The extension is imported and must report the pinned CUE; artifacts are  *)
(* digested; write_text opens the manifest, which empties it.               *)
TruncateManifest ==
  /\ build = "digest"
  /\ extension \in Versions
  /\ manifest' = Torn
  /\ build' = "write"
  /\ UNCHANGED <<runner, staged, extension, binary, work, finished>>

WriteManifest ==
  /\ build = "write"
  /\ manifest' = [extension |-> extension, cueprobe |-> binary]
  /\ finished' = finished \cup {manifest'}
  /\ build' = "none"
  /\ UNCHANGED <<runner, staged, extension, binary, work>>

(* A command fails, an identity does not match, or the process dies. *)
StopBuild ==
  /\ build # "none"
  /\ build' = "none"
  /\ staged' = Absent
  /\ UNCHANGED <<runner, extension, binary, manifest, work, finished>>

Build ==
  \/ StageExtension
  \/ RemoveExtension
  \/ MoveExtension
  \/ BuildCueprobe
  \/ TruncateManifest
  \/ WriteManifest
  \/ StopBuild
=============================================================================
