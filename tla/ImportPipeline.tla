--------------------------- MODULE ImportPipeline ---------------------------
(***************************************************************************)
(* ImportService.import_file and import_audio: the files of an asset are   *)
(* written one by one, its row last.  The event loop does nothing else     *)
(* meanwhile, but the bridge may die between any two steps, and a WAV file *)
(* that cannot be read ends the import with an exception.                  *)
(***************************************************************************)
EXTENDS Integers, FiniteSets

CONSTANTS
    Assets,       \* asset ids that uuid4 may draw
    NoAsset

VARIABLES
    files,        \* per asset: the files in its directory
    derived,      \* assets whose manifest names a normalized file
    assetRows,    \* ids in imported_assets
    step,         \* the next step of the import under way, or "none"
    asset         \* the asset being imported

importVars == <<files, derived, assetRows, step, asset>>

FileKinds == {"original", "normalized", "manifest"}
Steps == {"none", "copy", "analyze", "normalize", "manifest", "row"}

ImportTypeOK ==
    /\ files \in [Assets -> SUBSET FileKinds]
    /\ derived \subseteq Assets /\ assetRows \subseteq Assets
    /\ step \in Steps
    /\ asset \in Assets \cup {NoAsset}

ImportInit ==
    /\ files = [a \in Assets |-> {}]
    /\ derived = {} /\ assetRows = {}
    /\ step = "none" /\ asset = NoAsset

Unused == {a \in Assets : files[a] = {}}

\* A new id: which of the unused ones does not matter.
ImportBegin ==
    /\ step = "none" /\ Unused # {}
    /\ asset' = CHOOSE a \in Unused : TRUE
    /\ step' = "copy"
    /\ UNCHANGED <<files, derived, assetRows>>

Write(kind, next) ==
    /\ files' = [files EXCEPT ![asset] = @ \cup {kind}]
    /\ step' = next
    /\ UNCHANGED <<assetRows, asset>>

\* The directory and the copy of the source.
CopyOriginal == step = "copy" /\ Write("original", "analyze") /\ UNCHANGED derived

StepTo(next) == step' = next /\ UNCHANGED <<files, derived, assetRows, asset>>

Analyze(normalize) ==
    /\ step = "analyze"
    /\ StepTo(IF normalize THEN "normalize" ELSE "manifest")

\* _analyze_wav raises wave.Error or EOFError for a WAV file it cannot read.
AnalyzeFails == step = "analyze" /\ StepTo("none")

\* The normalized copy, which the manifest will name.
Normalize ==
    /\ step = "normalize"
    /\ Write("normalized", "manifest")
    /\ derived' = derived \cup {asset}

WriteManifest == step = "manifest" /\ Write("manifest", "row") /\ UNCHANGED derived

SaveImportedAsset ==
    /\ step = "row"
    /\ assetRows' = assetRows \cup {asset}
    /\ step' = "none"
    /\ UNCHANGED <<files, derived, asset>>

\* The process dies.
ImportLost == StepTo("none")

\* The files that the manifest of a stored asset names, and the manifest.
Named(a) == {"original", "manifest"} \cup IF a \in derived THEN {"normalized"} ELSE {}

==============================================================================
