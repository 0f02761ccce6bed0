--------------------------- MODULE SubmissionPath ---------------------------
(***************************************************************************)
(* A submission of audio, end to end: the plug-in draws a request id and   *)
(* saves it, calls POST /jobs/audio with it and the audio, or with the id  *)
(* of an asset, is told the job and reconciles it later; the bridge        *)
(* imports an upload, and creates the job unless the id has one.  Either   *)
(* side may die at any time, an answer may be lost, a save may fail, and a *)
(* submission may be repeated whatever became of its earlier calls.        *)
(***************************************************************************)
EXTENDS PluginSession, ImportPipeline

CONSTANTS
    Importers,    \* calls of POST /assets/import with normalizeOnImport
    Nobody,
    MaxTrouble    \* bound on faults, repeated and refused calls, imports and cancels together

VARIABLES
    plugin,       \* what the plug-in is doing
    sub,          \* the submission it does it for
    calls,        \* requests on their way to the bridge: how many copies
    replies,      \* answers on their way to the plug-in
    serving,      \* the request or the importer the event loop works on, or Nobody
    jobStatus,    \* jobs by client request id
    jobAsset,     \* and the asset they name, or NoAsset for one the bridge does not have
    cancelAsked,  \* jobs that somebody asked to cancel
    ended,        \* history: jobs that were over at some time
    sent,         \* history: requests that the plug-in has called with
    repeats,      \* history: calls with a request that was sent before
    told,         \* history: requests whose job the plug-in was told
    imported,     \* importers that have called
    refusals,     \* calls that were answered with an error
    faults

pathVars == <<plugin, sub, calls, replies, serving, jobStatus, jobAsset, cancelAsked, ended,
              sent, repeats, told, imported, refusals, faults>>
vars == <<sessionVars, importVars, pathVars>>

Requests == Submissions \X Ids

ASSUME PathAssumption ==
    /\ MaxIds \in Nat /\ MaxFaults \in Nat /\ MaxTrouble \in Nat
    /\ Torn \notin Entries /\ NoAsset \notin Assets
    /\ Nobody \notin Requests \cup Importers
    /\ Importers \cap Requests = {}

\* "over" is complete or failed, which the session does not tell apart.
JobStatuses == {"none", "open", "over", "cancelled"}

\* The request under which the plug-in submits s.
RequestOf(s) == <<s, mem[s].id>>

Saving == plugin \in {"draws", "marks", "reconciles"}

PathTypeOK ==
    /\ SessionTypeOK /\ ImportTypeOK
    /\ plugin \in {"idle", "draws", "calls", "waits", "marks", "reconciles", "down"}
    /\ sub \in Submissions
    /\ calls \in [Requests -> Nat]
    /\ replies \subseteq Requests \X {"job", "error"}
    /\ serving \in Requests \cup Importers \cup {Nobody}
    /\ jobStatus \in [Requests -> JobStatuses]
    /\ jobAsset \in [Requests -> Assets \cup {NoAsset}]
    /\ cancelAsked \subseteq Requests /\ ended \subseteq Requests
    /\ sent \subseteq Requests /\ repeats \in Nat /\ told \subseteq Requests
    /\ imported \subseteq Importers
    /\ refusals \in Nat /\ faults \in 0 .. MaxFaults

Init ==
    /\ SessionInit /\ ImportInit
    /\ plugin = "idle" /\ sub \in Submissions
    /\ calls = [r \in Requests |-> 0] /\ replies = {} /\ serving = Nobody
    /\ jobStatus = [r \in Requests |-> "none"]
    /\ jobAsset = [r \in Requests |-> NoAsset]
    /\ cancelAsked = {} /\ ended = {}
    /\ sent = {} /\ repeats = 0 /\ told = {} /\ imported = {}
    /\ refusals = 0 /\ faults = 0

-----------------------------------------------------------------------------
(* The plug-in *)

jobVars == <<jobStatus, jobAsset, cancelAsked, ended>>
bridgeSide == <<importVars, serving, jobVars, imported, refusals>>

\* The bounds.
MoreTrouble ==
    faults + repeats + refusals + Cardinality(imported) + Cardinality(cancelAsked) < MaxTrouble
MayCall(s) == RequestOf(s) \in sent => MoreTrouble

Fault == MoreTrouble /\ faults < MaxFaults /\ faults' = faults + 1

\* Mutant: every call has an id of its own, as those of the JUCE plug-in do.
SubmitAnew(s) ==
    /\ plugin = "idle" /\ MayCall(s)
    /\ sub' = s
    /\ DrawId(s) /\ plugin' = "draws"
    /\ UNCHANGED <<bridgeSide, calls, replies, sent, repeats, told, faults>>

\* ensure_request_id: an id that is there is used again, saved or not, whatever became
\* of the calls that were made with it.
Submit(s) ==
    /\ plugin = "idle" /\ MayCall(s)
    /\ sub' = s
    /\ IF mem[s].id = NoId
       THEN DrawId(s) /\ plugin' = "draws"
       ELSE plugin' = "calls" /\ UNCHANGED sessionVars
    /\ UNCHANGED <<bridgeSide, calls, replies, sent, repeats, told, faults>>

Opens ==
    /\ Saving /\ SaveOpens
    /\ UNCHANGED <<bridgeSide, plugin, sub, calls, replies, sent, repeats, told, faults>>

\* save returns, and with it ensure_request_id, mark_job or reconcile_unresolved.
Saved ==
    /\ Saving /\ file = Torn
    /\ SaveEnd
    /\ plugin' = IF plugin = "draws" THEN "calls" ELSE "idle"
    /\ UNCHANGED <<bridgeSide, sub, calls, replies, sent, repeats, told, faults>>

\* save raises, and with it its caller; the user may try again.
Unsaved ==
    /\ Saving /\ Fault
    /\ SaveFails(plugin = "draws")
    /\ plugin' = "idle"
    /\ UNCHANGED <<bridgeSide, sub, calls, replies, sent, repeats, told>>

\* create_audio_job, with the file or with the id of an asset.
CallBridge ==
    /\ plugin = "calls"
    /\ calls' = [calls EXCEPT ![RequestOf(sub)] = @ + 1]
    /\ sent' = sent \cup {RequestOf(sub)}
    /\ repeats' = IF RequestOf(sub) \in sent THEN repeats + 1 ELSE repeats
    /\ plugin' = "waits"
    /\ UNCHANGED <<sessionVars, bridgeSide, sub, replies, told, faults>>

\* The answer: the job, which is noted, or an error.
Receive ==
    /\ plugin = "waits"
    /\ \E outcome \in {"job", "error"} :
          /\ <<RequestOf(sub), outcome>> \in replies
          /\ replies' = replies \ {<<RequestOf(sub), outcome>>}
          /\ IF outcome = "job"
             THEN MarkJob(sub) /\ plugin' = "marks" /\ told' = told \cup {RequestOf(sub)}
             ELSE plugin' = "idle" /\ UNCHANGED <<sessionVars, told>>
    /\ UNCHANGED <<bridgeSide, sub, calls, sent, repeats, faults>>

\* The plug-in is told nothing, and does not know whether its call went through.
LoseAnswer ==
    /\ plugin = "waits" /\ Fault
    /\ plugin' = "idle"
    /\ UNCHANGED <<sessionVars, bridgeSide, sub, calls, replies, sent, repeats, told>>

StatusOf == [s \in Submissions |-> IF mem[s].id = NoId THEN "none"
                                   ELSE jobStatus[RequestOf(s)]]

ReconcileJobs ==
    /\ plugin = "idle"
    /\ Reconcile(StatusOf)
    /\ plugin' = "reconciles"
    /\ UNCHANGED <<bridgeSide, sub, calls, replies, sent, repeats, told, faults>>

\* Calls that were sent may still arrive.
PluginDies ==
    /\ plugin # "down" /\ Fault
    /\ Forget
    /\ plugin' = "down" /\ replies' = {}
    /\ UNCHANGED <<bridgeSide, sub, calls, sent, repeats, told>>

\* Mutant: the text is taken as it is.
StartsUnparsed ==
    /\ plugin = "down"
    /\ plugin' = "idle" /\ mem' = file
    /\ UNCHANGED <<bridgeSide, file, drawn, unsaved, losses, sub, calls, replies, sent,
                   repeats, told, faults>>

PluginStarts ==
    /\ plugin = "down"
    /\ plugin' = "idle" /\ Load
    /\ UNCHANGED <<bridgeSide, sub, calls, replies, sent, repeats, told, faults>>

-----------------------------------------------------------------------------
(* The bridge: post_jobs_audio and post_assets_import *)

pluginSide == <<sessionVars, plugin, sub, sent, repeats, told>>

Answer(outcome) ==
    /\ serving' = Nobody
    /\ replies' = IF serving \in Requests THEN replies \cup {<<serving, outcome>>}
                                         ELSE replies

\* The handler raises.
Refuse == MoreTrouble /\ refusals' = refusals + 1 /\ Answer("error")

Arrives(r) ==
    /\ serving = Nobody /\ calls[r] > 0
    /\ calls' = [calls EXCEPT ![r] = @ - 1]
    /\ serving' = r
    /\ UNCHANGED <<pluginSide, replies, jobVars, imported, refusals, faults>>

\* A call with a file, whatever else its form says: the upload is read; nothing else
\* happens on the loop until the answer.
TakeCall(r) == Arrives(r) /\ ImportBegin

\* A call without a file: the asset that the form names, which nobody looks for.
TakeNamed(r) ==
    /\ Arrives(r) /\ step = "none"
    /\ asset' \in assetRows \cup {NoAsset}
    /\ UNCHANGED <<files, derived, assetRows, step>>

TakeImport(i) ==
    /\ serving = Nobody /\ i \notin imported /\ MoreTrouble
    /\ imported' = imported \cup {i}
    /\ serving' = i
    /\ ImportBegin
    /\ UNCHANGED <<pluginSide, calls, replies, jobVars, refusals, faults>>

\* Mutant: the row comes before the files.
ImportRowFirst ==
    /\ step # "none"
    /\ CASE step = "copy" -> CopyOriginal
         [] step = "analyze" ->
              /\ step' = "manifest" /\ assetRows' = assetRows \cup {asset}
              /\ UNCHANGED <<files, derived, asset>>
         [] step = "manifest" -> Write("manifest", "row") /\ UNCHANGED derived
         [] OTHER -> SaveImportedAsset
    /\ UNCHANGED <<pluginSide, calls, replies, serving, jobVars, imported, refusals,
                   faults>>

\* A step of the import that leads to another.
ImportGoesOn ==
    /\ \/ CopyOriginal
       \/ Analyze(serving \in Importers)
       \/ Normalize
       \/ WriteManifest
       \/ serving \in Requests /\ SaveImportedAsset
    /\ UNCHANGED <<pluginSide, calls, replies, serving, jobVars, imported, refusals,
                   faults>>

\* The end of /assets/import, or a WAV file that cannot be read: HTTP 500.
ImportIsOver ==
    /\ \/ serving \in Importers /\ SaveImportedAsset /\ Answer("job") /\ UNCHANGED refusals
       \/ AnalyzeFails /\ Refuse
    /\ UNCHANGED <<pluginSide, calls, jobVars, imported, faults>>

\* The metadata, the request id or the provider mode of the form raises, after the
\* import: the asset stays.  Or there is neither a file nor an asset.
RefuseForm ==
    /\ serving \in Requests /\ step = "none"
    /\ Refuse
    /\ UNCHANGED <<pluginSide, importVars, calls, jobVars, imported, faults>>

\* Mutant: the job names what the form names, although a file came with it.
CreateUnlinked ==
    /\ serving \in Requests /\ step = "none"
    /\ jobStatus' = [jobStatus EXCEPT ![serving] = IF @ = "none" THEN "open" ELSE @]
    /\ Answer("job")
    /\ UNCHANGED <<pluginSide, importVars, calls, jobAsset, cancelAsked, ended, imported,
                   refusals, faults>>

\* create_job_idempotent: the first call of a request id creates the job and names its
\* asset, and the others get that job.
CreateJob ==
    /\ serving \in Requests /\ step = "none"
    /\ IF jobStatus[serving] = "none"
       THEN /\ jobStatus' = [jobStatus EXCEPT ![serving] = "open"]
            /\ jobAsset' = [jobAsset EXCEPT ![serving] = asset]
       ELSE UNCHANGED <<jobStatus, jobAsset>>
    /\ Answer("job")
    /\ UNCHANGED <<pluginSide, importVars, calls, cancelAsked, ended, imported, refusals,
                   faults>>

\* POST /jobs/{id}/cancel, by whoever.
AskCancel(r) ==
    /\ jobStatus[r] # "none" /\ r \notin cancelAsked /\ MoreTrouble
    /\ cancelAsked' = cancelAsked \cup {r}
    /\ UNCHANGED <<pluginSide, importVars, calls, replies, serving, jobStatus, jobAsset, ended,
                   imported, refusals, faults>>

\* The worker or a provider ends the job.  Where a cancel call takes part, set_job_status
\* checks one status and replaces another: any may follow any, after the end too.
JobMoves(r) ==
    \E status \in JobStatuses \ {"none"} :
        /\ r \in cancelAsked \/ (jobStatus[r] = "open" /\ status = "over")
        /\ jobStatus' = [jobStatus EXCEPT ![r] = status]
        /\ ended' = IF status = "over" THEN ended \cup {r} ELSE ended
        /\ UNCHANGED <<pluginSide, importVars, calls, replies, serving, jobAsset, cancelAsked,
                       imported, refusals, faults>>

\* The bridge dies with the calls it has, and is there again.
BridgeDies ==
    /\ Fault
    /\ ImportLost
    /\ serving' = Nobody /\ replies' = {}
    /\ calls' = [r \in Requests |-> 0]
    /\ plugin' = IF plugin = "waits" THEN "idle" ELSE plugin
    /\ UNCHANGED <<sessionVars, sub, sent, repeats, told, jobVars, imported, refusals>>

Next ==
    \/ \E s \in Submissions : Submit(s)
    \/ Opens \/ Saved \/ Unsaved \/ CallBridge \/ Receive \/ LoseAnswer \/ ReconcileJobs
    \/ PluginDies \/ PluginStarts
    \/ \E r \in Requests : TakeCall(r) \/ TakeNamed(r) \/ AskCancel(r) \/ JobMoves(r)
    \/ \E i \in Importers : TakeImport(i)
    \/ ImportGoesOn \/ ImportIsOver \/ RefuseForm \/ CreateJob \/ BridgeDies

Spec == Init /\ [][Next]_vars

-----------------------------------------------------------------------------

\* A submission becomes one job at most, and the plug-in is told of that one, whatever
\* crashes, fails or is repeated, as long as the session file is not lost: of the calls
\* between two losses of what was remembered, IdempotentIntake with the submission for
\* the key.
Intake == INSTANCE IdempotentIntake WITH
    Requests <- Requests,
    Key <- [r \in Requests |-> <<r[1], r[2][1]>>],
    NoAnswer <- Nobody,
    accepted <- {r \in Requests : jobStatus[r] # "none"},
    answer <- [r \in Requests |-> IF r \in told THEN r ELSE Nobody]
OneJobPerSubmission == Intake!Spec

\* The bridge has been asked under r, and remembers or will know.
Asked(r) == calls[r] > 0 \/ serving = r \/ jobStatus[r] # "none"

\* What the bridge was asked under since the last loss is what the file says, so that a
\* plug-in that starts again asks under the same id (ensure_request_id), unless the
\* file is torn or the save of a new id failed.
SentIsSaved ==
    \A r \in Requests : Asked(r) /\ r[2][1] = losses =>
        file = Torn \/ unsaved \/ file[r[1]].id = r[2]

\* What some entries call resolved has been complete or failed, and still is unless
\* somebody asked to cancel it.
EndedIn(entries) ==
    \A s \in Submissions : entries[s].resolved =>
        LET r == <<s, entries[s].id>> IN
        r \in ended /\ (r \in cancelAsked \/ jobStatus[r] = "over")

\* Neither the memory nor the file of the plug-in says of a job that it is done with
\* before the job is (reconcile_unresolved).
ResolvedHasEnded == EndedIn(mem) /\ (file # Torn => EndedIn(file))

\* An asset that has a row has the files its manifest names, and a job names an asset
\* that has a row, or one that its caller named and the bridge never had.
StoredIsOnDisk ==
    /\ \A a \in assetRows : Named(a) \subseteq files[a]
    /\ \A r \in Requests : jobAsset[r] # NoAsset => jobAsset[r] \in assetRows

\* The assets that were left behind: no job names them, and no call is at work on them.
Orphans ==
    {a \in Assets : /\ files[a] # {} /\ ~(serving # Nobody /\ a = asset)
                    /\ \A r \in Requests : jobAsset[r] # a}

\* Each of them has a repeated call (app.py post_jobs_audio imports before it looks for
\* the request id), a call that was refused, a fault or an import of its own to explain it.
OrphansAreExplained ==
    Cardinality(Orphans) <= repeats + refusals + faults + Cardinality(imported)

==============================================================================
