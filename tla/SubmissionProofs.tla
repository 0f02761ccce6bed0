-------------------------- MODULE SubmissionProofs --------------------------
(***************************************************************************)
(* A submission becomes one job at most between two losses of the session, *)
(* whatever crashes, fails or is repeated; the bridge is asked under ids   *)
(* that are saved; no job is taken for done with before it is; an asset    *)
(* that has a row has its files; and an asset that no job names has a      *)
(* reason of its own.                                                      *)
(***************************************************************************)
EXTENDS SubmissionPath, FiniteSetTheorems, TLAPS

Up == plugin # "down"

\* An import under way has an asset.
ImportHasAsset == step # "none" => asset \in Assets

\* Every start that did not find all comes after a death.
LossesAreFaults == losses + (IF Up THEN 0 ELSE 1) <= faults

PathTypeInv == PathTypeOK /\ ImportHasAsset /\ LossesAreFaults

IdTaken == plugin \in {"draws", "calls", "waits"} => mem[sub].id # NoId

\* No id is of a time to come.
IdsInTime ==
    /\ \A s \in Submissions : mem[s].id[1] <= losses
    /\ file # Torn => \A s \in Submissions : file[s].id[1] <= losses

\* The file lags behind by the ids that are not saved.
FileBehind ==
    Up /\ file # Torn =>
        \A s \in Submissions :
            \/ file[s].id = mem[s].id
            \/ file[s].id = NoId /\ (unsaved \/ plugin = "draws")

SessionInv == IdTaken /\ IdsInTime /\ FileBehind

\* What the bridge was asked under since the last loss is remembered and saved.
AskedAsRemembered ==
    \A r \in Requests : Asked(r) =>
        /\ r[2][1] <= losses
        /\ Up /\ r[2][1] = losses => mem[r[1]].id = r[2]
AskedAsSaved ==
    \A r \in Requests : Asked(r) /\ r[2][1] = losses =>
        file = Torn \/ unsaved \/ file[r[1]].id = r[2]

\* Some entries have no other id than r's for the submission at that time.
Agrees(entries, r) ==
    LET id == entries[r[1]].id IN id # NoId /\ id[1] = r[2][1] => id = r[2]

\* Between two losses the bridge is asked under one id.
AskedUnderOneId ==
    /\ \A r \in Requests : Asked(r) => Agrees(mem, r) /\ (file # Torn => Agrees(file, r))
    /\ \A r, q \in Requests :
           Asked(r) /\ Asked(q) /\ r[1] = q[1] /\ r[2][1] = q[2][1] => r = q

\* Whoever is told of a job, or asks to cancel it, means one that is there.
ToldOfJobs ==
    /\ \A r \in Requests : <<r, "job">> \in replies => jobStatus[r] # "none"
    /\ \A r \in told \cup cancelAsked : jobStatus[r] # "none"

RequestInv == AskedAsRemembered /\ AskedAsSaved /\ AskedUnderOneId /\ ToldOfJobs

\* Jobs that are over have ended.
EndedInv == (\A r \in Requests : jobStatus[r] = "over" => r \in ended) /\ ResolvedHasEnded

\* How far the files of the asset in progress are, and those of stored assets.
FilesFollowSteps ==
    /\ step \in {"analyze", "normalize", "manifest", "row"} => "original" \in files[asset]
    /\ step = "row" => "manifest" \in files[asset]
    /\ \A a \in derived : "normalized" \in files[a]
    /\ serving \in Requests /\ step = "none" => asset \in assetRows \cup {NoAsset}

DiskInv == FilesFollowSteps /\ StoredIsOnDisk
PathInv == PathTypeInv /\ SessionInv /\ RequestInv /\ EndedInv /\ DiskInv

USE PathAssumption

-----------------------------------------------------------------------------
(* Types *)

LEMMA EntriesHold == NoEntries \in Entries
BY DEF NoEntries, Entries, Entry

LEMMA IdFacts == NoId \notin Ids /\ \A id \in Ids : id[1] \in Nat /\ id # NoId
BY DEF Ids, NoId

LEMMA PathTypeInit == Init => PathTypeInv
<1> SUFFICES ASSUME Init PROVE PathTypeInv
  OBVIOUS
<1>1. SessionTypeOK
  <2>1. mem \in Entries /\ file \in Entries \cup {Torn}
    BY ZenonT(30), EntriesHold DEF Init, SessionInit
  <2>2. drawn = 0 /\ losses = 0 /\ unsaved = FALSE
    BY DEF Init, SessionInit
  <2>3. drawn \in 0 .. MaxIds /\ losses \in 0 .. MaxFaults
    BY <2>2
  <2>4. unsaved \in BOOLEAN
    BY <2>2
  <2> QED
    BY <2>1, <2>3, <2>4 DEF SessionTypeOK
<1>2. ImportTypeOK /\ ImportHasAsset
  BY DEF Init, ImportInit, ImportTypeOK, ImportHasAsset, Steps, FileKinds
<1>3. LossesAreFaults
  BY DEF Init, SessionInit, LossesAreFaults, Up
<1> QED
  BY <1>1, <1>2, <1>3 DEF Init, PathTypeInv, PathTypeOK, JobStatuses

\* What the plug-in does with its session keeps it typed, if its losses are bounded.
LEMMA SessionSteps ==
    ASSUME SessionTypeOK, losses' <= MaxFaults,
           \/ \E s \in Submissions : DrawId(s) \/ MarkJob(s)
           \/ SaveOpens \/ SaveEnd \/ Forget \/ Load \/ UNCHANGED sessionVars
           \/ SaveFails(TRUE) \/ SaveFails(FALSE)
           \/ \E status : Reconcile(status)
    PROVE  SessionTypeOK'
<1>1. CASE \E s \in Submissions : DrawId(s)
  <2>1. PICK s \in Submissions : DrawId(s)
    BY <1>1
  <2>2. drawn + 1 \in 1 .. MaxIds /\ drawn' = drawn + 1 /\ UNCHANGED <<file, unsaved, losses>>
    BY <2>1 DEF DrawId, Remember, SessionTypeOK
  <2>3. PICK id \in Ids : id = <<losses, drawn + 1>>
    BY <2>2 DEF Ids, SessionTypeOK
  <2>4. mem' = [mem EXCEPT ![s].id = id]
    BY <2>1, <2>3 DEF DrawId, Remember
  <2>5. mem' \in Entries
    BY <2>4 DEF SessionTypeOK, Entries, Entry
  <2> QED
    BY <2>2, <2>5 DEF SessionTypeOK
<1>2. CASE \E s \in Submissions : MarkJob(s)
  <2>1. PICK s \in Submissions : mem' = [mem EXCEPT ![s].job = TRUE]
    BY <1>2 DEF MarkJob, Remember
  <2>2. mem' \in Entries
    BY ZenonT(60), <2>1 DEF SessionTypeOK, Entries, Entry
  <2> QED
    BY <1>2, <2>2 DEF MarkJob, Remember, SessionTypeOK
<1>3. CASE SaveOpens \/ SaveEnd \/ SaveFails(TRUE) \/ SaveFails(FALSE) \/ UNCHANGED sessionVars
  BY <1>3 DEF SaveOpens, SaveEnd, SaveFails, sessionVars, SessionTypeOK
<1>4. CASE Forget
  BY <1>4, EntriesHold DEF Forget, SessionTypeOK
<1>5. CASE \E status : Reconcile(status)
  <2>1. PICK status : Reconcile(status)
    BY <1>5
  <2>2. Reconciled(status) \in Entries
    BY DEF Reconciled, SessionTypeOK, Entries, Entry
  <2> QED
    BY <2>1, <2>2 DEF Reconcile, Remember, SessionTypeOK
<1>6. CASE Load
  <2>1. losses' \in 0 .. MaxFaults
    BY <1>6 DEF Load, SessionTypeOK
  <2> QED
    BY <1>6, <2>1 DEF Load, SessionTypeOK
<1> QED
  BY <1>1, <1>2, <1>3, <1>4, <1>5, <1>6

\* The same for the steps of an import, and it has an asset until its end.
LEMMA ImportSteps ==
    ASSUME ImportTypeOK, ImportHasAsset,
           \/ ImportBegin \/ CopyOriginal \/ Analyze(TRUE) \/ Analyze(FALSE) \/ AnalyzeFails
           \/ Normalize \/ WriteManifest \/ SaveImportedAsset \/ ImportLost
           \/ UNCHANGED importVars
    PROVE  ImportTypeOK' /\ ImportHasAsset'
<1> USE DEF ImportTypeOK, ImportHasAsset, Steps, FileKinds
<1>1. CASE ImportBegin
  BY <1>1 DEF ImportBegin, Unused
<1>2. CASE CopyOriginal \/ WriteManifest \/ Normalize
  BY <1>2 DEF CopyOriginal, WriteManifest, Normalize, Write
<1>3. CASE Analyze(TRUE) \/ Analyze(FALSE) \/ AnalyzeFails \/ ImportLost
  BY <1>3 DEF Analyze, AnalyzeFails, ImportLost, StepTo
<1>4. CASE SaveImportedAsset
  BY <1>4 DEF SaveImportedAsset
<1>5. CASE UNCHANGED importVars
  BY <1>5 DEF importVars
<1> QED
  BY <1>1, <1>2, <1>3, <1>4, <1>5

\* A start loses no more than the death before it has cost.
LEMMA LossesNext ==
    ASSUME PathTypeInv, [Next]_vars
    PROVE  LossesAreFaults' /\ losses' <= MaxFaults /\ faults' \in 0 .. MaxFaults
<1>0. losses \in Nat /\ faults \in 0 .. MaxFaults /\ losses + (IF Up THEN 0 ELSE 1) <= faults
  BY DEF PathTypeInv, LossesAreFaults, PathTypeOK, SessionTypeOK
<1> USE DEF LossesAreFaults, Up
<1>1. CASE \/ \E s \in Submissions : Submit(s)
           \/ Opens \/ Saved \/ CallBridge \/ Receive \/ ReconcileJobs
  <2>1. losses' = losses /\ faults' = faults
    BY <1>1 DEF Submit, Opens, Saved, CallBridge, Receive, ReconcileJobs, DrawId, Remember,
                SaveOpens, SaveEnd, MarkJob, Reconcile, sessionVars
  <2>2. plugin # "down" /\ plugin' # "down"
    BY <1>1 DEF Submit, Opens, Saved, CallBridge, Receive, ReconcileJobs, Saving
  <2> QED
    BY <1>0, <2>1, <2>2
<1>2. CASE Unsaved \/ LoseAnswer \/ PluginDies
  <2>1. losses' = losses /\ faults' = faults + 1 /\ plugin # "down" /\ faults < MaxFaults
    BY <1>2 DEF Unsaved, LoseAnswer, PluginDies, Fault, SaveFails, Forget, sessionVars, Saving
  <2> QED
    BY <1>0, <2>1
<1>3. CASE PluginStarts
  <2>1. /\ losses' = losses + 1 \/ losses' = losses
        /\ faults' = faults /\ plugin = "down" /\ plugin' = "idle"
    BY <1>3 DEF PluginStarts, Load
  <2> QED
    BY <1>0, <2>1
<1>4. CASE BridgeDies
  <2>1. losses' = losses /\ faults' = faults + 1 /\ faults < MaxFaults
    BY <1>4 DEF BridgeDies, Fault, sessionVars
  <2>2. plugin' = "down" <=> plugin = "down"
    BY <1>4 DEF BridgeDies
  <2> QED
    BY <1>0, <2>1, <2>2
<1>5. CASE \/ \E r \in Requests : TakeCall(r) \/ TakeNamed(r) \/ AskCancel(r) \/ JobMoves(r)
           \/ \E i \in Importers : TakeImport(i)
           \/ ImportGoesOn \/ ImportIsOver \/ RefuseForm \/ CreateJob \/ UNCHANGED vars
  <2>1. UNCHANGED <<losses, faults, plugin>>
    BY <1>5 DEF TakeCall, TakeNamed, Arrives, AskCancel, JobMoves, TakeImport, ImportGoesOn,
                ImportIsOver, RefuseForm, CreateJob, pluginSide, sessionVars, vars, pathVars
  <2> QED
    BY <1>0, <2>1
<1> QED
  BY <1>1, <1>2, <1>3, <1>4, <1>5 DEF Next

LEMMA PathTypeNext == PathTypeInv /\ IdTaken /\ [Next]_vars => PathTypeInv'
<1> SUFFICES ASSUME PathTypeInv, IdTaken, [Next]_vars PROVE PathTypeInv'
  OBVIOUS
<1> USE DEF PathTypeInv
<1>0. SessionTypeOK /\ ImportTypeOK
  BY DEF PathTypeOK
<1>l. LossesAreFaults' /\ losses' <= MaxFaults /\ faults' \in 0 .. MaxFaults
  BY LossesNext
<1>a. ASSUME UNCHANGED importVars PROVE ImportTypeOK' /\ ImportHasAsset'
  BY <1>0, <1>a, ImportSteps
<1>b. ASSUME UNCHANGED sessionVars PROVE SessionTypeOK'
  BY <1>0, <1>b, <1>l, SessionSteps
<1>c. ASSUME NEW outcome \in {"job", "error"}, Answer(outcome)
      PROVE  /\ serving' \in Requests \cup Importers \cup {Nobody}
             /\ replies' \subseteq Requests \X {"job", "error"}
  BY <1>c DEF Answer, PathTypeOK
<1>d. refusals + 1 \in Nat /\ repeats + 1 \in Nat
  BY DEF PathTypeOK
<1>1. ASSUME NEW s \in Submissions, Submit(s) PROVE PathTypeInv'
  <2>1. SessionTypeOK'
    BY <1>0, <1>1, <1>l, SessionSteps DEF Submit
  <2> QED
    BY <1>1, <1>a, <1>l, <2>1 DEF Submit, bridgeSide, jobVars, PathTypeOK
<1>2. CASE Opens \/ Saved \/ Unsaved
  <2>1. SessionTypeOK'
    <3>1. Unsaved => SaveFails(TRUE) \/ SaveFails(FALSE)
      BY DEF Unsaved, SaveFails
    <3> QED
      BY <1>0, <1>2, <1>l, <3>1, SessionSteps DEF Opens, Saved
  <2> QED
    BY <1>2, <1>a, <1>l, <2>1 DEF Opens, Saved, Unsaved, bridgeSide, jobVars, PathTypeOK
<1>3. CASE CallBridge
  <2>0. RequestOf(sub) \in Requests
    BY <1>0, <1>3 DEF CallBridge, IdTaken, RequestOf, Requests, PathTypeOK, SessionTypeOK, Entries,
                Entry
  <2>1. calls' \in [Requests -> Nat]
    <3> DEFINE r == RequestOf(sub)
    <3>1. calls \in [Requests -> Nat] /\ calls' = [calls EXCEPT ![r] = calls[r] + 1]
      BY <1>3 DEF CallBridge, PathTypeOK
    <3> HIDE DEF r
    <3>2. r \in Requests => calls[r] + 1 \in Nat
      BY <3>1
    <3> QED
      BY <3>1, <3>2
  <2> QED
    BY <1>3, <1>a, <1>b, <1>d, <1>l, <2>0, <2>1
    DEF CallBridge, bridgeSide, jobVars, PathTypeOK
<1>4. CASE Receive
  <2>1. PICK outcome \in {"job", "error"} :
          /\ <<RequestOf(sub), outcome>> \in replies
          /\ replies' = replies \ {<<RequestOf(sub), outcome>>}
          /\ IF outcome = "job"
             THEN MarkJob(sub) /\ plugin' = "marks" /\ told' = told \cup {RequestOf(sub)}
             ELSE plugin' = "idle" /\ UNCHANGED <<sessionVars, told>>
    BY <1>4 DEF Receive
  <2>2. sub \in Submissions /\ RequestOf(sub) \in Requests
    BY <2>1 DEF PathTypeOK
  <2>3. SessionTypeOK'
    BY <1>0, <1>l, <2>1, <2>2, SessionSteps
  <2> QED
    BY <1>4, <1>a, <1>l, <2>1, <2>2, <2>3 DEF Receive, bridgeSide, jobVars, PathTypeOK
<1>5. CASE LoseAnswer
  BY <1>5, <1>a, <1>b, <1>l DEF LoseAnswer, bridgeSide, jobVars, PathTypeOK
<1>6. CASE ReconcileJobs
  BY <1>0, <1>6, <1>a, <1>l, SessionSteps DEF ReconcileJobs, bridgeSide, jobVars, PathTypeOK
<1>7. CASE PluginDies
  BY <1>0, <1>7, <1>a, <1>l, SessionSteps DEF PluginDies, bridgeSide, jobVars, PathTypeOK
<1>8. CASE PluginStarts
  BY <1>0, <1>8, <1>a, <1>l, SessionSteps DEF PluginStarts, bridgeSide, jobVars, PathTypeOK
<1>9. ASSUME NEW r \in Requests, TakeCall(r) \/ TakeNamed(r) PROVE PathTypeInv'
  <2>1. /\ UNCHANGED <<pluginSide, replies, jobVars, imported, refusals>>
        /\ calls[r] > 0 /\ calls' = [calls EXCEPT ![r] = calls[r] - 1] /\ serving' = r
    BY <1>9 DEF TakeCall, TakeNamed, Arrives
  <2>2. calls' \in [Requests -> Nat]
    BY <2>1 DEF PathTypeOK
  <2>3. ImportTypeOK' /\ ImportHasAsset'
    <3>1. CASE ImportBegin
      BY <1>0, <3>1, ImportSteps
    <3>2. CASE /\ step = "none" /\ asset' \in assetRows \cup {NoAsset}
               /\ UNCHANGED <<files, derived, assetRows, step>>
      BY <1>0, <3>2 DEF ImportTypeOK, ImportHasAsset
    <3> QED
      BY <1>9, <3>1, <3>2 DEF TakeCall, TakeNamed
  <2> QED
    BY <1>b, <1>l, <2>1, <2>2, <2>3 DEF pluginSide, jobVars, PathTypeOK
<1>10. ASSUME NEW i \in Importers, TakeImport(i) PROVE PathTypeInv'
  <2>1. ImportTypeOK' /\ ImportHasAsset'
    BY <1>0, <1>10, ImportSteps DEF TakeImport
  <2> QED
    BY <1>10, <1>b, <1>l, <2>1 DEF TakeImport, pluginSide, jobVars, PathTypeOK
<1>11. CASE ImportGoesOn
  <2>1. Analyze(serving \in Importers) => Analyze(TRUE) \/ Analyze(FALSE)
    BY DEF Analyze
  <2>2. ImportTypeOK' /\ ImportHasAsset'
    BY <1>0, <1>11, <2>1, ImportSteps DEF ImportGoesOn
  <2> QED
    BY <1>11, <1>b, <1>l, <2>2 DEF ImportGoesOn, pluginSide, jobVars, PathTypeOK
<1>12. CASE ImportIsOver
  <2>1. ImportTypeOK' /\ ImportHasAsset'
    BY <1>0, <1>12, ImportSteps DEF ImportIsOver
  <2>2. /\ serving' \in Requests \cup Importers \cup {Nobody}
        /\ replies' \subseteq Requests \X {"job", "error"} /\ refusals' \in Nat
    BY <1>12, <1>c, <1>d DEF ImportIsOver, Refuse, PathTypeOK
  <2> QED
    BY <1>12, <1>b, <1>l, <2>1, <2>2 DEF ImportIsOver, pluginSide, jobVars, PathTypeOK
<1>13. CASE RefuseForm
  <2>1. /\ serving' \in Requests \cup Importers \cup {Nobody}
        /\ replies' \subseteq Requests \X {"job", "error"} /\ refusals' \in Nat
    BY <1>13, <1>c, <1>d DEF RefuseForm, Refuse
  <2> QED
    BY <1>13, <1>a, <1>b, <1>l, <2>1 DEF RefuseForm, pluginSide, jobVars, PathTypeOK
<1>14. CASE CreateJob
  <2>1. asset \in Assets \cup {NoAsset} /\ ImportTypeOK' /\ ImportHasAsset' /\ SessionTypeOK'
    BY <1>0, <1>14, <1>a, <1>b DEF CreateJob, pluginSide, ImportTypeOK
  <2>2. /\ jobStatus' \in [Requests -> JobStatuses]
        /\ jobAsset' \in [Requests -> Assets \cup {NoAsset}]
    BY <1>14, <2>1 DEF CreateJob, PathTypeOK, JobStatuses
  <2>3. /\ serving' \in Requests \cup Importers \cup {Nobody}
        /\ replies' \subseteq Requests \X {"job", "error"}
    BY <1>14, <1>c DEF CreateJob
  <2> QED
    BY <1>14, <1>l, <2>1, <2>2, <2>3 DEF CreateJob, pluginSide, PathTypeOK
<1>15. ASSUME NEW r \in Requests, AskCancel(r) \/ JobMoves(r) PROVE PathTypeInv'
  <2>1. /\ jobStatus' \in [Requests -> JobStatuses]
        /\ cancelAsked' \subseteq Requests /\ ended' \subseteq Requests
    BY <1>15 DEF AskCancel, JobMoves, PathTypeOK, JobStatuses
  <2>2. UNCHANGED <<pluginSide, importVars, calls, replies, serving, jobAsset, imported, refusals>>
    BY <1>15 DEF AskCancel, JobMoves
  <2> QED
    BY <1>a, <1>b, <1>l, <2>1, <2>2 DEF pluginSide, PathTypeOK
<1>16. CASE BridgeDies
  <2>1. ImportTypeOK' /\ ImportHasAsset'
    BY <1>0, <1>16, ImportSteps DEF BridgeDies
  <2> QED
    BY <1>16, <1>b, <1>l, <2>1 DEF BridgeDies, jobVars, PathTypeOK
<1>17. CASE UNCHANGED vars
  BY <1>17, <1>a, <1>b, <1>l DEF vars, pathVars, PathTypeOK
<1> QED
  BY <1>1, <1>2, <1>3, <1>4, <1>5, <1>6, <1>7, <1>8, <1>9, <1>10, <1>11, <1>12, <1>13,
     <1>14, <1>15, <1>16, <1>17 DEF Next

-----------------------------------------------------------------------------
(* The session *)

LEMMA DrawnId ==
    ASSUME PathTypeInv, NEW s \in Submissions, DrawId(s)
    PROVE  /\ mem'[s].id \in Ids /\ mem'[s].id[1] = losses /\ mem'[s].resolved = mem[s].resolved
           /\ \A t \in Submissions : t # s => mem'[t] = mem[t]
           /\ UNCHANGED <<file, unsaved, losses>>
<1>0. mem \in Entries /\ losses \in 0 .. MaxFaults /\ drawn + 1 \in 1 .. MaxIds
  BY DEF DrawId, PathTypeInv, PathTypeOK, SessionTypeOK
<1>1. PICK id \in Ids : id = <<losses, drawn + 1>>
  BY <1>0 DEF Ids
<1>2. mem' = [mem EXCEPT ![s].id = id] /\ UNCHANGED <<file, unsaved, losses>>
  BY <1>1 DEF DrawId, Remember
<1>3. id[1] = losses
  BY <1>1
<1>4. mem'[s].id = id /\ mem'[s].resolved = mem[s].resolved
  BY <1>0, <1>2 DEF Entries, Entry
<1>5. \A t \in Submissions : t # s => mem'[t] = mem[t]
  BY <1>0, <1>2 DEF Entries
<1> QED
  BY <1>2, <1>3, <1>4, <1>5

\* Marking and reconciling change no id.
LEMMA IdsKept ==
    ASSUME PathTypeInv, sub \in Submissions,
           MarkJob(sub) \/ \E status : Reconcile(status)
    PROVE  UNCHANGED <<file, unsaved, losses>> /\ \A s \in Submissions : mem'[s].id = mem[s].id
<1>1. CASE MarkJob(sub)
  BY <1>1 DEF MarkJob, Remember, PathTypeInv, PathTypeOK, SessionTypeOK, Entries, Entry
<1>2. CASE \E status : Reconcile(status)
  BY <1>2 DEF Reconcile, Reconciled, Remember, PathTypeInv, PathTypeOK, SessionTypeOK,
              Entries, Entry
<1> QED
  BY <1>1, <1>2

\* What the bridge does, the session knows nothing of.
BridgeStep ==
    \/ \E r \in Requests : TakeCall(r) \/ TakeNamed(r) \/ AskCancel(r) \/ JobMoves(r)
    \/ \E i \in Importers : TakeImport(i)
    \/ ImportGoesOn \/ ImportIsOver \/ RefuseForm \/ CreateJob \/ BridgeDies

LEMMA BridgeLeavesSession ==
    ASSUME BridgeStep
    PROVE  /\ UNCHANGED <<mem, file, drawn, unsaved, losses, sub, sent, repeats, told>>
           /\ plugin' = plugin \/ (plugin = "waits" /\ plugin' = "idle")
BY DEF BridgeStep, TakeCall, TakeNamed, Arrives, AskCancel, JobMoves, TakeImport, ImportGoesOn,
       ImportIsOver, RefuseForm, CreateJob, BridgeDies, pluginSide, sessionVars

LEMMA SessionInvInit == Init => SessionInv
<1> SUFFICES ASSUME Init PROVE SessionInv
  OBVIOUS
<1>1. \A s \in Submissions : mem[s].id = <<0, 0>> /\ file[s].id = <<0, 0>>
  BY DEF Init, SessionInit, NoEntries, NoId
<1>2. losses = 0 /\ plugin = "idle"
  BY DEF Init, SessionInit
<1> QED
  BY <1>1, <1>2 DEF SessionInv, IdTaken, IdsInTime, FileBehind, Up

LEMMA SessionNext == PathTypeInv /\ SessionInv /\ [Next]_vars => SessionInv'
<1> SUFFICES ASSUME PathTypeInv, SessionInv, [Next]_vars PROVE SessionInv'
  OBVIOUS
<1>0. mem \in Entries /\ sub \in Submissions /\ losses \in Nat
  BY DEF PathTypeInv, PathTypeOK, SessionTypeOK
<1> USE DEF SessionInv, IdTaken, IdsInTime, FileBehind, Up
<1>1. ASSUME NEW s \in Submissions, Submit(s) PROVE SessionInv'
  <2>1. plugin = "idle" /\ sub' = s
    BY <1>1 DEF Submit
  <2>2. CASE mem[s].id = NoId
    <3>1. DrawId(s) /\ plugin' = "draws"
      BY <1>1, <2>2 DEF Submit
    <3>2. /\ mem'[s].id \in Ids /\ mem'[s].id[1] = losses
          /\ \A t \in Submissions : t # s => mem'[t] = mem[t]
          /\ UNCHANGED <<file, unsaved, losses>>
      BY <3>1, DrawnId
    <3>3. IdTaken'
      BY <2>1, <3>2, IdFacts
    <3>4. IdsInTime'
      BY <1>0, <3>2
    <3>5. FileBehind'
      BY <2>1, <2>2, <3>1, <3>2
    <3> QED
      BY <3>3, <3>4, <3>5
  <2>3. CASE mem[s].id # NoId
    BY <1>1, <2>1, <2>3 DEF Submit, sessionVars
  <2> QED
    BY <2>2, <2>3
<1>2. CASE Opens
  BY <1>2 DEF Opens, SaveOpens
<1>3. CASE Saved
  <2>1. file' = mem /\ UNCHANGED <<mem, losses, sub>> /\ (plugin' = "calls" => plugin = "draws")
    BY <1>3 DEF Saved, SaveEnd
  <2>2. plugin' \in {"idle", "calls"}
    BY <1>3 DEF Saved
  <2> QED
    BY <2>1, <2>2
<1>4. CASE Unsaved
  <2>1. /\ UNCHANGED <<mem, file, losses>> /\ plugin' = "idle" /\ plugin # "down"
        /\ (unsaved \/ plugin = "draws" => unsaved')
    BY <1>4 DEF Unsaved, SaveFails, Saving
  <2> QED
    BY <2>1
<1>5. CASE CallBridge \/ LoseAnswer
  BY <1>5 DEF CallBridge, LoseAnswer, sessionVars
<1>6. CASE Receive
  <2>1. CASE MarkJob(sub) /\ plugin' = "marks"
    <3>1. UNCHANGED <<file, unsaved, losses>> /\ \A s \in Submissions : mem'[s].id = mem[s].id
      BY <1>0, <2>1, IdsKept
    <3>2. plugin = "waits"
      BY <1>6 DEF Receive
    <3> QED
      BY <2>1, <3>1, <3>2
  <2>2. CASE plugin' = "idle" /\ UNCHANGED sessionVars
    BY <1>6, <2>2 DEF Receive, sessionVars
  <2> QED
    BY <1>6, <2>1, <2>2 DEF Receive
<1>7. CASE ReconcileJobs
  <2>1. plugin = "idle" /\ plugin' = "reconciles"
    BY <1>7 DEF ReconcileJobs
  <2>2. UNCHANGED <<file, unsaved, losses>> /\ \A s \in Submissions : mem'[s].id = mem[s].id
    BY <1>0, <1>7, IdsKept DEF ReconcileJobs
  <2> QED
    BY <2>1, <2>2
<1>8. CASE PluginDies
  <2>1. plugin' = "down" /\ mem' = NoEntries /\ UNCHANGED <<file, losses>>
    BY <1>8 DEF PluginDies, Forget
  <2>2. \A s \in Submissions : mem'[s].id = <<0, 0>>
    BY <2>1 DEF NoEntries, NoId
  <2> QED
    BY <1>0, <2>1, <2>2
<1>9. CASE PluginStarts
  <2>1. /\ plugin' = "idle" /\ file' = file /\ mem' = IF file = Torn THEN mem ELSE file
        /\ losses' = losses + 1 \/ losses' = losses
    BY <1>9 DEF PluginStarts, Load
  <2>2. \A n \in Nat : n <= losses => n <= losses'
    BY <1>0, <2>1
  <2>3. /\ \A s \in Submissions : mem[s].id[1] \in Nat
        /\ file # Torn => \A s \in Submissions : file[s].id[1] \in Nat
    BY DEF PathTypeInv, PathTypeOK, SessionTypeOK, Entries, Entry, Ids, NoId
  <2>4. IdsInTime'
    BY <2>1, <2>2, <2>3
  <2> QED
    BY <2>1, <2>4
<1>10. CASE BridgeStep
  BY <1>10, BridgeLeavesSession
<1>11. CASE UNCHANGED vars
  BY <1>11 DEF vars, sessionVars, pathVars
<1> QED
  BY <1>1, <1>2, <1>3, <1>4, <1>5, <1>6, <1>7, <1>8, <1>9, <1>10, <1>11 DEF Next, BridgeStep

-----------------------------------------------------------------------------
(* Requests *)

LEMMA RequestInit == Init => RequestInv
<1> SUFFICES ASSUME Init PROVE RequestInv
  OBVIOUS
<1>1. \A r \in Requests : ~Asked(r)
  BY DEF Init, Asked
<1> QED
  BY <1>1 DEF Init, RequestInv, AskedAsRemembered, AskedAsSaved, AskedUnderOneId, ToldOfJobs

LEMMA RequestFacts == \A r \in Requests : r[1] \in Submissions /\ r[2] \in Ids /\ r[2][1] \in Nat
BY DEF Requests, Ids

\* The plug-in acts on its own: the bridge is asked under nothing new, and what the plug-in
\* was told stays true.
LEMMA PluginAsksNothing ==
    ASSUME RequestInv, UNCHANGED <<calls, serving, jobStatus, cancelAsked>>
    PROVE  /\ \A r \in Requests : Asked(r)' <=> Asked(r)
           /\ (replies' \subseteq replies /\ told' = told) => ToldOfJobs'
BY DEF Asked, RequestInv, ToldOfJobs

\* A step that changes no id but those of submissions the bridge was not asked for.
LEMMA IdsStay ==
    ASSUME RequestInv,
           UNCHANGED <<file, losses>>, unsaved => unsaved', plugin' # "down" => plugin # "down",
           \A r \in Requests : Asked(r) => \/ mem'[r[1]].id = mem[r[1]].id
                                           \/ mem'[r[1]].id = NoId /\ plugin' = "down"
                                           \/ r[2][1] # losses /\ mem'[r[1]].id[1] = losses,
           \A r \in Requests : Asked(r)' => Asked(r)
    PROVE  AskedAsRemembered' /\ AskedAsSaved' /\ AskedUnderOneId'
<1>1. AskedAsRemembered' /\ AskedAsSaved'
  BY DEF RequestInv, AskedAsRemembered, AskedAsSaved, Up
<1>2. \A r \in Requests : Asked(r) => Agrees(mem, r)'
  BY DEF RequestInv, AskedUnderOneId, Agrees
<1>3. AskedUnderOneId'
  BY <1>2 DEF RequestInv, AskedUnderOneId, Agrees
<1> QED
  BY <1>1, <1>3

LEMMA SubmitKeepsRequests ==
    ASSUME PathTypeInv, RequestInv, NEW s \in Submissions, Submit(s)
    PROVE  RequestInv'
<1>1. UNCHANGED <<calls, serving, jobStatus, cancelAsked, replies, told>> /\ plugin = "idle"
  BY DEF Submit, bridgeSide, jobVars
<1>2. ToldOfJobs' /\ \A r \in Requests : Asked(r)' <=> Asked(r)
  BY <1>1, PluginAsksNothing
<1>3. CASE mem[s].id = NoId
  <2>1. DrawId(s) /\ plugin' = "draws"
    BY <1>3 DEF Submit
  <2>2. /\ mem'[s].id[1] = losses /\ \A t \in Submissions : t # s => mem'[t] = mem[t]
        /\ UNCHANGED <<file, unsaved, losses>>
    BY <2>1, DrawnId
  <2>3. \A r \in Requests : Asked(r) /\ r[2][1] = losses => r[1] # s
    BY <1>1, <1>3, RequestFacts, IdFacts DEF RequestInv, AskedAsRemembered, Up
  <2>4. \A r \in Requests : Asked(r) => \/ mem'[r[1]].id = mem[r[1]].id
                                        \/ r[2][1] # losses /\ mem'[r[1]].id[1] = losses
    BY <2>2, <2>3, RequestFacts
  <2> QED
    BY <1>1, <1>2, <2>1, <2>2, <2>4, IdsStay DEF RequestInv
<1>4. CASE mem[s].id # NoId
  <2>1. plugin' = "calls" /\ UNCHANGED <<mem, file, unsaved, losses>>
    BY <1>4 DEF Submit, sessionVars
  <2> QED
    BY <1>1, <1>2, <2>1, IdsStay DEF RequestInv
<1> QED
  BY <1>3, <1>4

\* The plug-in calls under an id that is saved, unless the save of it has failed.
LEMMA CallKeepsRequests ==
    ASSUME PathTypeInv, SessionInv, RequestInv, CallBridge
    PROVE  RequestInv'
<1>1. /\ UNCHANGED <<mem, file, unsaved, losses, serving, jobStatus, cancelAsked, replies, told>>
      /\ plugin = "calls" /\ plugin' = "waits"
      /\ calls' = [calls EXCEPT ![RequestOf(sub)] = calls[RequestOf(sub)] + 1]
  BY DEF CallBridge, bridgeSide, jobVars, sessionVars
<1>2. RequestOf(sub) \in Requests
  BY <1>1 DEF SessionInv, IdTaken, RequestOf, Requests, PathTypeInv, PathTypeOK, SessionTypeOK,
              Entries, Entry
<1>3. PICK new \in Requests : new = RequestOf(sub)
  BY <1>2
<1>4. new[1] = sub /\ new[2] = mem[sub].id /\ sub \in Submissions /\ new[2] # NoId
  BY <1>3, IdFacts, RequestFacts DEF RequestOf
<1>5. \A r \in Requests : r # new => calls'[r] = calls[r]
  BY <1>1, <1>3 DEF PathTypeInv, PathTypeOK
<1>6. \A r \in Requests : Asked(r)' => Asked(r) \/ r = new
  BY <1>1, <1>5 DEF Asked
<1>7. /\ new[2][1] <= losses
      /\ file = Torn \/ unsaved \/ file[new[1]].id = new[2]
  BY <1>1, <1>4 DEF SessionInv, IdsInTime, FileBehind, Up
<1>8. AskedAsRemembered'
  BY <1>1, <1>4, <1>6, <1>7 DEF RequestInv, AskedAsRemembered, Up
<1>9. AskedAsSaved'
  BY <1>1, <1>6, <1>7 DEF RequestInv, AskedAsSaved
<1>10. Agrees(mem, new) /\ (file # Torn => Agrees(file, new))
  <2>1. file # Torn => file[sub].id = mem[sub].id \/ file[sub].id = NoId
    BY <1>1, <1>4 DEF SessionInv, FileBehind, Up
  <2> QED
    BY <1>4, <2>1 DEF Agrees
<1>11. \A r \in Requests : Asked(r) /\ r[1] = new[1] /\ r[2][1] = new[2][1] => r[2] = new[2]
  BY <1>4 DEF RequestInv, AskedUnderOneId, Agrees
<1>12. \A r \in Requests : r[1] = new[1] /\ r[2] = new[2] => r = new
  BY DEF Requests
<1>13. AskedUnderOneId'
  <2>1. \A r \in Requests : Asked(r)' => Agrees(mem, r)' /\ (file # Torn => Agrees(file, r))'
    BY <1>1, <1>6, <1>10 DEF RequestInv, AskedUnderOneId, Agrees
  <2>2. \A r, q \in Requests :
           Asked(r)' /\ Asked(q)' /\ r[1] = q[1] /\ r[2][1] = q[2][1] => r = q
    BY <1>6, <1>11, <1>12 DEF RequestInv, AskedUnderOneId
  <2> QED
    BY <2>1, <2>2 DEF AskedUnderOneId
<1>14. ToldOfJobs'
  BY <1>1 DEF RequestInv, ToldOfJobs
<1> QED
  BY <1>8, <1>9, <1>13, <1>14 DEF RequestInv

LEMMA ReceiveKeepsRequests ==
    ASSUME PathTypeInv, RequestInv, Receive
    PROVE  RequestInv'
<1>1. /\ UNCHANGED <<calls, serving, jobStatus, cancelAsked>>
      /\ plugin = "waits" /\ replies' \subseteq replies
  BY DEF Receive, bridgeSide, jobVars
<1>2. /\ \A r \in Requests : Asked(r)' <=> Asked(r)
      /\ told' = told => ToldOfJobs'
  BY <1>1, PluginAsksNothing
<1>3. CASE <<RequestOf(sub), "job">> \in replies /\ MarkJob(sub) /\ plugin' = "marks"
           /\ told' = told \cup {RequestOf(sub)}
  <2>0. sub \in Submissions
    BY DEF PathTypeInv, PathTypeOK
  <2>1. UNCHANGED <<file, unsaved, losses>> /\ \A s \in Submissions : mem'[s].id = mem[s].id
    BY <1>3, <2>0, IdsKept
  <2>2. RequestOf(sub) \in Requests
    BY <1>3 DEF PathTypeInv, PathTypeOK
  <2>3. ToldOfJobs'
    BY <1>1, <1>3, <2>2 DEF RequestInv, ToldOfJobs
  <2>4. \A r \in Requests : mem'[r[1]].id = mem[r[1]].id
    BY <2>1, RequestFacts
  <2> QED
    BY <1>1, <1>2, <1>3, <2>1, <2>3, <2>4, IdsStay DEF RequestInv
<1>4. CASE plugin' = "idle" /\ UNCHANGED <<sessionVars, told>>
  <2>1. UNCHANGED <<mem, file, unsaved, losses>>
    BY <1>4 DEF sessionVars
  <2> QED
    BY <1>1, <1>2, <1>4, <2>1, IdsStay DEF RequestInv
<1> QED
  BY <1>3, <1>4 DEF Receive

LEMMA PluginKeepsRequests ==
    ASSUME PathTypeInv, RequestInv,
           Opens \/ Saved \/ Unsaved \/ LoseAnswer \/ ReconcileJobs \/ PluginDies \/ PluginStarts
    PROVE  RequestInv'
<1>0. sub \in Submissions /\ losses \in Nat
  BY DEF PathTypeInv, PathTypeOK, SessionTypeOK
<1>1. UNCHANGED <<calls, serving, jobStatus, cancelAsked, told>> /\ replies' \subseteq replies
  BY DEF Opens, Saved, Unsaved, LoseAnswer, ReconcileJobs, PluginDies, PluginStarts, bridgeSide,
         jobVars
<1>2. ToldOfJobs' /\ \A r \in Requests : Asked(r)' <=> Asked(r)
  BY <1>1, PluginAsksNothing
<1>3. CASE Opens
  <2>1. file' = Torn /\ UNCHANGED <<mem, unsaved, losses, plugin>>
    BY <1>3 DEF Opens, SaveOpens
  <2> QED
    BY <1>2, <2>1
    DEF RequestInv, AskedAsRemembered, AskedAsSaved, AskedUnderOneId, Agrees, Up
<1>4. CASE Saved
  <2>1. file' = mem /\ UNCHANGED <<mem, losses>> /\ plugin # "down" /\ plugin' # "down"
    BY <1>4 DEF Saved, SaveEnd, Saving
  <2> QED
    BY <1>2, <2>1
    DEF RequestInv, AskedAsRemembered, AskedAsSaved, AskedUnderOneId, Agrees, Up
<1>5. CASE Unsaved \/ LoseAnswer
  <2>1. UNCHANGED <<mem, file, losses>> /\ plugin # "down"
    BY <1>5 DEF Unsaved, SaveFails, Saving, LoseAnswer, sessionVars
  <2>2. Unsaved => (unsaved => unsaved')
    BY DEF Unsaved, SaveFails
  <2>3. LoseAnswer => unsaved' = unsaved
    BY DEF LoseAnswer, sessionVars
  <2> QED
    BY <1>2, <1>5, <2>1, <2>2, <2>3, IdsStay DEF RequestInv
<1>6. CASE ReconcileJobs
  <2>1. UNCHANGED <<file, unsaved, losses>> /\ \A s \in Submissions : mem'[s].id = mem[s].id
    BY <1>0, <1>6, IdsKept DEF ReconcileJobs
  <2>2. \A r \in Requests : mem'[r[1]].id = mem[r[1]].id
    BY <2>1, RequestFacts
  <2>3. plugin = "idle"
    BY <1>6 DEF ReconcileJobs
  <2> QED
    BY <1>2, <2>1, <2>2, <2>3, IdsStay DEF RequestInv
<1>7. CASE PluginDies
  <2>1. plugin' = "down" /\ mem' = NoEntries /\ UNCHANGED <<file, unsaved, losses>>
    BY <1>7 DEF PluginDies, Forget
  <2>2. \A r \in Requests : mem'[r[1]].id = NoId
    BY <2>1, RequestFacts DEF NoEntries
  <2> QED
    BY <1>2, <2>1, <2>2, IdsStay DEF RequestInv
<1>8. CASE PluginStarts
  <2>1. /\ plugin = "down" /\ plugin' = "idle"
        /\ file' = file /\ mem' = IF file = Torn THEN mem ELSE file
        /\ losses' = IF file = Torn \/ unsaved THEN losses + 1 ELSE losses
    BY <1>8 DEF PluginStarts, Load
  <2>2. \A r \in Requests : Asked(r) => r[2][1] \in Nat /\ r[2][1] <= losses
    BY RequestFacts DEF RequestInv, AskedAsRemembered
  <2>3. \A r \in Requests : Asked(r) => r[2][1] <= losses'
    BY <1>0, <2>1, <2>2
  <2>4. \A r \in Requests : Asked(r) /\ r[2][1] = losses' =>
            file # Torn /\ ~unsaved /\ losses' = losses
    BY <1>0, <2>1, <2>2
  <2>5. \A r \in Requests : Asked(r) /\ r[2][1] = losses' =>
            file[r[1]].id = r[2] /\ file # Torn
    BY <2>4 DEF RequestInv, AskedAsSaved
  <2>6. AskedAsRemembered' /\ AskedAsSaved'
    BY <1>2, <2>1, <2>3, <2>5 DEF AskedAsRemembered, AskedAsSaved
  <2>7. AskedUnderOneId'
    BY <1>2, <2>1 DEF RequestInv, AskedUnderOneId, Agrees
  <2> QED
    BY <1>2, <2>6, <2>7 DEF RequestInv
<1> QED
  BY <1>3, <1>4, <1>5, <1>6, <1>7, <1>8

\* An answer says no more than the bridge knows.
LEMMA AnswersAreTrue ==
    ASSUME RequestInv, told' = told,
           \A r \in cancelAsked' : jobStatus'[r] # "none",
           told \subseteq Requests,
           \A r \in Requests : jobStatus[r] # "none" => jobStatus'[r] # "none",
           \/ replies' \subseteq replies
           \/ Answer("error")
           \/ Answer("job") /\ (serving \in Requests => jobStatus'[serving] # "none")
    PROVE  ToldOfJobs'
<1> SUFFICES ASSUME NEW r \in Requests, <<r, "job">> \in replies' PROVE jobStatus'[r] # "none"
  BY DEF RequestInv, ToldOfJobs
<1>1. CASE <<r, "job">> \in replies
  BY <1>1 DEF RequestInv, ToldOfJobs
<1>2. CASE <<r, "job">> \notin replies
  <2>1. /\ \/ replies' = replies \cup {<<serving, "job">>}
           \/ replies' = replies \cup {<<serving, "error">>}
        /\ serving \in Requests
    BY <1>2 DEF Answer
  <2>2. <<r, "job">> = <<serving, "job">> \/ <<r, "job">> = <<serving, "error">>
    BY <1>2, <2>1
  <2>3. r = serving /\ replies' # replies \cup {<<serving, "error">>}
    BY <1>2, <2>2
  <2> QED
    BY <1>2, <2>1, <2>3 DEF Answer
<1> QED
  BY <1>1, <1>2

\* The bridge acts: nothing new is asked, no job disappears, and answers are true.
LEMMA BridgeKeepsRequests ==
    ASSUME PathTypeInv, RequestInv, BridgeStep
    PROVE  RequestInv'
<1> DEFINE AsksNothing == \A r \in Requests : Asked(r)' => Asked(r)
           LosesNothing == /\ \A r \in Requests : jobStatus[r] # "none" => jobStatus'[r] # "none"
                           /\ \A r \in cancelAsked' : jobStatus'[r] # "none"
           AnswersTruly == \/ replies' \subseteq replies
                           \/ Answer("error")
                           \/ /\ Answer("job")
                              /\ serving \in Requests => jobStatus'[serving] # "none"
<1>0. /\ calls \in [Requests -> Nat]
      /\ jobStatus \in [Requests -> JobStatuses]
      /\ \A r \in Requests : Nobody # r /\ \A i \in Importers : i # r
  BY PathAssumption DEF PathTypeInv, PathTypeOK
<1>c. cancelAsked \subseteq Requests /\ \A r \in cancelAsked : jobStatus[r] # "none"
  BY DEF PathTypeInv, PathTypeOK, RequestInv, ToldOfJobs
<1>s. /\ UNCHANGED <<mem, file, drawn, unsaved, losses, sub, sent, repeats, told>>
      /\ plugin' = plugin \/ (plugin = "waits" /\ plugin' = "idle")
  BY BridgeLeavesSession
<1>1. ASSUME NEW r \in Requests, TakeCall(r) \/ TakeNamed(r)
      PROVE  AsksNothing /\ LosesNothing /\ AnswersTruly
  <2>1. /\ UNCHANGED <<replies, jobStatus, cancelAsked>>
        /\ calls[r] > 0 /\ calls' = [calls EXCEPT ![r] = @ - 1] /\ serving' = r
    BY <1>1 DEF TakeCall, TakeNamed, Arrives, jobVars
  <2>2. \A q \in Requests : calls'[q] > 0 => calls[q] > 0
    BY <1>0, <2>1
  <2> QED
    BY <1>c, <2>1, <2>2 DEF Asked
<1>2. ASSUME NEW r \in Requests, AskCancel(r) \/ JobMoves(r)
      PROVE  AsksNothing /\ LosesNothing /\ AnswersTruly
  <2>1. UNCHANGED <<replies, calls, serving>>
    BY <1>2 DEF AskCancel, JobMoves
  <2>2. \A q \in Requests : jobStatus[q] # "none" => jobStatus'[q] # "none"
    BY <1>0, <1>2 DEF AskCancel, JobMoves
  <2>3. \A q \in Requests : jobStatus'[q] # "none" => Asked(q)
    <3>1. AskCancel(r) => jobStatus' = jobStatus
      BY DEF AskCancel
    <3>2. JobMoves(r) => \A q \in Requests : q # r => jobStatus'[q] = jobStatus[q]
      BY <1>0 DEF JobMoves
    <3>3. JobMoves(r) => Asked(r)
      BY <1>c DEF JobMoves, Asked
    <3> QED
      BY <1>2, <3>1, <3>2, <3>3 DEF Asked
  <2>4. \A q \in cancelAsked' : jobStatus'[q] # "none"
    BY <1>2, <1>c, <2>2 DEF AskCancel, JobMoves
  <2> QED
    BY <2>1, <2>2, <2>3, <2>4 DEF Asked
<1>3. ASSUME NEW i \in Importers, TakeImport(i)
      PROVE  AsksNothing /\ LosesNothing /\ AnswersTruly
  BY <1>0, <1>3, <1>c DEF TakeImport, jobVars, Asked
<1>4. ASSUME ImportGoesOn
      PROVE  AsksNothing /\ LosesNothing /\ AnswersTruly
  BY <1>4, <1>c DEF ImportGoesOn, jobVars, Asked
<1>5. ASSUME ImportIsOver \/ RefuseForm
      PROVE  AsksNothing /\ LosesNothing /\ AnswersTruly
  <2>1. UNCHANGED <<calls, jobStatus, cancelAsked>> /\ serving' = Nobody
    BY <1>5 DEF ImportIsOver, RefuseForm, Refuse, Answer, jobVars
  <2>2. Answer("error") \/ (Answer("job") /\ serving \in Importers)
    BY <1>5 DEF ImportIsOver, RefuseForm, Refuse
  <2> QED
    BY <1>0, <1>c, <2>1, <2>2 DEF Asked
<1>6. ASSUME CreateJob
      PROVE  AsksNothing /\ LosesNothing /\ AnswersTruly
  <2>1. /\ UNCHANGED <<calls, cancelAsked>> /\ Answer("job")
        /\ serving \in Requests
        /\ \/ jobStatus' = [jobStatus EXCEPT ![serving] = "open"]
           \/ jobStatus' = jobStatus /\ jobStatus[serving] # "none"
    BY <1>6 DEF CreateJob
  <2>2. \A r \in Requests : jobStatus'[r] = jobStatus[r] \/ r = serving
    BY <1>0, <2>1
  <2>3. jobStatus'[serving] # "none" /\ serving' = Nobody
    BY <1>0, <2>1 DEF Answer
  <2> QED
    BY <1>0, <1>c, <2>1, <2>2, <2>3 DEF Asked
<1>7. ASSUME BridgeDies
      PROVE  AsksNothing /\ LosesNothing /\ AnswersTruly
  BY <1>0, <1>7, <1>c DEF BridgeDies, jobVars, Asked
<1>8. AsksNothing /\ LosesNothing /\ AnswersTruly
  BY <1>1, <1>2, <1>3, <1>4, <1>5, <1>6, <1>7 DEF BridgeStep
<1> HIDE DEF AsksNothing, LosesNothing, AnswersTruly
<1>9. AskedAsRemembered' /\ AskedAsSaved' /\ AskedUnderOneId'
  BY <1>8, <1>s, IdsStay DEF AsksNothing
<1>10. ToldOfJobs'
  <2>1. told \subseteq Requests
    BY DEF PathTypeInv, PathTypeOK
  <2> QED
    BY <1>8, <1>s, <2>1, AnswersAreTrue DEF LosesNothing, AnswersTruly
<1> QED
  BY <1>9, <1>10 DEF RequestInv

LEMMA RequestNext == PathTypeInv /\ SessionInv /\ RequestInv /\ [Next]_vars => RequestInv'
<1> SUFFICES ASSUME PathTypeInv, SessionInv, RequestInv, [Next]_vars PROVE RequestInv'
  OBVIOUS
<1>1. CASE UNCHANGED vars
  BY <1>1 DEF vars, sessionVars, pathVars, RequestInv, AskedAsRemembered, AskedAsSaved,
              AskedUnderOneId, Agrees, ToldOfJobs, Asked, Up
<1>2. CASE Next
  BY <1>2, SubmitKeepsRequests, CallKeepsRequests, ReceiveKeepsRequests,
     PluginKeepsRequests, BridgeKeepsRequests DEF Next, BridgeStep
<1> QED
  BY <1>1, <1>2

-----------------------------------------------------------------------------
(* Reconciliation *)

LEMMA EndedInit == Init => EndedInv
BY DEF Init, SessionInit, NoEntries, EndedInv, ResolvedHasEnded, EndedIn

\* A job is over when it has ended, and what entries said of jobs they still say, if none has
\* moved but those that somebody asked to cancel.
LEMMA EndedStay ==
    ASSUME NEW entries, EndedIn(entries), ended \subseteq Requests,
           ended \subseteq ended', cancelAsked \subseteq cancelAsked',
           \A r \in Requests : jobStatus[r] = "over" /\ jobStatus'[r] # "over" => r \in cancelAsked'
    PROVE  \A s \in Submissions : entries[s].resolved =>
               /\ <<s, entries[s].id>> \in ended'
               /\ \/ <<s, entries[s].id>> \in cancelAsked'
                  \/ jobStatus'[<<s, entries[s].id>>] = "over"
<1> SUFFICES ASSUME NEW s \in Submissions, entries[s].resolved
             PROVE  /\ <<s, entries[s].id>> \in ended'
                    /\ \/ <<s, entries[s].id>> \in cancelAsked'
                       \/ jobStatus'[<<s, entries[s].id>>] = "over"
  OBVIOUS
<1>1. /\ <<s, entries[s].id>> \in ended
      /\ <<s, entries[s].id>> \in cancelAsked \/ jobStatus[<<s, entries[s].id>>] = "over"
  BY DEF EndedIn
<1>2. PICK r \in Requests : r = <<s, entries[s].id>>
  BY <1>1
<1> QED
  BY <1>1, <1>2

\* A submission that is called resolved was so, or has just been found to be.
LEMMA SessionKeepsEnded ==
    ASSUME PathTypeInv, EndedInv, UNCHANGED <<jobStatus, ended, cancelAsked>>,
           \/ \E s \in Submissions : mem[s].id = NoId /\ DrawId(s)
           \/ MarkJob(sub) \/ SaveOpens \/ SaveEnd \/ Forget \/ Load
           \/ UNCHANGED <<mem, file>>
           \/ Reconcile(StatusOf)
    PROVE  EndedInv'
<1> USE DEF EndedInv, ResolvedHasEnded, EndedIn
<1>0. mem \in Entries /\ sub \in Submissions /\ ended \subseteq Requests
  BY DEF PathTypeInv, PathTypeOK, SessionTypeOK
<1>1. CASE \E s \in Submissions : mem[s].id = NoId /\ DrawId(s)
  <2>1. PICK s \in Submissions : mem[s].id = NoId /\ DrawId(s)
    BY <1>1
  <2>2. /\ mem'[s].resolved = mem[s].resolved /\ file' = file
        /\ \A t \in Submissions : t # s => mem'[t] = mem[t]
    BY <2>1, DrawnId
  <2>3. <<s, NoId>> \notin Requests
    BY IdFacts DEF Requests
  <2>4. ~mem[s].resolved
    BY <1>0, <2>1, <2>3
  <2>5. \A t \in Submissions : mem'[t].resolved => mem'[t] = mem[t]
    BY <2>2, <2>4
  <2> QED
    BY <2>2, <2>5
<1>2. CASE MarkJob(sub)
  <2>1. file' = file /\ \A t \in Submissions :
            mem'[t].resolved = mem[t].resolved /\ mem'[t].id = mem[t].id
    BY <1>0, <1>2 DEF MarkJob, Remember, Entries, Entry
  <2> QED
    BY <2>1
<1>3. CASE SaveOpens \/ SaveEnd \/ Load \/ UNCHANGED <<mem, file>>
  BY <1>3 DEF SaveOpens, SaveEnd, Load
<1>4. CASE Forget
  BY <1>4 DEF Forget, NoEntries
<1>5. CASE Reconcile(StatusOf)
  <2>1. file' = file /\ mem' = Reconciled(StatusOf)
    BY <1>5 DEF Reconcile, Remember
  <2>2. ASSUME NEW t \in Submissions, mem'[t].resolved
        PROVE  /\ <<t, mem'[t].id>> \in ended
               /\ <<t, mem'[t].id>> \in cancelAsked \/ jobStatus[<<t, mem'[t].id>>] = "over"
    <3>1. mem'[t].id = mem[t].id
      BY <1>0, <2>1 DEF Reconciled, Entries, Entry
    <3>2. CASE mem[t].resolved
      BY <3>1, <3>2
    <3>3. CASE ~mem[t].resolved
      <4>1. StatusOf[t] = "over"
        BY <2>1, <2>2, <3>3 DEF Reconciled
      <4>2. mem[t].id # NoId /\ jobStatus[<<t, mem[t].id>>] = "over"
        BY <4>1 DEF StatusOf, RequestOf
      <4>3. <<t, mem[t].id>> \in Requests
        BY <1>0, <4>2 DEF Entries, Entry, Requests
      <4> QED
        BY <3>1, <4>2, <4>3
    <3> QED
      BY <3>2, <3>3
  <2> QED
    BY <2>1, <2>2
<1> QED
  BY <1>1, <1>2, <1>3, <1>4, <1>5

\* Whatever the bridge does, a job that is over stays so unless somebody asked to cancel it.
LEMMA BridgeKeepsOver ==
    ASSUME PathTypeInv, BridgeStep
    PROVE  /\ ended \subseteq ended' /\ cancelAsked \subseteq cancelAsked'
           /\ \A r \in Requests :
                 /\ jobStatus[r] = "over" /\ jobStatus'[r] # "over" => r \in cancelAsked'
                 /\ jobStatus'[r] = "over" => jobStatus[r] = "over" \/ r \in ended'
<1>0. jobStatus \in [Requests -> JobStatuses]
  BY DEF PathTypeInv, PathTypeOK
<1>1. ASSUME NEW q \in Requests, JobMoves(q), NEW r \in Requests
      PROVE  /\ ended \subseteq ended' /\ cancelAsked' = cancelAsked
             /\ jobStatus[r] = "over" /\ jobStatus'[r] # "over" => r \in cancelAsked
             /\ jobStatus'[r] = "over" => jobStatus[r] = "over" \/ r \in ended'
  BY <1>0, <1>1 DEF JobMoves
<1>2. ASSUME CreateJob, NEW r \in Requests
      PROVE  /\ UNCHANGED <<ended, cancelAsked>>
             /\ jobStatus[r] = "over" => jobStatus'[r] = "over"
             /\ jobStatus'[r] = "over" => jobStatus[r] = "over"
  BY <1>0, <1>2 DEF CreateJob
<1>3. ASSUME ~CreateJob, ~\E q \in Requests : JobMoves(q)
      PROVE  /\ UNCHANGED <<ended, jobStatus>> /\ cancelAsked \subseteq cancelAsked'
  BY <1>3 DEF BridgeStep, TakeCall, TakeNamed, Arrives, AskCancel, TakeImport, ImportGoesOn,
              ImportIsOver, RefuseForm, BridgeDies, jobVars
<1>4. CASE CreateJob
  <2>1. UNCHANGED <<ended, cancelAsked>>
    BY <1>4 DEF CreateJob
  <2> QED
    BY <1>2, <1>4, <2>1
<1>5. CASE \E q \in Requests : JobMoves(q)
  BY <1>1, <1>5
<1> QED
  BY <1>3, <1>4, <1>5

LEMMA EndedNext == PathTypeInv /\ EndedInv /\ [Next]_vars => EndedInv'
<1> SUFFICES ASSUME PathTypeInv, EndedInv, [Next]_vars PROVE EndedInv'
  OBVIOUS
<1>1. ASSUME NEW s \in Submissions, Submit(s) PROVE EndedInv'
  BY <1>1, SessionKeepsEnded DEF Submit, bridgeSide, jobVars, sessionVars
<1>2. CASE Opens \/ Saved \/ Unsaved \/ CallBridge \/ LoseAnswer \/ PluginDies
  BY <1>2, SessionKeepsEnded
  DEF Opens, Saved, Unsaved, SaveFails, CallBridge, LoseAnswer, PluginDies, bridgeSide, jobVars,
      sessionVars
<1>3. CASE Receive
  BY <1>3, SessionKeepsEnded DEF Receive, bridgeSide, jobVars, sessionVars
<1>4. CASE ReconcileJobs
  BY <1>4, SessionKeepsEnded DEF ReconcileJobs, bridgeSide, jobVars
<1>5. CASE PluginStarts
  BY <1>5, SessionKeepsEnded DEF PluginStarts, bridgeSide, jobVars
<1>6. CASE UNCHANGED vars
  BY <1>6, SessionKeepsEnded DEF vars, pathVars, sessionVars
<1>7. CASE BridgeStep
  <2>1. UNCHANGED <<mem, file>>
    BY <1>7, BridgeLeavesSession
  <2>2. /\ ended \subseteq ended' /\ cancelAsked \subseteq cancelAsked'
        /\ \A r \in Requests :
              /\ jobStatus[r] = "over" /\ jobStatus'[r] # "over" => r \in cancelAsked'
              /\ jobStatus'[r] = "over" => jobStatus[r] = "over" \/ r \in ended'
    BY <1>7, BridgeKeepsOver
  <2>3. ended \subseteq Requests /\ EndedIn(mem) /\ (file # Torn => EndedIn(file))
    BY DEF PathTypeInv, PathTypeOK, EndedInv, ResolvedHasEnded
  <2>4. EndedIn(mem)'
    BY <2>1, <2>2, <2>3, EndedStay DEF EndedIn
  <2>5. file # Torn => EndedIn(file)'
    BY <2>1, <2>2, <2>3, EndedStay DEF EndedIn
  <2>6. \A r \in Requests : jobStatus'[r] = "over" => r \in ended'
    BY <2>2 DEF EndedInv
  <2> QED
    BY <2>1, <2>4, <2>5, <2>6 DEF EndedInv, ResolvedHasEnded
<1> QED
  BY <1>1, <1>2, <1>3, <1>4, <1>5, <1>6, <1>7 DEF Next, BridgeStep

-----------------------------------------------------------------------------
(* Files *)

LEMMA DiskInit == Init => DiskInv
BY PathAssumption DEF Init, ImportInit, DiskInv, FilesFollowSteps, StoredIsOnDisk

\* Files are only added, and a row when the files are there.
LEMMA ImportKeepsFiles ==
    ASSUME PathTypeInv, DiskInv,
           \/ ImportBegin \/ CopyOriginal \/ Analyze(TRUE) \/ Analyze(FALSE) \/ AnalyzeFails
           \/ Normalize \/ WriteManifest \/ SaveImportedAsset \/ ImportLost
           \/ UNCHANGED importVars
           \/ step = "none" /\ UNCHANGED <<files, derived, assetRows, step>>
    PROVE  /\ step' \in {"analyze", "normalize", "manifest", "row"} =>
                  "original" \in files'[asset']
           /\ step' = "row" => "manifest" \in files'[asset']
           /\ \A a \in derived' : "normalized" \in files'[a]
           /\ \A a \in assetRows' :
                  /\ {"original", "manifest"} \subseteq files'[a]
                  /\ a \in derived' => "normalized" \in files'[a]
           /\ assetRows \subseteq assetRows'
<1>0. /\ files \in [Assets -> SUBSET FileKinds]
      /\ derived \subseteq Assets /\ assetRows \subseteq Assets
      /\ step # "none" => asset \in Assets
  BY DEF PathTypeInv, PathTypeOK, ImportTypeOK, ImportHasAsset
<1>a. /\ step \in {"analyze", "normalize", "manifest", "row"} => "original" \in files[asset]
      /\ step = "row" => "manifest" \in files[asset]
      /\ \A a \in derived : "normalized" \in files[a]
      /\ \A a \in assetRows : {"original", "manifest"} \subseteq files[a]
  BY DEF DiskInv, FilesFollowSteps, StoredIsOnDisk, Named
<1>1. CASE ImportBegin
  BY <1>0, <1>1, <1>a DEF ImportBegin
<1>2. CASE CopyOriginal
  BY <1>0, <1>2, <1>a DEF CopyOriginal, Write
<1>3. CASE Normalize
  BY <1>0, <1>3, <1>a DEF Normalize, Write
<1>4. CASE WriteManifest
  BY <1>0, <1>4, <1>a DEF WriteManifest, Write
<1>5. CASE Analyze(TRUE) \/ Analyze(FALSE) \/ AnalyzeFails \/ ImportLost
  BY <1>0, <1>5, <1>a DEF Analyze, AnalyzeFails, ImportLost, StepTo
<1>6. CASE SaveImportedAsset
  BY <1>0, <1>6, <1>a DEF SaveImportedAsset
<1>7. CASE UNCHANGED importVars
  BY <1>7, <1>a DEF importVars
<1>8. CASE step = "none" /\ UNCHANGED <<files, derived, assetRows, step>>
  BY <1>8, <1>a
<1> QED
  BY <1>1, <1>2, <1>3, <1>4, <1>5, <1>6, <1>7, <1>8

\* The request that is about to become a job names an asset that has a row, or none that the
\* bridge knows, and so do the jobs.
LEMMA ServedNamesRow ==
    ASSUME PathTypeInv, DiskInv, [Next]_vars, assetRows \subseteq assetRows'
    PROVE  /\ (serving \in Requests /\ step = "none" => asset \in assetRows \cup {NoAsset})'
           /\ (\A r \in Requests : jobAsset[r] # NoAsset => jobAsset[r] \in assetRows)'
<1>0. /\ jobAsset \in [Requests -> Assets \cup {NoAsset}]
      /\ Nobody \notin Requests /\ \A i \in Importers : i \notin Requests
  BY PathAssumption DEF PathTypeInv, PathTypeOK
<1>a. /\ serving \in Requests /\ step = "none" => asset \in assetRows \cup {NoAsset}
      /\ \A r \in Requests : jobAsset[r] # NoAsset => jobAsset[r] \in assetRows
  BY DEF DiskInv, FilesFollowSteps, StoredIsOnDisk
<1>1. CASE \/ \E s \in Submissions : Submit(s)
           \/ Opens \/ Saved \/ Unsaved \/ CallBridge \/ Receive \/ LoseAnswer
           \/ ReconcileJobs \/ PluginDies \/ PluginStarts
           \/ \E r \in Requests : AskCancel(r) \/ JobMoves(r)
           \/ UNCHANGED vars
  <2>1. UNCHANGED <<serving, step, asset, jobAsset>>
    BY <1>1 DEF Submit, Opens, Saved, Unsaved, CallBridge, Receive, LoseAnswer, ReconcileJobs,
                PluginDies, PluginStarts, AskCancel, JobMoves, bridgeSide, importVars, jobVars,
                vars, pathVars
  <2> QED
    BY <1>a, <2>1
<1>2. CASE (\E r \in Requests : TakeCall(r)) \/ \E i \in Importers : TakeImport(i)
  <2>1. step' = "copy" /\ jobAsset' = jobAsset
    BY <1>2 DEF TakeCall, Arrives, TakeImport, ImportBegin, jobVars
  <2> QED
    BY <1>a, <2>1
<1>3. CASE \E r \in Requests : TakeNamed(r)
  <2>1. asset' \in assetRows \cup {NoAsset} /\ jobAsset' = jobAsset
    BY <1>3 DEF TakeNamed, Arrives, jobVars
  <2> QED
    BY <1>a, <2>1
<1>4. CASE ImportGoesOn
  <2>1. UNCHANGED <<serving, jobAsset, asset>>
    BY <1>4 DEF ImportGoesOn, CopyOriginal, Analyze, Normalize, WriteManifest,
                SaveImportedAsset, Write, StepTo, jobVars
  <2>2. step' = "none" => asset \in assetRows'
    BY <1>4 DEF ImportGoesOn, CopyOriginal, Analyze, Normalize, WriteManifest,
                SaveImportedAsset, Write, StepTo
  <2> QED
    BY <1>a, <2>1, <2>2
<1>5. CASE ImportIsOver \/ RefuseForm \/ BridgeDies
  <2>1. serving' = Nobody /\ jobAsset' = jobAsset
    BY <1>5 DEF ImportIsOver, RefuseForm, BridgeDies, Refuse, Answer, jobVars
  <2> QED
    BY <1>0, <1>a, <2>1
<1>6. CASE CreateJob
  <2>1. serving' = Nobody /\ asset \in assetRows \cup {NoAsset}
    BY <1>6, <1>a DEF CreateJob, Answer
  <2>2. jobAsset' = jobAsset \/ jobAsset' = [jobAsset EXCEPT ![serving] = asset]
    BY <1>6 DEF CreateJob
  <2>3. \A r \in Requests : jobAsset'[r] # NoAsset => jobAsset'[r] \in assetRows
    BY <1>0, <1>a, <2>1, <2>2
  <2> QED
    BY <1>0, <2>1, <2>3
<1> QED
  BY <1>1, <1>2, <1>3, <1>4, <1>5, <1>6 DEF Next

LEMMA DiskNext == PathTypeInv /\ DiskInv /\ [Next]_vars => DiskInv'
<1> SUFFICES ASSUME PathTypeInv, DiskInv, [Next]_vars PROVE DiskInv'
  OBVIOUS
<1>1. \/ ImportBegin \/ CopyOriginal \/ Analyze(TRUE) \/ Analyze(FALSE) \/ AnalyzeFails
      \/ Normalize \/ WriteManifest \/ SaveImportedAsset \/ ImportLost
      \/ UNCHANGED importVars
      \/ step = "none" /\ UNCHANGED <<files, derived, assetRows, step>>
  <2>1. CASE ImportGoesOn
    BY <2>1 DEF ImportGoesOn, Analyze
  <2>2. CASE ImportIsOver \/ BridgeDies
    BY <2>2 DEF ImportIsOver, BridgeDies
  <2>3. CASE \/ \E r \in Requests : TakeCall(r) \/ TakeNamed(r)
             \/ \E i \in Importers : TakeImport(i)
    BY <2>3 DEF TakeCall, TakeNamed, TakeImport
  <2>4. CASE \/ \E s \in Submissions : Submit(s)
             \/ Opens \/ Saved \/ Unsaved \/ CallBridge \/ Receive \/ LoseAnswer
             \/ ReconcileJobs \/ PluginDies \/ PluginStarts
             \/ \E r \in Requests : AskCancel(r) \/ JobMoves(r)
             \/ RefuseForm \/ CreateJob \/ UNCHANGED vars
    BY <2>4 DEF Submit, Opens, Saved, Unsaved, CallBridge, Receive, LoseAnswer, ReconcileJobs,
                PluginDies, PluginStarts, AskCancel, JobMoves, RefuseForm, CreateJob, bridgeSide,
                vars
  <2> QED
    BY <2>1, <2>2, <2>3, <2>4 DEF Next
<1>2. /\ step' \in {"analyze", "normalize", "manifest", "row"} =>
             "original" \in files'[asset']
      /\ step' = "row" => "manifest" \in files'[asset']
      /\ \A a \in derived' : "normalized" \in files'[a]
      /\ \A a \in assetRows' :
             /\ {"original", "manifest"} \subseteq files'[a]
             /\ a \in derived' => "normalized" \in files'[a]
      /\ assetRows \subseteq assetRows'
  BY <1>1, ImportKeepsFiles
<1>3. /\ (serving \in Requests /\ step = "none" => asset \in assetRows \cup {NoAsset})'
      /\ (\A r \in Requests : jobAsset[r] # NoAsset => jobAsset[r] \in assetRows)'
  BY <1>2, ServedNamesRow
<1>4. FilesFollowSteps'
  BY <1>2, <1>3 DEF FilesFollowSteps
<1>5. StoredIsOnDisk'
  BY <1>2, <1>3 DEF StoredIsOnDisk, Named
<1> QED
  BY <1>4, <1>5 DEF DiskInv

-----------------------------------------------------------------------------
(* The theorems *)

\* The inductive invariant: types, the session, requests, reconciliation and files.
THEOREM PathInvariant == Spec => []PathInv
<1>1. Init => PathInv
  BY PathTypeInit, SessionInvInit, RequestInit, EndedInit, DiskInit DEF PathInv
<1>2. PathInv /\ [Next]_vars => PathInv'
  <2> SUFFICES ASSUME PathInv, [Next]_vars PROVE PathInv'
    OBVIOUS
  <2>1. PathTypeInv'
    BY PathTypeNext DEF PathInv, SessionInv
  <2> QED
    BY <2>1, SessionNext, RequestNext, EndedNext, DiskNext DEF PathInv
<1> QED
  BY <1>1, <1>2, PTL DEF Spec

\* Every state of the plug-in, of its calls and of the bridge is well typed.
THEOREM PathTypeCorrect == Spec => []PathTypeOK
<1>1. PathInv => PathTypeOK
  BY DEF PathInv, PathTypeInv
<1> QED
  BY <1>1, PathInvariant, PTL

\* Whatever the bridge was asked under since the last loss is in the session file when
\* ensure_request_id looks for it after a restart of the plug-in, unless the file is torn or
\* the save of a new id failed.
THEOREM SavedBeforeSent == Spec => []SentIsSaved
<1>1. PathInv => SentIsSaved
  BY DEF PathInv, RequestInv, AskedAsSaved, SentIsSaved
<1> QED
  BY <1>1, PathInvariant, PTL

\* reconcile_unresolved calls only jobs resolved that were complete or failed, in memory and
\* in the file, and they are so unless somebody asked to cancel them.
THEOREM ResolvedHaveEnded == Spec => []ResolvedHasEnded
<1>1. PathInv => ResolvedHasEnded
  BY DEF PathInv, EndedInv
<1> QED
  BY <1>1, PathInvariant, PTL

\* import_file stores a row when the files are there, and a job names an asset that has one
\* or that the bridge never had.
THEOREM RowsHaveFiles == Spec => []StoredIsOnDisk
<1>1. PathInv => StoredIsOnDisk
  BY DEF PathInv, DiskInv
<1> QED
  BY <1>1, PathInvariant, PTL

LEMMA IntakeInit == Init => Intake!Init
BY DEF Init, Intake!Init

\* create_job_idempotent accepts a request when no other of its submission is, since the
\* last loss.
LEMMA CreateAccepts ==
    ASSUME PathInv, CreateJob
    PROVE  Intake!Next \/ UNCHANGED <<{r \in Requests : jobStatus[r] # "none"},
                                      [r \in Requests |-> IF r \in told THEN r ELSE Nobody]>>
<1>0. jobStatus \in [Requests -> JobStatuses] /\ serving \in Requests /\ told' = told
  BY DEF PathInv, PathTypeInv, PathTypeOK, CreateJob, pluginSide
<1>1. CASE jobStatus[serving] # "none"
  <2>1. jobStatus' = jobStatus
    BY <1>1 DEF CreateJob
  <2> QED
    BY <1>0, <2>1
<1>2. CASE jobStatus[serving] = "none"
  <2>0. PICK new \in Requests : new = serving
    BY <1>0
  <2>1. jobStatus' = [jobStatus EXCEPT ![new] = "open"]
    BY <1>2, <2>0 DEF CreateJob
  <2>2. \A a \in Requests : jobStatus[a] # "none" => a[1] # new[1] \/ a[2][1] # new[2][1]
    BY <1>2, <2>0 DEF PathInv, RequestInv, AskedUnderOneId, Asked
  <2>3. {r \in Requests : jobStatus'[r] # "none"}
          = {r \in Requests : jobStatus[r] # "none"} \cup {new}
    BY <1>0, <2>1
  <2>4. \A a \in {r \in Requests : jobStatus[r] # "none"} :
            [r \in Requests |-> <<r[1], r[2][1]>>][a] # [r \in Requests |-> <<r[1], r[2][1]>>][new]
    BY <2>2
  <2>5. Intake!Accept(new)
    BY <1>0, <2>3, <2>4 DEF Intake!Accept
  <2> QED
    BY <2>5 DEF Intake!Next
<1> QED
  BY <1>1, <1>2

\* The plug-in is told of the job of its own request.
LEMMA ReceiveTells ==
    ASSUME PathInv, Receive
    PROVE  Intake!Next \/ UNCHANGED <<{r \in Requests : jobStatus[r] # "none"},
                                      [r \in Requests |-> IF r \in told THEN r ELSE Nobody]>>
<1>0. jobStatus' = jobStatus
  BY DEF Receive, bridgeSide, jobVars
<1>1. CASE told' = told
  BY <1>0, <1>1
<1>2. CASE <<RequestOf(sub), "job">> \in replies /\ told' = told \cup {RequestOf(sub)}
  <2>1. RequestOf(sub) \in Requests /\ jobStatus[RequestOf(sub)] # "none"
    BY <1>2 DEF PathInv, PathTypeInv, PathTypeOK, RequestInv, ToldOfJobs
  <2>2. PICK r \in Requests : r = RequestOf(sub)
    BY <2>1
  <2>3. CASE r \in told
    BY <1>0, <1>2, <2>2, <2>3
  <2>4. CASE r \notin told
    <3>1. [q \in Requests |-> IF q \in told' THEN q ELSE Nobody]
            = [[q \in Requests |-> IF q \in told THEN q ELSE Nobody] EXCEPT ![r] = r]
      BY <1>2, <2>2
    <3>2. Intake!Tell(r)
      BY <1>0, <2>1, <2>2, <2>4, <3>1 DEF Intake!Tell
    <3> QED
      BY <3>2 DEF Intake!Next
  <2> QED
    BY <2>3, <2>4
<1> QED
  BY <1>1, <1>2 DEF Receive

LEMMA StepRefines ==
    ASSUME PathInv, [Next]_vars
    PROVE  Intake!Next \/ UNCHANGED <<{r \in Requests : jobStatus[r] # "none"},
                                      [r \in Requests |-> IF r \in told THEN r ELSE Nobody]>>
<1>0. jobStatus \in [Requests -> JobStatuses] /\ \A r \in cancelAsked : jobStatus[r] # "none"
  BY DEF PathInv, PathTypeInv, PathTypeOK, RequestInv, ToldOfJobs
<1>1. ASSUME NEW q \in Requests, JobMoves(q)
      PROVE  UNCHANGED <<{r \in Requests : jobStatus[r] # "none"},
                         [r \in Requests |-> IF r \in told THEN r ELSE Nobody]>>
  <2>1. told' = told
    BY <1>1 DEF JobMoves, pluginSide
  <2>2. \A r \in Requests : jobStatus'[r] # "none" <=> jobStatus[r] # "none"
    BY <1>0, <1>1 DEF JobMoves
  <2> QED
    BY <2>1, <2>2
<1>2. CASE \/ \E s \in Submissions : Submit(s)
           \/ Opens \/ Saved \/ Unsaved \/ CallBridge \/ LoseAnswer \/ ReconcileJobs
           \/ PluginDies \/ PluginStarts
           \/ \E r \in Requests : TakeCall(r) \/ TakeNamed(r) \/ AskCancel(r)
           \/ \E i \in Importers : TakeImport(i)
           \/ ImportGoesOn \/ ImportIsOver \/ RefuseForm \/ BridgeDies \/ UNCHANGED vars
  <2>1. UNCHANGED <<jobStatus, told>>
    BY <1>2 DEF Submit, Opens, Saved, Unsaved, CallBridge, LoseAnswer, ReconcileJobs, PluginDies,
                PluginStarts, TakeCall, TakeNamed, Arrives, AskCancel, TakeImport, ImportGoesOn,
                ImportIsOver, RefuseForm, BridgeDies, bridgeSide, pluginSide, jobVars, vars,
                pathVars
  <2> QED
    BY <2>1
<1> QED
  BY <1>1, <1>2, CreateAccepts, ReceiveTells DEF Next

\* Plug-in and bridge implement IdempotentIntake, the key being the submission and how often
\* the session was lost: one job at most between two losses, and the plug-in is told of no
\* other.
THEOREM SubmissionRefined == Spec => OneJobPerSubmission
<1>1. Init => Intake!Init
  BY IntakeInit
<1>2. PathInv /\ [Next]_vars =>
        [Intake!Next]_<<{r \in Requests : jobStatus[r] # "none"},
                        [r \in Requests |-> IF r \in told THEN r ELSE Nobody]>>
  BY StepRefines
<1> QED
  BY <1>1, <1>2, PathInvariant, PTL DEF Spec, OneJobPerSubmission, Intake!Spec

-----------------------------------------------------------------------------
(* Assets of no use *)

IsNamed(a) == \E r \in Requests : jobAsset[r] = a

\* Assets that were begun and that no job names, the one in progress included.
Wasted == {a \in Assets : (files[a] # {} \/ a = asset) /\ ~IsNamed(a)}

\* The calls on their way, each copy for itself.
InFlight == {c \in Requests \X (Nat \ {0}) : c[2] <= calls[c[1]]}

\* The requests that have a job.
Known == {r \in Requests : jobStatus[r] # "none"}

\* The call that is served brought no asset of its own.
Spare == IF serving \in Requests /\ asset \notin Wasted THEN 1 ELSE 0

\* The request the plug-in waits for an answer to.
Expected == IF plugin = "waits" THEN {RequestOf(sub)} ELSE {}

\* The requests that were answered in no way, and those whose caller has an error to come.
Unmet == sent \ (Known \cup Expected)
Errors == {r \in Requests : <<r, "error">> \in replies}

JoblessIsUnnamed == \A r \in Requests : jobStatus[r] = "none" => jobAsset[r] = NoAsset

\* Who waits is heard, or has a job.
Awaited ==
    \A r \in Expected \ Known : calls[r] > 0 \/ serving = r \/ r \in Errors

Counted ==
    /\ IsFiniteSet(Wasted) /\ IsFiniteSet(InFlight) /\ IsFiniteSet(Known)
    /\ IsFiniteSet(sent) /\ IsFiniteSet(imported) /\ IsFiniteSet(Errors)

\* Each call and each import has brought an asset at most, and each request that has no job
\* and that nobody waits for has had a fault or an error.
CallsAccount ==
    Cardinality(Wasted) + Cardinality(InFlight) + Cardinality(Known) + Spare
      <= Cardinality(sent) + repeats + Cardinality(imported)
UnmetAccount == Cardinality(Unmet) + Cardinality(Errors) <= faults + refusals

Account == Counted /\ CallsAccount /\ UnmetAccount

-----------------------------------------------------------------------------

LEMMA NoMore ==
    ASSUME NEW S, NEW T, IsFiniteSet(S), T \subseteq S
    PROVE  IsFiniteSet(T) /\ Cardinality(T) \in Nat /\ Cardinality(S) \in Nat
           /\ Cardinality(T) <= Cardinality(S)
BY FS_Subset, FS_CardinalityType

LEMMA OneMore ==
    ASSUME NEW S, NEW T, NEW x, IsFiniteSet(S), T \subseteq S \cup {x}
    PROVE  IsFiniteSet(T) /\ Cardinality(T) \in Nat /\ Cardinality(S) \in Nat
           /\ Cardinality(T) <= Cardinality(S) + 1
<1>1. IsFiniteSet(S \cup {x}) /\ Cardinality(S \cup {x}) <= Cardinality(S) + 1
  <2>1. Cardinality(S) \in Nat
    BY FS_CardinalityType
  <2>2. CASE x \in S
    <3>1. S \cup {x} = S
      BY <2>2
    <3> QED
      BY <2>1, <3>1
  <2>3. CASE x \notin S
    <3>1. IsFiniteSet(S \cup {x}) /\ Cardinality(S \cup {x}) = Cardinality(S) + 1
      BY <2>3, FS_AddElement
    <3> QED
      BY <2>1, <3>1
  <2> QED
    BY <2>2, <2>3
<1>2. /\ IsFiniteSet(T) /\ Cardinality(T) <= Cardinality(S \cup {x})
      /\ Cardinality(T) \in Nat /\ Cardinality(S \cup {x}) \in Nat /\ Cardinality(S) \in Nat
  BY <1>1, FS_Subset, FS_CardinalityType
<1> QED
  BY <1>1, <1>2

LEMMA OneFewer ==
    ASSUME NEW S, NEW T, NEW x \in S, IsFiniteSet(S), T \subseteq S \ {x}
    PROVE  IsFiniteSet(T) /\ Cardinality(T) \in Nat /\ Cardinality(S) \in Nat
           /\ Cardinality(T) + 1 <= Cardinality(S)
<1>1. IsFiniteSet(S \ {x}) /\ Cardinality(S \ {x}) = Cardinality(S) - 1
  BY FS_RemoveElement
<1>2. /\ IsFiniteSet(T) /\ Cardinality(T) <= Cardinality(S \ {x})
      /\ Cardinality(T) \in Nat /\ Cardinality(S) \in Nat
  BY <1>1, FS_Subset, FS_CardinalityType
<1> QED
  BY <1>1, <1>2

LEMMA Added ==
    ASSUME NEW S, NEW T, NEW x, IsFiniteSet(S), x \notin S, T = S \cup {x}
    PROVE  IsFiniteSet(T) /\ Cardinality(T) = Cardinality(S) + 1 /\ Cardinality(S) \in Nat
BY FS_AddElement, FS_CardinalityType

-----------------------------------------------------------------------------

\* An import writes the files of the asset in progress only.
LEMMA WastedStays ==
    ASSUME PathInv, UNCHANGED <<asset, jobAsset>>,
           \/ files' = files
           \/ \E kind, next : Write(kind, next)
    PROVE  Wasted' \subseteq Wasted
<1>1. \A a \in Assets : files'[a] # {} => files[a] # {} \/ a = asset
  BY DEF Write, PathInv, PathTypeInv, PathTypeOK, ImportTypeOK
<1>2. \A a : IsNamed(a)' <=> IsNamed(a)
  BY DEF IsNamed
<1> QED
  BY <1>1, <1>2 DEF Wasted

LEMMA BegunIsWasted ==
    ASSUME PathInv, ImportBegin, jobAsset' = jobAsset
    PROVE  Wasted' \subseteq Wasted \cup {asset'}
<1>1. files' = files
  BY DEF ImportBegin
<1>2. \A a : IsNamed(a)' <=> IsNamed(a)
  BY DEF IsNamed
<1> QED
  BY <1>1, <1>2 DEF Wasted

LEMMA TakenLeavesFlight ==
    ASSUME PathInv, NEW r \in Requests, TakeCall(r) \/ TakeNamed(r)
    PROVE  \E c \in InFlight : InFlight' \subseteq InFlight \ {c}
<1>1. calls \in [Requests -> Nat] /\ calls[r] > 0 /\ calls' = [calls EXCEPT ![r] = calls[r] - 1]
  BY DEF TakeCall, TakeNamed, Arrives, PathInv, PathTypeInv, PathTypeOK
<1>2. <<r, calls[r]>> \in InFlight
  BY <1>1 DEF InFlight
<1>3. ASSUME NEW c \in InFlight' PROVE c \in InFlight /\ c # <<r, calls[r]>>
  <2>1. c \in Requests \X (Nat \ {0}) /\ c[2] <= calls'[c[1]]
    BY <1>3 DEF InFlight
  <2>2. PICK q \in Requests, n \in Nat \ {0} : c = <<q, n>> /\ n <= calls'[q]
    BY <2>1
  <2>3. CASE q = r
    BY <1>1, <2>2, <2>3 DEF InFlight
  <2>4. CASE q # r
    BY <1>1, <2>2, <2>4 DEF InFlight
  <2> QED
    BY <2>3, <2>4
<1> QED
  BY <1>2, <1>3

LEMMA SentIsInFlight ==
    ASSUME PathInv, CallBridge
    PROVE  \E c : InFlight' \subseteq InFlight \cup {c}
<1> DEFINE new == RequestOf(sub)
<1>1. calls \in [Requests -> Nat] /\ calls' = [calls EXCEPT ![new] = calls[new] + 1]
  BY DEF CallBridge, PathInv, PathTypeInv, PathTypeOK
<1> HIDE DEF new
<1>2. ASSUME NEW c \in InFlight' PROVE c \in InFlight \cup {<<new, calls[new] + 1>>}
  <2>1. c \in Requests \X (Nat \ {0}) /\ c[2] <= calls'[c[1]]
    BY <1>2 DEF InFlight
  <2>2. PICK q \in Requests, n \in Nat \ {0} : c = <<q, n>> /\ n <= calls'[q]
    BY <2>1
  <2>3. CASE q = new
    BY <1>1, <2>2, <2>3 DEF InFlight
  <2>4. CASE q # new
    BY <1>1, <2>2, <2>4 DEF InFlight
  <2> QED
    BY <2>3, <2>4
<1>3. \A c \in InFlight' : c \in InFlight \cup {<<new, calls[new] + 1>>}
  BY <1>2
<1> QED
  BY <1>3

-----------------------------------------------------------------------------
\* The asset of a job that is taken from what is wasted, or from elsewhere.
LEMMA CreateUsesAsset ==
    ASSUME PathInv, JoblessIsUnnamed, CreateJob, jobStatus[serving] = "none"
    PROVE  /\ Wasted' \subseteq Wasted \ {asset}
           /\ serving \in Requests /\ serving \notin Known /\ Known' = Known \cup {serving}
<1>1. serving \in Requests /\ files' = files /\ asset' = asset
  BY DEF CreateJob, importVars
<1>2. /\ jobStatus \in [Requests -> JobStatuses]
      /\ jobAsset \in [Requests -> Assets \cup {NoAsset}]
  BY DEF PathInv, PathTypeInv, PathTypeOK
<1>3. /\ jobStatus' = [jobStatus EXCEPT ![serving] = "open"]
      /\ jobAsset' = [jobAsset EXCEPT ![serving] = asset]
  BY DEF CreateJob
<1>4. jobAsset[serving] = NoAsset
  BY <1>1 DEF JoblessIsUnnamed
<1>5. /\ jobAsset'[serving] = asset
      /\ \A r \in Requests : r # serving => jobAsset'[r] = jobAsset[r]
  BY <1>1, <1>2, <1>3
<1>6. \A a \in Assets : IsNamed(a) => IsNamed(a)'
  BY <1>4, <1>5, PathAssumption DEF IsNamed
<1>7. \A a : a = asset => IsNamed(a)'
  BY <1>1, <1>5 DEF IsNamed
<1>8. Wasted' \subseteq Wasted \ {asset}
  BY <1>1, <1>6, <1>7 DEF Wasted
<1>9. serving \notin Known /\ Known' = Known \cup {serving}
  BY <1>1, <1>2, <1>3 DEF Known
<1> QED
  BY <1>1, <1>8, <1>9

\* The asset of an import that begins is named by no job.
LEMMA NewIsWasted ==
    ASSUME PathInv, ImportBegin, jobAsset' = jobAsset
    PROVE  asset' \in Wasted'
<1>1. asset' \in Assets /\ files[asset'] = {}
  BY DEF ImportBegin, Unused
<1>2. PICK a \in Assets : a = asset'
  BY <1>1
<1>3. a \notin assetRows
  BY <1>1, <1>2 DEF PathInv, DiskInv, StoredIsOnDisk, Named
<1>4. \A r \in Requests : jobAsset[r] # a
  BY <1>2, <1>3, PathAssumption DEF PathInv, DiskInv, StoredIsOnDisk
<1> QED
  BY <1>1, <1>2, <1>4 DEF Wasted, IsNamed

LEMMA JoblessNext ==
    ASSUME PathInv, JoblessIsUnnamed, [Next]_vars
    PROVE  JoblessIsUnnamed'
<1>0. /\ jobStatus \in [Requests -> JobStatuses]
      /\ jobAsset \in [Requests -> Assets \cup {NoAsset}]
  BY DEF PathInv, PathTypeInv, PathTypeOK
<1> USE DEF JoblessIsUnnamed
<1>1. CASE CreateJob
  <2>1. \/ UNCHANGED <<jobStatus, jobAsset>>
        \/ /\ jobStatus' = [jobStatus EXCEPT ![serving] = "open"]
           /\ jobAsset' = [jobAsset EXCEPT ![serving] = asset]
    BY <1>1 DEF CreateJob
  <2> QED
    BY <1>0, <2>1
<1>2. CASE \E r \in Requests : JobMoves(r)
  <2>1. jobAsset' = jobAsset
    BY <1>2 DEF JobMoves
  <2>2. \A q \in Requests : jobStatus'[q] = "none" => jobStatus[q] = "none"
    BY <1>0, <1>2 DEF JobMoves
  <2> QED
    BY <2>1, <2>2
<1>3. CASE \/ \E s \in Submissions : Submit(s)
           \/ Opens \/ Saved \/ Unsaved \/ CallBridge \/ Receive \/ LoseAnswer \/ ReconcileJobs
           \/ PluginDies \/ PluginStarts
           \/ \E r \in Requests : TakeCall(r) \/ TakeNamed(r) \/ AskCancel(r)
           \/ \E i \in Importers : TakeImport(i)
           \/ ImportGoesOn \/ ImportIsOver \/ RefuseForm \/ BridgeDies \/ UNCHANGED vars
  <2>1. UNCHANGED <<jobStatus, jobAsset>>
    BY <1>3 DEF Submit, Opens, Saved, Unsaved, CallBridge, Receive, LoseAnswer, ReconcileJobs,
                PluginDies, PluginStarts, TakeCall, TakeNamed, Arrives, AskCancel, TakeImport,
                ImportGoesOn, ImportIsOver, RefuseForm, BridgeDies, bridgeSide, jobVars, vars,
                pathVars
  <2> QED
    BY <2>1
<1> QED
  BY <1>1, <1>2, <1>3 DEF Next

-----------------------------------------------------------------------------

LEMMA CountedTypes ==
    ASSUME PathInv, Counted
    PROVE  /\ Cardinality(Wasted) \in Nat /\ Cardinality(InFlight) \in Nat
           /\ Cardinality(Known) \in Nat /\ Cardinality(sent) \in Nat
           /\ Cardinality(imported) \in Nat /\ Cardinality(Errors) \in Nat
           /\ repeats \in Nat /\ faults \in Nat /\ refusals \in Nat /\ Spare \in {0, 1}
           /\ IsFiniteSet(Unmet) /\ Cardinality(Unmet) \in Nat
<1>1. IsFiniteSet(Unmet)
  BY NoMore DEF Counted, Unmet
<1> QED
  BY <1>1, FS_CardinalityType DEF Counted, Spare, PathInv, PathTypeInv, PathTypeOK

\* Steps that use up something of the account, and add nothing.
LEMMA CallsStay ==
    ASSUME PathInv, Counted, CallsAccount, UNCHANGED <<sent, repeats, imported>>,
           InFlight' \subseteq InFlight, Wasted' \subseteq Wasted, Known' = Known,
           Spare' = 0 \/ Spare' = Spare
    PROVE  /\ CallsAccount' /\ IsFiniteSet(Wasted') /\ IsFiniteSet(InFlight')
           /\ IsFiniteSet(Known') /\ IsFiniteSet(sent') /\ IsFiniteSet(imported')
<1>1. /\ IsFiniteSet(Wasted') /\ Cardinality(Wasted') <= Cardinality(Wasted)
      /\ Cardinality(Wasted') \in Nat
  BY NoMore DEF Counted
<1>2. /\ IsFiniteSet(InFlight') /\ Cardinality(InFlight') <= Cardinality(InFlight)
      /\ Cardinality(InFlight') \in Nat
  BY NoMore DEF Counted
<1>3. PICK n \in {0, 1} : n = Spare' /\ n <= Spare
  BY CountedTypes
<1>4. Cardinality(Wasted') + Cardinality(InFlight') + Cardinality(Known) + n
        <= Cardinality(sent) + repeats + Cardinality(imported)
  BY <1>1, <1>2, <1>3, CountedTypes DEF CallsAccount
<1> QED
  BY <1>1, <1>2, <1>3, <1>4 DEF CallsAccount, Counted

CallsCounted ==
    /\ CallsAccount /\ IsFiniteSet(Wasted) /\ IsFiniteSet(InFlight)
    /\ IsFiniteSet(Known) /\ IsFiniteSet(sent) /\ IsFiniteSet(imported)

LEMMA PluginKeepsCalls ==
    ASSUME PathInv, Counted, CallsAccount,
           \/ \E s \in Submissions : Submit(s)
           \/ Opens \/ Saved \/ Unsaved \/ Receive \/ LoseAnswer \/ ReconcileJobs
           \/ PluginDies \/ PluginStarts
           \/ \E r \in Requests : AskCancel(r) \/ JobMoves(r)
           \/ UNCHANGED vars
    PROVE  CallsCounted'
<1>1. UNCHANGED <<files, asset, serving, jobAsset, imported, calls, sent, repeats>>
  BY DEF Submit, Opens, Saved, Unsaved, Receive, LoseAnswer, ReconcileJobs, PluginDies,
         PluginStarts, AskCancel, JobMoves, bridgeSide, pluginSide, jobVars, importVars, vars,
         pathVars
<1>2. \A r \in Requests : jobStatus'[r] # "none" <=> jobStatus[r] # "none"
  <2>1. CASE \E r \in Requests : JobMoves(r)
    BY <2>1 DEF JobMoves, PathInv, PathTypeInv, PathTypeOK, RequestInv, ToldOfJobs
  <2>2. CASE ~\E r \in Requests : JobMoves(r)
    <3>1. jobStatus' = jobStatus
      BY <2>2 DEF Submit, Opens, Saved, Unsaved, Receive, LoseAnswer, ReconcileJobs, PluginDies,
                  PluginStarts, AskCancel, bridgeSide, jobVars, vars, pathVars
    <3> QED
      BY <3>1
  <2> QED
    BY <2>1, <2>2
<1>3. Wasted' = Wasted
  BY <1>1 DEF Wasted, IsNamed
<1>4. Known' = Known /\ InFlight' = InFlight
  BY <1>1, <1>2 DEF Known, InFlight
<1>5. Spare' = Spare
  BY <1>1, <1>3 DEF Spare
<1> QED
  BY <1>1, <1>3, <1>4, <1>5, CallsStay DEF CallsCounted

LEMMA CallKeepsCalls ==
    ASSUME PathInv, Counted, CallsAccount, CallBridge
    PROVE  CallsCounted'
<1>1. UNCHANGED <<files, asset, serving, jobAsset, jobStatus, imported>>
  BY DEF CallBridge, bridgeSide, jobVars, importVars
<1>2. Wasted' = Wasted /\ Known' = Known
  BY <1>1 DEF Wasted, IsNamed, Known
<1>3. Spare' = Spare
  BY <1>1, <1>2 DEF Spare
<1>4. /\ IsFiniteSet(InFlight') /\ Cardinality(InFlight') \in Nat
      /\ Cardinality(InFlight') <= Cardinality(InFlight) + 1
  <2>1. PICK c : InFlight' \subseteq InFlight \cup {c}
    BY SentIsInFlight
  <2> QED
    BY <2>1, OneMore DEF Counted
<1>5. CASE RequestOf(sub) \in sent
  <2>1. sent' = sent /\ repeats' = repeats + 1
    BY <1>5 DEF CallBridge
  <2> QED
    BY <1>1, <1>2, <1>3, <1>4, <2>1, CountedTypes DEF CallsCounted, CallsAccount, Counted
<1>6. CASE RequestOf(sub) \notin sent
  <2>1. sent' = sent \cup {RequestOf(sub)} /\ repeats' = repeats
    BY <1>6 DEF CallBridge
  <2>2. IsFiniteSet(sent') /\ Cardinality(sent') = Cardinality(sent) + 1
    BY <1>6, <2>1, Added DEF Counted
  <2> QED
    BY <1>1, <1>2, <1>3, <1>4, <2>1, <2>2, CountedTypes DEF CallsCounted, CallsAccount, Counted
<1> QED
  BY <1>5, <1>6

LEMMA TakeKeepsCalls ==
    ASSUME PathInv, Counted, CallsAccount, NEW r \in Requests, TakeCall(r) \/ TakeNamed(r)
    PROVE  CallsCounted'
<1>1. /\ UNCHANGED <<sent, repeats, imported, jobStatus, jobAsset>>
      /\ serving = Nobody /\ serving' = r
  BY DEF TakeCall, TakeNamed, Arrives, pluginSide, jobVars
<1>2. PICK c \in InFlight : InFlight' \subseteq InFlight \ {c}
  BY TakenLeavesFlight
<1>3. /\ IsFiniteSet(InFlight') /\ Cardinality(InFlight') \in Nat
      /\ Cardinality(InFlight') + 1 <= Cardinality(InFlight)
  BY <1>2, OneFewer DEF Counted
<1>4. Known' = Known
  BY <1>1 DEF Known
<1>5. CASE ImportBegin
  <2>1. Wasted' \subseteq Wasted \cup {asset'} /\ asset' \in Wasted'
    BY <1>1, <1>5, BegunIsWasted, NewIsWasted
  <2>2. /\ IsFiniteSet(Wasted') /\ Cardinality(Wasted') \in Nat
        /\ Cardinality(Wasted') <= Cardinality(Wasted) + 1
    BY <2>1, OneMore DEF Counted
  <2>3. Spare' = 0
    BY <2>1 DEF Spare
  <2> QED
    BY <1>1, <1>3, <1>4, <2>2, <2>3, CountedTypes DEF CallsCounted, CallsAccount, Counted
<1>6. CASE asset' \in assetRows \cup {NoAsset} /\ files' = files
  <2>1. \A a \in Assets : a = asset' => files[a] # {}
    BY <1>6, PathAssumption DEF PathInv, DiskInv, StoredIsOnDisk, Named
  <2>2. Wasted' \subseteq Wasted
    BY <1>1, <1>6, <2>1 DEF Wasted, IsNamed
  <2>3. /\ IsFiniteSet(Wasted') /\ Cardinality(Wasted') \in Nat
        /\ Cardinality(Wasted') <= Cardinality(Wasted)
    BY <2>2, NoMore DEF Counted
  <2>4. PICK n \in {0, 1} : n = Spare'
    BY DEF Spare
  <2>5. Cardinality(Wasted') + Cardinality(InFlight') + Cardinality(Known) + n
          <= Cardinality(sent) + repeats + Cardinality(imported)
    BY <1>3, <2>3, <2>4, CountedTypes DEF CallsAccount
  <2> QED
    BY <1>1, <1>3, <1>4, <2>3, <2>4, <2>5 DEF CallsCounted, CallsAccount, Counted
<1> QED
  BY <1>5, <1>6 DEF TakeCall, TakeNamed

LEMMA ImporterKeepsCalls ==
    ASSUME PathInv, Counted, CallsAccount, NEW i \in Importers, TakeImport(i)
    PROVE  CallsCounted'
<1>1. /\ UNCHANGED <<sent, repeats, calls, jobStatus, jobAsset>> /\ ImportBegin
      /\ i \notin imported /\ imported' = imported \cup {i} /\ serving' = i
  BY DEF TakeImport, pluginSide, jobVars
<1>2. Known' = Known /\ InFlight' = InFlight
  BY <1>1 DEF Known, InFlight
<1>3. Wasted' \subseteq Wasted \cup {asset'}
  BY <1>1, BegunIsWasted
<1>4. /\ IsFiniteSet(Wasted') /\ Cardinality(Wasted') \in Nat
      /\ Cardinality(Wasted') <= Cardinality(Wasted) + 1
  BY <1>3, OneMore DEF Counted
<1>5. IsFiniteSet(imported') /\ Cardinality(imported') = Cardinality(imported) + 1
  BY <1>1, Added DEF Counted
<1>6. Spare' = 0
  BY <1>1, PathAssumption DEF Spare
<1> QED
  BY <1>1, <1>2, <1>4, <1>5, <1>6, CountedTypes DEF CallsCounted, CallsAccount, Counted

\* A call that ends leaves what its import wrote, if anything.
LEMMA ImportKeepsCalls ==
    ASSUME PathInv, Counted, CallsAccount, ImportGoesOn \/ ImportIsOver \/ RefuseForm \/ BridgeDies
    PROVE  CallsCounted'
<1>1. UNCHANGED <<sent, repeats, imported, jobStatus, jobAsset, asset>>
  BY DEF ImportGoesOn, ImportIsOver, RefuseForm, BridgeDies, pluginSide, jobVars, CopyOriginal,
         Analyze, AnalyzeFails, Normalize, WriteManifest, SaveImportedAsset, ImportLost, Write,
         StepTo, importVars
<1>2. files' = files \/ \E kind, next : Write(kind, next)
  BY DEF ImportGoesOn, ImportIsOver, RefuseForm, BridgeDies, CopyOriginal, Analyze, AnalyzeFails,
         Normalize, WriteManifest, SaveImportedAsset, ImportLost, StepTo, importVars
<1>3. Wasted' \subseteq Wasted
  BY <1>1, <1>2, WastedStays
<1>4. Known' = Known
  BY <1>1 DEF Known
<1>5. InFlight' \subseteq InFlight
  <2>1. calls' = calls \/ calls' = [r \in Requests |-> 0]
    BY DEF ImportGoesOn, ImportIsOver, RefuseForm, BridgeDies
  <2> QED
    BY <2>1 DEF InFlight
<1>6. Spare' = 0 \/ Spare' = Spare
  <2>1. CASE serving' = Nobody
    BY <2>1, PathAssumption DEF Spare
  <2>2. CASE serving' = serving
    <3>1. asset \in Wasted => asset \in Wasted'
      BY <1>1 DEF Wasted, IsNamed
    <3> QED
      BY <1>1, <1>3, <2>2, <3>1 DEF Spare
  <2> QED
    BY <2>1, <2>2 DEF ImportGoesOn, ImportIsOver, RefuseForm, BridgeDies, Refuse, Answer
<1> QED
  BY <1>1, <1>3, <1>4, <1>5, <1>6, CallsStay DEF CallsCounted

LEMMA CreateKeepsCalls ==
    ASSUME PathInv, JoblessIsUnnamed, Counted, CallsAccount, CreateJob
    PROVE  CallsCounted'
<1>1. UNCHANGED <<sent, repeats, imported, calls, asset, files>> /\ serving' = Nobody
  BY DEF CreateJob, Answer, pluginSide, importVars
<1>2. InFlight' = InFlight /\ Spare' = 0
  BY <1>1, PathAssumption DEF InFlight, Spare
<1>3. CASE jobStatus[serving] # "none"
  <2>1. UNCHANGED <<jobStatus, jobAsset>>
    BY <1>3 DEF CreateJob
  <2>2. Wasted' = Wasted /\ Known' = Known
    BY <1>1, <2>1 DEF Wasted, IsNamed, Known
  <2> QED
    BY <1>1, <1>2, <2>2, CallsStay DEF CallsCounted
<1>4. CASE jobStatus[serving] = "none"
  <2>1. /\ Wasted' \subseteq Wasted \ {asset}
        /\ serving \in Requests /\ serving \notin Known /\ Known' = Known \cup {serving}
    BY <1>4, CreateUsesAsset
  <2>2. IsFiniteSet(Known') /\ Cardinality(Known') = Cardinality(Known) + 1
    BY <2>1, Added DEF Counted
  <2>3. CASE asset \in Wasted
    <3>1. /\ IsFiniteSet(Wasted') /\ Cardinality(Wasted') \in Nat
          /\ Cardinality(Wasted') + 1 <= Cardinality(Wasted)
      BY <2>1, <2>3, OneFewer DEF Counted
    <3> QED
      BY <1>1, <1>2, <2>2, <3>1, CountedTypes DEF CallsCounted, CallsAccount, Counted
  <2>4. CASE asset \notin Wasted
    <3>1. Wasted' \subseteq Wasted
      BY <2>1
    <3>2. /\ IsFiniteSet(Wasted') /\ Cardinality(Wasted') \in Nat
          /\ Cardinality(Wasted') <= Cardinality(Wasted)
      BY <3>1, NoMore DEF Counted
    <3>3. Spare = 1
      BY <2>1, <2>4 DEF Spare
    <3> QED
      BY <1>1, <1>2, <2>2, <3>2, <3>3, CountedTypes DEF CallsCounted, CallsAccount, Counted
  <2> QED
    BY <2>3, <2>4
<1> QED
  BY <1>3, <1>4

LEMMA CallsNext ==
    ASSUME PathInv, JoblessIsUnnamed, Counted, CallsAccount, [Next]_vars
    PROVE  CallsCounted'
BY PluginKeepsCalls, CallKeepsCalls, TakeKeepsCalls, ImporterKeepsCalls, ImportKeepsCalls,
   CreateKeepsCalls DEF Next

-----------------------------------------------------------------------------
(* Requests that have no job *)

\* Steps that leave nobody unheard.
LEMMA UnmetStays ==
    ASSUME PathInv, Counted, UnmetAccount, Unmet' \subseteq Unmet, Errors' \subseteq Errors,
           \/ faults' = faults /\ refusals' = refusals
           \/ faults' = faults + 1 /\ refusals' = refusals
    PROVE  UnmetAccount' /\ IsFiniteSet(Errors')
<1>1. Cardinality(Unmet') <= Cardinality(Unmet) /\ Cardinality(Unmet') \in Nat
  BY NoMore, CountedTypes
<1>2. /\ Cardinality(Errors') <= Cardinality(Errors) /\ Cardinality(Errors') \in Nat
      /\ IsFiniteSet(Errors')
  BY NoMore DEF Counted
<1> QED
  BY <1>1, <1>2, CountedTypes DEF UnmetAccount

\* Steps that cost a fault, and may leave somebody unheard.
LEMMA UnmetGrows ==
    ASSUME PathInv, Counted, UnmetAccount, NEW x, Unmet' \subseteq Unmet \cup {x},
           Errors' \subseteq Errors, faults' = faults + 1 /\ refusals' = refusals
    PROVE  UnmetAccount' /\ IsFiniteSet(Errors')
<1>1. Cardinality(Unmet') <= Cardinality(Unmet) + 1 /\ Cardinality(Unmet') \in Nat
  BY OneMore, CountedTypes
<1>2. /\ Cardinality(Errors') <= Cardinality(Errors) /\ Cardinality(Errors') \in Nat
      /\ IsFiniteSet(Errors')
  BY NoMore DEF Counted
<1> QED
  BY <1>1, <1>2, CountedTypes DEF UnmetAccount

\* Steps that refuse a call.
LEMMA ErrorsGrow ==
    ASSUME PathInv, Counted, UnmetAccount, NEW x, Unmet' \subseteq Unmet,
           Errors' \subseteq Errors \cup {x}, faults' = faults /\ refusals' = refusals + 1
    PROVE  UnmetAccount' /\ IsFiniteSet(Errors')
<1>1. Cardinality(Unmet') <= Cardinality(Unmet) /\ Cardinality(Unmet') \in Nat
  BY NoMore, CountedTypes
<1>2. /\ Cardinality(Errors') <= Cardinality(Errors) + 1 /\ Cardinality(Errors') \in Nat
      /\ IsFiniteSet(Errors')
  BY OneMore DEF Counted
<1> QED
  BY <1>1, <1>2, CountedTypes DEF UnmetAccount

UnmetCounted == UnmetAccount /\ IsFiniteSet(Errors)

LEMMA PluginKeepsUnmet ==
    ASSUME PathInv, Counted, UnmetAccount,
           \/ \E s \in Submissions : Submit(s)
           \/ Opens \/ Saved \/ Unsaved \/ CallBridge \/ LoseAnswer \/ ReconcileJobs
           \/ PluginDies \/ PluginStarts \/ UNCHANGED vars
    PROVE  UnmetCounted'
<1>1. UNCHANGED <<jobStatus, refusals>> /\ replies' \subseteq replies
  BY DEF Submit, Opens, Saved, Unsaved, CallBridge, LoseAnswer, ReconcileJobs, PluginDies,
         PluginStarts, bridgeSide, jobVars, vars, pathVars
<1>2. Known' = Known /\ Errors' \subseteq Errors
  BY <1>1 DEF Known, Errors
<1>3. CASE (\E s \in Submissions : Submit(s)) \/ Opens \/ Saved \/ ReconcileJobs \/ PluginStarts
           \/ Unsaved
  <2>1. sent' = sent /\ plugin # "waits" /\ plugin' # "waits"
    BY <1>3 DEF Submit, Opens, Saved, ReconcileJobs, PluginStarts, Unsaved, Saving
  <2>2. faults' = faults \/ faults' = faults + 1
    BY <1>3 DEF Submit, Opens, Saved, ReconcileJobs, PluginStarts, Unsaved, Fault
  <2>3. Unmet' = Unmet
    BY <1>2, <2>1 DEF Unmet, Expected
  <2> QED
    BY <1>1, <1>2, <2>2, <2>3, UnmetStays DEF UnmetCounted
<1>4. CASE UNCHANGED vars
  <2>1. UNCHANGED <<sent, plugin, faults, sub, mem>>
    BY <1>4 DEF vars, pathVars, sessionVars
  <2>2. Unmet' = Unmet
    BY <1>2, <2>1 DEF Unmet, Expected, RequestOf
  <2> QED
    BY <1>1, <1>2, <2>1, <2>2, UnmetStays DEF UnmetCounted
<1>5. CASE CallBridge
  <2>1. /\ sent' = sent \cup {RequestOf(sub)} /\ plugin # "waits" /\ plugin' = "waits"
        /\ UNCHANGED <<sub, mem, faults>>
    BY <1>5 DEF CallBridge, sessionVars
  <2>2. Expected = {} /\ Expected' = {RequestOf(sub)}
    BY <2>1 DEF Expected, RequestOf
  <2>3. Unmet' \subseteq Unmet
    BY <1>2, <2>1, <2>2 DEF Unmet
  <2> QED
    BY <1>1, <1>2, <2>1, <2>3, UnmetStays DEF UnmetCounted
<1>6. CASE LoseAnswer \/ PluginDies
  <2>1. sent' = sent /\ plugin' # "waits" /\ faults' = faults + 1
    BY <1>6 DEF LoseAnswer, PluginDies, Fault
  <2>2. Unmet' \subseteq Unmet \cup {RequestOf(sub)}
    BY <1>2, <2>1 DEF Unmet, Expected
  <2> QED
    BY <1>1, <1>2, <2>1, <2>2, UnmetGrows DEF UnmetCounted
<1> QED
  BY <1>3, <1>4, <1>5, <1>6

\* Who is told of a job has one, and who is told of an error is not heard any more.
LEMMA ReceiveKeepsUnmet ==
    ASSUME PathInv, Counted, UnmetAccount, Receive
    PROVE  UnmetCounted'
<1>1. /\ UNCHANGED <<jobStatus, refusals, sent, faults>>
      /\ plugin = "waits" /\ plugin' # "waits"
  BY DEF Receive, bridgeSide, jobVars
<1>2. Known' = Known /\ Expected' = {} /\ Expected = {RequestOf(sub)}
  BY <1>1 DEF Known, Expected
<1>3. PICK outcome \in {"job", "error"} :
         /\ <<RequestOf(sub), outcome>> \in replies
         /\ replies' = replies \ {<<RequestOf(sub), outcome>>}
  BY DEF Receive
<1>4. RequestOf(sub) \in Requests
  BY <1>3 DEF PathInv, PathTypeInv, PathTypeOK
<1>5. CASE outcome = "job"
  <2>1. RequestOf(sub) \in Known
    BY <1>3, <1>4, <1>5 DEF PathInv, RequestInv, ToldOfJobs, Known
  <2>2. Unmet' = Unmet
    BY <1>1, <1>2, <2>1 DEF Unmet
  <2>3. Errors' \subseteq Errors
    BY <1>3 DEF Errors
  <2> QED
    BY <1>1, <2>2, <2>3, UnmetStays DEF UnmetCounted
<1>6. CASE outcome = "error"
  <2>1. RequestOf(sub) \in Errors /\ Errors' \subseteq Errors \ {RequestOf(sub)}
    BY <1>3, <1>4, <1>6 DEF Errors
  <2>2. Unmet' \subseteq Unmet \cup {RequestOf(sub)}
    BY <1>1, <1>2 DEF Unmet
  <2>3. /\ IsFiniteSet(Errors') /\ Cardinality(Errors') \in Nat
        /\ Cardinality(Errors') + 1 <= Cardinality(Errors)
    BY <2>1, OneFewer DEF Counted
  <2>4. Cardinality(Unmet') <= Cardinality(Unmet) + 1 /\ Cardinality(Unmet') \in Nat
    BY <2>2, OneMore, CountedTypes
  <2> QED
    BY <1>1, <2>3, <2>4, CountedTypes DEF UnmetCounted, UnmetAccount
<1> QED
  BY <1>5, <1>6

LEMMA BridgeKeepsUnmet ==
    ASSUME PathInv, Counted, UnmetAccount, BridgeStep
    PROVE  UnmetCounted'
<1>0. UNCHANGED <<sent, sub, mem>> /\ \A i \in Importers : i \notin Requests
  BY BridgeLeavesSession, PathAssumption
<1>1. CASE BridgeDies
  <2>1. /\ UNCHANGED <<jobStatus, refusals>> /\ faults' = faults + 1 /\ replies' = {}
        /\ plugin' # "waits"
    BY <1>1 DEF BridgeDies, Fault, jobVars
  <2>2. Known' = Known /\ Errors' \subseteq Errors
    BY <2>1 DEF Known, Errors
  <2>3. Unmet' \subseteq Unmet \cup {RequestOf(sub)}
    BY <1>0, <2>1, <2>2 DEF Unmet, Expected
  <2> QED
    BY <2>1, <2>2, <2>3, UnmetGrows DEF UnmetCounted
<1>2. CASE Refuse /\ UNCHANGED <<plugin, jobStatus, faults>>
  <2>1. refusals' = refusals + 1 /\ Errors' \subseteq Errors \cup {serving}
    BY <1>2 DEF Refuse, Answer, Errors
  <2>2. Unmet' = Unmet
    BY <1>0, <1>2 DEF Unmet, Known, Expected, RequestOf
  <2> QED
    BY <1>2, <2>1, <2>2, ErrorsGrow DEF UnmetCounted
<1>3. CASE /\ UNCHANGED <<plugin, faults, refusals>>
           /\ \A r \in Requests : jobStatus[r] # "none" => jobStatus'[r] # "none"
           /\ replies' = replies \/ Answer("job")
  <2>1. Known \subseteq Known'
    BY <1>3 DEF Known
  <2>2. Errors' \subseteq Errors
    BY <1>3 DEF Errors, Answer
  <2>3. Unmet' \subseteq Unmet
    BY <1>0, <1>3, <2>1 DEF Unmet, Expected, RequestOf
  <2> QED
    BY <1>3, <2>2, <2>3, UnmetStays DEF UnmetCounted
<1>4. \/ BridgeDies
      \/ Refuse /\ UNCHANGED <<plugin, jobStatus, faults>>
      \/ /\ UNCHANGED <<plugin, faults, refusals>> /\ (replies' = replies \/ Answer("job"))
         /\ jobStatus' = jobStatus \/ CreateJob \/ \E r \in Requests : JobMoves(r)
  BY DEF BridgeStep, TakeCall, TakeNamed, Arrives, AskCancel, JobMoves, TakeImport, ImportGoesOn,
         ImportIsOver, RefuseForm, CreateJob, pluginSide, jobVars
<1>5. CreateJob \/ (\E r \in Requests : JobMoves(r)) =>
         \A r \in Requests : jobStatus[r] # "none" => jobStatus'[r] # "none"
  BY DEF CreateJob, JobMoves, PathInv, PathTypeInv, PathTypeOK
<1>6. CASE /\ UNCHANGED <<plugin, faults, refusals>> /\ (replies' = replies \/ Answer("job"))
           /\ jobStatus' = jobStatus \/ CreateJob \/ \E r \in Requests : JobMoves(r)
  <2>1. \A r \in Requests : jobStatus[r] # "none" => jobStatus'[r] # "none"
    BY <1>5, <1>6
  <2> QED
    BY <1>3, <1>6, <2>1
<1> QED
  BY <1>1, <1>2, <1>4, <1>6

LEMMA AwaitedNext ==
    ASSUME PathInv, Awaited, [Next]_vars
    PROVE  Awaited'
<1>0. /\ calls \in [Requests -> Nat] /\ jobStatus \in [Requests -> JobStatuses]
      /\ \A i \in Importers : i \notin Requests
  BY PathAssumption DEF PathInv, PathTypeInv, PathTypeOK
<1> SUFFICES ASSUME plugin' = "waits", NEW r \in Expected', r \notin Known'
             PROVE  (calls[r] > 0)' \/ serving' = r \/ r \in Errors'
  BY DEF Awaited, Expected
<1>1. CASE CallBridge
  <2>1. r = RequestOf(sub) /\ calls' = [calls EXCEPT ![RequestOf(sub)] = calls[RequestOf(sub)] + 1]
    BY <1>1 DEF CallBridge, Expected, RequestOf, sessionVars
  <2>2. r \in Requests
    BY <1>1, <2>1 DEF CallBridge, PathInv, SessionInv, IdTaken, RequestOf, Requests, PathTypeInv,
                      PathTypeOK, SessionTypeOK, Entries, Entry
  <2>3. calls'[r] = calls[r] + 1 /\ calls[r] \in Nat
    BY <1>0, <2>1, <2>2
  <2> QED
    BY <2>3
<1>2. CASE \/ \E s \in Submissions : Submit(s)
           \/ Opens \/ Saved \/ Unsaved \/ Receive \/ LoseAnswer \/ ReconcileJobs
           \/ PluginDies \/ PluginStarts \/ BridgeDies
  BY <1>2 DEF Submit, Opens, Saved, Unsaved, Receive, LoseAnswer, ReconcileJobs, PluginDies,
              PluginStarts, BridgeDies, Saving
<1>3. CASE (BridgeStep /\ ~BridgeDies) \/ UNCHANGED vars
  <2>1. UNCHANGED <<sub, mem>> /\ plugin = "waits"
    BY <1>3, BridgeLeavesSession DEF vars, sessionVars, pathVars
  <2>2. r \in Expected /\ r = RequestOf(sub)
    BY <2>1 DEF Expected, RequestOf
  <2>3. \A q \in Requests : jobStatus[q] # "none" => jobStatus'[q] # "none"
    BY <1>0, <1>3 DEF BridgeStep, TakeCall, TakeNamed, Arrives, AskCancel, JobMoves, TakeImport,
                      ImportGoesOn, ImportIsOver, RefuseForm, CreateJob, jobVars, vars, pathVars
  <2>4. r \notin Known
    BY <2>3 DEF Known
  <2>5. calls[r] > 0 \/ serving = r \/ r \in Errors
    BY <2>2, <2>4 DEF Awaited
  <2>6. r \in Requests
    BY <2>1, <2>2 DEF PathInv, SessionInv, IdTaken, RequestOf, Requests, PathTypeInv,
                      PathTypeOK, SessionTypeOK, Entries, Entry
  <2>7. CASE \E q \in Requests : TakeCall(q) \/ TakeNamed(q)
    <3>1. PICK q \in Requests : /\ calls' = [calls EXCEPT ![q] = @ - 1] /\ serving' = q
                                /\ serving = Nobody /\ replies' = replies
      BY <2>7 DEF TakeCall, TakeNamed, Arrives
    <3>2. serving # r /\ Errors' = Errors
      BY <2>6, <3>1, PathAssumption DEF Errors
    <3> QED
      BY <1>0, <2>5, <2>6, <3>1, <3>2
  <2>8. CASE (\E i \in Importers : TakeImport(i))
    <3>1. UNCHANGED <<calls, replies>> /\ serving = Nobody
      BY <2>8 DEF TakeImport
    <3> QED
      BY <2>5, <2>6, <3>1, PathAssumption DEF Errors
  <2>9. CASE ImportGoesOn \/ (\E q \in Requests : AskCancel(q) \/ JobMoves(q)) \/ UNCHANGED vars
    <3>1. UNCHANGED <<calls, replies, serving>>
      BY <2>9 DEF ImportGoesOn, AskCancel, JobMoves, vars, pathVars
    <3> QED
      BY <2>5, <3>1 DEF Errors
  <2>10. CASE ImportIsOver \/ RefuseForm
    <3>1. calls' = calls /\ (Answer("error") \/ (Answer("job") /\ serving \in Importers))
      BY <2>10 DEF ImportIsOver, RefuseForm, Refuse
    <3>2. Errors \subseteq Errors' /\ (serving = r => r \in Errors')
      BY <1>0, <2>6, <3>1 DEF Answer, Errors
    <3> QED
      BY <2>5, <3>1, <3>2
  <2>11. CASE CreateJob
    <3>1. /\ calls' = calls /\ Answer("job")
          /\ \/ jobStatus' = [jobStatus EXCEPT ![serving] = "open"]
             \/ jobStatus' = jobStatus /\ jobStatus[serving] # "none"
      BY <2>11 DEF CreateJob
    <3>2. serving = r => r \in Known'
      BY <1>0, <2>6, <3>1 DEF Known
    <3>3. Errors \subseteq Errors'
      BY <3>1 DEF Answer, Errors
    <3> QED
      BY <2>5, <3>1, <3>2, <3>3
  <2> QED
    BY <1>3, <2>7, <2>8, <2>9, <2>10, <2>11 DEF BridgeStep
<1> QED
  BY <1>1, <1>2, <1>3 DEF Next, BridgeStep

-----------------------------------------------------------------------------

LEMMA AccountInit == Init => JoblessIsUnnamed /\ Awaited /\ Account
<1> SUFFICES ASSUME Init PROVE JoblessIsUnnamed /\ Awaited /\ Account
  OBVIOUS
<1>1. JoblessIsUnnamed /\ Awaited
  BY DEF Init, JoblessIsUnnamed, Awaited, Expected
<1>2. InFlight = {}
  BY DEF Init, InFlight
<1>3. Wasted = {}
  BY PathAssumption DEF Init, ImportInit, Wasted
<1>4. Known = {} /\ Errors = {} /\ Unmet = {} /\ sent = {} /\ imported = {}
  BY DEF Init, Known, Errors, Unmet
<1>5. Spare = 0 /\ repeats = 0 /\ faults = 0 /\ refusals = 0
  BY PathAssumption DEF Init, Spare
<1>6. IsFiniteSet({}) /\ Cardinality({}) = 0
  BY FS_EmptySet
<1> QED
  BY <1>1, <1>2, <1>3, <1>4, <1>5, <1>6 DEF Account, Counted, CallsAccount, UnmetAccount

\* Every call and every import is accounted for: it brought an asset at most, and a request
\* that has no job and that nobody waits for has had a fault or an error.
THEOREM AccountInvariant == Spec => [](JoblessIsUnnamed /\ Awaited /\ Account)
<1>1. ASSUME PathInv, JoblessIsUnnamed, Awaited, Account, [Next]_vars
      PROVE  JoblessIsUnnamed' /\ Awaited' /\ Account'
  <2>1. JoblessIsUnnamed' /\ Awaited'
    BY <1>1, JoblessNext, AwaitedNext
  <2>2. CallsCounted'
    BY <1>1, CallsNext DEF Account
  <2>3. UnmetCounted'
    <3>1. CASE \E r \in Requests : AskCancel(r) \/ JobMoves(r)
      BY <1>1, <3>1, BridgeKeepsUnmet DEF Account, BridgeStep
    <3> QED
      BY <1>1, <3>1, PluginKeepsUnmet, ReceiveKeepsUnmet, BridgeKeepsUnmet
      DEF Account, Next, BridgeStep
  <2> QED
    BY <2>1, <2>2, <2>3 DEF Account, Counted, CallsCounted, UnmetCounted
<1> QED
  BY <1>1, AccountInit, PathInvariant, PTL DEF Spec

\* An asset that no job names and no call is at work on has a call made again, a call that was
\* refused, a fault, or an import of its own to explain it (post_jobs_audio imports before it
\* looks for the request id).
THEOREM OrphansHaveReasons == Spec => []OrphansAreExplained
<1>1. ASSUME PathInv, Awaited, Account
      PROVE  Cardinality(Orphans) <= repeats + refusals + faults + Cardinality(imported)
  <2>0. Counted /\ CallsAccount /\ UnmetAccount
    BY <1>1 DEF Account
  <2>1. /\ Cardinality(Wasted) \in Nat /\ Cardinality(InFlight) \in Nat
        /\ Cardinality(Known) \in Nat /\ Cardinality(sent) \in Nat
        /\ Cardinality(imported) \in Nat /\ Cardinality(Errors) \in Nat
        /\ repeats \in Nat /\ faults \in Nat /\ refusals \in Nat /\ Spare \in {0, 1}
        /\ IsFiniteSet(Unmet) /\ Cardinality(Unmet) \in Nat
    BY <1>1, <2>0, CountedTypes
  <2>2. /\ Orphans \subseteq Wasted
        /\ serving # Nobody => Orphans \subseteq Wasted \ {asset}
    BY DEF Orphans, Wasted, IsNamed
  <2>3. Cardinality(Orphans) \in Nat /\ Cardinality(Orphans) <= Cardinality(Wasted)
    BY <2>0, <2>2, NoMore DEF Counted
  <2>4. /\ IsFiniteSet(Known \cup Unmet)
        /\ Cardinality(Known \cup Unmet) <= Cardinality(Known) + Cardinality(Unmet)
        /\ Cardinality(Known \cup Unmet) \in Nat
    <3>1. IsFiniteSet(Known)
      BY <2>0 DEF Counted
    <3>2. /\ IsFiniteSet(Known \cup Unmet) /\ IsFiniteSet(Known \cap Unmet)
          /\ Cardinality(Known \cup Unmet)
               = Cardinality(Known) + Cardinality(Unmet) - Cardinality(Known \cap Unmet)
      BY <2>1, <3>1, FS_Union, FS_Intersection
    <3>3. Cardinality(Known \cap Unmet) \in Nat /\ Cardinality(Known \cup Unmet) \in Nat
      BY <3>2, FS_CardinalityType
    <3> QED
      BY <2>1, <3>2, <3>3
  <2>5. /\ Cardinality(Wasted) + Cardinality(InFlight) + Cardinality(Known) + Spare
             <= Cardinality(sent) + repeats + Cardinality(imported)
        /\ Cardinality(Unmet) + Cardinality(Errors) <= faults + refusals
    BY <2>0 DEF CallsAccount, UnmetAccount
  <2>6. CASE Expected \subseteq Known
    <3>1. sent \subseteq Known \cup Unmet
      BY <2>6 DEF Unmet
    <3>2. Cardinality(sent) <= Cardinality(Known \cup Unmet)
      BY <2>4, <3>1, NoMore
    <3> QED
      BY <2>1, <2>3, <2>4, <2>5, <3>2
  <2>7. ASSUME NEW r \in Expected \ Known
        PROVE  Cardinality(Orphans) <= repeats + refusals + faults + Cardinality(imported)
    <3>1. Expected = {r}
      BY <2>7 DEF Expected
    <3>2. sent \subseteq (Known \cup Unmet) \cup {r}
      BY <3>1 DEF Unmet
    <3>3. Cardinality(sent) <= Cardinality(Known \cup Unmet) + 1
      BY <2>4, <3>2, OneMore
    <3>4. calls[r] > 0 \/ serving = r \/ r \in Errors
      BY <1>1, <2>7 DEF Awaited
    <3>5. r \in Requests
      BY <1>1, <3>1 DEF Expected, PathInv, SessionInv, IdTaken, RequestOf, Requests, PathTypeInv,
                        PathTypeOK, SessionTypeOK, Entries, Entry
    <3>6. CASE calls[r] > 0
      <4>1. calls[r] \in Nat
        BY <1>1, <3>5 DEF PathInv, PathTypeInv, PathTypeOK
      <4>2. <<r, calls[r]>> \in InFlight
        BY <3>5, <3>6, <4>1 DEF InFlight
      <4>3. Cardinality(InFlight) # 0
        BY <2>0, <4>2, FS_EmptySet DEF Counted
      <4>4. Cardinality(InFlight) >= 1
        BY <2>1, <4>3
      <4> QED
        BY <2>1, <2>3, <2>4, <2>5, <3>3, <4>4
    <3>7. CASE r \in Errors
      <4>1. Cardinality(Errors) # 0
        BY <2>0, <3>7, FS_EmptySet DEF Counted
      <4>2. Cardinality(Errors) >= 1
        BY <2>1, <4>1
      <4> QED
        BY <2>1, <2>3, <2>4, <2>5, <3>3, <4>2
    <3>8. CASE serving = r
      <4>1. CASE asset \in Wasted
        <5>1. Orphans \subseteq Wasted \ {asset}
          BY <2>2, <3>5, <3>8, PathAssumption
        <5>2. Cardinality(Orphans) + 1 <= Cardinality(Wasted)
          BY <2>0, <4>1, <5>1, OneFewer DEF Counted
        <5> QED
          BY <2>1, <2>3, <2>4, <2>5, <3>3, <5>2
      <4>2. CASE asset \notin Wasted
        <5>1. Spare = 1
          BY <3>5, <3>8, <4>2 DEF Spare
        <5> QED
          BY <2>1, <2>3, <2>4, <2>5, <3>3, <5>1
      <4> QED
        BY <4>1, <4>2
    <3> QED
      BY <3>4, <3>6, <3>7, <3>8
  <2> QED
    BY <2>6, <2>7
<1>2. PathInv /\ Awaited /\ Account => OrphansAreExplained
  BY <1>1 DEF OrphansAreExplained
<1> QED
  BY <1>2, PathInvariant, AccountInvariant, PTL

==============================================================================
