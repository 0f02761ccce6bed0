---------------------------- MODULE PluginSession ----------------------------
(***************************************************************************)
(* plugin/session_state.py: what a plug-in remembers of its submissions,   *)
(* in memory and in a file.  Every change is made in memory first and then *)
(* saved; save rewrites the whole file in place, so a plug-in that dies in *)
(* the middle, or a write that fails, leaves text that load cannot parse.  *)
(***************************************************************************)
EXTENDS Integers

CONSTANTS
    Submissions,
    Torn,         \* the text of a file that was being written
    MaxIds,       \* bound on the request ids drawn
    MaxFaults     \* bound on crashes, lost answers and saves that fail

VARIABLES
    mem,          \* APVTSSessionState.submissions
    file,         \* what load would find: such a function, or Torn
    drawn,        \* ids drawn
    unsaved,      \* the save of a new id failed, and none has succeeded since
    losses        \* history: starts that did not find all that was remembered

sessionVars == <<mem, file, drawn, unsaved, losses>>

\* The n-th id, drawn after so many losses.
Ids == (0 .. MaxFaults) \X (1 .. MaxIds)
NoId == <<0, 0>>

Entry == [id : Ids \cup {NoId}, job : BOOLEAN, resolved : BOOLEAN]
Entries == [Submissions -> Entry]
NoEntries == [s \in Submissions |-> [id |-> NoId, job |-> FALSE, resolved |-> FALSE]]

SessionTypeOK ==
    /\ mem \in Entries
    /\ file \in Entries \cup {Torn}
    /\ drawn \in 0 .. MaxIds
    /\ unsaved \in BOOLEAN
    /\ losses \in 0 .. MaxFaults

SessionInit ==
    /\ mem = NoEntries /\ file = NoEntries
    /\ drawn = 0 /\ unsaved = FALSE /\ losses = 0

\* The dictionary changes; save comes next.
Remember(entries) == mem' = entries /\ UNCHANGED <<file, unsaved, losses>>

\* save opens the file, which empties it.
SaveOpens == file # Torn /\ file' = Torn /\ UNCHANGED <<mem, drawn, unsaved, losses>>

\* Mutant: only the submissions that have a job are written.
SaveJobs ==
    /\ file' = [s \in Submissions |-> IF mem[s].job THEN mem[s] ELSE NoEntries[s]]
    /\ unsaved' = FALSE
    /\ UNCHANGED <<mem, drawn, losses>>

\* save is through.
SaveEnd == file' = mem /\ unsaved' = FALSE /\ UNCHANGED <<mem, drawn, losses>>

\* save raises OSError, before or after it has opened the file: what it was to save
\* stays in memory, a new id among it or not.
SaveFails(new) == unsaved' = (unsaved \/ new) /\ UNCHANGED <<mem, file, drawn, losses>>

\* The new id of ensure_request_id.
DrawId(s) ==
    /\ drawn < MaxIds
    /\ drawn' = drawn + 1
    /\ Remember([mem EXCEPT ![s].id = <<losses, drawn + 1>>])

\* mark_job.
MarkJob(s) == Remember([mem EXCEPT ![s].job = TRUE]) /\ UNCHANGED drawn

\* Mutant: whatever is not open any more is resolved, a cancelled job included.
ResolvedIfNotOpen(status) ==
    [s \in Submissions |->
        IF mem[s].job /\ ~mem[s].resolved /\ status[s] # "open"
        THEN [mem[s] EXCEPT !.resolved = TRUE] ELSE mem[s]]

\* The entries after a reconciliation with the jobs' statuses.
Reconciled(status) ==
    [s \in Submissions |->
        IF mem[s].job /\ ~mem[s].resolved /\ status[s] = "over"
        THEN [mem[s] EXCEPT !.resolved = TRUE] ELSE mem[s]]

\* reconcile_unresolved: it saves if the bridge has any of the unresolved jobs,
\* even when nothing has changed.
Reconcile(status) ==
    /\ \E s \in Submissions : mem[s].job /\ ~mem[s].resolved /\ status[s] # "none"
    /\ Remember(Reconciled(status))
    /\ UNCHANGED drawn

\* The plug-in dies: what is in memory is lost.
Forget == mem' = NoEntries /\ UNCHANGED <<file, drawn, unsaved, losses>>

\* load in a new process.  Of a torn file it raises JSONDecodeError, and the dictionary
\* stays empty; nothing keeps the caller from going on with it.
Load ==
    /\ mem' = IF file = Torn THEN mem ELSE file
    /\ losses' = IF file = Torn \/ unsaved THEN losses + 1 ELSE losses
    /\ unsaved' = FALSE
    /\ UNCHANGED <<file, drawn>>

==============================================================================
