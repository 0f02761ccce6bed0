------------------------------ MODULE JobStates ------------------------------
(***************************************************************************)
(* The life of a bridge job: its statuses (bridge/models.py) and the table *)
(* of transitions that the storage accepts (storage/durable_storage.py).   *)
(***************************************************************************)

JobStatus ==
    {"created", "queued_local", "submitting_remote", "polling_remote",
     "downloading", "awaiting_manual_provider_submission",
     "awaiting_manual_provider_result", "importing_provider_result",
     "complete", "failed", "cancelling", "cancelled"}

TerminalStates == {"complete", "failed", "cancelled"}

\* What recovery after a restart looks for.
InFlightStates ==
    {"created", "queued_local", "submitting_remote", "polling_remote",
     "downloading", "awaiting_manual_provider_submission",
     "awaiting_manual_provider_result", "importing_provider_result", "cancelling"}

AllowedTransitions ==
    UNION {
        {"created"} \X {"queued_local", "awaiting_manual_provider_submission"},
        {"queued_local"} \X
            {"submitting_remote", "awaiting_manual_provider_submission"},
        {"submitting_remote"} \X {"polling_remote"},
        {"polling_remote"} \X {"downloading"},
        {"downloading"} \X {"complete"},
        {"awaiting_manual_provider_submission"} \X
            {"awaiting_manual_provider_result"},
        {"awaiting_manual_provider_result"} \X {"importing_provider_result"},
        {"importing_provider_result"} \X {"complete", "failed", "cancelled"},
        {"cancelling"} \X {"cancelled", "failed"},
        {"created", "queued_local", "submitting_remote", "polling_remote",
         "downloading", "awaiting_manual_provider_submission",
         "awaiting_manual_provider_result"} \X
            {"cancelling", "cancelled", "failed"}}

\* The check of set_job_status: writing the current status again is accepted.
ValidTransition(from, to) == from = to \/ <<from, to>> \in AllowedTransitions

==============================================================================
