------------------------ MODULE MCRecordingWorkflow ------------------------
(* Small instances of RecordingWorkflow for TLC. *)
EXTENDS RecordingWorkflow

AnyOutcome == Verdict

AllFaults == {"mediaFails", "dbFails", "noSpeech", "s3Fails", "crash"}
=============================================================================
