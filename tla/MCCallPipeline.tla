--------------------------- MODULE MCCallPipeline ---------------------------
(* Two handlers and a job of three attempts, on one call. *)
EXTENDS CallPipeline

ApiFaults == {"noAnswer", "crash", "dbFails"}
WorkerFaults == {"mediaFails", "dbFails", "s3Fails", "noSpeech", "crash"}
AnyOutcome == [result : {"none", "known"}, department : {"none", "known"}]
=============================================================================
