--------------------------- MODULE MCCallWebhooks ---------------------------
(* Small instances of CallWebhooks for TLC. *)
EXTENDS CallWebhooks

AllFaults == {"resend", "noAnswer", "crash", "dbFails"}
OnlyResend == {"resend"}
=============================================================================
