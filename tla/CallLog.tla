------------------------------ MODULE CallLog ------------------------------
(***************************************************************************)
(* One call_logs row and what the hourly tables have counted for it.  The  *)
(* rows of different calls, and their shares of an hourly bucket (which    *)
(* only ever adds), never touch each other, so one call is enough.         *)
(*                                                                         *)
(* CallLogsService reads a row, merges the caller's columns into what it   *)
(* read, and saves.  TypeORM's save() compares the merged entity with the  *)
(* row of that moment and writes every column that differs, which leaves   *)
(* the row equal to the merged entity.                                     *)
(***************************************************************************)
EXTENDS Naturals

CONSTANT NoLog

VARIABLES
    log,     \* the row, NoLog before it is inserted
    volume,  \* how often call_volume_hourly counted this call
    kpi      \* how often call_department_hourly_kpis counted it

Row == [status     : {"in-progress", "completed", "missed"},  \* missed: busy, failed, ...
        result     : {"none", "not_connected", "known"},
        department : {"none", "known"},
        scored     : BOOLEAN,    \* sentiment is not NULL
        url        : BOOLEAN,    \* recording_url
        key        : BOOLEAN,    \* recording_object_key
        text       : BOOLEAN]    \* transcript_text

ASSUME NoLogAssumption == NoLog \notin Row

LogTypeOK == log \in Row \cup {NoLog} /\ volume \in Nat /\ kpi \in Nat

\* Variant: a status the enum of the column does not have.
NewRowUnknown == [status |-> "started", result |-> "none", department |-> "none",
                  scored |-> FALSE, url |-> FALSE, key |-> FALSE, text |-> FALSE]

\* The row createBySid inserts when a call comes in.
NewRow == [status |-> "in-progress", result |-> "none", department |-> "none",
           scored |-> FALSE, url |-> FALSE, key |-> FALSE, text |-> FALSE]

\* updateBySid: the columns of patch over the entity that was read.
Merge(entity, patch) ==
    [c \in DOMAIN entity |-> IF c \in DOMAIN patch THEN patch[c] ELSE entity[c]]

=============================================================================
