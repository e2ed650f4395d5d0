---------------------------- MODULE MCReporting ----------------------------
(* Small instance of Reporting for TLC: an hour has two ticks and a day two hours. *)
EXTENDS Reporting, TLC

\* "utc"; "west", an hour behind, whose fourth day has an hour more; "half", half an hour
\* behind.
MCZone == {"utc", "west", "half"}
MCDayStart ==
    [z \in MCZone |-> [d \in 1..LAST_DAY + 1 |->
        CASE z = "utc" -> 4 * d
          [] z = "west" -> 4 * d + (IF d <= 4 THEN 2 ELSE 4)
          [] z = "half" -> 4 * d + 1]]

\* "week": three days.
MCGrouping == {"day", "week"}
MCFirstDay ==
    [g \in MCGrouping |-> [d \in Day |-> IF g = "day" THEN d ELSE d - ((d - 1) % 3)]]

\* Around the beginnings of days 3, 4 and 5.
MCMoment == {12, 16, 17, 18, 23, 24}

MCVerdict == {[department |-> "sales", result |-> "appointment_booked", sentiment |-> 5],
              [department |-> "service", result |-> "appointment_requested", sentiment |-> 1]}

Interchangeable == Permutations(Call)
=============================================================================
