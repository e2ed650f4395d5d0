--------------------------- MODULE MCConversation ---------------------------
(* A small instance of Conversation: four utterances, short limits. *)
EXTENDS Conversation

Say(s, from, to, n, opens, closes, cs) ==
    [speaker |-> s, start |-> from, end |-> to, size |-> n, opens |-> opens,
     closes |-> closes, cues |-> cs]

SmallUtterances == {
    Say("0", 0, 1, 2, FALSE, FALSE, {"greeting"}),
    Say("0", 0, 4, 1, FALSE, TRUE, {}),
    Say("1", 1, 2, 2, FALSE, FALSE, {"greeting", "Sales", "tradeIn"}),
    Say("1", 3, 4, 2, TRUE, FALSE, {"booked", "request", "Parts"}),
    Say("0", 3, NoTime, 1, FALSE, FALSE, {"cancel", "Service", "angry"}),
    Say("0", 4, 5, 3, FALSE, TRUE, {"booked", "pleased"}),
    Say("2", 2, 3, 1, FALSE, FALSE, {"transfer"}),
    Say("unknown", 4, 5, 6, FALSE, TRUE, {"finance", "credit"}),
    Say("1", NoTime, NoTime, 1, FALSE, FALSE, {"info"}),
    Say("1", 2, 3, 0, FALSE, FALSE, {})}

SmallAnswers == {
    [intent |-> "Finance", result |-> "FollowUp", department |-> "Sales", sentiment |-> 5],
    [intent |-> "None", result |-> "None", department |-> "None", sentiment |-> 3],
    [intent |-> "TradeIn", result |-> "AppointmentBooked", department |-> "Other",
     sentiment |-> 1],
    [intent |-> "Purchase", result |-> "Other", department |-> "?", sentiment |-> 7],
    [intent |-> "Purchase", result |-> "?", department |-> "Parts", sentiment |-> 4],
    [intent |-> "Purchase", result |-> "NotInterested", department |-> "Sales",
     sentiment |-> 4]}

SmallRolePrompt == [lines |-> 3, chars |-> 8, perLine |-> 2]
SmallClassPrompt == [lines |-> 3, chars |-> 10, perLine |-> 3]
=============================================================================
