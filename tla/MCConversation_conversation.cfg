SPECIFICATION Spec
CONSTANTS
  Utterances <- SmallUtterances
  MaxUtterances = 4
  Answers <- SmallAnswers
  MaxGap = 1
  MaxChars = 6
  EarlyTurns = 2
  RolePrompt <- SmallRolePrompt
  ClassPrompt <- SmallClassPrompt
CHECK_DEADLOCK FALSE
INVARIANT EveryWordOnce
INVARIANT TurnsAreMaximal
INVARIANT RolesFollowSpeakers
INVARIANT PromptsAreLongest
INVARIANT VerdictIsFounded
