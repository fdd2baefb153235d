SPECIFICATION FairSpec

CONSTANTS
  Conns = {c1, c2}
  Nobody = Nobody
  Scenarios <- OneThingWrong

INVARIANTS
  AllOrNothing
  OwnerAnswers
PROPERTIES
  NeverTaken
  ExpelledForOwner
  Alone
CHECK_DEADLOCK FALSE
