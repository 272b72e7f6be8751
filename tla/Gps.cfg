CONSTANTS
  MaxChanges = 2
  Messages = {"status", "location"}
SPECIFICATION FairSpec
INVARIANTS
  MessagesFindHandler
  IntroducedFirst
  StartedNavigates
PROPERTIES
  CallbacksTold
