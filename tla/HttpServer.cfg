SPECIFICATION Spec
CONSTANTS
  Socks = 2
  Content <- Contents
  Length <- Lengths
  Part = 2
  Loads <- All
INVARIANTS
  AnswersRequest
  Positioned
PROPERTY
  ConnectionEnds
