SPECIFICATION Spec
CONSTANTS
  r1 = r1
  r2 = r2
  r3 = r3
  r4 = r4
  manual = manual
  a1 = a1
  a2 = a2
  Connections = {manual}
  Accounts = {a1, a2}
  NoBinding = NoBinding
  MaxVersion = 4
  Runs = {r1, r4}
  Candidates = {1, 6}
  RunOf <- mcRunOf
  Content <- mcContent
  ConnectionOf <- mcConnectionOf
  ParsedBy <- mcParsedByProfile
  Account <- mcAccount
  Shape <- mcShape
  Text <- mcText
  Key <- mcKey
  Fact <- mcFact
  NoKey = NoKey
  None = None
INVARIANTS
  TypeOK
PROPERTIES
  PostedUnderReviewedBinding
CHECK_DEADLOCK FALSE
