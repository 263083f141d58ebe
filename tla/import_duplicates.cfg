SPECIFICATION Spec
CONSTANTS
  r1 = r1
  r2 = r2
  r3 = r3
  r4 = r4
  manual = manual
  a1 = a1
  a2 = a2
  Connections = {manual}
  Accounts = {a1}
  NoBinding = NoBinding
  MaxVersion = 1
  Runs = {r1, r2, r3}
  Candidates = {1, 2, 3, 4, 5, 7}
  RunOf <- mcRunOf
  Content <- mcContent
  ConnectionOf <- mcConnectionOf
  ParsedBy <- mcParsedBy
  Account <- mcAccount
  Shape <- mcShape
  Text <- mcText
  Key <- mcKey
  Fact <- mcFact
  NoKey = NoKey
  None = None
INVARIANTS
  OneTransactionPerExternalKey
  
  EvidenceOfLedger
CHECK_DEADLOCK FALSE
