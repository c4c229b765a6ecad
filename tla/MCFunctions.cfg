SPECIFICATION MCSpec
CONSTANTS
  Words <- MCWords
  Fillers <- MCFillers
  Extra <- MCExtra
  Alphabet <- MCAlphabet
  MaxLength = 4
  Names <- MCNames
  Base = 6
  TimestampWords = 1
  SignatureWords = 2
  P = 1
  X = 2
  D = 3
  S = 4
  H = 5
  SingleTags = {1, 2, 3, 4, 5}
  HashWords = 1
  PadUnit = 2
  DefaultExpiry = 5
  MaxSafe = 6
  NoHash = NoHash
  Now = 4
  Quotes <- MCQuotes
  Width = 5
  CurveOrder <- MCCurveOrder
  HalfOrder <- MCHalfOrder
  Calls <- MCCalls
INVARIANTS
  TableIsExact
  ImitationsAreReserved
  ReadsTheBody
  ChecksAgree
  AcceptedIsPayable
  AcceptsTheSignature
CHECK_DEADLOCK FALSE
