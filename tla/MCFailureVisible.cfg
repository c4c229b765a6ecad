SPECIFICATION SettlementSafety
CONSTANTS
  q1 = q1
  q2 = q2
  o1 = o1
  o2 = o2
  NoOrder = NoOrder
  NoQuote = NoQuote
  NoAmount = NoAmount
  OrderIds = {o1, o2}
  Amounts = {}
  Payloads <- MCPayloads
  OrderOf <- MCOrderOf
  Quotes = {q1}
  Timestamps = {1, 2, 3, 4, 5, 6}
  Operators = {op1}
  ProviderStatuses = {"SWAPPING", "FAILED"}
  Texts = {"none"}
  MaxVersion = 3
  Shifts = {0}
  MaxFaults = 0
PROPERTY
  FailureIsVisible
