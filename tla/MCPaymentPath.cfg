SPECIFICATION PathSpec
CONSTANTS
  o1 = o1
  NoOrder = NoOrder
  NoQuote = NoQuote
  NoAmount = NoAmount
  NoInvoice = NoInvoice
  OrderIds = {o1}
  Amounts = {a1}
  Payloads <- MCPayloads
  OrderOf <- MCOrderOf
  Quotes = {q1}
  Timestamps = {1, 2, 3, 4}
  Operators = {}
  ProviderStatuses = {"PAUSED", "DELIVERED", "FAILED"}
  Texts = {"none"}
  MaxVersion = 2
  Shifts = {2}
  MaxFaults = 1
  Callbacks = {c1}
  Names = {n1}
  Sats = {1}
  SatsInvoices = {s1}
INVARIANTS
  SettlementTypeOK
  SettlementAgrees
  CaseHasCause
PROPERTIES
  ImplementsSettlement
  KeepsVisiting
  EventuallySettled
  HoldIsDetected
