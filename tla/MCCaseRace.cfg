SPECIFICATION Spec
CONSTANTS
  q1 = q1
  q2 = q2
  o1 = o1
  o2 = o2
  a1 = a1
  a2 = a2
  NoOrder = NoOrder
  NoQuote = NoQuote
  NoAmount = NoAmount
  Quotes = {q1, q2}
  OrderIds = {o1, o2}
  Amounts = {a1, a2}
  Timestamps = {1, 2}
  Operators = {op1, op2}
  Payloads <- MCPayloads
PROPERTY
  ResolvedIsFinal
