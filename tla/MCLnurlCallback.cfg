SPECIFICATION Spec
CONSTANTS
  Callbacks = {c1, c2}
  Names = {n1}
  Amounts = {1, 2}
  Invoices = {i1, i2, i3}
  NoInvoice = NoInvoice
SYMMETRY MCSymmetry
INVARIANTS
  TypeOK
  RevealedIsTracked
  OrderIsValidQuote
