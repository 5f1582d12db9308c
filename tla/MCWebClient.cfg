SPECIFICATION Spec
CONSTANTS
  c = c
  d = d
  Customers = {c, d}
  Invoices <- MCInvoices
  Owner <- MCOwner
  Calls = {x1, x2}
  PaymentIds = {p1, p2}
  MaxTime = 1
  None = None
SYMMETRY Interchangeable
INVARIANT TypeOK
INVARIANT CredentialsAgree
INVARIANT DecisionsAreClicks
INVARIANT ReplayAgrees
