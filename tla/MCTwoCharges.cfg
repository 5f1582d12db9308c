SPECIFICATION Spec
CONSTANTS
  Requests = {r1, r2}
  Keys = {k1}
  NoKey = NoKey
  c = c
  d = d
  k1 = k1
  k2 = k2
  Customers = {c, d}
  InvoiceIds <- MCInvoiceIds
  Amounts <- MCAmounts
  Bodies <- RetryBodies
  PaymentIds = {p1, p2}
  PoolMax = 2
  FaultInjectionEnabled = FALSE
  MaxFailures = 1
  MaxResets = 0
  Admin = Admin
  None = None
  Invoices <- OneInvoice
  Owner <- OneOwner
  Due <- OneDue
  SeedStatus <- OneOverdue
SYMMETRY Interchangeable
INVARIANT NeverTwoCharges
