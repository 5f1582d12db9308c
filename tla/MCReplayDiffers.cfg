SPECIFICATION Spec
CONSTANTS
  Requests = {r1, r2, r3}
  Keys = {k1, k2}
  NoKey = NoKey
  c = c
  d = d
  k1 = k1
  k2 = k2
  Customers = {c, d}
  InvoiceIds <- MCInvoiceIds
  Amounts <- MCAmounts
  Bodies <- CorrectedBodies
  PaymentIds = {p1, p2}
  PoolMax = 2
  FaultInjectionEnabled = FALSE
  MaxFailures = 0
  MaxResets = 0
  Admin = Admin
  None = None
  Invoices <- OneInvoice
  Owner <- OneOwner
  Due <- OneDue
  SeedStatus <- OneOverdue
SYMMETRY Interchangeable
INVARIANT ReplayIsIdentical
