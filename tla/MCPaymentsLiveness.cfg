SPECIFICATION FairSpec
CONSTANTS
  Requests = {r1, r2, r3}
  Keys = {k1}
  NoKey = NoKey
  c = c
  d = d
  k1 = k1
  k2 = k2
  Customers = {c, d}
  InvoiceIds <- MCInvoiceIds
  Amounts <- MCAmounts
  Bodies <- RetryBodies
  PaymentIds = {p1, p2}
  PoolMax = 2
  FaultInjectionEnabled = TRUE
  MaxFailures = 1
  MaxResets = 1
  Admin = Admin
  None = None
  Invoices <- OneInvoice
  Owner <- OneOwner
  Due <- OneDue
  SeedStatus <- OneOverdue
PROPERTY EveryRequestEnds
PROPERTY LocksAreReleased
