SPECIFICATION Spec
CONSTANTS
  Requests = {r1, r2, r3}
  Keys = {k1, k2}
  NoKey = NoKey
  c = c
  d = d
  k1 = k1
  k2 = k2
  Customers = {c, d}
  InvoiceIds <- MCInvoiceIds
  Amounts <- MCAmounts
  Bodies <- MixedBodies
  PaymentIds = {p1, p2}
  PoolMax = 2
  FaultInjectionEnabled = TRUE
  MaxFailures = 1
  MaxResets = 0
  Admin = Admin
  None = None
  Invoices <- SeedInvoices
  Owner <- SeedOwner
  Due <- SeedDue
  SeedStatus <- SeedStatuses
SYMMETRY Interchangeable
INVARIANT TypeOK
INVARIANT ApprovedRowWasCharged
PROPERTY ImplementsLedger
