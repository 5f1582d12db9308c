SPECIFICATION Spec
CONSTANTS
  Requests = {r1, r2, r3}
  Keys = {k1, k2}
  NoKey = NoKey
  c = c
  d = d
  k1 = k1
  k2 = k2
  Customers = {c, d}
  InvoiceIds <- MCInvoiceIds
  Amounts <- MCAmounts
  Bodies <- ContendingBodies
  PaymentIds = {p1, p2}
  PoolMax = 2
  FaultInjectionEnabled = TRUE
  MaxFailures = 2
  MaxResets = 1
  Admin = Admin
  None = None
  Invoices <- OneInvoice
  Owner <- OneOwner
  Due <- OneDue
  SeedStatus <- OneOverdue
SYMMETRY Interchangeable
INVARIANT ReplyMatchesLedger
INVARIANT ChargesBounded
INVARIANT NoConcurrentCharges
INVARIANT CacheMatchesLedger
INVARIANT TablesAgree
INVARIANT IInv
INVARIANT PaidOncePerReset
INVARIANT NoDeadlock
INVARIANT AnnouncedOnce
PROPERTY NoChargeOnPaidInvoice
PROPERTY NoChargeAfterDecision
