SPECIFICATION PaySpec
CONSTANTS
  w1 = w1  w2 = w2  momo = momo  card = card  k1 = k1  k2 = k2
  Worker = {w1}
  Provider = {momo, card}
  Key = {k1, k2}
  Total = 2
  Signals = {"SUCCEEDED", "FAILED", "CANCELLED", "PROCESSING"}
  Amounts = {1}
  InvoiceEdits = {"CANCELLED", "PENDING"}
  PaymentEdits = {"COMPLETED", "REFUNDED"}
  MaxIntents = 2
  MaxPayments = 2
  None = None
SYMMETRY Symmetry
INVARIANT NoOverpayment
CHECK_DEADLOCK FALSE
