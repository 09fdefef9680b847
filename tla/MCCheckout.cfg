SPECIFICATION PaySpec
CONSTANTS
  w1 = w1  w2 = w2  momo = momo  card = card  k1 = k1  k2 = k2
  Worker = {w1, w2}
  Provider = {momo}
  Key = {k1, k2}
  Total = 1
  Signals = {"SUCCEEDED", "FAILED", "PROCESSING"}
  Amounts = {1}
  InvoiceEdits = {"CANCELLED"}
  PaymentEdits = {"REFUNDED"}
  MaxIntents = 2
  MaxPayments = 2
  None = None
SYMMETRY Symmetry
INVARIANTS
  PayTypeOK
  SucceededMeansPaid
  ChargedAndAnnouncedOnce
PROPERTIES
  ManagedPaymentsAppendOnly
  KeyKeepsIntent
  FinalStatusSettles
  ExpiredStaysClosed
CHECK_DEADLOCK FALSE
