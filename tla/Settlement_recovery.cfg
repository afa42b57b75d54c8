CONSTANTS
  Charges = {1, 2}
  Workers = {w1}
  Syncs = {"mercadopago", "stripe", "livepix"}
  GatewayOf <- OwnName
  Crons = {k1}
  Offered <- OneOrTwo
  Batch = 1
  Attempts = 2
  MaxFailures = 1
SPECIFICATION FairSpec
CHECK_DEADLOCK FALSE
INVARIANTS PaymentRecorded PaidIsConfirmed ToldAfterGrant
PROPERTIES DeliveredIsGranted PendingIsNoticed PaidGetsAccessUnlessCut
