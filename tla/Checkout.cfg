CONSTANTS
  Clicks = {c1, c2}
  Offered = {"livepix", "mercadopago", "stripe", "asaas"}
  Window = 1
  MaxTime = 2
  MaxCharges = 2
SPECIFICATION Spec
INVARIANTS PaidIsKnown SameLinkWithinWindow PixPaidOnce
SYMMETRY Slots
