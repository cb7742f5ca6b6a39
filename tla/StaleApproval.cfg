\* One slug of one version.
CONSTANTS
  s1 = s1
  t1 = t1
  t2 = t2
  t3 = t3
  day1 = day1
  day2 = day2
  reworded = reworded
  other = other
  Slug = {s1}
  Offer <- Offers
  Fingerprint <- Read
  MaxVersions = 1
SPECIFICATION Spec
PROPERTY TradeableIsUsable
