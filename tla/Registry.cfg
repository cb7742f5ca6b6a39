\* One slug of up to three versions, three sets of terms, two of them read the same.
CONSTANTS
  s1 = s1
  t1 = t1
  t2 = t2
  t3 = t3
  day1 = day1
  day2 = day2
  reworded = reworded
  other = other
  Slug = {s1}
  Offer <- Offers
  Fingerprint <- Read
  MaxVersions = 3
SPECIFICATION Spec
INVARIANTS
  SignedCaseStays
  DraftsDiffer
  SupersededIsSuspended
