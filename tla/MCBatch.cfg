SPECIFICATION FairSpec
CONSTANTS
  alice = alice
  bob = bob
  carol = carol
  c1 = c1
  c2 = c2
  m1 = m1
  m2 = m2
  w1 = w1
  w2 = w2
  Null = Null
  Kinds <- MCKinds
  Broke <- MCBroke
  Lossy <- MCLossy
  Admins = {alice, bob}
  Approvers = {alice, bob, carol}
  Applicant = alice
  Views <- MCViews
  Chunks = {c1, c2}
  Messages = {m1, m2}
  Home <- MCHome
  Proposals <- MCProposals
  Answers <- MCAnswers
  Workers = {w1, w2}
  MaxPlans = 1
  MaxPauses = 1
  MaxFaults = 1
  MaxTries = 3
INVARIANTS SentAsApproved RefundExact
PROPERTIES ResendEarned 
CHECK_DEADLOCK FALSE
