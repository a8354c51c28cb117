SPECIFICATION FairSpec
CONSTANTS
  p1 = p1
  p2 = p2
  p3 = p3
  k1 = k1
  k2 = k2
  a1 = a1
  a2 = a2
  ph = ph
  Requests = {p1, p2, p3}
  Rows = {r1, r2}
  Keys = {k1, k2}
  Apps = {a1, a2}
  Phones = {ph}
  Dept = dept
  KeyOf <- MCKeyOf
  AppOf <- MCAppOf
  PhoneOf <- MCPhoneOf
  Notices = {{}, {k2}}
  Costs = {2}
  AppLimit = 3
  DeptLimit = 3
  FreqLimit = 1
  MaxAborts = 1
  NoRow = norow
INVARIANTS
  WithinLimits
  LiveBatchCharged
PROPERTIES
  OrphansReleased
CHECK_DEADLOCK FALSE
