SPECIFICATION Spec
CONSTANTS
  r1 = r1  r2 = r2  r3 = r3  t1 = t1
  p1 = p1
  Runs = {r1, r2, r3}
  Tickets = {r1, r2, r3}
  Profiles = {p1}
  TicketOf <- OwnTicket
  ProfileOf <- OneProfile
  Limit <- LimitOne
  Capacity = 2
INVARIANT OverAdmissionBounded
SYMMETRY RunSymmetry
\* All the runs may have ended.
CHECK_DEADLOCK FALSE
