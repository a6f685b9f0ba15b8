SPECIFICATION Spec
CONSTANTS
  u1 = u1  u2 = u2  c1 = c1  c2 = c2
  Users = {u1, u2}
  Organiser = u1
  Nobody = Nobody
  None = None
  Calls = {c1, c2}
  KindsOf <- MCKindsOf
  Pages = {"list", "detail", "edit", "create", "login"}
  MaxEvents = 1
INVARIANTS ViewsAgree SignedInSeesOwn SignedOutSeesNothing
CHECK_DEADLOCK FALSE
