SPECIFICATION Spec
CONSTANTS
  t1 = t1
  t2 = t2
  s1 = s1
  s2 = s2
  c1 = c1
  p1 = p1
  p2 = p2
  f1 = f1
  u1 = u1
  u2 = u2
  x = x
  y = y
  r1 = r1
  r2 = r2
  r3 = r3
  None = None
  Trips = {t1}
  Schedules = {s1}
  Checklists = {}
  Places = {}
  Flights = {}
  Users = {u1}
  Texts = {x, y}
  MaxDay = 2
  Requests = {r1, r2}
  Endpoints = {"createTrip", "createSchedule", "updateSchedule"}
  Editable = {"date", "text"}
  Presets = 0
SYMMETRY Symmetry
PROPERTIES
  PatchKeepsOtherFields
CHECK_DEADLOCK FALSE
