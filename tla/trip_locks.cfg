SPECIFICATION FairSpec
CONSTANTS
  t1 = t1
  t2 = t2
  s1 = s1
  s2 = s2
  c1 = c1
  p1 = p1
  p2 = p2
  f1 = f1
  u1 = u1
  u2 = u2
  x = x
  y = y
  r1 = r1
  r2 = r2
  r3 = r3
  None = None
  Trips = {t1}
  Schedules = {s1}
  Checklists = {}
  Places = {p1}
  Flights = {}
  Users = {u1}
  Texts = {x}
  MaxDay = 1
  Requests = {r1, r2, r3}
  Endpoints = {"createTrip", "deleteTrip", "createPlace", "deletePlace", "createSchedule", "updateSchedule"}
  Editable = {"place"}
  Presets = 0
INVARIANTS
  LinksResolve
  DeadlocksNeedADelete
PROPERTIES
  RequestsEnd
CHECK_DEADLOCK FALSE
