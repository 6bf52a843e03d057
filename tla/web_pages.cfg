SPECIFICATION AppSpec
CONSTANTS
  Parts = {"share", "editor", "register", "forgot", "otp", "search", "pwa", "owner", "nav", "days", "checks", "map", "money"}
  Tokens = {a, b}
  Slots = {s1, s2}
  s1 = s1
  s2 = s2
  MaxVersion = 1
  NoTrip = NoTrip
  Sections = {"schedules", "checklist"}
  Rows = {i1, i2}
  FirstRow = i1
  NoRow = NoRow
  Emails = {e1, e2}
  FirstEmail = e1
  MaxCodes = 2
  Digits = {1, 2}
  Length = 3
  q1 = q1
  q2 = q2
  p1 = p1
  p2 = p2
  Queries = {q1, q2}
  Places = {p1, p2}
  Finds <- Found
  Infers <- Inferred
  PlaceCategories = {"cafe"}
  NoPlace = NoPlace
  Forms = {basic, place}
  Keeping = {basic}
  Fillable = {place}
  MaxValue = 1
  MaxUpdates = 2
  Users = {u1, u2}
  TripIds = {t1}
  NoUser = NoUser
  MaxChanges = 1
  TripDays = {1, 2}
  ReadOnly = FALSE
  ScheduleIds = {1, 2, 3}
  Lists <- Schedules
  LastDay = 2
  MaxDay = 3
  Sample <- SampleItems
  Customs = {"x"}
  ItemCategories = {"before", "daily"}
  ItemDates = {"d1"}
  Shortest = 1
  Plans <- DayPlans
  Stops = {1, 2}
  PlaceAt <- PlaceOfStop
  Nowhere = Nowhere
  Currencies = {JPY, CNY}
  Typist = Typist
  Closed = Closed
  MaxRate = 2
SYMMETRY Symmetry
INVARIANTS
  AppTypeOK
  ShownBelongsToLink
  CopiesAreMarked
  ListMatchesServer
  OneCreationInFlight
  VerifiedPairWasConfirmed
  ShownPasswordWorks
  BoxesAreOneField
  LabelsAreTrue
  SavedPlaceIsOnePlace
  ListBelongsToUser
  ListIsCurrent
  ViewMatchesHash
  MapShowsChoice
  TodayComesFirst
  TicksBelongToItems
  ReloadShowsTheSame
PROPERTIES
  NeverSilentlyOlder
  TypedInputSurvivesUpdates
  MoveSwapsNeighbours
CHECK_DEADLOCK FALSE
