-------------------------------- MODULE WebApp ---------------------------------
(* The web app: the hooks and components of its pages, side by side.  App     *)
(* renders the page that the path stands for, and a link to another path      *)
(* loads the document anew, so that nothing but the browser's storage, which  *)
(* each part models itself, outlives a page.  The parts of one page write no  *)
(* state of each other; one of them is open, and takes its own steps.         *)
EXTENDS SharedTripView

CONSTANTS
    Parts,                                  \* the parts that are explored
    Sections, Rows, FirstRow, NoRow,        \* TripEditor
    Emails, FirstEmail, MaxCodes,           \* RegisterForm, ForgotPassword
    Digits, Length,                         \* OtpCode
    Queries, Places, Finds, PlaceCategories, Infers, NoPlace,   \* PlaceSearch
    Forms, Keeping, Fillable, MaxValue, MaxUpdates,             \* PwaUpdate
    Users, TripIds, NoUser, MaxChanges,     \* OwnerSession
    TripDays, ReadOnly,                     \* ViewNavigation
    ScheduleIds, Lists, LastDay, MaxDay,    \* ViewSchedules
    Sample, Customs, ItemCategories, ItemDates, Shortest,       \* ViewChecklist
    Plans, Stops, PlaceAt, Nowhere,         \* TripMap
    Currencies, Typist, Closed, MaxRate      \* ExchangeRate

VARIABLE open   \* the part that is explored

(* The state of the open part, in as many of these variables as it has; the   *)
(* shared trip keeps its own.                                                 *)

VARIABLES x1, x2, x3, x4, x5, x6, x7, x8, x9, x10, x11, x12, x13, x14, x15,
    x16, x17, x18, x19, x20, x21

after17 == <<x18, x19, x20, x21>>
after15 == <<x16, x17, after17>>
after13 == <<x14, x15, after15>>
after12 == <<x13, after13>>
after10 == <<x11, x12, after12>>
after9 == <<x10, after10>>
after8 == <<x9, after9>>
after4 == <<x5, x6, x7, x8, after8>>
after0 == <<x1, x2, x3, x4, after4>>

Unused17 == x18 = 0 /\ x19 = 0 /\ x20 = 0 /\ x21 = 0
Unused15 == x16 = 0 /\ x17 = 0 /\ Unused17
Unused13 == x14 = 0 /\ x15 = 0 /\ Unused15
Unused12 == x13 = 0 /\ Unused13
Unused10 == x11 = 0 /\ x12 = 0 /\ Unused12
Unused9 == x10 = 0 /\ Unused10
Unused8 == x9 = 0 /\ Unused9
Unused4 == x5 = 0 /\ x6 = 0 /\ x7 = 0 /\ x8 = 0 /\ Unused8
Unused0 == x1 = 0 /\ x2 = 0 /\ x3 = 0 /\ x4 = 0 /\ Unused4

allVars == <<open, vars, after0>>

Editor == INSTANCE TripEditor_proofs WITH Ids <- Rows, None <- NoRow,
    section <- x1, session <- x2, page <- x3, rows <- x4, detail <- x5,
    shown <- x6, form <- x7, calls <- x8, mixed <- x9

Register == INSTANCE RegisterForm_proofs WITH email <- x1, mode <- x2,
    auth <- x3, codeSent <- x4, input <- x5, verified <- x6, verifying <- x7,
    sending <- x8, timer <- x9, submitting <- x10, calls <- x11, live <- x12,
    issued <- x13, confirmed <- x14, stale <- x15

Forgot == INSTANCE ForgotPassword WITH Accounts <- Emails,
    FirstAccount <- FirstEmail, open <- x1, panel <- x2, email <- x3,
    code <- x4, codeSent <- x5, sending <- x6, submitting <- x7,
    tempPassword <- x8, delivered <- x9, calls <- x10, live <- x11,
    issued <- x12, password <- x13

Otp == INSTANCE OtpCode WITH value <- x1, focus <- x2, typed <- x3,
    followed <- x4

Search == INSTANCE PlaceSearch_proofs WITH Categories <- PlaceCategories,
    Nothing <- NoPlace, query <- x1, results <- x2, selected <- x3,
    last <- x4, searching <- x5, draft <- x6, creating <- x7, calls <- x8

Pwa == INSTANCE PwaUpdate WITH worker <- x1, deployed <- x2, latest <- x3,
    subscribed <- x4, notice <- x5, online <- x6, confirmed <- x7,
    timer <- x8, form <- x9, saving <- x10, saved <- x11, touched <- x12,
    safe <- x13

Owner == INSTANCE OwnerSession_proofs WITH Ids <- TripIds, page <- x1, moved <- x2,
    checked <- x3, auth <- x4, list <- x5, loading <- x6, listError <- x7,
    signing <- x8, creating <- x9, deleting <- x10, leaving <- x11,
    changing <- x12, erasing <- x13, calls <- x14, cookie <- x15,
    cache <- x16, online <- x17, since <- x18, trips <- x19, foreign <- x20,
    blurred <- x21

Nav == INSTANCE ViewNavigation WITH Dates <- TripDays, activeTab <- x1,
    scheduleView <- x2, hash <- x3, reported <- x4, focusDate <- x5,
    selectedDate <- x6, hasVisitedMap <- x7, effects <- x8, picked <- x9

Days == INSTANCE ViewSchedules WITH Ids <- ScheduleIds, demo <- x1,
    list <- x2, order <- x3, done <- x4, tripDates <- x5, selected <- x6,
    today <- x7, saved <- x8, foreign <- x9

Checks == INSTANCE ViewChecklist WITH Categories <- ItemCategories,
    Dates <- ItemDates, custom <- x1, hidden <- x2, checked <- x3,
    saved <- x4, used <- x5, newDate <- x6, newCategory <- x7,
    dateFilter <- x8, editing <- x9, phase <- x10, focus <- x11,
    foreign <- x12

Chart == INSTANCE TripMap WITH plan <- x1, done <- x2, subTab <- x3,
    stop <- x4, picked <- x5, loadState <- x6, queued <- x7, map <- x8,
    pins <- x9, loads <- x10, sdk <- x11, located <- x12, locating <- x13,
    locationError <- x14, effects <- x15, moved <- x16, bare <- x17

Money == INSTANCE ExchangeRate WITH code <- x1, rate <- x2, input <- x3,
    status <- x4, filled <- x5, calls <- x6, cache <- x7, conv <- x8,
    late <- x9, foreign <- x10

(* What the theorems about the parts assume of the constants.                 *)
ASSUME EditorAssumption == Editor!ConstantsOK
ASSUME RegisterAssumption == Register!ConstantsOK
ASSUME SearchAssumption == Search!ConstantsOK
ASSUME MoneyAssumption == Money!ConstantsOK
ASSUME ForgotAssumption == Forgot!ConstantsOK
ASSUME NavAssumption == Nav!ConstantsOK
ASSUME MapAssumption == Chart!ConstantsOK
ASSUME PwaAssumption == Pwa!ConstantsOK
ASSUME OwnerAssumption == Owner!ConstantsOK
ASSUME OtpAssumption == Otp!ConstantsOK
ASSUME DaysAssumption == Days!ConstantsOK
ASSUME ChecksAssumption == Checks!ConstantsOK

Still4 == UNCHANGED <<open, vars, after4>>
Still8 == UNCHANGED <<open, vars, after8>>
Still9 == UNCHANGED <<open, vars, after9>>
Still10 == UNCHANGED <<open, vars, after10>>
Still12 == UNCHANGED <<open, vars, after12>>
Still13 == UNCHANGED <<open, vars, after13>>
Still15 == UNCHANGED <<open, vars, after15>>
Still17 == UNCHANGED <<open, vars, after17>>
Still21 == UNCHANGED <<open, vars>>
StillShared == UNCHANGED <<open, after0>>

-----------------------------------------------------------------------------
(* The shared trip rests unless it is open.                                   *)
SharedTripRests ==
    /\ Init
    /\ up /\ online /\ page.token = CHOOSE t \in Tokens : TRUE

AppInit ==
    /\ open \in Parts
    /\ \/ open = "share" /\ Init /\ Unused0
       \/ open = "editor" /\ SharedTripRests /\ Editor!Init /\ Unused9
       \/ open = "register" /\ SharedTripRests /\ Register!Init /\ Unused15
       \/ open = "forgot" /\ SharedTripRests /\ Forgot!Init /\ Unused13
       \/ open = "otp" /\ SharedTripRests /\ Otp!Init /\ Unused4
       \/ open = "search" /\ SharedTripRests /\ Search!Init /\ Unused8
       \/ open = "pwa" /\ SharedTripRests /\ Pwa!Init /\ Unused13
       \/ open = "owner" /\ SharedTripRests /\ Owner!Init
       \/ open = "nav" /\ SharedTripRests /\ Nav!Init /\ Unused9
       \/ open = "days" /\ SharedTripRests /\ Days!Init /\ Unused9
       \/ open = "checks" /\ SharedTripRests /\ Checks!Init /\ Unused12
       \/ open = "map" /\ SharedTripRests /\ Chart!Init /\ Unused17
       \/ open = "money" /\ SharedTripRests /\ Money!Init /\ Unused10

SharedTripPart == open = "share" /\ Next /\ StillShared
EditorPart == open = "editor" /\ Editor!Next /\ Still9
RegisterPart == open = "register" /\ Register!Next /\ Still15
ForgotPart == open = "forgot" /\ Forgot!Next /\ Still13
OtpPart == open = "otp" /\ Otp!Next /\ Still4
SearchPart == open = "search" /\ Search!Next /\ Still8
PwaPart == open = "pwa" /\ Pwa!Next /\ Still13
OwnerPart == open = "owner" /\ Owner!Next /\ Still21
NavigationPart == open = "nav" /\ Nav!Next /\ Still9
SchedulesPart == open = "days" /\ Days!Next /\ Still9
ChecklistPart == open = "checks" /\ Checks!Next /\ Still12
MapPart == open = "map" /\ Chart!Next /\ Still17
MoneyPart == open = "money" /\ Money!Next /\ Still10

AppNext ==
    \/ SharedTripPart \/ EditorPart \/ RegisterPart \/ ForgotPart \/ OtpPart
    \/ SearchPart \/ PwaPart \/ OwnerPart \/ NavigationPart
    \/ SchedulesPart \/ ChecklistPart \/ MapPart \/ MoneyPart

AppSpec == AppInit /\ [][AppNext]_allVars

(* Every request settles and its promise is handled (a request is either sent *)
(* or settled, so one condition per request says both), effects run, time     *)
(* passes and timers fire, in the part that is open; whoever reads a shared   *)
(* trip returns to it, and a page that is told to reload does.                *)
Progress(s) ==
    \/ open = "share" /\ (Answer(s) \/ Succeed(s) \/ Fail(s)) /\ StillShared
    \/ open = "editor" /\ (Editor!Network(s) \/ Editor!Answers(s)) /\ Still9
    \/ open = "register" /\ (Register!Server(s) \/ Register!Answers(s)) /\ Still15
    \/ open = "forgot" /\ (Forgot!Server(s) \/ Forgot!Answers(s)) /\ Still13
    \/ open = "search" /\ (Search!Serve(s) \/ Search!Answers(s)) /\ Still8
    \/ open = "owner" /\ (Owner!Serve(s) \/ Owner!Answers(s)) /\ Still21
    \/ open = "money" /\ Money!Answered(s) /\ Still10

EffectsRun ==
    \/ open = "share" /\ (LoadCopy \/ LoadTrip) /\ StillShared
    \/ open = "pwa" /\ Pwa!SubscribePwaStatus /\ Still13

TimersFire ==
    \/ open = "register" /\ Register!ExpireCode /\ Still15
    \/ open = "search" /\ Search!ExpireSearch /\ Still8
    \/ open = "pwa" /\ Pwa!ConfirmOffline /\ Still13

TimePasses ==
    \/ open = "share" /\ Focus /\ StillShared
    \/ open = "search" /\ Search!SearchGrowsOld /\ Still8
    \/ open = "pwa" /\ Pwa!NoticeTimesOut /\ Still13

PageReloads == open = "pwa" /\ Pwa!Reload /\ Still13

FairApp ==
    /\ AppSpec
    /\ \A s \in Slots : WF_allVars(Progress(s))
    /\ WF_allVars(EffectsRun) /\ WF_allVars(TimersFire)
    /\ WF_allVars(TimePasses) /\ WF_allVars(PageReloads)

-----------------------------------------------------------------------------
(* Properties: those of the open part.  The module of the part states them in *)
(* full.                                                                      *)

AppTypeOK ==
    /\ open \in Parts
    /\ TypeOK
    /\ open = "editor" => Editor!TypeOK
    /\ open = "register" => Register!TypeOK
    /\ open = "forgot" => Forgot!TypeOK
    /\ open = "otp" => Otp!TypeOK
    /\ open = "search" => Search!TypeOK
    /\ open = "pwa" => Pwa!TypeOK
    /\ open = "owner" => Owner!TypeOK
    /\ open = "nav" => Nav!TypeOK
    /\ open = "days" => Days!TypeOK
    /\ open = "checks" => Checks!TypeOK
    /\ open = "map" => Chart!TypeOK
    /\ open = "money" => Money!TypeOK

(* TripEditor: rows whose requests did not overlap are on the screen as the   *)
(* server has them.                                                           *)
ListMatchesServer == open = "editor" => Editor!ListMatchesServer

(* TripEditor: one create form sends one request at a time, through 401s and  *)
(* new logins.                                                                *)
OneCreationInFlight == open = "editor" => Editor!OneCreationInFlight

(* RegisterForm: "e-mail verified" is about the address and the code of the   *)
(* form, unless the form changed before its answer came.                      *)
VerifiedPairWasConfirmed == open = "register" => Register!VerifiedPairWasConfirmed

(* ForgotPassword: a temporary password on the screen is somebody's password. *)
ShownPasswordWorks == open = "forgot" => Forgot!ShownPasswordWorks

(* OtpCode: the boxes behave as one text field.                               *)
BoxesAreOneField == open = "otp" => Otp!BoxesAreOneField

(* PlaceSearch, ExchangeRate: "searched" stands over what the typed query     *)
(* finds, "latest" and "saved" over a rate of the currency that is shown; the *)
(* field shows the rate in use, rounded under "latest", and amounts go by     *)
(* that rate.                                                                 *)
LabelsAreTrue ==
    /\ open = "search" => Search!SearchedLabelIsTrue
    /\ open = "money" => Money!LabelIsTrue /\ Money!AmountsMatchRate

(* PlaceSearch: name, address and coordinates of a saved place are one        *)
(* place's.                                                                   *)
SavedPlaceIsOnePlace == open = "search" => Search!SavedPlaceIsOnePlace

(* PwaUpdate: a version that applies itself finds no write in flight and no   *)
(* typed input, and the reload that follows costs no form that was left alone *)
(* since.                                                                     *)
TypedInputSurvivesUpdates == [][open = "pwa" => Pwa!AppliedSafely]_allVars

(* OwnerSession: a list on the screen is that of the account of the header.   *)
ListBelongsToUser == open = "owner" => Owner!ListBelongsToUser

(* OwnerSession: after writes whose outcome is known, the list page shows the *)
(* trips the server has.                                                      *)
ListIsCurrent == open = "owner" => Owner!ListIsCurrent

(* ViewNavigation: the URL's fragment stands for what is on the screen.       *)
ViewMatchesHash == open = "nav" => Nav!ViewMatchesHash

(* ViewNavigation, ViewSchedules: the schedule tab opens on today's date,     *)
(* however it was opened, and the next schedule is the earliest that is left  *)
(* to do.                                                                     *)
TodayComesFirst ==
    /\ open = "nav" => Nav!ScheduleOpensOnFocus
    /\ open = "days" => Days!NextScheduleIsEarliest

(* TripMap: whatever order the map, the trip and the choice come in, the pins *)
(* are those of the trip's places, with the chosen stop, once a map is ready; *)
(* a map that was made while "ready" was on the screen may have none yet.     *)
MapShowsChoice == open = "map" => Chart!MapShowsChoice

(* TripMap: a map that is ready has its pins, as docs/TECH_DESIGN.md:135 says *)
(* of the map tab.  It does not hold.                                         *)
ReadyMapHasPins == open = "map" => Chart!ReadyMapHasPins

(* ViewSchedules: an arrow exchanges two neighbours, whatever order is kept.  *)
MoveSwapsNeighbours == [][open = "days" => Days!SwappedNeighbours]_allVars

(* ViewChecklist: a tick does not outlive its item.                           *)
TicksBelongToItems == open = "checks" => Checks!TicksBelongToItems

(* ViewSchedules, ViewChecklist, ExchangeRate: a reload shows what the screen *)
(* shows, and converts by the rate it converted by.                           *)
ReloadShowsTheSame ==
    /\ open = "days" => Days!ReloadShowsTheSame
    /\ open = "checks" => Checks!ReloadShowsTheSame
    /\ open = "money" => Money!ReopenConvertsTheSame

(* TripEditor, RegisterForm, ForgotPassword, PlaceSearch, OwnerSession,       *)
(* ExchangeRate: what a request locks is unlocked again, whatever the answer  *)
(* is.                                                                        *)
AllLocks ==
    Editor!Locks \cup Register!Locks \cup Forgot!Locks \cup Search!Locks \cup Owner!Locks
      \cup Money!Locks

IsLocked(lock) ==
    \/ open = "editor" /\ lock \in Editor!Locks /\ Editor!Locked(lock)
    \/ open = "register" /\ lock \in Register!Locks /\ Register!Locked(lock)
    \/ open = "forgot" /\ lock \in Forgot!Locks /\ Forgot!Locked(lock)
    \/ open = "search" /\ lock \in Search!Locks /\ Search!Locked(lock)
    \/ open = "owner" /\ lock \in Owner!Locks /\ Owner!Locked(lock)
    \/ open = "money" /\ lock \in Money!Locks /\ Money!Locked(lock)

NoButtonStaysLocked == \A lock \in AllLocks : []<>~IsLocked(lock)

(* RegisterForm: the proof of an address ends with the five minutes of its    *)
(* code, whoever signs in or out meanwhile, unless its answer came late.      *)
ProofsExpire ==
    (open = "register" /\ Register!Proven) ~> (open = "register" /\ Register!Unproven)

(* PwaUpdate: a blocked update is offered, a lasting loss of the connection   *)
(* is reported, a passing notice goes away.                                   *)
NoticesComeAndGo ==
    /\ (open = "pwa" /\ Pwa!Unheard) ~> (open = "pwa" /\ Pwa!Offered)
    /\ []<>(open = "pwa" => Pwa!LossIsReported)
    /\ \A n \in Pwa!Passing : []<>(open = "pwa" => Pwa!Gone(n))
================================================================================
