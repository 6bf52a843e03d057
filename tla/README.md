# Verification of Map Planner

Map Planner is a travel planner: a Go REST API over PostgreSQL (`apps/api`) and a
React/TypeScript PWA with an iOS shell (`apps/web`). This directory holds TLA+ modules of
its core logic, the TLC configurations that check them on small instances, and TLAPS
proofs of what holds for every instance. Paths below are relative to the repository;
`PROJECT.json` maps every definition to the lines it models.

    tlc -config trip_dates.cfg MCTripApi     # one run
    tlapm TripApi_proofs.tla                 # one proof module

## 1. The system

| Part | State | Operations | Module |
|---|---|---|---|
| Authentication API (`auth_service.go`, `auth_handler.go`, `requireAuth`) | `users` (password hash, `token_version`, failure counter, lock), `auth_verification_challenges` (hash, expiry, attempts, daily counter), signed tokens | send / verify code, register, login, forgot, change password, delete account, `RequireAuth` | `Accounts`, `Verification`, `AuthApi` |
| Trip and checklist API (`trip_service.go`, `checklist_service.go`) | `trips`, `schedules`, `places`, `flights`, `checklists`, their triggers and foreign keys | create / PATCH / DELETE of each | `TripRows`, `TripBoard`, `TripApi` |
| Shared trip page (`useSharedTripController.ts`) | React state and refs, `localStorage` | load, recover on `online` and `focus` | `SharedTripView` |
| Trip editors (`features/manage/useTripManage*Actions.ts`, forms, lists) | copies of the tables, forms, locks | load, create, edit, delete, tick, 401 | `TripEditor` |
| Place search (`ManagePlaceCreateForm.tsx`) | query, results, their age, form | search, choose, correct, save | `PlaceSearch` |
| Sign-in, registration, recovery (`ManageAuthSection.tsx`, `ForgotPasswordModal.tsx`, `OtpCodeInput.tsx`) | fields, code, timer, proof | send, verify, submit, reset | `RegisterForm`, `ForgotPassword`, `OtpCode` |
| Session, trip list, account (`useTripManageSessionTrips.ts`, `AccountSettings.tsx`) | session, cookie, list and its stored copy | restore, sign in and out, load, create, delete, change password, delete account | `OwnerSession` |
| Trip view (`useOwnerTripPageAdapter.ts`, `useTripPageController.ts`, `tabs/*`) | tab, fragment, dates; order, marks; checklist; map; rate | show, move, mark, tick, locate, convert | `ViewNavigation`, `ViewSchedules`, `ViewChecklist`, `Listing`, `TripMap`, `ExchangeRate` |
| PWA update (`pwaUpdateCoordinator.ts`, `pwaStatus.ts`, `PwaStatusBanner.tsx`) | forms and their snapshots, writes in flight, notice | hold back, apply, announce | `PwaUpdate` |
| The app (`App.tsx`, `manageRoute.ts`) | the path | render one page | `WebApp` |
| Share links, quota, limiter, in-memory repositories, logging, start-up, DTOs, presentation, infrastructure | | | section 6 |

How they interact. Every request is a goroutine; goroutines share nothing but the database
(and the limiter's map), so all interleaving happens between SQL statements. PostgreSQL runs
under READ COMMITTED: a handler that reads, decides and then writes decides on a copy. The
browser interleaves differently: JavaScript runs one task at a time, but answers, events,
timers, effects and other tabs come in any order. `App` renders one page for the path; a link
to another path loads the document anew, so pages share only the storage of the browser and
the API. The components of one page write no state of each other beyond their callbacks,
which are part of the module that owns the state.

What is hard, and what makes it correct:

* **Authentication.** Tokens are issued from rows read earlier; two requests verify one code
  before either spends it; logins pass the lock test together; a mail fails after a commit.
  A session works only for who proved the present password; a code buys one thing, in time; the
  lock bounds guesses; the daily counter bounds mails.
* **Trips.** A schedule is validated against a trip another request is moving; a place is
  deleted between its look-up and the link to it; PATCH writes back a whole row; statements
  lock rows in different orders. Dated rows lie in their trip, links point to live rows of the
  same trip, ranges stay ordered, only owners write, requests end.
* **Web.** Late answers, answers for what is no longer selected, copies of another user or of
  an older version, locks that a 401 or a left page could keep, an update that reloads a page
  with input, effects that run later than what caused them. What is on the screen belongs to
  the link, account, row, address, query, date, place and currency it is shown for; copies are
  marked and replaced; what a request locks is unlocked; an update waits.

The hazards behind these lines are listed one by one, at their source line, in `PROJECT.json`.

## 2. Plan and state

| | Modules | Composes | Abstract specification | State |
|---|---|---|---|---|
| 1 | `Accounts`, `Verification`, `AuthApi` | two tables, handlers | | modelled, proved |
| 2 | `TripRows`, `TripApi` | five tables, handlers, locks | `TripBoard`, proved to be implemented | modelled, proved |
| 3 | `SharedTripView` | hook, browser, API | | modelled, proved |
| 4 | `TripEditor`, `RegisterForm`, `PlaceSearch` | hooks, forms, API, network | | modelled, proved |
| 5 | `ForgotPassword`, `OtpCode`, `OwnerSession`, `PwaUpdate`, `View*`, `TripMap`, `ExchangeRate` | components, browser, API | | modelled, proved |
| 6 | `WebApp` | all parts of the web app | the parts, proved to be implemented | modelled, proved |
| 7 | `ShareLinks` with `GetSharedTrip`; lock steps of the authentication tables; account deletion that cascades to trips | trip and authentication tables | one live link per trip | not begun |
| 8 | the safety half of `NoButtonStaysLocked`: what is locked has a request in flight that unlocks it; the circles of `RequestsEnd` have a statement PostgreSQL ends | | | not begun |

## 3. Modules

### Authentication: `Accounts`, `Verification`, `AuthApi`

`Accounts` is a row of `users` and what each single-row statement of
`postgres_user_repository.go` does to it; `Verification` is the same for a challenge.
`AuthApi` is the handlers. A request occupies a slot `r`: `at[r]` is the next statement of its
handler and `loc[r]` what the handler keeps in Go variables. One SQL statement, or one
transaction, is one step, so another request's statements fall between a read and the write
that relies on it. `AcceptLogin` for example issues the token of the row `Login` read, as
`Login` in `auth_service.go` does after `ResetFailedLogins`, which works on whatever row is
there by then. `RequireAuth` and its claims validator are `Accepted`. `Abort` ends a handler
between two statements: a cancelled context, a lost connection, a mail that fails, the end of
the process. A request that is refused before it writes anything leaves no trace and is no
action.

Times are taken before statements run. `loc[r].since` is when a handler began to work towards its
next statement, and the statement gets any instant of `TimesOf(r)`, from then to now: the day and deadline
of a code (`auth_service.go:426`), the start of a lock, the test of a code's expiry when it is spent. So two
sends around midnight may be stored in the reverse order of their dates.

Abstractions: bcrypt and HMAC are equality; a code is the number of its issue, so codes are
unique; the clock counts minutes; `RequireAuth` tests the expiry of a token and looks up its row in one
step, and a token expires `TokenTTL` after the step that issues it;
`sent`, `spent` and `recovered` are history variables; a token carries the password it was
earned with, which no guard looks at.

### Trips: `TripRows`, `TripBoard`, `TripApi`

`TripRows` holds the rows, the validators (`validateDateRange`, `isDateWithinTrip`,
`validateFlightDates`, ...) and what the documents promise of the tables. One record type
serves the four child tables; a column a table lacks is empty. Columns no check looks at are
one field, `text`.

`TripBoard` is the abstract specification: trips and rows change by single legal edits, with
no requests, reads or locks. `TripApi` is the program: each read of a handler is a step that
keeps a copy in `call[r]`, then one writing statement runs as a transaction with its lock
steps. A dated INSERT or UPDATE locks its row, then (trigger, `FOR UPDATE`) its trip, then, for
a new `place_id`, the key of the place; DELETE of a trip locks the trip and then its rows one by
one in any order, DELETE of a place the place and then its schedules. `WaitsFor(r)` is the set of
requests whose locks the next step of `r` waits for, and a step is enabled only when it is
empty. Locks are not a variable: they follow from `at` and `call[r].held`. An UPDATE writes back
every column of the copy (`Rewritten`), as the repository does.

`ImplementsBoard == Board!Spec` says that `TripApi` implements `TripBoard` with the identity on
`trips` and `rows`: reads, lock steps, refusals and aborts are stutters, and each commit is one
board edit.

Not modelled: ids are never reused (the code draws random UUIDs); the statements that take one
lock and commit (DELETE of a row, UPDATE of a place or flight) are one step once the lock is
free; `routes`, which the API only reads; deletion of an account, which cascades to its trips.

### The web parts

Each module is one hook or component with what it talks to. The pattern is the same: React
state as variables; one action per handler; a request is a record in a slot that is sent,
served (or lost, or refused) and answered, three steps; the continuation after the `await` is
the action named `...Answered`, with what the code reads from its closure kept in the request
record and what it reads from state taken at that moment. An effect that runs later than its
cause is an action of its own with a variable that says it is due. Variables called history are
read by no guard.

* `SharedTripView`: `page` is the state and refs of the hook, `calls` its requests, `cache` its
  copies; `version`, `live` and `up` stand for the API. `LoadCopy` and `LoadTrip` are the effect
  offline and online, with the cleanup of the effect before it (`Cancelled`); `Succeed` and
  `Fail` the callbacks; `GoOnline`, `Focus` the listeners.
* `TripEditor`: one section at a time (schedules, places, flights, checklist), the rows on the
  server and on the screen, create and edit forms, locks by row, 401s that empty the page and the
  sign-in that fills it again. `mixed` marks rows whose writes overlapped a load or each other.
* `PlaceSearch`: query, results with the query and time they are for, the chosen place, the form
  it fills in. `RegisterForm`: mode, address, code, timer, proof. `ForgotPassword`: the panel, which
  is mounted anew each time it opens. `OtpCode`: boxes, focus, paste, backspace.
* `OwnerSession`: the session with its cookie, the list with its stored copy, creation and
  deletion, account page. `Sending` is `apiRequest` with its header and its 401.
* `ViewNavigation`: tab, fragment, effects and `hashchange`. `ViewSchedules`: kept order and marks,
  the trip of the sample and of an owner. `ViewChecklist`: the sample's checklist and the short list
  of the today tab. `Listing` is what JavaScript's `filter` and stable `sort` do to a list, by
  ranking positions, so that it can be reasoned about without recursion.
* `TripMap`: the map tab and the map under it. `effects` is what the last rendering still has to
  run; `queued` what was set and not rendered; `Cancelled` the cleanup of effects. `DrawPins` is the
  marker effect, `LoadAnswered` the promise of the library, `bare` a map made when no rendering
  follows (until pins are drawn), `moved` schedules that changed since a place was picked.
* `ExchangeRate`: the currency tool. A request is aborted by the next one and when the tool is
  closed, and counts as failed after eight seconds; `cache` is the rate in the browser. `rate` is what the
  tool converts by and keeps, `input` what its field shows. `Rounded` is the conversion between them when an
  answer comes (`toFixed(2)`): an even number stands for a rate of two decimals, an odd one for a rate with
  more, shown as the next even one. A rate from the browser, or a typed one, is shown with all its digits.
* `PwaUpdate`: forms with their value and the tracker's snapshot, writes in flight, the worker that
  waits, the status and the banner. `Reload` comes some time after the decision to apply, and drops what is
  there then.

`WebApp` composes them. `open` is the part that is explored; its state lives in `x1` ... `x21`, as
many as it has, and the rest is 0, so one state space is the sum and not the product of the
parts. This loses nothing: two parts that share no state cannot disturb each other, and what they
share through the browser (another tab that writes the storage, a cookie another tab clears) is an
action of the part itself (`OtherTab`, `CacheChanges`). `SharedTripView` is extended and keeps its
own variables. A property of the app is the property of the part when the part is open; two
properties that say the same of two parts have one name (`LabelsAreTrue`, `TodayComesFirst`,
`ReloadShowsTheSame`, `NoButtonStaysLocked`).

In each module a few operators named as variants of another (`ConsumableAnyTime`,
`KeptOfAnyToken`, `FailWithoutRetry`, ...) are plausible bugs. No action uses them; each is put in
the place of the operator it varies to see that a property notices it. The list is `mutants` in
`PROJECT.json`.

## 4. Runs

| Run | Instance | Shows |
|---|---|---|
| `auth_requests` | 2 requests, 1 address, 2 passwords, 2 accounts in turn, limits of 2, 7 codes, 4 minutes that are 2 days and 2 lock periods | `AcceptedSessionProvesPassword`, `LockMatchesFailures`, `GuessLimit`, `CodesSpentOnce`, `OnlyLiveCodesAreSpent`, `RegistrationSpendsWhatItCreates`, `DailySendBound`, in any order of the statements |
| `auth_daily_midnight` | 2 sends, without deletion | finding |
| `auth_daily_after_delete` | 1 request, with deletion | finding |
| `auth_mail_failure` | 1 request | finding |
| `trip_dates` | 2 requests, 1 trip, a schedule, a flight, a custom and a preset item, 3 days | `DatedItemsWithinTrip`, `RangesStayOrdered`, `ImplementsBoard` |
| `trip_owner` | 2 users with a trip each, 2 requests | `OnlyOwnersWrite` |
| `trip_locks` | 3 requests, a trip, a place, a schedule | `LinksResolve`, `DeadlocksNeedADelete`, `RequestsEnd` |
| `trip_patch` | 2 PATCHes of one schedule | finding |
| `web_pages` | all 13 parts; 2 requests, links, users, addresses, queries, forms, rows, stops, currencies | 17 invariants and 3 action properties: whatever is shown belongs to what it is shown for |
| `web_map_pins` | the map alone | finding |
| `web_recovery` | 8 parts under fairness; 2 requests, one of most else | `CopiesAreReplaced`, `NoButtonStaysLocked`, `ProofsExpire`, `NoticesComeAndGo` |
| `web_update_input` | 1 form | finding |

Why the bounds are enough to be interesting. Every race named in the hazards is between two
handlers or two requests, so two show it; a circle of locks needs a deleter, a row writer and, to
keep a waiter waiting, a third. Two accounts at one address let one be deleted and registered
again while a handler still holds the first. `auth_requests` explores four kinds of histories
(`OneKindOfHistory`), each with its own share of the bounds: everything at one instant, with two codes and two
accounts one after the other (`AtOneInstant`); logins of one account over the lock periods (`OfOneAccount`); three
codes that are sent, replaced, verified, spent and expire over a day and into the next (`OfCodes`); and sends
only, over all days, as many as `DailySendBound` could be broken with (`OfSends`). Three days, because an arrival may be one day early and not
two. `OneKindOfRow` (a state constraint of `trip_dates`) explores flights and dated rows one kind at
a time: their statements touch no common row but the trip, which each kind meets with two
requests. In the web runs two values of each kind let an answer be for the wrong one;
`MaxChanges` bounds the changes of passwords and deletions of accounts, `MaxCodes` the codes, `MaxVersion`
and `MaxUpdates` the edits and releases, `MaxRate` the rates. `DayPlans` of `MCWebApp` are three
plans of a map: two days of a trip, the second of them over, and the trip loaded again with a place that
has no coordinates. `web_pages` has one trip, so that several deletions of trips at once are covered by the
theorem only, and `trip_owner` takes only some of the paths by which preset items are written. What is proved
(section 5) does not depend on the bounds.

`CHECK_DEADLOCK FALSE` stands where the bounds (clock, codes, accounts, ids that are never
reused, releases) let an instance run out of things to do. Symmetry is declared on what no
definition tells apart (request slots, ids a table hands out, links, users), never in a run with a
liveness property.

Fairness. The safety runs assume none. `FairSpec` of `TripApi` is strong fairness of each
request's reads and writes (a goroutine runs on, and PostgreSQL queues the waiters of a row lock, so
one that is free again and again is granted) and weak fairness of ending one statement of a circle
(`deadlock_timeout`). No request has to arrive and none is aborted by fairness. `FairApp` is weak
fairness, in the open part, of: each request slot being served and answered (`fetch` settles; a
slot is either sent or settled, so one condition says both; a rate is given up after 8 seconds);
effects (React runs them); timers; time; a page that is told to reload; and `Focus` of a shared trip:
USER_FLOW.md:116 promises recovery when the user returns, so the user is assumed to return. The
browser gives no such promise for the current location when nobody answers its question, so the
button of the map is not among the locks of `NoButtonStaysLocked`. `CopiesAreReplaced` supposes that
the user stays with one link in the end.

### Findings

* `auth_daily_after_delete`: deleting an account deletes its challenges and with them the daily
  counter, so more than three codes a day are sent to an address
  (`postgres_user_repository.go:217`, message at `auth_service.go:34`).
* `auth_daily_midnight`: the day of a send is taken before its statement runs (`auth_service.go:426`), and the
  upsert starts the counter again whenever the stored day differs (`postgres_verification_repository.go:37-55`).
  A send dated yesterday and stored after one of today takes the counter back to yesterday, and today's next
  send starts at one: more than three a day, against the same message. What is left is `DailySendBound`.
* `auth_mail_failure`: a recovery whose mail fails has already spent the code and replaced the
  password, so the retry the 502 message proposes cannot succeed (`auth_service.go:264`).
* `trip_patch`: a PATCH of a schedule writes back fields it was not sent, from a copy, and undoes a
  PATCH that commits in between (`trip_service.go:270`, comment at `:236`). That same write-back
  is what keeps ranges ordered when two PATCHes each move one end: writing only the given
  columns breaks `RangesStayOrdered` (a mutant of `trip_dates`).
* `web_update_input`: a form that was filled in by a button, with no focus in it, has no snapshot, so
  an update is applied at once and the reload drops it (`pwaUpdateCoordinator.ts:64`, against
  docs/TECH_DESIGN.md:145 and docs/FEATURES.md:70).
* `web_map_pins`: when the trip is loaded again and the library of the map is there already, "loading" and
  "ready" are set before one rendering, the marker effect does not run, and the map stays ready without pins
  until the tab renders again (`TravelMap.tsx:152`, against docs/TECH_DESIGN.md:135).

### What the properties leave out

The models do the following because the code does, and the properties are worded around it (most by a
history variable). No document promises otherwise unless said.

* Editor: a load that was read before a write replaces the row the write changed (`mixed`); text
  typed while its creation is in flight is cleared by the answer; the category of a place is inferred
  from the query in the field when it is chosen, and kept after the creation.
* Registration: the answer to a verification that comes after the form changed, or after the five minutes, is
  taken for one about the form as it then is: it shows "verified" over a pair nobody confirmed, or a proof
  with no timer (`stale`); the server refuses that registration. `VerifiedPairWasConfirmed` and `ProofsExpire`
  speak of all other answers.
* Logins: `GuessLimit` counts the guesses whose failure is recorded or about to be; one whose handler ends between
  the comparison and `RecordFailedLogin` (`Abort`) leaves no trace.
* Session: one stored list for all users, shown when the list fails to load; signing in while a logout
  is in flight; a late answer to a password change signs in again after a logout; a failed deletion
  hides the list; a second deletion overwrites `deletingTripID`.
* Update: the coordinator asks once; what is typed, filled in or sent between its decision and the reload is lost,
  although docs/FEATURES.md:70 promises an update that loses no form. `TypedInputSurvivesUpdates` says that the
  decision finds nothing to lose, and that the reload costs no form left alone since (`safe`). The offered button applies without looking at the forms again (`pwaStatus.ts:32`); the
  notice is overwritten by offline and online; a form that was saved and typed back to its first
  value counts as clean.
* Trip view: two tabs overwrite whole keys of `localStorage`; the map of the finding `web_map_pins` is left out of
  `MapShowsChoice` until pins are drawn again (`bare`); the bright pin stays on the picked place when the next
  stop changes (`moved`, `MapTab.tsx:89`).
* Currency tool: a late answer replaces a typed rate and leaves the amounts converted by the old one
  under "latest" (`late`); after a failed request the field may show a typed rate that is not used. The field
  shows an answered rate rounded, so the amounts need not be what one computes from the field; a tool that
  is opened again shows all digits of the rate it keeps, and converts as before (`ReopenConvertsTheSame`).

## 5. Proofs

Every safety property of a passing run is proved, for any sets of requests, addresses, users, rows,
links, calls and queries and any bounds. The assumptions are named where the constants are declared and
evaluated by TLC on each run: `AccountsAssumption`, `NoUserAssumption`, `VerificationAssumption`,
`NoChallengeAssumption`, `AuthApiAssumption`, `TripRowsAssumption`, `TripApiAssumption`,
`SharedTripAssumption`, and for each other part of the web app its `ConstantsOK`, which `WebApp` assumes
(`EditorAssumption` ... `ChecksAssumption`). They say that bounds are natural numbers, limits positive,
tables disjoint, null values no members of the sets they complete, and the requests of `AuthApi`
finitely many, since `GuessLimit` counts them. Four say more about the data:

* `DaysAssumption`: the schedules the server sends come once each and sorted by date
  (`ORDER BY date, sort_order`, `postgres_trip_repository.go:453`). Without it the next schedule need
  not be the earliest, since later ones are searched in the server's order.
* `ChecksAssumption`: items of the sample are of the categories and dates of the trip, and `before`, the
  first category of the form, is one.
* `MapAssumption`: the stops and places of a plan are sequences, and no stop is `Nowhere`.
* `OtpAssumption`: there is a box, and no digit is blank.

| Theorem | Property |
|---|---|
| `AuthApi_proofs!TypeCorrect`, `SessionsProvePassword` | `TypeOK`, `AcceptedSessionProvesPassword` |
| `AuthApi_proofs!CodesAreSpentOnce`, `OnlyLiveCodes`, `RegistrationsSpendCodes` | `CodesSpentOnce`, `OnlyLiveCodesAreSpent`, `RegistrationSpendsWhatItCreates` |
| `AuthApi_proofs!LocksMatchFailures`, `GuessesAreLimited` | `LockMatchesFailures`, `GuessLimit` |
| `AuthApi_proofs!DailySends` | `DailySendBound`, while no account is deleted |
| `TripApi_proofs!TypeCorrect`, `DatesStayWithin`, `LinksStayLive`, `RangesKeepOrder`, `OwnersOnly`, `DeadlocksHaveADelete` | `TypeOK`, `DatedItemsWithinTrip`, `LinksResolve`, `RangesStayOrdered`, `OnlyOwnersWrite`, `DeadlocksNeedADelete` |
| `TripApi_proofs!BoardImplemented` | `ImplementsBoard` |
| `SharedTripView_proofs!TypeCorrect`, `ShownIsOwn`, `CopiesMarked`, `NeverOlder` | `TypeOK`, `ShownBelongsToLink`, `CopiesAreMarked`, `NeverSilentlyOlder` |
| `TripEditor_proofs!EditorTypes`, `OneCreation`, `ListIsRight`; `RegisterForm_proofs!RegisterTypes`, `VerifiedPair`; `PlaceSearch_proofs!SearchTypes`, `SavedPlaces`, `SearchedLabel`; `OwnerSession_proofs!OwnerTypes`, `ListBelongs`, `ListCurrent` | types and properties of these parts alone |
| `WebApp_proofs!SharedTripAlone` | `AppSpec => Spec`: the app implements the shared page |
| `WebApp_proofs!AppTypes` | `AppTypeOK` |
| `WebApp_proofs!AppShownIsOwn`, `AppCopiesMarked`, `AppNeverOlder` | the three of the shared page, in the app |
| `WebApp_proofs!AppListIsRight`, `AppOneCreation`, `AppVerifiedPair`, `AppSavedPlaces`, `AppListBelongs`, `AppListIsCurrent` | `ListMatchesServer`, `OneCreationInFlight`, `VerifiedPairWasConfirmed`, `SavedPlaceIsOnePlace`, `ListBelongsToUser`, `ListIsCurrent` |
| `WebApp_proofs!AppLabels`, `AppShownPassword`, `AppOneField`, `AppTypedInput` | `LabelsAreTrue`, `ShownPasswordWorks`, `BoxesAreOneField`, `TypedInputSurvivesUpdates` |
| `WebApp_proofs!AppFragment`, `AppMap`, `AppToday`, `AppMoves`, `AppTicks`, `AppReload` | `ViewMatchesHash`, `MapShowsChoice`, `TodayComesFirst`, `MoveSwapsNeighbours`, `TicksBelongToItems`, `ReloadShowsTheSame` |

**Sessions.** The property speaks of accepted tokens only, but a token is issued from a row
read earlier, so the invariant has to speak of handlers too. `SessionInv`: each token, and each
login that compared and has not answered, carries a version that is not ahead of its account's,
and at the same version the same password (`Fits`). A change raises the version with the
password in one statement, so whatever fitted either still does or has an older version.

**Codes.** `CodesInv`: a challenge that is not consumed holds the last code sent to its address
and purpose, with that code's deadline, and nothing was obtained for it. Consuming tests this
row and marks it in one transaction, so a second consumer finds it marked.

`RegistrationInv` adds that every account id has a registration in `spent` and that a consumed
challenge is one whose last code was spent, since SaveVerifiedUser inserts the account and consumes the code
in one transaction.

**Lockouts.** `GuessLimit` alone is not inductive: a login let in after a lock has expired adds a failure to a
counter that nobody reset, and nothing says that there is room. Nor is it enough to say that a locked account
stays locked to the end of its period, since a failure may be recorded with a time of the period before and shorten
the lock. `GuessInv` splits the requests that compared into those that did so before this period (`Stragglers`) and the
rest (`Guessing`): while S of R requests are stragglers, the account has room for 1 + ... + (R - S) guesses
of this period, because each straggler that is recorded may open the account once, to the requests that are free
by then. `LockMatchesFailures` is needed to know that an account without a lock is below the limit, and
`TimesArePast` that no time is still to come.

**Daily limit.** The limit itself fails (two findings). `DailyInv` says what the counter still bounds: of today's codes
(`TodayFits`), the sends in flight that may be dated earlier each start the counter at most once more; of an earlier day's
(`PastFits`), every send still in flight since then adds one at most, and none while the counter stands at
that day's limit. The theorem assumes that no request deletes an account. With one request at a time
`DailySendBound` is the limit of the message.

**Trips.** `IInv` joins the four safety properties with what a handler knows at each step
(`WriterInv`, `ChangerInv`, `TripInv`, `HeldInv`) and that two requests never hold the same lock
or have drawn the same id (`PairInv`). The heart is the step `commit`: between the trigger's
check and the commit the trip is locked, so `Within(new.date, trips[trip].span)`, a fact about a
row others may read but not move, survives their steps; the other side is `commitTrip`, whose
`Contained` survives because nobody may pass the trigger. Each commit is shown to be one board
edit, which gives `BoardImplemented`, and every board edit keeps the table properties, which
gives the invariants. `OwnersOnly` uses `OwnerInv` in addition: past its check, a handler's user is
the owner of the trip it names, since ids are not reused and owners do not change. For
deadlocks, order the steps write, guard, commit: without a cascading delete whoever waits
waits for a request further on, so a circle is impossible.

**Shared page.** `IInv`: stored copies are the link's own and no newer than its trip
(`CopyInv`), what is shown belongs to the link the effect ran for last (`PageInv`), and at most
one call is not cancelled, which is for that link and, once answered, no older than what is
shown (`CallInv`). The last conjunct is why overtaking answers cannot take the page back.

**Editor.** `IInv`: whoever has a creation in flight has its form locked, and there is at most one
(`CreationsOK`); at most one load is alive, and one that was alone with the rows answers with what they
are (`LoadsOK`); nobody knows of a row that was not created (`UnusedOK`); a row whose writes did not
overlap has at most one request (`OneEach`), and the card on the screen, the row on the server and what
that request says fit together (`RowsOK`). `ListMatchesServer` is `RowsOK` when no request is left.

**Registration.** `AloneIsAboutForm`: a verification in flight whose form did not change is about the
address and code of the form; `AnswersAreConfirmed`: a positive answer is about a confirmed pair.

**Session and list.** `BelongsInv`: a trip has one owner (`OneOwner`); an answer carries what the sender's account
had (`AnswersAreSenders`); the header is the session of the cookie unless another tab changed it
(`HeaderIsSession`); a load that will be shown was asked for by the account of the header (`LoadIsForAccount`).
`CurrentInv` adds the ledger behind `ListIsCurrent`: the trips of the server are the list on the screen, plus
creations and minus deletions that were served and not answered yet (`ListPlusNews`). The step cases are
grouped by kind (sending, serving, answering, leaving), since the same facts carry all of one kind.

**Forgotten password.** `PanelInv`: codes are numbered as issued, so a later code equals no code a reset in flight
carries; the panel waits for one reset at a time (`OneIsAwaited`); hence an account keeps the password of
a returned reset until somebody submits again (`OutcomesWork`).

**Update.** `TrackerInv`: until a form is touched, its snapshot, or the form itself while there is none, is what the
server has. An update applies itself only when no form differs from its snapshot, so nothing typed before is lost;
and a form in `safe` is as the decision found it.

**Code field.** `FieldInv`: until the user moves it, the focus stands behind the digits. `OtpFilled` and
`OtpCleared` then say that joining the boxes appends, or takes the last digit.

**Schedules and checklist.** The code filters and sorts. `Listing` ranks positions, and the lemmas
`RanksAreOneToOne`, `ListedMembers`, `ListedByWeight` and `ListedOnce` say once that ranks have no gaps and no
ties, that a list has the members of the filter, each as often, sorted by weight, and that equal weights keep
their order. `DaysReordered` follows: the order a move keeps is the order shown next, whatever the kept
order named before. `KeptInv` of the two modules says that order, dates, own and hidden items are kept as shown,
that ids of own items are given once, and that marks are kept as shown as long as no other tab writes.

**Navigation, map, currency.** `BrowsingInv`, `RateInv` are the properties with types and, for the rate, that a request
that is not aborted asks for the currency on the screen. `MapInv` adds that a ready map exists (`ReadyHasMap`) and
that whoever waits for the library has none and waits alone (`WaitingHasNone`). Proving it showed that
`FirstStop` of `TripMap` was a `CASE` with overlapping guards, of which TLC takes the first and the logic any; the
guards are disjoint now.

**Composition.** `AppStep`: a step of the app leaves `open` and is a step of the part that is open, or leaves its
variables alone. So either the part is open throughout and behaves as it does alone, or it never opens
(`EditorAlone`, `DaysAlone`, ...), and every theorem about a part, with `x1` ... in place of its variables,
holds of the app. `SharedTripAlone` is the same for the part that keeps its own variables.

Only model-checked: liveness (`RequestsEnd`, `CopiesAreReplaced`, `NoButtonStaysLocked`, `ProofsExpire`,
`NoticesComeAndGo`), because temporal reasoning with fairness and ENABLED is out of the prover's reach; and the
six findings, which are counterexamples.

## 6. Not modelled

* Share links (`SaveShareLink`, `GetSharedTrip`) and the form that makes them: planned. The page behind a
  link is modelled and treats an answer as one version of the trip.
* The monthly quota: test and increment are one conditional upsert, which a module would restate. The
  limiter is `golang.org/x/time/rate` and a map under one mutex.
* The editor of a trip's basic data: one form with one request.
* In-memory repositories: development only, without triggers or transactions across tables.
* The sheet of one place, flights, phrases for taxi drivers, styles, sample data: they draw what other parts
  hold. Logging and alerts, DTOs and JSON, start-up and migrations, infrastructure, the iOS shell: no state
  that the properties could be about.

`components` in `PROJECT.json` gives the reason for each.
