------------------------------ MODULE OwnerSession -----------------------------
(* The trip list and the account page of the web app: the session that a page *)
(* restores, opens and ends (useTripManageSessionTrips, AccountSettings), and *)
(* the owner's trip list that an effect loads whenever the account in the     *)
(* state of the page becomes another object.  A request is sent, served and   *)
(* answered in three steps; the cookie of an answer and what the page does    *)
(* with it are one step.                                                      *)
EXTENDS Naturals, FiniteSets

CONSTANTS
    Users,      \* accounts
    Ids,        \* ids the server may give to trips
    Slots,      \* requests that may be in flight at once
    NoUser,     \* null
    MaxChanges  \* bound: changes of passwords and deletions of accounts

None == 0
Nobody == [user |-> NoUser, at |-> 0]
Credentials == [user: Users, at: 0..MaxChanges] \cup {Nobody}

VARIABLES
    page,      \* "list" or "account"
    moved,     \* the URL was replaced by that of the list; seen when App renders
    checked,   \* authChecked
    auth,      \* ownerAuth: the user, and the access token, empty when restored
    list,      \* ownerTrips, and where they are from
    loading, listError, signing, creating, deleting,
    leaving, changing, erasing,   \* the state of the account page's sections
    calls

VARIABLES
    cookie,    \* the browser: the session cookie, shared with other tabs
    cache,     \* the browser: the stored copy of the list, or none
    online,    \* the browser: navigator.onLine
    since,     \* the server: password changes of each account
    trips      \* the server: the trips of each user; NoUser's are not used yet

(* History: another tab replaced the cookie; a write whose outcome is unknown, *)
(* or that overlapped a load of the list.                                     *)
VARIABLES foreign, blurred

sections == <<leaving, changing, erasing>>
listVars == <<list, loading, listError, creating, deleting>>
browser == <<cookie, cache, online>>
server == <<since, trips>>
vars == <<page, moved, checked, auth, listVars, signing, sections, calls, browser, server,
          foreign, blurred>>

Free == [op |-> "free"]
Ops == {"me", "list", "login", "logout", "create", "delete", "password", "erase"}

(* as: the credentials sent; arg: the user whose password is sent, or the     *)
(* trip; live:                                                                *)
(* the effect or the section that waits for the answer is still there; got:   *)
(* what the answer brings.                                                    *)
Calls == {Free} \cup
    [op: Ops, as: Credentials, arg: Users \cup Ids \cup {None}, live: BOOLEAN,
     st: {"sent", "ok", "failed", "denied"}, got: [trips: SUBSET Ids, session: Credentials]]

NoAnswer == [trips |-> {}, session |-> Nobody]
Answer(c) == [NoAnswer EXCEPT !.session = c]
SignedOut == [user |-> NoUser, token |-> Nobody]
NoTrips == [trips |-> {}, from |-> "none"]

TypeOK ==
    /\ page \in {"list", "account"} /\ moved \in BOOLEAN
    /\ checked \in BOOLEAN
    /\ auth \in [user: Users, token: Credentials] \cup {SignedOut}
    /\ list \in [trips: SUBSET Ids, from: {"none", "server", "cache"}]
    /\ {loading, listError, signing, creating} \subseteq BOOLEAN
    /\ deleting \in Ids \cup {None}
    /\ {leaving, changing, erasing} \subseteq BOOLEAN
    /\ calls \in [Slots -> Calls]
    /\ cookie \in Credentials
    /\ cache \in {NoTrips} \cup [trips: SUBSET Ids, from: {"cache"}]
    /\ online \in BOOLEAN
    /\ since \in [Users -> 0..MaxChanges]
    /\ trips \in [Users \cup {NoUser} -> SUBSET Ids]
    /\ foreign \in BOOLEAN /\ blurred \in BOOLEAN

-----------------------------------------------------------------------------
(* Requests.                                                                  *)

(* apiRequest: the token when there is one, else the cookie of the moment.    *)
Sending == IF auth.token = Nobody THEN cookie ELSE auth.token
Request(op, as, arg) == [op |-> op, as |-> as, arg |-> arg, live |-> TRUE,
                         st |-> "sent", got |-> NoAnswer]
Send(s, op, arg) ==
    calls[s] = Free /\ calls' = [calls EXCEPT ![s] = Request(op, Sending, arg)]

Accepted(c) == c.as # Nobody /\ c.as.at = since[c.as.user]
Settled(s, op) == calls[s].op = op /\ calls[s].st # "sent"
InFlight(ops) == \E s \in Slots : calls[s].op \in ops
Orphaned(c, ops) == IF c.op \in ops THEN [c EXCEPT !.live = FALSE] ELSE c
OthersOrphaned(s, ops) ==
    [t \in Slots |-> IF t = s THEN calls[t] ELSE Orphaned(calls[t], ops)]

(* The button of a section that waited for the answer is unlocked, whatever   *)
(* the answer is; of a section that is gone, nothing.                         *)
UnlockedOnSuccess(locked, c) == locked /\ ~(c.live /\ c.st = "ok")
Unlocked(locked, c) == locked /\ ~c.live

-----------------------------------------------------------------------------
(* What a change of the account in the page's state sets off.                 *)

(* App reads the URL when it renders.                                         *)
Rerender == page' = (IF moved THEN "list" ELSE page) /\ UNCHANGED moved

(* The effect on ownerAuth: the load before it is cancelled, and the list is  *)
(* asked for as the new account -- in the slot of the answer that set it --   *)
(* or taken from the copy when the browser is offline.                        *)
NotCancelled(s) == calls
Cancelled(s) == OthersOrphaned(s, {"list"})

LoadTrips(s, new) ==
    IF online
    THEN /\ calls' = [Cancelled(s) EXCEPT ![s] =
                        Request("list", IF new.token = Nobody THEN cookie' ELSE new.token, None)]
         /\ loading' = TRUE /\ listError' = FALSE
         /\ UNCHANGED list
    ELSE /\ calls' = [Cancelled(s) EXCEPT ![s] = Free]
         /\ list' = IF cache # NoTrips THEN cache ELSE list
         /\ loading' = FALSE /\ listError' = (cache = NoTrips)

(* clearOwnerSessionBase: the account and the trips go, and with the account  *)
(* the sections of its page and the effect that loads; loading is left as is. *)
ClearOwnerSession(s) ==
    /\ auth' = SignedOut
    /\ list' = NoTrips
    /\ leaving' = FALSE /\ changing' = FALSE /\ erasing' = FALSE
    /\ calls' = [OthersOrphaned(s, {"list", "logout", "password", "erase"}) EXCEPT ![s] = Free]

-----------------------------------------------------------------------------
(* The session is restored when the page is opened.                           *)

MeAnswered(s) ==
    /\ Settled(s, "me")
    /\ checked' = TRUE
    /\ IF calls[s].st = "ok"
       THEN /\ auth' = [user |-> calls[s].as.user, token |-> Nobody]
            /\ UNCHANGED cookie
            /\ LoadTrips(s, auth')
       ELSE /\ calls' = [calls EXCEPT ![s] = Free]
            /\ UNCHANGED <<auth, list, loading, listError, cookie>>
    /\ Rerender
    /\ UNCHANGED <<creating, deleting, signing, sections, cache, online, server, foreign, blurred>>

(* Any failure of the list, a 401 included, looks for the copy first.         *)
ListAnswered(s) ==
    LET c == calls[s] IN
    /\ Settled(s, "list") /\ c.live
    /\ loading' = FALSE
    /\ \/ /\ c.st = "ok"
          /\ list' = [trips |-> c.got.trips, from |-> "server"]
          /\ cache' = [trips |-> c.got.trips, from |-> "cache"]
          /\ foreign' = (foreign /\ auth.token = Nobody)
          /\ blurred' = (blurred \/ moved \/ InFlight({"create", "delete"}))
          /\ calls' = [calls EXCEPT ![s] = Free]
          /\ UNCHANGED <<auth, listError, sections>>
       \/ /\ c.st # "ok" /\ cache # NoTrips
          /\ list' = cache
          /\ calls' = [calls EXCEPT ![s] = Free]
          /\ UNCHANGED <<auth, listError, sections, cache, foreign, blurred>>
       \/ /\ c.st = "failed" /\ cache = NoTrips
          /\ listError' = TRUE
          /\ calls' = [calls EXCEPT ![s] = Free]
          /\ UNCHANGED <<auth, list, sections, cache, foreign, blurred>>
       \/ /\ c.st = "denied" /\ cache = NoTrips
          /\ ClearOwnerSession(s)
          /\ listError' = FALSE
          /\ UNCHANGED <<cache, foreign, blurred>>
    /\ Rerender
    /\ UNCHANGED <<checked, creating, deleting, signing, cookie, online, server>>

ListCancelled(s) ==
    /\ Settled(s, "list") /\ ~calls[s].live
    /\ calls' = [calls EXCEPT ![s] = Free]
    /\ UNCHANGED <<page, moved, checked, auth, listVars, signing, sections, browser, server,
                   foreign, blurred>>

-----------------------------------------------------------------------------
(* Signing in and out.                                                        *)

AuthForm == checked /\ auth = SignedOut

SubmitAuth(s, u) ==
    /\ AuthForm /\ ~signing
    /\ signing' = TRUE
    /\ Send(s, "login", u)
    /\ UNCHANGED <<page, moved, checked, auth, listVars, sections, browser, server, foreign,
                   blurred>>

AuthAnswered(s) ==
    /\ Settled(s, "login")
    /\ signing' = FALSE
    /\ IF calls[s].st = "ok"
       THEN /\ cookie' = calls[s].got.session
            /\ auth' = [user |-> calls[s].arg, token |-> calls[s].got.session]
            /\ LoadTrips(s, auth')
       ELSE /\ calls' = [calls EXCEPT ![s] = Free]
            /\ UNCHANGED <<cookie, auth, list, loading, listError>>
    /\ Rerender
    /\ UNCHANGED <<checked, creating, deleting, sections, cache, online, server, foreign,
                   blurred>>

AccountShown == page = "account" /\ checked /\ auth # SignedOut

(* What the account page offers: each section is locked by its own request.   *)
LogoutButton == AccountShown /\ ~leaving
PasswordForm == AccountShown /\ ~changing
DeletionForm == AccountShown /\ ~erasing

HandleLogout(s) ==
    /\ LogoutButton
    /\ leaving' = TRUE
    /\ Send(s, "logout", None)
    /\ UNCHANGED <<page, moved, checked, auth, listVars, signing, changing, erasing, browser,
                   server, foreign, blurred>>

(* logoutOwnerSession and logoutOwner: the page is signed out only after the  *)
(* server has cleared the cookie; when it fails nothing changes.              *)
LogoutAnswered(s) ==
    /\ Settled(s, "logout")
    /\ IF calls[s].st = "ok"
       THEN /\ ClearOwnerSession(s)
            /\ cookie' = Nobody
            /\ listError' = FALSE
            /\ Rerender
       ELSE /\ calls' = [calls EXCEPT ![s] = Free]
            /\ leaving' = Unlocked(leaving, calls[s])
            /\ UNCHANGED <<page, moved, auth, list, listError, changing, erasing, cookie>>
    /\ UNCHANGED <<checked, loading, creating, deleting, signing, cache, online, server, foreign,
                   blurred>>

-----------------------------------------------------------------------------
(* The account page: changing the password and deleting the account.          *)

HandlePasswordChange(s) ==
    /\ PasswordForm
    /\ changing' = TRUE
    /\ Send(s, "password", auth.user)
    /\ UNCHANGED <<page, moved, checked, auth, listVars, signing, leaving, erasing, browser,
                   server, foreign, blurred>>

(* The answer is the new session, whether or not this one has ended.          *)
PasswordAnswered(s) ==
    LET c == calls[s] IN
    /\ Settled(s, "password")
    /\ changing' = Unlocked(changing, c)
    /\ IF c.st = "ok"
       THEN /\ cookie' = c.got.session
            /\ auth' = [user |-> c.got.session.user, token |-> c.got.session]
            /\ LoadTrips(s, auth')
            /\ Rerender
       ELSE /\ calls' = [calls EXCEPT ![s] = Free]
            /\ UNCHANGED <<page, moved, cookie, auth, list, loading, listError>>
    /\ UNCHANGED <<checked, creating, deleting, signing, leaving, erasing, cache, online, server,
                   foreign, blurred>>

HandleDeleteAccount(s) ==
    /\ DeletionForm
    /\ erasing' = TRUE
    /\ Send(s, "erase", auth.user)
    /\ UNCHANGED <<page, moved, checked, auth, listVars, signing, leaving, changing, browser,
                   server, foreign, blurred>>

(* The cookie is cleared, and the logout that follows is not waited for.      *)
AccountDeleted(s) ==
    LET c == calls[s] IN
    /\ Settled(s, "erase")
    /\ erasing' = Unlocked(erasing, c)
    /\ IF c.st = "ok"
       THEN /\ cookie' = Nobody
            /\ moved' = TRUE
            /\ calls' = [calls EXCEPT ![s] = [Request("logout", Nobody, None) EXCEPT !.live = FALSE]]
       ELSE /\ calls' = [calls EXCEPT ![s] = Free]
            /\ UNCHANGED <<cookie, moved>>
    /\ blurred' = (blurred \/ c.st # "denied")
    /\ UNCHANGED <<page, checked, auth, listVars, signing, leaving, changing, cache, online,
                   server, foreign>>

-----------------------------------------------------------------------------
(* The list page: creating and deleting trips.                                *)

ListPage == page = "list" /\ checked /\ auth # SignedOut /\ ~loading /\ ~listError

CreateForm == ListPage /\ ~creating

SubmitNewTrip(s) ==
    /\ CreateForm /\ online
    /\ creating' = TRUE
    /\ Send(s, "create", None)
    /\ UNCHANGED <<page, moved, checked, auth, list, loading, listError, deleting, signing,
                   sections, browser, server, foreign, blurred>>

(* The new trip is put on the list and its editor is opened: the page leaves. *)
NewTripAnswered(s) ==
    LET c == calls[s] IN
    /\ Settled(s, "create")
    /\ creating' = FALSE
    /\ IF c.st = "denied"
       THEN ClearOwnerSession(s)
       ELSE /\ list' = [list EXCEPT !.trips = @ \cup (IF c.st = "ok" THEN c.got.trips ELSE {})]
            /\ calls' = [calls EXCEPT ![s] = Free]
            /\ UNCHANGED <<auth, sections>>
    /\ listError' = (listError /\ c.st # "ok")
    /\ blurred' = (blurred \/ c.st = "failed" \/ InFlight({"list"}))
    /\ foreign' = (foreign \/ auth.user # c.as.user)
    /\ Rerender
    /\ UNCHANGED <<checked, loading, deleting, signing, browser, server>>

(* One slot remembers which trip is being deleted; an error takes the place   *)
(* of the list.                                                               *)
DeleteOwnerTrip(s, i) ==
    /\ ListPage
    /\ i \in list.trips
    /\ deleting # i
    /\ \/ /\ online
          /\ deleting' = i
          /\ listError' = FALSE
          /\ Send(s, "delete", i)
       \/ /\ ~online
          /\ listError' = TRUE
          /\ UNCHANGED <<deleting, calls>>
    /\ UNCHANGED <<page, moved, checked, auth, list, loading, creating, signing, sections,
                   browser, server, foreign, blurred>>

FilteredLater(trip) == list
Filtered(trip) == [list EXCEPT !.trips = @ \ {trip}]

TripDeleteAnswered(s) ==
    LET c == calls[s] IN
    /\ Settled(s, "delete")
    /\ deleting' = None
    /\ IF c.st = "ok"
       THEN list' = Filtered(c.arg) /\ UNCHANGED listError
       ELSE listError' = TRUE /\ UNCHANGED list
    /\ blurred' = (blurred \/ c.st = "failed" \/ InFlight({"list"}))
    /\ calls' = [calls EXCEPT ![s] = Free]
    /\ Rerender
    /\ UNCHANGED <<checked, auth, loading, creating, signing, sections, browser, server, foreign>>

-----------------------------------------------------------------------------
(* The server.  A request may fail without effect, and the answer of one that *)
(* was carried out may be lost.                                               *)

Gives(s, got) ==
    \/ calls' = [calls EXCEPT ![s].st = "ok", ![s].got = got]
    \/ calls' = [calls EXCEPT ![s].st = "failed"]
Refused(s) ==
    LET c == calls[s] IN
    calls' = [calls EXCEPT ![s].st =
                IF c.op \in {"login", "logout"} \/ Accepted(c) THEN "failed" ELSE "denied"]

ServeReading(s) ==
    LET c == calls[s] IN
    /\ \/ Accepted(c) /\ c.op = "me" /\ Gives(s, Answer(c.as))
       \/ Accepted(c) /\ c.op = "list" /\ Gives(s, [NoAnswer EXCEPT !.trips = trips[c.as.user]])
       \/ c.op = "login" /\ Gives(s, Answer([user |-> c.arg, at |-> since[c.arg]]))
       \/ c.op = "logout" /\ Gives(s, NoAnswer)
    /\ UNCHANGED server

ServeWriting(s) ==
    LET c == calls[s] IN
    /\ Accepted(c)
    /\ \/ /\ c.op = "create"
          /\ \E i \in trips[NoUser] :
               /\ trips' = [trips EXCEPT ![c.as.user] = @ \cup {i}, ![NoUser] = @ \ {i}]
               /\ Gives(s, [NoAnswer EXCEPT !.trips = {i}])
          /\ UNCHANGED since
       \/ /\ c.op = "delete" /\ c.arg \in trips[c.as.user]
          /\ trips' = [trips EXCEPT ![c.as.user] = @ \ {c.arg}]
          /\ Gives(s, NoAnswer)
          /\ UNCHANGED since
       \/ /\ c.op = "password" /\ c.arg = c.as.user /\ \A u \in Users : since[u] < MaxChanges
          /\ since' = [since EXCEPT ![c.as.user] = @ + 1]
          /\ Gives(s, Answer([user |-> c.as.user, at |-> since[c.as.user] + 1]))
          /\ UNCHANGED trips
       \/ /\ c.op = "erase" /\ c.arg = c.as.user /\ \A u \in Users : since[u] < MaxChanges
          /\ since' = [since EXCEPT ![c.as.user] = @ + 1]
          /\ trips' = [trips EXCEPT ![c.as.user] = {}]
          /\ Gives(s, NoAnswer)

Serve(s) ==
    /\ calls[s] # Free
    /\ calls[s].st = "sent"
    /\ \/ Refused(s) /\ UNCHANGED server
       \/ ServeReading(s)
       \/ ServeWriting(s)
    /\ UNCHANGED <<page, moved, checked, auth, listVars, signing, sections, browser, foreign,
                   blurred>>

-----------------------------------------------------------------------------
(* The browser: another tab signs in or out (bound: once, and while the page  *)
(* has no token of its own), the connection comes and goes.                   *)

OtherTab(c) ==
    /\ ~foreign /\ auth.token = Nobody
    /\ c # cookie
    /\ c # Nobody => c.at = since[c.user]
    /\ cookie' = c
    /\ foreign' = TRUE
    /\ UNCHANGED <<page, moved, checked, auth, listVars, signing, sections, calls, cache, online,
                   server, blurred>>

ConnectionChanges ==
    /\ online' = ~online
    /\ UNCHANGED <<page, moved, checked, auth, listVars, signing, sections, calls, cookie, cache,
                   server, foreign, blurred>>

(* Links between the pages load them anew, a created trip opens its editor    *)
(* and the user comes back: nothing but the browser's state is left.          *)
OpenedCalls(s, c) == [t \in Slots |-> IF t = s THEN Request("me", c, None) ELSE Free]

OpenPage(p) ==
    /\ page' = p /\ moved' = FALSE /\ checked' = FALSE /\ auth' = SignedOut
    /\ list' = NoTrips /\ loading' = FALSE /\ listError' = FALSE
    /\ creating' = FALSE /\ deleting' = None /\ signing' = FALSE
    /\ leaving' = FALSE /\ changing' = FALSE /\ erasing' = FALSE
    /\ foreign' = FALSE /\ blurred' = FALSE
    /\ \E s \in Slots : calls' = OpenedCalls(s, cookie)
    /\ UNCHANGED <<browser, server>>

-----------------------------------------------------------------------------
(* Before a page is opened.                                                   *)
Init ==
    /\ cookie \in {Nobody} \cup [user: Users, at: {0}]
    /\ page = "list" /\ moved = FALSE /\ checked = FALSE /\ auth = SignedOut
    /\ list = NoTrips /\ loading = FALSE /\ listError = FALSE
    /\ creating = FALSE /\ deleting = None /\ signing = FALSE
    /\ leaving = FALSE /\ changing = FALSE /\ erasing = FALSE
    /\ foreign = FALSE /\ blurred = FALSE
    /\ calls = [s \in Slots |-> Free]
    /\ cache = NoTrips
    /\ online = TRUE
    /\ since = [u \in Users |-> 0]
    /\ \E owner \in [Ids -> Users \cup {NoUser}] :
         trips = [u \in Users \cup {NoUser} |-> {i \in Ids : owner[i] = u}]

Answers(s) ==
    \/ MeAnswered(s) \/ ListAnswered(s) \/ ListCancelled(s) \/ AuthAnswered(s)
    \/ LogoutAnswered(s) \/ PasswordAnswered(s) \/ AccountDeleted(s)
    \/ NewTripAnswered(s) \/ TripDeleteAnswered(s)

Next ==
    \/ \E s \in Slots :
         \/ calls[s] # Free /\ Answers(s)
         \/ Serve(s)
         \/ HandleLogout(s) \/ HandlePasswordChange(s) \/ HandleDeleteAccount(s)
         \/ SubmitNewTrip(s)
         \/ \E u \in Users : SubmitAuth(s, u)
         \/ \E i \in Ids : DeleteOwnerTrip(s, i)
    \/ \E c \in Credentials : OtherTab(c)
    \/ ConnectionChanges
    \/ \E p \in {"list", "account"} : OpenPage(p)

Spec == Init /\ [][Next]_vars

(* Every fetch settles and its continuation runs.                             *)
Fairness == \A s \in Slots : WF_vars(Serve(s)) /\ WF_vars(calls[s] # Free /\ Answers(s))

FairSpec == Spec /\ Fairness

-----------------------------------------------------------------------------
(* Properties.                                                                *)

(* Whoever signs in and out on a page, and however late the lists of earlier  *)
(* accounts arrive: a list on the screen that the server sent is the account's *)
(* of the header -- unless the page was restored and another tab has signed   *)
(* in as somebody else since.                                                 *)
ListBelongsToUser ==
    auth # SignedOut /\ ~loading /\ ~listError /\ list.from = "server" /\ ~foreign =>
      \A u \in Users \ {auth.user} : list.trips \cap trips[u] = {}

(* With no write in flight, and none of unknown outcome since the list was    *)
(* loaded, the list page shows the trips the server has.                      *)
ListIsCurrent ==
    /\ ListPage /\ list.from = "server" /\ ~foreign /\ ~blurred
    /\ ~InFlight({"create", "delete", "erase"})
    => list.trips = trips[auth.user]

(* No button and no list stays locked while somebody is signed in, whatever   *)
(* the answers are.                                                           *)
Locks == {"loading", "submitting", "leaving", "saving", "erasing", "creating"} \cup Ids

Locked(lock) ==
    \/ lock = "loading" /\ loading /\ auth # SignedOut
    \/ lock = "submitting" /\ signing
    \/ lock = "leaving" /\ leaving
    \/ lock = "saving" /\ changing
    \/ lock = "erasing" /\ erasing
    \/ lock = "creating" /\ creating
    \/ lock \in Ids /\ deleting = lock

SessionLocksEnd == \A lock \in Locks : []<>~Locked(lock)

-----------------------------------------------------------------------------
(* The invariant behind both lists, in parts.                                 *)

ConstantsOK == NoUser \notin Users /\ MaxChanges \in Nat /\ None \notin Ids

(* A trip has one owner, or none yet.                                         *)
OneOwner ==
    \A u, v \in Users \cup {NoUser} : u # v => trips[u] \cap trips[v] = {}

(* Nobody else has these, and they have been created.                         *)
OwnedBy(S, u) == \A v \in (Users \cup {NoUser}) \ {u} : S \cap trips[v] = {}
Created(S) == S \cap trips[NoUser] = {}

SomeoneSent(c) == c.as # Nobody
Sent(ops) == {s \in Slots : calls[s].op \in ops}

(* What an answer brings is its sender's, and what the page has was created.  *)
AnswersAreSenders ==
    /\ \A s \in Sent({"list", "create"}) : calls[s].st = "ok" =>
         SomeoneSent(calls[s]) /\ OwnedBy(calls[s].got.trips, calls[s].as.user)
    /\ \A s \in Sent({"me"}) : calls[s].st = "ok" => SomeoneSent(calls[s])
    /\ \A s \in Sent({"login"}) :
         /\ calls[s].arg \in Users
         /\ calls[s].st = "ok" => calls[s].got.session \in [user: {calls[s].arg}, at: 0..MaxChanges]
    /\ \A s \in Sent({"password"}) : calls[s].st = "ok" => calls[s].got.session # Nobody
    /\ \A s \in Sent({"delete"}) : calls[s].arg \in Ids /\ Created({calls[s].arg})
    /\ Created(list.trips) /\ Created(cache.trips)

(* A page that has not heard of its session asks for it, and nothing else.    *)
UncheckedAsks ==
    /\ ~checked =>
         auth = SignedOut /\ \A s \in Slots : calls[s] = Free \/ calls[s].op = "me"
    /\ \A s \in Sent({"me"}) :
         /\ ~checked
         /\ \A t \in Sent({"me"}) : t = s
         /\ ~foreign => calls[s].as = cookie

(* The account of the header is that of the token, or of the cookie.          *)
HeaderIsSession ==
    /\ auth.token # Nobody => auth.token.user = auth.user
    /\ ~foreign /\ auth # SignedOut /\ auth.token = Nobody =>
         cookie = Nobody \/ cookie.user = auth.user

(* The load that the page waits for is that of the account of the header.     *)
LoadIsForAccount ==
    \A s \in Sent({"list"}) : calls[s].live =>
      /\ loading /\ auth # SignedOut
      /\ \A t \in Sent({"list"}) : calls[t].live => t = s
      /\ auth.token # Nobody => calls[s].as = auth.token
      /\ auth.token = Nobody /\ ~foreign =>
           calls[s].as = Nobody \/ calls[s].as.user = auth.user

(* A list from the server was stored.                                         *)
ServerListsAreStored == list.from = "server" => cache # NoTrips

ShownIsOwned ==
    auth # SignedOut /\ ~loading /\ list.from = "server" /\ ~foreign =>
      OwnedBy(list.trips, auth.user)

BelongsInv ==
    /\ OneOwner /\ AnswersAreSenders /\ UncheckedAsks /\ HeaderIsSession
    /\ LoadIsForAccount /\ ServerListsAreStored /\ ShownIsOwned

(* Writes that the list of the screen does not show yet.                      *)
Landed == list.from = "server" /\ ~blurred /\ ~foreign /\ auth # SignedOut /\ ~loading
Writing == InFlight({"create", "delete"})
Lost(ops) == \E s \in Sent(ops) : calls[s].st = "failed"
Erased == \E s \in Sent({"erase"}) : calls[s].st \in {"ok", "failed"}
News(s) == calls[s].got.trips
CreatedSlots == {s \in Sent({"create"}) : calls[s].st = "ok"}
DeletedSlots == {s \in Sent({"delete"}) : calls[s].st = "ok"}
Unshown == UNION {News(s) : s \in CreatedSlots}
Unhidden == {calls[s].arg : s \in DeletedSlots}

(* A trip of an answer that is on its way is on no list yet.                  *)
NewsAreNew ==
    ~blurred =>
      \A s \in CreatedSlots :
        /\ News(s) \cap list.trips = {} /\ News(s) \cap cache.trips = {}
        /\ \A t \in Sent({"delete"}) : calls[t].arg \notin News(s)
        /\ \A t \in CreatedSlots : t # s => News(s) \cap News(t) = {}

AnswerIsCurrent ==
    ~blurred /\ ~Writing /\ ~Erased =>
      \A s \in Sent({"list"}) : calls[s].live /\ calls[s].st = "ok" =>
        News(s) = trips[calls[s].as.user]

(* A landed list differs from the server by the answers on their way.         *)
ListPlusNews ==
    Landed =>
      /\ \A s \in Sent({"create", "delete"}) :
           calls[s].as = Nobody \/ calls[s].as.user = auth.user
      /\ ~Erased /\ ~Lost({"create", "delete"}) =>
           trips[auth.user] = (list.trips \cup Unshown) \ Unhidden

CurrentInv ==
    /\ BelongsInv /\ NewsAreNew /\ AnswerIsCurrent /\ ListPlusNews
================================================================================
