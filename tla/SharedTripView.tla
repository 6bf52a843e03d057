----------------------------- MODULE SharedTripView -----------------------------
(***************************************************************************)
(* useSharedTripController: the page behind a share link.  An effect loads *)
(* the trip of the link from the API, or from the copy kept in the         *)
(* browser's storage, and runs again after the browser comes back online,  *)
(* after the user returns to a page that shows a copy because the API      *)
(* failed, and when the link changes.                                      *)
(*                                                                         *)
(* JavaScript runs one task at a time: an event handler, an effect and the *)
(* callback of an answer are one step each.  React runs the effect some    *)
(* time after the state it depends on was set (page.scheduled).            *)
(***************************************************************************)
EXTENDS Naturals

CONSTANTS
  Tokens,     \* share links
  Slots,      \* requests on their way at the same time
  MaxVersion, \* bound on the edits of a trip
  NoTrip      \* null

VARIABLES
  version,  \* token -> version of its trip at the API
  live,     \* token -> the link still resolves
  up,       \* the API answers
  online,   \* navigator.onLine
  cache,    \* token -> copy in localStorage
  page,     \* the hook's state and refs
  calls     \* slot -> a call of getSharedTrip

api == <<version, live, up>>
vars == <<version, live, up, online, cache, page, calls>>

(* A trip as it was answered or stored; from says how the page got it. *)
Trip == [token : Tokens, version : 0..MaxVersion, from : {"api", "copy"}]

ASSUME SharedTripAssumption == MaxVersion \in Nat /\ NoTrip \notin Trip

Page ==
  [token : Tokens,        \* shareToken
   scheduled : BOOLEAN,   \* the effect is going to run
   listening : BOOLEAN,   \* its event listeners are registered
   recovered : BOOLEAN,   \* recoveryCount > 0
   active : Tokens,       \* activeShareToken
   visible : BOOLEAN,     \* hasVisibleSharedTrip
   retry : BOOLEAN,       \* needsServerRecovery
   trip : Trip \cup {NoTrip},
   warning : {"", "offline", "server"},
   error : BOOLEAN,
   loading : BOOLEAN]

Call == [state : {"free", "sent", "answered", "failed"}, token : Tokens,
         version : 0..MaxVersion, current : BOOLEAN]

TypeOK ==
  /\ version \in [Tokens -> 0..MaxVersion]
  /\ live \in [Tokens -> BOOLEAN]
  /\ up \in BOOLEAN
  /\ online \in BOOLEAN
  /\ cache \in [Tokens -> Trip \cup {NoTrip}]
  /\ page \in Page
  /\ calls \in [Slots -> Call]

Mounted(t) ==
  [token |-> t, scheduled |-> TRUE, listening |-> FALSE, recovered |-> FALSE,
   active |-> t, visible |-> FALSE, retry |-> FALSE, trip |-> NoTrip,
   warning |-> "", error |-> FALSE, loading |-> TRUE]

NoCall(t) == [state |-> "free", token |-> t, version |-> 0, current |-> FALSE]

Init ==
  /\ version = [t \in Tokens |-> 0]
  /\ live = [t \in Tokens |-> TRUE]
  /\ up \in BOOLEAN
  /\ online \in BOOLEAN
  /\ cache = [t \in Tokens |-> NoTrip]
  /\ \E t \in Tokens : /\ page = Mounted(t)
                       /\ calls = [s \in Slots |-> NoCall(t)]

-------------------------------------------------------------------------------
(* getLocalCache: the data of the stored envelope.  (Operators named as    *)
(* variants of the one after them are faults a property is shown to        *)
(* notice; no action uses them.) *)
StoredEnvelope(t) ==
  IF cache[t] = NoTrip THEN NoTrip ELSE [data |-> cache[t]]

Stored(t) == cache[t]

-------------------------------------------------------------------------------
(* The effect.                                                             *)

KeptOfAnyToken(p) == p.recovered /\ p.visible

(* preserveCurrentTrip: a recovery leaves what is shown on the screen. *)
Kept(p) == p.recovered /\ p.active = p.token /\ p.visible

BegunUnmarked(p) ==
  [p EXCEPT !.scheduled = FALSE, !.listening = TRUE,
            !.retry = @ /\ p.active = p.token,
            !.active = p.token,
            !.loading = @ \/ ~Kept(p),
            !.warning = "",
            !.error = FALSE]

(* What the effect sets before it looks at the network. *)
Begun(p) ==
  [p EXCEPT !.scheduled = FALSE, !.listening = TRUE,
            !.retry = @ /\ p.active = p.token,
            !.active = p.token,
            !.loading = @ \/ ~Kept(p),
            !.warning = IF Kept(p) THEN @ ELSE "",
            !.error = FALSE]

Shown(p, trip) == [p EXCEPT !.visible = trip # NoTrip, !.trip = trip]

NotCancelled == calls

(* The cleanup of the effect that ran before: its call is cancelled. *)
Cancelled == [s \in Slots |-> [calls[s] EXCEPT !.current = FALSE]]

LoadCopy ==
  /\ page.scheduled /\ ~online
  /\ LET copy == Stored(page.token) IN
     page' = [Shown(Begun(page), copy) EXCEPT
                !.retry = FALSE,
                !.warning = IF copy # NoTrip THEN "offline" ELSE @,
                !.error = copy = NoTrip,
                !.loading = FALSE]
  /\ calls' = Cancelled
  /\ UNCHANGED <<api, online, cache>>

LoadTrip ==
  /\ page.scheduled /\ online
  /\ page' = IF Kept(page) THEN Begun(page) ELSE Shown(Begun(page), NoTrip)
  /\ \E s \in Slots :
       /\ calls[s].state = "free"
       /\ calls' = [Cancelled EXCEPT ![s] =
                      [state |-> "sent", token |-> page.token, version |-> 0,
                       current |-> TRUE]]
  /\ UNCHANGED <<api, online, cache>>

-------------------------------------------------------------------------------
(* Answers.                                                                *)

(* The API answers with the trip, or 404; without it the request fails. *)
Answer(s) ==
  /\ calls[s].state = "sent"
  /\ calls' = [calls EXCEPT
       ![s].state = IF online /\ up /\ live[calls[s].token] THEN "answered"
                    ELSE "failed",
       ![s].version = version[calls[s].token]]
  /\ UNCHANGED <<api, online, cache, page>>

Freed(s) == [calls EXCEPT ![s] = NoCall(calls[s].token)]

(* .then: the trip is shown and stored, unless the storage refuses. *)
Succeed(s) ==
  LET c == calls[s]
      trip == [token |-> c.token, version |-> c.version, from |-> "api"]
  IN
  /\ c.state = "answered"
  /\ calls' = Freed(s)
  /\ IF c.current
     THEN /\ page' = [Shown(page, trip) EXCEPT !.retry = FALSE, !.warning = "",
                                               !.loading = FALSE]
          /\ \/ cache' = [cache EXCEPT ![c.token] = [trip EXCEPT !.from = "copy"]]
             \/ UNCHANGED cache
     ELSE UNCHANGED <<page, cache>>
  /\ UNCHANGED <<api, online>>

FailWithoutRetry(s) ==
  LET c == calls[s]
      copy == Stored(c.token)
  IN
  /\ c.state = "failed"
  /\ calls' = Freed(s)
  /\ page' = IF ~c.current THEN page
             ELSE IF copy # NoTrip
             THEN [Shown(page, copy) EXCEPT !.warning = "server",
                                            !.loading = FALSE]
             ELSE [page EXCEPT !.retry = FALSE, !.error = TRUE,
                               !.loading = FALSE]
  /\ UNCHANGED <<api, online, cache>>

(* .catch: the copy is shown if there is one, and a retry is wanted. *)
Fail(s) ==
  LET c == calls[s]
      copy == Stored(c.token)
  IN
  /\ c.state = "failed"
  /\ calls' = Freed(s)
  /\ page' = IF ~c.current THEN page
             ELSE IF copy # NoTrip
             THEN [Shown(page, copy) EXCEPT !.retry = TRUE, !.warning = "server",
                                            !.loading = FALSE]
             ELSE [page EXCEPT !.retry = FALSE, !.error = TRUE,
                               !.loading = FALSE]
  /\ UNCHANGED <<api, online, cache>>

-------------------------------------------------------------------------------
(* The browser, the user and the API.                                      *)

Recovery(p) == [p EXCEPT !.retry = FALSE, !.scheduled = TRUE, !.recovered = TRUE]

(* The online event; the hook does not listen to the offline event. *)
GoOnline ==
  /\ ~online
  /\ online' = TRUE
  /\ page' = IF page.listening THEN Recovery(page) ELSE page
  /\ UNCHANGED <<api, cache, calls>>

GoOffline ==
  /\ online
  /\ online' = FALSE
  /\ UNCHANGED <<api, cache, page, calls>>

(* The focus event, when the user returns to the page. *)
Focus ==
  /\ page.listening /\ page.retry
  /\ page' = Recovery(page)
  /\ UNCHANGED <<api, online, cache, calls>>

(* The page is rendered with another link. *)
Navigate(t) ==
  /\ t # page.token
  /\ page' = [page EXCEPT !.token = t, !.scheduled = TRUE]
  /\ UNCHANGED <<api, online, cache, calls>>

Reload ==
  /\ page' = Mounted(page.token)
  /\ calls' = [s \in Slots |-> NoCall(page.token)]
  /\ UNCHANGED <<api, online, cache>>

(* The browser may drop what it stored. *)
Evict(t) ==
  /\ cache[t] # NoTrip
  /\ cache' = [cache EXCEPT ![t] = NoTrip]
  /\ UNCHANGED <<api, online, page, calls>>

(* The owner edits the trip, or replaces the link. *)
Edit(t) ==
  /\ version[t] < MaxVersion
  /\ version' = [version EXCEPT ![t] = @ + 1]
  /\ UNCHANGED <<live, up, online, cache, page, calls>>

Revoke(t) ==
  /\ live[t]
  /\ live' = [live EXCEPT ![t] = FALSE]
  /\ UNCHANGED <<version, up, online, cache, page, calls>>

(* The API fails and comes back. *)
Outage ==
  /\ up' = ~up
  /\ UNCHANGED <<version, live, online, cache, page, calls>>

Next ==
  \/ LoadCopy \/ LoadTrip
  \/ \E s \in Slots : Answer(s) \/ Succeed(s) \/ Fail(s)
  \/ GoOnline \/ GoOffline \/ Focus \/ Reload \/ Outage
  \/ \E t \in Tokens : Navigate(t) \/ Evict(t) \/ Edit(t) \/ Revoke(t)

Spec == Init /\ [][Next]_vars

(* React runs effects, requests end, and users return to the page. *)
FairSpec ==
  /\ Spec
  /\ WF_vars(LoadCopy \/ LoadTrip)
  /\ \A s \in Slots : WF_vars(Answer(s)) /\ WF_vars(Succeed(s) \/ Fail(s))
  /\ WF_vars(Focus)

-------------------------------------------------------------------------------
(* Properties.                                                             *)

(* Once the effect has run, the page shows the trip of its own link, and   *)
(* never one that an earlier link's call or a recovery left behind.        *)
ShownBelongsToLink ==
  page.trip # NoTrip /\ ~page.scheduled => page.trip.token = page.token

(* A copy is always marked as one, and an answer of the API never is: the  *)
(* warning survives the recoveries that keep the trip on the screen, and   *)
(* goes with the first answer. *)
CopiesAreMarked ==
  page.trip # NoTrip => (page.trip.from = "copy" <=> page.warning # "")

(* Answers that overtake each other never take the page back to an older   *)
(* version of its trip; only a marked copy may be older. *)
NewerOrMarked ==
  /\ page.trip # NoTrip
  /\ page'.trip # NoTrip
  /\ page'.trip.token = page.trip.token
  /\ page'.trip.version < page.trip.version
  => page'.trip.from = "copy"

NeverSilentlyOlder == [][NewerOrMarked]_vars

Reachable == online /\ up /\ live[page.token]

ShowsCopy ==
  /\ page.trip # NoTrip
  /\ page.trip.from = "copy"
  /\ ~page.loading /\ ~page.error

(* USER_FLOW.md:116 - a page that shows a copy asks again when the network *)
(* is back, or when the user returns after the API failed, without being   *)
(* loaded anew: when the user stays with a link and its trip can be        *)
(* reached for good, no copy stays. *)
CopiesAreReplaced ==
  \A t \in Tokens :
    <>[](page.token = t /\ Reachable) => []<>~ShowsCopy
-------------------------------------------------------------------------------
(* The inductive invariant.                                                *)

(* A stored copy is the link's own and no newer than the trip, *)
CopyInv ==
  \A t \in Tokens : cache[t] # NoTrip =>
    /\ cache[t].token = t
    /\ cache[t].version <= version[t]
    /\ cache[t].from = "copy"

(* what is shown belongs to the link the effect last ran for, *)
PageInv ==
  /\ ~page.scheduled => page.active = page.token
  /\ page.visible <=> page.trip # NoTrip
  /\ page.trip # NoTrip =>
       /\ page.trip.token = page.active
       /\ page.trip.version <= version[page.active]

(* and so does the one call that is not cancelled, whose answer is no      *)
(* older than what is shown. *)
CallInv ==
  /\ \A s \in Slots : calls[s].current =>
       /\ calls[s].state # "free"
       /\ calls[s].token = page.active
       /\ calls[s].state = "answered" =>
            /\ calls[s].version <= version[page.active]
            /\ page.trip # NoTrip => page.trip.version <= calls[s].version
  /\ \A r, s \in Slots : calls[r].current /\ calls[s].current => r = s

IInv == TypeOK /\ CopiesAreMarked /\ CopyInv /\ PageInv /\ CallInv
===============================================================================
