------------------------------- MODULE PwaUpdate -------------------------------
(* The installed web app: how a new version takes over (coordinatePwaUpdate   *)
(* and its form tracker) and the one notice in which the connection and the   *)
(* service worker report (PwaStatusBanner).  A new version reloads the page   *)
(* on its own unless a form holds changes or a write is in flight; what a     *)
(* form holds is compared with a snapshot taken when it was first focused.    *)
EXTENDS Naturals

CONSTANTS
    Forms,       \* forms of the page
    Keeping,     \* forms that stay as they are when saved; others are emptied
    Fillable,    \* forms that a button outside of them fills in
    MaxValue,    \* bound: contents a form may have; 0 is what it is mounted with
    MaxUpdates   \* bound: new versions deployed

Values == 0..MaxValue
NoValue == MaxValue + 1

(* What a theorem about this module assumes of the constants.                 *)
ConstantsOK == MaxValue \in Nat /\ MaxUpdates \in Nat

VARIABLES
    worker,      \* the service worker: "none", "failed", "active", "waiting", "applying"
    deployed,    \* how many new versions were found
    latest,      \* latestStatus
    subscribed,  \* the banner listens
    notice,      \* what the banner shows
    online, confirmed, timer,  \* navigator.onLine, hasConfirmedOffline, offlineTimer
    form,        \* for each form: mounted, its value, its initial snapshot
    saving       \* for each form: the value a write in flight saves, or none

(* History, for each form: what the server has; whether a button outside of   *)
(* the form filled it in, or it was saved and kept, while it was there.  And  *)
(* the forms that were not typed into, filled in or saved since a version     *)
(* decided to apply itself.                                                   *)
VARIABLES saved, touched, safe

noticeVars == <<latest, subscribed, notice, online, confirmed, timer>>
formVars == <<form, saving, saved, touched, safe>>
vars == <<worker, deployed, noticeVars, formVars>>

Statuses == {"offline-ready", "update-ready", "register-error"}

TypeOK ==
    /\ worker \in {"none", "failed", "active", "waiting", "applying"}
    /\ deployed \in 0..MaxUpdates
    /\ latest \in Statuses \cup {"none"}
    /\ subscribed \in BOOLEAN
    /\ notice \in Statuses \cup {"none", "offline", "restored"}
    /\ online \in BOOLEAN /\ confirmed \in BOOLEAN /\ timer \in BOOLEAN
    /\ form \in [Forms -> [mounted: BOOLEAN, value: Values, snapshot: Values \cup {NoValue}]]
    /\ saving \in [Forms -> Values \cup {NoValue}]
    /\ saved \in [Forms -> Values] /\ touched \in [Forms -> BOOLEAN]
    /\ safe \subseteq Forms

-----------------------------------------------------------------------------
(* The form tracker and the coordinator.                                      *)

NoPendingMutation == FALSE
HasPendingMutation == \E f \in Forms : saving[f] # NoValue

HasUnsavedChanges ==
    \E f \in Forms : LET x == form[f] IN
        x.mounted /\ x.snapshot # NoValue /\ x.snapshot # x.value

(* publishPwaStatus: kept for a listener that comes later, told to this one.  *)
Publish(status) ==
    /\ latest' = status
    /\ notice' = IF subscribed /\ ~(status = "offline-ready" /\ ~online)
                 THEN status ELSE notice

(* onNeedRefresh: a new version waits.  It reloads the page, or asks.         *)
CoordinatePwaUpdate ==
    /\ worker \in {"active", "waiting"}
    /\ deployed < MaxUpdates
    /\ deployed' = deployed + 1
    /\ IF HasUnsavedChanges \/ HasPendingMutation
       THEN worker' = "waiting" /\ safe' = {} /\ Publish("update-ready")
       ELSE worker' = "applying" /\ safe' = Forms /\ UNCHANGED <<latest, notice>>
    /\ UNCHANGED <<subscribed, online, confirmed, timer, form, saving, saved, touched>>

OfflineReady ==
    /\ worker = "none"
    /\ worker' = "active"
    /\ Publish("offline-ready")
    /\ UNCHANGED <<deployed, subscribed, online, confirmed, timer, formVars>>

RegisterError ==
    /\ worker = "none"
    /\ worker' = "failed"
    /\ Publish("register-error")
    /\ UNCHANGED <<deployed, subscribed, online, confirmed, timer, formVars>>

(* The button of the notice.  It asks nothing again.                          *)
ApplyPwaUpdate ==
    /\ notice = "update-ready"
    /\ worker' = "applying"
    /\ safe' = {}
    /\ UNCHANGED <<deployed, noticeVars, form, saving, saved, touched>>

EmptyForm == [mounted |-> FALSE, value |-> 0, snapshot |-> NoValue]

(* The new worker controls the page, which is loaded again, some time after   *)
(* it was told to: every state of the old page is gone, its writes in flight  *)
(* included, and nothing is asked again.                                      *)
Reload ==
    /\ worker = "applying"
    /\ worker' = "active"
    /\ latest' = "none" /\ subscribed' = FALSE
    /\ notice' = IF online THEN "none" ELSE "offline"
    /\ confirmed' = ~online /\ timer' = FALSE
    /\ form' = [f \in Forms |-> EmptyForm]
    /\ saving' = [f \in Forms |-> NoValue]
    /\ saved' = [f \in Forms |-> 0] /\ touched' = [f \in Forms |-> FALSE]
    /\ safe' = {}
    /\ UNCHANGED <<deployed, online>>

-----------------------------------------------------------------------------
(* The banner.                                                                *)

(* The listener is called with the latest status at once.                     *)
NotReplayed == notice
Replayed ==
    IF latest = "none" \/ (latest = "offline-ready" /\ ~online) THEN notice ELSE latest

SubscribePwaStatus ==
    /\ ~subscribed
    /\ subscribed' = TRUE
    /\ notice' = Replayed
    /\ UNCHANGED <<worker, deployed, latest, online, confirmed, timer, formVars>>

(* Going offline is told when it has lasted two seconds.                      *)
HandleOffline ==
    /\ online
    /\ online' = FALSE
    /\ timer' = (timer \/ ~confirmed)
    /\ UNCHANGED <<worker, deployed, latest, subscribed, notice, confirmed, formVars>>

ConfirmOffline ==
    /\ timer
    /\ timer' = FALSE
    /\ IF online THEN UNCHANGED <<confirmed, notice>>
       ELSE confirmed' = TRUE /\ notice' = "offline"
    /\ UNCHANGED <<worker, deployed, latest, subscribed, online, formVars>>

HandleOnline ==
    /\ ~online
    /\ online' = TRUE
    /\ timer' = FALSE
    /\ confirmed' = FALSE
    /\ notice' = IF confirmed THEN "restored" ELSE notice
    /\ UNCHANGED <<worker, deployed, latest, subscribed, formVars>>

(* A notice with a duration closes itself; any can be closed.                 *)
Passing == {"restored", "offline-ready", "register-error"}

CloseNotice(closing) ==
    /\ notice \in closing
    /\ notice' = "none"
    /\ UNCHANGED <<worker, deployed, latest, subscribed, online, confirmed, timer, formVars>>

NoticeTimesOut == CloseNotice(Passing)
PressClose == CloseNotice({"offline", "update-ready"} \cup Passing)

-----------------------------------------------------------------------------
(* Forms come and go, are focused, typed into, filled in and saved.           *)

PageVars == <<worker, deployed, noticeVars>>

Mount(f) ==
    /\ ~form[f].mounted
    /\ form' = [form EXCEPT ![f] = [EmptyForm EXCEPT !.mounted = TRUE, !.value = saved[f]]]
    /\ UNCHANGED <<PageVars, saving, saved, touched, safe>>

(* Leaving a form drops what it holds; the tracker forgets it.                *)
Unmount(f) ==
    /\ form[f].mounted
    /\ saving[f] = NoValue
    /\ form' = [form EXCEPT ![f] = EmptyForm]
    /\ touched' = [touched EXCEPT ![f] = FALSE]
    /\ UNCHANGED <<PageVars, saving, saved, safe>>

CaptureInitialSnapshot(f) ==
    /\ form[f].mounted
    /\ form[f].snapshot = NoValue
    /\ form' = [form EXCEPT ![f].snapshot = form[f].value]
    /\ UNCHANGED <<PageVars, saving, saved, touched, safe>>

Type(f, v) ==
    /\ form[f].mounted
    /\ form[f].snapshot # NoValue
    /\ v # form[f].value
    /\ form' = [form EXCEPT ![f].value = v]
    /\ safe' = safe \ {f}
    /\ UNCHANGED <<PageVars, saving, saved, touched>>

(* handleSelectResult of the place search sets the fields of the form.        *)
FillIn(f, v) ==
    /\ f \in Fillable
    /\ form[f].mounted
    /\ v # 0
    /\ form' = [form EXCEPT ![f].value = v]
    /\ touched' = [touched EXCEPT ![f] = TRUE]
    /\ safe' = safe \ {f}
    /\ UNCHANGED <<PageVars, saving, saved>>

(* The save button takes the focus before it is pressed.                      *)
Save(f) ==
    /\ form[f].mounted
    /\ form[f].snapshot # NoValue
    /\ saving[f] = NoValue
    /\ saving' = [saving EXCEPT ![f] = form[f].value]
    /\ safe' = safe \ {f}
    /\ UNCHANGED <<PageVars, form, saved, touched>>

(* A saved form is emptied, or filled again with what was saved.              *)
SaveAnswered(f) ==
    /\ saving[f] # NoValue
    /\ saving' = [saving EXCEPT ![f] = NoValue]
    /\ \/ UNCHANGED <<form, saved, touched>>
       \/ LET v == IF f \in Keeping THEN saving[f] ELSE 0
          IN  /\ form' = [form EXCEPT ![f].value = v]
              /\ saved' = [saved EXCEPT ![f] = v]
              /\ touched' = [touched EXCEPT ![f] = @ \/ f \in Keeping]
    /\ UNCHANGED <<PageVars, safe>>

-----------------------------------------------------------------------------
Init ==
    /\ worker \in {"none", "active"}
    /\ deployed = 0
    /\ latest = "none" /\ subscribed = FALSE
    /\ online \in BOOLEAN
    /\ confirmed = ~online /\ timer = FALSE
    /\ notice = IF online THEN "none" ELSE "offline"
    /\ form = [f \in Forms |-> EmptyForm]
    /\ saving = [f \in Forms |-> NoValue]
    /\ saved = [f \in Forms |-> 0] /\ touched = [f \in Forms |-> FALSE]
    /\ safe = {}

Next ==
    \/ CoordinatePwaUpdate \/ OfflineReady \/ RegisterError \/ ApplyPwaUpdate \/ Reload
    \/ SubscribePwaStatus \/ HandleOffline \/ ConfirmOffline \/ HandleOnline
    \/ NoticeTimesOut \/ PressClose
    \/ \E f \in Forms :
         \/ Mount(f) \/ Unmount(f) \/ CaptureInitialSnapshot(f)
         \/ Save(f) \/ SaveAnswered(f)
         \/ \E v \in Values : Type(f, v) \/ FillIn(f, v)

Spec == Init /\ [][Next]_vars

(* Timers fire, effects run and a page that is told to reload does.           *)
Fairness ==
    /\ WF_vars(ConfirmOffline) /\ WF_vars(NoticeTimesOut)
    /\ WF_vars(SubscribePwaStatus) /\ WF_vars(Reload)

FairSpec == Spec /\ Fairness

-----------------------------------------------------------------------------
(* Properties.                                                                *)

Unsaved(f) == form[f].mounted /\ form[f].value # saved[f]
AppliesItself == worker # "applying" /\ worker' = "applying" /\ deployed' # deployed

(* docs/TECH_DESIGN.md:145: a new service worker is applied at a safe moment, *)
(* protecting the forms being filled in.  A version that applies itself finds *)
(* no form with unsaved input.                                                *)
UpdatesLoseNoInput == [][AppliesItself => \A f \in Forms : ~Unsaved(f)]_vars

(* What the tracker does protect: when a version decides to apply itself, no  *)
(* write is in flight and no input is lost, in every form that was neither    *)
(* filled in from outside nor saved while it stayed on the page; and when the *)
(* page is loaded again, the same is true of every form that was left alone   *)
(* since the decision.  What is typed, filled in or sent between the decision *)
(* and the reload is lost: the code asks once, although docs/FEATURES.md:70   *)
(* promises an update that loses no form.                                     *)
Unharmed(f) == saving[f] = NoValue /\ (Unsaved(f) => touched[f])
AppliedSafely ==
    /\ AppliesItself => \A f \in Forms : Unharmed(f)
    /\ Reload => \A f \in safe : Unharmed(f)

TypedInputSurvivesUpdates == [][AppliedSafely]_vars

(* Why it holds: until a form is touched, its snapshot is what the server has *)
(* of it, and while there is no snapshot the form itself is; a form that is   *)
(* left alone stays as the decision found it.                                 *)
TrackerInv ==
    /\ TypeOK
    /\ \A f \in Forms \ Keeping : saved[f] = 0
    /\ \A f \in Forms : form[f].mounted /\ ~touched[f] =>
         saved[f] = IF form[f].snapshot = NoValue THEN form[f].value ELSE form[f].snapshot
    /\ \A f \in safe : Unharmed(f)

(* A blocked update is offered, even when it was found before the banner      *)
(* listened; a lasting loss of the connection is reported; a passing notice   *)
(* goes away.                                                                 *)
Unheard == latest = "update-ready" /\ ~subscribed
Offered == notice = "update-ready" \/ latest = "none"
LossIsReported == online \/ confirmed
Gone(n) == notice # n
NoticesComeAndGo ==
    /\ Unheard ~> Offered
    /\ []<>LossIsReported
    /\ \A n \in Passing : []<>Gone(n)
================================================================================
