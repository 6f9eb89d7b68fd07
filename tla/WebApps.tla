------------------------------ MODULE WebApps ------------------------------
(***************************************************************************)
(* One screen of the four Next.js front ends (web, web-admin, web-agent,   *)
(* web-internal): a page that loads a list from the API and a form that    *)
(* changes what the list shows.  Module WebPages describes every page and  *)
(* form of the apps by its shape; this module says how any of them         *)
(* behaves: requests in flight, answers that come late, in another order   *)
(* or not at all, a form closed or a page left while it waits, a session   *)
(* that expires, and the location answer that may move the outlet.         *)
(*                                                                         *)
(* db is what the backend has committed, as far as the list shows it: the  *)
(* parts <<change, n>> of the changes made under a selection (an outlet, a *)
(* status, a search).  Nobody else changes the data: two browsers are not  *)
(* modelled.  Bounds: Loads is the number of list requests that may be     *)
(* under way, Changes the number of submissions of the form.               *)
(***************************************************************************)
EXTENDS Naturals

CONSTANTS
    Screens,   \* the screens: [page, form] records of WebPages
    Scopes,    \* the selections a scoped page can show
    Home,      \* the selection a page opens with: the first outlet, "all"
    Changes,   \* the submissions
    Loads,     \* slots for list requests
    None

ASSUME HomeAssumption == Home \in Scopes /\ None \notin Scopes \cup Changes

\* What holds of the forms of WebPages: at most two parts, a QRIS is one payment
\* and changes no list in place, and a list changed ahead is loaded after an error.
ASSUME FormAssumption ==
    \A s \in Screens :
        /\ s.form.parts \in 0..2 /\ s.form.sheet \in BOOLEAN
        /\ s.form.patch \in {"no", "before", "after"}
        /\ s.form.patch = "before" => s.form.reloads
        /\ s.form.qris => s.form.parts = 1 /\ s.form.patch = "no"

VARIABLES
    screen,    \* the screen in use
    at,        \* "page", "left" (another page) or "masuk" (the login page)
    scope,     \* the selection of the page
    shown,     \* the list as displayed, None while there is none
    loads,     \* the list requests: the selection asked, the data read
    posts,     \* the submissions, on the server and for the user
    sheet,     \* the form: open or not, its stage, the payment whose QRIS it polls
    db,        \* what the backend has committed
    doubt,     \* the page was given a reason to show something else than db
    outlet     \* the outlets offered, the choice stored, the recommendation, the
               \* location; history: the outlet the customer picked last

screenVars == <<screen, at, scope, shown, loads, posts, sheet, db, doubt, outlet>>

Page == screen.page
Form == screen.form
Is(mark) == mark \in Page.marks

Idle == [scope |-> None, data |-> None]
Closed == [open |-> FALSE, stage |-> "form", pane |-> None]
Parts == 1..Form.parts
Busy(l) == loads[l] # Idle
Loading == \E l \in Loads : Busy(l)
Running(a) == posts[a].server \in {"sent", "half"}
Waiting(a) == posts[a].server # "new" /\ posts[a].told = "no"
Heard(a) == Waiting(a) /\ posts[a].from # "gone"
PaidPaneLost ==
    sheet'.pane # sheet.pane /\ sheet.pane # None /\ posts[sheet.pane].server = "done"
Watched(a) == sheet.pane = a /\ (Form.sheet => sheet.open)

ScreenInit ==
    /\ screen \in Screens
    /\ at = "left"
    /\ scope = Home
    /\ shown = None
    /\ loads = [l \in Loads |-> Idle]
    /\ posts = [a \in Changes |->
                  [server |-> "new", told |-> "no", from |-> "gone", scope |-> None]]
    /\ sheet = Closed
    /\ db = [c \in Scopes |-> {}]
    /\ doubt = FALSE
    /\ outlet = [listed |-> {}, pref |-> None, manual |-> FALSE, rec |-> None,
                 geo |-> "idle", late |-> FALSE, picked |-> None]

(***************************************************************************)
(* The page and its list.                                                  *)
(***************************************************************************)

\* load() / reload() / loadPackages(): ask for the list of selection c.  Two
\* requests under way, a request for a selection the page has left, or one that
\* overtakes a change nothing will reload for, leave what is shown in doubt.
Reload(c) ==
    /\ \E l \in Loads :
          /\ ~Busy(l)
          /\ loads' = [loads EXCEPT ![l] = [scope |-> c, data |-> None]]
    /\ shown' = IF Is("clears") THEN None ELSE shown
    /\ doubt' = \/ Loading
                \/ c # scope'
                \/ Form.patch = "before" /\ \E a \in Changes : Running(a)

NoReload == UNCHANGED <<shown, loads>>

\* The login page keeps the token and the session and goes to the app.
SignIn ==
    /\ at = "masuk"
    /\ at' = "left"
    /\ UNCHANGED <<screen, scope, shown, loads, posts, sheet, db, doubt, outlet>>

\* The page is opened and its effects run.  The storefront's home asks for the
\* outlets the customer may buy at, which change between two visits: the stored
\* one is shown if it is still among them, else the first of them.
Mount ==
    /\ at = "left"
    /\ at' = "page"
    /\ \/ /\ ~Is("nearest")
          /\ scope' = Home
          /\ UNCHANGED outlet
       \/ /\ Is("nearest")
          /\ \E servers \in (SUBSET Scopes) \ {{}} : \E first \in servers :
                /\ scope' = IF outlet.pref \in servers THEN outlet.pref ELSE first
                /\ outlet' = [outlet EXCEPT !.listed = servers, !.geo = "asked"]
    /\ Reload(scope')
    /\ UNCHANGED <<screen, posts, sheet, db>>

\* What a page loses when it is unmounted: its list, the answers of its loads,
\* the effects of the submissions still under way, the recommendation.  The
\* answer of a location asked for may still come.
Unmounted ==
    /\ shown' = None
    /\ loads' = [l \in Loads |-> Idle]
    /\ sheet' = Closed
    /\ doubt' = FALSE
    /\ outlet' = [outlet EXCEPT !.rec = None, !.geo = "idle",
                                !.late = @ \/ outlet.geo = "asked"]

Leave ==
    /\ at = "page"
    /\ at' = "left"
    /\ Unmounted
    /\ posts' = [a \in Changes |-> [posts[a] EXCEPT !.from = "gone"]]
    /\ UNCHANGED <<screen, scope, db>>

\* Another selection: the effect on [serverId] / [status] loads its list.
Visit(c) ==
    /\ at = "page" /\ Is("scoped") /\ ~Is("nearest") /\ ~sheet.open
    /\ c # scope
    /\ scope' = c
    /\ Reload(c)
    /\ UNCHANGED <<screen, at, posts, sheet, db, outlet>>

\* A refresh button; one that is disabled while a load runs never overlaps.
Refresh ==
    /\ at = "page" /\ Is("waits") /\ ~Loading
    /\ UNCHANGED <<screen, at, scope, posts, sheet, db, outlet>>
    /\ Reload(scope)

ServerReads(l) ==
    /\ Busy(l) /\ loads[l].data = None
    /\ loads' = [loads EXCEPT ![l].data = db[loads[l].scope]]
    /\ UNCHANGED <<screen, at, scope, shown, posts, sheet, db, doubt, outlet>>

\* An answer is shown whatever the page asked for since.
Arrive(l) ==
    /\ Busy(l) /\ loads[l].data # None
    /\ shown' = loads[l].data
    /\ loads' = [loads EXCEPT ![l] = Idle]
    /\ UNCHANGED <<screen, at, scope, posts, sheet, db, doubt, outlet>>

\* A load that fails leaves the old list with an error, or an empty list.
FailLoad(l) ==
    /\ Busy(l)
    /\ loads' = [loads EXCEPT ![l] = Idle]
    /\ shown' = IF Is("silent") THEN {} ELSE shown
    /\ doubt' = TRUE
    /\ UNCHANGED <<screen, at, scope, posts, sheet, db, outlet>>

\* A request answered 401: the app drops the token and goes to the login page;
\* the answers of the other requests find no page.
Expire ==
    /\ at = "page" /\ Page.app.bounces
    /\ Loading \/ \E a \in Changes : Heard(a)
    /\ at' = "masuk"
    /\ Unmounted
    /\ posts' = [a \in Changes |->
                   [posts[a] EXCEPT !.from = "gone",
                                    !.told = IF Waiting(a) THEN "failed" ELSE @]]
    /\ UNCHANGED <<screen, scope, db>>

(***************************************************************************)
(* The form and its submissions.                                           *)
(***************************************************************************)

Open ==
    /\ at = "page" /\ Form.sheet /\ ~sheet.open
    /\ sheet' = [sheet EXCEPT !.open = TRUE]
    /\ UNCHANGED <<screen, at, scope, shown, loads, posts, db, doubt, outlet>>

\* The sheet closes on its button and on the backdrop, also while a request is
\* under way or a QRIS is waiting to be paid; one that says that it succeeded
\* loads the list (handleClose).
Close ==
    /\ at = "page" /\ IF Form.sheet THEN sheet.open ELSE sheet.pane # None
    /\ sheet' = Closed
    /\ UNCHANGED <<screen, at, scope, posts, db, outlet>>
    /\ \/ sheet.stage = "done" /\ Reload(scope)
       \/ sheet.stage # "done" /\ NoReload /\ doubt' = (doubt \/ PaidPaneLost)

\* The button is disabled while a submission of the page waits for its answer
\* ("mounted"), and not there while the sheet is at another stage ("opening").
Pressable ==
    /\ sheet.stage = "form"
    /\ Form.once = "mounted" => \A a \in Changes : ~Heard(a)

Patched(a) ==
    IF shown # None /\ posts'[a].scope = scope
      THEN shown \cup {<<a, k>> : k \in Parts} ELSE shown

Submit(a) ==
    /\ at = "page" /\ posts[a].server = "new" /\ Form.parts > 0 /\ shown # None
    /\ Form.sheet => sheet.open
    /\ Pressable
    /\ posts' = [posts EXCEPT ![a] = [server |-> "sent", told |-> "no",
                                      from |-> "page", scope |-> scope]]
    /\ sheet' = IF Form.once = "opening" THEN [sheet EXCEPT !.stage = "wait"] ELSE sheet
    /\ shown' = IF Form.patch = "before" THEN Patched(a) ELSE shown
    /\ doubt' = (doubt \/ (Form.patch = "before" /\ Loading))
    /\ UNCHANGED <<screen, at, scope, loads, db, outlet>>

\* The next part is committed: of a form with two requests the first answer
\* leads to the second.  A page that no longer waits is not told.
Commit(a) ==
    /\ Running(a) /\ ~Form.qris
    /\ LET k == IF posts[a].server = "sent" THEN 1 ELSE 2 IN
          /\ db' = [db EXCEPT ![posts[a].scope] = @ \cup {<<a, k>>}]
          /\ posts' = [posts EXCEPT ![a].server = IF k = Form.parts THEN "done" ELSE "half"]
    /\ doubt' = (doubt \/ ~Heard(a))
    /\ UNCHANGED <<screen, at, scope, shown, loads, sheet, outlet>>

\* The backend says no: nothing, or only the first part, was committed.
Refuse(a) ==
    /\ Running(a)
    /\ posts' = [posts EXCEPT ![a].server = IF @ = "sent" THEN "refused" ELSE "torn"]
    /\ UNCHANGED <<screen, at, scope, shown, loads, sheet, db, doubt, outlet>>

\* A QRIS form: the backend opens a payment.
Bill(a) ==
    /\ Form.qris /\ posts[a].server = "sent"
    /\ posts' = [posts EXCEPT ![a].server = "pending"]
    /\ UNCHANGED <<screen, at, scope, shown, loads, sheet, db, doubt, outlet>>

\* The payer settles it or never does: confirmPayment makes the order PAID ...
Pay(a) ==
    /\ posts[a].server = "pending"
    /\ posts' = [posts EXCEPT ![a].server = "paid"]
    /\ UNCHANGED <<screen, at, scope, shown, loads, sheet, db, doubt, outlet>>

\* ... and then credits the wallet or provisions the voucher, or is cut off or
\* fails before it does.  A page that no longer polls is not told.
Deliver(a) ==
    /\ posts[a].server = "paid"
    /\ posts' = [posts EXCEPT ![a].server = "done"]
    /\ db' = [db EXCEPT ![posts[a].scope] = @ \cup {<<a, 1>>}]
    /\ doubt' = (doubt \/ ~Watched(a))
    /\ UNCHANGED <<screen, at, scope, shown, loads, sheet, outlet>>

\* What a success does on the page: close, reload the list of the selection the
\* handler saw, patch the list in place, leave, or nothing but to say so.
Succeed(a) ==
    IF posts[a].from = "gone"
      THEN /\ NoReload /\ UNCHANGED <<at, sheet, doubt, outlet>>
           /\ posts' = [posts EXCEPT ![a].told = "ok"]
    ELSE IF "leave" \in Form.ok
      THEN /\ at' = "left" /\ Unmounted
           /\ posts' = [b \in Changes |->
                [posts[b] EXCEPT !.told = IF b = a THEN "ok" ELSE @, !.from = "gone"]]
    ELSE /\ UNCHANGED <<at, outlet>>
         /\ posts' = [posts EXCEPT ![a].told = "ok"]
         /\ sheet' = IF "close" \in Form.ok THEN Closed
                     ELSE [sheet EXCEPT !.pane = None,
                                        !.stage = IF Form.again THEN "done" ELSE "form"]
         /\ \/ "load" \in Form.ok /\ Reload(posts[a].scope)
            \/ /\ "load" \notin Form.ok
               /\ shown' = IF Form.patch = "after" THEN Patched(a) ELSE shown
               /\ doubt' = (doubt \/ Loading \/ Form.patch = "no")
               /\ UNCHANGED loads

DoneQuietly(a) == \* Slip: the form closes and the list is not loaded again.
    /\ Waiting(a) /\ posts[a].server = "done" /\ ~Form.qris
    /\ posts' = [posts EXCEPT ![a].told = "ok"]
    /\ sheet' = Closed
    /\ UNCHANGED <<screen, at, scope, shown, loads, db, doubt, outlet>>

DoneEarly(a) == \* Slip: the second request of a form is not awaited.
    /\ Waiting(a) /\ posts[a].server \in {"half", "done"} /\ ~Form.qris
    /\ UNCHANGED <<scope, screen, db>> /\ Succeed(a)

Done(a) ==
    /\ Waiting(a) /\ posts[a].server = "done" /\ ~Form.qris
    /\ UNCHANGED <<scope, screen, db>> /\ Succeed(a)

\* The answer of a QRIS form puts up the pane that polls the payment, whatever
\* the form was closed or used for in the meantime.
ShowPane(a) ==
    /\ Waiting(a) /\ posts[a].server \in {"pending", "paid", "done"} /\ Form.qris
    /\ posts' = [posts EXCEPT ![a].told = "pay"]
    /\ sheet' = IF posts[a].from = "gone" THEN sheet
                ELSE [sheet EXCEPT !.stage = "qris", !.pane = a]
    /\ doubt' = (doubt \/ PaidPaneLost \/ posts[a].server = "done")
    /\ UNCHANGED <<screen, at, scope, shown, loads, db, outlet>>

\* QrisPane polls the order's status and calls onPaid once, when the order is
\* PAID: what the payer paid for may be stored before, after or never.
PollSeesPaid ==
    LET a == sheet.pane IN
    /\ a # None /\ Watched(a) /\ posts[a].server \in {"paid", "done"}
    /\ UNCHANGED <<scope, screen, db>> /\ Succeed(a)

\* The handler's catch: the error is shown, at the first stage of a sheet with
\* stages; a few pages load the list again.
Catch(a, told) ==
    /\ posts' = [posts EXCEPT ![a].told = told]
    /\ sheet' = IF Form.once = "opening" /\ posts[a].from # "gone"
                  THEN [sheet EXCEPT !.stage = "form", !.pane = None] ELSE sheet
    /\ UNCHANGED <<screen, at, scope, db, outlet>>
    /\ IF Form.reloads /\ posts[a].from # "gone"
         THEN Reload(posts[a].scope)
         ELSE /\ NoReload
              /\ doubt' = (doubt \/ PaidPaneLost
                                \/ posts[a].server \in {"half", "torn", "done"})

Refused(a) ==
    /\ Waiting(a) /\ posts[a].server \in {"refused", "torn"}
    /\ Catch(a, "refused")

\* No answer, or a 500: the form shows an error whatever the backend did, and
\* the backend may go on with the request.
Fail(a) ==
    /\ Waiting(a)
    /\ Catch(a, "failed")

(***************************************************************************)
(* The outlet choice of the storefront (useOutletSelection).               *)
(***************************************************************************)

\* The page moves to outlet c; its effect on [activeServer] loads the packages.
MoveTo(c) ==
    /\ scope' = c
    /\ IF c = scope THEN NoReload /\ UNCHANGED doubt ELSE Reload(c)

OnBeranda == at = "page" /\ Is("nearest")
Rest == UNCHANGED <<screen, at, posts, sheet, db>>

\* writePref: the browser's storage takes the choice, or refuses it unnoticed.
Written(id, manual) == {outlet, [outlet EXCEPT !.pref = id, !.manual = manual]}

LocateSwitches(near) == \* Slip: the nearest outlet is applied at once.
    /\ OnBeranda /\ outlet.geo = "asked" /\ near \in outlet.listed
    /\ MoveTo(near)
    /\ \E written \in Written(near, FALSE) : outlet' = [written EXCEPT !.geo = "granted"]
    /\ Rest

\* The location is known and near is the nearest of the outlets offered.  Without
\* a stored choice it is taken; else it may be recommended (the distances decide).
Locate(near) ==
    /\ OnBeranda /\ outlet.geo = "asked" /\ near \in outlet.listed
    /\ \/ /\ outlet.pref = None
          /\ MoveTo(near)
          /\ \E written \in Written(near, FALSE) :
                outlet' = [written EXCEPT !.geo = "granted"]
       \/ /\ outlet.pref # None
          /\ \E r \in {outlet.rec} \cup ({near} \ {outlet.pref}) :
                outlet' = [outlet EXCEPT !.rec = r, !.geo = "granted"]
          /\ UNCHANGED <<scope, doubt>> /\ NoReload
    /\ Rest

\* The answer of a visit that is over: the outlet is not shown, only stored.
LocateLate(near) ==
    /\ outlet.late /\ outlet.pref = None
    /\ outlet' \in Written(near, FALSE)
    /\ UNCHANGED <<scope, doubt>> /\ NoReload /\ Rest

\* The location is denied, or no outlet has coordinates.
Deny ==
    /\ OnBeranda /\ outlet.geo = "asked"
    /\ outlet' = [outlet EXCEPT !.geo = "denied"]
    /\ UNCHANGED <<scope, doubt>> /\ NoReload /\ Rest

\* selectManual and acceptRecommendation.
Choose(c) ==
    /\ OnBeranda /\ ~sheet.open /\ c \in outlet.listed
    /\ MoveTo(c)
    /\ \E written \in Written(c, TRUE) :
          outlet' = [written EXCEPT !.rec = None, !.picked = c]
    /\ Rest

Accept == outlet.rec # None /\ Choose(outlet.rec)

Dismiss ==
    /\ OnBeranda /\ outlet.rec # None
    /\ outlet' = [outlet EXCEPT !.rec = None]
    /\ UNCHANGED <<scope, doubt>> /\ NoReload /\ Rest

ScreenNext ==
    \/ SignIn \/ Mount \/ Leave \/ Refresh \/ Expire \/ Open \/ Close \/ PollSeesPaid
    \/ Deny \/ Accept \/ Dismiss
    \/ \E c \in Scopes : Visit(c) \/ Locate(c) \/ LocateLate(c) \/ Choose(c)
    \/ \E l \in Loads : ServerReads(l) \/ Arrive(l) \/ FailLoad(l)
    \/ \E a \in Changes :
          \/ Submit(a) \/ Commit(a) \/ Refuse(a) \/ Bill(a) \/ Pay(a) \/ Deliver(a)
          \/ Done(a) \/ ShowPane(a) \/ Refused(a) \/ Fail(a)

ScreenSpec == ScreenInit /\ [][ScreenNext]_screenVars

(***************************************************************************)
(* Properties.                                                             *)
(***************************************************************************)

\* Nothing the page waits for: no load, no answer, no delivered QRIS on the pane.
Quiet ==
    /\ at = "page" /\ ~Loading
    /\ \A a \in Changes : ~Heard(a)
    /\ \A a \in Changes : Watched(a) => posts[a].server # "done"

\* A page at rest shows the backend's data of its selection: every success is
\* followed by the load or the patch that displays it, and an answer lost,
\* refused half-way, late or overtaken, or a payment whose purchase was delivered
\* after the page was told of it, is the only way to show anything else.
ShownIsStored ==
    Quiet /\ ~doubt /\ shown # None => shown = db[scope]

\* All parts of a change are stored.
Stored(a) ==
    posts[a].scope # None /\ \A k \in Parts : <<a, k>> \in db[posts[a].scope]

\* What the user is told is what happened: after a success all parts of the
\* change are stored, or, of a QRIS, its order is paid and the purchase not yet
\* delivered; after a refusal the last part is not stored and never will be.
\* Nothing is said of a lost answer: there the error may follow a success.
ToldIsTrue ==
    \A a \in Changes :
        /\ posts[a].told = "ok" =>
             Stored(a) \/ (Form.qris /\ posts[a].server = "paid")
        /\ posts[a].told = "refused" =>
             \A c \in Scopes : <<a, Form.parts>> \notin db[c]

\* "Saldo bertambah!" (TopupSheet.tsx:129): what the user is told to have is
\* stored.  False of the QRIS forms, whose pane looks at the order only.
SuccessIsStored == \A a \in Changes : posts[a].told = "ok" => Stored(a)

\* The customer's last pick is what the storage remembers of him.
Remembered == outlet.manual /\ outlet.pref = outlet.picked

\* An outlet the customer picked by hand stays picked until he picks another one:
\* it stays remembered, and every visit that offers it shows it; within a visit
\* no late location answer takes the page away from it, not even from one the
\* storage refused to remember, as long as some choice is stored.
ManualChoiceStays ==
    [][LET pick == outlet.picked IN
       Is("nearest") /\ pick # None /\ outlet'.picked = pick =>
         /\ Remembered => Remembered'
         /\ at' = "page" /\ Remembered' /\ pick \in outlet'.listed => scope' = pick
         /\ at = "page" /\ at' = "page" /\ scope = pick /\ outlet.pref # None
              => scope' = pick]_screenVars
=============================================================================
