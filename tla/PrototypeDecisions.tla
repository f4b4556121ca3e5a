-------------------------- MODULE PrototypeDecisions --------------------------
(***************************************************************************)
(* One suggestion of the Python prototype: its review, its two lanes (the    *)
(* operator's and the buyer's), the events of the trace, and the tabs of one *)
(* browser that show it.  Sources: the prototype's backend/app/api.py and    *)
(* security.py, and its frontend/src: main.tsx, api.ts, AuthContext,          *)
(* AppShell, LoginPage, ForbiddenPage and DecisionDetailPage.                *)
(*                                                                         *)
(* The tabs share the session cookie, and each keeps the identity it loaded:  *)
(* a login in one tab replaces the session under the others.  A tab is a      *)
(* single page: going to another page keeps what its query cache holds.       *)
(* Everyone else in the company reviews and works at any moment.  An answer   *)
(* of a read is shown at once: a newer read of the same key cancels the older *)
(* one, so a late answer is no different from an earlier read.  Notes and     *)
(* results only have to be filled in.  One command of a tab is followed at a   *)
(* time.                                                                   *)
(***************************************************************************)
EXTENDS Integers, FiniteSets

CONSTANTS
    Tabs,       \* the tabs of the browser that are followed
    Plans,      \* the owners of the lanes a suggestion may come with
    MaxLogins   \* bound: sign-ins in this browser

None == "none"
Owners == {"operator", "procurement"}
Roles == Owners \cup {"supervisor"}

ASSUME PlansAssumption == Plans \subseteq SUBSET Owners
ASSUME LoginsAssumption == MaxLogins \in Nat

VARIABLES
    review,    \* review_state and review_version of the decision
    lanes,     \* execution_state and execution_version of its action items
    trace,     \* its review and action events
    session,   \* the live session of the browser's cookies, if any
    logins,    \* sign-ins so far; the last one's number is the session's token
    page,      \* the page of each tab
    auth,      \* the identity a tab has loaded, with its request token
    shown,     \* the decision in a tab's query cache
    timeline,  \* the trace in a tab's query cache
    modal,     \* the dialog that is open
    sent       \* the command that is under way

server == <<review, lanes, trace>>
browser == <<session, logins>>
cache == <<shown, timeline>>
tabs == <<page, auth, cache, modal, sent>>
vars == <<server, browser, tabs>>

ReviewStates == {"pending", "approved", "rejected"}
LaneStates == {"awaiting_review", "pending", "closed", "executed", "result_recorded"}
Lane == [state : LaneStates, version : Nat]
Modes == {"approved", "rejected"}

\* Events of the review have no lane and no action.
EventTypes == Modes \cup {"action_executed", "result_recorded"}
TraceEvents == [type : EventTypes, lane : Owners \cup {None}, by : Roles]

Anonymous == [token |-> 0, role |-> None]
Loading == [token |-> 0, role |-> "loading"]
Sessions == [token : Nat \ {0}, role : Roles]

BusinessPages == {"workspace", "actions", "detail", "leaving"}
Pages == BusinessPages \cup {"login", "forbidden"}

-----------------------------------------------------------------------------
(* The server.                                                             *)

\* Variant of AfterReview: a rejected suggestion can still be worked on.
AfterReviewOpen(mode) == "pending"

AfterReview(mode) == IF mode = "approved" THEN "pending" ELSE "closed"

Recorded(e) == trace' = trace \cup {e}

\* What the update of review_decision finds the decision by.
Reviewable(by, v) ==
    /\ by = "supervisor"
    /\ review.state = "pending" /\ review.version = v

\* review_decision: both lanes leave the review together with the decision.
ReviewDecision(by, mode, v) ==
    /\ Reviewable(by, v)
    /\ review' = [state |-> mode, version |-> v + 1]
    /\ lanes' = [l \in DOMAIN lanes |->
                    IF lanes[l].state = "awaiting_review"
                    THEN [state |-> AfterReview(mode), version |-> lanes[l].version + 1]
                    ELSE lanes[l]]
    /\ Recorded([type |-> mode, lane |-> None, by |-> by])

\* With a result the lane must be executed, without it pending.
Completable(by, l, result, v) ==
    /\ l \in DOMAIN lanes /\ l = by
    /\ lanes[l].state = IF result THEN "executed" ELSE "pending"
    /\ lanes[l].version = v

\* complete_action
CompleteAction(by, l, result, v) ==
    /\ Completable(by, l, result, v)
    /\ lanes' = [lanes EXCEPT ![l] =
                    [state |-> IF result THEN "result_recorded" ELSE "executed",
                     version |-> v + 1]]
    /\ Recorded([type |-> IF result THEN "result_recorded" ELSE "action_executed",
                 lane |-> l, by |-> by])
    /\ UNCHANGED review

\* The lanes and events a role is shown: a buyer sees neither the review nor
\* the operator's lane.
VisibleLanes(role) ==
    IF role = "procurement" THEN DOMAIN lanes \cap {"procurement"} ELSE DOMAIN lanes
MaySee(role, e) == role = "procurement" => e.lane = "procurement"
TraceFor(role) == {e \in trace : MaySee(role, e)}

Unreviewed == [state |-> "pending", version |-> 1]

\* decision_summary and decision_detail, for the review r of the decision's row.
Payload(role, r) ==
    [by |-> role,
     review |-> IF role = "procurement" THEN None ELSE r.state,
     version |-> IF role = "procurement" THEN 0 ELSE r.version,
     lanes |-> [l \in VisibleLanes(role) |-> lanes[l]]]

\* procurement_can_access
CanAccess(role) == role = "procurement" => "procurement" \in DOMAIN lanes

\* The cookie names the live session, and the request's token is that session's.
VerifyCsrf(request) == request.token = session.token

NoData == [by |-> None]
Payloads(owners) ==
    [by : Roles, review : ReviewStates \cup {None}, version : Nat,
     lanes : [owners -> Lane]]

-----------------------------------------------------------------------------
(* What a tab shows.                                                       *)

\* Variant of Landing: the shell opens for everybody.
LandingOpen(p, a) == IF p = "login" /\ a \in Sessions THEN "workspace" ELSE p

\* The shell sends who is not signed in to the login page, and the login page
\* sends who is to the workspace.
Landing(p, a) ==
    CASE p \in BusinessPages /\ a = Anonymous -> "login"
      [] p = "login" /\ a \in Sessions -> "workspace"
      [] OTHER -> p

\* Variant of OfferedLanes: a lane that awaits the review can be worked on.
OfferedLanesEarly(t) ==
    {l \in DOMAIN shown[t].lanes \cap {auth[t].role} :
        shown[t].lanes[l].state \in {"awaiting_review", "pending", "executed"}}

\* The lanes with a button: the reader's own that can be executed or recorded.
OfferedLanes(t) ==
    {l \in DOMAIN shown[t].lanes \cap {auth[t].role} :
        shown[t].lanes[l].state \in {"pending", "executed"}}

ReviewOffered(t) == auth[t].role = "supervisor" /\ shown[t].review = "pending"

OnDetail(t) == page[t] = "detail" /\ auth[t] \in Sessions /\ shown[t] # NoData

\* The cards of the page by the role of the tab, and those a payload can fill: the
\* review's card is there for everybody, and a buyer's payload leaves it blank.
ManagementCards == {"context", "four_elements", "rule_path", "ai"}
Cards(role) ==
    {"hero", "metrics", "lanes", "review"}
    \cup IF role = "procurement" THEN {} ELSE ManagementCards
FilledCards(d) ==
    {"hero", "metrics", "lanes"}
    \cup IF d.review = None THEN {} ELSE ManagementCards \cup {"review"}

\* The actions of a decision, named by their owners: the buyer's payload has no
\* main action.  An event of the review has none either.
MainAction(d) == IF d.by = "procurement" THEN None ELSE "operator"
StockAction(d) == "procurement"

\* Variant of TimelineTab: everything that is not a review is the operator's.
TimelineTabTwo(e, d) ==
    (IF e.lane = None THEN {"review"} ELSE {"operation"})
    \cup (IF e.lane = StockAction(d) THEN {"procurement"} ELSE {})

\* The tabs of the timeline an event is listed under, whichever session its trace
\* was read in: by its type, or as its action is the main action or the inventory
\* action of the decision in the cache.
TimelineTab(e, d) ==
    (IF e.lane = None THEN {"review"} ELSE {})
    \cup (IF e.lane = MainAction(d) THEN {"operation"} ELSE {})
    \cup (IF e.lane = StockAction(d) THEN {"procurement"} ELSE {})

NoModal == [kind |-> None]
ReviewModal(m) == [kind |-> "review", mode |-> m]
LaneModal(l, lane) ==
    [kind |-> "lane", lane |-> l, state |-> lane.state, version |-> lane.version]

NoRequest == [kind |-> None]

-----------------------------------------------------------------------------
(* The browser: other tabs sign in and out, sessions run out.              *)

SignIn ==
    /\ logins < MaxLogins
    /\ logins' = logins + 1
    /\ \E r \in Roles : session' = [token |-> logins + 1, role |-> r]
    /\ UNCHANGED <<server, tabs>>

\* Expired, revoked, signed out elsewhere, or no longer mapped to one role.
SessionEnds ==
    /\ session # Anonymous
    /\ session' = Anonymous
    /\ UNCHANGED <<server, logins, tabs>>

-----------------------------------------------------------------------------
(* A tab.                                                                  *)

\* A page load: after a login, by the address, or a reload.
Load(t, p) ==
    /\ sent[t] = NoRequest
    /\ page' = [page EXCEPT ![t] = p]
    /\ auth' = [auth EXCEPT ![t] = Loading]
    /\ shown' = [shown EXCEPT ![t] = NoData]
    /\ timeline' = [timeline EXCEPT ![t] = {}]
    /\ modal' = [modal EXCEPT ![t] = NoModal]
    /\ UNCHANGED <<server, browser, sent>>

\* loadAuth: the identity and the request token of the session of this moment;
\* a failure counts as signed out.
AuthAnswered(t) ==
    /\ auth[t] = Loading
    /\ \E a \in {session, Anonymous} :
         /\ auth' = [auth EXCEPT ![t] = a]
         /\ page' = [page EXCEPT ![t] = Landing(@, a)]
    /\ UNCHANGED <<server, browser, cache, modal, sent>>

\* The menu, links and buttons; a dialog goes with its page.
Navigate(t, p) ==
    /\ auth[t] # Loading /\ page[t] # "leaving"
    /\ page' = [page EXCEPT ![t] = Landing(p, auth[t])]
    /\ modal' = [modal EXCEPT ![t] = NoModal]
    /\ UNCHANGED <<server, browser, auth, cache, sent>>

\* Log out of the shell; a refused logout leaves the tab as it is.
Logout(t) ==
    /\ page[t] \in BusinessPages \ {"leaving"} /\ auth[t] \in Sessions
    /\ session # Anonymous /\ session.token = auth[t].token
    /\ session' = Anonymous
    /\ page' = [page EXCEPT ![t] = "leaving"]
    /\ modal' = [modal EXCEPT ![t] = NoModal]
    /\ UNCHANGED <<server, logins, auth, cache, sent>>

\* The identity is asked for again after a logout, and on the forbidden page on
\* demand; the tab goes to the login page, or on to the workspace.
CheckAgain(t) ==
    /\ page[t] \in {"leaving", "forbidden"} /\ auth[t] # Loading
    /\ auth' = [auth EXCEPT ![t] = session]
    /\ page' = [page EXCEPT ![t] = Landing("login", session)]
    /\ UNCHANGED <<server, browser, cache, modal, sent>>

\* The decision is read when its page opens and on every refresh: first its row,
\* then its lanes, and a review may come between the two.  Without a session the
\* page keeps what it shows; without access it is left.
ReadDecision(t) ==
    /\ page[t] = "detail" /\ auth[t] \in Sessions /\ session # Anonymous
    /\ IF CanAccess(session.role)
       THEN /\ \E r \in {review, Unreviewed} :
                 shown' = [shown EXCEPT ![t] = Payload(session.role, r)]
            /\ UNCHANGED <<page, modal>>
       ELSE /\ page' = [page EXCEPT ![t] = "forbidden"]
            /\ modal' = [modal EXCEPT ![t] = NoModal]
            /\ UNCHANGED shown
    /\ UNCHANGED <<server, browser, auth, timeline, sent>>

\* The trace is a request of its own, made once the decision was read.  Its two
\* queries, of the review and of the actions, are taken at one moment.
ReadTrace(t) ==
    /\ OnDetail(t) /\ session # Anonymous
    /\ timeline' = [timeline EXCEPT ![t] = TraceFor(session.role)]
    /\ UNCHANGED <<server, browser, page, auth, shown, modal, sent>>

OpenReview(t, mode) ==
    /\ OnDetail(t) /\ modal[t] = NoModal
    /\ ReviewOffered(t)
    /\ modal' = [modal EXCEPT ![t] = ReviewModal(mode)]
    /\ UNCHANGED <<server, browser, page, auth, cache, sent>>

\* The dialog keeps the lane of the moment it was opened.
OpenLane(t, l) ==
    /\ OnDetail(t) /\ modal[t] = NoModal
    /\ l \in OfferedLanes(t)
    /\ modal' = [modal EXCEPT ![t] = LaneModal(l, shown[t].lanes[l])]
    /\ UNCHANGED <<server, browser, page, auth, cache, sent>>

CloseModal(t) ==
    /\ modal[t] # NoModal
    /\ modal' = [modal EXCEPT ![t] = NoModal]
    /\ UNCHANGED <<server, browser, page, auth, cache, sent>>

\* A review sends the version the page shows now, a lane the one of its dialog
\* and, when the lane was executed then, a result.  The browser adds its cookie,
\* and the tab the token it loaded.
Submit(t) ==
    /\ modal[t] # NoModal /\ sent[t] = NoRequest
    /\ LET who == [cookie |-> session.token, token |-> auth[t].token, done |-> FALSE]
       IN sent' = [sent EXCEPT ![t] =
            IF modal[t].kind = "review"
            THEN [kind |-> "review", mode |-> modal[t].mode,
                  version |-> shown[t].version, who |-> who]
            ELSE [kind |-> "lane", lane |-> modal[t].lane,
                  result |-> modal[t].state = "executed",
                  version |-> modal[t].version, who |-> who]]
    /\ UNCHANGED <<server, browser, page, auth, cache, modal>>

\* The handler runs for the session of the cookie, if that is still live.
Handle(t) ==
    /\ sent[t] # NoRequest /\ ~sent[t].who.done
    /\ session # Anonymous /\ session.token = sent[t].who.cookie
    /\ VerifyCsrf(sent[t].who)
    /\ \/ sent[t].kind = "review"
          /\ ReviewDecision(session.role, sent[t].mode, sent[t].version)
       \/ sent[t].kind = "lane"
          /\ CompleteAction(session.role, sent[t].lane, sent[t].result, sent[t].version)
    /\ sent' = [sent EXCEPT ![t].who.done = TRUE]
    /\ UNCHANGED <<browser, page, auth, cache, modal>>

\* The dialog is closed; the reads of the refresh follow.
Answered(t) ==
    /\ sent[t] # NoRequest /\ sent[t].who.done
    /\ modal' = [modal EXCEPT ![t] = IF @.kind = sent[t].kind THEN NoModal ELSE @]
    /\ sent' = [sent EXCEPT ![t] = NoRequest]
    /\ UNCHANGED <<server, browser, page, auth, cache>>

\* Refused, lost, or its answer lost: the error is shown and the dialog stays.
Fails(t) ==
    /\ sent[t] # NoRequest
    /\ sent' = [sent EXCEPT ![t] = NoRequest]
    /\ UNCHANGED <<server, browser, page, auth, cache, modal>>

-----------------------------------------------------------------------------

\* publish: a decision starts with its lanes awaiting the review.
Init ==
    /\ review = Unreviewed
    /\ \E plan \in Plans :
         lanes = [l \in plan |-> [state |-> "awaiting_review", version |-> 1]]
    /\ trace = {}
    /\ session = Anonymous /\ logins = 0
    /\ page = [t \in Tabs |-> "login"]
    /\ auth = [t \in Tabs |-> Loading]
    /\ shown = [t \in Tabs |-> NoData]
    /\ timeline = [t \in Tabs |-> {}]
    /\ modal = [t \in Tabs |-> NoModal]
    /\ sent = [t \in Tabs |-> NoRequest]

\* Everyone else, in browsers of their own.
Others ==
    /\ \/ \E m \in Modes : ReviewDecision("supervisor", m, review.version)
       \/ \E l \in DOMAIN lanes, result \in BOOLEAN :
            CompleteAction(l, l, result, lanes[l].version)
    /\ UNCHANGED <<browser, tabs>>

Next ==
    \/ Others \/ SignIn \/ SessionEnds
    \/ \E t \in Tabs :
         \/ \E p \in {"workspace", "detail", "login"} : Load(t, p)
         \/ \E p \in {"workspace", "actions", "detail", "login"} : Navigate(t, p)
         \/ AuthAnswered(t) \/ Logout(t) \/ CheckAgain(t)
         \/ ReadDecision(t) \/ ReadTrace(t)
         \/ \E m \in Modes : OpenReview(t, m)
         \/ \E l \in Owners : OpenLane(t, l)
         \/ CloseModal(t) \/ Submit(t) \/ Handle(t) \/ Answered(t) \/ Fails(t)

Spec == Init /\ [][Next]_vars

-----------------------------------------------------------------------------
(* Properties.                                                             *)

Modals ==
    {NoModal} \cup [kind : {"review"}, mode : Modes]
    \cup [kind : {"lane"}, lane : Owners, state : LaneStates, version : Nat]
Whos == [cookie : Nat, token : Nat, done : BOOLEAN]
Requests ==
    {NoRequest} \cup [kind : {"review"}, mode : Modes, version : Nat, who : Whos]
    \cup [kind : {"lane"}, lane : Owners, result : BOOLEAN, version : Nat, who : Whos]

\* Rows, caches, dialogs and requests have their columns' types; no page of the
\* shell is open to nobody, and no dialog but over a decision that was read.
TypeOK ==
    /\ review \in [state : ReviewStates, version : Nat]
    /\ DOMAIN lanes \subseteq Owners /\ lanes \in [DOMAIN lanes -> Lane]
    /\ trace \subseteq TraceEvents
    /\ session \in Sessions \cup {Anonymous} /\ logins \in Nat
    /\ page \in [Tabs -> Pages]
    /\ auth \in [Tabs -> Sessions \cup {Anonymous, Loading}]
    /\ DOMAIN shown = Tabs
    /\ \A t \in Tabs : shown[t] = NoData \/ \E S \in SUBSET Owners : shown[t] \in Payloads(S)
    /\ timeline \in [Tabs -> SUBSET TraceEvents]
    /\ modal \in [Tabs -> Modals]
    /\ sent \in [Tabs -> Requests]
    /\ \A t \in Tabs : page[t] \in BusinessPages => auth[t] # Anonymous
    /\ \A t \in Tabs : modal[t] # NoModal => OnDetail(t)

\* What the events say was done, for a state of the review or of a lane.
ReviewStory(s) == IF s = "pending" THEN {} ELSE {s}
LaneStory(s) ==
    (IF s \in {"executed", "result_recorded"} THEN {"action_executed"} ELSE {})
    \cup (IF s = "result_recorded" THEN {"result_recorded"} ELSE {})
StoryOf(l) == {e.type : e \in {f \in trace : f.lane = l}}

\* The trace tells the state: the review and every lane are exactly where their
\* events put them, a lane is open only after an approval and closed only by a
\* rejection, and each event was caused by the role that owns it, whatever
\* sessions the commands came from.
TraceExplainsState ==
    /\ StoryOf(None) = ReviewStory(review.state)
    /\ \A l \in DOMAIN lanes :
         /\ StoryOf(l) = LaneStory(lanes[l].state)
         /\ lanes[l].state = "awaiting_review" <=> review.state = "pending"
         /\ lanes[l].state = "closed" <=> review.state = "rejected"
    /\ \A e \in trace : e.by = IF e.lane = None THEN "supervisor" ELSE e.lane

\* The tab shows the session of the browser and the decision as it is now.
UpToDate(t) ==
    OnDetail(t) /\ auth[t] = session /\ shown[t] = Payload(session.role, review)

\* What an up-to-date page offers is accepted: its buttons go by the role the tab
\* loaded, the server by the session, the row's owner, state and version.
OfferedIsAccepted ==
    \A t \in Tabs : UpToDate(t) =>
        /\ ReviewOffered(t) => Reviewable(session.role, shown[t].version)
        /\ \A l \in OfferedLanes(t) :
             Completable(session.role, l, shown[t].lanes[l].state = "executed",
                         shown[t].lanes[l].version)

\* A page read under the identity it shows lacks nothing but a buyer's review, and
\* in which session the trace was ever read, every event that the reader of the
\* decision may see is listed in exactly one tab of the timeline.  The others are
\* not: a buyer's decision over a manager's trace has reviews in two tabs and the
\* operator's events in none.
PageIsComplete ==
    \A t \in Tabs : OnDetail(t) =>
        /\ shown[t].by = auth[t].role =>
             Cards(auth[t].role) \ FilledCards(shown[t])
                \subseteq IF auth[t].role = "procurement" THEN {"review"} ELSE {}
        /\ \A e \in timeline[t] :
             MaySee(shown[t].by, e) => Cardinality(TimelineTab(e, shown[t])) = 1

-----------------------------------------------------------------------------
(* Each lane implements WorkTrack, as told by its events.                   *)

LanePhase(l) ==
    IF l \notin DOMAIN lanes THEN "none" ELSE
    CASE lanes[l].state = "awaiting_review" -> "waiting"
      [] lanes[l].state = "pending" -> "ready"
      [] lanes[l].state \in {"executed", "result_recorded"} -> "done"
      [] lanes[l].state = "closed" -> "ended"

\* How often the trace has an event; each can happen once to a lane.
Told(type, l) == IF type \in StoryOf(l) THEN 1 ELSE 0

OperatorTrack == INSTANCE WorkTrack
    WITH phase <- LanePhase("operator"), grants <- Told("approved", None),
         runs <- Told("action_executed", "operator")
ProcurementTrack == INSTANCE WorkTrack
    WITH phase <- LanePhase("procurement"), grants <- Told("approved", None),
         runs <- Told("action_executed", "procurement")

\* Whatever sessions and stale pages the commands come from, the operator and the
\* buyer each do their work once, after the approval, and a lane that was closed
\* or executed is never opened again.
LanesImplementTracks == OperatorTrack!Spec /\ ProcurementTrack!Spec
=============================================================================
