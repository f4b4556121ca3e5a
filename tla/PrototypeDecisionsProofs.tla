----------------------- MODULE PrototypeDecisionsProofs -----------------------
(***************************************************************************)
(* The safety of PrototypeDecisions for every number of tabs and sign-ins    *)
(* and every plan of lanes.                                                *)
(*                                                                         *)
(* The server and the tabs are independent: whatever a tab sends, the rows    *)
(* and the trace change only by ReviewDecision and CompleteAction, and        *)
(* whatever the server holds, a tab shows payloads and events.  Seen by its   *)
(* state alone, each lane's action is a piece of work as WorkTrack has it.    *)
(***************************************************************************)
EXTENDS PrototypeDecisions, TLAPS, FiniteSetTheorems

\* The rows have their types, and the trace explains them.
ServerInv ==
    /\ review \in [state : ReviewStates, version : Nat]
    /\ DOMAIN lanes \subseteq Owners /\ lanes \in [DOMAIN lanes -> Lane]
    /\ trace \subseteq TraceEvents
    /\ TraceExplainsState

\* What a tab shows as review is what its reader may see of it.
Filled(t) ==
    shown[t] # NoData => (shown[t].review = None <=> shown[t].by = "procurement")

\* The browser and its tabs have their types.
TabsInv ==
    /\ session \in Sessions \cup {Anonymous} /\ logins \in Nat
    /\ page \in [Tabs -> Pages]
    /\ auth \in [Tabs -> Sessions \cup {Anonymous, Loading}]
    /\ DOMAIN shown = Tabs
    /\ \A t \in Tabs : shown[t] = NoData \/ \E S \in SUBSET Owners : shown[t] \in Payloads(S)
    /\ timeline \in [Tabs -> SUBSET TraceEvents]
    /\ modal \in [Tabs -> Modals]
    /\ sent \in [Tabs -> Requests]
    /\ \A t \in Tabs : page[t] \in BusinessPages => auth[t] # Anonymous
    /\ \A t \in Tabs : modal[t] # NoModal => OnDetail(t)
    /\ \A t \in Tabs : Filled(t)

IInv == ServerInv /\ TabsInv

\* The two parts are the type invariant and more.
LEMMA Parts == IInv => TypeOK /\ TraceExplainsState
  BY DEF IInv, ServerInv, TabsInv, TypeOK

-----------------------------------------------------------------------------
(* The server.                                                             *)

\* An event more is one more line of its lane's story.
LEMMA StoryGrows ==
    ASSUME trace \subseteq TraceEvents, NEW e \in TraceEvents, Recorded(e)
    PROVE  /\ trace' \subseteq TraceEvents
           /\ StoryOf(e.lane)' = StoryOf(e.lane) \cup {e.type}
           /\ \A l : l # e.lane => StoryOf(l)' = StoryOf(l)
<1>1. trace' = trace \cup {e}
  BY DEF Recorded
<1>2. StoryOf(e.lane)' = StoryOf(e.lane) \cup {e.type}
  BY <1>1 DEF StoryOf
<1>3. ASSUME NEW l, l # e.lane
      PROVE  StoryOf(l)' = StoryOf(l)
  BY <1>1, <1>3 DEF StoryOf
<1> QED BY <1>1, <1>2, <1>3

\* A review opens or closes all the lanes there are.
LEMMA ReviewKeeps ==
    ASSUME ServerInv, NEW by, NEW mode \in Modes, NEW v, ReviewDecision(by, mode, v)
    PROVE  ServerInv'
<1> DEFINE e == [type |-> mode, lane |-> None, by |-> by]
<1>1. /\ by = "supervisor" /\ review.state = "pending" /\ review.version = v
      /\ review' = [state |-> mode, version |-> v + 1]
      /\ lanes' = [l \in DOMAIN lanes |->
                    IF lanes[l].state = "awaiting_review"
                    THEN [state |-> AfterReview(mode), version |-> lanes[l].version + 1]
                    ELSE lanes[l]]
      /\ Recorded(e)
  BY DEF ReviewDecision, Reviewable
<1>2. /\ review \in [state : ReviewStates, version : Nat]
      /\ DOMAIN lanes \subseteq Owners /\ lanes \in [DOMAIN lanes -> Lane]
      /\ trace \subseteq TraceEvents /\ TraceExplainsState
  BY DEF ServerInv
<1>3. review' \in [state : ReviewStates, version : Nat]
      /\ review'.state = mode /\ mode \in {"approved", "rejected"}
  BY <1>1, <1>2 DEF Modes, ReviewStates
<1>4. DOMAIN lanes' = DOMAIN lanes
  BY <1>1
<1>5. AfterReview(mode) = IF mode = "approved" THEN "pending" ELSE "closed"
  BY DEF AfterReview
<1>6. \A l \in DOMAIN lanes :
        /\ lanes[l] \in Lane /\ lanes[l].state = "awaiting_review"
        /\ lanes'[l] = [state |-> AfterReview(mode), version |-> lanes[l].version + 1]
        /\ lanes'[l] \in Lane /\ lanes'[l].state = AfterReview(mode)
  <2> SUFFICES ASSUME NEW l \in DOMAIN lanes
               PROVE
        /\ lanes[l] \in Lane /\ lanes[l].state = "awaiting_review"
        /\ lanes'[l] = [state |-> AfterReview(mode), version |-> lanes[l].version + 1]
        /\ lanes'[l] \in Lane /\ lanes'[l].state = AfterReview(mode)
    OBVIOUS
  <2>1. lanes[l] \in Lane /\ lanes[l].state = "awaiting_review"
    BY <1>1, <1>2 DEF TraceExplainsState
  <2>2. lanes'[l] = [state |-> AfterReview(mode), version |-> lanes[l].version + 1]
    BY <1>1, <2>1
  <2> QED BY <1>5, <2>1, <2>2 DEF Lane, LaneStates
<1>7. lanes' \in [DOMAIN lanes' -> Lane]
  BY <1>1, <1>4, <1>6
<1>8. e \in TraceEvents /\ e.lane = None /\ e.type = mode /\ e.by = "supervisor"
  BY <1>1 DEF TraceEvents, EventTypes, Roles
<1> HIDE DEF e
<1>9. /\ trace' \subseteq TraceEvents /\ trace' = trace \cup {e}
      /\ StoryOf(None)' = StoryOf(None) \cup {mode}
      /\ \A l : l # None => StoryOf(l)' = StoryOf(l)
  BY <1>1, <1>2, <1>8, StoryGrows DEF Recorded
<1>10. TraceExplainsState'
  <2>1. StoryOf(None)' = ReviewStory(review'.state)
    BY <1>1, <1>2, <1>3, <1>9 DEF TraceExplainsState, ReviewStory
  <2>2. ASSUME NEW l \in DOMAIN lanes'
        PROVE  /\ StoryOf(l)' = LaneStory(lanes'[l].state)
               /\ lanes'[l].state = "awaiting_review" <=> review'.state = "pending"
               /\ lanes'[l].state = "closed" <=> review'.state = "rejected"
    <3>1. l \in DOMAIN lanes /\ l # None
      BY <1>2, <1>4, <2>2 DEF Owners, None
    <3>2. StoryOf(l)' = LaneStory("awaiting_review")
      BY <1>2, <1>6, <1>9, <3>1 DEF TraceExplainsState
    <3>3. lanes'[l].state = AfterReview(mode)
      BY <1>6, <3>1
    <3> QED BY <1>3, <1>5, <3>2, <3>3 DEF LaneStory
  <2>3. \A f \in trace' : f.by = IF f.lane = None THEN "supervisor" ELSE f.lane
    BY <1>2, <1>8, <1>9 DEF TraceExplainsState
  <2> QED BY <2>1, <2>2, <2>3 DEF TraceExplainsState
<1> QED BY <1>2, <1>3, <1>4, <1>7, <1>9, <1>10 DEF ServerInv

\* A lane goes one step on, by its owner, when the review has opened it.
LEMMA CompleteKeeps ==
    ASSUME ServerInv, NEW by, NEW l, NEW result \in BOOLEAN, NEW v,
           CompleteAction(by, l, result, v)
    PROVE  ServerInv'
<1> DEFINE e == [type |-> IF result THEN "result_recorded" ELSE "action_executed",
                 lane |-> l, by |-> by]
           n == [state |-> IF result THEN "result_recorded" ELSE "executed",
                 version |-> v + 1]
<1>1. /\ l \in DOMAIN lanes /\ l = by
      /\ lanes[l].state = IF result THEN "executed" ELSE "pending"
      /\ lanes[l].version = v
      /\ lanes' = [lanes EXCEPT ![l] = n]
      /\ Recorded(e) /\ UNCHANGED review
  BY DEF CompleteAction, Completable
<1>2. /\ review \in [state : ReviewStates, version : Nat]
      /\ DOMAIN lanes \subseteq Owners /\ lanes \in [DOMAIN lanes -> Lane]
      /\ trace \subseteq TraceEvents /\ TraceExplainsState
  BY DEF ServerInv
<1>3. lanes[l] \in Lane /\ l \in Owners /\ l # None
  BY <1>1, <1>2 DEF Owners, None
<1>4. n \in Lane /\ n.state = IF result THEN "result_recorded" ELSE "executed"
  BY <1>1, <1>3 DEF Lane, LaneStates
<1>5. e \in TraceEvents /\ e.lane = l /\ e.by = l
      /\ e.type = IF result THEN "result_recorded" ELSE "action_executed"
  BY <1>1, <1>3 DEF TraceEvents, EventTypes, Roles
<1> HIDE DEF e, n
<1>6. /\ DOMAIN lanes' = DOMAIN lanes /\ lanes' \in [DOMAIN lanes' -> Lane]
      /\ lanes'[l] = n /\ \A m \in DOMAIN lanes : m # l => lanes'[m] = lanes[m]
  BY <1>1, <1>2, <1>4
<1>7. /\ trace' \subseteq TraceEvents /\ trace' = trace \cup {e}
      /\ StoryOf(l)' = StoryOf(l) \cup {e.type}
      /\ \A m : m # l => StoryOf(m)' = StoryOf(m)
  BY <1>1, <1>2, <1>5, StoryGrows DEF Recorded
<1>8. TraceExplainsState'
  <2>1. StoryOf(None)' = ReviewStory(review'.state)
    BY <1>1, <1>2, <1>3, <1>7 DEF TraceExplainsState
  <2>2. ASSUME NEW m \in DOMAIN lanes'
        PROVE  /\ StoryOf(m)' = LaneStory(lanes'[m].state)
               /\ lanes'[m].state = "awaiting_review" <=> review'.state = "pending"
               /\ lanes'[m].state = "closed" <=> review'.state = "rejected"
    <3>1. m \in DOMAIN lanes
      BY <1>6, <2>2
    <3>2. /\ StoryOf(m) = LaneStory(lanes[m].state)
          /\ lanes[m].state = "awaiting_review" <=> review.state = "pending"
          /\ lanes[m].state = "closed" <=> review.state = "rejected"
      BY <1>2, <3>1 DEF TraceExplainsState
    <3>3. CASE m = l
      <4>1. StoryOf(m)' = LaneStory(n.state)
        BY <1>1, <1>4, <1>5, <1>7, <3>2, <3>3 DEF LaneStory
      <4>2. lanes'[m] = n /\ n.state \notin {"awaiting_review", "closed"}
            /\ lanes[m].state \notin {"awaiting_review", "closed"}
        BY <1>1, <1>4, <1>6, <3>3
      <4> QED BY <1>1, <3>2, <4>1, <4>2
    <3>4. CASE m # l
      BY <1>1, <1>6, <1>7, <3>1, <3>2, <3>4
    <3> QED BY <3>3, <3>4
  <2>3. \A f \in trace' : f.by = IF f.lane = None THEN "supervisor" ELSE f.lane
    BY <1>2, <1>3, <1>5, <1>7 DEF TraceExplainsState
  <2> QED BY <2>1, <2>2, <2>3 DEF TraceExplainsState
<1> QED BY <1>1, <1>2, <1>6, <1>7, <1>8 DEF ServerInv

\* The server's part of the invariant is about its rows alone.
LEMMA ServerStays ==
    ASSUME ServerInv, UNCHANGED server
    PROVE  ServerInv'
<1>1. UNCHANGED <<review, lanes, trace>>
  BY DEF server
<1>2. \A l : StoryOf(l)' = StoryOf(l)
  BY <1>1 DEF StoryOf
<1> QED BY <1>1, <1>2 DEF ServerInv, TraceExplainsState

-----------------------------------------------------------------------------
(* The tabs.                                                               *)

\* The identities are told apart by their tokens.
LEMMA Identities ==
    /\ Anonymous \notin Sessions /\ Loading \notin Sessions /\ Anonymous # Loading
    /\ \A a \in Sessions : a.token \in Nat /\ a.role \in Roles
    /\ Anonymous.token = 0 /\ None \notin Roles /\ "loading" # None
<1>1. \A a \in Sessions : a.token \in Nat \ {0} /\ a.role \in Roles
  BY DEF Sessions
<1>2. Anonymous.token = 0 /\ Loading.token = 0 /\ Anonymous.role # Loading.role
  BY DEF Anonymous, Loading, None
<1> QED BY <1>1, <1>2 DEF Roles, Owners, None

\* The shell is open to nobody who is not signed in.
LEMMA LandingIsSafe ==
    ASSUME NEW p \in Pages, NEW a \in Sessions \cup {Anonymous, Loading}
    PROVE  /\ Landing(p, a) \in Pages
           /\ Landing(p, a) \in BusinessPages => a # Anonymous
  BY Identities DEF Landing, Pages, BusinessPages

\* A payload is one, and tells the review to everybody but the buyer.
LEMMA PayloadIsOne ==
    ASSUME ServerInv, NEW role \in Roles, NEW r \in {review, Unreviewed}
    PROVE  /\ \E S \in SUBSET Owners : Payload(role, r) \in Payloads(S)
           /\ Payload(role, r).review = None <=> Payload(role, r).by = "procurement"
<1>1. /\ DOMAIN lanes \subseteq Owners
      /\ \A l \in DOMAIN lanes : lanes[l] \in Lane
      /\ review \in [state : ReviewStates, version : Nat]
  BY DEF ServerInv
<1>2. r \in [state : ReviewStates, version : Nat]
  BY <1>1 DEF Unreviewed, ReviewStates
<1>3. VisibleLanes(role) \subseteq DOMAIN lanes
  BY DEF VisibleLanes
<1>4. [l \in VisibleLanes(role) |-> lanes[l]] \in [VisibleLanes(role) -> Lane]
  BY <1>1, <1>3
<1>5. /\ (IF role = "procurement" THEN None ELSE r.state) \in ReviewStates \cup {None}
      /\ (IF role = "procurement" THEN 0 ELSE r.version) \in Nat
      /\ (IF role = "procurement" THEN None ELSE r.state) = None <=> role = "procurement"
  BY <1>2 DEF ReviewStates, None
<1>6. Payload(role, r) \in Payloads(VisibleLanes(role))
  BY <1>4, <1>5 DEF Payload, Payloads
<1>7. /\ Payload(role, r).review = IF role = "procurement" THEN None ELSE r.state
      /\ Payload(role, r).by = role
  BY DEF Payload
<1> QED BY <1>1, <1>3, <1>5, <1>6, <1>7


\* The types of the tabs after a step.
Typed ==
    /\ session' \in Sessions \cup {Anonymous} /\ logins' \in Nat
    /\ page' \in [Tabs -> Pages]
    /\ auth' \in [Tabs -> Sessions \cup {Anonymous, Loading}]
    /\ DOMAIN shown' = Tabs
    /\ timeline' \in [Tabs -> SUBSET TraceEvents]
    /\ modal' \in [Tabs -> Modals]
    /\ sent' \in [Tabs -> Requests]

\* What has to hold of one tab.
TabInv(t) ==
    /\ shown[t] = NoData \/ \E S \in SUBSET Owners : shown[t] \in Payloads(S)
    /\ page[t] \in BusinessPages => auth[t] # Anonymous
    /\ modal[t] # NoModal => OnDetail(t)
    /\ Filled(t)

\* What a step of t leaves of the other tabs.
OnlyMoves(t) ==
    \A u \in Tabs : u # t =>
        page'[u] = page[u] /\ auth'[u] = auth[u] /\ shown'[u] = shown[u] /\ modal'[u] = modal[u]

\* A step of t has to answer for t alone.
LEMMA OneTabMoves ==
    ASSUME TabsInv, NEW t \in Tabs, Typed, OnlyMoves(t), TabInv(t)'
    PROVE  TabsInv'
<1>1. ASSUME NEW u \in Tabs, u # t
      PROVE  TabInv(u)'
  <2>1. TabInv(u)
    BY DEF TabsInv, TabInv
  <2>2. page'[u] = page[u] /\ auth'[u] = auth[u] /\ shown'[u] = shown[u]
        /\ modal'[u] = modal[u]
    BY <1>1 DEF OnlyMoves
  <2> QED BY <2>1, <2>2 DEF TabInv, OnDetail, Filled
<1>2. \A u \in Tabs : TabInv(u)'
  BY <1>1
<1> QED BY <1>2 DEF TabsInv, Typed, TabInv

\* Nothing happens in the tabs.
LEMMA TabsStay ==
    ASSUME TabsInv, UNCHANGED <<page, auth, shown, timeline, modal>>,
           session' \in Sessions \cup {Anonymous}, logins' \in Nat,
           sent' \in [Tabs -> Requests]
    PROVE  TabsInv'
  BY DEF TabsInv, OnDetail, Filled

\* A page load forgets everything.
LEMMA LoadKeeps ==
    ASSUME TabsInv, NEW t \in Tabs, NEW p \in {"workspace", "detail", "login"}, Load(t, p)
    PROVE  TabsInv'
<1>1. /\ page' = [page EXCEPT ![t] = p]
      /\ auth' = [auth EXCEPT ![t] = Loading]
      /\ shown' = [shown EXCEPT ![t] = NoData]
      /\ timeline' = [timeline EXCEPT ![t] = {}]
      /\ modal' = [modal EXCEPT ![t] = NoModal]
      /\ UNCHANGED <<session, logins, sent>>
  BY DEF Load, browser
<1>2. p \in Pages /\ NoModal \in Modals
  BY DEF Pages, BusinessPages, Modals
<1>3. Typed
  BY <1>1, <1>2 DEF TabsInv, Typed
<1>4. OnlyMoves(t)
  BY <1>1 DEF TabsInv, OnlyMoves
<1>5. auth'[t] = Loading /\ shown'[t] = NoData /\ modal'[t] = NoModal
  BY <1>1 DEF TabsInv
<1>6. TabInv(t)'
  BY <1>5, Identities DEF TabInv, Filled
<1> QED BY <1>3, <1>4, <1>6, OneTabMoves

\* The identity arrives, and the page follows it; no dialog is open.
LEMMA AuthAnsweredKeeps ==
    ASSUME TabsInv, NEW t \in Tabs, AuthAnswered(t)
    PROVE  TabsInv'
<1>1. PICK a \in {session, Anonymous} :
        /\ auth' = [auth EXCEPT ![t] = a]
        /\ page' = [page EXCEPT ![t] = Landing(@, a)]
  BY DEF AuthAnswered
<1>2. auth[t] = Loading /\ UNCHANGED <<session, logins, shown, timeline, modal, sent>>
  BY DEF AuthAnswered, browser, cache
<1>3. a \in Sessions \cup {Anonymous, Loading} /\ page[t] \in Pages
  BY DEF TabsInv
<1>4. /\ Landing(page[t], a) \in Pages
      /\ Landing(page[t], a) \in BusinessPages => a # Anonymous
  BY <1>3, LandingIsSafe
<1>5. page' \in [Tabs -> Pages] /\ page'[t] = Landing(page[t], a)
      /\ \A u \in Tabs : u # t => page'[u] = page[u]
  BY <1>1, <1>4 DEF TabsInv
<1>6. auth' \in [Tabs -> Sessions \cup {Anonymous, Loading}] /\ auth'[t] = a
      /\ \A u \in Tabs : u # t => auth'[u] = auth[u]
  BY <1>1, <1>3 DEF TabsInv
<1>7. modal[t] = NoModal
  BY <1>2, Identities DEF TabsInv, OnDetail
<1>8. Typed /\ OnlyMoves(t)
  BY <1>2, <1>5, <1>6 DEF TabsInv, Typed, OnlyMoves
<1>9. TabInv(t)'
  BY <1>2, <1>4, <1>5, <1>6, <1>7 DEF TabsInv, TabInv, Filled
<1> QED BY <1>8, <1>9, OneTabMoves

\* The tab goes to another page, and its dialog is gone.
LEMMA NavigateKeeps ==
    ASSUME TabsInv, NEW t \in Tabs, NEW p \in {"workspace", "actions", "detail", "login"},
           Navigate(t, p)
    PROVE  TabsInv'
<1>1. /\ page' = [page EXCEPT ![t] = Landing(p, auth[t])]
      /\ modal' = [modal EXCEPT ![t] = NoModal]
      /\ UNCHANGED <<session, logins, auth, shown, timeline, sent>>
  BY DEF Navigate, browser, cache
<1>2. p \in Pages /\ NoModal \in Modals /\ auth[t] \in Sessions \cup {Anonymous, Loading}
  BY DEF Pages, BusinessPages, Modals, TabsInv
<1>3. /\ Landing(p, auth[t]) \in Pages
      /\ Landing(p, auth[t]) \in BusinessPages => auth[t] # Anonymous
  BY <1>2, LandingIsSafe
<1>4. page' \in [Tabs -> Pages] /\ page'[t] = Landing(p, auth[t])
      /\ \A u \in Tabs : u # t => page'[u] = page[u]
  BY <1>1, <1>3 DEF TabsInv
<1>5. modal' \in [Tabs -> Modals] /\ modal'[t] = NoModal
      /\ \A u \in Tabs : u # t => modal'[u] = modal[u]
  BY <1>1, <1>2 DEF TabsInv
<1>6. Typed /\ OnlyMoves(t)
  BY <1>1, <1>4, <1>5 DEF TabsInv, Typed, OnlyMoves
<1>7. TabInv(t)'
  BY <1>1, <1>3, <1>4, <1>5 DEF TabsInv, TabInv, Filled
<1> QED BY <1>6, <1>7, OneTabMoves

\* The tab signs out, and is on its way to the login page.
LEMMA LogoutKeeps ==
    ASSUME TabsInv, NEW t \in Tabs, Logout(t)
    PROVE  TabsInv'
<1>1. /\ auth[t] \in Sessions /\ session' = Anonymous
      /\ page' = [page EXCEPT ![t] = "leaving"]
      /\ modal' = [modal EXCEPT ![t] = NoModal]
      /\ UNCHANGED <<logins, auth, shown, timeline, sent>>
  BY DEF Logout, cache
<1>2. "leaving" \in Pages /\ NoModal \in Modals
  BY DEF Pages, BusinessPages, Modals
<1>3. Typed /\ OnlyMoves(t)
  BY <1>1, <1>2 DEF TabsInv, Typed, OnlyMoves
<1>4. modal'[t] = NoModal
  BY <1>1 DEF TabsInv
<1>5. TabInv(t)'
  BY <1>1, <1>4, Identities DEF TabsInv, TabInv, Filled
<1> QED BY <1>3, <1>5, OneTabMoves

\* The identity is asked for again where no dialog can be open.
LEMMA CheckAgainKeeps ==
    ASSUME TabsInv, NEW t \in Tabs, CheckAgain(t)
    PROVE  TabsInv'
<1>1. /\ page[t] \in {"leaving", "forbidden"}
      /\ auth' = [auth EXCEPT ![t] = session]
      /\ page' = [page EXCEPT ![t] = Landing("login", session)]
      /\ UNCHANGED <<session, logins, shown, timeline, modal, sent>>
  BY DEF CheckAgain, browser, cache
<1>2. "login" \in Pages /\ session \in Sessions \cup {Anonymous, Loading}
  BY DEF Pages, TabsInv
<1>3. /\ Landing("login", session) \in Pages
      /\ Landing("login", session) \in BusinessPages => session # Anonymous
  BY <1>2, LandingIsSafe
<1>4. page' \in [Tabs -> Pages] /\ page'[t] = Landing("login", session)
      /\ \A u \in Tabs : u # t => page'[u] = page[u]
  BY <1>1, <1>3 DEF TabsInv
<1>5. auth' \in [Tabs -> Sessions \cup {Anonymous, Loading}] /\ auth'[t] = session
      /\ \A u \in Tabs : u # t => auth'[u] = auth[u]
  BY <1>1, <1>2 DEF TabsInv
<1>6. modal[t] = NoModal
  BY <1>1 DEF TabsInv, OnDetail
<1>7. Typed /\ OnlyMoves(t)
  BY <1>1, <1>4, <1>5 DEF TabsInv, Typed, OnlyMoves
<1>8. TabInv(t)'
  BY <1>1, <1>3, <1>4, <1>5, <1>6 DEF TabsInv, TabInv, Filled
<1> QED BY <1>7, <1>8, OneTabMoves

\* What is read is a payload for the session's role.
LEMMA ReadDecisionKeeps ==
    ASSUME ServerInv, TabsInv, NEW t \in Tabs, ReadDecision(t)
    PROVE  TabsInv'
<1>1. /\ page[t] = "detail" /\ auth[t] \in Sessions /\ session # Anonymous
      /\ UNCHANGED <<session, logins, auth, timeline, sent>>
  BY DEF ReadDecision, browser
<1>2. session \in Sessions /\ session.role \in Roles
  BY <1>1, Identities DEF TabsInv
<1>3. CASE /\ \E r \in {review, Unreviewed} :
                shown' = [shown EXCEPT ![t] = Payload(session.role, r)]
           /\ UNCHANGED <<page, modal>>
  <2>1. PICK r \in {review, Unreviewed} :
          shown' = [shown EXCEPT ![t] = Payload(session.role, r)]
    BY <1>3
  <2>2. /\ \E S \in SUBSET Owners : Payload(session.role, r) \in Payloads(S)
        /\ Payload(session.role, r).review = None
             <=> Payload(session.role, r).by = "procurement"
    BY <1>2, PayloadIsOne
  <2>3. /\ DOMAIN shown' = Tabs /\ shown'[t] = Payload(session.role, r)
        /\ \A u \in Tabs : u # t => shown'[u] = shown[u]
    BY <2>1 DEF TabsInv
  <2>4. Typed /\ OnlyMoves(t)
    BY <1>1, <1>3, <2>3 DEF TabsInv, Typed, OnlyMoves
  <2>5. shown'[t] # NoData
    <3>1. Payload(session.role, r).by = session.role /\ NoData.by = None
      BY DEF Payload, NoData
    <3> QED BY <1>2, <2>3, <3>1, Identities
  <2>6. TabInv(t)'
    <3>1. shown'[t] = NoData \/ \E S \in SUBSET Owners : shown'[t] \in Payloads(S)
      BY <2>2, <2>3
    <3>2. page'[t] \in BusinessPages => auth'[t] # Anonymous
      BY <1>1, <1>3, Identities
    <3>3. OnDetail(t)'
      BY <1>1, <1>3, <2>5 DEF OnDetail
    <3>4. Filled(t)'
      BY <2>2, <2>3 DEF Filled
    <3> QED BY <3>1, <3>2, <3>3, <3>4 DEF TabInv
  <2> QED BY <2>4, <2>6, OneTabMoves
<1>4. CASE /\ page' = [page EXCEPT ![t] = "forbidden"]
           /\ modal' = [modal EXCEPT ![t] = NoModal]
           /\ UNCHANGED shown
  <2>1. "forbidden" \in Pages /\ NoModal \in Modals
    BY DEF Pages, Modals
  <2>2. Typed /\ OnlyMoves(t)
    BY <1>1, <1>4, <2>1 DEF TabsInv, Typed, OnlyMoves
  <2>3. modal'[t] = NoModal
    BY <1>4 DEF TabsInv
  <2>4. TabInv(t)'
    BY <1>1, <1>4, <2>3, Identities DEF TabsInv, TabInv, Filled
  <2> QED BY <2>2, <2>4, OneTabMoves
<1> QED BY <1>3, <1>4 DEF ReadDecision

\* The events that are read are events.
LEMMA ReadTraceKeeps ==
    ASSUME ServerInv, TabsInv, NEW t \in Tabs, ReadTrace(t)
    PROVE  TabsInv'
<1>1. /\ timeline' = [timeline EXCEPT ![t] = TraceFor(session.role)]
      /\ UNCHANGED <<session, logins, page, auth, shown, modal, sent>>
  BY DEF ReadTrace, browser
<1>2. TraceFor(session.role) \subseteq TraceEvents
  BY DEF TraceFor, MaySee, ServerInv
<1>3. timeline' \in [Tabs -> SUBSET TraceEvents]
  BY <1>1, <1>2 DEF TabsInv
<1> QED BY <1>1, <1>3 DEF TabsInv, OnDetail, Filled

\* A dialog is opened over a decision that was read.
LEMMA DialogKeeps ==
    ASSUME TabsInv, NEW t \in Tabs, NEW m \in Modals, OnDetail(t) \/ m = NoModal,
           modal' = [modal EXCEPT ![t] = m],
           UNCHANGED <<session, logins, page, auth, shown, timeline>>,
           sent' \in [Tabs -> Requests]
    PROVE  TabsInv'
<1>1. modal' \in [Tabs -> Modals] /\ modal'[t] = m
      /\ \A u \in Tabs : u # t => modal'[u] = modal[u]
  BY DEF TabsInv
<1>2. Typed /\ OnlyMoves(t)
  BY <1>1 DEF TabsInv, Typed, OnlyMoves
<1>3. TabInv(t)'
  BY <1>1 DEF TabsInv, TabInv, OnDetail, Filled
<1> QED BY <1>2, <1>3, OneTabMoves

\* The dialogs are dialogs.
LEMMA OpenKeeps ==
    ASSUME TabsInv, NEW t \in Tabs,
           \/ \E m \in Modes : OpenReview(t, m)
           \/ \E l \in Owners : OpenLane(t, l)
           \/ CloseModal(t)
    PROVE  TabsInv'
<1>1. UNCHANGED <<session, logins, page, auth, shown, timeline, sent>>
  BY DEF OpenReview, OpenLane, CloseModal, browser, cache
<1>2. sent' \in [Tabs -> Requests]
  BY <1>1 DEF TabsInv
<1>3. ASSUME NEW m \in Modes, OpenReview(t, m)
      PROVE  TabsInv'
  <2>1. ReviewModal(m) \in Modals
    BY DEF ReviewModal, Modals
  <2> QED BY <1>1, <1>2, <1>3, <2>1, DialogKeeps DEF OpenReview
<1>4. ASSUME NEW l \in Owners, OpenLane(t, l)
      PROVE  TabsInv'
  <2>1. OnDetail(t) /\ l \in OfferedLanes(t)
        /\ modal' = [modal EXCEPT ![t] = LaneModal(l, shown[t].lanes[l])]
    BY <1>4 DEF OpenLane
  <2>2. PICK S \in SUBSET Owners : shown[t] \in Payloads(S)
    BY <2>1 DEF OnDetail, TabsInv
  <2>3. shown[t].lanes \in [S -> Lane] /\ l \in S
    BY <2>1, <2>2 DEF Payloads, OfferedLanes
  <2>4. shown[t].lanes[l] \in Lane
    BY <2>3
  <2>5. LaneModal(l, shown[t].lanes[l]) \in Modals
    BY <2>4 DEF LaneModal, Modals, Lane
  <2> QED BY <1>1, <1>2, <2>1, <2>5, DialogKeeps
<1>5. CASE CloseModal(t)
  <2>1. NoModal \in Modals /\ modal' = [modal EXCEPT ![t] = NoModal]
    BY <1>5 DEF Modals, CloseModal
  <2> QED BY <1>1, <1>2, <2>1, DialogKeeps
<1> QED BY <1>3, <1>4, <1>5

\* What is sent is a request: the dialog is over a decision that was read.
LEMMA SubmitKeeps ==
    ASSUME TabsInv, NEW t \in Tabs, Submit(t)
    PROVE  TabsInv'
<1> DEFINE who == [cookie |-> session.token, token |-> auth[t].token, done |-> FALSE]
           r == IF modal[t].kind = "review"
                THEN [kind |-> "review", mode |-> modal[t].mode,
                      version |-> shown[t].version, who |-> who]
                ELSE [kind |-> "lane", lane |-> modal[t].lane,
                      result |-> modal[t].state = "executed",
                      version |-> modal[t].version, who |-> who]
<1>1. /\ modal[t] # NoModal /\ sent' = [sent EXCEPT ![t] = r]
      /\ UNCHANGED <<session, logins, page, auth, shown, timeline, modal>>
  BY DEF Submit, browser, cache
<1>2. OnDetail(t) /\ modal[t] \in Modals
  BY <1>1 DEF TabsInv
<1>3. session.token \in Nat /\ auth[t].token \in Nat
  BY <1>2, Identities DEF TabsInv, OnDetail
<1>4. who \in Whos
  BY <1>3 DEF Whos
<1>5. shown[t].version \in Nat
  <2>1. PICK S \in SUBSET Owners : shown[t] \in Payloads(S)
    BY <1>2 DEF OnDetail, TabsInv
  <2> QED BY <2>1 DEF Payloads
<1> HIDE DEF who
<1>6. r \in Requests
  <2>1. CASE modal[t] \in [kind : {"review"}, mode : Modes]
    <3>1. modal[t].kind = "review" /\ modal[t].mode \in Modes
      BY <2>1
    <3> QED BY <1>4, <1>5, <3>1 DEF Requests
  <2>2. CASE modal[t] \in [kind : {"lane"}, lane : Owners, state : LaneStates, version : Nat]
    <3>1. modal[t].kind # "review" /\ modal[t].lane \in Owners /\ modal[t].version \in Nat
      BY <2>2
    <3>2. (modal[t].state = "executed") \in BOOLEAN
      OBVIOUS
    <3> QED BY <1>4, <3>1, <3>2 DEF Requests
  <2> QED BY <1>1, <1>2, <2>1, <2>2 DEF Modals
<1> HIDE DEF r
<1>7. sent' \in [Tabs -> Requests]
  BY <1>1, <1>6 DEF TabsInv
<1>8. session' \in Sessions \cup {Anonymous} /\ logins' \in Nat
  BY <1>1 DEF TabsInv
<1> QED BY <1>1, <1>7, <1>8, TabsStay

\* The handler is one of the two commands, by a role there is, and marks the
\* request as done.
LEMMA HandleKeeps ==
    ASSUME ServerInv, TabsInv, NEW t \in Tabs, Handle(t)
    PROVE  ServerInv' /\ TabsInv'
<1>1. /\ sent[t] # NoRequest /\ session # Anonymous
      /\ sent' = [sent EXCEPT ![t].who.done = TRUE]
      /\ UNCHANGED <<session, logins, page, auth, shown, timeline, modal>>
  BY DEF Handle, browser, cache
<1>2. session \in Sessions \cup {Anonymous} /\ logins \in Nat /\ sent[t] \in Requests
      /\ sent \in [Tabs -> Requests]
  BY DEF TabsInv
<1>3. [sent[t] EXCEPT !.who = [sent[t].who EXCEPT !.done = TRUE]] \in Requests
  <2>1. ASSUME NEW w \in Whos
        PROVE  [w EXCEPT !.done = TRUE] \in Whos
    BY DEF Whos
  <2>2. CASE sent[t] \in [kind : {"review"}, mode : Modes, version : Nat, who : Whos]
    <3>1. sent[t].who \in Whos
      BY <2>2
    <3>2. [sent[t] EXCEPT !.who = [sent[t].who EXCEPT !.done = TRUE]]
            \in [kind : {"review"}, mode : Modes, version : Nat, who : Whos]
      BY <2>1, <2>2, <3>1
    <3> QED BY <3>2 DEF Requests
  <2>3. CASE sent[t] \in [kind : {"lane"}, lane : Owners, result : BOOLEAN,
                          version : Nat, who : Whos]
    <3>1. sent[t].who \in Whos
      BY <2>3
    <3>2. [sent[t] EXCEPT !.who = [sent[t].who EXCEPT !.done = TRUE]]
            \in [kind : {"lane"}, lane : Owners, result : BOOLEAN,
                 version : Nat, who : Whos]
      BY <2>1, <2>3, <3>1
    <3> QED BY <3>2 DEF Requests
  <2> QED BY <1>1, <1>2, <2>2, <2>3 DEF Requests
<1>4. sent' \in [Tabs -> Requests]
  <2>1. sent' = [sent EXCEPT ![t] = [sent[t] EXCEPT !.who = [sent[t].who EXCEPT !.done = TRUE]]]
    BY <1>1
  <2> QED BY <1>2, <1>3, <2>1
<1>5. TabsInv'
  BY <1>1, <1>2, <1>4, TabsStay
<1>6. CASE /\ sent[t].kind = "review"
           /\ ReviewDecision(session.role, sent[t].mode, sent[t].version)
  <2>1. sent[t] \in [kind : {"review"}, mode : Modes, version : Nat, who : Whos]
    BY <1>1, <1>2, <1>6 DEF Requests
  <2>2. sent[t].mode \in Modes
    BY <2>1
  <2> QED BY <1>5, <1>6, <2>2, ReviewKeeps
<1>7. CASE /\ sent[t].kind = "lane"
           /\ CompleteAction(session.role, sent[t].lane, sent[t].result, sent[t].version)
  <2>1. sent[t] \in [kind : {"lane"}, lane : Owners, result : BOOLEAN,
                     version : Nat, who : Whos]
    BY <1>1, <1>2, <1>7 DEF Requests
  <2>2. sent[t].result \in BOOLEAN
    BY <2>1
  <2> QED BY <1>5, <1>7, <2>2, CompleteKeeps
<1> QED BY <1>6, <1>7 DEF Handle

\* The answer closes the dialog it is for.
LEMMA AnsweredKeeps ==
    ASSUME TabsInv, NEW t \in Tabs, Answered(t) \/ Fails(t)
    PROVE  TabsInv'
<1>1. /\ sent' = [sent EXCEPT ![t] = NoRequest]
      /\ UNCHANGED <<session, logins, page, auth, shown, timeline>>
  BY DEF Answered, Fails, browser, cache
<1>2. NoRequest \in Requests /\ NoModal \in Modals
  BY DEF Requests, Modals
<1>3. sent' \in [Tabs -> Requests]
  BY <1>1, <1>2 DEF TabsInv
<1>4. CASE Fails(t)
  <2>1. UNCHANGED modal /\ session \in Sessions \cup {Anonymous} /\ logins \in Nat
    BY <1>4 DEF Fails, TabsInv
  <2> QED BY <1>1, <1>3, <2>1, TabsStay
<1>5. CASE Answered(t)
  <2>1. PICK m \in {NoModal, modal[t]} : modal' = [modal EXCEPT ![t] = m]
    BY <1>5 DEF Answered
  <2>2. m \in Modals /\ (OnDetail(t) \/ m = NoModal)
    BY <1>2 DEF TabsInv
  <2> QED BY <1>1, <1>3, <2>1, <2>2, DialogKeeps
<1> QED BY <1>4, <1>5

-----------------------------------------------------------------------------
(* Every step.                                                             *)

\* The invariant holds at the start.
LEMMA InitInv == Init => IInv
<1> SUFFICES ASSUME Init
             PROVE  IInv
  OBVIOUS
<1>1. ServerInv
  <2>1. PICK plan \in Plans :
          lanes = [l \in plan |-> [state |-> "awaiting_review", version |-> 1]]
    BY DEF Init
  <2>2. DOMAIN lanes = plan /\ plan \subseteq Owners
    BY <2>1, PlansAssumption
  <2>3. [state |-> "awaiting_review", version |-> 1] \in Lane
    BY DEF Lane, LaneStates
  <2>4. lanes \in [DOMAIN lanes -> Lane] /\ \A l \in plan : lanes[l].state = "awaiting_review"
    BY <2>1, <2>2, <2>3
  <2>5. review \in [state : ReviewStates, version : Nat] /\ review.state = "pending"
        /\ trace = {}
    BY DEF Init, Unreviewed, ReviewStates
  <2>6. \A l : StoryOf(l) = {}
    BY <2>5 DEF StoryOf
  <2>7. TraceExplainsState
    BY <2>2, <2>4, <2>5, <2>6 DEF TraceExplainsState, ReviewStory, LaneStory
  <2> QED BY <2>2, <2>4, <2>5, <2>7 DEF ServerInv
<1>2. TabsInv
  <2>1. "login" \in Pages /\ "login" \notin BusinessPages
        /\ NoModal \in Modals /\ NoRequest \in Requests
    BY DEF Pages, BusinessPages, Modals, Requests
  <2> QED BY <2>1 DEF Init, TabsInv, Filled
<1> QED BY <1>1, <1>2 DEF IInv

\* Every step keeps the invariant.
LEMMA NextInv == IInv /\ [Next]_vars => IInv'
<1> SUFFICES ASSUME ServerInv, TabsInv, [Next]_vars
             PROVE  ServerInv' /\ TabsInv'
  BY DEF IInv
<1>0. session \in Sessions \cup {Anonymous} /\ logins \in Nat /\ sent \in [Tabs -> Requests]
  BY DEF TabsInv
<1>1. CASE Others
  <2>1. UNCHANGED <<session, logins, page, auth, shown, timeline, modal, sent>>
    BY <1>1 DEF Others, browser, tabs, cache
  <2>2. TabsInv'
    BY <1>0, <2>1, TabsStay
  <2>3. ServerInv'
    BY <1>1, ReviewKeeps, CompleteKeeps DEF Others
  <2> QED BY <2>2, <2>3
<1>2. CASE SignIn \/ SessionEnds
  <2>1. UNCHANGED <<server, page, auth, shown, timeline, modal, sent>>
    BY <1>2 DEF SignIn, SessionEnds, tabs, cache
  <2>2. session' \in Sessions \cup {Anonymous} /\ logins' \in Nat
    <3>1. CASE SignIn
      <4>1. PICK r \in Roles : session' = [token |-> logins + 1, role |-> r]
        BY <3>1 DEF SignIn
      <4>2. logins + 1 \in Nat \ {0} /\ logins' = logins + 1
        BY <1>0, <3>1 DEF SignIn
      <4> QED BY <4>1, <4>2 DEF Sessions
    <3>2. CASE SessionEnds
      BY <1>0, <3>2 DEF SessionEnds
    <3> QED BY <1>2, <3>1, <3>2
  <2> QED BY <1>0, <2>1, <2>2, TabsStay, ServerStays
<1>3. ASSUME NEW t \in Tabs,
             \/ \E p \in {"workspace", "detail", "login"} : Load(t, p)
             \/ \E p \in {"workspace", "actions", "detail", "login"} : Navigate(t, p)
             \/ AuthAnswered(t) \/ Logout(t) \/ CheckAgain(t)
      PROVE  ServerInv' /\ TabsInv'
  <2>1. UNCHANGED server
    BY <1>3 DEF Load, Navigate, AuthAnswered, Logout, CheckAgain
  <2>2. TabsInv'
    BY <1>3, LoadKeeps, NavigateKeeps, AuthAnsweredKeeps, LogoutKeeps, CheckAgainKeeps
  <2> QED BY <2>1, <2>2, ServerStays
<1>4. ASSUME NEW t \in Tabs, ReadDecision(t) \/ ReadTrace(t)
      PROVE  ServerInv' /\ TabsInv'
  <2>1. UNCHANGED server
    BY <1>4 DEF ReadDecision, ReadTrace
  <2> QED BY <1>4, <2>1, ServerStays, ReadDecisionKeeps, ReadTraceKeeps
<1>5. ASSUME NEW t \in Tabs,
             \/ \E m \in Modes : OpenReview(t, m)
             \/ \E l \in Owners : OpenLane(t, l)
             \/ CloseModal(t)
      PROVE  ServerInv' /\ TabsInv'
  <2>1. UNCHANGED server
    BY <1>5 DEF OpenReview, OpenLane, CloseModal
  <2> QED BY <1>5, <2>1, ServerStays, OpenKeeps
<1>6. ASSUME NEW t \in Tabs, Submit(t) \/ Answered(t) \/ Fails(t)
      PROVE  ServerInv' /\ TabsInv'
  <2>1. UNCHANGED server
    BY <1>6 DEF Submit, Answered, Fails
  <2> QED BY <1>6, <2>1, ServerStays, SubmitKeeps, AnsweredKeeps
<1>7. ASSUME NEW t \in Tabs, Handle(t)
      PROVE  ServerInv' /\ TabsInv'
  BY <1>7, HandleKeeps
<1>8. CASE UNCHANGED vars
  <2>1. UNCHANGED <<server, session, logins, page, auth, shown, timeline, modal, sent>>
    BY <1>8 DEF vars, browser, tabs, cache
  <2> QED BY <1>0, <2>1, TabsStay, ServerStays
<1> QED BY <1>1, <1>2, <1>3, <1>4, <1>5, <1>6, <1>7, <1>8 DEF Next

-----------------------------------------------------------------------------
(* The theorems.                                                           *)

\* The invariant of a suggestion and its pages.
THEOREM Invariant == Spec => []IInv
  BY InitInv, NextInv, PTL DEF Spec

\* Rows, caches, dialogs and requests have their types, in every run.
THEOREM TypeCorrect == Spec => []TypeOK
  BY Invariant, Parts, PTL

\* Review, lanes and events always tell one story.
THEOREM TraceExplainsStateHolds == Spec => []TraceExplainsState
  BY Invariant, Parts, PTL

\* What an up-to-date page offers is accepted, by the role, the owner, the state and
\* the version the server goes by.
THEOREM OfferedIsAcceptedHolds == Spec => []OfferedIsAccepted
<1>1. IInv => OfferedIsAccepted
  <2> SUFFICES ASSUME IInv, NEW t \in Tabs, UpToDate(t)
               PROVE  /\ ReviewOffered(t) => Reviewable(session.role, shown[t].version)
                      /\ \A l \in OfferedLanes(t) :
                           Completable(session.role, l, shown[t].lanes[l].state = "executed",
                                       shown[t].lanes[l].version)
    BY DEF OfferedIsAccepted
  <2>1. /\ auth[t].role = session.role
        /\ session.role = "supervisor" =>
             shown[t].review = review.state /\ shown[t].version = review.version
        /\ shown[t].lanes = [l \in VisibleLanes(session.role) |-> lanes[l]]
    BY DEF UpToDate, Payload
  <2>2. ReviewOffered(t) => Reviewable(session.role, shown[t].version)
    BY <2>1 DEF ReviewOffered, Reviewable
  <2>3. ASSUME NEW l \in OfferedLanes(t)
        PROVE  Completable(session.role, l, shown[t].lanes[l].state = "executed",
                           shown[t].lanes[l].version)
    <3>1. l \in VisibleLanes(session.role) /\ l = session.role
      BY <2>1 DEF OfferedLanes
    <3>2. l \in DOMAIN lanes /\ shown[t].lanes[l] = lanes[l]
      BY <2>1, <3>1 DEF VisibleLanes
    <3>3. lanes[l].state \in {"pending", "executed"}
      BY <3>2 DEF OfferedLanes
    <3> QED BY <3>1, <3>2, <3>3 DEF Completable
  <2> QED BY <2>2, <2>3
<1> QED BY <1>1, Invariant, PTL

\* A page read under the identity it shows lacks nothing but a buyer's review, and
\* lists each event its reader may see in one tab of the timeline.
THEOREM PageIsCompleteHolds == Spec => []PageIsComplete
<1>1. IInv => PageIsComplete
  <2> SUFFICES ASSUME IInv, NEW t \in Tabs, OnDetail(t)
               PROVE  /\ shown[t].by = auth[t].role =>
                           Cards(auth[t].role) \ FilledCards(shown[t])
                              \subseteq IF auth[t].role = "procurement" THEN {"review"} ELSE {}
                      /\ \A e \in timeline[t] :
                           MaySee(shown[t].by, e) => Cardinality(TimelineTab(e, shown[t])) = 1
    BY DEF PageIsComplete
  <2>1. ASSUME shown[t].by = auth[t].role
        PROVE  Cards(auth[t].role) \ FilledCards(shown[t])
                  \subseteq IF auth[t].role = "procurement" THEN {"review"} ELSE {}
    <3>1. shown[t].review = None <=> auth[t].role = "procurement"
      BY <2>1 DEF IInv, TabsInv, Filled, OnDetail
    <3> QED BY <3>1 DEF Cards, FilledCards
  <2>2. ASSUME NEW e \in timeline[t], MaySee(shown[t].by, e)
        PROVE  Cardinality(TimelineTab(e, shown[t])) = 1
    <3>1. e \in TraceEvents
      BY DEF IInv, TabsInv
    <3>2. e.lane \in {"operator", "procurement", None}
      BY <3>1 DEF TraceEvents, Owners
    <3>3. MainAction(shown[t]) = IF shown[t].by = "procurement" THEN None ELSE "operator"
      BY DEF MainAction
    <3>4. shown[t].by = "procurement" => e.lane = "procurement"
      BY <2>2 DEF MaySee
    <3>5. TimelineTab(e, shown[t])
            = {IF e.lane = None THEN "review"
               ELSE IF e.lane = "operator" THEN "operation" ELSE "procurement"}
      BY <3>2, <3>3, <3>4 DEF TimelineTab, StockAction, None
    <3> QED BY <3>5, FS_Singleton
  <2> QED BY <2>1, <2>2
<1> QED BY <1>1, Invariant, PTL

-----------------------------------------------------------------------------
(* The lanes keep the promise of a track.                                  *)

\* What a step can do to the work of a lane.
LaneStep(l) ==
    \/ /\ LanePhase(l)' = LanePhase(l)
       /\ Told("approved", None)' = Told("approved", None)
       /\ Told("action_executed", l)' = Told("action_executed", l)
    \/ /\ LanePhase(l)' = IF LanePhase(l) = "none" THEN "none" ELSE "ready"
       /\ Told("approved", None)' = Told("approved", None) + 1
       /\ Told("action_executed", l)' = Told("action_executed", l)
    \/ /\ LanePhase(l) = "ready" /\ LanePhase(l)' = "done"
       /\ Told("action_executed", l)' = Told("action_executed", l) + 1
       /\ Told("approved", None)' = Told("approved", None)
    \/ /\ LanePhase(l) # "none" /\ LanePhase(l)' = "ended"
       /\ Told("approved", None)' = Told("approved", None)
       /\ Told("action_executed", l)' = Told("action_executed", l)

\* The trace tells how often the review approved and the lane was executed.
LEMMA TraceCounts ==
    ASSUME TraceExplainsState
    PROVE  /\ Told("approved", None) = IF review.state = "approved" THEN 1 ELSE 0
           /\ \A l \in DOMAIN lanes :
                Told("action_executed", l)
                    = IF lanes[l].state \in {"executed", "result_recorded"} THEN 1 ELSE 0
  BY DEF TraceExplainsState, Told, ReviewStory, LaneStory

\* The trace tells how often after a step.
LEMMA TraceCountsNext ==
    ASSUME TraceExplainsState'
    PROVE  /\ Told("approved", None)' = IF review'.state = "approved" THEN 1 ELSE 0
           /\ \A l \in DOMAIN lanes' :
                Told("action_executed", l)'
                    = IF lanes'[l].state \in {"executed", "result_recorded"} THEN 1 ELSE 0
  BY DEF TraceExplainsState, Told, ReviewStory, LaneStory

\* An approval opens the lanes, a rejection ends them.
LEMMA ReviewMovesLane ==
    ASSUME ServerInv, ServerInv', NEW l \in Owners,
           NEW by, NEW mode \in Modes, NEW v, ReviewDecision(by, mode, v)
    PROVE  LaneStep(l)
<1> DEFINE e == [type |-> mode, lane |-> None, by |-> by]
<1>1. /\ by = "supervisor" /\ review.state = "pending" /\ review'.state = mode
      /\ lanes' = [k \in DOMAIN lanes |->
                    IF lanes[k].state = "awaiting_review"
                    THEN [state |-> AfterReview(mode), version |-> lanes[k].version + 1]
                    ELSE lanes[k]]
      /\ Recorded(e)
  BY DEF ReviewDecision, Reviewable
<1>2. mode \in {"approved", "rejected"} /\ l # None
  BY DEF Modes, Owners, None
<1>3. /\ trace \subseteq TraceEvents /\ TraceExplainsState /\ TraceExplainsState'
  BY DEF ServerInv
<1>4. e \in TraceEvents /\ e.lane = None
  BY <1>1, <1>2 DEF TraceEvents, EventTypes, Modes, Roles
<1>5. StoryOf(l)' = StoryOf(l)
  <2> HIDE DEF e
  <2> QED BY <1>1, <1>2, <1>3, <1>4, StoryGrows DEF Recorded
<1>6. Told("action_executed", l)' = Told("action_executed", l)
  BY <1>5 DEF Told
<1>7. /\ Told("approved", None) = 0
      /\ Told("approved", None)' = IF mode = "approved" THEN 1 ELSE 0
  BY <1>1, <1>3, TraceCounts, TraceCountsNext
<1>8. CASE l \notin DOMAIN lanes
  <2>1. LanePhase(l) = "none" /\ LanePhase(l)' = "none"
    BY <1>1, <1>8 DEF LanePhase
  <2> QED BY <1>2, <1>6, <1>7, <2>1 DEF LaneStep
<1>9. CASE l \in DOMAIN lanes
  <2>1. lanes[l].state = "awaiting_review"
    BY <1>1, <1>3, <1>9 DEF TraceExplainsState
  <2>2. l \in DOMAIN lanes' /\ lanes'[l].state = AfterReview(mode)
    BY <1>1, <1>9, <2>1
  <2>3. /\ LanePhase(l) = "waiting"
        /\ LanePhase(l)' = IF mode = "approved" THEN "ready" ELSE "ended"
    BY <1>9, <2>1, <2>2 DEF LanePhase, AfterReview
  <2> QED BY <1>2, <1>6, <1>7, <2>3 DEF LaneStep
<1> QED BY <1>8, <1>9

\* The owner of a lane does its work, or says what came of it; the other lane is
\* left alone.
LEMMA CompleteMovesLane ==
    ASSUME ServerInv, ServerInv', NEW l \in Owners,
           NEW by, NEW k, NEW result \in BOOLEAN, NEW v, CompleteAction(by, k, result, v)
    PROVE  LaneStep(l)
<1> DEFINE e == [type |-> IF result THEN "result_recorded" ELSE "action_executed",
                 lane |-> k, by |-> by]
<1>1. /\ k \in DOMAIN lanes /\ k = by
      /\ lanes[k].state = IF result THEN "executed" ELSE "pending"
      /\ lanes' = [lanes EXCEPT ![k] =
                     [state |-> IF result THEN "result_recorded" ELSE "executed",
                      version |-> v + 1]]
      /\ Recorded(e) /\ UNCHANGED review
  BY DEF CompleteAction, Completable
<1>2. /\ trace \subseteq TraceEvents /\ TraceExplainsState /\ TraceExplainsState'
      /\ DOMAIN lanes \subseteq Owners /\ lanes \in [DOMAIN lanes -> Lane]
  BY DEF ServerInv
<1>3. Told("approved", None)' = Told("approved", None)
  BY <1>1, <1>2, TraceCounts, TraceCountsNext
<1>4. CASE l = k
  <2>1. /\ l \in DOMAIN lanes /\ l \in DOMAIN lanes'
        /\ lanes'[l].state = IF result THEN "result_recorded" ELSE "executed"
    BY <1>1, <1>2, <1>4
  <2>2. /\ LanePhase(l) = IF result THEN "done" ELSE "ready"
        /\ LanePhase(l)' = "done"
    BY <1>1, <1>4, <2>1 DEF LanePhase
  <2>3. /\ Told("action_executed", l) = IF result THEN 1 ELSE 0
        /\ Told("action_executed", l)' = 1
    BY <1>1, <1>2, <1>4, <2>1, TraceCounts, TraceCountsNext
  <2> QED BY <1>3, <2>2, <2>3 DEF LaneStep
<1>5. CASE l # k
  <2>1. e \in TraceEvents /\ e.lane = k
    BY <1>1, <1>2 DEF TraceEvents, EventTypes, Modes, Roles
  <2>2. StoryOf(l)' = StoryOf(l)
    <3> HIDE DEF e
    <3> QED BY <1>1, <1>2, <1>5, <2>1, StoryGrows DEF Recorded
  <2>3. Told("action_executed", l)' = Told("action_executed", l)
    BY <2>2 DEF Told
  <2>4. DOMAIN lanes' = DOMAIN lanes /\ (l \in DOMAIN lanes => lanes'[l] = lanes[l])
    BY <1>1, <1>5
  <2>5. LanePhase(l)' = LanePhase(l)
    <3>1. CASE l \notin DOMAIN lanes
      BY <2>4, <3>1 DEF LanePhase
    <3>2. CASE l \in DOMAIN lanes
      <4>1. lanes[l].state \in LaneStates
        BY <1>2, <3>2 DEF Lane
      <4>2. l \in DOMAIN lanes' /\ lanes'[l].state = lanes[l].state
        BY <2>4, <3>2
      <4> QED BY <3>2, <4>1, <4>2 DEF LanePhase, LaneStates
    <3> QED BY <3>1, <3>2
  <2> QED BY <1>3, <2>3, <2>5 DEF LaneStep
<1> QED BY <1>4, <1>5

\* What the browser and its tabs do moves no lane.
LEMMA LaneStays ==
    ASSUME NEW l \in Owners, UNCHANGED server
    PROVE  LaneStep(l)
<1>1. UNCHANGED <<review, lanes, trace>>
  BY DEF server
<1>2. LanePhase(l)' = LanePhase(l)
  BY <1>1 DEF LanePhase
<1>3. \A type, k : Told(type, k)' = Told(type, k)
  BY <1>1 DEF Told, StoryOf
<1> QED BY <1>2, <1>3 DEF LaneStep

\* Every step is one of the work of each lane.
LEMMA LaneNext ==
    ASSUME IInv, IInv', [Next]_vars, NEW l \in Owners
    PROVE  LaneStep(l)
<1>1. CASE Others
  BY <1>1, ReviewMovesLane, CompleteMovesLane DEF Others, IInv
<1>2. ASSUME NEW t \in Tabs, Handle(t)
      PROVE  LaneStep(l)
  <2>1. sent[t] \in Requests /\ sent[t] # NoRequest
    BY <1>2 DEF Handle, IInv, TabsInv
  <2>2. CASE /\ sent[t].kind = "review"
             /\ ReviewDecision(session.role, sent[t].mode, sent[t].version)
    <3>1. sent[t] \in [kind : {"review"}, mode : Modes, version : Nat, who : Whos]
      BY <2>1, <2>2 DEF Requests
    <3>2. sent[t].mode \in Modes
      BY <3>1
    <3> QED BY <2>2, <3>2, ReviewMovesLane DEF IInv
  <2>3. CASE /\ sent[t].kind = "lane"
             /\ CompleteAction(session.role, sent[t].lane, sent[t].result, sent[t].version)
    <3>1. sent[t] \in [kind : {"lane"}, lane : Owners, result : BOOLEAN,
                       version : Nat, who : Whos]
      BY <2>1, <2>3 DEF Requests
    <3>2. sent[t].result \in BOOLEAN
      BY <3>1
    <3> QED BY <2>3, <3>2, CompleteMovesLane DEF IInv
  <2> QED BY <1>2, <2>2, <2>3 DEF Handle
<1>3. CASE UNCHANGED vars
  BY <1>3, LaneStays DEF vars
<1>4. ASSUME NEW t \in Tabs,
             \/ \E p \in {"workspace", "detail", "login"} : Load(t, p)
             \/ \E p \in {"workspace", "actions", "detail", "login"} : Navigate(t, p)
             \/ AuthAnswered(t) \/ Logout(t) \/ CheckAgain(t)
             \/ ReadDecision(t) \/ ReadTrace(t)
             \/ \E m \in Modes : OpenReview(t, m)
             \/ \E k \in Owners : OpenLane(t, k)
             \/ CloseModal(t) \/ Submit(t) \/ Answered(t) \/ Fails(t)
      PROVE  LaneStep(l)
  <2>1. UNCHANGED server
    BY <1>4 DEF Load, Navigate, AuthAnswered, Logout, CheckAgain, ReadDecision, ReadTrace,
                OpenReview, OpenLane, CloseModal, Submit, Answered, Fails
  <2> QED BY <2>1, LaneStays
<1>5. CASE SignIn \/ SessionEnds
  BY <1>5, LaneStays DEF SignIn, SessionEnds
<1> QED BY <1>1, <1>2, <1>3, <1>4, <1>5 DEF Next

\* A decision starts with its lanes waiting, and nothing told.
LEMMA LanesInit == Init => OperatorTrack!Init /\ ProcurementTrack!Init
<1> SUFFICES ASSUME Init
             PROVE  OperatorTrack!Init /\ ProcurementTrack!Init
  OBVIOUS
<1>1. ASSUME NEW l PROVE LanePhase(l) \in {"none", "waiting"}
  BY DEF Init, LanePhase
<1>2. ASSUME NEW l, NEW type PROVE Told(type, l) = 0
  BY DEF Init, Told, StoryOf
<1> QED BY <1>1, <1>2 DEF OperatorTrack!Init, ProcurementTrack!Init

\* Refinement: each lane of the prototype keeps the promise a track of the action
\* task keeps, whatever tabs, sessions and colleagues do.
THEOREM LanesImplementTracksHolds == Spec => LanesImplementTracks
<1>1. IInv /\ IInv' /\ [Next]_vars
        => /\ [OperatorTrack!Next]_(OperatorTrack!vars)
           /\ [ProcurementTrack!Next]_(ProcurementTrack!vars)
  <2> SUFFICES ASSUME IInv, IInv', [Next]_vars
               PROVE  /\ [OperatorTrack!Next]_(OperatorTrack!vars)
                      /\ [ProcurementTrack!Next]_(ProcurementTrack!vars)
    OBVIOUS
  <2>1. LaneStep("operator") /\ LaneStep("procurement")
    BY LaneNext DEF Owners
  <2>2. [OperatorTrack!Next]_(OperatorTrack!vars)
    BY <2>1 DEF LaneStep, OperatorTrack!Next, OperatorTrack!vars, OperatorTrack!Authorise,
                OperatorTrack!Run, OperatorTrack!Finish
  <2>3. [ProcurementTrack!Next]_(ProcurementTrack!vars)
    BY <2>1 DEF LaneStep, ProcurementTrack!Next, ProcurementTrack!vars,
                ProcurementTrack!Authorise, ProcurementTrack!Run, ProcurementTrack!Finish
  <2> QED BY <2>2, <2>3
<1> QED
  BY <1>1, LanesInit, Invariant, PTL
     DEF Spec, LanesImplementTracks, OperatorTrack!Spec, ProcurementTrack!Spec

=============================================================================
