---------------------------- MODULE SuggestionPages ----------------------------
(***************************************************************************)
(* The suggestion pages of the web client over the task they work on.  A     *)
(* page keeps the detail it read last and sends its versions with every       *)
(* command; answers of commands and of background reads replace the detail in *)
(* the order they arrive.  Sources: web/src/pages/SuggestionDetailPage.tsx,   *)
(* web/src/api.ts, and the handlers' answers in internal/action.             *)
(*                                                                         *)
(* The commands themselves are the actions of ActionTask.  A request that is  *)
(* refused, or that never reaches the server, shows an error and leaves the    *)
(* page as it is; every submission has an idempotency key of its own.  A page  *)
(* opened from the history submits nothing and is left out; so are the notes   *)
(* and reasons, which only have to be filled in.                             *)
(*                                                                         *)
(* Who may see a link and who may work on the task are two columns: the        *)
(* operator of the week's snapshot, and the operator of the task, which is      *)
(* written with its first link and never again.                              *)
(***************************************************************************)
EXTENDS ActionTask

CONSTANTS
    Tabs,       \* browser tabs that are followed; everyone else acts at any moment
    Operators   \* names of the operators, in the files and in the sessions

Chief == "supervisor"
ASSUME OperatorsAssumption == Chief \notin Operators

VARIABLES
    owner,      \* the operator_ref of the snapshot behind each link
    user,       \* who is signed in on the tab
    url,        \* the link in the address of the tab, 0 when it is elsewhere
    shown,      \* the detail in the query cache of the page
    reading,    \* the answer of a read that is under way
    sent,       \* the command that is under way to the server
    answering,  \* the link that the handler will answer with after its commit, or 0
    answer      \* the answer of a command that is under way to the page

pages == <<user, url, shown, reading, sent, answering, answer>>
allVars == <<vars, owner, pages>>

Users == Operators \cup {Chief}

NoDetail == [link |-> 0]
Details ==
    [link : Nat \ {0}, review : ReviewStatus, version : Nat,
     business : BusinessActions, inventory : InventoryActions \cup {None},
     bstate : BusinessStates, bversion : Nat, istate : InventoryStates, iversion : Nat,
     completion : Nat, completed : CompletionStatus \cup {None}, approvals : Nat]

ReviewCommands == {"approved", "rejected"}
LifecycleCommands == {"override", "terminate"}
ClearanceReviews == {"confirmed", "returned"}
OperatorCommands ==
    {"execute_business", "execute_inventory", "record_result",
     "submit_clearance", "send_oa"}
Commands == ReviewCommands \cup LifecycleCommands \cup ClearanceReviews
            \cup OperatorCommands \cup {"retry_ai"}

\* The actions a detail shows, and what dates them.
Sights ==
    [business : BusinessActions, bversion : Nat,
     inventory : InventoryActions \cup {None}, iversion : Nat, approvals : Nat]
Sight(d) ==
    [business |-> d.business, bversion |-> d.bversion,
     inventory |-> d.inventory, iversion |-> d.iversion, approvals |-> d.approvals]

\* What the page showed when a command was given is not sent; it is kept for the
\* properties.
NoCommand == [command |-> None]
Requests ==
    [command : Commands, link : Nat \ {0}, version : Nat,
     choice : Overrides \cup {NoDetail}, seen : Sights]

-----------------------------------------------------------------------------
(* What the server shows of a link.                                        *)

\* AND s.operator_ref = actor.Name, unless the actor is the supervisor
MaySee(u, l) == u = Chief \/ u = owner[l]

\* The task's operator_ref.
Responsible == owner[1]

\* Variant of EffectiveAction: the action the rules suggested for the link.
SuggestedAction(l) == links[l].decision

\* The action in force, whichever week the page is about.
EffectiveAction(l) == [business |-> task.business, inventory |-> task.inventory]

LastCompletion ==
    IF completions = <<>> THEN None ELSE completions[Len(completions)]

\* get: the link's own review, and the task as it is now.  The number of
\* approvals so far is not sent; it dates the detail for the properties.
Detail(l) ==
    [link |-> l, review |-> links[l].review, version |-> links[l].reviewVersion,
     business |-> EffectiveAction(l).business, inventory |-> EffectiveAction(l).inventory,
     bstate |-> task.bstate, bversion |-> task.bversion,
     istate |-> task.istate, iversion |-> task.iversion,
     completion |-> Len(completions),
     completed |-> LastCompletion,
     approvals |-> events["approved"]]

\* The completion is read by a later query: it may be newer than the rest.
WithCompletion(d) ==
    [d EXCEPT !.completion = Len(completions), !.completed = LastCompletion]

\* ORDER BY business_cutoff_date DESC, linked_at DESC LIMIT 1, where linked_at is
\* the start of the transaction that linked: any link of the last week.
LatestLinks ==
    {l \in DOMAIN links : \A m \in DOMAIN links : links[m].cutoff <= links[l].cutoff}

\* Commands on the task are answered with its newest link, the others with theirs.
AnsweredLinks(r) ==
    IF r.command \in OperatorCommands \cup ClearanceReviews
    THEN LatestLinks ELSE {r.link}

-----------------------------------------------------------------------------
(* What a page offers for the detail d.                                    *)

CanSubmitClearance(d) ==
    /\ d.business = "clearance"
    /\ d.bstate \in {"executed", "result_recorded"}
    /\ d.completed \in {None, "returned"}

CanOverride(d) ==
    /\ d.bstate \in {"pending_review", "pending_execution", "terminated"}
    /\ d.istate \in {"pending_review", "pending_execution", "not_generated", "terminated"}

OperationsPanel(d) ==
    {c \in OperatorCommands :
        /\ d.review = "approved"
        /\ CASE c = "execute_business" -> d.bstate = "pending_execution"
             [] c \in {"execute_inventory", "send_oa"} ->
                  d.inventory # None /\ d.istate = "pending_execution"
             [] c = "record_result" -> d.bstate \in {"executed", "result_recorded"}
             [] c = "submit_clearance" -> CanSubmitClearance(d)}

SupervisorLifecyclePanel(d) ==
    {c \in LifecycleCommands \cup ClearanceReviews :
        CASE c = "override" -> CanOverride(d)
          [] c = "terminate" -> d.bstate \notin {"closed", "terminated"}
          [] c \in ClearanceReviews -> d.completed = "pending_confirmation"}

ReviewForm(d) == IF d.review = "pending" THEN ReviewCommands ELSE {}

Offered(t) ==
    IF shown[t] = NoDetail THEN {}
    ELSE {"retry_ai"} \cup
         IF user[t] = Chief
         THEN ReviewForm(shown[t]) \cup SupervisorLifecyclePanel(shown[t])
         ELSE OperationsPanel(shown[t])

\* Variant of VersionFor: both tracks are executed with the business version.
VersionForOneTrack(c, d) ==
    CASE c \in {"execute_business", "execute_inventory", "record_result",
               "submit_clearance"} -> d.bversion
      [] c \in ClearanceReviews -> d.completion
      [] OTHER -> d.version

\* The version a page sends: of the track, of the completion, or of the link.
VersionFor(c, d) ==
    CASE c \in {"execute_business", "record_result", "submit_clearance"} -> d.bversion
      [] c = "execute_inventory" -> d.iversion
      [] c \in ClearanceReviews -> d.completion
      [] OTHER -> d.version

\* Variant of LinkFor: the link of the read that is under way.
LinkForReading(t, c) == reading[t].link

\* A review and a new explanation are asked for the link in the address, an
\* override and a termination for the link that is shown.
LinkFor(t, c) == IF c \in LifecycleCommands THEN shown[t].link ELSE url[t]

-----------------------------------------------------------------------------
(* The pages.                                                              *)

Busy(t) == sent[t] # NoCommand \/ answering[t] # 0 \/ answer[t] # NoDetail

\* A full page load: nothing of the page before survives it.  A tab that was at the
\* login page is opened by whoever signed in there.
Open(t, l) ==
    /\ l \in DOMAIN links
    /\ ~Busy(t)
    /\ \E u \in IF url[t] = 0 THEN Users ELSE {user[t]} : user' = [user EXCEPT ![t] = u]
    /\ url' = [url EXCEPT ![t] = l]
    /\ shown' = [shown EXCEPT ![t] = NoDetail]
    /\ reading' = [reading EXCEPT ![t] = NoDetail]
    /\ UNCHANGED <<vars, owner, sent, answering, answer>>

\* The first read of a page, or another one when its window is shown again.  Who may
\* not see the link gets no answer, and the page goes on showing nothing.
Read(t) ==
    /\ url[t] # 0 /\ reading[t] = NoDetail
    /\ MaySee(user[t], url[t])
    /\ reading' = [reading EXCEPT ![t] = Detail(url[t])]
    /\ UNCHANGED <<vars, owner, user, url, shown, sent, answering, answer>>

\* The last query of a read comes after the others.
ReadCompletion(t) ==
    /\ reading[t] # NoDetail
    /\ reading' = [reading EXCEPT ![t] = WithCompletion(@)]
    /\ UNCHANGED <<vars, owner, user, url, shown, sent, answering, answer>>

\* The answer replaces whatever is shown, a newer answer of a command included.
ReadAnswered(t) ==
    /\ reading[t] # NoDetail
    /\ shown' = [shown EXCEPT ![t] = reading[t]]
    /\ reading' = [reading EXCEPT ![t] = NoDetail]
    /\ UNCHANGED <<vars, owner, user, url, sent, answering, answer>>

\* A failed read is not repeated; the page shows no suggestion until the next one.
ReadFails(t) ==
    /\ reading[t] # NoDetail
    /\ shown' = [shown EXCEPT ![t] = NoDetail]
    /\ reading' = [reading EXCEPT ![t] = NoDetail]
    /\ UNCHANGED <<vars, owner, user, url, sent, answering, answer>>

\* An answer that the session is over: the tab leaves for the login page.
SignedOut(t) ==
    /\ reading[t] # NoDetail \/ Busy(t)
    /\ url' = [url EXCEPT ![t] = 0]
    /\ shown' = [shown EXCEPT ![t] = NoDetail]
    /\ reading' = [reading EXCEPT ![t] = NoDetail]
    /\ sent' = [sent EXCEPT ![t] = NoCommand]
    /\ answering' = [answering EXCEPT ![t] = 0]
    /\ answer' = [answer EXCEPT ![t] = NoDetail]
    /\ UNCHANGED <<vars, owner, user>>

Submit(t, c) ==
    /\ c \in Offered(t) /\ ~Busy(t)
    /\ \E o \in IF c = "override" THEN Overrides ELSE {NoDetail} :
         sent' = [sent EXCEPT ![t] =
                    [command |-> c, link |-> LinkFor(t, c), choice |-> o,
                     version |-> VersionFor(c, shown[t]), seen |-> Sight(shown[t])]]
    /\ UNCHANGED <<vars, owner, user, url, shown, reading, answering, answer>>

\* What SendOA checks of the task; the message is not part of it.
Coordinated ==
    /\ Exists /\ task.review = "approved"
    /\ task.istate = "pending_execution" /\ task.inventory # None

\* Work is reported by the operator of the task, whoever sees the link; a new
\* explanation is asked for by who sees it, and the rest is the supervisor's.
MayCommand(u, r) ==
    CASE r.command \in OperatorCommands -> u = Responsible
      [] r.command = "retry_ai" -> MaySee(u, r.link)
      [] OTHER -> u = Chief

\* What the server checks of the sender, the task and the link before a command; of
\* a new explanation it also checks the one before, which AiExplanation has.
Accepts(u, r) ==
    /\ MayCommand(u, r)
    /\ CASE r.command \in ReviewCommands -> Reviewable(r.link, r.version)
         [] r.command = "override" -> Overridable(r.link, r.choice, r.version)
         [] r.command = "terminate" -> Terminable(r.link, r.version)
         [] r.command \in ClearanceReviews -> AwaitsConfirmation(r.version)
         [] r.command = "execute_business" -> BusinessExecutable(r.version)
         [] r.command = "execute_inventory" -> InventoryExecutable(r.version)
         [] r.command = "record_result" -> Recordable(r.version)
         [] r.command = "submit_clearance" -> Submittable(r.version)
         [] r.command = "send_oa" -> Coordinated
         [] r.command = "retry_ai" -> r.link \in DOMAIN links

\* The handler of a request, which starts with what it checks.
Handler(u, r) ==
    /\ MayCommand(u, r)
    /\ CASE r.command = "approved" -> Approve(r.link, r.version)
         [] r.command = "rejected" -> Reject(r.link, r.version)
         [] r.command = "override" -> Override(r.link, r.choice, r.version)
         [] r.command = "terminate" -> Terminate(r.link, r.version)
         [] r.command \in ClearanceReviews -> ReviewClearance(r.command, r.version)
         [] r.command = "execute_business" -> ExecuteBusiness(r.version)
         [] r.command = "execute_inventory" -> ExecuteInventory(r.version)
         [] r.command = "record_result" -> RecordResult(r.version)
         [] r.command = "submit_clearance" -> SubmitClearance(r.version)
         [] r.command \in {"send_oa", "retry_ai"} -> Accepts(u, r) /\ UNCHANGED vars

\* The handler has found its link when it commits.
Commit(t) ==
    /\ sent[t] # NoCommand
    /\ Handler(user[t], sent[t])
    /\ \E l \in AnsweredLinks(sent[t]) : answering' = [answering EXCEPT ![t] = l]
    /\ sent' = [sent EXCEPT ![t] = NoCommand]
    /\ UNCHANGED <<owner, user, url, shown, reading, answer>>

\* Get(linkID), after the commit.  An operator who does not see the newest link of
\* the task is told that there is none, although the command took effect.
AnswerRead(t) ==
    /\ answering[t] # 0 /\ MaySee(user[t], answering[t])
    /\ answer' = [answer EXCEPT ![t] = Detail(answering[t])]
    /\ answering' = [answering EXCEPT ![t] = 0]
    /\ UNCHANGED <<vars, owner, user, url, shown, reading, sent>>

AnswerCompletion(t) ==
    /\ answer[t] # NoDetail
    /\ answer' = [answer EXCEPT ![t] = WithCompletion(@)]
    /\ UNCHANGED <<vars, owner, user, url, shown, reading, sent, answering>>

\* The page keeps the answer, however late it comes.
CommandAnswered(t) ==
    /\ answer[t] # NoDetail
    /\ shown' = [shown EXCEPT ![t] = answer[t]]
    /\ answer' = [answer EXCEPT ![t] = NoDetail]
    /\ UNCHANGED <<vars, owner, user, url, reading, sent, answering>>

\* Refused, lost on the way, or its answer lost: the page keeps what it shows.
CommandFails(t) ==
    /\ Busy(t)
    /\ sent' = [sent EXCEPT ![t] = NoCommand]
    /\ answering' = [answering EXCEPT ![t] = 0]
    /\ answer' = [answer EXCEPT ![t] = NoDetail]
    /\ UNCHANGED <<vars, owner, user, url, shown, reading>>

-----------------------------------------------------------------------------

PagesInit ==
    /\ Init
    /\ owner = <<>>
    /\ user \in [Tabs -> Users]
    /\ url = [t \in Tabs |-> 0]
    /\ shown = [t \in Tabs |-> NoDetail]
    /\ reading = [t \in Tabs |-> NoDetail]
    /\ sent = [t \in Tabs |-> NoCommand]
    /\ answering = [t \in Tabs |-> 0]
    /\ answer = [t \in Tabs |-> NoDetail]

\* Everyone else acts; each file says whose the SPU is in its week.
Others ==
    \/ Worker /\ \E o \in Operators : owner' = Append(owner, o)
    \/ (Supervisor \/ Operator) /\ UNCHANGED owner

PagesNext ==
    \/ Others /\ UNCHANGED pages
    \/ \E t \in Tabs :
         \/ \E l \in 1 .. MaxLinks : Open(t, l)
         \/ Read(t) \/ ReadCompletion(t) \/ ReadAnswered(t) \/ ReadFails(t)
         \/ SignedOut(t)
         \/ \E c \in Commands : Submit(t, c)
         \/ Commit(t) \/ AnswerRead(t) \/ AnswerCompletion(t)
         \/ CommandAnswered(t) \/ CommandFails(t)

PagesSpec == PagesInit /\ [][PagesNext]_allVars

-----------------------------------------------------------------------------
(* Properties.                                                             *)

\* Pages show details of existing links and send commands they offer.
PagesTypeOK ==
    /\ owner \in Seq(Operators) /\ Len(owner) = Len(links)
    /\ user \in [Tabs -> Users]
    /\ url \in [Tabs -> 0 .. Len(links)]
    /\ shown \in [Tabs -> Details \cup {NoDetail}]
    /\ reading \in [Tabs -> Details \cup {NoDetail}]
    /\ sent \in [Tabs -> Requests \cup {NoCommand}]
    /\ answering \in [Tabs -> 0 .. Len(links)]
    /\ answer \in [Tabs -> Details \cup {NoDetail}]
    /\ \A t \in Tabs : shown[t].link \in 0 .. Len(links)

\* The actions a tab goes by: on the page, on the way to it, behind its command.
GoesBy(t) ==
    {Sight(d) : d \in {shown[t], reading[t], answer[t]} \ {NoDetail}}
    \cup {r.seen : r \in {sent[t]} \ {NoCommand}}

\* A command is refused only when a version moved, so the versions a page
\* holds must vouch for the actions it shows: as long as the track's version is
\* the page's, the action is the one on the page, whatever overrides, weekly
\* decisions and terminations came between.  Only an approval gets past them: it
\* brings another action into force and leaves the track's version alone.
VersionsVouchForAction ==
    \A t \in Tabs : \A d \in GoesBy(t) :
        events["approved"] = d.approvals =>
            /\ d.bversion = task.bversion => d.business = task.business
            /\ d.iversion = task.iversion => d.inventory = task.inventory

\* What the operator reports is done to the action that was on the page: a request
\* that the server would accept now is about the business or inventory action its
\* sender saw, however late it arrives, unless an approval came between.
AcceptedAsShown ==
    \A t \in Tabs : \A r \in {sent[t]} \ {NoCommand} :
        Accepts(user[t], r) /\ events["approved"] = r.seen.approvals =>
            /\ r.command \in {"execute_business", "record_result", "submit_clearance"} =>
                  task.business = r.seen.business
            /\ r.command = "execute_inventory" => task.inventory = r.seen.inventory

UpToDate(t) == shown[t] # NoDetail /\ shown[t] = Detail(shown[t].link)

\* What an up-to-date page offers the server also accepts, though the page
\* decides by the link's review and the server by the task's and by the rows it
\* locks: nobody is led into a command that can only fail.  Left out are
\* override and terminate, a review on a page whose answer moved to another link,
\* work that an override of a rejected link opened, and the pages of an operator
\* whom a later file named: the task stays with the operator it started with.
OfferedIsAccepted ==
    \A t \in Tabs : UpToDate(t) =>
        \A c \in Offered(t) \ LifecycleCommands :
            /\ c \in ReviewCommands => shown[t].link = url[t]
            /\ c \in {"execute_business", "execute_inventory", "send_oa"} =>
                  task.review # "rejected"
            /\ c \in OperatorCommands => owner[shown[t].link] = Responsible
            => Accepts(user[t], [command |-> c, link |-> LinkFor(t, c),
                                 version |-> VersionFor(c, shown[t])])

\* What the page says when an override fails ("if the action was executed, first
\* terminate the old tracks"): an up-to-date page of a terminated task that offers
\* the override sends the version the server compares.
TerminatedCanBeOverridden ==
    \A t \in Tabs :
        UpToDate(t) /\ task.bstate = "terminated" /\ "override" \in Offered(t) =>
            VersionFor("override", shown[t]) = task.reviewVersion
=============================================================================
