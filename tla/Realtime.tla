------------------------------ MODULE Realtime ------------------------------
(***************************************************************************)
(* How a change of a loan reaches the open browser pages of one of its     *)
(* parties: the worker that commits the change publishes it to channel     *)
(* groups, a page that holds a websocket refetches the loan when an event  *)
(* arrives, and a websocket that closes is opened again.  The pages share  *)
(* the tokens in localStorage.                                             *)
(*                                                                         *)
(* LoanRequests says when an event is published; here an event is lost,    *)
(* or comes at any time after its commit.                                  *)
(***************************************************************************)
EXTENDS Integers, FiniteSets, FiniteSetsExt

CONSTANTS
    Pages,       \* the open pages (tabs) of the user
    Decisions,   \* the decisions on the request that are considered
    MaxFaults,   \* bound on broken websockets, lost answers, dead workers and tokens that run out
    MaxLoads     \* bound on the loads a page has under way when its user asks for one

ASSUME DecisionsAssumption == Decisions \subseteq {"active", "rejected", "cancelled"}
ASSUME FaultsAssumption == MaxFaults \in Nat /\ MaxLoads \in Nat

VARIABLES
    status,      \* the committed status of the loan
    unsent,      \* the group sends that are still to be made
    kind,        \* per page: does it show the loan by itself, "detail", or the "lists"
    access,      \* the access token in localStorage: "live" or "expired"
    refresh,     \* the refresh token there: "live" or "expired"
    sock,        \* per page: its websocket
    member,      \* per page: its place in the group of the loan
    inbox,       \* per page: loan events that were delivered and not yet handled
    watching,    \* the pages that have a loan to load
    asked,       \* per page: the loads the server has not served yet
    answers,     \* per page and status: how many answers tell it and are under way
    shown,       \* per page: the status it shows
    doubt,       \* the pages that may be out of date, for a reason this model names
    faults       \* how many faults there have been

loan == <<status, unsent>>
socket == <<kind, sock, member, inbox>>
screen == <<watching, asked, answers, shown>>
tokens == <<access, refresh>>
rtVars == <<loan, tokens, socket, screen, doubt, faults>>
-----------------------------------------------------------------------------
LoanStatus == {"none", "pending_review", "active", "rejected", "cancelled", "closed"}

\* How far a loan with this status has come.
Rank(s) ==
    CASE s \in {"blank", "none"} -> 0
      [] s = "pending_review"    -> 1
      [] s \in {"active", "rejected", "cancelled"} -> 2
      [] s = "closed"            -> 3

\* The groups of the loan and of the user; the group of the other party has no
\* page here.
Groups == {"loan", "user"}
Sends == [change : {"created", "decided"}, group : Groups]

\* "waiting" for initRealtimeSocket to run, "refreshing" the access token,
\* "opening" the websocket with a live token or "stale" with an expired one, "open".
SocketStates == {"waiting", "refreshing", "opening", "stale", "open"}

InFlight(p) == asked[p] + MapThenSumSet(LAMBDA s : answers[p][s], LoanStatus)

\* Does page p get what is sent to group g?
InGroup(p, g) == sock[p] = "open" /\ (g = "loan" => member[p] = "joined")

\* The pages were just opened, with tokens that may have run out before.
RTInit ==
    /\ status = "none"
    /\ unsent = {}
    /\ kind \in [Pages -> {"lists", "detail"}]
    /\ access \in {"live", "expired"}
    /\ refresh \in {"live", "expired"}
    /\ sock = [p \in Pages |-> "waiting"]
    /\ member = [p \in Pages |-> "out"]
    /\ inbox = [p \in Pages |-> 0]
    /\ watching = {p \in Pages : kind[p] = "lists"}
    /\ asked = [p \in Pages |-> IF p \in watching /\ access = "live" THEN 1 ELSE 0]
    /\ answers = [p \in Pages |-> [s \in LoanStatus |-> 0]]
    /\ shown = [p \in Pages |-> "blank"]
    /\ doubt = IF access = "live" THEN {} ELSE watching
    /\ faults = 0

\* One more thing goes wrong.
Fault == faults < MaxFaults /\ faults' = faults + 1
-----------------------------------------------------------------------------
\* create_loan commits.
Create ==
    /\ status = "none"
    /\ status' = "pending_review"
    /\ unsent' = unsent \cup {m \in Sends : m.change = "created"}
    /\ UNCHANGED <<tokens, socket, screen, doubt, faults>>

\* A decision on the request commits.
Move(s) ==
    /\ status = "pending_review"
    /\ status' = s
    /\ unsent' = unsent \cup {m \in Sends : m.change = "decided"}

\* The decision is made elsewhere.
DecideElsewhere(s) ==
    /\ Move(s)
    /\ UNCHANGED <<tokens, socket, screen, doubt, faults>>

\* A button of page p, there only while it shows the request as pending.  The
\* answer of the call will be shown as it comes.
Decide(p, s) ==
    /\ kind[p] = "detail"
    /\ shown[p] = "pending_review"
    /\ access = "live"
    /\ Move(s)
    /\ answers' = [answers EXCEPT ![p][s] = @ + 1]
    /\ UNCHANGED <<tokens, socket, watching, asked, shown, doubt, faults>>

\* The last repayment is paid and the loan closed: no loan event tells of it.
Settle ==
    /\ status \in {"pending_review", "active"}
    /\ status' = "closed"
    /\ doubt' = Pages
    /\ UNCHANGED <<unsent, tokens, socket, screen, faults>>

\* publish_loan_event sends to one group after the other, in any order, and what
\* is sent reaches the members of that moment.
Send(m) ==
    /\ m \in unsent
    /\ unsent' = unsent \ {m}
    /\ inbox' = [p \in Pages |-> inbox[p] + (IF InGroup(p, m.group) THEN 1 ELSE 0)]
    /\ doubt' = doubt \cup {p \in Pages : m.group = "user" /\ ~InGroup(p, "user")}
    /\ UNCHANGED <<status, tokens, kind, sock, member, screen, faults>>

\* The worker dies, or the channel layer fails, before all groups are told.
WorkerDies(change) ==
    LET lost == {m \in unsent : m.change = change}
    IN  /\ lost # {}
        /\ Fault
        /\ unsent' = unsent \ lost
        /\ doubt' = IF \E m \in lost : m.group = "user" THEN Pages ELSE doubt
        /\ UNCHANGED <<status, tokens, socket, screen>>
-----------------------------------------------------------------------------
\* The access token runs out.
Expire ==
    /\ access = "live"
    /\ access' = "expired"
    /\ Fault
    /\ UNCHANGED <<loan, refresh, socket, screen, doubt>>

\* The refresh token runs out, days after the login: access tokens are made from
\* it, but it is never replaced.
ExpireRefresh ==
    /\ refresh = "live"
    /\ refresh' = "expired"
    /\ Fault
    /\ UNCHANGED <<loan, access, socket, screen, doubt>>

\* The user logs in on another page, which stores two new tokens for all.
Login ==
    /\ access' = "live"
    /\ refresh' = "live"
    /\ UNCHANGED <<loan, socket, screen, doubt, faults>>

SocketGoes(p, from, to) == sock[p] = from /\ sock' = [sock EXCEPT ![p] = to]

\* initRealtimeSocket and getLatestAccessToken: the page was loaded or its timer
\* has run out, and it asks for a new access token when the one it has is expired.
Connect(p) ==
    /\ SocketGoes(p, "waiting", IF access = "live" THEN "opening" ELSE "refreshing")
    /\ UNCHANGED <<loan, tokens, kind, member, inbox, screen, doubt, faults>>

\* The server makes a new access token from the refresh token, and the page stores
\* it.
Refresh(p) ==
    /\ SocketGoes(p, "refreshing", "opening")
    /\ refresh = "live"
    /\ access' = "live"
    /\ UNCHANGED <<loan, refresh, kind, member, inbox, screen, doubt, faults>>

\* The refresh fails, or its token has run out and is refused: the page tries the
\* access token it had.
LoseRefresh(p) ==
    /\ SocketGoes(p, "refreshing", "stale")
    /\ IF refresh = "live" THEN Fault ELSE UNCHANGED faults
    /\ UNCHANGED <<loan, tokens, kind, member, inbox, screen, doubt>>

\* Faulty: a page that was refused does not try again.
AfterRefusalSilent == "closed"

\* onclose starts a timer of two seconds, also when the server refused.
AfterRefusal == "waiting"

\* JWTAuthMiddleware finds no user, connect closes with 4401.
Refuse(p) ==
    /\ SocketGoes(p, "stale", AfterRefusal)
    /\ UNCHANGED <<loan, tokens, kind, member, inbox, screen, doubt, faults>>

\* connect joins the group of the user and accepts.  onopen subscribes to the loan
\* of a detail page that has one, and loads nothing.
Accept(p) ==
    /\ SocketGoes(p, "opening", "open")
    /\ member' = [member EXCEPT ![p] = IF kind[p] = "detail" /\ p \in watching THEN "sent" ELSE "out"]
    /\ UNCHANGED <<loan, tokens, kind, inbox, screen, doubt, faults>>

\* The server handles the subscription of page p.
Subscribe(p) ==
    /\ member[p] = "sent"
    /\ member' = [member EXCEPT ![p] = "joined"]
    /\ UNCHANGED <<loan, tokens, kind, sock, inbox, screen, doubt, faults>>

\* The websocket breaks; what was delivered and not handled is gone.
Drop(p) ==
    /\ SocketGoes(p, "open", "waiting")
    /\ Fault
    /\ member' = [member EXCEPT ![p] = "out"]
    /\ inbox' = [inbox EXCEPT ![p] = 0]
    /\ doubt' = doubt \cup {q \in {p} : inbox[q] > 0}
    /\ UNCHANGED <<loan, tokens, kind, screen>>
-----------------------------------------------------------------------------
\* Page p sends a load with the access token as it is; api() does not refresh it,
\* so an expired one is refused.
Load(p) ==
    /\ asked' = [asked EXCEPT ![p] = IF access = "live" THEN @ + 1 ELSE @]
    /\ doubt' = IF access = "live" THEN doubt ELSE doubt \cup {p}

\* Faulty: an event that finds a load under way is taken as answered by it.
RefetchesOnce(p) == p \in watching /\ InFlight(p) = 0

\* A loan event makes the page load again; what it says is not used.
Refetches(p) == p \in watching

\* handleRealtimeMessage
Handle(p) ==
    /\ inbox[p] > 0
    /\ inbox' = [inbox EXCEPT ![p] = @ - 1]
    /\ IF Refetches(p) THEN Load(p) ELSE UNCHANGED <<asked, doubt>>
    /\ UNCHANGED <<loan, tokens, kind, sock, member, watching, answers, shown, faults>>

\* The user clicks on load or refresh; there is a loan to type in once it exists.
LoadByHand(p) ==
    /\ kind[p] = "detail" => status # "none"
    /\ InFlight(p) < MaxLoads
    /\ watching' = watching \cup {p}
    /\ Load(p)
    /\ UNCHANGED <<loan, tokens, socket, answers, shown, faults>>

\* The server reads the loan for a load of page p: for a lists page in the request
\* for the lent or the borrowed loans, which tells the status of each; the requests
\* for the other lists come before and after it.
Read(p) ==
    /\ asked[p] > 0
    /\ asked' = [asked EXCEPT ![p] = @ - 1]
    /\ answers' = [answers EXCEPT ![p][status] = @ + 1]
    /\ UNCHANGED <<loan, tokens, socket, watching, shown, doubt, faults>>

\* A load fails: throttled, not answered, or its token ran out on the way.
LoseLoad(p) ==
    /\ asked[p] > 0
    /\ Fault
    /\ asked' = [asked EXCEPT ![p] = @ - 1]
    /\ doubt' = doubt \cup {p}
    /\ UNCHANGED <<loan, tokens, socket, watching, answers, shown>>

\* An answer arrives and is shown, whatever is shown already; answers may overtake
\* one another.  A detail page then subscribes if it has not.
Render(p, s) ==
    /\ answers[p][s] > 0
    /\ answers' = [answers EXCEPT ![p][s] = @ - 1]
    /\ shown' = [shown EXCEPT ![p] = s]
    /\ member' = [member EXCEPT ![p] =
            IF kind[p] = "detail" /\ sock[p] = "open" /\ @ = "out" THEN "sent" ELSE @]
    /\ doubt' = IF s = status THEN doubt \ {p}
                ELSE IF Rank(s) < Rank(shown[p]) THEN doubt \cup {p}
                ELSE doubt
    /\ UNCHANGED <<loan, tokens, kind, sock, inbox, watching, asked, faults>>

RTNext ==
    \/ Create \/ Settle \/ Expire \/ ExpireRefresh \/ Login
    \/ \E s \in Decisions : DecideElsewhere(s)
    \/ \E m \in Sends : Send(m)
    \/ \E change \in {"created", "decided"} : WorkerDies(change)
    \/ \E p \in Pages :
        \/ Connect(p) \/ Refresh(p) \/ LoseRefresh(p) \/ Refuse(p) \/ Accept(p)
        \/ Subscribe(p) \/ Drop(p)
        \/ Handle(p) \/ LoadByHand(p) \/ Read(p) \/ LoseLoad(p)
        \/ \E s \in Decisions : Decide(p, s)
        \/ \E s \in LoanStatus : Render(p, s)

RTSpec == RTInit /\ [][RTNext]_rtVars

\* Timers run out, requests and handshakes are served, events that are sent are
\* handled and answers shown.  Users, who may never log in again, and the network
\* owe nothing.
RTFairSpec ==
    /\ RTSpec
    /\ \A m \in Sends : WF_rtVars(Send(m))
    /\ \A p \in Pages :
        /\ WF_rtVars(Connect(p))
        /\ WF_rtVars(Refresh(p) \/ LoseRefresh(p))
        /\ WF_rtVars(Refuse(p))
        /\ WF_rtVars(Accept(p))
        /\ WF_rtVars(Handle(p))
        /\ WF_rtVars(Read(p))
        /\ \A s \in LoanStatus : WF_rtVars(Render(p, s))
-----------------------------------------------------------------------------
RTTypeOK ==
    /\ status \in LoanStatus
    /\ unsent \subseteq Sends
    /\ kind \in [Pages -> {"lists", "detail"}]
    /\ access \in {"live", "expired"}
    /\ refresh \in {"live", "expired"}
    /\ sock \in [Pages -> SocketStates]
    /\ member \in [Pages -> {"out", "sent", "joined"}]
    /\ inbox \in [Pages -> Nat]
    /\ watching \subseteq Pages
    /\ asked \in [Pages -> Nat]
    /\ answers \in [Pages -> [LoanStatus -> Nat]]
    /\ shown \in [Pages -> LoanStatus \cup {"blank"}]
    /\ doubt \subseteq Pages
    /\ faults \in 0 .. MaxFaults

\* Nothing that concerns page p is under way.
Quiet(p) ==
    /\ \A m \in unsent : m.group # "user"
    /\ inbox[p] = 0
    /\ asked[p] = 0
    /\ \A s \in LoanStatus : answers[p][s] = 0

\* A page at rest shows the loan as it is, however events, refetches and their
\* answers crossed, unless for one of the reasons marked as doubt: an event went
\* by while it had no websocket or was lost with it, the publisher died, a load
\* failed, an older answer overtook a newer one, or the loan was closed silently.
QuietMeansCurrent ==
    \A p \in watching \ doubt : Quiet(p) => shown[p] = status

\* However connections, refreshes and tokens fail, a page gets its websocket back
\* unless its refresh token has run out for good: it is refused again and again then,
\* and comes back as soon as the user has logged in on any page.
SocketComesBack == \A p \in Pages : []<>(sock[p] = "open" \/ refresh = "expired")
=============================================================================
