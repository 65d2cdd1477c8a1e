------------------------------ MODULE Console ------------------------------
(***************************************************************************)
(* The administration console: the router shows one page at a time, and in *)
(* the app none of them without a stored server, which the connect page    *)
(* writes and proves and the connection card watches and drops. The links  *)
(* page, the logs page and the pages for signing in, which a browser shows *)
(* instead of the app's connect page, run under it as they are.            *)
(***************************************************************************)
EXTENDS BatchDialog, LogsPage, SignIn

VARIABLES
    tab,          \* bound: the page that a behaviour visits
    route,        \* what the router shows
    stored,       \* localStorage: no server, or one whose token was accepted or not yet
    accepted,     \* the server accepts the token (in the app)
    trusted,      \* the user has allowed the server's plain HTTP
    pending,      \* connect page: that question is open
    probe,        \* connect page: its request, and the answer
    status,       \* connection card: what the dot says
    checks,       \* connection card: its requests under way, and their answers
    killed        \* history: the app was killed while it probed

shellVars == <<route, stored, accepted, trusted, pending, probe, status, checks, killed>>
pageVars == <<LinksPageVars, logsVars, signInVars>>
vars == <<pageVars, tab, shellVars>>

Statuses == {"checking", "connected", "unauthorized", "unreachable"}

TypeOK ==
    /\ LinksTypeOK /\ BatchTypeOK /\ LogsTypeOK /\ SignInTypeOK
    /\ tab \in {"links", "logs", "settings", "sign in"}
    /\ route \in {"connect", "home", tab}
    /\ stored \in {"none", "unproven", "proven"}
    /\ accepted \in BOOLEAN /\ trusted \in BOOLEAN /\ pending \in BOOLEAN
    /\ probe \in {"idle", "sent", "yes", "no"}
    /\ status \in Statuses
    /\ checks \in [Slots -> {"idle", "sent"} \cup Statuses]
    /\ killed \in BOOLEAN

Init ==
    /\ LinksPageInit /\ LogsInit /\ SignInInit
    /\ tab \in {"links", "logs", "settings", "sign in"}
    \* Bound: the links page is the same in both modes, the card is the app's only,
    \* the app does not sign in, and connects for the card.
    /\ (tab \in {"links", "sign in"} => ~app) /\ (tab = "settings" => app)
    /\ (tab # "links" => table = <<>>) /\ (tab # "sign in" => password = 1)
    /\ stored \in CASE ~app -> {"none"} [] tab = "logs" -> {"proven"} [] OTHER -> {"none", "proven"}
    /\ route = IF app /\ stored = "none" THEN "connect" ELSE "home"
    /\ accepted = TRUE /\ trusted = FALSE /\ pending = FALSE /\ probe = "idle"
    /\ status = "checking" /\ checks = [s \in Slots |-> "idle"]
    /\ killed = FALSE

\* The routes of /admin: an app without a server lands on the connect page.
Guarded(page) == IF app /\ stored = "none" THEN "connect" ELSE page

-----------------------------------------------------------------------------
(* The pages.                                                              *)

Follows(was, is, page) ==
    /\ is /\ ~was => route = "home"
    /\ route' = IF was = is THEN route ELSE IF is THEN Guarded(page) ELSE "home"
    /\ UNCHANGED <<tab, stored, accepted, trusted, pending, probe, status, checks, killed>>

LinksStep ==
    /\ tab = "links"
    /\ LinksPageUser \/ LinksPageStep
    /\ Follows(linksOpen, linksOpen', "links")
    /\ UNCHANGED <<logsVars, signInVars>>

LogsRouted ==
    /\ Follows(logsOpen, logsOpen', "logs")
    /\ UNCHANGED <<LinksPageVars, signInVars>>

LogsStep == tab = "logs" /\ (LogsUser \/ LogsRuns \/ LogsTrouble) /\ LogsRouted

SignInStep ==
    /\ tab = "sign in"
    /\ SignInUser \/ SignInServer \/ SignInPages
    /\ UNCHANGED <<LinksPageVars, logsVars, tab, shellVars>>

-----------------------------------------------------------------------------
(* The connect page.                                                       *)

logsFrame == <<app, log, logsOpen, scrollback, connection, gap>>
otherPages == <<LinksPageVars, logsFrame, signInVars>>

\* What the user does is bounded together with the visits of pages.
Move == visits < MaxVisits /\ visits' = visits + 1 /\ UNCHANGED <<otherPages, outages, tab>>
Outage == outages < MaxOutages /\ outages' = outages + 1 /\ UNCHANGED <<otherPages, visits, tab>>

\* connect: the configuration is stored first, so that the probe can use it.
Connect ==
    /\ probe = "idle" /\ probe' = "sent"
    /\ stored' = "unproven"

\* The form, with a token that the server accepts or not: a plain HTTP server must
\* be allowed once.
SubmitServer ==
    /\ route = "connect" /\ ~pending /\ probe = "idle"
    /\ Move
    /\ accepted' \in BOOLEAN
    /\ \/ Connect /\ UNCHANGED pending                   \* https, or allowed before
       \/ ~trusted /\ pending' = TRUE /\ UNCHANGED <<stored, probe>>
    /\ UNCHANGED <<route, trusted, status, checks, killed>>

ConfirmInsecure ==
    /\ route = "connect" /\ pending
    /\ Move
    /\ trusted' = TRUE /\ pending' = FALSE
    /\ Connect
    /\ UNCHANGED <<route, accepted, status, checks, killed>>

CancelInsecure ==
    /\ route = "connect" /\ pending
    /\ Move
    /\ pending' = FALSE
    /\ UNCHANGED <<route, stored, accepted, trusted, probe, status, checks, killed>>

\* The status request is answered, or fails.
ProbeAnswered ==
    /\ probe = "sent"
    /\ \/ probe' = (IF accepted THEN "yes" ELSE "no")
          /\ UNCHANGED <<pageVars, tab>>
       \/ probe' = "no" /\ Outage
    /\ UNCHANGED <<route, stored, accepted, trusted, pending, status, checks, killed>>

\* Mutant: the configuration stays in the form for the next attempt, and stored.
ProbeSettlesWithoutRollback ==
    /\ probe \in {"yes", "no"} /\ probe' = "idle"
    /\ IF probe = "yes"
         THEN /\ stored' = IF stored = "unproven" THEN "proven" ELSE stored
              /\ route' = Guarded("home")
         ELSE UNCHANGED <<stored, route>>
    /\ UNCHANGED <<pageVars, tab, accepted, trusted, pending, status, checks, killed>>

\* What connect does with it, even when the page is gone by then.
ProbeSettles ==
    /\ probe \in {"yes", "no"} /\ probe' = "idle"
    /\ IF probe = "yes"
         THEN /\ stored' = IF stored = "unproven" THEN "proven" ELSE stored
              /\ route' = Guarded("home")
         ELSE /\ stored' = "none"
              /\ UNCHANGED route
    /\ UNCHANGED <<pageVars, tab, accepted, trusted, pending, status, checks, killed>>

\* A link of the app's own scheme opens a page of the console at any time.
DeepLink ==
    /\ app /\ route = "connect"
    /\ Move
    /\ route' = Guarded("home")
    /\ pending' = FALSE
    /\ UNCHANGED <<stored, accepted, trusted, probe, status, checks, killed>>

\* The app is killed and started again: only what is stored survives.
Kill ==
    /\ tab = "settings" /\ Outage
    /\ route' = Guarded("home")
    /\ pending' = FALSE /\ probe' = "idle"
    /\ status' = "checking" /\ checks' = [s \in Slots |-> "idle"]
    /\ killed' = (killed \/ stored = "unproven")
    /\ UNCHANGED <<stored, accepted, trusted>>

-----------------------------------------------------------------------------
(* The connection card.                                                    *)

NoChecks == [s \in Slots |-> "idle"]
Probe(s) == checks[s] = "idle" /\ checks' = [checks EXCEPT ![s] = "sent"]

OpenSettings ==
    /\ tab = "settings" /\ Move
    /\ route = "home" /\ route' = Guarded("settings")
    /\ status' = "checking"
    /\ IF route' = "settings" THEN \E s \in Slots : Probe(s) ELSE UNCHANGED checks
    /\ UNCHANGED <<stored, accepted, trusted, pending, probe, killed>>

\* Leaving stops the timer, and aliveRef makes late answers fall flat.
LeaveSettings ==
    /\ route = "settings" /\ route' = "home"
    /\ Move
    /\ checks' = NoChecks
    /\ UNCHANGED <<stored, accepted, trusted, pending, probe, status, killed>>

\* Mutant: a connection that stands is not checked any more.
PeriodicCheckUntilConnected ==
    /\ route = "settings" /\ status # "connected"
    /\ \E s \in Slots : Probe(s)
    /\ UNCHANGED <<pageVars, tab, route, stored, accepted, trusted, pending, probe, status, killed>>

\* Every 10 s, and whenever the app comes to the foreground.
PeriodicCheck ==
    /\ route = "settings"
    /\ \E s \in Slots : Probe(s)
    /\ UNCHANGED <<pageVars, tab, route, stored, accepted, trusted, pending, probe, status, killed>>

\* The refresh button is for a card that is not checking.
RefreshCard ==
    /\ route = "settings" /\ status # "checking"
    /\ Move
    /\ status' = "checking"
    /\ \E s \in Slots : Probe(s)
    /\ UNCHANGED <<route, stored, accepted, trusted, pending, probe, killed>>

\* The status request is answered, or fails or runs into its 5 s.
CheckAnswered(s) ==
    /\ checks[s] = "sent"
    /\ \/ checks' = [checks EXCEPT ![s] = IF accepted THEN "connected" ELSE "unauthorized"]
          /\ UNCHANGED <<pageVars, tab>>
       \/ checks' = [checks EXCEPT ![s] = "unreachable"] /\ Outage
    /\ UNCHANGED <<route, stored, accepted, trusted, pending, probe, status, killed>>

CheckArrives(s) ==
    /\ checks[s] \in Statuses
    /\ status' = checks[s]
    /\ checks' = [checks EXCEPT ![s] = "idle"]
    /\ UNCHANGED <<pageVars, tab, route, stored, accepted, trusted, pending, probe, killed>>

Disconnect ==
    /\ route = "settings" /\ route' = "connect"
    /\ Move
    /\ stored' = "none"
    /\ checks' = NoChecks
    /\ UNCHANGED <<accepted, trusted, pending, probe, status, killed>>

\* The token is revoked on the server, or made valid again by a new secret.
TokenChanges ==
    /\ tab = "settings" /\ Outage
    /\ accepted' = ~accepted
    /\ UNCHANGED <<route, stored, trusted, pending, probe, status, checks, killed>>

-----------------------------------------------------------------------------
ShellStep ==
    \/ SubmitServer \/ ConfirmInsecure \/ CancelInsecure \/ ProbeAnswered \/ ProbeSettles
    \/ DeepLink \/ Kill \/ OpenSettings \/ LeaveSettings \/ PeriodicCheck \/ RefreshCard
    \/ Disconnect \/ TokenChanges
    \/ \E s \in Slots : CheckAnswered(s) \/ CheckArrives(s)

Next == LinksStep \/ LogsStep \/ SignInStep \/ ShellStep

\* The browser's timers fire, connections are accepted, and probes end: answered,
\* failed, or aborted after 5 s.
Fairness ==
    /\ WF_vars((StreamOpens \/ StreamRetries) /\ LogsRouted)
    /\ WF_vars(PeriodicCheck)
    /\ \A s \in Slots : WF_vars(CheckAnswered(s) \/ CheckArrives(s))

Spec == Init /\ [][Next]_vars /\ Fairness

(***************************************************************************)
(* Properties                                                              *)
(***************************************************************************)
\* A server whose token nobody has accepted is stored only while the connect page
\* asks for it: a bad token or an unreachable host is rolled back, even if the
\* user has left the page, unless the app is killed in between.
UnprovenIsProbed == stored = "unproven" => probe # "idle" \/ killed

\* The dot of an open card ends up saying what the server would say, although
\* answers overlap and the older one may arrive last: another check follows.
CardCatchesUp ==
    <>[](route = "settings") =>
        <>[](status = IF accepted THEN "connected" ELSE "unauthorized")
=============================================================================
