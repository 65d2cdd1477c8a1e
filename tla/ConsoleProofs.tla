---------------------------- MODULE ConsoleProofs ----------------------------
(***************************************************************************)
(* The console runs its pages as they are, so what is proved of the links  *)
(* page, of signing in and of the logs page holds in it; and what holds of *)
(* the connect page, of the log stream, and of the whole.                  *)
(***************************************************************************)
EXTENDS Console, LinksPageProofs, SignInProofs, LogsPageProofs

\* The steps of the connect page and of the connection card leave the other pages alone.
LEMMA ShellLeavesPages ==
    ShellStep => UNCHANGED <<LinksPageVars, signInVars, logsFrame>>
<1> SUFFICES ASSUME ShellStep
             PROVE  UNCHANGED <<LinksPageVars, signInVars, logsFrame>>
  OBVIOUS
<1>1. CASE Move \/ Outage
  BY <1>1 DEF Move, Outage, otherPages
<1>2. CASE UNCHANGED pageVars
  BY <1>2 DEF pageVars, logsVars, logsFrame, log, scrollback, connection
<1> QED
  BY <1>1, <1>2 DEF ShellStep, SubmitServer, ConfirmInsecure, CancelInsecure, ProbeAnswered,
     ProbeSettles, DeepLink, Kill, OpenSettings, LeaveSettings, PeriodicCheck, RefreshCard,
     Disconnect, TokenChanges, CheckAnswered, CheckArrives

\* Under the router the links page and the pages for signing in behave as on their own:
\* every step of the console (App.tsx) is one of theirs or leaves them alone.
THEOREM ConsoleRunsPages == Spec => LinksPageSpec /\ SignInSpec
<1>1. Init => LinksPageInit /\ SignInInit
  BY DEF Init
<1>2. [Next]_vars => [LinksPageUser \/ LinksPageStep]_LinksPageVars
  BY ShellLeavesPages DEF Next, LinksStep, LogsStep, LogsRouted, SignInStep, vars, pageVars
<1>3. [Next]_vars => [SignInUser \/ SignInServer \/ SignInPages]_signInVars
  BY ShellLeavesPages DEF Next, LinksStep, LogsStep, LogsRouted, SignInStep, vars, pageVars
<1> QED
  BY <1>1, <1>2, <1>3, PTL DEF Spec, LinksPageSpec, SignInSpec

\* The properties of the two components, in the console.
COROLLARY PagesUnderTheRouter ==
    Spec => /\ []PageCatchesUp /\ []SelectionWasSeen /\ []FailuresAreReal
            /\ []SessionsProvePassword /\ []SetupIsOver /\ []LockoutHolds
BY ConsoleRunsPages, RowsCatchUp, TickedWasSeen, ListedLinesFailed, OldSessionsEnd, SetupEnds,
   LockoutIsKept, PTL

\* Under the router, too, the logs page has no holes: whatever the other pages and the
\* connection card do leaves its lines, its requests and its stream alone.
THEOREM LinesAreComplete == Spec => []NoLineMissing
<1>1. Init => Unbroken
  BY LogsStart DEF Init
<1>2. Unbroken /\ [Next]_vars => Unbroken'
  <2> SUFFICES ASSUME Unbroken, [Next]_vars PROVE Unbroken'
    OBVIOUS
  <2>1. CASE UNCHANGED logsFrame
    BY <2>1, LogsRestKeeps DEF logsFrame, log, connection
  <2>2. CASE LogsStep
    BY <2>2, LogsStepKeeps DEF LogsStep, LogsNext
  <2>3. CASE LinksStep \/ SignInStep \/ UNCHANGED vars
    BY <2>1, <2>3 DEF LinksStep, SignInStep, vars, pageVars, logsVars, logsFrame, log,
       scrollback, connection
  <2>4. CASE ShellStep
    BY <2>1, <2>4, ShellLeavesPages
  <2> QED
    BY <2>2, <2>3, <2>4 DEF Next
<1> QED
  BY <1>1, <1>2, UnbrokenHasAll, PTL DEF Spec

\* Connect.tsx stores the server before it asks it, and rolls back: a server whose token
\* nobody accepted is stored only meanwhile, for any bounds, unless the app was killed.
THEOREM ServerIsProved == Spec => []UnprovenIsProbed
<1>1. Init => UnprovenIsProbed
  BY DEF Init, UnprovenIsProbed
<1>2. UnprovenIsProbed /\ [Next]_vars => UnprovenIsProbed'
  <2> SUFFICES ASSUME UnprovenIsProbed, [Next]_vars PROVE UnprovenIsProbed'
    OBVIOUS
  <2>1. CASE UNCHANGED <<stored, probe, killed>>
    BY <2>1 DEF UnprovenIsProbed
  <2>2. CASE Connect
    BY <2>2 DEF Connect, UnprovenIsProbed
  <2>3. CASE ProbeAnswered
    BY <2>3 DEF ProbeAnswered, UnprovenIsProbed
  <2>4. CASE ProbeSettles
    BY <2>4 DEF ProbeSettles, UnprovenIsProbed
  <2>5. CASE Kill
    BY <2>5 DEF Kill, UnprovenIsProbed
  <2>6. CASE Disconnect
    BY <2>6 DEF Disconnect, UnprovenIsProbed
  <2>7. CASE LinksStep \/ LogsStep \/ SignInStep \/ UNCHANGED vars
    BY <2>1, <2>7 DEF LinksStep, LogsStep, LogsRouted, SignInStep, Follows, vars, shellVars
  <2>8. CASE \/ SubmitServer \/ ConfirmInsecure \/ CancelInsecure \/ DeepLink \/ OpenSettings
             \/ LeaveSettings \/ PeriodicCheck \/ RefreshCard \/ TokenChanges
             \/ \E s \in Slots : CheckAnswered(s) \/ CheckArrives(s)
    BY <2>1, <2>2, <2>8 DEF SubmitServer, ConfirmInsecure, CancelInsecure, DeepLink,
       OpenSettings, LeaveSettings, PeriodicCheck, RefreshCard, TokenChanges, CheckAnswered,
       CheckArrives
  <2> QED
    BY <2>3, <2>4, <2>5, <2>6, <2>7, <2>8 DEF Next, ShellStep
<1> QED
  BY <1>1, <1>2, PTL DEF Spec

\* logStream's badge does not stick: it says live on an open stream and reconnecting while
\* there is none, however often the stream is lost and found.
THEOREM BadgeIsRight == Spec => []BadgeTellsStream
<1>1. Init => BadgeTellsStream
  BY DEF Init, LogsInit, BadgeTellsStream
<1>2. BadgeTellsStream /\ [Next]_vars => BadgeTellsStream'
  <2> SUFFICES ASSUME BadgeTellsStream, [Next]_vars PROVE BadgeTellsStream'
    OBVIOUS
  <2>1. CASE UNCHANGED <<stream, streamDown>>
    BY <2>1 DEF BadgeTellsStream
  <2>2. CASE LogsStep
    <3>1. CASE MountLogs \/ UnmountLogs
      BY <3>1 DEF MountLogs, UnmountLogs, BadgeTellsStream
    <3>2. CASE StreamOpens \/ StreamRetries \/ StreamFails
      BY <3>2 DEF StreamOpens, StreamRetries, StreamFails, BadgeTellsStream
    <3>3. CASE \/ HistoryServed \/ HistoryArrives \/ HistoryFails \/ LineArrives
               \/ Subscribe \/ LineBroadcast \/ \E l \in 1..MaxLines : LineWritten(l)
               \/ \E s \in Slots : LoadMore(s) \/ MoreServed(s) \/ MoreArrives(s) \/ MoreFails(s)
      BY <2>1, <3>3 DEF HistoryServed, HistoryArrives, HistoryFails, LineArrives, Subscribe,
         LineBroadcast, LineWritten, LoadMore, MoreServed, MoreArrives, MoreFails, connection
    <3> QED
      BY <2>2, <3>1, <3>2, <3>3 DEF LogsStep, LogsUser, LogsRuns, LogsTrouble
  <2>3. CASE LinksStep \/ SignInStep \/ ShellStep \/ UNCHANGED vars
    BY <2>1, <2>3, ShellLeavesPages DEF LinksStep, SignInStep, vars, pageVars, logsVars, logsFrame,
       log, connection
  <2> QED
    BY <2>2, <2>3 DEF Next
<1> QED
  BY <1>1, <1>2, PTL DEF Spec

-----------------------------------------------------------------------------
(* The types.                                                              *)

PathTypes ==
    /\ tab \in {"links", "logs", "settings", "sign in"}
    /\ route \in {"connect", "home", tab}
    /\ stored \in {"none", "unproven", "proven"}
    /\ probe \in {"idle", "sent", "yes", "no"}
    /\ status \in Statuses
    /\ checks \in [Slots -> {"idle", "sent"} \cup Statuses]
ToggleTypes ==
    accepted \in BOOLEAN /\ trusted \in BOOLEAN /\ pending \in BOOLEAN /\ killed \in BOOLEAN

\* A page that the router shows is open or the connect page stands in for it.
LEMMA FollowsTyped ==
    ASSUME PathTypes, NEW was, NEW is, Follows(was, is, tab) PROVE PathTypes'
<1>1. UNCHANGED <<tab, stored, probe, status, checks>>
  BY DEF Follows
<1>2. route' \in {route, "connect", "home", tab}
  BY DEF Follows, Guarded
<1> QED
  BY <1>1, <1>2 DEF PathTypes

LEMMA ChecksTyped ==
    ASSUME PathTypes, NEW s \in Slots, NEW c \in {"idle", "sent"} \cup Statuses,
           checks' = [checks EXCEPT ![s] = c]
    PROVE  checks' \in [Slots -> {"idle", "sent"} \cup Statuses]
BY DEF PathTypes

LEMMA ProbesTyped ==
    ASSUME PathTypes, \E s \in Slots : Probe(s)
    PROVE  checks' \in [Slots -> {"idle", "sent"} \cup Statuses]
BY ChecksTyped DEF Probe

LEMMA ShellStays ==
    ASSUME ShellStep
    PROVE  /\ tab' = tab /\ UNCHANGED logsFrame
           /\ \/ visits' = visits /\ outages' = outages
              \/ visits < MaxVisits /\ visits' = visits + 1 /\ outages' = outages
              \/ outages < MaxOutages /\ outages' = outages + 1 /\ visits' = visits
<1>1. CASE Move \/ Outage
  BY <1>1 DEF Move, Outage, otherPages
<1>2. CASE UNCHANGED <<pageVars, tab>>
  BY <1>2 DEF pageVars, logsVars, logsFrame, log, scrollback, connection
<1> QED
  BY <1>1, <1>2 DEF ShellStep, SubmitServer, ConfirmInsecure, CancelInsecure, ProbeAnswered,
     ProbeSettles, DeepLink, Kill, OpenSettings, LeaveSettings, PeriodicCheck, RefreshCard,
     Disconnect, TokenChanges, CheckAnswered, CheckArrives

LEMMA ShellPathTyped == ASSUME PathTypes, ShellStep PROVE PathTypes'
<1>0. tab' = tab
  BY ShellStays
<1>1. route' \in {"connect", "home", tab}
  <2>1. route' \in {route, "connect", "home"} \/ (tab = "settings" /\ route' = "settings")
    BY DEF ShellStep, SubmitServer, ConfirmInsecure, CancelInsecure, ProbeAnswered,
       ProbeSettles, DeepLink, Kill, OpenSettings, LeaveSettings, PeriodicCheck, RefreshCard,
       Disconnect, TokenChanges, CheckAnswered, CheckArrives, Guarded
  <2> QED
    BY <2>1 DEF PathTypes
<1>2. stored' \in {"none", "unproven", "proven"}
  <2>1. stored' \in {stored, "none", "unproven", "proven"}
    BY DEF ShellStep, SubmitServer, ConfirmInsecure, CancelInsecure, ProbeAnswered, Connect,
       ProbeSettles, DeepLink, Kill, OpenSettings, LeaveSettings, PeriodicCheck, RefreshCard,
       Disconnect, TokenChanges, CheckAnswered, CheckArrives
  <2> QED
    BY <2>1 DEF PathTypes
<1>3. probe' \in {"idle", "sent", "yes", "no"}
  <2>1. probe' \in {probe, "idle", "sent", "yes", "no"}
    BY DEF ShellStep, SubmitServer, ConfirmInsecure, CancelInsecure, ProbeAnswered, Connect,
       ProbeSettles, DeepLink, Kill, OpenSettings, LeaveSettings, PeriodicCheck, RefreshCard,
       Disconnect, TokenChanges, CheckAnswered, CheckArrives
  <2> QED
    BY <2>1 DEF PathTypes
<1>4. checks' \in [Slots -> {"idle", "sent"} \cup Statuses] /\ status' \in Statuses
  <2>0. status \in Statuses /\ checks \in [Slots -> {"idle", "sent"} \cup Statuses]
    BY DEF PathTypes
  <2>1. CASE UNCHANGED <<checks, status>>
    BY <2>0, <2>1
  <2>2. CASE Kill
    BY <2>2 DEF Kill, Statuses
  <2>3. CASE OpenSettings
    <3>1. status' = "checking" /\ (checks' = checks \/ \E s \in Slots : Probe(s))
      BY <2>3 DEF OpenSettings
    <3> QED
      BY <2>0, <3>1, ProbesTyped DEF Statuses
  <2>4. CASE LeaveSettings \/ Disconnect
    BY <2>0, <2>4 DEF LeaveSettings, Disconnect, NoChecks
  <2>5. CASE PeriodicCheck \/ RefreshCard
    <3>1. status' \in {status, "checking"} /\ \E s \in Slots : Probe(s)
      BY <2>5 DEF PeriodicCheck, RefreshCard
    <3> QED
      BY <2>0, <3>1, ProbesTyped DEF Statuses
  <2>6. ASSUME NEW s \in Slots, CheckAnswered(s)
        PROVE  checks' \in [Slots -> {"idle", "sent"} \cup Statuses] /\ status' \in Statuses
    <3>1. /\ status' = status
          /\ \E c \in {"connected", "unauthorized", "unreachable"} :
                checks' = [checks EXCEPT ![s] = c]
      BY <2>6 DEF CheckAnswered
    <3> QED
      BY <2>0, <3>1, ChecksTyped DEF Statuses
  <2>7. ASSUME NEW s \in Slots, CheckArrives(s)
        PROVE  checks' \in [Slots -> {"idle", "sent"} \cup Statuses] /\ status' \in Statuses
    <3>1. status' \in Statuses /\ checks' = [checks EXCEPT ![s] = "idle"]
      BY <2>7 DEF CheckArrives
    <3> QED
      BY <3>1, ChecksTyped
  <2> QED
    BY <2>1, <2>2, <2>3, <2>4, <2>5, <2>6, <2>7 DEF ShellStep, SubmitServer, ConfirmInsecure,
       CancelInsecure, ProbeAnswered, ProbeSettles, DeepLink, TokenChanges
<1> QED
  BY <1>0, <1>1, <1>2, <1>3, <1>4 DEF PathTypes

LEMMA ShellTogglesTyped == ASSUME ToggleTypes, ShellStep PROVE ToggleTypes'
<1>1. accepted' \in BOOLEAN
  <2>1. accepted' = accepted \/ accepted' \in BOOLEAN \/ accepted' = ~accepted
    BY DEF ShellStep, SubmitServer, ConfirmInsecure, CancelInsecure, ProbeAnswered,
       ProbeSettles, DeepLink, Kill, OpenSettings, LeaveSettings, PeriodicCheck, RefreshCard,
       Disconnect, TokenChanges, CheckAnswered, CheckArrives
  <2> QED
    BY <2>1, Zenon DEF ToggleTypes
<1>2. trusted' \in BOOLEAN
  <2>1. trusted' = trusted \/ trusted' = TRUE
    BY DEF ShellStep, SubmitServer, ConfirmInsecure, CancelInsecure, ProbeAnswered,
       ProbeSettles, DeepLink, Kill, OpenSettings, LeaveSettings, PeriodicCheck, RefreshCard,
       Disconnect, TokenChanges, CheckAnswered, CheckArrives
  <2> QED
    BY <2>1, Zenon DEF ToggleTypes
<1>3. pending' \in BOOLEAN
  <2>1. pending' = pending \/ pending' = TRUE \/ pending' = FALSE
    BY DEF ShellStep, SubmitServer, ConfirmInsecure, CancelInsecure, ProbeAnswered,
       ProbeSettles, DeepLink, Kill, OpenSettings, LeaveSettings, PeriodicCheck, RefreshCard,
       Disconnect, TokenChanges, CheckAnswered, CheckArrives
  <2> QED
    BY <2>1, Zenon DEF ToggleTypes
<1>4. killed' \in BOOLEAN
  <2>1. killed' = killed \/ killed' = (killed \/ stored = "unproven")
    BY DEF ShellStep, SubmitServer, ConfirmInsecure, CancelInsecure, ProbeAnswered,
       ProbeSettles, DeepLink, Kill, OpenSettings, LeaveSettings, PeriodicCheck, RefreshCard,
       Disconnect, TokenChanges, CheckAnswered, CheckArrives
  <2> QED
    BY <2>1, Zenon DEF ToggleTypes
<1> QED
  BY <1>1, <1>2, <1>3, <1>4, Zenon DEF ToggleTypes

Framed == LogsTypeOK /\ PathTypes /\ ToggleTypes

LEMMA StartIsFramed == Init => Framed
<1> SUFFICES ASSUME Init PROVE Framed
  OBVIOUS
<1>1. LogsTypeOK
  BY LogsStartTyped DEF Init
<1>2. PathTypes
  BY DEF Init, PathTypes, Statuses
<1>3. ToggleTypes
  BY Zenon DEF Init, ToggleTypes
<1> QED
  BY <1>1, <1>2, <1>3 DEF Framed

LEMMA StepIsFramed == Framed /\ [Next]_vars => Framed'
<1> SUFFICES ASSUME Framed, [Next]_vars PROVE Framed'
  OBVIOUS
<1>0. LogsTypeOK /\ PathTypes /\ ToggleTypes
  BY DEF Framed
<1>1. ASSUME UNCHANGED logsVars PROVE LogsTypeOK'
  BY <1>0, <1>1 DEF LogsTypeOK, logsVars
<1>2. ASSUME UNCHANGED <<accepted, trusted, pending, killed>> PROVE ToggleTypes'
  BY <1>0, <1>2, Zenon DEF ToggleTypes
<1>3. CASE LinksStep
  <2>1. Follows(linksOpen, linksOpen', tab) /\ UNCHANGED logsVars
    BY <1>3 DEF LinksStep
  <2> QED
    BY <1>0, <1>1, <1>2, <2>1, FollowsTyped DEF Framed, Follows
<1>4. CASE LogsStep
  <2>1. Follows(logsOpen, logsOpen', tab) /\ LogsNext
    BY <1>4 DEF LogsStep, LogsRouted, LogsNext
  <2>2. LogsTypeOK'
    BY <1>0, <2>1, LogsStepTyped
  <2> QED
    BY <1>0, <1>2, <2>1, <2>2, FollowsTyped DEF Framed, Follows
<1>5. CASE SignInStep \/ UNCHANGED vars
  <2>1. UNCHANGED <<logsVars, tab, shellVars>>
    BY <1>5 DEF SignInStep, vars, pageVars
  <2>2. PathTypes' /\ ToggleTypes'
    BY <1>0, <1>2, <2>1 DEF shellVars, PathTypes
  <2> QED
    BY <1>1, <2>1, <2>2 DEF Framed
<1>6. CASE ShellStep
  <2>1. PathTypes' /\ ToggleTypes'
    BY <1>0, <1>6, ShellPathTyped, ShellTogglesTyped
  <2>2. outages \in 0..MaxOutages /\ visits \in 0..MaxVisits
    BY <1>0 DEF LogsTypeOK
  <2>3. outages' \in 0..MaxOutages /\ visits' \in 0..MaxVisits
    BY <1>6, <2>2, ShellStays, LogsAssumption
  <2>4. UNCHANGED <<app, log, logsOpen, scrollback, connection, gap>>
    BY <1>6, ShellStays DEF logsFrame
  <2>5. LogsTypeOK'
    BY <1>0, <2>3, <2>4, LogsRestTyped
  <2> QED
    BY <2>1, <2>5 DEF Framed
<1> QED
  BY <1>3, <1>4, <1>5, <1>6 DEF Next

\* The console shows the connect page, the home page or the page of the behaviour, and each
\* page keeps the forms of its own under the router: on the links page the table never has a
\* code twice, while signing in no more slots and answers are counted than there are, for
\* any constants.
THEOREM ConsoleTypes == Spec => []TypeOK
<1>1. Framed /\ LinksTypeOK /\ BatchTypeOK /\ SignInTypeOK => TypeOK
  BY DEF Framed, PathTypes, ToggleTypes, TypeOK
<1> QED
  BY <1>1, StartIsFramed, StepIsFramed, ConsoleRunsPages, LinksTypes, SignInTypes, PTL DEF Spec
=============================================================================
