---------------------------- MODULE ClickPipeline ----------------------------
(***************************************************************************)
(* The life of a click: a redirect INCRs two Redis counters, the flusher   *)
(* takes them with GETDEL and adds them to SQLite in one transaction.      *)
(*                                                                         *)
(*   internal/api/redirect.go     redirect, redirectRoot                   *)
(*   internal/counter/counter.go  Incr, AddBack, FlushAll                  *)
(*   internal/counter/flush.go    Run, FlushOnce, scanKeys,                *)
(*                                getAndResetMany, addBack, parseKey       *)
(*   internal/store/counts.go     ApplyCounts                              *)
(*   internal/store/store.go      the effect of create, delete and rename  *)
(*                                on the row a code resolves to            *)
(*                                                                         *)
(* A pipeline is not MULTI: Redis runs its commands one by one, between    *)
(* those of other connections, so every command is a step of its own.      *)
(***************************************************************************)
EXTENDS Naturals, FiniteSets, Functions

CONSTANTS
    Visitors,       \* concurrent redirect requests
    Codes,          \* short codes
    Dates,          \* calendar days in the process timezone
    MaxLinks,       \* bound: rows ever inserted into links
    MaxVisits,      \* bound: pipelines of INCRs sent, repeats included
    MaxTrouble      \* bound: faults, hiccups and failed transactions together

ASSUME DatesAssumption == "total" \notin Dates
ASSUME FinitenessAssumption == IsFiniteSet(Visitors) /\ IsFiniteSet(Dates)
ASSUME BoundsAssumption ==
    /\ MaxLinks \in Nat
    /\ MaxVisits \in Nat
    /\ MaxTrouble \in Nat

NoLink == 0
Ids == 1..MaxLinks              \* links.id, AUTOINCREMENT: never reused

\* Redis keys: counter:<code> and counter:<code>:<date>.  Codes hold no ':'
\* (shortcode.Validate), so parseKey recovers the pair from the name.
Periods == Dates \cup {"total"}
Keys == Codes \X Periods
TotalKey(c) == <<c, "total">>
DailyKey(c, d) == <<c, d>>

Zero == [k \in Keys |-> 0]

VARIABLES
    buf,        \* Redis: value of each counter, 0 when the key is absent
    live,       \* links: the row with deleted = 0 that bears each code
    created,    \* links: the last id the table gave out
    clicks,     \* links.click_count
    daily,      \* daily_clicks.count, keyed by (link_id, date)
    visitor,    \* each redirect request: how far it is, and what it resolved
    flush,      \* the flusher goroutine's place in FlushOnce
    todo,       \* GETDELs of each key still to be run in the pipeline
    held,       \* vals: counts taken from Redis and not yet in SQLite
    nilReply,   \* one of the pipeline's GETDELs found no key
    \* History, read by no action:
    counted,    \* increments Redis executed, repeats included, and nobody reset
    settled,    \* counts a committed ApplyCounts processed
    lost,       \* counts that left Redis and will never be processed
    churned,    \* codes whose link was ever deleted or renamed
    visited,    \* links some redirect was counted for
    visits,     \* pipelines of INCRs sent so far
    faults,     \* Redis errors and server crashes so far
    hiccups,    \* SCAN duplicates and `gourl reset redis` so far
    dbFailures  \* failed ApplyCounts transactions so far

redisVars   == <<buf>>
linkVars    == <<live, created, churned>>
clickVars   == <<clicks, daily>>
flushVars   == <<flush, todo, held, nilReply>>
ledgerVars  == <<counted, settled, lost>>
visitVars   == <<visitor, visited, visits>>
budgetVars  == <<faults, hiccups, dbFailures>>
vars == <<redisVars, linkVars, clickVars, flushVars, ledgerVars, visitVars, budgetVars>>

Idle == [pc |-> "idle"]
Requests == [pc : {"found", "half"}, code : Codes, date : Dates, id : Ids]

TypeOK ==
    /\ buf \in [Keys -> Nat]
    /\ live \in [Codes -> Ids \cup {NoLink}]
    /\ created \in 0..MaxLinks
    /\ clicks \in [Ids -> Nat]
    /\ daily \in [Ids \X Dates -> Nat]
    /\ visitor \in [Visitors -> {Idle} \cup Requests]
    /\ flush \in {"idle", "taking", "applying", "returning"}
    /\ todo \in [Keys -> 0..2]
    /\ held \in [Keys -> Nat]
    /\ nilReply \in BOOLEAN
    /\ counted \in [Keys -> Nat]
    /\ settled \in [Keys -> Nat]
    /\ lost \in [Keys -> Nat]
    /\ churned \subseteq Codes
    /\ visited \subseteq Ids
    /\ visits \in 0..MaxVisits
    /\ faults \in Nat /\ hiccups \in Nat /\ dbFailures \in Nat
    /\ faults + hiccups + dbFailures <= MaxTrouble

Init ==
    /\ buf = Zero
    /\ live = [c \in Codes |-> NoLink]
    /\ created = 0
    /\ clicks = [i \in Ids |-> 0]
    /\ daily = [r \in Ids \X Dates |-> 0]
    /\ visitor = [v \in Visitors |-> Idle]
    /\ flush = "idle"
    /\ todo = Zero
    /\ held = Zero
    /\ nilReply = FALSE
    /\ counted = Zero
    /\ settled = Zero
    /\ lost = Zero
    /\ churned = {}
    /\ visited = {}
    /\ visits = 0
    /\ faults = 0
    /\ hiccups = 0
    /\ dbFailures = 0

Trouble == faults + hiccups + dbFailures < MaxTrouble

Fault ==
    /\ Trouble
    /\ faults' = faults + 1
    /\ UNCHANGED <<hiccups, dbFailures>>

Hiccup ==
    /\ Trouble
    /\ hiccups' = hiccups + 1
    /\ UNCHANGED <<faults, dbFailures>>

-----------------------------------------------------------------------------
(* Links: what the store does to the rows that counts are credited to.     *)

\* INSERT INTO links: the unique index covers only rows with deleted = 0.
CreateLink(c) ==
    /\ live[c] = NoLink
    /\ created < MaxLinks
    /\ created' = created + 1
    /\ live' = [live EXCEPT ![c] = created + 1]
    /\ UNCHANGED <<churned, redisVars, clickVars, flushVars, ledgerVars, visitVars, budgetVars>>

\* Soft or hard, single, bulk or expired: the code is free again, the daily
\* rows stay, and no later statement addresses the row's click_count.
DeleteLink(c) ==
    /\ live[c] # NoLink
    /\ live' = [live EXCEPT ![c] = NoLink]
    /\ churned' = churned \cup {c}
    /\ UNCHANGED <<created, redisVars, clickVars, flushVars, ledgerVars, visitVars, budgetVars>>

\* The row keeps its id under the new code; Redis is not told.
RenameLink(c, new) ==
    /\ live[c] # NoLink
    /\ live[new] = NoLink
    /\ live' = [live EXCEPT ![c] = NoLink, ![new] = live[c]]
    /\ churned' = churned \cup {c, new}
    /\ UNCHANGED <<created, redisVars, clickVars, flushVars, ledgerVars, visitVars, budgetVars>>

-----------------------------------------------------------------------------
(* Redirects.                                                              *)

Send ==
    /\ visits < MaxVisits
    /\ visits' = visits + 1

\* GetLink found an unexpired link; the date is read before Incr is called.
Lookup(v, c, d) ==
    /\ visitor[v] = Idle
    /\ live[c] # NoLink
    /\ Send
    /\ visitor' = [visitor EXCEPT ![v] =
                     [pc |-> "found", code |-> c, date |-> d, id |-> live[c]]]
    /\ UNCHANGED <<visited, redisVars, linkVars, clickVars, flushVars, ledgerVars, budgetVars>>

Incr(key) ==
    /\ buf' = [buf EXCEPT ![key] = @ + 1]
    /\ counted' = [counted EXCEPT ![key] = @ + 1]
    /\ UNCHANGED <<linkVars, clickVars, flushVars, settled, lost>>

IncrTotal(v) ==
    /\ visitor[v].pc = "found"
    /\ Incr(TotalKey(visitor[v].code))
    /\ visitor' = [visitor EXCEPT ![v].pc = "half"]
    /\ visited' = visited \cup {visitor[v].id}
    /\ UNCHANGED <<visits, budgetVars>>

\* Mutant: both counters share the prefix "counter:" and the date is left off.
IncrDailyWithoutDate(v) ==
    /\ visitor[v].pc = "half"
    /\ Incr(TotalKey(visitor[v].code))
    /\ visitor' = [visitor EXCEPT ![v] = Idle]
    /\ UNCHANGED <<visited, visits, budgetVars>>

IncrDaily(v) ==
    /\ visitor[v].pc = "half"
    /\ Incr(DailyKey(visitor[v].code, visitor[v].date))
    /\ visitor' = [visitor EXCEPT ![v] = Idle]
    /\ UNCHANGED <<visited, visits, budgetVars>>

\* The connection breaks before the next command runs.  The client gives up
\* (the redirect is served, the failure logged) or sends the pipeline again.
IncrBreaks(v) ==
    /\ visitor[v].pc # "idle"
    /\ Fault
    /\ \/ /\ visitor' = [visitor EXCEPT ![v] = Idle]
          /\ UNCHANGED visits
       \/ /\ visitor[v].pc = "half"
          /\ Send
          /\ visitor' = [visitor EXCEPT ![v].pc = "found"]
    /\ UNCHANGED <<visited, redisVars, linkVars, clickVars, flushVars, ledgerVars>>

\* Both commands ran and the reply is lost: the client sends the whole
\* pipeline again, and one click is counted twice.  (A client that gives up
\* has done what IncrDaily does.)
IncrUnheard(v) ==
    /\ visitor[v].pc = "half"
    /\ Fault
    /\ Incr(DailyKey(visitor[v].code, visitor[v].date))
    /\ Send
    /\ visitor' = [visitor EXCEPT ![v].pc = "found"]
    /\ UNCHANGED visited

-----------------------------------------------------------------------------
(* The flusher: one goroutine, one FlushOnce at a time.                    *)

\* SCAN lists every key present; it may list one of them twice.
Scan ==
    /\ flush = "idle"
    /\ \E k \in Keys : buf[k] > 0
    /\ \/ /\ todo' = [k \in Keys |-> IF buf[k] > 0 THEN 1 ELSE 0]
          /\ UNCHANGED budgetVars
       \/ \E twice \in Keys :
            /\ buf[twice] > 0
            /\ todo' = [k \in Keys |-> IF k = twice THEN 2 ELSE IF buf[k] > 0 THEN 1 ELSE 0]
            /\ Hiccup
    /\ flush' = "taking"
    /\ nilReply' = FALSE
    /\ UNCHANGED <<held, redisVars, linkVars, clickVars, ledgerVars, visitVars>>

\* Mutant: GET instead of GETDEL.
TakeKeyByGet(k) ==
    /\ flush = "taking"
    /\ todo[k] > 0
    /\ todo' = [todo EXCEPT ![k] = @ - 1]
    /\ held' = [held EXCEPT ![k] = buf[k]]
    /\ nilReply' = (nilReply \/ buf[k] = 0)
    /\ UNCHANGED <<buf, flush, ledgerVars, linkVars, clickVars, visitVars, budgetVars>>

\* One GETDEL.  A key taken twice keeps only its second value (out[k] = v).
TakeKey(k) ==
    /\ flush = "taking"
    /\ todo[k] > 0
    /\ todo' = [todo EXCEPT ![k] = @ - 1]
    /\ IF buf[k] = 0
       THEN /\ nilReply' = TRUE
            /\ UNCHANGED <<held, lost>>
       ELSE /\ held' = [held EXCEPT ![k] = buf[k]]
            /\ lost' = [lost EXCEPT ![k] = @ + held[k]]
            /\ UNCHANGED nilReply
    /\ buf' = [buf EXCEPT ![k] = 0]
    /\ UNCHANGED <<flush, counted, settled, linkVars, clickVars, visitVars, budgetVars>>

\* getAndResetMany returned an error: FlushOnce has no values to add back.
DropTaken ==
    /\ lost' = [k \in Keys |-> lost[k] + held[k]]
    /\ held' = Zero
    /\ todo' = Zero
    /\ nilReply' = FALSE
    /\ flush' = "idle"
    /\ UNCHANGED <<counted, settled>>

\* Pipelined reports the first failed command, and a missing key is one.
TakeFindsNil ==
    /\ flush = "taking"
    /\ todo = Zero
    /\ nilReply
    /\ DropTaken
    /\ UNCHANGED <<redisVars, linkVars, clickVars, visitVars, budgetVars>>

TakeBreaks ==
    /\ flush = "taking"
    /\ Fault
    /\ DropTaken
    /\ UNCHANGED <<redisVars, linkVars, clickVars, visitVars>>

TakeDone ==
    /\ flush = "taking"
    /\ todo = Zero
    /\ ~nilReply
    /\ flush' = "applying"
    /\ UNCHANGED <<todo, held, nilReply, redisVars, linkVars, clickVars, ledgerVars, visitVars,
                   budgetVars>>

\* What ApplyCounts adds to row i: the counts of the code it bears now.
Due(i, p) ==
    IF \E c \in Codes : live[c] = i
    THEN held[<<CHOOSE c \in Codes : live[c] = i, p>>]
    ELSE 0

\* Mutant: SET click_count = ? instead of click_count + ?.
ApplyOverwrites ==
    /\ flush = "applying"
    /\ clicks' = [i \in Ids |-> IF Due(i, "total") > 0 THEN Due(i, "total") ELSE clicks[i]]
    /\ daily' = [r \in Ids \X Dates |-> daily[r] + Due(r[1], r[2])]
    /\ settled' = [k \in Keys |-> settled[k] + held[k]]
    /\ held' = Zero
    /\ flush' = "idle"
    /\ UNCHANGED <<todo, nilReply, counted, lost, redisVars, linkVars, visitVars, budgetVars>>

\* Mutant: the add-back also follows a commit.
ApplyThenReturn ==
    /\ flush = "applying"
    /\ clicks' = [i \in Ids |-> clicks[i] + Due(i, "total")]
    /\ daily' = [r \in Ids \X Dates |-> daily[r] + Due(r[1], r[2])]
    /\ settled' = [k \in Keys |-> settled[k] + held[k]]
    /\ flush' = "returning"
    /\ UNCHANGED <<todo, held, nilReply, counted, lost, redisVars, linkVars, visitVars,
                   budgetVars>>

Apply ==
    /\ flush = "applying"
    /\ clicks' = [i \in Ids |-> clicks[i] + Due(i, "total")]
    /\ daily' = [r \in Ids \X Dates |-> daily[r] + Due(r[1], r[2])]
    /\ settled' = [k \in Keys |-> settled[k] + held[k]]
    /\ held' = Zero
    /\ flush' = "idle"
    /\ UNCHANGED <<todo, nilReply, counted, lost, redisVars, linkVars, visitVars, budgetVars>>

\* Mutant: FlushOnce returns the error and adds nothing back.
ApplyFailsForgetting ==
    /\ flush = "applying"
    /\ Trouble
    /\ dbFailures' = dbFailures + 1
    /\ DropTaken
    /\ UNCHANGED <<redisVars, linkVars, clickVars, visitVars, faults, hiccups>>

\* Mutant: Run returns on the first error instead of waiting for the next tick.
ApplyFailsAndStops ==
    /\ flush = "applying"
    /\ Trouble
    /\ dbFailures' = dbFailures + 1
    /\ flush' = "stopped"
    /\ UNCHANGED <<todo, held, nilReply, redisVars, linkVars, clickVars, ledgerVars, visitVars,
                   faults, hiccups>>

\* The transaction rolls back as a whole.
ApplyFails ==
    /\ flush = "applying"
    /\ Trouble
    /\ dbFailures' = dbFailures + 1
    /\ flush' = "returning"
    /\ UNCHANGED <<todo, held, nilReply, redisVars, linkVars, clickVars, ledgerVars, visitVars,
                   faults, hiccups>>

\* Mutant: the add-back is subtracted.
ReturnKeyNegated(k) ==
    /\ flush = "returning"
    /\ held[k] > 0
    /\ buf' = [buf EXCEPT ![k] = @ - held[k]]
    /\ held' = [held EXCEPT ![k] = 0]
    /\ UNCHANGED <<flush, todo, nilReply, ledgerVars, linkVars, clickVars, visitVars, budgetVars>>

\* AddBack of one key: INCRBY by what was taken.
ReturnKey(k) ==
    /\ flush = "returning"
    /\ held[k] > 0
    /\ buf' = [buf EXCEPT ![k] = @ + held[k]]
    /\ held' = [held EXCEPT ![k] = 0]
    /\ UNCHANGED <<flush, todo, nilReply, ledgerVars, linkVars, clickVars, visitVars, budgetVars>>

\* The INCRBY fails and the value is dropped, or its reply is late and the
\* client runs it again.
ReturnBreaks(k) ==
    /\ flush = "returning"
    /\ held[k] > 0
    /\ Fault
    /\ held' = [held EXCEPT ![k] = 0]
    /\ \/ /\ lost' = [lost EXCEPT ![k] = @ + held[k]]
          /\ UNCHANGED <<buf, counted>>
       \/ /\ buf' = [buf EXCEPT ![k] = @ + 2 * held[k]]
          /\ counted' = [counted EXCEPT ![k] = @ + held[k]]
          /\ UNCHANGED lost
    /\ UNCHANGED <<flush, todo, nilReply, settled, linkVars, clickVars, visitVars>>

ReturnDone ==
    /\ flush = "returning"
    /\ held = Zero
    /\ flush' = "idle"
    /\ UNCHANGED <<todo, held, nilReply, redisVars, linkVars, clickVars, ledgerVars, visitVars,
                   budgetVars>>

-----------------------------------------------------------------------------
(* The outside.                                                            *)

\* `gourl reset redis`: FLUSHALL from another process.
FlushAll ==
    /\ Hiccup
    /\ \E k \in Keys : buf[k] > 0
    /\ counted' = [k \in Keys |-> counted[k] - buf[k]]
    /\ buf' = Zero
    /\ UNCHANGED <<settled, lost, linkVars, clickVars, flushVars, visitVars>>

\* The server process dies and restarts; Redis and SQLite keep their data.
Crash ==
    /\ Fault
    /\ DropTaken
    /\ visitor' = [v \in Visitors |-> Idle]
    /\ UNCHANGED <<visited, visits, redisVars, linkVars, clickVars>>

LinkNext ==
    \E c \in Codes :
        \/ CreateLink(c)
        \/ DeleteLink(c)
        \/ \E new \in Codes \ {c} : RenameLink(c, new)

Redirect(v) == IncrTotal(v) \/ IncrDaily(v)

VisitNext ==
    \E v \in Visitors :
        \/ \E c \in Codes, d \in Dates : Lookup(v, c, d)
        \/ Redirect(v)
        \/ IncrBreaks(v)
        \/ IncrUnheard(v)

FlushOnce ==
    \/ Scan
    \/ TakeFindsNil
    \/ TakeDone
    \/ Apply
    \/ ReturnDone
    \/ \E k \in Keys : TakeKey(k) \/ ReturnKey(k)

Next ==
    \/ LinkNext
    \/ VisitNext
    \/ FlushOnce
    \/ TakeBreaks
    \/ ApplyFails
    \/ \E k \in Keys : ReturnBreaks(k)
    \/ FlushAll
    \/ Crash

Spec == Init /\ [][Next]_vars

\* The ticker wakes the flusher for ever, and the runtime schedules every
\* request's goroutine; nothing obliges visitors, the CLI or faults to act.
Fairness ==
    /\ WF_vars(FlushOnce)
    /\ \A v \in Visitors : WF_vars(Redirect(v))

FairSpec == Spec /\ Fairness

-----------------------------------------------------------------------------
(* Properties.                                                             *)

Pending(k) == buf[k] + held[k]

\* Every increment Redis executed is still in Redis, in the flusher's hands,
\* processed by SQLite or lost, and in one of them only, however INCR, GETDEL,
\* the transaction and the add-back interleave.  It is about increments, not
\* clicks: a command sent again after a lost reply (IncrUnheard, ReturnBreaks)
\* has Redis increment twice, and `counted` records both.
Conservation ==
    \A k \in Keys : counted[k] = Pending(k) + settled[k] + lost[k]

\* A failed transaction alone costs no click: without a Redis error, a crash,
\* a SCAN duplicate or a reset in mid-flush, nothing is ever lost, however
\* clicks interleave with the take and with the add-back.
NothingLostByDbFailure ==
    faults = 0 /\ hiccups = 0 => \A k \in Keys : lost[k] = 0

\* While a code has stayed with one link, that link has been credited exactly
\* what the flusher processed for the code, total and daily alike: a failed
\* and retried flush neither skips nor repeats a row.
CreditMatchesSettled ==
    \A c \in Codes \ churned :
        live[c] # NoLink =>
            /\ clicks[live[c]] = settled[TotalKey(c)]
            /\ \A d \in Dates : daily[<<live[c], d>>] = settled[DailyKey(c, d)]

\* All redirects are through, Redis is empty and no flush is on its way.
Quiet ==
    /\ \A k \in Keys : Pending(k) = 0
    /\ \A v \in Visitors : visitor[v] = Idle

\* Two sources of the same number, which the dashboard and the link list show
\* side by side: when all is flushed, a link's click_count is the sum of its
\* daily rows, although the two were counted, taken and retried separately.
TotalsMatchDailies ==
    Quiet /\ faults = 0 /\ hiccups = 0 =>
        \A c \in Codes \ churned :
            live[c] # NoLink =>
                clicks[live[c]] = SumFunction([d \in Dates |-> daily[<<live[c], d>>]])

\* What the properties rest on: a flush starts with empty hands; ...
IdleHoldsNothing == flush = "idle" => held = Zero

\* ... with no trouble, the pipeline asks once for each key it still asks for,
\* finds it, and has not taken it before; ...
CleanTake ==
    flush = "taking" /\ faults = 0 /\ hiccups = 0 =>
        /\ ~nilReply
        /\ \A k \in Keys : todo[k] > 0 => todo[k] = 1 /\ buf[k] > 0 /\ held[k] = 0

\* ... a row with deleted = 0 has one code, and its id was given out; ...
OneCodePerLink ==
    /\ \A c \in Codes : live[c] <= created
    /\ \A c1, c2 \in Codes : live[c1] = live[c2] /\ live[c1] # NoLink => c1 = c2

\* ... ids not given out have no counts; ...
FreshRowsAreZero ==
    \A i \in Ids : i > created =>
        clicks[i] = 0 /\ \A d \in Dates : daily[<<i, d>>] = 0

\* ... and nobody has clicked on a code that never had a link.
UnusedCodesAreClean ==
    \A c \in Codes \ churned :
        live[c] = NoLink =>
            /\ \A p \in Periods : counted[<<c, p>>] = 0
            /\ \A v \in Visitors : visitor[v] # Idle => visitor[v].code # c

\* What the flush header promises: a flush moves every value it took to
\* SQLite or gives it back, unless the process or Redis fails.
FlushAllOrNothing ==
    faults = 0 => \A k \in Keys : lost[k] = 0

\* What the comment on daily rows promises: a link that took over a code
\* starts from zero, so it shows no click before one was made on it.
ReusedCodeStartsFromZero ==
    \A i \in Ids : clicks[i] > 0 => i \in visited

\* The pipeline seen from outside: a ledger of counts (ClickLedger).
Ledger == INSTANCE ClickLedger WITH
    Counters <- Keys,
    pending <- [k \in Keys |-> Pending(k)]
LedgerSpec == Ledger!Spec

\* Once visitors stop, every count leaves Redis and the flusher for good.
EventuallyFlushed == <>[](\A k \in Keys : Pending(k) = 0)
=============================================================================
