------------------------------ MODULE LogsPage ------------------------------
(***************************************************************************)
(* The logs page: the newest lines of the log file, older ones on demand,  *)
(* and a live stream that is opened again whenever it breaks. The web      *)
(* console leaves that to the browser's EventSource; the app, which must   *)
(* send a token, does it itself. The server hands each line to the         *)
(* subscribers before it writes it, and drops it for one that lags behind; *)
(* several lines may be between the two at a time.                         *)
(***************************************************************************)
EXTENDS Naturals, Sequences, FiniteSets

CONSTANTS
    Limit,        \* lines of a page of history
    Buffer,       \* lines that a subscriber may lag behind
    MaxLines,     \* bound: lines the server logs
    Writers,      \* bound: lines that are being written at a time
    Slots,        \* bound: requests for older lines at a time
    MaxOutages,   \* bound: broken connections, refusals and failed requests
    MaxVisits     \* bound: times the page is opened, or more lines asked for

ASSUME LogsAssumption ==
    /\ Limit \in Nat \ {0} /\ Buffer \in Nat /\ MaxLines \in Nat /\ Writers \in Nat
    /\ MaxOutages \in Nat /\ MaxVisits \in Nat
    /\ Slots \subseteq Nat

VARIABLES
    app,          \* token mode: the fetch loop; otherwise the EventSource
    logged,       \* lines logged, numbered as they were handed to the subscribers
    file,         \* the log file: those of them that are written
    logsOpen,     \* the page is mounted
    records,      \* the lines on the page, oldest first
    historyOffset, hasMore, historyLoading,
    history,      \* the request for the newest lines: [at, lines]
    more,         \* the requests for older lines: [at, offset, lines] in each slot
    stream,       \* the connection: "none", "connecting", "open", "waiting" or "closed"
    subscribed,   \* the server hands lines to it
    pipe,         \* lines for it that the page has not read
    streamDown,   \* the badge says reconnecting
    outages, visits,
    gap           \* history: a line may be missing for a known reason

logsVars == <<app, logged, file, logsOpen, records, historyOffset, hasMore, historyLoading,
              history, more, stream, subscribed, pipe, streamDown, outages, visits, gap>>
log == <<logged, file>>
connection == <<stream, subscribed, pipe, streamDown>>
scrollback == <<records, historyOffset, hasMore, historyLoading, history, more>>

NoRequest == [at |-> "idle", offset |-> 0, lines |-> <<>>]
Requests == [at: {"idle", "sent", "answered"}, offset: Nat, lines: Seq(1..MaxLines)]

LogsTypeOK ==
    /\ app \in BOOLEAN /\ logsOpen \in BOOLEAN
    /\ logged \in 0..MaxLines /\ file \in Seq(1..MaxLines)
    /\ records \in Seq(1..MaxLines) /\ historyOffset \in Nat
    /\ hasMore \in BOOLEAN /\ historyLoading \in BOOLEAN
    /\ history \in Requests /\ more \in [Slots -> Requests]
    /\ stream \in {"none", "connecting", "open", "waiting", "closed"}
    /\ subscribed \in BOOLEAN /\ pipe \in Seq(1..MaxLines)
    /\ streamDown \in BOOLEAN /\ gap \in BOOLEAN
    /\ outages \in 0..MaxOutages /\ visits \in 0..MaxVisits

LogsInit ==
    /\ app \in BOOLEAN
    /\ logged = 0 /\ file = <<>> /\ logsOpen = FALSE
    /\ records = <<>> /\ historyOffset = 0 /\ hasMore = FALSE /\ historyLoading = FALSE
    /\ history = NoRequest /\ more = [s \in Slots |-> NoRequest]
    /\ stream = "none" /\ subscribed = FALSE /\ pipe = <<>> /\ streamDown = FALSE
    /\ outages = 0 /\ visits = 0 /\ gap = FALSE

Lines(s) == {s[i] : i \in DOMAIN s}

\* A page of the log file, oldest first: the offset counts from the newest line.
Chunk(offset) ==
    LET last == IF Len(file) > offset THEN Len(file) - offset ELSE 0
        first == IF last > Limit THEN last - Limit ELSE 0
    IN  SubSeq(file, first + 1, last)

-----------------------------------------------------------------------------
\* Opening the page asks for the newest lines and connects, both at once.
MountLogs ==
    /\ ~logsOpen /\ visits < MaxVisits
    /\ logsOpen' = TRUE /\ visits' = visits + 1
    /\ historyLoading' = TRUE
    /\ history' = [NoRequest EXCEPT !.at = "sent"]
    /\ stream' = "connecting"
    /\ UNCHANGED <<app, log, records, historyOffset, hasMore, more, subscribed, pipe, streamDown,
                   outages, gap>>

\* Leaving closes the stream, its timer included, and deafens the requests.
UnmountLogs ==
    /\ logsOpen
    /\ logsOpen' = FALSE
    /\ records' = <<>> /\ historyOffset' = 0 /\ hasMore' = FALSE /\ historyLoading' = FALSE
    /\ history' = NoRequest /\ more' = [s \in Slots |-> NoRequest]
    /\ stream' = "none" /\ subscribed' = FALSE /\ pipe' = <<>> /\ streamDown' = FALSE
    /\ gap' = FALSE
    /\ UNCHANGED <<app, log, outages, visits>>

\* The stream may still have a line to bring that is older than all of the answer, with
\* lines between the two that neither has.
HistoryServed ==
    /\ history.at = "sent"
    /\ history' = [history EXCEPT !.at = "answered", !.lines = Chunk(0)]
    /\ gap' = (gap \/ \E i \in 1..(Len(file) - Len(Chunk(0))) : file[i] \in Lines(pipe))
    /\ UNCHANGED <<app, log, logsOpen, records, historyOffset, hasMore, historyLoading,
                   more, connection, outages, visits>>

\* The lines that were written after those of an answer.
WrittenAfter(lines) ==
    {file[j] : j \in {k \in DOMAIN file :
                        \A i \in DOMAIN file : file[i] \in Lines(lines) => i < k}}

\* Mutant: the offset is the index of the last line.
HistoryArrivesShort ==
    /\ history.at = "answered"
    /\ records' = history.lines
    /\ historyOffset' = Len(history.lines) - 1
    /\ hasMore' = (Len(history.lines) = Limit)
    /\ historyLoading' = FALSE
    /\ history' = NoRequest
    /\ gap' = (gap \/ Lines(records) \cap WrittenAfter(history.lines) # {})
    /\ UNCHANGED <<app, log, logsOpen, more, connection, outages, visits>>

\* The answer replaces what is on the page, newer lines that the stream brought included.
HistoryArrives ==
    /\ history.at = "answered"
    /\ records' = history.lines
    /\ historyOffset' = Len(history.lines)
    /\ hasMore' = (Len(history.lines) = Limit)
    /\ historyLoading' = FALSE
    /\ history' = NoRequest
    /\ gap' = (gap \/ Lines(records) \cap WrittenAfter(history.lines) # {})
    /\ UNCHANGED <<app, log, logsOpen, more, connection, outages, visits>>

HistoryFails ==
    /\ history.at # "idle" /\ outages < MaxOutages /\ outages' = outages + 1
    /\ history' = NoRequest /\ historyLoading' = FALSE
    /\ gap' = TRUE
    /\ UNCHANGED <<app, log, logsOpen, records, historyOffset, hasMore, more, connection,
                   visits>>

-----------------------------------------------------------------------------
(* loadMore: the button is there while hasMore, and nothing disables it.   *)

LoadMore(s) ==
    /\ logsOpen /\ hasMore /\ more[s].at = "idle" /\ visits < MaxVisits
    /\ \A r \in Slots : more[r].at = "idle" => s <= r        \* the slots are only names
    /\ visits' = visits + 1
    /\ more' = [more EXCEPT ![s] = [at |-> "sent", offset |-> historyOffset, lines |-> <<>>]]
    \* Two requests for the same lines move the offset twice.
    /\ gap' = (gap \/ \E r \in Slots \ {s} : more[r].at # "idle")
    /\ UNCHANGED <<app, log, logsOpen, records, historyOffset, hasMore, historyLoading,
                   history, connection, outages>>

MoreServed(s) ==
    /\ more[s].at = "sent"
    /\ more' = [more EXCEPT ![s].at = "answered", ![s].lines = Chunk(more[s].offset)]
    /\ UNCHANGED <<app, log, logsOpen, records, historyOffset, hasMore, historyLoading,
                   history, connection, outages, visits, gap>>

MoreArrives(s) ==
    /\ more[s].at = "answered"
    /\ records' = more[s].lines \o records
    /\ historyOffset' = historyOffset + Len(more[s].lines)
    /\ hasMore' = (Len(more[s].lines) = Limit)
    /\ more' = [more EXCEPT ![s] = NoRequest]
    /\ UNCHANGED <<app, log, logsOpen, historyLoading, history, connection, outages, visits,
                   gap>>

\* Mutant: the offset moves on whatever the answer was.
MoreFailsAhead(s) ==
    /\ more[s].at # "idle" /\ outages < MaxOutages /\ outages' = outages + 1
    /\ more' = [more EXCEPT ![s] = NoRequest]
    /\ historyOffset' = historyOffset + Limit
    /\ UNCHANGED <<app, log, logsOpen, records, hasMore, historyLoading, history, connection,
                   visits, gap>>

MoreFails(s) ==
    /\ more[s].at # "idle" /\ outages < MaxOutages /\ outages' = outages + 1
    /\ more' = [more EXCEPT ![s] = NoRequest]
    /\ UNCHANGED <<app, log, logsOpen, records, historyOffset, hasMore, historyLoading,
                   history, connection, visits, gap>>

-----------------------------------------------------------------------------
(* logStream, and the handlers of the stream and of the log.               *)

\* Mutant: there is no onOpen.
StreamOpensUnseen ==
    /\ stream = "connecting"
    /\ stream' = "open"
    /\ UNCHANGED <<app, log, logsOpen, scrollback, subscribed, pipe, streamDown, outages, visits,
                   gap>>

\* onOpen. The headers are on their way before the server subscribes.
StreamOpens ==
    /\ stream = "connecting"
    /\ stream' = "open" /\ streamDown' = FALSE
    /\ UNCHANGED <<app, log, logsOpen, scrollback, subscribed, pipe, outages, visits, gap>>

\* logStream on the server, once the headers are flushed.
Subscribe ==
    /\ stream \in {"connecting", "open"} /\ ~subscribed
    /\ subscribed' = TRUE
    /\ UNCHANGED <<app, log, logsOpen, scrollback, stream, pipe, streamDown, outages, visits, gap>>

\* The lines under way that the page would have had from the stream only.
LostWithStream ==
    {l \in Lines(pipe) \cap Lines(file) : l \notin Lines(records) \cup Lines(history.lines)}

\* Mutant: only a stream that was open is opened again.
StreamFailsForGood ==
    /\ stream \in {"connecting", "open"} /\ outages < MaxOutages /\ outages' = outages + 1
    /\ streamDown' = TRUE
    /\ stream' = IF stream = "open" THEN "waiting" ELSE "closed"
    /\ subscribed' = FALSE /\ pipe' = <<>>
    /\ gap' = (gap \/ (history.at # "sent" /\ LostWithStream # {}))
    /\ UNCHANGED <<app, log, logsOpen, scrollback, visits>>

\* The connection is refused, breaks, or ends. The app's loop sets its one timer;
\* the EventSource waits too, but gives up on an answer that is not a success.
StreamFails ==
    /\ stream \in {"connecting", "open"} /\ outages < MaxOutages /\ outages' = outages + 1
    /\ streamDown' = TRUE
    /\ \/ stream' = "waiting"
       \/ ~app /\ stream = "connecting" /\ ~subscribed /\ stream' = "closed"
    /\ subscribed' = FALSE /\ pipe' = <<>>
    /\ gap' = (gap \/ (history.at # "sent" /\ LostWithStream # {}))
    /\ UNCHANGED <<app, log, logsOpen, scrollback, visits>>

\* The timer of scheduleRetry, or the browser's.
StreamRetries ==
    /\ stream = "waiting"
    /\ stream' = "connecting"
    /\ UNCHANGED <<app, log, logsOpen, scrollback, subscribed, pipe, streamDown, outages, visits,
                   gap>>

\* onLog.
LineArrives ==
    /\ stream = "open" /\ pipe # <<>>
    /\ records' = Append(records, Head(pipe))
    /\ pipe' = Tail(pipe)
    /\ UNCHANGED <<app, log, logsOpen, historyOffset, hasMore, historyLoading, history, more,
                   stream, subscribed, streamDown, outages, visits, gap>>

\* broadcast: a line is logged, and dropped for a subscriber whose channel is full. Some
\* of the lines that the page has not read may have left the channel.
LineBroadcast ==
    /\ logged < MaxLines /\ logged - Len(file) < Writers
    /\ logged' = logged + 1
    /\ \/ subscribed /\ pipe' = Append(pipe, logged + 1)
       \/ (subscribed => Len(pipe) >= Buffer) /\ UNCHANGED pipe
    /\ UNCHANGED <<app, file, logsOpen, scrollback, stream, subscribed, streamDown, outages,
                   visits, gap>>

\* The line is written after that, before or after others that were. One that the page
\* has not and the stream does not bring reaches it by the history, or in no way.
LineWritten(l) ==
    /\ l \in (1..logged) \ Lines(file)
    /\ file' = Append(file, l)
    /\ gap' = (gap \/ (/\ logsOpen /\ history.at # "sent"
                       /\ l \notin Lines(records) \cup Lines(pipe)))
    /\ UNCHANGED <<app, logged, logsOpen, scrollback, connection, outages, visits>>

-----------------------------------------------------------------------------
LogsUser == MountLogs \/ UnmountLogs \/ \E s \in Slots : LoadMore(s)

LogsRuns ==
    \/ StreamOpens \/ Subscribe \/ StreamRetries \/ LineArrives
    \/ LineBroadcast \/ \E l \in 1..MaxLines : LineWritten(l)
    \/ HistoryServed \/ HistoryArrives
    \/ \E s \in Slots : MoreServed(s) \/ MoreArrives(s)

LogsTrouble == StreamFails \/ HistoryFails \/ \E s \in Slots : MoreFails(s)

\* The server accepts and answers, timers fire, and the browser reports it all.
LogsFairness == WF_logsVars(StreamOpens \/ StreamRetries)

LogsSpec == LogsInit /\ [][LogsUser \/ LogsRuns \/ LogsTrouble]_logsVars /\ LogsFairness

(***************************************************************************)
(* Properties                                                              *)
(***************************************************************************)
\* The badge does not stick: it says live on an open stream, however often that
\* was lost, and reconnecting while there is none.
BadgeTellsStream ==
    /\ stream = "open" => ~streamDown
    /\ stream \in {"waiting", "closed"} => streamDown

\* From the first line of the file that the page has, it has all that follow, or the
\* stream has them under way, although history and stream overlap, lines are written in
\* another order than they are streamed, and the offset of older lines counts from a
\* newest line that moves. Lines can be missing only for the reasons that set gap: the
\* stream did not have them and the history had been read (they were logged before the
\* subscription, or dropped for a full channel); they were under way when the connection
\* was lost; an answer replaced them; the history failed; it began after a line that the
\* stream was still to bring; and two requests for older lines at once.
NoLineMissing ==
    logsOpen /\ history.at = "idle" /\ ~gap =>
        \A i, j \in DOMAIN file :
            i <= j /\ file[i] \in Lines(records) => file[j] \in Lines(records) \cup Lines(pipe)

\* The app reconnects for ever: an open page always gets its stream back.
StreamComesBack == app /\ logsOpen ~> stream = "open" \/ ~logsOpen
=============================================================================
