----------------------------- MODULE LinksPage -----------------------------
(***************************************************************************)
(* The links page: rows of a paged search, held by the query cache, a      *)
(* selection that outlives pages, and dialogs whose requests change the    *)
(* table behind the rows and then refetch them.                            *)
(***************************************************************************)
EXTENDS Naturals, Sequences, FiniteSets

CONSTANTS
    Codes,        \* short codes
    Searches,     \* what the search field and the filter can ask for
    AllLinks,     \* the search the page starts with
    Matching,     \* the codes that each search finds
    Expired,      \* the codes whose links have expired
    PageSize,     \* rows of a page
    MaxGestures,  \* bound: what the user does, from opening the page on
    MaxTroubles   \* bound: failed requests, and other writers' changes

ASSUME LinksAssumption ==
    /\ IsFiniteSet(Codes) /\ Codes # {}
    /\ AllLinks \in Searches
    /\ Matching \in [Searches -> SUBSET Codes]
    /\ Expired \in SUBSET Codes
    /\ PageSize \in Nat \ {0} /\ MaxGestures \in Nat /\ MaxTroubles \in Nat

VARIABLES
    table,        \* the server's links, newest first
    linksOpen,    \* the page is mounted
    key,          \* <<search, page>>
    results,      \* the query cache: for each key {} or {its last answer}
    fetches,      \* for each key the request under way and the answer it got
    shown,        \* data: {} or {the answer on screen}
    selected,     \* codes ticked
    dialog,       \* the dialogs that are open
    subject,      \* deleting or editing: {} or {the link's code}
    calls,        \* the mutations: one request of each kind
    gestures, troubles,
    seen,         \* history: codes on screen since the search last changed
    astray        \* history: rows may be old for a reason the page cannot know

queryVars == <<results, fetches, shown>>
uiVars == <<key, selected, dialog, subject>>
linkBounds == <<gestures, troubles>>
linksVars == <<table, linksOpen, queryVars, uiVars, calls, linkBounds, seen, astray>>

Pages == 1..Cardinality(Codes)
Keys == Searches \X Pages
Kinds == {"delete", "bulk", "count", "expired", "form", "import"}

NoFetch == [at |-> "idle", got |-> {}]
NoCall == [at |-> "idle", from |-> {}, to |-> {}, mine |-> FALSE]

Listings == [rows: UNION {[1..n -> Codes] : n \in 0..PageSize}, total: 0..Cardinality(Codes)]

LinksTypeOK ==
    /\ table \in UNION {[1..n -> Codes] : n \in 0..Cardinality(Codes)}
    /\ linksOpen \in BOOLEAN
    /\ key \in Keys
    /\ results \in [Keys -> SUBSET Listings]
    /\ fetches \in [Keys -> [at: {"idle", "sent", "answered"}, got: SUBSET Listings]]
    /\ shown \in SUBSET Listings /\ Cardinality(shown) <= 1
    /\ selected \in SUBSET Codes /\ seen \in SUBSET Codes
    /\ dialog \in SUBSET {"delete", "bulk", "expired", "form", "import", "batch"}
    /\ subject \in SUBSET Codes /\ Cardinality(subject) <= 1
    /\ calls \in [Kinds -> [at: {"idle", "sent", "ok", "error"},
                            from: SUBSET Codes, to: SUBSET Codes, mine: BOOLEAN]]
    /\ gestures \in 0..MaxGestures /\ troubles \in 0..MaxTroubles
    /\ astray \in BOOLEAN

Live == {table[i] : i \in DOMAIN table}
Rows(data) == UNION {{d.rows[i] : i \in DOMAIN d.rows} : d \in data}

\* The entries of a sequence at a set of positions, in their order.
InOrder(where) ==
    CHOOSE order \in [1..Cardinality(where) -> where] :
        \A m, n \in DOMAIN order : m < n => order[m] < order[n]
Entries(s, where) == [n \in 1..Cardinality(where) |-> s[InOrder(where)[n]]]

\* The page of a search, as the server lists it: newest first, with the total.
Listing(links, k) ==
    LET hits == Entries(links, {i \in DOMAIN links : links[i] \in Matching[k[1]]})
        first == (k[2] - 1) * PageSize
    IN  [rows |-> SubSeq(hits, first + 1,
                         IF first + PageSize < Len(hits) THEN first + PageSize ELSE Len(hits)),
         total |-> Len(hits)]

LinksInit ==
    /\ table \in {t \in UNION {[1..n -> Codes] : n \in 0..Cardinality(Codes)} :
                    \A i, j \in DOMAIN t : t[i] = t[j] => i = j}
    /\ linksOpen = FALSE /\ key = <<AllLinks, 1>>
    /\ results = [k \in Keys |-> {}] /\ fetches = [k \in Keys |-> NoFetch] /\ shown = {}
    /\ selected = {} /\ seen = {} /\ dialog = {} /\ subject = {}
    /\ calls = [k \in Kinds |-> NoCall]
    /\ gestures = 0 /\ troubles = 0 /\ astray = FALSE

-----------------------------------------------------------------------------
(* The query ['links', query, expires, page] of TanStack Query.            *)

\* An observer of key k that has something to ask joins the request under way.
Joined(k) == IF fetches[k].at = "idle"
             THEN [fetches EXCEPT ![k] = [NoFetch EXCEPT !.at = "sent"]] ELSE fetches

\* Showing key k: its cached answer, or the previous rows until there is one.
Show(k) ==
    /\ key' = k
    /\ fetches' = Joined(k)
    /\ shown' = IF results[k] # {} THEN results[k] ELSE shown

\* invalidateQueries(['links']): only the key on screen is fetched again, and its
\* request under way is given up only when the key was answered before. Another
\* request that the server has served already brings an answer of the past.
Outrun(k) == fetches[k].at = "answered" /\ ~(linksOpen /\ k = key /\ results[k] # {})

\* Mutant: a refetch joins the request under way.
InvalidateByJoining ==
    /\ fetches' = IF linksOpen THEN Joined(key) ELSE fetches
    /\ astray' = (astray \/ \E k \in Keys : Outrun(k))

Invalidate ==
    /\ fetches' = IF ~linksOpen THEN fetches
                  ELSE IF results[key] # {}
                       THEN [fetches EXCEPT ![key] = [NoFetch EXCEPT !.at = "sent"]]
                       ELSE Joined(key)
    /\ astray' = (astray \/ \E k \in Keys : Outrun(k))

ListServed(k) ==
    /\ fetches[k].at = "sent"
    /\ fetches' = [fetches EXCEPT ![k] = [at |-> "answered", got |-> {Listing(table, k)}]]
    /\ UNCHANGED <<table, linksOpen, results, shown, uiVars, calls, linkBounds, seen, astray>>

ListArrives(k) ==
    /\ fetches[k].at = "answered"
    /\ fetches' = [fetches EXCEPT ![k] = NoFetch]
    /\ results' = [results EXCEPT ![k] = fetches[k].got]
    /\ shown' = IF linksOpen /\ k = key THEN fetches[k].got ELSE shown
    /\ seen' = seen \cup Rows(shown')
    /\ UNCHANGED <<table, linksOpen, uiVars, calls, linkBounds, astray>>

\* The request and its one retry fail: a key without an answer shows the error.
ListFails(k) ==
    /\ fetches[k].at # "idle" /\ troubles < MaxTroubles
    /\ troubles' = troubles + 1
    /\ fetches' = [fetches EXCEPT ![k] = NoFetch]
    /\ shown' = IF linksOpen /\ k = key /\ results[k] = {} THEN {} ELSE shown
    /\ astray' = TRUE
    /\ UNCHANGED <<table, linksOpen, results, uiVars, calls, gestures, seen>>

-----------------------------------------------------------------------------
(* The page.                                                               *)

MountLinks ==
    /\ ~linksOpen
    /\ linksOpen' = TRUE
    /\ key' = <<AllLinks, 1>>
    /\ fetches' = Joined(key')
    /\ shown' = results[key']
    /\ seen' = Rows(shown')
    /\ UNCHANGED <<table, results, selected, dialog, subject, calls, troubles, astray>>

\* The page's state goes; the query cache and the requests stay.
UnmountLinks ==
    /\ linksOpen
    /\ linksOpen' = FALSE
    /\ key' = <<AllLinks, 1>> /\ shown' = {} /\ selected' = {} /\ seen' = {}
    /\ dialog' = {} /\ subject' = {}
    /\ calls' = [k \in Kinds |-> [calls[k] EXCEPT !.mine = FALSE]]
    /\ UNCHANGED <<table, results, fetches, troubles, astray>>

\* A dialog covers the page.
Uncovered == linksOpen /\ dialog = {}

\* Mutant: the selection is kept for the next search.
SetSearchOnly(s) ==
    /\ Uncovered /\ s # key[1]
    /\ Show(<<s, 1>>)
    /\ seen' = Rows(shown')
    /\ UNCHANGED <<table, linksOpen, results, selected, dialog, subject, calls, troubles, astray>>

SetSearch(s) ==
    /\ Uncovered /\ s # key[1]
    /\ Show(<<s, 1>>)
    /\ selected' = {}
    /\ seen' = Rows(shown')
    /\ UNCHANGED <<table, linksOpen, results, dialog, subject, calls, troubles, astray>>

\* The pager is part of a table that has rows, and more than a page of them.
TurnPage(p) ==
    /\ Uncovered /\ p \in Pages /\ p \in {key[2] - 1, key[2] + 1}
    /\ \E d \in shown : /\ d.rows # <<>> /\ d.total > PageSize
                        /\ p > key[2] => key[2] * PageSize < d.total
    /\ Show(<<key[1], p>>)
    /\ seen' = seen \cup Rows(shown')
    /\ UNCHANGED <<table, linksOpen, results, selected, dialog, subject, calls, troubles, astray>>

\* The button is never disabled, a fetch under way or not.
Refresh ==
    /\ Uncovered
    /\ Invalidate
    /\ UNCHANGED <<table, linksOpen, results, shown, uiVars, calls, troubles, seen>>

\* A row's checkbox.
Tick(c) ==
    /\ Uncovered /\ c \in Rows(shown)
    /\ selected' = IF c \in selected THEN selected \ {c} ELSE selected \cup {c}
    /\ UNCHANGED <<table, linksOpen, queryVars, key, dialog, subject, calls, troubles, seen,
                   astray>>

\* The checkbox of the table's head.
TogglePage ==
    /\ Uncovered /\ Rows(shown) # {}
    /\ selected' = IF Rows(shown) \subseteq selected THEN selected \ Rows(shown)
                                                     ELSE selected \cup Rows(shown)
    /\ UNCHANGED <<table, linksOpen, queryVars, key, dialog, subject, calls, troubles, seen,
                   astray>>

\* The dialogs of a row, of the selection, and of the toolbar.
Opened(d, on) ==
    /\ Uncovered
    /\ dialog' = {d} /\ subject' = on
    /\ UNCHANGED <<table, linksOpen, queryVars, key, selected, calls, troubles, seen, astray>>

OpenRow(d, c) == d \in {"delete", "form"} /\ c \in Rows(shown) /\ Opened(d, {c})
OpenBulk == selected # {} /\ Opened("bulk", {})
OpenEmpty(d) == d \in {"form", "import"} /\ Opened(d, {})

Cancel(d) ==
    /\ linksOpen /\ d \in dialog \ {"batch"}
    /\ dialog' = dialog \ {d}
    /\ subject' = IF d = "expired" THEN subject ELSE {}
    /\ UNCHANGED <<table, linksOpen, queryVars, key, selected, calls, troubles, seen, astray>>

-----------------------------------------------------------------------------
(* Requests. isPending, or busy, disables the button while one is under way. *)

Send(kind, from, to) ==
    /\ linksOpen /\ calls[kind].at = "idle"
    /\ calls' = [calls EXCEPT ![kind] = [at |-> "sent", from |-> from, to |-> to, mine |-> TRUE]]
    /\ UNCHANGED <<table, linksOpen, queryVars, uiVars, troubles, seen, astray>>

OnTop(d) == d \in dialog /\ (d = "expired" \/ "expired" \notin dialog)

ConfirmDelete == OnTop("delete") /\ Send("delete", subject, {})
ConfirmBulk == OnTop("bulk") /\ Send("bulk", selected, {})
ClearExpired == Uncovered /\ Send("count", {}, {})
ConfirmExpired == OnTop("expired") /\ Send("expired", {}, {})

\* LinkFormDialog: create a link, or give an existing one the code in the form.
SubmitForm(c) == OnTop("form") /\ Send("form", subject, {c})

\* ImportDialog: whatever links the text holds.
SubmitImport(cs) == OnTop("import") /\ cs # {} /\ Send("import", {}, cs)

\* What the server refuses: a link that is not there, a code that is taken.
Refused(kind) ==
    LET c == calls[kind]
    IN  \/ kind \in {"delete", "form"} /\ ~(c.from \subseteq Live)
        \/ kind = "form" /\ (c.to \ c.from) \cap Live # {}

Without(gone) == Entries(table, {i \in DOMAIN table : table[i] \notin gone})

\* New links come first, in any order.
Added(new) ==
    IF new = {} THEN {table}
    ELSE {s \o table : s \in {t \in [1..Cardinality(new) -> new] : {t[i] : i \in DOMAIN t} = new}}

\* Imported links come where the dates they bring along put them (batch.go).
Imported(new) ==
    {t \in [1..Cardinality(Live \cup new) -> Live \cup new] :
        /\ \A i, j \in DOMAIN t : t[i] = t[j] => i = j
        /\ Entries(t, {i \in DOMAIN t : t[i] \in Live}) = table}

\* The table after a request: links leave, are renamed in place, or are added.
After(kind) ==
    LET c == calls[kind] IN
    CASE kind \in {"delete", "bulk"} -> {Without(c.from)}
      [] kind = "expired" -> {Without(Expired)}
      [] kind = "count" -> {table}
      [] kind = "form" /\ c.from # {} ->
            {[i \in DOMAIN table |-> IF table[i] \in c.from THEN CHOOSE x \in c.to : TRUE
                                                            ELSE table[i]]}
      [] kind = "form" /\ c.from = {} -> Added(c.to \ Live)
      [] OTHER -> Imported(c.to \ Live)

\* The answer to a count is the expired links themselves.
CallServed(kind) ==
    /\ calls[kind].at = "sent"
    /\ IF Refused(kind)
         THEN calls' = [calls EXCEPT ![kind].at = "error"] /\ UNCHANGED table
         ELSE /\ table' \in After(kind)
              /\ calls' = [calls EXCEPT ![kind].at = "ok",
                                        ![kind].from = IF kind = "count" THEN Live \cap Expired
                                                                         ELSE @]
    /\ UNCHANGED <<linksOpen, queryVars, uiVars, linkBounds, seen, astray>>

\* The request fails before the server acts on it, or its answer is lost.
CallFails(kind) ==
    /\ troubles < MaxTroubles /\ troubles' = troubles + 1
    /\ calls[kind].at \in {"sent", "ok"}
    /\ calls' = [calls EXCEPT ![kind].at = "error"]
    /\ astray' = (astray \/ calls[kind].at = "ok")
    /\ UNCHANGED <<table, linksOpen, queryVars, uiVars, gestures, seen>>

\* Success refetches, and closes the dialog of that kind whatever it is open for
\* by now; a failure leaves everything as it is. The page may be gone.
Closed(kind) == IF kind = "count" THEN IF calls[kind].from = {} THEN dialog
                                                               ELSE dialog \cup {"expired"}
                                  ELSE dialog \ {kind}

CallSettles(kind) ==
    /\ calls[kind].at \in {"ok", "error"}
    /\ IF calls[kind].at = "ok" /\ kind # "count" THEN Invalidate ELSE UNCHANGED <<fetches, astray>>
    /\ IF calls[kind].at = "ok" /\ calls[kind].mine
         THEN /\ dialog' = Closed(kind)
              /\ subject' = IF kind \in {"delete", "form"} /\ kind \in dialog THEN {} ELSE subject
              /\ selected' = IF kind = "bulk" THEN {} ELSE selected
         ELSE UNCHANGED <<dialog, subject, selected>>
    /\ calls' = [calls EXCEPT ![kind] = NoCall]
    /\ UNCHANGED <<table, linksOpen, key, results, shown, linkBounds, seen>>

\* Another client, or the command line, creates or deletes a link.
OtherWriter ==
    /\ troubles < MaxTroubles /\ troubles' = troubles + 1
    /\ \E c \in Codes : table' = IF c \in Live THEN Without({c}) ELSE <<c>> \o table
    /\ astray' = TRUE
    /\ UNCHANGED <<linksOpen, queryVars, uiVars, calls, gestures, seen>>

-----------------------------------------------------------------------------
Gesture ==
    \/ MountLinks \/ UnmountLinks \/ Refresh \/ TogglePage
    \/ \E s \in Searches : SetSearch(s)
    \/ \E p \in Pages : TurnPage(p)
    \/ \E c \in Codes : Tick(c) \/ SubmitForm(c)
    \/ OpenBulk
    \/ \E d \in {"delete", "form", "import"} : OpenEmpty(d) \/ \E c \in Codes : OpenRow(d, c)
    \/ \E d \in dialog : Cancel(d)
    \/ ConfirmDelete \/ ConfirmBulk \/ ClearExpired \/ ConfirmExpired
    \/ \E cs \in SUBSET Codes : SubmitImport(cs)

LinksServer == \E kind \in Kinds : CallServed(kind) \/ CallSettles(kind)
LinksQuery == \E k \in Keys : ListServed(k) \/ ListArrives(k)
LinksTrouble ==
    \/ OtherWriter
    \/ \E k \in Keys : ListFails(k)
    \/ \E kind \in Kinds : CallFails(kind)

(***************************************************************************)
(* Properties                                                              *)
(***************************************************************************)
AtRest == fetches[key].at = "idle" /\ \A kind \in Kinds : calls[kind].at = "idle"

\* What is ticked, and so what a bulk deletion asks the server to delete, was on
\* screen since the search last changed, or since the page was opened: it is not what
\* an earlier search found and this one never showed. Rows of the earlier search that
\* stand in until the answer comes count as on screen, and can be ticked. Ticks last
\* while the user turns pages, and outlive the deletion or the renaming of their
\* links: only a bulk deletion takes them off.
SelectionWasSeen ==
    /\ selected \subseteq seen
    /\ "bulk" \in dialog => selected # {}
=============================================================================
