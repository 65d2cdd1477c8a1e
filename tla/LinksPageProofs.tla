--------------------------- MODULE LinksPageProofs ---------------------------
(***************************************************************************)
(* What holds of the links page for any links, searches and bounds: what   *)
(* is ticked was seen, the rows are those of the server once nothing is    *)
(* under way, the lines listed as failed are those refused, and no code is *)
(* in the table twice.                                                     *)
(***************************************************************************)
EXTENDS BatchDialog, Sums

LinksPageNext == LinksPageUser \/ LinksPageStep

-----------------------------------------------------------------------------
(* The selection.                                                          *)

\* The selection outlives the rows it was made from, but not the search, so the codes
\* seen since then are what it is measured with. A page that is gone has none.
Measured ==
    SelectionWasSeen /\ Rows(shown) \subseteq seen /\ (~linksOpen => selected = {})

LEMMA NoRows == Rows({}) = {}
BY DEF Rows

LEMMA GestureKeepsSelection == Measured /\ Gesture => Measured'
<1> SUFFICES ASSUME Measured, Gesture PROVE Measured'
  OBVIOUS
<1> USE DEF Measured, SelectionWasSeen, Uncovered
<1>1. CASE MountLinks
  <2>1. selected = {} /\ selected' = selected /\ dialog' = dialog
    <3>1. ~linksOpen /\ UNCHANGED <<selected, dialog>>
      BY <1>1 DEF MountLinks
    <3> QED
      BY <3>1
  <2>2. seen' = Rows(shown')
    BY <1>1 DEF MountLinks
  <2> QED
    BY <2>1, <2>2
<1>2. CASE UnmountLinks
  BY <1>2, NoRows DEF UnmountLinks, Rows
<1>3. CASE Refresh
  BY <1>3 DEF Refresh, uiVars, Rows
<1>4. CASE TogglePage
  BY <1>4 DEF TogglePage, queryVars, Rows
<1>5. ASSUME NEW s \in Searches, SetSearch(s) PROVE Measured'
  BY <1>5 DEF SetSearch, Rows
<1>6. ASSUME NEW p \in Pages, TurnPage(p) PROVE Measured'
  BY <1>6 DEF TurnPage, Rows
<1>7. ASSUME NEW c \in Codes, Tick(c) PROVE Measured'
  BY <1>7 DEF Tick, queryVars, Rows
<1>8. ASSUME NEW d, NEW on, Opened(d, on), d = "bulk" => selected # {} PROVE Measured'
  BY <1>8 DEF Opened, queryVars, Rows
<1>9. ASSUME NEW d \in dialog, Cancel(d) PROVE Measured'
  BY <1>9 DEF Cancel, queryVars, Rows
<1>10. ASSUME NEW kind, NEW from, NEW to, Send(kind, from, to) PROVE Measured'
  BY <1>10 DEF Send, queryVars, uiVars, Rows
<1>11. CASE OpenBulk
  BY <1>8, <1>11 DEF OpenBulk
<1>12. ASSUME NEW d \in {"delete", "form", "import"},
              OpenEmpty(d) \/ \E c \in Codes : OpenRow(d, c)
       PROVE  Measured'
  BY <1>8, <1>12 DEF OpenEmpty, OpenRow
<1>13. CASE ConfirmDelete \/ ConfirmBulk \/ ClearExpired \/ ConfirmExpired
  BY <1>10, <1>13 DEF ConfirmDelete, ConfirmBulk, ClearExpired, ConfirmExpired
<1>14. CASE (\E c \in Codes : SubmitForm(c)) \/ \E cs \in SUBSET Codes : SubmitImport(cs)
  BY <1>10, <1>14 DEF SubmitForm, SubmitImport
<1> QED
  BY <1>1, <1>2, <1>3, <1>4, <1>5, <1>6, <1>7, <1>9, <1>11, <1>12, <1>13, <1>14 DEF Gesture

LEMMA BatchGestureKeepsSelection == Measured /\ BatchGesture => Measured'
<1> SUFFICES ASSUME Measured, BatchGesture PROVE Measured'
  OBVIOUS
<1> USE DEF Measured, SelectionWasSeen
<1>1. CASE OpenBatch
  BY <1>1 DEF OpenBatch, queryVars, Rows
<1>2. CASE CloseBatch
  BY <1>2 DEF CloseBatch, queryVars, Rows
<1>3. CASE UNCHANGED linksFrame
  BY <1>3 DEF linksFrame, queryVars, uiVars, Rows
<1> QED
  BY <1>1, <1>2, <1>3 DEF BatchGesture, Blur, Create, Retry, EditText

LEMMA AnswersKeepSelection ==
    ASSUME Measured, LinksServer \/ LinksQuery \/ LinksTrouble PROVE Measured'
<1> USE DEF Measured, SelectionWasSeen
<1>1. ASSUME NEW kind \in Kinds, CallServed(kind) \/ CallFails(kind) PROVE Measured'
  BY <1>1 DEF CallServed, CallFails, queryVars, uiVars, Rows
<1>2. ASSUME NEW kind \in Kinds, CallSettles(kind) PROVE Measured'
  <2>1. shown' = shown /\ seen' = seen /\ linksOpen' = linksOpen
    BY <1>2 DEF CallSettles
  <2>2. selected' \subseteq selected
    BY <1>2 DEF CallSettles
  <2>3. "bulk" \in dialog' => "bulk" \in dialog /\ selected' = selected
    BY <1>2 DEF CallSettles, Closed, Kinds
  <2> QED
    BY <2>1, <2>2, <2>3 DEF Rows
<1>3. ASSUME NEW k \in Keys, ListServed(k) PROVE Measured'
  BY <1>3 DEF ListServed, uiVars, Rows
<1>4. ASSUME NEW k \in Keys, ListArrives(k) PROVE Measured'
  BY <1>4 DEF ListArrives, uiVars, Rows
<1>5. ASSUME NEW k \in Keys, ListFails(k) PROVE Measured'
  <2>1. shown' = shown \/ shown' = {}
    BY <1>5 DEF ListFails
  <2>2. UNCHANGED <<linksOpen, selected, dialog, seen>>
    BY <1>5 DEF ListFails, uiVars
  <2> QED
    BY <2>1, <2>2, NoRows DEF Rows
<1>6. CASE OtherWriter
  BY <1>6 DEF OtherWriter, queryVars, uiVars, Rows
<1> QED
  BY <1>1, <1>2, <1>3, <1>4, <1>5, <1>6 DEF LinksServer, LinksQuery, LinksTrouble

LEMMA BatchAnswersKeepSelection ==
    ASSUME Measured, BatchServed \/ BatchSettles \/ BatchFails PROVE Measured'
BY DEF Measured, SelectionWasSeen, BatchServed, BatchSettles, BatchFails, queryVars, uiVars, Rows

\* What is ticked on the links page, and so what a bulk deletion sends, was on screen since
\* the search last changed, in a row of this search or in one of the last that stood in for
\* it (Links.tsx): for any links, searches and page size.
THEOREM TickedWasSeen == LinksPageSpec => []SelectionWasSeen
<1>1. LinksPageInit => Measured
  BY NoRows DEF LinksPageInit, LinksInit, Measured, SelectionWasSeen, Rows
<1>2. Measured /\ [LinksPageNext]_LinksPageVars => Measured'
  <2>1. Measured /\ LinksPageUser => Measured'
    BY GestureKeepsSelection, BatchGestureKeepsSelection DEF LinksPageUser
  <2>2. Measured /\ LinksPageStep => Measured'
    BY AnswersKeepSelection, BatchAnswersKeepSelection DEF LinksPageStep
  <2>3. Measured /\ UNCHANGED LinksPageVars => Measured'
    BY DEF Measured, SelectionWasSeen, LinksPageVars, linksVars, queryVars, uiVars, Rows
  <2> QED
    BY <2>1, <2>2, <2>3 DEF LinksPageNext
<1>3. Measured => SelectionWasSeen
  BY DEF Measured
<1> QED
  BY <1>1, <1>2, <1>3, PTL DEF LinksPageSpec, LinksPageNext

-----------------------------------------------------------------------------
(* The rows.                                                               *)

\* The requests are records for each key and kind.
IsRecord(r, fields) == r = [f \in fields |-> r[f]]
Recorded ==
    /\ key \in Keys
    /\ fetches = [k \in Keys |-> fetches[k]]
    /\ calls = [kind \in Kinds |-> calls[kind]]
    /\ \A kind \in Kinds : IsRecord(calls[kind], {"at", "from", "to", "mine"})
    /\ IsRecord(batch, {"at", "lines", "items", "made", "mine"})

\* An edit is done and the page has not been told yet.
Untold ==
    \/ \E kind \in Kinds \ {"count"} : calls[kind].at = "ok"
    \/ batch.at = "ok" /\ batch.made # {}

\* With every edit told, an answer on its way is of the present, and a page that waits
\* for none shows it.
Answers == \A k \in Keys : fetches[k].at = "answered" => fetches[k].got = {Listing(table, k)}
Displays == linksOpen /\ fetches[key].at = "idle" => shown = {Listing(table, key)}
Current == Recorded /\ (astray \/ Untold \/ (Answers /\ Displays))

LEMMA FirstPage == 1 \in Pages
<1>1. Cardinality(Codes) \in Nat /\ Cardinality(Codes) # 0
  BY LinksAssumption, FS_CardinalityType, FS_EmptySet
<1> QED
  BY <1>1 DEF Pages

\* Whatever neither edits nor fetches.
LEMMA ResidingKeeps ==
    ASSUME Current,
           UNCHANGED <<table, linksOpen, key, fetches, shown>>, astray => astray',
           calls' = [kind \in Kinds |-> calls'[kind]],
           \A kind \in Kinds : IsRecord(calls'[kind], {"at", "from", "to", "mine"}),
           IsRecord(batch', {"at", "lines", "items", "made", "mine"}),
           Untold => Untold'
    PROVE  Current'
<1>1. Recorded'
  BY DEF Current, Recorded
<1>2. Answers /\ Displays => Answers' /\ Displays'
  BY DEF Answers, Displays
<1> QED
  BY <1>1, <1>2 DEF Current

\* A query begins to ask for a key.
LEMMA ShowKeeps ==
    ASSUME Current, NEW k \in Keys, key' = k, fetches' = Joined(k),
           UNCHANGED <<table, astray, calls, batch>>
    PROVE  Current'
<1>1. \A j \in Keys : fetches'[j].at # "idle" =>
         fetches'[j] = fetches[j] \/ fetches'[j].at = "sent"
  BY DEF Joined, Current, Recorded, NoFetch
<1>2. fetches'[k].at # "idle" /\ fetches' = [j \in Keys |-> fetches'[j]]
  BY DEF Joined, Current, Recorded, NoFetch
<1>3. Recorded'
  BY <1>2 DEF Current, Recorded
<1>5. Answers => Answers'
  BY <1>1 DEF Answers
<1>6. Displays'
  BY <1>2 DEF Displays
<1>7. Untold => Untold'
  BY DEF Untold
<1>8. astray => astray'
  BY Zenon
<1> QED
  BY <1>3, <1>5, <1>6, <1>7, <1>8 DEF Current

\* A refetch leaves no answer of the past on its way.
LEMMA InvalidateRefreshes ==
    ASSUME Recorded, Invalidate, UNCHANGED <<linksOpen, key>>
    PROVE  /\ astray => astray'
           /\ fetches' = [k \in Keys |-> fetches'[k]]
           /\ ~astray' => (\A k \in Keys : fetches'[k].at # "answered")
           /\ linksOpen => fetches'[key].at # "idle"
<1>1. (astray => astray') /\ ((\E k \in Keys : Outrun(k)) => astray')
  BY Zenon DEF Invalidate
<1>2. fetches' = IF ~linksOpen THEN fetches
                 ELSE IF results[key] # {}
                      THEN [fetches EXCEPT ![key] = [NoFetch EXCEPT !.at = "sent"]]
                      ELSE Joined(key)
  BY DEF Invalidate
<1>3. fetches' = [k \in Keys |-> fetches'[k]]
  BY <1>2 DEF Recorded, Joined
<1>4. ASSUME NEW k \in Keys, ~Outrun(k) PROVE fetches'[k].at # "answered"
  BY <1>2, <1>4 DEF Recorded, Outrun, Joined, NoFetch
<1>5. linksOpen => fetches'[key].at # "idle"
  BY <1>2 DEF Recorded, Joined, NoFetch
<1> QED
  BY <1>1, <1>3, <1>4, <1>5

LEMMA InvalidatingKeeps ==
    ASSUME Recorded, Invalidate, UNCHANGED <<linksOpen, key>>,
           calls' = [kind \in Kinds |-> calls'[kind]],
           \A kind \in Kinds : IsRecord(calls'[kind], {"at", "from", "to", "mine"}),
           IsRecord(batch', {"at", "lines", "items", "made", "mine"})
    PROVE  Current'
<1>1. Recorded'
  BY InvalidateRefreshes DEF Recorded
<1>2. CASE astray'
  BY <1>1, <1>2 DEF Current
<1>3. CASE ~astray'
  <2>1. Answers'
    BY <1>3, InvalidateRefreshes DEF Answers
  <2>2. Displays'
    BY InvalidateRefreshes DEF Displays, Recorded
  <2> QED
    BY <1>1, <2>1, <2>2 DEF Current
<1> QED
  BY <1>2, <1>3

\* A step that leads astray is excepted.
LEMMA StrayingKeeps ==
    ASSUME Recorded', astray' = TRUE PROVE Current'
BY DEF Current

\* The batch submission stays as it is, but for its owner.
BatchStays ==
    /\ IsRecord(batch', {"at", "lines", "items", "made", "mine"})
    /\ batch'.at = batch.at /\ batch'.made = batch.made

LEMMA GestureKeepsRows ==
    ASSUME Current, Gesture, BatchStays, batch' = batch \/ (linksOpen /\ ~linksOpen')
    PROVE  Current'
<1>0. Recorded /\ <<AllLinks, 1>> \in Keys /\ \A s \in Searches : <<s, 1>> \in Keys
  BY FirstPage, LinksAssumption DEF Current, Keys
<1>1. ASSUME UNCHANGED <<table, linksOpen, key, fetches, shown, calls, astray>>
      PROVE  Current'
  <2>1. Untold => Untold'
    BY <1>1 DEF Untold, BatchStays
  <2>2. astray => astray'
    BY <1>1, Zenon
  <2> QED
    BY <1>0, <1>1, <2>1, <2>2, ResidingKeeps DEF Recorded, BatchStays
<1>2. CASE MountLinks
  <2>1. batch' = batch
    BY <1>2 DEF MountLinks
  <2>2. /\ key' = <<AllLinks, 1>> /\ fetches' = Joined(<<AllLinks, 1>>)
        /\ UNCHANGED <<table, astray, calls, batch>>
    BY <1>2, <2>1 DEF MountLinks
  <2> QED
    BY <1>0, <2>2, ShowKeeps
<1>3. CASE UnmountLinks
  <2>1. key' \in Keys /\ fetches' = fetches /\ table' = table /\ ~linksOpen'
    BY <1>0, <1>3 DEF UnmountLinks
  <2>2. calls' = [kind \in Kinds |-> [calls[kind] EXCEPT !.mine = FALSE]]
    BY <1>3 DEF UnmountLinks
  <2>3. ASSUME NEW kind \in Kinds
        PROVE  /\ IsRecord(calls'[kind], {"at", "from", "to", "mine"})
               /\ calls'[kind].at = calls[kind].at
    BY <1>0, <2>2 DEF Recorded, IsRecord
  <2>4. Recorded'
    BY <1>0, <2>1, <2>2, <2>3 DEF Recorded, BatchStays
  <2>5. Untold => Untold'
    BY <2>3 DEF Untold, BatchStays
  <2>6. Displays' /\ (Answers => Answers')
    BY <2>1 DEF Displays, Answers
  <2>7. astray' = astray
    BY <1>3 DEF UnmountLinks
  <2> QED
    BY <2>4, <2>5, <2>6, <2>7, Zenon DEF Current
<1>4. CASE Refresh
  BY <1>0, <1>4, InvalidatingKeeps DEF Refresh, uiVars, Recorded, BatchStays
<1>5. CASE TogglePage \/ OpenBulk \/ \E c \in Codes : Tick(c)
  BY <1>1, <1>5 DEF TogglePage, OpenBulk, Opened, Tick, queryVars
<1>6. ASSUME NEW s \in Searches, SetSearch(s) PROVE Current'
  <2>1. batch' = batch
    BY <1>6 DEF SetSearch
  <2>2. /\ key' = <<s, 1>> /\ fetches' = Joined(<<s, 1>>)
        /\ UNCHANGED <<table, astray, calls, batch>>
    BY <1>6, <2>1 DEF SetSearch, Show
  <2> QED
    BY <1>0, <2>2, ShowKeeps
<1>7. ASSUME NEW p \in Pages, TurnPage(p) PROVE Current'
  <2>1. batch' = batch
    BY <1>7 DEF TurnPage
  <2>2. /\ key' = <<key[1], p>> /\ fetches' = Joined(<<key[1], p>>)
        /\ UNCHANGED <<table, astray, calls, batch>>
    BY <1>7, <2>1 DEF TurnPage, Show
  <2>3. <<key[1], p>> \in Keys
    BY <1>0 DEF Recorded, Keys
  <2> QED
    BY <2>2, <2>3, ShowKeeps
<1>8. ASSUME NEW d, OpenEmpty(d) \/ (\E c \in Codes : OpenRow(d, c)) \/ Cancel(d) PROVE Current'
  BY <1>1, <1>8 DEF OpenEmpty, OpenRow, Opened, Cancel, queryVars
<1>9. ASSUME NEW kind \in Kinds, NEW from, NEW to, Send(kind, from, to) PROVE Current'
  <2> DEFINE call == [at |-> "sent", from |-> from, to |-> to, mine |-> TRUE]
  <2>1. /\ calls' = [calls EXCEPT ![kind] = call] /\ calls[kind].at = "idle"
        /\ UNCHANGED <<table, linksOpen, key, fetches, shown>>
    BY <1>9 DEF Send, queryVars, uiVars
  <2>2. astray' = astray
    BY <1>9 DEF Send
  <2>3. \A k \in Kinds : calls'[k] = IF k = kind THEN call ELSE calls[k]
    BY <1>0, <2>1 DEF Recorded
  <2>4. /\ calls' = [k \in Kinds |-> calls'[k]]
        /\ \A k \in Kinds : IsRecord(calls'[k], {"at", "from", "to", "mine"})
    BY <1>0, <2>1, <2>3 DEF Recorded, IsRecord
  <2>5. Untold => Untold'
    BY <2>1, <2>3 DEF Untold, BatchStays
  <2>6. astray => astray'
    BY <2>2, Zenon
  <2> QED
    BY <2>1, <2>4, <2>5, <2>6, ResidingKeeps DEF BatchStays
<1>10. CASE \/ ConfirmDelete \/ ConfirmBulk \/ ClearExpired \/ ConfirmExpired
            \/ (\E c \in Codes : SubmitForm(c)) \/ \E cs \in SUBSET Codes : SubmitImport(cs)
  BY <1>9, <1>10 DEF ConfirmDelete, ConfirmBulk, ClearExpired, ConfirmExpired, SubmitForm,
     SubmitImport, Kinds
<1> QED
  BY <1>2, <1>3, <1>4, <1>5, <1>6, <1>7, <1>8, <1>10 DEF Gesture

LEMMA QueriesKeepRows ==
    ASSUME Current, NEW k \in Keys, ListServed(k) \/ ListArrives(k) \/ ListFails(k),
           UNCHANGED batch
    PROVE  Current'
<1>0. Recorded /\ UNCHANGED <<table, linksOpen, key, calls>>
  BY DEF Current, ListServed, ListArrives, ListFails, uiVars
<1>1. Untold => Untold'
  BY <1>0 DEF Untold
<1>2. CASE ListServed(k)
  <2>1. /\ fetches' = [fetches EXCEPT ![k] = [at |-> "answered", got |-> {Listing(table, k)}]]
        /\ shown' = shown /\ fetches[k].at = "sent"
    BY <1>2 DEF ListServed
  <2>2. Recorded' /\ fetches'[k] = [at |-> "answered", got |-> {Listing(table, k)}]
        /\ \A j \in Keys \ {k} : fetches'[j] = fetches[j]
    BY <1>0, <2>1 DEF Recorded
  <2>3. Answers => Answers'
    BY <1>0, <2>2 DEF Answers
  <2>4. Displays => Displays'
    BY <1>0, <2>1, <2>2 DEF Displays, Recorded
  <2>5. astray' = astray
    BY <1>2 DEF ListServed
  <2>6. astray => astray'
    BY <2>5, Zenon
  <2> QED
    BY <1>1, <2>2, <2>3, <2>4, <2>6 DEF Current
<1>3. CASE ListArrives(k)
  <2>1. /\ fetches' = [fetches EXCEPT ![k] = NoFetch] /\ fetches[k].at = "answered"
        /\ shown' = IF linksOpen /\ k = key THEN fetches[k].got ELSE shown
    BY <1>3 DEF ListArrives
  <2>2. Recorded' /\ fetches'[k] = NoFetch /\ \A j \in Keys \ {k} : fetches'[j] = fetches[j]
    BY <1>0, <2>1 DEF Recorded
  <2>3. Answers => Answers'
    BY <1>0, <2>2 DEF Answers, NoFetch
  <2>4. Answers /\ Displays => Displays'
    BY <1>0, <2>1, <2>2 DEF Displays, Answers, Recorded
  <2>5. astray' = astray
    BY <1>3 DEF ListArrives
  <2>6. astray => astray'
    BY <2>5, Zenon
  <2> QED
    BY <1>1, <2>2, <2>3, <2>4, <2>6 DEF Current
<1>4. CASE ListFails(k)
  <2>1. Recorded'
    BY <1>0, <1>4 DEF Recorded, ListFails
  <2>2. astray' = TRUE
    BY <1>4 DEF ListFails
  <2> QED
    BY <2>1, <2>2, StrayingKeeps
<1> QED
  BY <1>2, <1>3, <1>4

LEMMA CallsKeepRows ==
    ASSUME Current, NEW kind \in Kinds,
           CallServed(kind) \/ CallSettles(kind) \/ CallFails(kind), UNCHANGED batch
    PROVE  Current'
<1>0. /\ Recorded /\ UNCHANGED <<linksOpen, key>>
      /\ IsRecord(batch', {"at", "lines", "items", "made", "mine"})
      /\ IsRecord(calls[kind], {"at", "from", "to", "mine"}) /\ DOMAIN calls = Kinds
  BY DEF Current, Recorded, CallServed, CallSettles, CallFails, uiVars
\* The call moves on, and the others stay.
<1>1. ASSUME NEW c, calls' = [calls EXCEPT ![kind] = c],
             IsRecord(c, {"at", "from", "to", "mine"})
      PROVE  /\ calls' = [j \in Kinds |-> calls'[j]] /\ calls'[kind] = c
             /\ \A j \in Kinds : IsRecord(calls'[j], {"at", "from", "to", "mine"})
             /\ \A j \in Kinds \ {kind} : calls'[j] = calls[j]
             /\ c.at = "ok" /\ kind # "count" => Untold'
             /\ calls[kind].at # "ok" \/ kind = "count" => (Untold => Untold')
  <2>1. /\ calls' = [j \in Kinds |-> calls'[j]] /\ calls'[kind] = c
        /\ \A j \in Kinds \ {kind} : calls'[j] = calls[j]
    BY <1>0, <1>1 DEF Recorded
  <2>2. \A j \in Kinds : IsRecord(calls'[j], {"at", "from", "to", "mine"})
    BY <1>0, <1>1, <2>1 DEF Recorded
  <2>3. c.at = "ok" /\ kind # "count" => Untold'
    BY <2>1 DEF Untold
  <2>4. calls[kind].at # "ok" \/ kind = "count" => (Untold => Untold')
    BY <2>1 DEF Untold
  <2> QED
    BY <2>1, <2>2, <2>3, <2>4
<1>2. CASE CallServed(kind)
  <2>1. /\ calls[kind].at = "sent" /\ UNCHANGED <<linksOpen, key, fetches, shown>>
    BY <1>2 DEF CallServed, queryVars, uiVars
  <2>2. astray' = astray
    BY <1>2 DEF CallServed
  <2>3. astray => astray'
    BY <2>2, Zenon
  <2>4. CASE Refused(kind)
    <3> DEFINE c == [calls[kind] EXCEPT !.at = "error"]
    <3>1. calls' = [calls EXCEPT ![kind] = c] /\ table' = table
      BY <1>2, <2>4 DEF CallServed
    <3>2. IsRecord(c, {"at", "from", "to", "mine"})
      BY <1>0 DEF IsRecord
    <3> QED
      BY <1>0, <1>1, <2>1, <2>3, <3>1, <3>2, ResidingKeeps
  <2>5. CASE ~Refused(kind)
    <3> DEFINE from == IF kind = "count" THEN Live \cap Expired ELSE calls[kind].from
               c == [[calls[kind] EXCEPT !.at = "ok"] EXCEPT !.from = from]
    <3>1. calls' = [calls EXCEPT ![kind] = c]
      BY <1>0, <1>2, <2>5 DEF CallServed, IsRecord
    <3>2. IsRecord(c, {"at", "from", "to", "mine"}) /\ c.at = "ok"
      BY <1>0 DEF IsRecord
    <3>3. table' \in After(kind)
      BY <1>2, <2>5 DEF CallServed
    <3>4. CASE kind = "count"
      <4>1. table' = table
        BY <3>3, <3>4 DEF After
      <4> QED
        BY <1>0, <1>1, <2>1, <2>3, <3>1, <3>2, <3>4, <4>1, ResidingKeeps
    <3>5. CASE kind # "count"
      <4>1. Recorded'
        BY <1>0, <1>1, <2>1, <3>1, <3>2 DEF Recorded
      <4>2. Untold'
        BY <1>1, <3>1, <3>2, <3>5
      <4> QED
        BY <4>1, <4>2 DEF Current
    <3> QED
      BY <3>4, <3>5
  <2> QED
    BY <2>4, <2>5
<1>3. CASE CallSettles(kind)
  <2>1. calls' = [calls EXCEPT ![kind] = NoCall] /\ calls[kind].at \in {"ok", "error"}
        /\ table' = table /\ shown' = shown
    BY <1>3 DEF CallSettles
  <2>2. IsRecord(NoCall, {"at", "from", "to", "mine"})
    BY DEF IsRecord, NoCall
  <2>3. CASE calls[kind].at = "ok" /\ kind # "count"
    <3>1. Invalidate
      BY <1>3, <2>3 DEF CallSettles
    <3> QED
      BY <1>0, <1>1, <2>1, <2>2, <3>1, InvalidatingKeeps
  <2>4. CASE ~(calls[kind].at = "ok" /\ kind # "count")
    <3>1. UNCHANGED <<fetches, astray>>
      BY <1>3, <2>4 DEF CallSettles
    <3>2. astray => astray'
      BY <3>1, Zenon
    <3> QED
      BY <1>0, <1>1, <2>1, <2>2, <2>4, <3>1, <3>2, ResidingKeeps
  <2> QED
    BY <2>3, <2>4
<1>4. CASE CallFails(kind)
  <2> DEFINE c == [calls[kind] EXCEPT !.at = "error"]
  <2>1. calls' = [calls EXCEPT ![kind] = c] /\ UNCHANGED <<table, fetches, shown>>
    BY <1>4 DEF CallFails, queryVars
  <2>2. IsRecord(c, {"at", "from", "to", "mine"})
    BY <1>0 DEF IsRecord
  <2>3. astray' = (astray \/ calls[kind].at = "ok")
    BY <1>4 DEF CallFails
  <2>4. (astray => astray') /\ (calls[kind].at = "ok" => astray')
    BY <2>3, Zenon
  <2>5. CASE calls[kind].at = "ok"
    <3>1. Recorded'
      BY <1>0, <1>1, <2>1, <2>2 DEF Recorded
    <3> QED
      BY <2>4, <2>5, <3>1 DEF Current
  <2>6. CASE calls[kind].at # "ok"
    BY <1>0, <1>1, <2>1, <2>2, <2>4, <2>6, ResidingKeeps
  <2> QED
    BY <2>5, <2>6
<1> QED
  BY <1>2, <1>3, <1>4

LEMMA BatchKeepsRows ==
    ASSUME Current, BatchServed \/ BatchSettles \/ BatchFails PROVE Current'
<1>0. /\ Recorded /\ UNCHANGED <<linksOpen, key, calls>>
      /\ IsRecord(batch, {"at", "lines", "items", "made", "mine"})
  BY DEF Current, Recorded, BatchServed, BatchSettles, BatchFails, uiVars
<1>1. CASE BatchServed
  <2>0. PICK valid \in SUBSET DOMAIN batch.items :
           /\ batch' = [batch EXCEPT !.at = "ok", !.made = MadeOf(batch.items, valid)]
           /\ table' \in Added({batch.items[i] : i \in MadeOf(batch.items, valid)})
    BY <1>1 DEF BatchServed
  <2> DEFINE made == MadeOf(batch.items, valid)
             new == {batch.items[i] : i \in made}
  <2>1. /\ batch' = [batch EXCEPT !.at = "ok", !.made = made] /\ batch.at = "sent"
        /\ table' \in Added(new) /\ UNCHANGED <<fetches, shown>>
    BY <1>1, <2>0 DEF BatchServed, queryVars
  <2>2. astray' = astray
    BY <1>1 DEF BatchServed
  <2> HIDE DEF made
  <2>3. /\ IsRecord(batch', {"at", "lines", "items", "made", "mine"})
        /\ batch'.at = "ok" /\ batch'.made = made
    BY <1>0, <2>1 DEF IsRecord
  <2>4. Recorded'
    BY <1>0, <2>1, <2>3 DEF Recorded
  <2>5. CASE made # {}
    BY <2>3, <2>4, <2>5 DEF Current, Untold
  <2>6. CASE made = {}
    <3>1. table' = table
      BY <2>1, <2>6 DEF Added
    <3>2. Untold => Untold'
      BY <1>0, <2>1 DEF Untold
    <3>3. astray => astray'
      BY <2>2, Zenon
    <3> QED
      BY <1>0, <2>1, <2>4, <3>1, <3>2, <3>3, ResidingKeeps DEF Recorded
  <2> QED
    BY <2>5, <2>6
<1>2. CASE BatchSettles
  <2>1. batch' = NoBatch /\ UNCHANGED <<table, shown>> /\ batch.at \in {"ok", "error"}
    BY <1>2 DEF BatchSettles
  <2>2. IsRecord(batch', {"at", "lines", "items", "made", "mine"})
    BY <2>1 DEF IsRecord, NoBatch
  <2>3. CASE batch.at = "ok" /\ batch.made # {}
    <3>1. Invalidate
      BY <1>2, <2>3 DEF BatchSettles
    <3> QED
      BY <1>0, <2>2, <3>1, InvalidatingKeeps DEF Recorded
  <2>4. CASE ~(batch.at = "ok" /\ batch.made # {})
    <3>1. UNCHANGED <<fetches, astray>>
      BY <1>2, <2>4 DEF BatchSettles
    <3>2. astray => astray'
      BY <3>1, Zenon
    <3>3. Untold => Untold'
      BY <1>0, <2>4 DEF Untold
    <3> QED
      BY <1>0, <2>1, <2>2, <3>1, <3>2, <3>3, ResidingKeeps DEF Recorded
  <2> QED
    BY <2>3, <2>4
<1>3. CASE BatchFails
  <2>1. batch' = [batch EXCEPT !.at = "error"] /\ UNCHANGED <<table, fetches, shown>>
    BY <1>3 DEF BatchFails, queryVars
  <2>2. IsRecord(batch', {"at", "lines", "items", "made", "mine"})
    BY <1>0, <2>1 DEF IsRecord
  <2>3. astray' = (astray \/ batch.at = "ok")
    BY <1>3 DEF BatchFails
  <2>4. (astray => astray') /\ (batch.at = "ok" => astray')
    BY <2>3, Zenon
  <2>5. Recorded'
    BY <1>0, <2>1, <2>2 DEF Recorded
  <2>6. CASE batch.at = "ok"
    BY <2>4, <2>5, <2>6 DEF Current
  <2>7. CASE batch.at # "ok"
    <3>1. Untold => Untold'
      BY <1>0, <2>7 DEF Untold
    <3> QED
      BY <1>0, <2>1, <2>2, <2>4, <3>1, ResidingKeeps DEF Recorded
  <2> QED
    BY <2>6, <2>7
<1> QED
  BY <1>1, <1>2, <1>3

LEMMA BatchGesturesKeepRows == ASSUME Current, BatchGesture PROVE Current'
<1>0. /\ Recorded /\ UNCHANGED <<table, linksOpen, key, fetches, shown, calls>>
      /\ IsRecord(batch, {"at", "lines", "items", "made", "mine"})
  BY DEF Current, Recorded, BatchGesture, OpenBatch, CloseBatch, EditText, Blur, Create, Retry,
     linksFrame, queryVars, uiVars
<1>1. astray' = astray
  BY DEF BatchGesture, OpenBatch, CloseBatch, EditText, Blur, Create, Retry, linksFrame
<1>2. \/ batch' = batch
      \/ \E lines, codes :
           /\ batch.at = "idle"
           /\ batch' = [at |-> "sent", lines |-> lines, items |-> codes, made |-> {},
                        mine |-> TRUE]
  BY DEF BatchGesture, OpenBatch, CloseBatch, EditText, Blur, Create, Retry, Submit, batchVars
<1>3. IsRecord(batch', {"at", "lines", "items", "made", "mine"})
  BY <1>0, <1>2 DEF IsRecord
<1>4. Untold => Untold'
  BY <1>0, <1>2 DEF Untold
<1>5. astray => astray'
  BY <1>1, Zenon
<1> QED
  BY <1>0, <1>3, <1>4, <1>5, ResidingKeeps DEF Recorded

LEMMA StepKeepsRows == Current /\ [LinksPageNext]_LinksPageVars => Current'
<1> SUFFICES ASSUME Current, [LinksPageNext]_LinksPageVars PROVE Current'
  OBVIOUS
<1>0. Recorded
  BY DEF Current
<1>1. CASE Gesture /\ IF linksOpen /\ ~linksOpen' THEN ForgetBatch ELSE UNCHANGED batchVars
  <2>1. \/ linksOpen /\ ~linksOpen' /\ batch' = [batch EXCEPT !.mine = FALSE]
        \/ batch' = batch
    BY <1>1 DEF ForgetBatch, batchVars
  <2>2. BatchStays
    BY <1>0, <2>1 DEF BatchStays, Recorded, IsRecord
  <2> QED
    BY <1>1, <2>1, <2>2, GestureKeepsRows
<1>2. CASE BatchGesture
  BY <1>2, BatchGesturesKeepRows
<1>3. CASE (LinksServer \/ LinksQuery \/ LinksTrouble) /\ UNCHANGED batchVars
  <2>1. batch' = batch
    BY <1>3 DEF batchVars
  <2>2. CASE OtherWriter
    <3>1. Recorded'
      BY <1>0, <2>1, <2>2 DEF OtherWriter, Recorded, queryVars, uiVars
    <3>2. astray' = TRUE
      BY <2>2 DEF OtherWriter
    <3> QED
      BY <3>1, <3>2, StrayingKeeps
  <2> QED
    BY <1>3, <2>1, <2>2, QueriesKeepRows, CallsKeepRows
    DEF LinksServer, LinksQuery, LinksTrouble
<1>4. CASE BatchServed \/ BatchSettles \/ BatchFails
  BY <1>4, BatchKeepsRows
<1>5. CASE UNCHANGED LinksPageVars
  <2>1. UNCHANGED <<table, linksOpen, key, fetches, shown, calls, batch>> /\ astray' = astray
    BY <1>5 DEF LinksPageVars, linksVars, batchVars, queryVars, uiVars
  <2>2. Untold => Untold'
    BY <2>1 DEF Untold
  <2>3. astray => astray'
    BY <2>1, Zenon
  <2> QED
    BY <1>0, <2>1, <2>2, <2>3, ResidingKeeps DEF Recorded
<1> QED
  BY <1>1, <1>2, <1>3, <1>4, <1>5 DEF LinksPageNext, LinksPageUser, LinksPageStep

\* The links page catches up with the server: once nothing is under way its rows are those
\* that the server lists, for any number of links and requests and however the answers of
\* edits, refetches and the pages visited meanwhile fall.
THEOREM RowsCatchUp == LinksPageSpec => []PageCatchesUp
<1>1. LinksPageInit => Current
  <2> SUFFICES ASSUME LinksPageInit PROVE Current
    OBVIOUS
  <2>1. ~linksOpen /\ key \in Keys
    BY FirstPage, LinksAssumption DEF LinksPageInit, LinksInit, Keys
  <2>2. fetches = [k \in Keys |-> NoFetch] /\ calls = [k \in Kinds |-> NoCall] /\ batch = NoBatch
    BY DEF LinksPageInit, LinksInit, BatchInit
  <2>3. Recorded
    BY <2>1, <2>2 DEF Recorded, IsRecord, NoCall, NoBatch
  <2>4. Answers /\ Displays
    BY <2>1, <2>2 DEF Answers, Displays, NoFetch
  <2> QED
    BY <2>3, <2>4 DEF Current
<1>2. Current => PageCatchesUp
  BY DEF Current, PageCatchesUp, Untold, AtRest, Displays, Kinds
<1> QED
  BY <1>1, <1>2, StepKeepsRows, PTL DEF LinksPageSpec, LinksPageNext

-----------------------------------------------------------------------------
(* Entries.                                                                *)

Ascending(order, where) ==
    /\ order \in [1..Cardinality(where) -> where]
    /\ \A m, n \in DOMAIN order : m < n => order[m] < order[n]

LEMMA PositionsAreFinite ==
    ASSUME NEW len \in Nat, NEW where, where \subseteq 1..len
    PROVE  IsFiniteSet(where) /\ Cardinality(where) \in 0..len
<1>1. IsFiniteSet(1..len) /\ Cardinality(1..len) = len
  BY FS_Interval
<1>2. IsFiniteSet(where) /\ Cardinality(where) <= len
  BY <1>1, FS_Subset
<1> QED
  BY <1>2, FS_CardinalityType

\* Every set of positions has an order: the positions up to k do, for every k.
LEMMA InOrderIsAscending ==
    ASSUME NEW len \in Nat, NEW where, where \subseteq 1..len
    PROVE  Ascending(InOrder(where), where)
<1> DEFINE below(k) == where \cap 1..k
           bad == {k \in 0..len : ~\E order : Ascending(order, below(k))}
<1>1. \A k \in 0..len : IsFiniteSet(below(k)) /\ Cardinality(below(k)) \in Nat
  BY PositionsAreFinite, FS_Subset, FS_CardinalityType
<1>2. ASSUME NEW k \in bad, \A j \in bad : ~(j < k) PROVE FALSE
  <2>1. CASE k = 0
    <3>1. below(k) = {} /\ Cardinality(below(k)) = 0
      BY <2>1, FS_EmptySet
    <3> DEFINE order == [i \in 1..0 |-> i]
    <3>2. order \in [1..0 -> below(k)] /\ DOMAIN order = 1..0
      BY <2>1
    <3>3. Ascending(order, below(k))
      BY <3>1, <3>2 DEF Ascending
    <3> QED
      BY <3>3
  <2>2. CASE k # 0
    <3>1. k - 1 \in 0..len /\ k - 1 \notin bad
      <4>1. k \in 0..len /\ k - 1 < k
        OBVIOUS
      <4> HIDE DEF bad
      <4> QED
        BY <1>2, <2>2, <4>1
    <3>2. PICK order : Ascending(order, below(k - 1))
      BY <3>1
    <3>3. CASE k \notin where
      <4>1. below(k) = below(k - 1)
        BY <3>3
      <4>2. Ascending(order, below(k))
        BY <3>2, <4>1, Zenon
      <4> QED
        BY <4>2
    <3>4. CASE k \in where
      <4> DEFINE c == Cardinality(below(k - 1))
                 longer == [i \in 1..(c + 1) |-> IF i = c + 1 THEN k ELSE order[i]]
      <4>1. below(k) = below(k - 1) \cup {k} /\ k \notin below(k - 1)
        BY <3>4
      <4>2. c \in Nat /\ Cardinality(below(k)) = c + 1
        <5>1. IsFiniteSet(below(k - 1)) /\ c \in Nat
          BY <1>1, <3>1
        <5>2. Cardinality(below(k - 1) \cup {k}) = c + 1
          BY <4>1, <5>1, FS_AddElement
        <5> QED
          BY <4>1, <5>1, <5>2
      <4>3. /\ order \in [1..c -> below(k - 1)]
            /\ \A m, n \in 1..c : m < n => order[m] < order[n]
        BY <3>2 DEF Ascending
      <4> HIDE DEF c
      <4>4. \A i \in 1..(c + 1) : longer[i] \in below(k - 1) \cup {k}
        BY <4>2, <4>3
      <4>5. \A m, n \in 1..(c + 1) : m < n => longer[m] < longer[n]
        BY <4>2, <4>3
      <4>6. Ascending(longer, below(k))
        BY <4>1, <4>2, <4>4, <4>5 DEF Ascending
      <4> QED
        BY <4>6
    <3> QED
      BY <3>3, <3>4
  <2> QED
    BY <2>1, <2>2
<1>3. bad = {}
  <2>1. bad \subseteq Nat
    OBVIOUS
  <2> HIDE DEF bad
  <2> QED
    BY <1>2, <2>1, LeastNumber
<1>4. below(len) = where
  OBVIOUS
<1>5. \E order : Ascending(order, where)
  BY <1>3, <1>4
<1> QED
  BY <1>5 DEF InOrder, Ascending

\* The entries of a sequence are entries of it at those positions, and no position twice.
LEMMA EntriesAreEntries ==
    ASSUME NEW S, NEW s \in Seq(S), NEW where, where \subseteq DOMAIN s
    PROVE  /\ \A n \in 1..Cardinality(where) :
                InOrder(where)[n] \in where /\ Entries(s, where)[n] = s[InOrder(where)[n]]
           /\ \A m, n \in 1..Cardinality(where) :
                m # n => InOrder(where)[m] # InOrder(where)[n]
           /\ Entries(s, where) \in Seq({s[i] : i \in where})
           /\ Len(Entries(s, where)) = Cardinality(where) /\ Len(Entries(s, where)) \in 0..Len(s)
<1>1. Len(s) \in Nat /\ DOMAIN s = 1..Len(s)
  OBVIOUS
<1>2. Ascending(InOrder(where), where) /\ Cardinality(where) \in 0..Len(s)
  BY <1>1, InOrderIsAscending, PositionsAreFinite
<1>3. \A n \in 1..Cardinality(where) :
        InOrder(where)[n] \in where /\ Entries(s, where)[n] = s[InOrder(where)[n]]
  BY <1>2 DEF Ascending, Entries
<1>4. ASSUME NEW m \in 1..Cardinality(where), NEW n \in 1..Cardinality(where), m # n
      PROVE  InOrder(where)[m] # InOrder(where)[n]
  <2>1. m < n \/ n < m
    BY <1>2, <1>4
  <2>2. InOrder(where)[m] < InOrder(where)[n] \/ InOrder(where)[n] < InOrder(where)[m]
    BY <1>2, <2>1 DEF Ascending
  <2>3. InOrder(where)[m] \in Nat /\ InOrder(where)[n] \in Nat
    BY <1>1, <1>3
  <2> QED
    BY <2>2, <2>3
<1>5. Entries(s, where) \in [1..Cardinality(where) -> {s[i] : i \in where}]
  BY <1>3 DEF Entries
<1>6. /\ Entries(s, where) \in Seq({s[i] : i \in where})
      /\ Len(Entries(s, where)) = Cardinality(where)
  BY <1>2, <1>5
<1> QED
  BY <1>2, <1>3, <1>4, <1>6

-----------------------------------------------------------------------------
(* The batch dialog.                                                       *)

\* What is sent, and what may be sent again, are the items of the lines beside them; so the
\* results, which come by position, are those of the lines.
Matched ==
    /\ IsRecord(batch, {"at", "lines", "items", "made", "mine"})
    /\ text \in Seq(Codes \cup {Comment, Malformed})
    /\ validLines = items /\ items \in Seq(Codes)
    /\ batch.lines = batch.items /\ batch.items \in Seq(Codes)
    /\ FailuresAreReal

LEMMA ValidateMatches ==
    ASSUME text \in Seq(Codes \cup {Comment, Malformed}), Validate
    PROVE  validLines' = items' /\ items' \in Seq(Codes)
<1> DEFINE where == {i \in DOMAIN text : WellFormed(text[i])}
<1>1. items' = Entries(text, where) /\ validLines' = Entries(text, where)
  BY DEF Validate, Items, ValidLines
<1>2. Entries(text, where) \in Seq({text[i] : i \in where})
  <2>1. where \subseteq DOMAIN text
    OBVIOUS
  <2> HIDE DEF where
  <2> QED
    BY <2>1, EntriesAreEntries
<1>3. {text[i] : i \in where} \subseteq Codes
  BY DEF WellFormed
<1> HIDE DEF where
<1>4. Seq({text[i] : i \in where}) \subseteq Seq(Codes)
  BY <1>3
<1> QED
  BY <1>1, <1>2, <1>4

LEMMA AnswerMatches ==
    ASSUME Matched, batch.at = "ok" /\ batch.mine, BatchSettles
    PROVE  failures' \in Seq(Codes) /\ text' = failures' /\ FailuresAreReal'
<1> DEFINE failed == DOMAIN batch.lines \ batch.made
<1>1. /\ failures' = Entries(batch.lines, failed) /\ text' = failures'
      /\ refused' = {batch.items[i] : i \in failed}
  BY DEF BatchSettles, Kept, Matched
<1>2. failed \subseteq DOMAIN batch.lines /\ batch.lines \in Seq(Codes)
  BY DEF Matched
<1>3. {batch.lines[i] : i \in failed} = refused'
  BY <1>1 DEF Matched
<1> HIDE DEF failed
<1>4. failures' \in Seq(refused')
  BY <1>1, <1>2, <1>3, EntriesAreEntries
<1>5. refused' \subseteq Codes
  BY <1>2, <1>3
<1>6. FailuresAreReal'
  BY <1>4 DEF FailuresAreReal
<1> QED
  BY <1>1, <1>4, <1>5, <1>6

SameLines(c, b) ==
    /\ IsRecord(c, {"at", "lines", "items", "made", "mine"})
    /\ c.lines = b.lines /\ c.items = b.items

LEMMA FailingKeepsLines ==
    ASSUME NEW b, IsRecord(b, {"at", "lines", "items", "made", "mine"}), NEW at
    PROVE  SameLines([b EXCEPT !.at = at], b)
BY DEF IsRecord, SameLines

LEMMA ServingKeepsLines ==
    ASSUME NEW b, IsRecord(b, {"at", "lines", "items", "made", "mine"}), NEW at, NEW made
    PROVE  SameLines([b EXCEPT !.at = at, !.made = made], b)
BY DEF IsRecord, SameLines

LEMMA BatchStepMatches ==
    ASSUME Matched, [LinksPageNext]_LinksPageVars PROVE Matched'
<1>0. IsRecord(batch, {"at", "lines", "items", "made", "mine"})
  BY DEF Matched
<1>1. ASSUME UNCHANGED <<text, items, validLines, failures, refused>>,
             IsRecord(batch', {"at", "lines", "items", "made", "mine"}),
             batch'.lines = batch'.items, batch'.items \in Seq(Codes)
      PROVE  Matched'
  BY <1>1 DEF Matched, FailuresAreReal
<1>2. CASE UNCHANGED batchVars
  BY <1>1, <1>2 DEF batchVars, Matched
<1>3. ASSUME Blank, batch' = batch \/ batch' = [batch EXCEPT !.mine = FALSE] PROVE Matched'
  <2>1. /\ IsRecord(batch', {"at", "lines", "items", "made", "mine"})
        /\ batch'.lines = batch.lines /\ batch'.items = batch.items
    BY <1>0, <1>3 DEF IsRecord
  <2>2. DOMAIN failures' = {} /\ failures' \in Seq(Codes) /\ items' \in Seq(Codes)
        /\ text' \in Seq(Codes \cup {Comment, Malformed}) /\ validLines' = items'
    BY <1>3 DEF Blank
  <2> QED
    BY <2>1, <2>2 DEF Matched, FailuresAreReal
<1>4. ASSUME NEW t \in Texts, EditText(t) PROVE Matched'
  <2>1. text' \in Seq(Codes \cup {Comment, Malformed})
    BY <1>4, BatchAssumption DEF EditText
  <2> QED
    BY <1>4, <2>1 DEF EditText, Matched, FailuresAreReal
<1>5. CASE Blur \/ Create
  <2>1. /\ validLines' = items' /\ items' \in Seq(Codes)
        /\ UNCHANGED <<text, failures, refused>>
    BY <1>5, ValidateMatches DEF Blur, Create, Matched
  <2>2. \/ batch' = batch
        \/ batch' = [at |-> "sent", lines |-> validLines', items |-> items', made |-> {},
                     mine |-> TRUE]
    BY <1>5 DEF Blur, Create, Submit
  <2>3. /\ IsRecord(batch', {"at", "lines", "items", "made", "mine"})
        /\ batch'.lines = batch'.items /\ batch'.items \in Seq(Codes)
    BY <1>0, <2>1, <2>2 DEF IsRecord, Matched
  <2> QED
    BY <2>1, <2>3 DEF Matched, FailuresAreReal
<1>6. CASE Retry
  <2>1. batch' = [at |-> "sent", lines |-> validLines, items |-> items, made |-> {}, mine |-> TRUE]
    BY <1>6 DEF Retry, Submit
  <2>2. /\ IsRecord(batch', {"at", "lines", "items", "made", "mine"})
        /\ batch'.lines = batch'.items /\ batch'.items \in Seq(Codes)
    BY <2>1 DEF IsRecord, Matched
  <2> QED
    BY <1>1, <1>6, <2>2 DEF Retry
<1>7. CASE BatchServed \/ BatchFails
  <2>1. \/ batch' = [batch EXCEPT !.at = "error"]
        \/ \E valid \in SUBSET DOMAIN batch.items :
              batch' = [batch EXCEPT !.at = "ok", !.made = MadeOf(batch.items, valid)]
    BY <1>7 DEF BatchServed, BatchFails
  <2>2. SameLines(batch', batch)
    <3>1. SameLines([batch EXCEPT !.at = "error"], batch)
      BY <1>0, FailingKeepsLines
    <3>2. \A valid : SameLines([batch EXCEPT !.at = "ok", !.made = MadeOf(batch.items, valid)],
                               batch)
      BY <1>0, ServingKeepsLines
    <3> QED
      BY <2>1, <3>1, <3>2, Zenon
  <2> QED
    BY <1>1, <1>7, <2>2 DEF BatchServed, BatchFails, Matched, SameLines
<1>8. CASE BatchSettles
  <2>1. /\ IsRecord(batch', {"at", "lines", "items", "made", "mine"})
        /\ batch'.lines = batch'.items /\ batch'.items \in Seq(Codes)
        /\ UNCHANGED <<items, validLines>>
    BY <1>8 DEF BatchSettles, NoBatch, IsRecord
  <2>2. CASE batch.at = "ok" /\ batch.mine
    <3>1. failures' \in Seq(Codes) /\ text' = failures' /\ FailuresAreReal'
      BY <1>8, <2>2, AnswerMatches
    <3>2. text' \in Seq(Codes \cup {Comment, Malformed})
      BY <3>1
    <3> QED
      BY <2>1, <3>1, <3>2 DEF Matched
  <2>3. CASE ~(batch.at = "ok" /\ batch.mine)
    <3>1. UNCHANGED <<text, failures, refused>>
      BY <1>8, <2>3 DEF BatchSettles
    <3> QED
      BY <1>1, <2>1, <3>1
  <2> QED
    BY <2>2, <2>3
<1>9. CASE Gesture /\ IF linksOpen /\ ~linksOpen' THEN ForgetBatch ELSE UNCHANGED batchVars
  BY <1>2, <1>3, <1>9 DEF ForgetBatch
<1>10. CASE BatchGesture
  BY <1>2, <1>3, <1>4, <1>5, <1>6, <1>10 DEF BatchGesture, OpenBatch, CloseBatch
<1> QED
  BY <1>2, <1>7, <1>8, <1>9, <1>10 DEF LinksPageNext, LinksPageUser, LinksPageStep, LinksPageVars

\* BatchCreateDialog lists a line as failed only if the server refused that line: results and
\* lines are matched by position, and nothing that is typed, checked, closed or sent again
\* meanwhile comes between them, for any texts.
THEOREM ListedLinesFailed == LinksPageSpec => []FailuresAreReal
<1>1. LinksPageInit => Matched
  BY DEF LinksPageInit, BatchInit, NoBatch, Matched, FailuresAreReal, IsRecord
<1>2. Matched => FailuresAreReal
  BY DEF Matched
<1> QED
  BY <1>1, <1>2, BatchStepMatches, PTL DEF LinksPageSpec, LinksPageNext

-----------------------------------------------------------------------------
(* The types: the table.                                                   *)

\* No code is in the table twice, however links are made, renamed and deleted; so it is as
\* long as there are codes at most.
Distinct(t) == \A i, j \in DOMAIN t : t[i] = t[j] => i = j
TableTypes == table \in Seq(Codes) /\ Distinct(table)

LEMMA ListsAreSequences ==
    ASSUME NEW S, NEW n \in Nat, NEW f \in [1..n -> S] PROVE f \in Seq(S) /\ Len(f) = n
OBVIOUS

LEMMA ConcatSplits ==
    ASSUME NEW S, NEW s \in Seq(S), NEW t \in Seq(S)
    PROVE  /\ s \o t \in Seq(S) /\ Len(s \o t) = Len(s) + Len(t)
           /\ Len(s) \in Nat /\ Len(t) \in Nat
           /\ DOMAIN t = 1..Len(t) /\ DOMAIN (s \o t) = 1..(Len(s) + Len(t))
           /\ \A i \in 1..(Len(s) + Len(t)) :
                (s \o t)[i] = IF i <= Len(s) THEN s[i] ELSE t[i - Len(s)]
OBVIOUS

LEMMA DistinctIsShort ==
    ASSUME NEW t \in Seq(Codes), Distinct(t)
    PROVE  Len(t) \in 0..Cardinality(Codes) /\ Cardinality(Codes) \in Nat
<1>1. IsFiniteSet(Codes) /\ Cardinality(Codes) \in Nat
  BY LinksAssumption, FS_CardinalityType
<1>2. t \in Injection(1..Len(t), Codes)
  BY DEF Distinct, Injection, IsInjective
<1>3. Cardinality(1..Len(t)) <= Cardinality(Codes)
  BY <1>1, <1>2, FS_Injection
<1>4. Len(t) \in Nat
  OBVIOUS
<1>5. \A n \in Nat : Cardinality(1..n) = n
  BY FS_Interval
<1> QED
  BY <1>1, <1>3, <1>4, <1>5

\* Imported links lie among the others.
LEMMA ImportedIsDistinct ==
    ASSUME NEW new, new \cup Live \in SUBSET Codes, NEW t \in Imported(new)
    PROVE  t \in Seq(Codes) /\ Distinct(t)
<1>1. /\ t \in [1..Cardinality(Live \cup new) -> Live \cup new]
      /\ \A i, j \in DOMAIN t : t[i] = t[j] => i = j
  BY DEF Imported
<1>2. Cardinality(Live \cup new) \in Nat
  BY LinksAssumption, FS_Subset, FS_CardinalityType
<1>3. t \in [1..Cardinality(Live \cup new) -> Codes]
  BY <1>1
<1>4. \A n \in Nat : \A f \in [1..n -> Codes] : f \in Seq(Codes)
  OBVIOUS
<1> QED
  BY <1>1, <1>2, <1>3, <1>4 DEF Distinct

\* New links come before the others.
LEMMA AddedIsDistinct ==
    ASSUME TableTypes, NEW new \in SUBSET Codes, new \cap Live = {},
           NEW t \in Added(new)
    PROVE  t \in Seq(Codes) /\ Distinct(t)
<1>1. CASE new = {}
  BY <1>1 DEF Added, TableTypes
<1>2. CASE new # {}
  <2>1. PICK s \in [1..Cardinality(new) -> new] :
            {s[i] : i \in DOMAIN s} = new /\ t = s \o table
    BY <1>2 DEF Added
  <2>2. IsFiniteSet(new) /\ Cardinality(new) \in Nat
    BY LinksAssumption, FS_Subset, FS_CardinalityType
  <2> DEFINE n == Cardinality(new)
  <2>3. IsFiniteSet(1..n) /\ Cardinality(1..n) = n
    BY <2>2, FS_Interval
  <2>4. s \in Surjection(1..n, new)
    BY <2>1 DEF Surjection
  <2>5. s \in Injection(1..n, new)
    BY <2>3, <2>4, FS_SurjSameCardinalityImpliesInj
  <2>6. \A i, j \in 1..n : s[i] = s[j] => i = j
    BY <2>1, <2>5 DEF Injection, IsInjective
  <2>7. /\ s \in Seq(Codes) /\ Len(s) = n
        /\ \A i \in 1..n : s[i] \in new
    <3>1. s \in [1..n -> new] /\ s \in [1..n -> Codes] /\ n \in Nat
      BY <2>1, <2>2
    <3> HIDE DEF n
    <3> QED
      BY <3>1, ListsAreSequences
  <2>8. table \in Seq(Codes) /\ Distinct(table) /\ \A i \in DOMAIN table : table[i] \notin new
    BY DEF TableTypes, Live
  <2> HIDE DEF n
  <2>9. t \in Seq(Codes) /\ Len(t) = n + Len(table)
        /\ \A i \in 1..(n + Len(table)) : t[i] = IF i <= n THEN s[i] ELSE table[i - n]
    <3>1. /\ s \o table \in Seq(Codes) /\ Len(s \o table) = Len(s) + Len(table)
          /\ \A i \in 1..(Len(s) + Len(table)) :
               (s \o table)[i] = IF i <= Len(s) THEN s[i] ELSE table[i - Len(s)]
      BY <2>7, <2>8, ConcatSplits
    <3> QED
      BY <2>1, <2>7, <3>1
  <2>10. Len(table) \in Nat /\ n \in Nat /\ DOMAIN table = 1..Len(table)
         /\ DOMAIN t = 1..(n + Len(table))
    BY <2>1, <2>7, <2>8, ConcatSplits
  <2>11. ASSUME NEW i \in DOMAIN t, NEW j \in DOMAIN t, t[i] = t[j] PROVE i = j
    <3>1. CASE i <= n /\ j <= n
      BY <2>6, <2>9, <2>10, <2>11, <3>1
    <3>2. CASE i <= n /\ ~(j <= n)
      <4>1. t[i] = s[i] /\ i \in 1..n /\ t[j] = table[j - n] /\ j - n \in DOMAIN table
        BY <2>9, <2>10, <3>2
      <4>2. t[i] \in new /\ t[j] \notin new
        BY <2>7, <2>8, <4>1
      <4> QED
        BY <2>11, <4>2
    <3>3. CASE ~(i <= n) /\ j <= n
      <4>1. t[j] = s[j] /\ j \in 1..n /\ t[i] = table[i - n] /\ i - n \in DOMAIN table
        BY <2>9, <2>10, <3>3
      <4>2. t[j] \in new /\ t[i] \notin new
        BY <2>7, <2>8, <4>1
      <4> QED
        BY <2>11, <4>2
    <3>4. CASE ~(i <= n) /\ ~(j <= n)
      <4>1. /\ i - n \in DOMAIN table /\ j - n \in DOMAIN table
            /\ table[i - n] = table[j - n]
        BY <2>9, <2>10, <2>11, <3>4
      <4>2. i - n = j - n
        BY <2>8, <4>1 DEF Distinct
      <4> QED
        BY <2>10, <4>2
    <3> QED
      BY <3>1, <3>2, <3>3, <3>4
  <2> QED
    BY <2>9, <2>11 DEF Distinct
<1> QED
  BY <1>1, <1>2

LEMMA WithoutIsDistinct ==
    ASSUME TableTypes, NEW gone PROVE Without(gone) \in Seq(Codes) /\ Distinct(Without(gone))
<1> DEFINE where == {i \in DOMAIN table : table[i] \notin gone}
           order == InOrder(where)
<1>1. where \subseteq DOMAIN table /\ table \in Seq(Codes) /\ Distinct(table)
  BY DEF TableTypes
<1>2. Without(gone) = Entries(table, where)
  BY DEF Without
<1>3. {table[i] : i \in where} \subseteq Codes
  BY <1>1
<1> HIDE DEF where, order
<1>4. /\ \A n \in 1..Cardinality(where) :
           order[n] \in where /\ Entries(table, where)[n] = table[order[n]]
      /\ \A m, n \in 1..Cardinality(where) : m # n => order[m] # order[n]
      /\ Entries(table, where) \in Seq({table[i] : i \in where})
      /\ Len(Entries(table, where)) = Cardinality(where)
  <2>1. ASSUME NEW n \in 1..Cardinality(where)
        PROVE  order[n] \in where /\ Entries(table, where)[n] = table[order[n]]
    <3>1. Len(table) \in Nat /\ DOMAIN table = 1..Len(table)
      BY <1>1
    <3>2. Ascending(order, where)
      BY <1>1, <3>1, InOrderIsAscending DEF order
    <3> QED
      BY <3>2 DEF Ascending, Entries, order
  <2>2. ASSUME NEW m \in 1..Cardinality(where), NEW n \in 1..Cardinality(where), m # n
        PROVE  order[m] # order[n]
    BY <1>1, <2>2, EntriesAreEntries DEF order
  <2>3. /\ Entries(table, where) \in Seq({table[i] : i \in where})
        /\ Len(Entries(table, where)) = Cardinality(where)
    BY <1>1, EntriesAreEntries
  <2> QED
    BY <2>1, <2>2, <2>3
<1>5. Without(gone) \in Seq(Codes)
  <2>1. Seq({table[i] : i \in where}) \subseteq Seq(Codes)
    BY <1>3
  <2> QED
    BY <1>2, <1>4, <2>1
<1>6. DOMAIN Without(gone) = 1..Cardinality(where)
  BY <1>2, <1>4
<1>7. Distinct(Without(gone))
  BY <1>1, <1>2, <1>4, <1>6 DEF Distinct
<1> QED
  BY <1>5, <1>7

\* The form's request is for one code, and for one link at most.
AtMost(S) == \A x, y \in S : x = y
LEMMA RenamedIsDistinct ==
    ASSUME TableTypes, NEW from \in SUBSET Live, AtMost(from), NEW c \in Codes,
           ({c} \ from) \cap Live = {},
           NEW t, t = [i \in DOMAIN table |-> IF table[i] \in from THEN CHOOSE x \in {c} : TRUE
                                                                  ELSE table[i]]
    PROVE  t \in Seq(Codes) /\ Distinct(t)
<1>1. \A i \in DOMAIN table : t[i] = IF table[i] \in from THEN c ELSE table[i]
  OBVIOUS
<1>2. table \in Seq(Codes) /\ Distinct(table) /\ DOMAIN t = DOMAIN table
  BY DEF TableTypes
<1>3. t \in Seq(Codes)
  <2>1. Len(table) \in Nat /\ DOMAIN table = 1..Len(table)
    BY <1>2
  <2>2. t \in [1..Len(table) -> Codes]
    BY <1>1, <1>2, <2>1
  <2> QED
    BY <2>1, <2>2
<1>4. ASSUME NEW i \in DOMAIN t, NEW j \in DOMAIN t, t[i] = t[j] PROVE i = j
  <2>1. CASE table[i] \in from /\ table[j] \in from
    BY <1>2, <2>1 DEF AtMost, Distinct
  <2>2. CASE table[i] \notin from /\ table[j] \notin from
    BY <1>1, <1>2, <1>4, <2>2 DEF Distinct
  <2>3. \A k \in DOMAIN table : table[k] \in Live
    BY DEF Live
  <2>4. CASE (table[i] \in from) # (table[j] \in from)
    BY <1>1, <1>2, <1>4, <2>3, <2>4
  <2> QED
    BY <2>1, <2>2, <2>4
<1> QED
  BY <1>3, <1>4 DEF Distinct

-----------------------------------------------------------------------------
(* The types: the answers.                                                 *)

\* Rows are a page at most, and codes of the table.
LEMMA ListingIsListed ==
    ASSUME TableTypes, NEW k \in Keys PROVE Listing(table, k) \in Listings
<1> DEFINE where == {i \in DOMAIN table : table[i] \in Matching[k[1]]}
           hits == Entries(table, where)
           first == (k[2] - 1) * PageSize
           last == IF first + PageSize < Len(hits) THEN first + PageSize ELSE Len(hits)
           rows == SubSeq(hits, first + 1, last)
<1>1. Listing(table, k) = [rows |-> rows, total |-> Len(hits)]
  BY DEF Listing
<1>2. PageSize \in Nat /\ k[2] \in Nat \ {0}
  BY LinksAssumption DEF Keys, Pages
<1>3. first \in Nat
  <2>1. \A m, n \in Nat : m * n \in Nat
    OBVIOUS
  <2>2. k[2] - 1 \in Nat
    BY <1>2
  <2> QED
    BY <1>2, <2>1, <2>2
<1>4. hits \in Seq(Codes) /\ Len(hits) \in 0..Len(table)
  <2>1. where \subseteq DOMAIN table /\ table \in Seq(Codes)
    BY DEF TableTypes
  <2>2. {table[i] : i \in where} \subseteq Codes
    BY <2>1
  <2> HIDE DEF where
  <2>3. hits \in Seq({table[i] : i \in where}) /\ Len(hits) \in 0..Len(table)
    BY <2>1, EntriesAreEntries
  <2>4. Seq({table[i] : i \in where}) \subseteq Seq(Codes)
    BY <2>2
  <2> QED
    BY <2>3, <2>4
<1>5. Len(table) \in 0..Cardinality(Codes) /\ Cardinality(Codes) \in Nat
  BY DistinctIsShort DEF TableTypes
<1> HIDE DEF hits, first
<1>6. Len(hits) \in 0..Cardinality(Codes)
  BY <1>4, <1>5
<1>7. last \in Nat /\ last - first <= PageSize /\ last <= Len(hits)
  BY <1>2, <1>3, <1>4
<1> HIDE DEF last
<1>8. rows = [i \in 1..(last - first) |-> hits[i + first]]
  BY <1>3, <1>4, <1>7
<1>9. \A i \in 1..(last - first) : hits[i + first] \in Codes
  BY <1>3, <1>4, <1>7
<1>10. \E n \in 0..PageSize : rows \in [1..n -> Codes]
  <2>1. CASE last - first \in Nat
    <3>1. last - first \in 0..PageSize
      BY <1>2, <1>7, <2>1
    <3>2. rows \in [1..(last - first) -> Codes]
      BY <1>8, <1>9
    <3> QED
      BY <3>1, <3>2
  <2>2. CASE last - first \notin Nat
    <3>1. 1..(last - first) = 1..0 /\ 0 \in 0..PageSize
      BY <1>2, <1>3, <1>7, <2>2
    <3>2. rows \in [1..0 -> Codes]
      BY <1>8, <1>9, <3>1
    <3> QED
      BY <3>1, <3>2
  <2> QED
    BY <2>1, <2>2
<1> HIDE DEF rows
<1> QED
  BY <1>1, <1>6, <1>10 DEF Listings

Fetching == [at: {"idle", "sent", "answered"}, got: SUBSET Listings]
FetchTypes(f) == f \in [Keys -> Fetching] /\ \A k \in Keys : AtMost(f[k].got)
AnswerTypes ==
    /\ FetchTypes(fetches)
    /\ results \in [Keys -> SUBSET Listings] /\ \A k \in Keys : AtMost(results[k])
    /\ shown \in SUBSET Listings /\ AtMost(shown)

LEMMA RowsAreCodes == ASSUME NEW data \in SUBSET Listings PROVE Rows(data) \in SUBSET Codes
<1>1. \A d \in data : \E n \in 0..PageSize : d.rows \in [1..n -> Codes]
  BY DEF Listings
<1>2. \A d \in data : \A i \in DOMAIN d.rows : d.rows[i] \in Codes
  BY <1>1
<1> QED
  BY <1>2 DEF Rows

LEMMA FetchReplaced ==
    ASSUME NEW f, FetchTypes(f), NEW k \in Keys, NEW r \in Fetching, AtMost(r.got)
    PROVE  FetchTypes([f EXCEPT ![k] = r])
BY DEF FetchTypes

LEMMA NewFetchTyped ==
    /\ NoFetch \in Fetching /\ AtMost(NoFetch.got)
    /\ [NoFetch EXCEPT !.at = "sent"] \in Fetching /\ AtMost([NoFetch EXCEPT !.at = "sent"].got)
BY DEF NoFetch, Fetching, AtMost

LEMMA JoinedTyped == ASSUME FetchTypes(fetches), NEW k \in Keys PROVE FetchTypes(Joined(k))
<1>1. CASE fetches[k].at = "idle"
  <2> DEFINE r == [NoFetch EXCEPT !.at = "sent"]
  <2>1. r \in Fetching /\ AtMost(r.got) /\ Joined(k) = [fetches EXCEPT ![k] = r]
    BY <1>1, NewFetchTyped DEF Joined
  <2> HIDE DEF r
  <2>2. FetchTypes([fetches EXCEPT ![k] = r])
    BY <2>1, FetchReplaced
  <2> QED
    BY <2>1, <2>2
<1>2. CASE fetches[k].at # "idle"
  BY <1>2 DEF Joined
<1> QED
  BY <1>1, <1>2

LEMMA InvalidateTyped ==
    ASSUME FetchTypes(fetches), key \in Keys, Invalidate PROVE FetchTypes(fetches')
<1> DEFINE r == [NoFetch EXCEPT !.at = "sent"]
<1>1. r \in Fetching /\ AtMost(r.got)
  BY NewFetchTyped
<1> HIDE DEF r
<1>2. FetchTypes([fetches EXCEPT ![key] = r]) /\ FetchTypes(Joined(key))
  BY <1>1, FetchReplaced, JoinedTyped
<1>3. fetches' = fetches \/ fetches' = [fetches EXCEPT ![key] = r] \/ fetches' = Joined(key)
  BY DEF Invalidate, r
<1> QED
  BY <1>2, <1>3

LEMMA ShowTyped ==
    ASSUME AnswerTypes, NEW k \in Keys, Show(k), results' = results PROVE AnswerTypes'
<1>1. FetchTypes(fetches')
  BY JoinedTyped DEF Show, AnswerTypes
<1>2. shown' = results[k] \/ shown' = shown
  BY DEF Show
<1>3. shown' \in SUBSET Listings /\ AtMost(shown')
  BY <1>2 DEF AnswerTypes
<1> QED
  BY <1>1, <1>3 DEF AnswerTypes

LEMMA QueriesTyped ==
    ASSUME AnswerTypes, TableTypes, NEW k \in Keys, ListServed(k) \/ ListArrives(k) \/ ListFails(k)
    PROVE  AnswerTypes'
<1>1. NoFetch \in Fetching /\ AtMost(NoFetch.got) /\ FetchTypes(fetches)
  BY NewFetchTyped DEF AnswerTypes
<1>2. FetchTypes([fetches EXCEPT ![k] = NoFetch])
  BY <1>1, FetchReplaced
<1>3. CASE ListServed(k)
  <2> DEFINE r == [at |-> "answered", got |-> {Listing(table, k)}]
  <2>1. r \in Fetching /\ AtMost(r.got)
    BY ListingIsListed DEF Fetching, AtMost
  <2>2. fetches' = [fetches EXCEPT ![k] = r] /\ results' = results /\ shown' = shown
    BY <1>3 DEF ListServed
  <2> HIDE DEF r
  <2>3. FetchTypes(fetches')
    BY <1>1, <2>1, <2>2, FetchReplaced
  <2> QED
    BY <2>2, <2>3 DEF AnswerTypes
<1>4. CASE ListArrives(k)
  <2>1. fetches[k].got \in SUBSET Listings /\ AtMost(fetches[k].got)
    BY <1>1 DEF FetchTypes, Fetching
  <2>2. /\ fetches' = [fetches EXCEPT ![k] = NoFetch]
        /\ results' = [results EXCEPT ![k] = fetches[k].got]
        /\ shown' = fetches[k].got \/ shown' = shown
    BY <1>4 DEF ListArrives
  <2>3. results' \in [Keys -> SUBSET Listings] /\ \A j \in Keys : AtMost(results'[j])
    BY <2>1, <2>2 DEF AnswerTypes
  <2>4. shown' \in SUBSET Listings /\ AtMost(shown')
    BY <2>1, <2>2 DEF AnswerTypes
  <2> QED
    BY <1>2, <2>2, <2>3, <2>4 DEF AnswerTypes
<1>5. CASE ListFails(k)
  <2>1. /\ fetches' = [fetches EXCEPT ![k] = NoFetch] /\ results' = results
        /\ shown' = {} \/ shown' = shown
    BY <1>5 DEF ListFails
  <2>2. shown' \in SUBSET Listings /\ AtMost(shown')
    BY <2>1 DEF AnswerTypes, AtMost
  <2> QED
    BY <1>2, <2>1, <2>2 DEF AnswerTypes
<1> QED
  BY <1>3, <1>4, <1>5

-----------------------------------------------------------------------------
(* The types: the page and its requests.                                   *)

PageTypes ==
    /\ key \in Keys /\ selected \in SUBSET Codes /\ seen \in SUBSET Codes
    /\ dialog \in SUBSET {"delete", "bulk", "expired", "form", "import", "batch"}
    /\ subject \in SUBSET Codes /\ AtMost(subject)

\* The form asks for one code, for one link at most.
Calling == [at: {"idle", "sent", "ok", "error"}, from: SUBSET Codes, to: SUBSET Codes, mine: BOOLEAN]
CallTypes ==
    /\ calls \in [Kinds -> Calling]
    /\ AtMost(calls["form"].from)
    /\ calls["form"].at # "idle" => \E c \in Codes : calls["form"].to = {c}

LEMMA OpenedTyped ==
    ASSUME PageTypes, NEW d, NEW on, Opened(d, on), on \in SUBSET Codes, AtMost(on),
           d \in {"delete", "bulk", "expired", "form", "import", "batch"}
    PROVE  PageTypes'
BY DEF Opened, PageTypes

LEMMA SentTyped ==
    ASSUME CallTypes, NEW kind \in Kinds, NEW from \in SUBSET Codes, NEW to \in SUBSET Codes,
           Send(kind, from, to),
           kind = "form" => AtMost(from) /\ \E c \in Codes : to = {c}
    PROVE  CallTypes'
<1> DEFINE r == [at |-> "sent", from |-> from, to |-> to, mine |-> TRUE]
<1>1. r \in Calling /\ r.from = from /\ r.to = to
  BY DEF Calling
<1>2. calls' = [calls EXCEPT ![kind] = r]
  BY DEF Send
<1> HIDE DEF r
<1>3. calls' \in [Kinds -> Calling]
  BY <1>1, <1>2 DEF CallTypes
<1>4. calls'["form"] = calls["form"] \/ (kind = "form" /\ calls'["form"] = r)
  BY <1>2 DEF CallTypes, Kinds
<1> QED
  BY <1>1, <1>3, <1>4 DEF CallTypes

LEMMA DisownedTyped ==
    ASSUME CallTypes, calls' = [k \in Kinds |-> [calls[k] EXCEPT !.mine = FALSE]]
    PROVE  CallTypes'
<1>1. ASSUME NEW k \in Kinds
      PROVE  /\ [calls[k] EXCEPT !.mine = FALSE] \in Calling
             /\ [calls[k] EXCEPT !.mine = FALSE].from = calls[k].from
             /\ [calls[k] EXCEPT !.mine = FALSE].to = calls[k].to
             /\ [calls[k] EXCEPT !.mine = FALSE].at = calls[k].at
  BY DEF CallTypes, Calling
<1>2. calls' \in [Kinds -> Calling]
  BY <1>1
<1>3. /\ calls'["form"].from = calls["form"].from /\ calls'["form"].to = calls["form"].to
      /\ calls'["form"].at = calls["form"].at
  BY <1>1 DEF Kinds
<1> QED
  BY <1>2, <1>3 DEF CallTypes

LEMMA GestureTyped ==
    ASSUME AnswerTypes, PageTypes, CallTypes, Gesture
    PROVE  AnswerTypes' /\ PageTypes' /\ CallTypes' /\ table' = table
<1>0. <<AllLinks, 1>> \in Keys /\ \A s \in Searches : <<s, 1>> \in Keys
  BY FirstPage, LinksAssumption DEF Keys
<1>1. Rows(shown) \in SUBSET Codes
  BY RowsAreCodes DEF AnswerTypes
<1>2. AnswerTypes' => Rows(shown') \in SUBSET Codes
  BY RowsAreCodes DEF AnswerTypes
<1>3. ASSUME UNCHANGED queryVars PROVE AnswerTypes'
  BY <1>3 DEF queryVars, AnswerTypes, FetchTypes
<1>4. ASSUME UNCHANGED calls PROVE CallTypes'
  BY <1>4 DEF CallTypes
<1>5. CASE MountLinks
  <2>1. AnswerTypes'
    <3>1. FetchTypes(fetches')
      BY <1>0, <1>5, JoinedTyped DEF MountLinks, AnswerTypes
    <3>2. shown' \in SUBSET Listings /\ AtMost(shown') /\ results' = results
      BY <1>0, <1>5 DEF MountLinks, AnswerTypes
    <3> QED
      BY <3>1, <3>2 DEF AnswerTypes
  <2>2. PageTypes'
    BY <1>0, <1>2, <1>5, <2>1 DEF MountLinks, PageTypes
  <2> QED
    BY <1>4, <1>5, <2>1, <2>2 DEF MountLinks
<1>6. CASE UnmountLinks
  <2>1. AnswerTypes'
    BY <1>6 DEF UnmountLinks, AnswerTypes, AtMost
  <2>2. PageTypes'
    BY <1>0, <1>6 DEF UnmountLinks, PageTypes, AtMost
  <2>3. CallTypes'
    BY <1>6, DisownedTyped DEF UnmountLinks
  <2> QED
    BY <1>6, <2>1, <2>2, <2>3 DEF UnmountLinks
<1>7. CASE Refresh
  <2>1. FetchTypes(fetches')
    BY <1>7, InvalidateTyped DEF Refresh, AnswerTypes, PageTypes
  <2>2. AnswerTypes'
    BY <1>7, <2>1 DEF Refresh, AnswerTypes
  <2> QED
    BY <1>4, <1>7, <2>2 DEF Refresh, uiVars, PageTypes
<1>8. CASE TogglePage
  BY <1>1, <1>3, <1>4, <1>8 DEF TogglePage, PageTypes
<1>9. ASSUME NEW c \in Codes, Tick(c)
      PROVE  AnswerTypes' /\ PageTypes' /\ CallTypes' /\ table' = table
  BY <1>3, <1>4, <1>9 DEF Tick, PageTypes
<1>10. ASSUME NEW s \in Searches, SetSearch(s)
       PROVE  AnswerTypes' /\ PageTypes' /\ CallTypes' /\ table' = table
  <2>1. AnswerTypes' /\ key' = <<s, 1>>
    BY <1>0, <1>10, ShowTyped DEF SetSearch, Show
  <2> QED
    BY <1>0, <1>2, <1>4, <1>10, <2>1 DEF SetSearch, PageTypes
<1>11. ASSUME NEW p \in Pages, TurnPage(p)
       PROVE  AnswerTypes' /\ PageTypes' /\ CallTypes' /\ table' = table
  <2>1. <<key[1], p>> \in Keys
    BY DEF PageTypes, Keys
  <2>2. AnswerTypes' /\ key' = <<key[1], p>>
    BY <1>11, <2>1, ShowTyped DEF TurnPage, Show
  <2> QED
    BY <1>2, <1>4, <1>11, <2>1, <2>2 DEF TurnPage, PageTypes
<1>12. ASSUME NEW d, NEW on, Opened(d, on), PageTypes'
       PROVE  AnswerTypes' /\ PageTypes' /\ CallTypes' /\ table' = table
  BY <1>3, <1>4, <1>12 DEF Opened
<1>13. CASE OpenBulk
  BY <1>12, <1>13, OpenedTyped DEF OpenBulk, AtMost
<1>14. ASSUME NEW d, OpenEmpty(d) \/ \E c \in Codes : OpenRow(d, c)
       PROVE  AnswerTypes' /\ PageTypes' /\ CallTypes' /\ table' = table
  <2>1. PICK on \in SUBSET Codes : AtMost(on) /\ Opened(d, on)
    BY <1>14 DEF OpenEmpty, OpenRow, AtMost
  <2>2. d \in {"delete", "bulk", "expired", "form", "import", "batch"}
    BY <1>14 DEF OpenEmpty, OpenRow
  <2>3. PageTypes'
    BY <2>1, <2>2, OpenedTyped
  <2> QED
    BY <1>12, <2>1, <2>3
<1>15. ASSUME NEW d, Cancel(d)
       PROVE  AnswerTypes' /\ PageTypes' /\ CallTypes' /\ table' = table
  <2>1. subject' = subject \/ subject' = {}
    BY <1>15 DEF Cancel
  <2> QED
    BY <1>3, <1>4, <1>15, <2>1 DEF Cancel, PageTypes, AtMost
<1>16. ASSUME NEW kind, NEW from, NEW to, Send(kind, from, to)
       PROVE  AnswerTypes' /\ PageTypes' /\ table' = table
  BY <1>3, <1>16 DEF Send, uiVars, PageTypes
<1>17. CASE \/ ConfirmDelete \/ ConfirmBulk \/ ClearExpired \/ ConfirmExpired
            \/ (\E cs \in SUBSET Codes : SubmitImport(cs))
  BY <1>16, <1>17, SentTyped DEF ConfirmDelete, ConfirmBulk, ClearExpired, ConfirmExpired,
     SubmitImport, Kinds, PageTypes
<1>18. ASSUME NEW c \in Codes, SubmitForm(c)
       PROVE  AnswerTypes' /\ PageTypes' /\ CallTypes' /\ table' = table
  <2>1. Send("form", subject, {c})
    BY <1>18 DEF SubmitForm
  <2>2. CallTypes'
    BY <2>1, SentTyped DEF Kinds, PageTypes
  <2> QED
    BY <1>16, <2>1, <2>2
<1> QED
  BY <1>5, <1>6, <1>7, <1>8, <1>9, <1>10, <1>11, <1>13, <1>14, <1>15, <1>17, <1>18 DEF Gesture

LEMMA CallMoves ==
    ASSUME CallTypes, NEW kind \in Kinds, NEW c \in Calling, calls' = [calls EXCEPT ![kind] = c],
           kind = "form" => AtMost(c.from) /\ (c.at # "idle" => \E x \in Codes : c.to = {x})
    PROVE  CallTypes'
<1>1. calls' \in [Kinds -> Calling]
  BY DEF CallTypes
<1>2. calls'["form"] = calls["form"] \/ (kind = "form" /\ calls'["form"] = c)
  BY DEF CallTypes, Kinds
<1> QED
  BY <1>1, <1>2 DEF CallTypes

\* What the server does keeps the codes of the table distinct.
LEMMA AfterIsDistinct ==
    ASSUME TableTypes, CallTypes, NEW kind \in Kinds, calls[kind].at = "sent", ~Refused(kind),
           table' \in After(kind)
    PROVE  TableTypes'
<1> DEFINE c == calls[kind]
<1>1. c \in Calling
  BY DEF CallTypes
<1>2. CASE kind \in {"delete", "bulk"}
  <2>1. table' = Without(c.from)
    BY <1>2 DEF After
  <2> QED
    BY <2>1, WithoutIsDistinct DEF TableTypes
<1>3. CASE kind = "expired"
  <2>1. table' = Without(Expired)
    BY <1>3 DEF After
  <2> QED
    BY <2>1, WithoutIsDistinct DEF TableTypes
<1>4. CASE kind = "count"
  BY <1>4 DEF After, TableTypes
<1>5. CASE kind = "form" /\ c.from # {}
  <2>1. PICK x \in Codes : c.to = {x}
    BY <1>5 DEF CallTypes
  <2>2. c.from \in SUBSET Live /\ AtMost(c.from) /\ (c.to \ c.from) \cap Live = {}
    BY <1>5 DEF Refused, CallTypes
  <2>3. table' = [i \in DOMAIN table |-> IF table[i] \in c.from THEN CHOOSE y \in c.to : TRUE
                                                                 ELSE table[i]]
    BY <1>5 DEF After
  <2> HIDE DEF c
  <2>4. table' \in Seq(Codes) /\ Distinct(table')
    BY <2>1, <2>2, <2>3, RenamedIsDistinct
  <2> QED
    BY <2>4 DEF TableTypes
<1>6. CASE kind = "form" /\ c.from = {}
  <2>1. table' \in Added(c.to \ Live)
    BY <1>6 DEF After
  <2>2. c.to \ Live \in SUBSET Codes /\ (c.to \ Live) \cap Live = {}
    BY <1>1 DEF Calling
  <2> HIDE DEF c
  <2>3. table' \in Seq(Codes) /\ Distinct(table')
    BY <2>1, <2>2, AddedIsDistinct
  <2> QED
    BY <2>3 DEF TableTypes
<1>7. CASE kind = "import"
  <2>1. table' \in Imported(c.to \ Live)
    BY <1>7 DEF After
  <2>2. (c.to \ Live) \cup Live \in SUBSET Codes
    BY <1>1 DEF Calling, TableTypes, Live
  <2> HIDE DEF c
  <2>3. table' \in Seq(Codes) /\ Distinct(table')
    BY <2>1, <2>2, ImportedIsDistinct
  <2> QED
    BY <2>3 DEF TableTypes
<1> QED
  BY <1>2, <1>3, <1>4, <1>5, <1>6, <1>7 DEF Kinds

LEMMA CallsTyped ==
    ASSUME TableTypes, AnswerTypes, PageTypes, CallTypes, NEW kind \in Kinds,
           CallServed(kind) \/ CallSettles(kind) \/ CallFails(kind)
    PROVE  TableTypes' /\ AnswerTypes' /\ PageTypes' /\ CallTypes'
<1>1. /\ calls[kind] \in Calling /\ calls[kind].from \in SUBSET Codes
      /\ kind = "form" => AtMost(calls[kind].from)
      /\ kind = "form" /\ calls[kind].at # "idle" => \E x \in Codes : calls[kind].to = {x}
  BY DEF CallTypes, Calling
<1>2. ASSUME NEW at \in {"ok", "error"}, NEW from \in SUBSET Codes,
             kind = "form" => from = calls[kind].from, calls[kind].at # "idle",
             calls' = [calls EXCEPT ![kind] = [calls[kind] EXCEPT !.at = at, !.from = from]]
      PROVE  CallTypes'
  <2> DEFINE c == [calls[kind] EXCEPT !.at = at, !.from = from]
  <2>1. c \in Calling /\ c.from = from /\ c.to = calls[kind].to
    BY <1>1 DEF Calling
  <2>2. calls' = [calls EXCEPT ![kind] = c]
    BY <1>2
  <2> HIDE DEF c
  <2>3. kind = "form" => AtMost(c.from) /\ (c.at # "idle" => \E x \in Codes : c.to = {x})
    BY <1>1, <1>2, <2>1
  <2> QED
    BY <2>1, <2>2, <2>3, CallMoves
<1>3. ASSUME NEW at \in {"ok", "error"}, calls[kind].at # "idle",
             calls' = [calls EXCEPT ![kind].at = at]
      PROVE  CallTypes'
  <2>1. [calls[kind] EXCEPT !.at = at] = [calls[kind] EXCEPT !.at = at, !.from = calls[kind].from]
    BY <1>1 DEF Calling
  <2>2. calls' = [calls EXCEPT ![kind] = [calls[kind] EXCEPT !.at = at]]
    BY <1>3
  <2> QED
    BY <1>1, <1>2, <1>3, <2>1, <2>2
<1>4. CASE CallServed(kind)
  <2>1. /\ UNCHANGED <<results, fetches, shown, key, selected, dialog, subject, seen>>
        /\ calls[kind].at = "sent"
    BY <1>4 DEF CallServed, queryVars, uiVars
  <2>2. AnswerTypes' /\ PageTypes'
    BY <2>1 DEF AnswerTypes, FetchTypes, PageTypes
  <2>3. CASE Refused(kind)
    <3>1. calls' = [calls EXCEPT ![kind].at = "error"] /\ table' = table
      BY <1>4, <2>3 DEF CallServed
    <3>2. CallTypes'
      BY <1>3, <2>1, <3>1
    <3> QED
      BY <2>2, <3>1, <3>2 DEF TableTypes
  <2>4. CASE ~Refused(kind)
    <3>1. table' \in After(kind)
      BY <1>4, <2>4 DEF CallServed
    <3>2. TableTypes'
      BY <2>1, <2>4, <3>1, AfterIsDistinct
    <3> DEFINE from == IF kind = "count" THEN Live \cap Expired ELSE calls[kind].from
    <3>3. calls' = [calls EXCEPT ![kind] = [calls[kind] EXCEPT !.at = "ok", !.from = from]]
      BY <1>1, <1>4, <2>4 DEF CallServed, Calling, CallTypes
    <3>4. from \in SUBSET Codes /\ (kind = "form" => from = calls[kind].from)
      BY <1>1, LinksAssumption
    <3> HIDE DEF from
    <3>5. CallTypes'
      BY <1>2, <2>1, <3>3, <3>4
    <3> QED
      BY <2>2, <3>2, <3>5
  <2> QED
    BY <2>3, <2>4
<1>5. CASE CallFails(kind)
  <2>1. /\ UNCHANGED <<table, results, fetches, shown, key, selected, dialog, subject, seen>>
        /\ calls' = [calls EXCEPT ![kind].at = "error"] /\ calls[kind].at # "idle"
    BY <1>5 DEF CallFails, queryVars, uiVars
  <2>2. CallTypes'
    BY <1>3, <2>1
  <2> QED
    BY <2>1, <2>2 DEF TableTypes, AnswerTypes, FetchTypes, PageTypes
<1>6. CASE CallSettles(kind)
  <2>1. UNCHANGED <<table, key, results, shown, seen>> /\ calls' = [calls EXCEPT ![kind] = NoCall]
    BY <1>6 DEF CallSettles
  <2>2. NoCall \in Calling /\ AtMost(NoCall.from) /\ NoCall.at = "idle"
    BY DEF NoCall, Calling, AtMost
  <2>3. CallTypes'
    BY <2>1, <2>2, CallMoves
  <2>4. FetchTypes(fetches')
    BY <1>6, InvalidateTyped DEF CallSettles, AnswerTypes, PageTypes
  <2>5. AnswerTypes'
    BY <2>1, <2>4 DEF AnswerTypes
  <2>6. /\ subject' = subject \/ subject' = {}
        /\ selected' = selected \/ selected' = {}
        /\ dialog' \subseteq dialog \cup {"expired"}
    BY <1>6 DEF CallSettles, Closed
  <2>7. subject' \in SUBSET Codes /\ AtMost(subject')
    BY <1>6 DEF CallSettles, PageTypes, AtMost
  <2>8. selected' \in SUBSET Codes
    BY <1>6 DEF CallSettles, PageTypes
  <2>9. PageTypes'
    BY <2>1, <2>6, <2>7, <2>8 DEF PageTypes
  <2> QED
    BY <2>1, <2>3, <2>5, <2>9 DEF TableTypes
<1> QED
  BY <1>4, <1>5, <1>6

LEMMA OtherWriterTyped ==
    ASSUME TableTypes, AnswerTypes, PageTypes, CallTypes, OtherWriter
    PROVE  TableTypes' /\ AnswerTypes' /\ PageTypes' /\ CallTypes'
<1>1. PICK c \in Codes : table' = IF c \in Live THEN Without({c}) ELSE <<c>> \o table
  BY DEF OtherWriter
<1>2. ASSUME c \in Live PROVE TableTypes'
  BY <1>1, <1>2, WithoutIsDistinct DEF TableTypes
<1>3. ASSUME c \notin Live PROVE TableTypes'
  <2>1. table \in Seq(Codes) /\ Distinct(table) /\ \A i \in DOMAIN table : table[i] # c
    BY <1>3 DEF TableTypes, Live
  <2>2. <<c>> \in Seq(Codes) /\ Len(<<c>>) = 1 /\ <<c>>[1] = c
    OBVIOUS
  <2>3. /\ table' \in Seq(Codes) /\ DOMAIN table' = 1..(1 + Len(table))
        /\ Len(table) \in Nat /\ DOMAIN table = 1..Len(table)
        /\ \A i \in 1..(1 + Len(table)) : table'[i] = IF i <= 1 THEN c ELSE table[i - 1]
    BY <1>1, <1>3, <2>1, <2>2
  <2>4. ASSUME NEW i \in DOMAIN table', NEW j \in DOMAIN table', table'[i] = table'[j] PROVE i = j
    <3>1. ASSUME NEW k \in DOMAIN table', k # 1
          PROVE  k - 1 \in DOMAIN table /\ table'[k] = table[k - 1]
      BY <2>3, <3>1
    <3>2. CASE i = 1 \/ j = 1
      BY <2>1, <2>3, <2>4, <3>1, <3>2
    <3>3. CASE i # 1 /\ j # 1
      <4>1. i - 1 = j - 1
        BY <2>1, <2>4, <3>1, <3>3 DEF Distinct
      <4> QED
        BY <2>3, <4>1
    <3> QED
      BY <3>2, <3>3
  <2> QED
    BY <2>3, <2>4 DEF TableTypes, Distinct
<1>4. UNCHANGED <<results, fetches, shown, key, selected, dialog, subject, seen, calls>>
  BY DEF OtherWriter, queryVars, uiVars
<1>5. AnswerTypes' /\ PageTypes' /\ CallTypes'
  BY <1>4 DEF AnswerTypes, FetchTypes, PageTypes, CallTypes
<1> QED
  BY <1>2, <1>3, <1>5

-----------------------------------------------------------------------------
(* The types: the batch dialog.                                            *)

Submission == [at: {"idle", "sent", "ok", "error"}, lines: Seq(Codes), items: Seq(Codes),
               made: SUBSET Nat, mine: BOOLEAN]
SubmissionTypes == batch \in Submission /\ batch.made \subseteq DOMAIN batch.items
ListTypes ==
    /\ failures \in Seq(Codes) /\ errorLines \subseteq Nat
    /\ refused \in SUBSET Codes /\ created \in SUBSET Codes
EditorTypes == focused \in BOOLEAN /\ busy \in BOOLEAN

LEMMA BatchTypeParts ==
    Matched /\ SubmissionTypes /\ ListTypes /\ EditorTypes => BatchTypeOK
BY DEF Matched, SubmissionTypes, Submission, ListTypes, EditorTypes, BatchTypeOK

\* Made are items, by their position.
LEMMA MadeAreItems ==
    ASSUME NEW codes \in Seq(Codes), NEW valid \in SUBSET DOMAIN codes
    PROVE  MadeOf(codes, valid) \subseteq DOMAIN codes /\ MadeOf(codes, valid) \subseteq Nat
BY DEF MadeOf

LEMMA SubmissionTyped ==
    ASSUME SubmissionTypes, Matched, Matched', LinksPageNext PROVE SubmissionTypes'
<1>1. CASE batch' = batch
  BY <1>1 DEF SubmissionTypes
<1>2. CASE batch' = [batch EXCEPT !.mine = FALSE]
  BY <1>2 DEF SubmissionTypes, Submission
<1>3. ASSUME NEW c \in Seq(Codes),
             batch' = [at |-> "sent", lines |-> c, items |-> c, made |-> {}, mine |-> TRUE]
      PROVE  SubmissionTypes'
  BY <1>3 DEF SubmissionTypes, Submission
<1>4. CASE Create \/ Retry
  <2>1. batch' = batch \/ Submit(validLines', items') \/ Submit(validLines, items)
    BY <1>4 DEF Create, Retry
  <2>2. validLines' = items' /\ items' \in Seq(Codes) /\ validLines = items /\ items \in Seq(Codes)
    BY DEF Matched
  <2>3. \/ batch' = batch
        \/ batch' = [at |-> "sent", lines |-> items', items |-> items', made |-> {}, mine |-> TRUE]
        \/ batch' = [at |-> "sent", lines |-> items, items |-> items, made |-> {}, mine |-> TRUE]
    BY <2>1, <2>2 DEF Submit
  <2> QED
    BY <1>1, <1>3, <2>2, <2>3
<1>5. CASE BatchServed
  <2>0. PICK valid \in SUBSET DOMAIN batch.items :
           batch' = [batch EXCEPT !.at = "ok", !.made = MadeOf(batch.items, valid)]
    BY <1>5 DEF BatchServed
  <2> DEFINE made == MadeOf(batch.items, valid)
  <2>1. batch' = [batch EXCEPT !.at = "ok", !.made = made]
    BY <2>0
  <2>2. made \subseteq DOMAIN batch.items /\ made \subseteq Nat
    BY MadeAreItems DEF Matched
  <2> HIDE DEF made
  <2> QED
    BY <2>1, <2>2 DEF SubmissionTypes, Submission
<1>6. CASE BatchFails
  <2>1. batch' = [batch EXCEPT !.at = "error"]
    BY <1>6 DEF BatchFails
  <2> QED
    BY <2>1 DEF SubmissionTypes, Submission
<1>7. CASE BatchSettles
  <2>1. batch' = [at |-> "idle", lines |-> <<>>, items |-> <<>>, made |-> {}, mine |-> FALSE]
    BY <1>7 DEF BatchSettles, NoBatch
  <2>2. <<>> \in Seq(Codes)
    OBVIOUS
  <2> QED
    BY <2>1, <2>2 DEF SubmissionTypes, Submission
<1> QED
  BY <1>1, <1>2, <1>4, <1>5, <1>6, <1>7
  DEF LinksPageNext, LinksPageUser, LinksPageStep, ForgetBatch, BatchGesture, OpenBatch,
      CloseBatch, Blur, EditText, batchVars

LEMMA ListsTyped ==
    ASSUME ListTypes, SubmissionTypes, Matched, LinksPageNext PROVE ListTypes'
<1>0. /\ text \in Seq(Codes \cup {Comment, Malformed}) /\ <<>> \in Seq(Codes)
      /\ batch.items \in Seq(Codes) /\ batch.lines = batch.items
  BY DEF Matched
<1>1. CASE UNCHANGED <<failures, errorLines, refused, created>>
  BY <1>1 DEF ListTypes
<1>2. CASE Blank /\ (refused' = refused \/ refused' = {}) /\ created' = {}
  BY <1>0, <1>2 DEF Blank, ListTypes
<1>3. CASE \E t \in Texts : EditText(t)
  BY <1>3 DEF EditText, ListTypes
<1>4. CASE Blur \/ Create
  <2>1. ErrorLines(text) \subseteq Nat
    BY <1>0 DEF ErrorLines
  <2>2. errorLines' = ErrorLines(text) /\ UNCHANGED <<failures, refused, created>>
    BY <1>4 DEF Blur, Create, Validate
  <2> QED
    BY <2>1, <2>2 DEF ListTypes
<1>5. CASE BatchServed
  <2>0. PICK valid \in SUBSET DOMAIN batch.items :
           created' = created \cup {batch.items[i] : i \in MadeOf(batch.items, valid)}
    BY <1>5 DEF BatchServed
  <2>1. {batch.items[i] : i \in MadeOf(batch.items, valid)} \in SUBSET Codes
    BY <1>0, MadeAreItems
  <2> QED
    BY <1>5, <2>0, <2>1 DEF BatchServed, ListTypes
<1>6. CASE BatchSettles
  <2>1. CASE batch.at = "ok" /\ batch.mine
    <3>1. failures' \in Seq(Codes)
      BY <1>6, <2>1, AnswerMatches
    <3>2. refused' \in SUBSET Codes
      <4>1. refused' = {batch.items[i] : i \in DOMAIN batch.items \ batch.made}
        BY <1>6, <2>1 DEF BatchSettles
      <4> QED
        BY <1>0, <4>1
    <3> QED
      BY <1>6, <3>1, <3>2 DEF BatchSettles, ListTypes
  <2>2. CASE ~(batch.at = "ok" /\ batch.mine)
    BY <1>1, <1>6, <2>2 DEF BatchSettles
  <2> QED
    BY <2>1, <2>2
<1> QED
  BY <1>1, <1>2, <1>3, <1>4, <1>5, <1>6
  DEF LinksPageNext, LinksPageUser, LinksPageStep, ForgetBatch, BatchGesture, OpenBatch,
      CloseBatch, Retry, BatchFails, batchVars

LEMMA EditorTyped == ASSUME EditorTypes, LinksPageNext PROVE EditorTypes'
<1>1. focused' = focused \/ focused' = TRUE \/ focused' = FALSE
  BY DEF LinksPageNext, LinksPageUser, LinksPageStep, ForgetBatch, BatchGesture, OpenBatch,
     CloseBatch, Blur, EditText, Create, Retry, BatchServed, BatchSettles, BatchFails, batchVars
<1>2. \/ busy' = busy \/ busy' = TRUE \/ busy' = FALSE
      \/ busy' = (busy /\ ~batch.mine)
  BY DEF LinksPageNext, LinksPageUser, LinksPageStep, ForgetBatch, BatchGesture, OpenBatch,
     CloseBatch, Blur, EditText, Create, Retry, Submit, BatchServed, BatchSettles, BatchFails,
     batchVars
<1>3. focused' \in BOOLEAN
  BY <1>1, Zenon DEF EditorTypes
<1>4. busy' \in BOOLEAN
  BY <1>2, Zenon DEF EditorTypes
<1> QED
  BY <1>3, <1>4, Zenon DEF EditorTypes

\* What the dialog does to the page.
LEMMA BatchTypesPage ==
    ASSUME TableTypes, AnswerTypes, PageTypes, CallTypes, Matched,
           BatchGesture \/ BatchServed \/ BatchSettles \/ BatchFails
    PROVE  TableTypes' /\ AnswerTypes' /\ PageTypes' /\ CallTypes'
<1>1. calls' = calls /\ results' = results /\ shown' = shown
  BY DEF BatchGesture, OpenBatch, CloseBatch, Blur, EditText, Create, Retry, BatchServed,
     BatchSettles, BatchFails, linksFrame, queryVars, uiVars
<1>2. /\ key' = key /\ selected' = selected /\ seen' = seen /\ subject' = subject
      /\ dialog' \subseteq dialog \cup {"batch"}
  BY DEF BatchGesture, OpenBatch, CloseBatch, Blur, EditText, Create, Retry, BatchServed,
     BatchSettles, BatchFails, linksFrame, queryVars, uiVars
<1>3. fetches' = fetches \/ Invalidate
  BY DEF BatchGesture, OpenBatch, CloseBatch, Blur, EditText, Create, Retry, BatchServed,
     BatchSettles, BatchFails, linksFrame, queryVars
<1>4. FetchTypes(fetches')
  BY <1>3, InvalidateTyped DEF AnswerTypes, PageTypes
<1>5. table' = table \/ BatchServed
  BY DEF BatchGesture, OpenBatch, CloseBatch, Blur, EditText, Create, Retry, BatchSettles,
     BatchFails, linksFrame
<1>6. ASSUME BatchServed PROVE TableTypes'
  <2>0. PICK valid \in SUBSET DOMAIN batch.items :
           table' \in Added({batch.items[i] : i \in MadeOf(batch.items, valid)})
    BY <1>6 DEF BatchServed
  <2> DEFINE new == {batch.items[i] : i \in MadeOf(batch.items, valid)}
  <2>1. table' \in Added(new)
    BY <2>0
  <2>2. new \in SUBSET Codes /\ new \cap Live = {}
    BY DEF Matched, MadeOf
  <2> HIDE DEF new
  <2> QED
    BY <2>1, <2>2, AddedIsDistinct DEF TableTypes
<1>7. TableTypes'
  BY <1>5, <1>6 DEF TableTypes
<1> QED
  BY <1>1, <1>2, <1>4, <1>7 DEF AnswerTypes, PageTypes, CallTypes

-----------------------------------------------------------------------------
(* The types together.                                                     *)

SwitchTypes ==
    /\ linksOpen \in BOOLEAN /\ astray \in BOOLEAN
    /\ gestures \in 0..MaxGestures /\ troubles \in 0..MaxTroubles

LEMMA SwitchesTyped == ASSUME SwitchTypes, LinksPageNext PROVE SwitchTypes'
<1>1. linksOpen' = linksOpen \/ linksOpen' = TRUE \/ linksOpen' = FALSE
  BY DEF LinksPageNext, LinksPageUser, LinksPageStep, Gesture, MountLinks, UnmountLinks, Refresh,
     TogglePage, SetSearch, TurnPage, Tick, SubmitForm, OpenBulk, OpenEmpty, OpenRow, Opened,
     Cancel, ConfirmDelete, ConfirmBulk, ClearExpired, ConfirmExpired, SubmitImport, Send,
     BatchGesture, OpenBatch, CloseBatch, Blur, EditText, Create, Retry, linksFrame,
     LinksServer, CallServed, CallSettles, LinksQuery, ListServed, ListArrives, LinksTrouble,
     OtherWriter, ListFails, CallFails, BatchServed, BatchSettles, BatchFails
<1>2. astray' \in BOOLEAN
  <2>1. ASSUME Invalidate PROVE astray' \in BOOLEAN
    <3>1. astray' = (astray \/ \E k \in Keys : Outrun(k))
      BY <2>1 DEF Invalidate
    <3> QED
      BY <3>1, Zenon
  <2>2. \/ astray' = astray \/ astray' = TRUE \/ Invalidate
        \/ astray' = (astray \/ batch.at = "ok")
        \/ \E kind \in Kinds : astray' = (astray \/ calls[kind].at = "ok")
    BY DEF LinksPageNext, LinksPageUser, LinksPageStep, Gesture, MountLinks, UnmountLinks,
       Refresh, TogglePage, SetSearch, TurnPage, Tick, SubmitForm, OpenBulk, OpenEmpty, OpenRow,
       Opened, Cancel, ConfirmDelete, ConfirmBulk, ClearExpired, ConfirmExpired, SubmitImport,
       Send, BatchGesture, OpenBatch, CloseBatch, Blur, EditText, Create, Retry, linksFrame,
       LinksServer, CallServed, CallSettles, LinksQuery, ListServed, ListArrives, LinksTrouble,
       OtherWriter, ListFails, CallFails, BatchServed, BatchSettles, BatchFails
  <2>3. astray \in BOOLEAN
    BY DEF SwitchTypes
  <2> QED
    BY <2>1, <2>2, <2>3, Zenon
<1>3. gestures' = gestures \/ (gestures < MaxGestures /\ gestures' = gestures + 1)
  BY DEF LinksPageNext, LinksPageUser, LinksPageStep, linkBounds,
     LinksServer, CallServed, CallSettles, LinksQuery, ListServed, ListArrives, LinksTrouble,
     OtherWriter, ListFails, CallFails, BatchServed, BatchSettles, BatchFails
<1>4. troubles' = troubles \/ (troubles < MaxTroubles /\ troubles' = troubles + 1)
  BY DEF LinksPageNext, LinksPageUser, LinksPageStep, linkBounds, Gesture, MountLinks,
     UnmountLinks, Refresh, TogglePage, SetSearch, TurnPage, Tick, SubmitForm, OpenBulk,
     OpenEmpty, OpenRow, Opened, Cancel, ConfirmDelete, ConfirmBulk, ClearExpired,
     ConfirmExpired, SubmitImport, Send, BatchGesture, OpenBatch, CloseBatch, Blur, EditText,
     Create, Retry, linksFrame, LinksServer, CallServed, CallSettles, LinksQuery, ListServed,
     ListArrives, LinksTrouble, OtherWriter, ListFails, CallFails, BatchServed, BatchSettles,
     BatchFails
<1>5. linksOpen' \in BOOLEAN
  BY <1>1, Zenon DEF SwitchTypes
<1>6. gestures' \in 0..MaxGestures /\ troubles' \in 0..MaxTroubles
  BY <1>3, <1>4, LinksAssumption DEF SwitchTypes
<1> QED
  BY <1>2, <1>5, <1>6 DEF SwitchTypes

LinksTyped ==
    /\ TableTypes /\ AnswerTypes /\ PageTypes /\ CallTypes /\ SwitchTypes
    /\ Matched /\ SubmissionTypes /\ ListTypes /\ EditorTypes

LEMMA LinksStepTyped == LinksTyped /\ [LinksPageNext]_LinksPageVars => LinksTyped'
<1> SUFFICES ASSUME LinksTyped, [LinksPageNext]_LinksPageVars PROVE LinksTyped'
  OBVIOUS
<1>0. /\ TableTypes /\ AnswerTypes /\ PageTypes /\ CallTypes /\ SwitchTypes
      /\ Matched /\ SubmissionTypes /\ ListTypes /\ EditorTypes /\ Matched'
  BY BatchStepMatches DEF LinksTyped
<1>1. CASE LinksPageNext
  <2>1. SwitchTypes' /\ SubmissionTypes' /\ ListTypes' /\ EditorTypes'
    BY <1>0, <1>1, SwitchesTyped, SubmissionTyped, ListsTyped, EditorTyped
  <2>2. TableTypes' /\ AnswerTypes' /\ PageTypes' /\ CallTypes'
    <3>1. CASE Gesture
      BY <1>0, <3>1, GestureTyped DEF TableTypes
    <3>2. CASE BatchGesture \/ BatchServed \/ BatchSettles \/ BatchFails
      BY <1>0, <3>2, BatchTypesPage
    <3>3. ASSUME NEW kind \in Kinds, CallServed(kind) \/ CallSettles(kind) \/ CallFails(kind)
          PROVE  TableTypes' /\ AnswerTypes' /\ PageTypes' /\ CallTypes'
      BY <1>0, <3>3, CallsTyped
    <3>4. ASSUME NEW k \in Keys, ListServed(k) \/ ListArrives(k) \/ ListFails(k)
          PROVE  TableTypes' /\ AnswerTypes' /\ PageTypes' /\ CallTypes'
      <4>1. AnswerTypes'
        BY <1>0, <3>4, QueriesTyped
      <4>2. UNCHANGED <<table, key, selected, dialog, subject, calls>>
        BY <3>4 DEF ListServed, ListArrives, ListFails, uiVars
      <4>3. seen' = seen \/ seen' = seen \cup Rows(shown')
        BY <3>4 DEF ListServed, ListArrives, ListFails
      <4>4. Rows(shown') \in SUBSET Codes
        BY <4>1, RowsAreCodes DEF AnswerTypes
      <4>5. PageTypes'
        BY <1>0, <4>2, <4>3, <4>4 DEF PageTypes
      <4> QED
        BY <1>0, <4>1, <4>2, <4>5 DEF TableTypes, CallTypes
    <3>5. CASE OtherWriter
      BY <1>0, <3>5, OtherWriterTyped
    <3> QED
      BY <1>1, <3>1, <3>2, <3>3, <3>4, <3>5
      DEF LinksPageNext, LinksPageUser, LinksPageStep, LinksServer, LinksQuery, LinksTrouble
  <2> QED
    BY <1>0, <2>1, <2>2 DEF LinksTyped
<1>2. CASE UNCHANGED LinksPageVars
  <2>1. /\ UNCHANGED <<table, linksOpen, results, fetches, shown, key, selected, dialog, subject,
                      calls, gestures, troubles, seen, astray>>
        /\ UNCHANGED <<failures, errorLines, refused, created, focused, busy, batch>>
    BY <1>2 DEF LinksPageVars, linksVars, batchVars, queryVars, uiVars, linkBounds
  <2>2. TableTypes' /\ AnswerTypes' /\ PageTypes' /\ CallTypes'
    BY <1>0, <2>1 DEF TableTypes, AnswerTypes, FetchTypes, PageTypes, CallTypes
  <2>3. SwitchTypes' /\ SubmissionTypes' /\ ListTypes' /\ EditorTypes'
    BY <1>0, <2>1 DEF SwitchTypes, SubmissionTypes, ListTypes, EditorTypes
  <2> QED
    BY <1>0, <2>2, <2>3 DEF LinksTyped
<1> QED
  BY <1>1, <1>2

LEMMA AtMostIsOne == ASSUME NEW S, AtMost(S) PROVE Cardinality(S) <= 1
<1>1. S = {} \/ \E x : S = {x}
  BY DEF AtMost
<1>2. Cardinality(S) = 0 \/ Cardinality(S) = 1
  BY <1>1, FS_EmptySet, FS_Singleton, Zenon
<1> QED
  BY <1>2

LEMMA LinksTypedIsTypeOK == LinksTyped => LinksTypeOK /\ BatchTypeOK
<1> SUFFICES ASSUME LinksTyped PROVE LinksTypeOK /\ BatchTypeOK
  OBVIOUS
<1>0. /\ TableTypes /\ AnswerTypes /\ PageTypes /\ CallTypes /\ SwitchTypes
      /\ Matched /\ SubmissionTypes /\ ListTypes /\ EditorTypes
  BY DEF LinksTyped
<1>1. BatchTypeOK
  BY <1>0, BatchTypeParts
<1>2. table \in UNION {[1..n -> Codes] : n \in 0..Cardinality(Codes)}
  <2>1. table \in Seq(Codes) /\ Len(table) \in 0..Cardinality(Codes)
    BY <1>0, DistinctIsShort DEF TableTypes
  <2>2. table \in [1..Len(table) -> Codes]
    BY <2>1
  <2> QED
    BY <2>1, <2>2
<1>3. Cardinality(shown) <= 1 /\ Cardinality(subject) <= 1
  BY <1>0, AtMostIsOne DEF AnswerTypes, PageTypes
<1>4. /\ results \in [Keys -> SUBSET Listings] /\ shown \in SUBSET Listings
      /\ fetches \in [Keys -> [at: {"idle", "sent", "answered"}, got: SUBSET Listings]]
  BY <1>0 DEF AnswerTypes, FetchTypes, Fetching
<1>5. calls \in [Kinds -> [at: {"idle", "sent", "ok", "error"},
                          from: SUBSET Codes, to: SUBSET Codes, mine: BOOLEAN]]
  BY <1>0 DEF CallTypes, Calling
<1>6. /\ key \in Keys /\ selected \in SUBSET Codes /\ seen \in SUBSET Codes
      /\ dialog \in SUBSET {"delete", "bulk", "expired", "form", "import", "batch"}
      /\ subject \in SUBSET Codes
  BY <1>0 DEF PageTypes
<1>7. LinksTypeOK
  BY <1>0, <1>2, <1>3, <1>4, <1>5, <1>6 DEF SwitchTypes, LinksTypeOK
<1> QED
  BY <1>1, <1>7

LEMMA LinksStartTyped == LinksPageInit => LinksTyped
<1> SUFFICES ASSUME LinksPageInit PROVE LinksTyped
  OBVIOUS
<1>1. TableTypes
  <2>1. PICK n \in 0..Cardinality(Codes) : table \in [1..n -> Codes]
    BY DEF LinksPageInit, LinksInit
  <2>2. n \in Nat
    BY LinksAssumption, FS_CardinalityType
  <2>3. table \in Seq(Codes)
    BY <2>1, <2>2, ListsAreSequences
  <2> QED
    BY <2>3 DEF LinksPageInit, LinksInit, TableTypes, Distinct
<1>2. NoFetch \in Fetching /\ AtMost(NoFetch.got) /\ AtMost({})
  BY NewFetchTyped DEF AtMost
<1>3. AnswerTypes
  BY <1>2 DEF LinksPageInit, LinksInit, AnswerTypes, FetchTypes
<1>4. <<AllLinks, 1>> \in Keys
  BY FirstPage, LinksAssumption DEF Keys
<1>5. PageTypes
  BY <1>2, <1>4 DEF LinksPageInit, LinksInit, PageTypes
<1>6. NoCall \in Calling /\ NoCall.from = {} /\ NoCall.at = "idle"
  BY DEF NoCall, Calling
<1>7. CallTypes
  BY <1>2, <1>6 DEF LinksPageInit, LinksInit, CallTypes, Kinds
<1>8. SwitchTypes
  <2>1. gestures \in 0..MaxGestures /\ troubles \in 0..MaxTroubles
    BY LinksAssumption DEF LinksPageInit, LinksInit
  <2>2. linksOpen \in BOOLEAN /\ astray \in BOOLEAN
    BY Zenon DEF LinksPageInit, LinksInit
  <2> QED
    BY <2>1, <2>2, Zenon DEF SwitchTypes
<1>9. Matched
  BY DEF LinksPageInit, BatchInit, NoBatch, Matched, FailuresAreReal, IsRecord
<1>10. SubmissionTypes
  <2>1. batch = NoBatch /\ <<>> \in Seq(Codes)
    BY DEF LinksPageInit, BatchInit
  <2> QED
    BY <2>1 DEF NoBatch, SubmissionTypes, Submission
<1>11. ListTypes /\ EditorTypes
  <2>1. failures = <<>> /\ errorLines = {} /\ refused = {} /\ created = {}
    BY DEF LinksPageInit, BatchInit
  <2>2. ListTypes
    BY <2>1 DEF ListTypes
  <2>3. EditorTypes
    BY Zenon DEF LinksPageInit, BatchInit, EditorTypes
  <2> QED
    BY <2>2, <2>3
<1> QED
  BY <1>1, <1>3, <1>5, <1>7, <1>8, <1>9, <1>10, <1>11 DEF LinksTyped

\* No code is in the table twice, however batches, imports and renames fall together, and so
\* the table is as long as there are codes at most; a query has one answer at most, of one
\* page; and what the dialogs send and list are codes, matched by position.
THEOREM LinksTypes == LinksPageSpec => [](LinksTypeOK /\ BatchTypeOK)
BY LinksStartTyped, LinksStepTyped, LinksTypedIsTypeOK, PTL DEF LinksPageSpec, LinksPageNext
=============================================================================
