---------------------------- MODULE BatchDialog ----------------------------
(***************************************************************************)
(* The batch dialog of the links page: lines typed into an editor, checked *)
(* when it loses focus, sent when they are all well formed, and matched    *)
(* with the server's results by their position.                            *)
(***************************************************************************)
EXTENDS LinksPage

CONSTANTS
    Texts,        \* what the editor can hold: sequences of lines
    Comment,      \* a line that is skipped: a comment or a blank line
    Malformed     \* a line with an error; any other line names the code it creates

ASSUME BatchAssumption ==
    /\ Comment \notin Codes /\ Malformed \notin Codes /\ Comment # Malformed
    /\ <<>> \in Texts /\ \A t \in Texts : t \in Seq(Codes \cup {Comment, Malformed})

VARIABLES
    text,         \* the editor's lines
    focused,      \* the editor has the focus
    items,        \* validation.items: the codes of the well-formed lines
    validLines,   \* validation.validLines: those lines
    errorLines,   \* validation.errorLines: the positions of the malformed ones
    failures,     \* the lines listed as failed
    busy,         \* a submission is under way
    batch,        \* it: [at, lines, items, made, mine]
    refused,      \* history: the codes that the server refused of the last answered one
    created       \* history: the codes it created since the text was last typed

batchVars == <<text, focused, items, validLines, errorLines, failures, busy, batch,
               refused, created>>

\* What a gesture in the dialog leaves alone.
linksFrame == <<table, linksOpen, queryVars, uiVars, calls, troubles, seen, astray>>

NoBatch == [at |-> "idle", lines |-> <<>>, items |-> <<>>, made |-> {}, mine |-> FALSE]

BatchTypeOK ==
    /\ text \in Seq(Codes \cup {Comment, Malformed})
    /\ items \in Seq(Codes) /\ validLines \in Seq(Codes) /\ failures \in Seq(Codes)
    /\ focused \in BOOLEAN /\ busy \in BOOLEAN
    /\ errorLines \subseteq Nat
    /\ batch \in [at: {"idle", "sent", "ok", "error"}, lines: Seq(Codes), items: Seq(Codes),
                  made: SUBSET Nat, mine: BOOLEAN]
    /\ batch.made \subseteq DOMAIN batch.items
    /\ refused \in SUBSET Codes /\ created \in SUBSET Codes

Blank ==
    /\ text' = <<>> /\ failures' = <<>>
    /\ items' = <<>> /\ validLines' = <<>> /\ errorLines' = {}

BatchInit ==
    /\ text = <<>> /\ failures = <<>>
    /\ items = <<>> /\ validLines = <<>> /\ errorLines = {}
    /\ focused = FALSE /\ busy = FALSE /\ batch = NoBatch
    /\ refused = {} /\ created = {}

\* parseBatchLine, seen from its callers.
WellFormed(line) == line \notin {Comment, Malformed}

\* validate: one pass over the lines.
Items(t) == Entries(t, {i \in DOMAIN t : WellFormed(t[i])})
\* Mutant: the lines are kept by another test than the items.
LinesWithoutError(t) == Entries(t, {i \in DOMAIN t : t[i] # Malformed})
ValidLines(t) == Entries(t, {i \in DOMAIN t : WellFormed(t[i])})
ErrorLines(t) == {i \in DOMAIN t : t[i] = Malformed}

Validate ==
    items' = Items(text) /\ validLines' = ValidLines(text) /\ errorLines' = ErrorLines(text)

-----------------------------------------------------------------------------
(* The dialog.                                                             *)

OpenBatch ==
    /\ Uncovered
    /\ dialog' = {"batch"}
    /\ UNCHANGED <<table, linksOpen, queryVars, key, selected, subject, calls, troubles, seen,
                   astray, batchVars>>

\* Cancel empties the dialog; a submission goes on, and busy with it.
CloseBatch ==
    /\ linksOpen /\ "batch" \in dialog
    /\ dialog' = dialog \ {"batch"}
    /\ Blank
    /\ focused' = FALSE /\ created' = {}
    /\ UNCHANGED <<table, linksOpen, queryVars, key, selected, subject, calls, troubles, seen,
                   astray, busy, batch, refused>>

Editing == linksOpen /\ "batch" \in dialog

EditText(t) ==
    /\ Editing /\ t # text
    /\ text' = t /\ focused' = TRUE /\ created' = {}
    /\ UNCHANGED <<linksFrame, items, validLines, errorLines, failures, busy, batch, refused>>

Blur ==
    /\ Editing /\ focused
    /\ focused' = FALSE
    /\ Validate
    /\ UNCHANGED <<linksFrame, text, failures, busy, batch, refused, created>>

\* submit: what is sent is a copy of what was checked.
Submit(lines, codes) ==
    /\ batch.at = "idle" /\ busy' = TRUE
    /\ batch' = [at |-> "sent", lines |-> lines, items |-> codes, made |-> {}, mine |-> TRUE]

\* A click on Create; the editor loses the focus to the button, which checks the
\* text as well.
Create ==
    /\ Editing /\ ~busy /\ \E i \in DOMAIN text : text[i] # Comment
    /\ focused' = FALSE
    /\ Validate
    /\ IF errorLines' = {} /\ items' # <<>>
         THEN Submit(validLines', items')
         ELSE UNCHANGED <<busy, batch>>
    /\ UNCHANGED <<linksFrame, text, failures, refused, created>>

\* A click on Retry. The editor, if it has the focus, loses it first.
Retry ==
    /\ Editing /\ ~busy /\ ~focused
    /\ failures # <<>> /\ items # <<>>
    /\ Submit(validLines, items)
    /\ UNCHANGED <<linksFrame, text, focused, items, validLines, errorLines, failures, refused,
                   created>>

-----------------------------------------------------------------------------
(* The submission.                                                         *)

\* batchCreate: of the items that pass the validation each whose code is free is
\* created, in order.
MadeOf(codes, valid) == {i \in valid : /\ codes[i] \notin Live
                                       /\ \A j \in valid : j < i => codes[j] # codes[i]}

\* Which items the server finds invalid, by a code or a target it does not allow, the
\* dialog cannot know.
BatchServed ==
    /\ batch.at = "sent"
    /\ \E valid \in SUBSET DOMAIN batch.items :
       LET made == MadeOf(batch.items, valid)
           new == {batch.items[i] : i \in made}
       IN  /\ batch' = [batch EXCEPT !.at = "ok", !.made = made]
           /\ table' \in Added(new)
           /\ created' = created \cup new
    /\ UNCHANGED <<linksOpen, queryVars, uiVars, calls, linkBounds, seen, astray,
                   text, focused, items, validLines, errorLines, failures, busy, refused>>

BatchFails ==
    /\ troubles < MaxTroubles /\ troubles' = troubles + 1
    /\ batch.at \in {"sent", "ok"}
    /\ batch' = [batch EXCEPT !.at = "error"]
    /\ astray' = (astray \/ batch.at = "ok")
    /\ UNCHANGED <<table, linksOpen, queryVars, uiVars, calls, gestures, seen,
                   text, focused, items, validLines, errorLines, failures, busy, refused, created>>

\* The lines whose result, by position, is not "created" are listed and stay in the
\* editor, whatever was typed there since.
Kept == Entries(batch.lines, DOMAIN batch.lines \ batch.made)

BatchSettles ==
    /\ batch.at \in {"ok", "error"}
    /\ busy' = (busy /\ ~batch.mine) /\ batch' = NoBatch
    /\ IF batch.at = "ok" /\ batch.mine
         THEN /\ failures' = Kept /\ text' = Kept
              /\ refused' = {batch.items[i] : i \in DOMAIN batch.items \ batch.made}
         ELSE UNCHANGED <<failures, text, refused>>
    /\ IF batch.at = "ok" /\ batch.made # {} THEN Invalidate ELSE UNCHANGED <<fetches, astray>>
    /\ UNCHANGED <<table, linksOpen, results, shown, uiVars, calls, linkBounds, seen,
                   focused, items, validLines, errorLines, created>>

\* With the page go the dialog's state and the submission's hold on it.
ForgetBatch ==
    /\ Blank
    /\ focused' = FALSE /\ busy' = FALSE
    /\ batch' = [batch EXCEPT !.mine = FALSE]
    /\ refused' = {} /\ created' = {}

-----------------------------------------------------------------------------
BatchGesture ==
    \/ OpenBatch \/ CloseBatch \/ Blur \/ Create \/ Retry
    \/ \E t \in Texts : EditText(t)

LinksPageUser ==
    /\ gestures < MaxGestures /\ gestures' = gestures + 1
    /\ \/ Gesture /\ IF linksOpen /\ ~linksOpen' THEN ForgetBatch ELSE UNCHANGED batchVars
       \/ BatchGesture

LinksPageStep ==
    \/ (LinksServer \/ LinksQuery \/ LinksTrouble) /\ UNCHANGED batchVars
    \/ BatchServed \/ BatchSettles \/ BatchFails

LinksPageInit == LinksInit /\ BatchInit
LinksPageVars == <<linksVars, batchVars>>
LinksPageSpec == LinksPageInit /\ [][LinksPageUser \/ LinksPageStep]_LinksPageVars

(***************************************************************************)
(* Properties                                                              *)
(***************************************************************************)
\* Once nothing is under way the page shows what the server lists for its search
\* and page, whatever was edited, answered or given up in which order: every edit
\* refetches, and a refetch replaces a request that may have been served before.
\* Excepted are failures, other writers, and a request that could not be replaced.
PageCatchesUp ==
    linksOpen /\ AtRest /\ batch.at = "idle" /\ ~astray => shown = {Listing(table, key)}

\* A line is listed as failed only if the server refused it: the results are
\* matched with the right lines, whatever comments lie between them and whatever
\* was typed, closed or sent again meanwhile.
FailuresAreReal == \A i \in DOMAIN failures : failures[i] \in refused

\* What the comments promise: the lines that were created leave the input, and
\* only the failed ones are sent again.
RetrySendsWhatFailed ==
    batch.at = "sent" => \A i \in DOMAIN batch.items : batch.items[i] \notin created
=============================================================================
