---------------------------- MODULE SettingsPage ----------------------------
(***************************************************************************)
(* The settings page: a form filled once from the cached configuration,    *)
(* saved whole when a text field loses focus or a switch is flipped. It    *)
(* runs against the configuration store, which other writers use as well.  *)
(***************************************************************************)
EXTENDS ConfigStore

CONSTANTS
    Typed,        \* settings edited as text, saved on blur
    Switches      \* settings saved as soon as they change

ASSUME PageAssumption == Settings = Typed \cup Switches /\ Typed \cap Switches = {}

VARIABLES
    open,         \* the page is mounted
    form,         \* the form: {} while loading, else {what it shows}
    cache,        \* the query cache's configuration: {} or {config}
    fetch,        \* the query's request: "idle", "sent" or "answered"
    reply,        \* the answer on its way: {} or {config}
    typing,       \* a text field has focus and was changed
    saving,       \* savingRef
    pending,      \* pendingRef
    base,         \* the form that the running save's closure sees: {} or {config}
    merged,       \* history: a save was coalesced since the page opened
    disturbed     \* history: something else touched the configuration since then

pageVars == <<open, form, cache, fetch, reply, typing, saving, pending, base,
              merged, disturbed>>
vars == <<configVars, pageVars>>

Forms == [Visible -> Values]

TypeOK ==
    /\ ConfigTypeOK
    /\ open \in BOOLEAN /\ typing \in BOOLEAN
    /\ form \in SUBSET Forms /\ Cardinality(form) <= 1
    /\ cache \in SUBSET Forms /\ Cardinality(cache) <= 1
    /\ fetch \in {"idle", "sent", "answered"}
    /\ reply \in SUBSET Forms /\ Cardinality(reply) <= 1
    /\ saving \in BOOLEAN /\ pending \in BOOLEAN
    /\ base \in SUBSET Forms /\ Cardinality(base) <= 1
    /\ merged \in BOOLEAN /\ disturbed \in BOOLEAN

Init ==
    /\ ConfigInit
    /\ open = FALSE /\ form = {} /\ cache = {}
    /\ fetch = "idle" /\ reply = {}
    /\ typing = FALSE /\ saving = FALSE /\ pending = FALSE /\ base = {}
    /\ merged = FALSE /\ disturbed = FALSE

Shown == CHOOSE f \in form : TRUE
Ready == open /\ form # {}
\* Mutant: no field of the configuration is kept out of JSON.
PublishedWhole == mem
\* getConfig.
Published == [k \in Visible |-> mem[k]]
Body(f) == [k \in Keys |-> IF k \in Visible THEN f[k] ELSE 0]

-----------------------------------------------------------------------------
(* The query ['config']. *)

\* Fetching again: an invalidation gives up the request under way and starts
\* another, if the page is there to want it.
Invalidate ==
    IF open THEN fetch' = "sent" /\ reply' = {} ELSE UNCHANGED <<fetch, reply>>

\* A fetch that fails is one whose answer never arrives.
FetchServed ==
    /\ fetch = "sent"
    /\ fetch' = "answered" /\ reply' = {Published}
    /\ UNCHANGED <<configVars, open, form, cache, typing, saving, pending, base, merged,
                   disturbed>>

\* Mutant: every answer fills the form.
FillAgain(c) == IF open THEN c ELSE form

\* The effect that fills the form runs only while there is none.
Fill(c) == IF form = {} /\ open THEN c ELSE form

\* What the page starts from is what the server has, or the page starts disturbed.
Differs(f) == f # {} /\ f # {Published}

FetchArrives ==
    /\ fetch = "answered"
    /\ fetch' = "idle" /\ reply' = {}
    /\ cache' = reply
    /\ form' = Fill(reply)
    /\ disturbed' = (disturbed \/ (form = {} /\ Differs(form')))
    /\ UNCHANGED <<configVars, open, typing, saving, pending, base, merged>>

-----------------------------------------------------------------------------
(* The page. *)

\* Mounting shows the cached configuration at once, however old, and fetches.
Open ==
    /\ ~open
    /\ open' = TRUE
    /\ form' = cache
    /\ IF fetch = "idle" THEN fetch' = "sent" /\ UNCHANGED reply
                         ELSE UNCHANGED <<fetch, reply>>
    /\ merged' = FALSE
    /\ disturbed' = (Differs(cache) \/ ~Quiet \/ \E r \in Requests : ~At(r, "free"))
    /\ UNCHANGED <<configVars, cache, typing, saving, pending, base>>

\* Leaving drops the form and the refs; requests go on without it.
Leave ==
    /\ open
    /\ open' = FALSE /\ form' = {} /\ base' = {}
    /\ typing' = FALSE /\ saving' = FALSE /\ pending' = FALSE
    /\ merged' = FALSE /\ disturbed' = FALSE
    /\ req' = [r \in Requests |-> IF req[r].by = "page" THEN [req[r] EXCEPT !.by = "gone"]
                                                        ELSE req[r]]
    /\ UNCHANGED <<engine, counters, cache, fetch, reply>>

\* save(override): one request at a time; a save meanwhile only sets pendingRef.
\* closure is the form of the render whose function runs, sent what it sends.
Save(closure, sent) ==
    IF saving
      THEN /\ pending' = TRUE /\ merged' = TRUE
           /\ UNCHANGED <<req, saving, base>>
      ELSE /\ \E r \in Requests : At(r, "free") /\ Arrives(r, "put", "page", Body(sent))
           /\ saving' = TRUE /\ base' = {closure}
           /\ UNCHANGED <<pending, merged>>

\* A keystroke in a text field: it has a new text, or none.
Type(k) ==
    /\ Ready /\ version < MaxVersion
    /\ version' = version + 1
    /\ \E v \in {version + 1, Blank} : form' = {[Shown EXCEPT ![k] = v]}
    /\ typing' = TRUE
    /\ UNCHANGED <<engine, req, calls, open, cache, fetch, reply, saving, pending, base,
                   merged, disturbed>>

\* The field loses focus, changed or not.
Blur ==
    /\ Call
    /\ Ready
    /\ typing' = FALSE
    /\ Save(Shown, Shown)
    /\ UNCHANGED <<engine, version, open, form, cache, fetch, reply, disturbed>>

\* Mutant: save without an override.
FlipSendsWhatWas(k) ==
    /\ Call
    /\ Ready /\ ~typing /\ version < MaxVersion
    /\ version' = version + 1
    /\ form' = {[Shown EXCEPT ![k] = version + 1]} /\ Save(Shown, Shown)
    /\ UNCHANGED <<engine, open, cache, fetch, reply, typing, disturbed>>

\* setAndSave: the request gets the next form, its closure keeps the one before.
Flip(k) ==
    /\ Call
    /\ Ready /\ ~typing /\ version < MaxVersion
    /\ version' = version + 1
    /\ LET next == [Shown EXCEPT ![k] = version + 1]
       IN  form' = {next} /\ Save(Shown, next)
    /\ UNCHANGED <<engine, open, cache, fetch, reply, typing, disturbed>>

\* iconInput and the remove button: a request beside the saves.
SendIcon ==
    /\ Call
    /\ Ready /\ ~typing /\ version < MaxVersion
    /\ version' = version + 1
    /\ \E r \in Requests :
         /\ At(r, "free")
         /\ Arrives(r, "icon", "page", [Default EXCEPT !["icon"] = version + 1])
    /\ disturbed' = TRUE
    /\ UNCHANGED <<engine, open, form, cache, fetch, reply, typing, saving, pending, base,
                   merged>>

-----------------------------------------------------------------------------
(* Answers. *)

Answered(r, owner) == req[r].at \in {"ok", "error"} /\ req[r].by = owner

\* Mutant: only a success releases savingRef.
SaveSettlesOnSuccess(r) ==
    /\ Answered(r, "page") /\ req[r].kind = "put"
    /\ IF At(r, "ok") THEN Invalidate ELSE UNCHANGED <<fetch, reply>>
    /\ disturbed' = (disturbed \/ At(r, "error"))
    /\ IF pending /\ At(r, "ok")
         THEN /\ pending' = FALSE
              /\ Arrives(r, "put", "page", Body(CHOOSE f \in base : TRUE))
              /\ UNCHANGED <<saving, base>>
         ELSE /\ saving' = (saving /\ At(r, "error")) /\ UNCHANGED <<base, pending>>
              /\ req' = [req EXCEPT ![r] = Free]
    /\ UNCHANGED <<engine, counters, open, form, cache, typing, merged>>

\* onSuccess invalidates; onSettled runs the save that was put off, in the closure
\* of the save that ended.
SaveSettles(r) ==
    /\ Answered(r, "page") /\ req[r].kind = "put"
    /\ IF At(r, "ok") THEN Invalidate ELSE UNCHANGED <<fetch, reply>>
    /\ disturbed' = (disturbed \/ At(r, "error"))
    /\ IF pending
         THEN /\ pending' = FALSE
              /\ Arrives(r, "put", "page", Body(CHOOSE f \in base : TRUE))
              /\ UNCHANGED <<saving, base>>
         ELSE /\ saving' = FALSE /\ base' = {}
              /\ req' = [req EXCEPT ![r] = Free]
              /\ UNCHANGED pending
    /\ UNCHANGED <<engine, counters, open, form, cache, typing, merged>>

IconSettles(r) ==
    /\ Answered(r, "page") /\ req[r].kind = "icon"
    /\ IF At(r, "ok")
         THEN /\ form' = {[f EXCEPT !["icon"] = req[r].body["icon"]] : f \in form}
              /\ Invalidate
         ELSE UNCHANGED <<form, fetch, reply>>
    /\ req' = [req EXCEPT ![r] = Free]
    /\ UNCHANGED <<engine, counters, open, cache, typing, saving, pending, base, merged,
                   disturbed>>

\* After the page is gone an answer still invalidates the query.
LateAnswer(r) ==
    /\ Answered(r, "gone")
    /\ IF At(r, "ok") THEN Invalidate ELSE UNCHANGED <<fetch, reply>>
    /\ req' = [req EXCEPT ![r] = Free]
    /\ UNCHANGED <<engine, counters, open, form, cache, typing, saving, pending, base, merged,
                   disturbed>>

Settle(r) == SaveSettles(r) \/ IconSettles(r) \/ LateAnswer(r)

-----------------------------------------------------------------------------
\* Everything else that happens to the configuration.
Outside ==
    /\ \/ \E r \in Requests : Other(r) \/ AnswerLost(r)
       \/ Crash
    /\ disturbed' = open
    /\ UNCHANGED <<open, form, cache, fetch, reply, typing, saving, pending, base, merged>>

Server ==
    /\ \/ \E r \in Requests : Serve(r) \/ OtherAnswered(r)
       \/ ReadFile \/ SwapLoaded
    /\ UNCHANGED pageVars

Next ==
    \/ Outside \/ Server
    \/ FetchServed \/ FetchArrives
    \/ Open \/ Leave \/ Blur \/ SendIcon
    \/ \E k \in Typed : Type(k)
    \/ \E k \in Switches : Flip(k)
    \/ \E r \in Requests : Settle(r)

\* The server serves, answers or fails every request, and the browser reports it.
Fairness ==
    /\ \A r \in Requests : WF_vars(Serve(r) /\ UNCHANGED pageVars)
    /\ \A r \in Requests : WF_vars(Settle(r))

Spec == Init /\ [][Next]_vars /\ Fairness

(***************************************************************************)
(* Properties                                                              *)
(***************************************************************************)
Settled == Ready /\ ~typing /\ ~saving /\ Quiet

\* A page at rest shows what the server has, but for a text left empty that the
\* server fills in: every edit was saved, and a save changed nothing the user did
\* not change. It holds for a page that started from the server's configuration,
\* met no failure and no other writer, and never had two saves at once.
PageMatchesServer == Settled /\ ~disturbed /\ ~merged => Normal(Shown) = Published

\* What the comment on save promises of two saves at once: the latest pending
\* save is sent when the running one completes, so the server has what a page at
\* rest shows in that case as well.
CoalescedSaveIsLatest == Settled /\ ~disturbed => Normal(Shown) = Published

\* The answers of the server never replace what is being edited: without a user's
\* edit only the icon of a form changes.
AnswersKeepEdits ==
    [][form # {} /\ form' # {} /\ version' = version =>
         \A f \in form, g \in form' : \A k \in Settings : g[k] = f[k]]_vars

\* A save that was put off is sent, unless the page is left: savingRef is always
\* released, whether the request succeeds, fails or is lost.
PendingSaveIsSent == pending ~> ~pending
=============================================================================
