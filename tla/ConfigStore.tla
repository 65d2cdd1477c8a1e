---------------------------- MODULE ConfigStore ----------------------------
(***************************************************************************)
(* The configuration of the server: the struct in memory, the YAML file,   *)
(* the handlers that copy the struct, change the copy and save it, the     *)
(* command line that does the same from another process, and SIGHUP.       *)
(***************************************************************************)
EXTENDS Naturals, FiniteSets

CONSTANTS
    Settings,     \* the settings a browser sees and sends back
    Named,        \* those that Validate gives a default when they are empty
    Requests,     \* names of requests being served at one time
    MaxVersion,   \* bound: number of values ever chosen for a setting
    MaxCalls,     \* bound: requests made, and saves asked for
    MaxTroubles   \* bound: refusals, crashes, lost answers

ASSUME ConfigAssumption ==
    /\ Settings # {} /\ IsFiniteSet(Requests)
    /\ {"icon", "secret"} \cap Settings = {} /\ Named \subseteq Settings
    /\ MaxVersion \in Nat /\ MaxCalls \in Nat /\ MaxTroubles \in Nat

VARIABLES
    file,         \* config.yaml: {} when there is none, else {its content}
    mem,          \* Manager.cfg
    req,          \* the request each name stands for
    hup,          \* a SIGHUP waits in the channel
    loaded,       \* what Reload has read and not yet swapped in: {} or {config}
    version,      \* the last value chosen for a setting; every value is new
    calls,        \* how many requests were made
    troubles,     \* how many of the bounded events there were
    clash,        \* history: two updates met, see Clashes
    crossed,      \* history: a change of the secrets met an update, see Crosses
    missed        \* history: the file was read while there was none

history == <<clash, crossed, missed>>
\* What neither a new request nor an answer changes.
engine == <<file, mem, hup, loaded, troubles, history>>
counters == <<version, calls>>
configVars == <<engine, req, counters>>

\* "icon" is changed by its own handlers; "secret" stands for the fields kept
\* out of JSON: password hash, session epoch, console switches.
Visible == Settings \cup {"icon"}
Keys == Visible \cup {"secret"}
Blank == MaxVersion + MaxCalls + 1     \* a text that was emptied
Values == 0 .. Blank
Configs == [Keys -> Values]
Default == [k \in Keys |-> 0]

\* The callers: the settings page, the same page once it is gone, anyone else.
Owners == {"page", "gone", "other"}
Kinds == {"put", "icon", "password", "cli"}
Stages == {"free", "sent", "copied", "removed", "renamed", "ok", "error"}
Free == [kind |-> "put", at |-> "free", by |-> "other", body |-> Default]

ConfigTypeOK ==
    /\ file \in SUBSET Configs /\ Cardinality(file) <= 1
    /\ mem \in Configs
    /\ req \in [Requests -> [kind : Kinds, at : Stages, by : Owners, body : Configs]]
    /\ hup \in BOOLEAN
    /\ loaded \in SUBSET Configs /\ Cardinality(loaded) <= 1
    /\ version \in Values
    /\ calls \in 0 .. MaxCalls
    /\ troubles \in 0 .. MaxTroubles
    /\ clash \in BOOLEAN /\ crossed \in BOOLEAN /\ missed \in BOOLEAN

ConfigInit ==
    /\ file = {Default}
    /\ mem = Default
    /\ req = [r \in Requests |-> Free]
    /\ hup = FALSE /\ loaded = {}
    /\ version = 0 /\ calls = 0 /\ troubles = 0
    /\ clash = FALSE /\ crossed = FALSE /\ missed = FALSE

At(r, stage) == req[r].at = stage
Busy(r) == req[r].at \in {"copied", "removed", "renamed"}

\* Load: a missing file is the default configuration. Its call of Validate finds
\* nothing to do in what Update wrote.
Load == IF file = {} THEN Default ELSE CHOOSE c \in file : TRUE
Missing == missed \/ file = {}

\* Validate: an empty site name becomes the default one.
Normal(c) == [k \in DOMAIN c |-> IF k \in Named /\ c[k] = Blank THEN 0 ELSE c[k]]

(***************************************************************************)
(* Nothing excludes two updates from each other, nor an update from a      *)
(* reload: the manager's lock covers Get and the final assignment only.    *)
(* clash records that two of them met, crossed that they met and one was   *)
(* about the secrets, the reload that follows a reset included.            *)
(***************************************************************************)
Clashes(r) ==
    \/ \E s \in Requests \ {r} : Busy(s)
    \/ hup \/ loaded # {}

Secretive(r) == req[r].kind \in {"password", "cli"}

Crosses(r) ==
    \/ \E s \in Requests \ {r} : Busy(s) /\ (Secretive(r) \/ Secretive(s))
    \/ hup \/ loaded # {}

-----------------------------------------------------------------------------
(* A request arrives, at a name that is free. A body holds what the caller sends. *)
Arrives(r, kind, owner, body) ==
    req' = [req EXCEPT ![r] = [kind |-> kind, at |-> "sent", by |-> owner, body |-> body]]

\* Mutant: the hidden fields are those of the body, which has none.
MergedAsSent(r) ==
    CASE req[r].kind = "put"      -> req[r].body
      [] req[r].kind = "icon"     -> [mem EXCEPT !["icon"] = req[r].body["icon"]]
      [] req[r].kind = "password" -> [mem EXCEPT !["secret"] = @ + 1]
      [] req[r].kind = "cli"      -> [Load EXCEPT !["secret"] = @ + 1]

\* The configuration each kind of request saves. updateConfig takes the caller's
\* and carries the hidden fields over; uploadIcon, deleteIcon and changePassword
\* change one field of a copy, "gourl reset sessions" of a copy of the file. The
\* last two advance the session epoch of the copy by one.
Merged(r) ==
    CASE req[r].kind = "put"      -> [req[r].body EXCEPT !["secret"] = mem["secret"]]
      [] req[r].kind = "icon"     -> [mem EXCEPT !["icon"] = req[r].body["icon"]]
      [] req[r].kind = "password" -> [mem EXCEPT !["secret"] = @ + 1]
      [] req[r].kind = "cli"      -> [Load EXCEPT !["secret"] = @ + 1]

\* The handler makes it, and Update validates it, which can change it.
Copy(r) ==
    /\ At(r, "sent")
    /\ req' = [req EXCEPT ![r].at = "copied", ![r].body = Normal(Merged(r))]
    /\ clash' = (clash \/ Clashes(r))
    /\ crossed' = (crossed \/ Crosses(r))
    /\ missed' = IF req[r].kind = "cli" THEN Missing ELSE missed
    /\ UNCHANGED <<file, mem, hup, loaded, counters, troubles>>

\* atomicWrite: an existing file is removed, then the new one is renamed into place.
Remove(r) ==
    /\ At(r, "copied")
    /\ file' = {}
    /\ req' = [req EXCEPT ![r].at = "removed"]
    /\ UNCHANGED <<mem, hup, loaded, counters, troubles, history>>

Rename(r) ==
    /\ At(r, "removed")
    /\ file' = {req[r].body}
    /\ req' = [req EXCEPT ![r].at = "renamed"]
    /\ UNCHANGED <<mem, hup, loaded, counters, troubles, history>>

\* An answer says nothing a caller uses, but for the new icon.
IconOnly(body) == [Default EXCEPT !["icon"] = body["icon"]]

\* Mutant: Update only writes the file.
SwapLater(r) ==
    /\ At(r, "renamed")
    /\ IF req[r].kind = "cli" THEN hup' = TRUE ELSE UNCHANGED hup
    /\ req' = [req EXCEPT ![r].at = "ok", ![r].body = IconOnly(@)]
    /\ UNCHANGED <<mem, file, loaded, counters, troubles, history>>

\* Update ends by swapping the configuration in; the command line by sending SIGHUP.
Swap(r) ==
    /\ At(r, "renamed")
    /\ IF req[r].kind = "cli"
         THEN hup' = TRUE /\ UNCHANGED mem
         ELSE mem' = req[r].body /\ UNCHANGED hup
    /\ req' = [req EXCEPT ![r].at = "ok", ![r].body = IconOnly(@)]
    /\ UNCHANGED <<file, loaded, counters, troubles, history>>

Trouble == troubles < MaxTroubles /\ troubles' = troubles + 1

\* Any step before the rename can end the request: a body that does not parse, a
\* rule of Validate, a wrong password, a file error (another update removed the
\* file between Stat and Remove, say). What was removed stays removed.
Refuse(r) ==
    /\ Trouble
    /\ req[r].at \in {"sent", "copied", "removed"}
    /\ req' = [req EXCEPT ![r].at = "error"]
    /\ UNCHANGED <<file, mem, hup, loaded, counters, history>>

\* The work was done, and the connection dropped before its answer arrived.
AnswerLost(r) ==
    /\ Trouble
    /\ At(r, "ok")
    /\ req' = [req EXCEPT ![r].at = "error"]
    /\ UNCHANGED <<file, mem, hup, loaded, counters, history>>

Serve(r) == Copy(r) \/ Remove(r) \/ Rename(r) \/ Swap(r) \/ Refuse(r)

-----------------------------------------------------------------------------
\* Reload reads the file, and swaps what it read in under the lock.
ReadFile ==
    /\ hup /\ loaded = {}
    /\ hup' = FALSE
    /\ loaded' = {Load}
    /\ clash' = (clash \/ \E r \in Requests : Busy(r))
    /\ missed' = Missing
    /\ UNCHANGED <<file, mem, req, counters, troubles, crossed>>

SwapLoaded ==
    /\ loaded # {}
    /\ mem' = (CHOOSE c \in loaded : TRUE)
    /\ loaded' = {}
    /\ UNCHANGED <<file, req, hup, counters, troubles, history>>

\* The server stops and starts again: NewManager loads the file. Its requests get
\* no answer; a command line is another process and goes on.
Crash ==
    /\ Trouble
    /\ mem' = Load
    /\ req' = [r \in Requests |->
                 IF req[r].at = "free" \/ req[r].kind = "cli" THEN req[r]
                 ELSE [req[r] EXCEPT !.at = "error"]]
    /\ hup' = FALSE /\ loaded' = {}
    /\ missed' = Missing
    /\ UNCHANGED <<file, counters, clash, crossed>>

\* A request more.
Call == calls < MaxCalls /\ calls' = calls + 1

\* Someone else changes the password, or resets the sessions from a shell.
Other(r) ==
    /\ Call
    /\ At(r, "free")
    /\ \E kind \in {"password", "cli"} : Arrives(r, kind, "other", Default)
    /\ UNCHANGED <<engine, version>>

OtherAnswered(r) ==
    /\ req[r].at \in {"ok", "error"} /\ req[r].by = "other"
    /\ req' = [req EXCEPT ![r] = Free]
    /\ UNCHANGED <<engine, counters>>

Quiet == ~hup /\ loaded = {} /\ \A r \in Requests : ~Busy(r)

(***************************************************************************)
(* Properties                                                              *)
(***************************************************************************)
\* When nothing is being saved or reloaded, memory and file agree (config.go's
\* Update and Reload), unless two updates met: then the one renamed last and the
\* one swapped in last can be different ones. A refusal, a restart at any moment
\* and a reset from the command line do not part them; a save that fails or is cut
\* off between removing the file and renaming the new one leaves no file.
MemoryMatchesFile == Quiet /\ ~clash /\ file # {} => file = {mem}

\* Saves of the settings page and changes of the icon, however many at once, and
\* restarts among them never bring back an older password hash or session epoch:
\* updateConfig carries them over, and what is in the file has them. It is not so,
\* and not claimed, when a change of the secrets meets another update, which puts
\* back the ones it copied, and once the file was read while there was none,
\* which gives the defaults, without hash or epoch.
SecretsNeverGoBack ==
    [][~crossed' /\ ~missed' => mem'["secret"] >= mem["secret"]]_configVars
=============================================================================
