-------------------------- MODULE SettingsPageProofs --------------------------
(***************************************************************************)
(* What holds of the server's configuration under any settings page, any   *)
(* number of requests and any settings: memory and file agree at rest as   *)
(* long as no two updates meet, and the secrets in them never go back as   *)
(* long as no change of them meets another update. What the page shows is  *)
(* what the server has, unless a save was put off, and no answer undoes an *)
(* edit.                                                                   *)
(***************************************************************************)
EXTENDS SettingsPage, FiniteSetTheorems, TLAPS

-----------------------------------------------------------------------------
(* The shape of the state, as far as configurations go.                    *)

IsConfig(c) == c = [k \in Keys |-> c[k]] /\ c["secret"] \in Nat
IsRequest(q) ==
    /\ q = [f \in {"kind", "at", "by", "body"} |-> q[f]]
    /\ q.kind \in Kinds
    /\ IsConfig(q.body)

Shape ==
    /\ IsConfig(mem)
    /\ file = {} \/ \E c : file = {c} /\ IsConfig(c)
    /\ loaded = {} \/ \E c : loaded = {c} /\ IsConfig(c)
    /\ req = [r \in Requests |-> req[r]]
    /\ \A r \in Requests : IsRequest(req[r])

LEMMA SecretIsAKey == "secret" \in Keys
BY DEF Keys

LEMMA DefaultIsAConfig == IsConfig(Default) /\ IsRequest(Free)
BY SecretIsAKey DEF IsConfig, IsRequest, Default, Free, Kinds

LEMMA BodyIsAConfig == \A f : IsConfig(Body(f))
BY ConfigAssumption, SecretIsAKey DEF IsConfig, Body, Visible

\* A configuration with another secret.
LEMMA SecretChanges ==
    ASSUME NEW c, IsConfig(c), NEW n \in Nat
    PROVE  /\ IsConfig([c EXCEPT !["secret"] = n])
           /\ [c EXCEPT !["secret"] = n]["secret"] = n
BY SecretIsAKey DEF IsConfig

LEMMA IconChanges ==
    ASSUME NEW c, IsConfig(c), NEW v
    PROVE  /\ IsConfig([c EXCEPT !["icon"] = v])
           /\ [c EXCEPT !["icon"] = v]["secret"] = c["secret"]
BY SecretIsAKey, ConfigAssumption DEF IsConfig

LEMMA LoadIsAConfig ==
    ASSUME Shape PROVE IsConfig(Load) /\ (file # {} => file = {Load})
BY DefaultIsAConfig DEF Shape, Load

\* What a request saves keeps the secret of what it started from, or moves it on.
LEMMA MergedKeepsSecret ==
    ASSUME Shape, NEW r \in Requests
    PROVE  /\ IsConfig(Merged(r))
           /\ req[r].kind \in {"put", "icon"} => Merged(r)["secret"] = mem["secret"]
           /\ req[r].kind = "password" => Merged(r)["secret"] = mem["secret"] + 1
           /\ req[r].kind = "cli" => Merged(r)["secret"] = Load["secret"] + 1
<1>1. IsConfig(mem) /\ IsConfig(Load) /\ IsConfig(req[r].body) /\ req[r].kind \in Kinds
  BY LoadIsAConfig DEF Shape, IsRequest
<1>2. mem["secret"] \in Nat /\ Load["secret"] \in Nat
  BY <1>1 DEF IsConfig
<1>3. CASE req[r].kind = "put"
  BY <1>1, <1>2, <1>3, SecretChanges DEF Merged
<1>4. CASE req[r].kind = "icon"
  BY <1>1, <1>2, <1>4, IconChanges DEF Merged
<1>5. CASE req[r].kind = "password"
  <2>1. Merged(r) = [mem EXCEPT !["secret"] = mem["secret"] + 1]
    BY <1>5 DEF Merged
  <2>2. mem["secret"] + 1 \in Nat
    BY <1>2
  <2>3. /\ IsConfig([mem EXCEPT !["secret"] = mem["secret"] + 1])
        /\ [mem EXCEPT !["secret"] = mem["secret"] + 1]["secret"] = mem["secret"] + 1
    BY <1>1, <2>2, SecretChanges
  <2>4. IsConfig(Merged(r)) /\ Merged(r)["secret"] = mem["secret"] + 1
    BY <2>1, <2>3
  <2> QED
    BY <1>5, <2>4
<1>6. CASE req[r].kind = "cli"
  <2>1. Merged(r) = [Load EXCEPT !["secret"] = Load["secret"] + 1]
    BY <1>6 DEF Merged
  <2>2. Load["secret"] + 1 \in Nat
    BY <1>2
  <2>3. /\ IsConfig([Load EXCEPT !["secret"] = Load["secret"] + 1])
        /\ [Load EXCEPT !["secret"] = Load["secret"] + 1]["secret"] = Load["secret"] + 1
    BY <1>1, <2>2, SecretChanges
  <2>4. IsConfig(Merged(r)) /\ Merged(r)["secret"] = Load["secret"] + 1
    BY <2>1, <2>3
  <2> QED
    BY <1>6, <2>4
<1> QED
  BY <1>1, <1>3, <1>4, <1>5, <1>6 DEF Kinds

\* What Validate fills in is not the secret.
LEMMA NormalKeeps ==
    ASSUME NEW c, IsConfig(c)
    PROVE  IsConfig(Normal(c)) /\ Normal(c)["secret"] = c["secret"]
<1>1. DOMAIN c = Keys /\ "secret" \notin Named
  BY ConfigAssumption DEF IsConfig
<1>2. Normal(c) = [k \in Keys |-> IF k \in Named /\ c[k] = Blank THEN 0 ELSE c[k]]
  BY <1>1 DEF Normal
<1>3. Normal(c)["secret"] = c["secret"]
  BY <1>1, <1>2, SecretIsAKey
<1> QED
  BY <1>2, <1>3 DEF IsConfig

LEMMA SavedKeepsSecret ==
    ASSUME Shape, NEW r \in Requests
    PROVE  /\ IsConfig(Normal(Merged(r)))
           /\ req[r].kind \in {"put", "icon"} => Normal(Merged(r))["secret"] = mem["secret"]
           /\ req[r].kind = "password" => Normal(Merged(r))["secret"] = mem["secret"] + 1
           /\ req[r].kind = "cli" => Normal(Merged(r))["secret"] = Load["secret"] + 1
BY MergedKeepsSecret, NormalKeeps

-----------------------------------------------------------------------------
(* The invariants.                                                         *)

\* Without a clash there is one update or reload at a time, and its stage tells what the
\* file holds, if there is one.
Alone ==
    /\ \A r, s \in Requests : Busy(r) /\ Busy(s) => r = s
    /\ \A r \in Requests : Busy(r) => ~hup /\ loaded = {}
    /\ hup => loaded = {}
Matches == file # {} => file = {mem}
Filed ==
    /\ Quiet => Matches
    /\ \A r \in Requests : /\ At(r, "copied") => Matches
                           /\ At(r, "removed") => file = {}
                           /\ At(r, "renamed") => file = {req[r].body}
    /\ loaded # {} => loaded = {Load}
Consistent == Shape /\ (clash \/ (Alone /\ Filed))

\* As long as no change of the secrets crosses another update, any number of other updates
\* have the secret of the memory, a change of it runs alone and is ahead of the file until
\* it is in it, and nothing on the way into memory has an older one.
Younger ==
    /\ \A c \in file : c["secret"] >= mem["secret"]
    /\ \A r \in Requests : Busy(r) => req[r].body["secret"] >= mem["secret"]
Carried ==
    \A r \in Requests : Busy(r) /\ ~Secretive(r) => req[r].body["secret"] = mem["secret"]
Exclusive ==
    /\ \A r, s \in Requests : Busy(r) /\ Secretive(r) /\ Busy(s) => s = r
    /\ \A r \in Requests : Busy(r) => ~hup /\ loaded = {}
    /\ loaded # {} => loaded = file
Leading ==
    \A r \in Requests :
        /\ At(r, "renamed") /\ Secretive(r) => file = {req[r].body}
        /\ Busy(r) /\ req[r].kind = "cli" => \A c \in file : req[r].body["secret"] >= c["secret"]
Advancing == Younger /\ Carried /\ Exclusive /\ Leading
Advances == crossed \/ missed \/ Advancing

Sound == Consistent /\ Advances

LEMMA Start == Init => Sound
<1> SUFFICES ASSUME Init PROVE Sound
  OBVIOUS
<1>1. /\ file = {Default} /\ mem = Default /\ req = [r \in Requests |-> Free]
      /\ ~hup /\ loaded = {}
  BY DEF Init, ConfigInit
<1>2. Shape
  BY <1>1, DefaultIsAConfig DEF Shape
<1>3. \A r \in Requests : ~Busy(r) /\ ~At(r, "removed") /\ ~At(r, "copied") /\ ~At(r, "renamed")
  BY <1>1 DEF Busy, At, Free
<1>4. Alone /\ Filed
  BY <1>1, <1>3 DEF Alone, Filed, Matches
<1>5. mem["secret"] \in Nat
  BY <1>2 DEF Shape, IsConfig
<1>6. Younger /\ Carried
  BY <1>1, <1>3, <1>5 DEF Younger, Carried
<1>7. Exclusive /\ Leading
  BY <1>1, <1>3 DEF Exclusive, Leading
<1> QED
  BY <1>2, <1>4, <1>6, <1>7 DEF Sound, Consistent, Advances, Advancing

\* Requests that are not being saved come, go and are answered.
Idles(r) ==
    \/ ~Busy(r) /\ ~Busy(r)'
    \/ req'[r].at = req[r].at /\ req'[r].body = req[r].body /\ req'[r].kind = req[r].kind

LEMMA IdlingKeeps ==
    ASSUME Consistent, UNCHANGED <<file, mem, hup, loaded>>, clash => clash',
           req' = [r \in Requests |-> req'[r]], \A r \in Requests : IsRequest(req'[r]),
           \A r \in Requests : Idles(r)
    PROVE  Consistent'
<1>1. Shape'
  BY DEF Consistent, Shape
<1>2. /\ \A r \in Requests : Busy(r)' <=> Busy(r)
      /\ \A r \in Requests : At(r, "removed")' <=> At(r, "removed")
      /\ \A r \in Requests : At(r, "copied")' <=> At(r, "copied")
      /\ \A r \in Requests : At(r, "renamed")' <=> At(r, "renamed")
      /\ \A r \in Requests : Busy(r) => req'[r].body = req[r].body
  BY DEF Idles, Busy, At
<1>3. Alone => Alone'
  BY <1>2 DEF Alone
<1>4. Filed => Filed'
  <2>1. (Quiet' <=> Quiet) /\ (Matches' <=> Matches) /\ Load' = Load
    BY <1>2 DEF Quiet, Matches, Load
  <2>2. \A r \in Requests : At(r, "renamed") => req'[r].body = req[r].body
    BY <1>2 DEF At, Busy
  <2> QED
    BY <1>2, <2>1, <2>2 DEF Filed
<1> QED
  BY <1>1, <1>3, <1>4 DEF Consistent

\* As requests end, or rest, and nothing else moves, nothing falls behind.
LEMMA EndingAdvances ==
    ASSUME Advancing, UNCHANGED <<file, mem, loaded>>, hup' = hup,
           \A r \in Requests :
               Busy(r)' => /\ req'[r].at = req[r].at /\ req'[r].body = req[r].body
                           /\ req'[r].kind = req[r].kind
    PROVE  Advancing'
<1>1. \A r \in Requests :
        Busy(r)' => /\ Busy(r) /\ req'[r].body = req[r].body /\ req'[r].kind = req[r].kind
                    /\ (Secretive(r)' <=> Secretive(r))
                    /\ (At(r, "renamed")' <=> At(r, "renamed"))
  BY DEF Busy, Secretive, At
<1>2. \A r \in Requests : At(r, "renamed")' => Busy(r)'
  BY DEF At, Busy
<1>3. Younger' /\ Carried'
  BY <1>1 DEF Advancing, Younger, Carried
<1>4. Exclusive'
  BY <1>1 DEF Advancing, Exclusive
<1>5. Leading'
  BY <1>1, <1>2 DEF Advancing, Leading
<1> QED
  BY <1>3, <1>4, <1>5 DEF Advancing

\* A request moves on, with the same configuration or another.
Moved(r, at, body) ==
    /\ req' = [s \in Requests |-> req'[s]]
    /\ \A s \in Requests : IsRequest(req'[s])
    /\ req'[r].at = at /\ req'[r].body = body /\ req'[r].kind = req[r].kind
    /\ \A s \in Requests \ {r} : req'[s] = req[s]

LEMMA MovesOn ==
    ASSUME Shape, NEW r \in Requests, NEW at
    PROVE  /\ req' = [req EXCEPT ![r].at = at] => Moved(r, at, req[r].body)
           /\ \A body : IsConfig(body) /\ req' = [req EXCEPT ![r].at = at, ![r].body = body]
                => Moved(r, at, body)
<1>1. IsRequest(req[r]) /\ DOMAIN req = Requests
  BY DEF Shape
<1>2. ASSUME req' = [req EXCEPT ![r].at = at] PROVE Moved(r, at, req[r].body)
  <2> DEFINE q == [req[r] EXCEPT !.at = at]
  <2>1. IsRequest(q) /\ q.at = at /\ q.body = req[r].body /\ q.kind = req[r].kind
    BY <1>1 DEF IsRequest
  <2>2. req' = [req EXCEPT ![r] = q]
    BY <1>2
  <2> HIDE DEF q
  <2>3. \A s \in Requests : req'[s] = IF s = r THEN q ELSE req[s]
    BY <1>1, <2>2
  <2> QED
    BY <1>1, <2>1, <2>2, <2>3 DEF Moved, Shape
<1>3. ASSUME NEW body, IsConfig(body), req' = [req EXCEPT ![r].at = at, ![r].body = body]
      PROVE  Moved(r, at, body)
  <2> DEFINE q == [[req[r] EXCEPT !.at = at] EXCEPT !.body = body]
  <2>1. IsRequest(q) /\ q.at = at /\ q.body = body /\ q.kind = req[r].kind
    BY <1>1, <1>3 DEF IsRequest
  <2>2. req' = [req EXCEPT ![r] = q]
    BY <1>1, <1>3 DEF IsRequest
  <2> HIDE DEF q
  <2>3. \A s \in Requests : req'[s] = IF s = r THEN q ELSE req[s]
    BY <1>1, <2>2
  <2> QED
    BY <1>1, <2>1, <2>2, <2>3 DEF Moved, Shape
<1> QED
  BY <1>2, <1>3

LEMMA SwapMoves ==
    ASSUME Shape, NEW r \in Requests, Swap(r) PROVE \E body : Moved(r, "ok", body)
<1>1. IsConfig(IconOnly(req[r].body))
  BY DefaultIsAConfig, IconChanges DEF IconOnly
<1>2. req' = [req EXCEPT ![r].at = "ok", ![r].body = IconOnly(req[r].body)]
  BY DEF Swap, Shape, IsRequest
<1> QED
  BY <1>1, <1>2, MovesOn

-----------------------------------------------------------------------------
(* The steps of a request, memory and file.                                *)

LEMMA CopyKeeps == ASSUME Consistent, NEW r \in Requests, Copy(r) PROVE Consistent'
<1>0. Shape /\ UNCHANGED <<file, mem, hup, loaded>> /\ At(r, "sent")
  BY DEF Consistent, Copy
<1>1. Moved(r, "copied", Normal(Merged(r)))
  BY <1>0, MovesOn, SavedKeepsSecret DEF Copy
<1>2. Shape'
  BY <1>0, <1>1 DEF Shape, Moved
<1>3. clash' = (clash \/ Clashes(r))
  BY DEF Copy
<1>4. CASE clash'
  BY <1>2, <1>4 DEF Consistent
<1>5. CASE ~clash'
  <2>1. ~clash /\ ~Clashes(r)
    BY <1>3, <1>5, Zenon
  <2>2. Quiet /\ \A s \in Requests : ~Busy(s)
    BY <1>0, <2>1 DEF Clashes, Quiet, Busy, At
  <2>3. Matches
    BY <2>1, <2>2 DEF Consistent, Filed
  <2>4. \A s \in Requests : Busy(s)' <=> s = r
    BY <1>1, <2>2 DEF Moved, Busy
  <2>5. /\ \A s \in Requests : ~At(s, "removed")' /\ ~At(s, "renamed")'
        /\ ~Quiet' /\ ~hup' /\ loaded' = {}
    BY <1>0, <1>1, <2>2, <2>4 DEF Moved, Busy, At, Quiet
  <2>6. Alone'
    BY <2>4, <2>5 DEF Alone
  <2>7. Filed'
    BY <1>0, <2>3, <2>5 DEF Filed, Matches
  <2> QED
    BY <1>2, <2>6, <2>7 DEF Consistent
<1> QED
  BY <1>4, <1>5

\* The one update under way changes the file, and nothing else does.
LEMMA OnlyUpdate ==
    ASSUME Alone, NEW r \in Requests, Busy(r)
    PROVE  \A s \in Requests \ {r} : ~Busy(s) /\ ~At(s, "copied") /\ ~At(s, "removed")
                                     /\ ~At(s, "renamed")
BY DEF Alone, Busy, At

LEMMA WritingKeeps ==
    ASSUME Consistent, NEW r \in Requests, Remove(r) \/ Rename(r) PROVE Consistent'
<1>0. Shape /\ UNCHANGED <<mem, hup, loaded>> /\ clash' = clash /\ Busy(r)
  BY DEF Consistent, Remove, Rename, history, At, Busy
<1>1. \/ Moved(r, "removed", req[r].body) /\ file' = {}
      \/ Moved(r, "renamed", req[r].body) /\ file' = {req[r].body}
  BY <1>0, MovesOn DEF Remove, Rename
<1>2. Shape'
  BY <1>0, <1>1 DEF Shape, Moved, IsRequest
<1>3. ASSUME Alone, Filed PROVE (Alone /\ Filed)'
  <2>1. \A s \in Requests \ {r} : /\ ~Busy(s)' /\ ~At(s, "copied")' /\ ~At(s, "removed")'
                                  /\ ~At(s, "renamed")' /\ ~Busy(s)
    BY <1>0, <1>1, <1>3, OnlyUpdate DEF Moved, Busy, At
  <2>2. Busy(r)' /\ ~Quiet' /\ ~At(r, "copied")' /\ ~hup /\ loaded = {}
    BY <1>0, <1>1, <1>3 DEF Moved, Busy, At, Quiet, Alone
  <2>3. Alone'
    BY <1>0, <2>1, <2>2 DEF Alone
  <2>4. Filed'
    BY <1>0, <1>1, <2>1, <2>2 DEF Filed, Moved, At
  <2> QED
    BY <2>3, <2>4
<1>4. clash => clash'
  BY <1>0, Zenon
<1> QED
  BY <1>2, <1>3, <1>4 DEF Consistent

LEMMA SwapKeeps == ASSUME Consistent, NEW r \in Requests, Swap(r) PROVE Consistent'
<1>0. Shape /\ UNCHANGED <<file, loaded>> /\ At(r, "renamed") /\ Busy(r)
  BY DEF Consistent, Swap, At, Busy
<1>1. \E body : Moved(r, "ok", body)
  BY <1>0, SwapMoves
<1>2. IF req[r].kind = "cli" THEN hup' = TRUE /\ UNCHANGED mem
                             ELSE mem' = req[r].body /\ UNCHANGED hup
  BY DEF Swap
<1>3. Shape'
  BY <1>0, <1>1, <1>2 DEF Shape, Moved, IsRequest
<1>4. ASSUME Alone, Filed PROVE (Alone /\ Filed)'
  <2>1. \A s \in Requests : /\ ~Busy(s)' /\ ~At(s, "copied")' /\ ~At(s, "removed")'
                            /\ ~At(s, "renamed")'
    BY <1>0, <1>1, <1>4, OnlyUpdate DEF Moved, Busy, At
  <2>2. ~hup /\ loaded = {} /\ file = {req[r].body}
    BY <1>0, <1>4 DEF Alone, Filed
  <2>3. Alone'
    BY <1>0, <2>1, <2>2 DEF Alone
  <2>4. Quiet' => mem' = req[r].body
    BY <1>2 DEF Quiet
  <2>5. Filed'
    BY <1>0, <2>1, <2>2, <2>4 DEF Filed, Matches
  <2> QED
    BY <2>3, <2>5
<1>5. clash' = clash
  BY DEF Swap, history
<1>6. clash => clash'
  BY <1>5, Zenon
<1> QED
  BY <1>3, <1>4, <1>6 DEF Consistent

LEMMA RefuseKeeps == ASSUME Consistent, NEW r \in Requests, Refuse(r) PROVE Consistent'
<1>0. /\ Shape /\ UNCHANGED <<file, mem, hup, loaded>>
      /\ req[r].at \in {"sent", "copied", "removed"} /\ Moved(r, "error", req[r].body)
  BY MovesOn DEF Consistent, Refuse
<1>1. clash' = clash
  BY DEF Refuse, history
<1>2. Shape'
  BY <1>0 DEF Shape, Moved
<1>3. clash => clash'
  BY <1>1, Zenon
<1>4. CASE req[r].at = "sent"
  <2>1. \A s \in Requests : Idles(s)
    BY <1>0, <1>4 DEF Moved, Idles, Busy
  <2> QED
    BY <1>0, <1>3, <2>1, IdlingKeeps DEF Moved
<1>5. ASSUME req[r].at # "sent", Alone, Filed PROVE (Alone /\ Filed)'
  <2>1. Busy(r) /\ Matches
    BY <1>0, <1>5 DEF Filed, Matches, At, Busy
  <2>2. \A s \in Requests : /\ ~Busy(s)' /\ ~At(s, "copied")' /\ ~At(s, "removed")'
                            /\ ~At(s, "renamed")'
    BY <1>0, <1>5, <2>1, OnlyUpdate DEF Moved, Busy, At
  <2>3. ~hup /\ loaded = {}
    BY <1>5, <2>1 DEF Alone
  <2> QED
    BY <1>0, <2>1, <2>2, <2>3 DEF Alone, Filed, Matches
<1> QED
  BY <1>2, <1>3, <1>4, <1>5 DEF Consistent

-----------------------------------------------------------------------------
(* Reloads and restarts, memory and file.                                  *)

LEMMA ReloadKeeps == ASSUME Consistent, ReadFile \/ SwapLoaded PROVE Consistent'
<1>0. Shape /\ UNCHANGED <<file, req>>
  BY DEF Consistent, ReadFile, SwapLoaded
<1>1. \A r \in Requests : ~Busy(r) => /\ ~Busy(r)' /\ ~At(r, "copied")' /\ ~At(r, "removed")'
                                      /\ ~At(r, "renamed")'
  BY <1>0 DEF Busy, At
<1>2. Load' = Load
  BY <1>0 DEF Load
<1>3. CASE ReadFile
  <2>1. hup /\ loaded = {} /\ ~hup' /\ loaded' = {Load} /\ mem' = mem
    BY <1>3 DEF ReadFile
  <2>2. Shape'
    BY <1>0, <2>1, LoadIsAConfig DEF Shape
  <2>3. clash' = (clash \/ \E r \in Requests : Busy(r))
    BY <1>3 DEF ReadFile
  <2>4. CASE clash'
    BY <2>2, <2>4 DEF Consistent
  <2>5. CASE ~clash'
    <3>1. ~\E r \in Requests : Busy(r)
      BY <2>3, <2>5, Zenon
    <3>2. Alone'
      BY <1>1, <2>1, <3>1 DEF Alone
    <3>3. Filed'
      BY <1>1, <1>2, <2>1, <3>1 DEF Filed, Quiet
    <3> QED
      BY <2>2, <3>2, <3>3 DEF Consistent
  <2> QED
    BY <2>4, <2>5
<1>4. CASE SwapLoaded
  <2>1. loaded # {} /\ loaded' = {} /\ loaded = {mem'} /\ IsConfig(mem') /\ hup' = hup
    BY <1>0, <1>4 DEF SwapLoaded, Shape
  <2>2. Shape'
    BY <1>0, <2>1 DEF Shape
  <2>3. ASSUME Alone, Filed PROVE (Alone /\ Filed)'
    <3>1. mem' = Load /\ ~hup /\ \A r \in Requests : ~Busy(r)
      BY <2>1, <2>3 DEF Alone, Filed
    <3>2. Matches'
      BY <1>0, <3>1, LoadIsAConfig DEF Matches
    <3>3. Alone'
      BY <1>1, <2>1, <3>1 DEF Alone
    <3>4. Filed'
      BY <1>1, <2>1, <3>1, <3>2 DEF Filed
    <3> QED
      BY <3>3, <3>4
  <2>4. clash' = clash
    BY <1>4 DEF SwapLoaded, history
  <2>5. clash => clash'
    BY <2>4, Zenon
  <2> QED
    BY <2>2, <2>3, <2>5 DEF Consistent
<1> QED
  BY <1>3, <1>4

\* Only a command line is still there after a restart.
LEMMA CrashEnds ==
    ASSUME Shape, Crash
    PROVE  /\ Shape' /\ mem' = Load /\ file' = file /\ ~hup' /\ loaded' = {}
           /\ \A r \in Requests :
                Busy(r)' => /\ Busy(r) /\ req'[r].kind = "cli" /\ req'[r].kind = req[r].kind
                            /\ req'[r].at = req[r].at /\ req'[r].body = req[r].body
<1>1. mem' = Load /\ file' = file /\ ~hup' /\ loaded' = {}
  BY DEF Crash
<1>2. /\ req' = [r \in Requests |-> req'[r]]
      /\ \A r \in Requests :
           req'[r] = IF req[r].at = "free" \/ req[r].kind = "cli" THEN req[r]
                     ELSE [req[r] EXCEPT !.at = "error"]
  BY DEF Crash
<1>3. \A r \in Requests : IsRequest(req[r])
  BY DEF Shape
<1>4. \A r \in Requests : IsRequest(req'[r])
  BY <1>2, <1>3 DEF IsRequest
<1>5. Shape'
  BY <1>1, <1>2, <1>4, LoadIsAConfig DEF Shape
<1>6. ASSUME NEW r \in Requests, Busy(r)'
      PROVE  /\ Busy(r) /\ req'[r].kind = "cli" /\ req'[r].kind = req[r].kind
             /\ req'[r].at = req[r].at /\ req'[r].body = req[r].body
  <2>1. req'[r] = req[r]
    BY <1>2, <1>3, <1>6 DEF Busy, IsRequest
  <2> QED
    BY <1>2, <1>3, <1>6, <2>1 DEF Busy, IsRequest
<1> QED
  BY <1>1, <1>5, <1>6

LEMMA CrashKeeps == ASSUME Consistent, Crash PROVE Consistent'
<1>0. /\ Shape' /\ mem' = Load /\ file' = file /\ ~hup' /\ loaded' = {}
      /\ \A r \in Requests :
           Busy(r)' => /\ Busy(r) /\ req'[r].at = req[r].at /\ req'[r].body = req[r].body
  BY CrashEnds DEF Consistent
<1>1. ASSUME Alone, Filed PROVE (Alone /\ Filed)'
  <2>1. Matches'
    BY <1>0, LoadIsAConfig DEF Consistent, Matches
  <2>2. Alone'
    BY <1>0, <1>1 DEF Alone
  <2>3. \A r \in Requests :
          /\ At(r, "removed")' => At(r, "removed")
          /\ At(r, "renamed")' => At(r, "renamed") /\ req'[r].body = req[r].body
    BY <1>0 DEF At, Busy
  <2>4. Filed'
    BY <1>0, <1>1, <2>1, <2>3 DEF Filed
  <2> QED
    BY <2>2, <2>4
<1>2. clash' = clash
  BY DEF Crash
<1>3. clash => clash'
  BY <1>2, Zenon
<1> QED
  BY <1>0, <1>1, <1>3 DEF Consistent

-----------------------------------------------------------------------------
(* The steps of the page and of the other callers.                         *)

\* Requests begin and end idle.
Idling ==
    /\ req' = [r \in Requests |-> req'[r]]
    /\ \A r \in Requests : IsRequest(req'[r]) /\ Idles(r)

LEMMA ComingIdles ==
    ASSUME Shape, NEW r \in Requests, ~Busy(r)
    PROVE  /\ req' = [req EXCEPT ![r] = Free] => Idling
           /\ \A kind \in Kinds : \A owner, body :
                IsConfig(body) /\ Arrives(r, kind, owner, body) => Idling
<1>1. ASSUME NEW q, IsRequest(q), q.at \in {"free", "sent"}, req' = [req EXCEPT ![r] = q]
      PROVE  Idling
  <2>1. \A s \in Requests : req'[s] = IF s = r THEN q ELSE req[s]
    BY <1>1 DEF Shape
  <2> QED
    BY <1>1, <2>1 DEF Idling, Idles, Busy, Shape
<1>2. IsRequest(Free) /\ Free.at = "free"
  BY DefaultIsAConfig DEF Free
<1>3. ASSUME NEW kind \in Kinds, NEW owner, NEW body, IsConfig(body),
             Arrives(r, kind, owner, body)
      PROVE  Idling
  <2> DEFINE q == [kind |-> kind, at |-> "sent", by |-> owner, body |-> body]
  <2>1. IsRequest(q) /\ q.at = "sent" /\ req' = [req EXCEPT ![r] = q]
    BY <1>3 DEF IsRequest, Arrives
  <2> QED
    BY <1>1, <2>1
<1> QED
  BY <1>1, <1>2, <1>3

LEMMA StayingIdles == ASSUME Shape, req' = req PROVE Idling
BY DEF Shape, Idling, Idles

\* The page and its answers.
PageStep ==
    \/ FetchServed \/ FetchArrives \/ Open \/ Leave \/ Blur \/ SendIcon
    \/ \E k \in Typed : Type(k)
    \/ \E k \in Switches : Flip(k)
    \/ \E r \in Requests : Settle(r)

LEMMA PageIdles == ASSUME Shape, PageStep PROVE Idling /\ UNCHANGED engine
<1>1. ASSUME NEW f, NEW g, Save(f, g) PROVE Idling
  <2>1. CASE req' = req
    BY <2>1, StayingIdles
  <2>2. CASE req' # req
    <3>1. PICK r \in Requests : At(r, "free") /\ Arrives(r, "put", "page", Body(g))
      BY <1>1, <2>2 DEF Save
    <3>2. ~Busy(r)
      BY <3>1 DEF At, Busy
    <3> QED
      BY <3>1, <3>2, BodyIsAConfig, ComingIdles DEF Kinds
  <2> QED
    BY <2>1, <2>2
<1>2. CASE FetchServed \/ FetchArrives \/ Open \/ \E k \in Typed : Type(k)
  <2>1. req' = req /\ UNCHANGED engine
    BY <1>2 DEF FetchServed, FetchArrives, Open, Type, configVars, engine
  <2> QED
    BY <2>1, StayingIdles
<1>3. CASE Leave
  <2>1. /\ req' = [r \in Requests |-> req'[r]]
        /\ \A r \in Requests : req'[r] \in {req[r], [req[r] EXCEPT !.by = "gone"]}
    BY <1>3 DEF Leave
  <2>2. \A r \in Requests : IsRequest(req'[r]) /\ req'[r].at = req[r].at
                            /\ req'[r].body = req[r].body /\ req'[r].kind = req[r].kind
    BY <2>1 DEF Shape, IsRequest
  <2>3. UNCHANGED engine
    BY <1>3 DEF Leave
  <2> QED
    BY <2>1, <2>2, <2>3 DEF Idling, Idles
<1>4. CASE Blur \/ \E k \in Switches : Flip(k)
  <2>1. (\E f, g : Save(f, g)) /\ UNCHANGED engine
    BY <1>4 DEF Blur, Flip
  <2> QED
    BY <1>1, <2>1
<1>5. CASE SendIcon
  <2>1. PICK r \in Requests :
          /\ At(r, "free")
          /\ Arrives(r, "icon", "page", [Default EXCEPT !["icon"] = version + 1])
    BY <1>5 DEF SendIcon
  <2>2. ~Busy(r) /\ IsConfig([Default EXCEPT !["icon"] = version + 1])
    BY <2>1, DefaultIsAConfig, IconChanges DEF At, Busy
  <2>3. UNCHANGED engine
    BY <1>5 DEF SendIcon
  <2> QED
    BY <2>1, <2>2, <2>3, ComingIdles DEF Kinds
<1>6. ASSUME NEW r \in Requests, Settle(r) PROVE Idling /\ UNCHANGED engine
  <2>1. ~Busy(r) /\ UNCHANGED engine
    BY <1>6 DEF Settle, SaveSettles, IconSettles, LateAnswer, Answered, Busy
  <2>2. \/ req' = [req EXCEPT ![r] = Free]
        \/ \E f : Arrives(r, "put", "page", Body(f))
    BY <1>6 DEF Settle, SaveSettles, IconSettles, LateAnswer
  <2> QED
    BY <2>1, <2>2, BodyIsAConfig, ComingIdles DEF Kinds
<1> QED
  BY <1>2, <1>3, <1>4, <1>5, <1>6 DEF PageStep

LEMMA OthersIdle ==
    ASSUME Shape, NEW r \in Requests, Other(r) \/ OtherAnswered(r)
    PROVE  Idling /\ UNCHANGED engine
<1>1. CASE Other(r)
  <2>1. ~Busy(r) /\ \E kind \in Kinds : Arrives(r, kind, "other", Default)
    BY <1>1 DEF Other, At, Busy, Kinds
  <2>2. UNCHANGED engine
    BY <1>1 DEF Other
  <2> QED
    BY <2>1, <2>2, DefaultIsAConfig, ComingIdles
<1>2. CASE OtherAnswered(r)
  <2>1. ~Busy(r) /\ req' = [req EXCEPT ![r] = Free] /\ UNCHANGED engine
    BY <1>2 DEF OtherAnswered, Busy
  <2> QED
    BY <2>1, ComingIdles
<1> QED
  BY <1>1, <1>2

LEMMA LostIdles ==
    ASSUME Shape, NEW r \in Requests, AnswerLost(r)
    PROVE  Idling /\ UNCHANGED <<file, mem, hup, loaded, clash>>
<1>1. req[r].at = "ok" /\ Moved(r, "error", req[r].body)
  BY MovesOn DEF AnswerLost, At
<1>2. Idling
  BY <1>1 DEF Moved, Idling, Idles, Busy
<1>3. UNCHANGED <<file, mem, hup, loaded, clash>>
  BY DEF AnswerLost, history
<1> QED
  BY <1>2, <1>3

-----------------------------------------------------------------------------
(* The same steps, and the secrets.                                        *)

\* What is on its way into memory, and in it, has a number for a secret.
LEMMA SecretsCompare ==
    ASSUME Shape
    PROVE  /\ mem["secret"] \in Nat /\ Load["secret"] \in Nat
           /\ \A c \in file : c["secret"] \in Nat
           /\ \A r \in Requests : req[r].body["secret"] \in Nat
<1>1. IsConfig(Load) /\ IsConfig(mem)
  BY LoadIsAConfig DEF Shape
<1>2. \A c \in file : IsConfig(c)
  BY DEF Shape
<1>3. \A r \in Requests : IsConfig(req[r].body)
  BY DEF Shape, IsRequest
<1> QED
  BY <1>1, <1>2, <1>3 DEF IsConfig

LEMMA CopyAdvances ==
    ASSUME Shape, Advancing, NEW r \in Requests, Copy(r), ~crossed', ~missed'
    PROVE  Advancing'
<1>0. UNCHANGED <<file, mem, hup, loaded>>
  BY DEF Copy
<1>1. Moved(r, "copied", Normal(Merged(r)))
  BY MovesOn, SavedKeepsSecret DEF Copy
<1>2. ~Crosses(r)
  <2>1. crossed' = (crossed \/ Crosses(r))
    BY DEF Copy
  <2> QED
    BY <2>1, Zenon
<1>3. ~hup /\ loaded = {}
  BY <1>2 DEF Crosses
<1>4. \A s \in Requests \ {r} : Busy(s) => ~Secretive(r) /\ ~Secretive(s)
  BY <1>2 DEF Crosses
<1>5. req[r].kind = "cli" => file = {Load}
  <2>1. req[r].kind = "cli" => missed' = Missing
    BY DEF Copy
  <2>2. req[r].kind = "cli" => ~Missing
    BY <2>1, Zenon
  <2>3. req[r].kind = "cli" => file # {}
    BY <2>2 DEF Missing
  <2> QED
    BY <2>3, LoadIsAConfig
<1>6. /\ \A s \in Requests \ {r} : Busy(s)' => Busy(s) /\ req'[s] = req[s]
      /\ req'[r].body = Normal(Merged(r)) /\ req'[r].kind = req[r].kind /\ req[r].kind \in Kinds
      /\ ~At(r, "renamed")'
  BY <1>1 DEF Moved, Busy, At, Shape, IsRequest
<1> DEFINE n == Normal(Merged(r))["secret"]
<1>7. /\ req[r].kind \in {"put", "icon"} => n = mem["secret"]
      /\ req[r].kind = "password" => n = mem["secret"] + 1
      /\ req[r].kind = "cli" => n = Load["secret"] + 1
  BY SavedKeepsSecret
<1> HIDE DEF n
<1>8. /\ n >= mem["secret"] /\ (~Secretive(r) => n = mem["secret"])
      /\ req[r].kind = "cli" => \A c \in file : n >= c["secret"]
  <2>1. req[r].kind = "cli" => Load["secret"] >= mem["secret"]
    BY <1>5 DEF Advancing, Younger
  <2> QED
    BY <1>5, <1>6, <1>7, <2>1, SecretsCompare DEF Kinds, Secretive
<1>9. req'[r].body["secret"] = n /\ (Secretive(r)' <=> Secretive(r))
  BY <1>6 DEF n, Secretive
<1>10. \A s \in Requests \ {r} : Busy(s)' => (Secretive(s)' <=> Secretive(s))
  BY <1>6 DEF Secretive
<1>11. Younger'
  BY <1>0, <1>6, <1>8, <1>9 DEF Advancing, Younger
<1>12. Carried'
  BY <1>0, <1>6, <1>8, <1>9, <1>10 DEF Advancing, Carried
<1>13. Exclusive'
  <2>1. ~hup' /\ loaded' = {}
    BY <1>0, <1>3
  <2>2. ASSUME NEW a \in Requests, NEW b \in Requests, Busy(a)', Secretive(a)', Busy(b)'
        PROVE  b = a
    BY <1>4, <1>6, <1>9, <1>10, <2>2 DEF Advancing, Exclusive
  <2> QED
    BY <2>1, <2>2 DEF Exclusive
<1>14. Leading'
  <2>1. ASSUME NEW s \in Requests \ {r}, At(s, "renamed")', Secretive(s)'
        PROVE  file' = {req'[s].body}
    <3>1. Busy(s)'
      BY <2>1 DEF At, Busy
    <3>2. At(s, "renamed") /\ Secretive(s) /\ req'[s] = req[s]
      BY <1>6, <1>10, <2>1, <3>1 DEF At
    <3> QED
      BY <1>0, <3>2 DEF Advancing, Leading
  <2>2. ASSUME NEW s \in Requests, Busy(s)', req'[s].kind = "cli"
        PROVE  \A c \in file' : req'[s].body["secret"] >= c["secret"]
    BY <1>0, <1>6, <1>8, <1>9, <2>2 DEF Advancing, Leading
  <2> QED
    BY <1>6, <2>1, <2>2 DEF Leading
<1> QED
  BY <1>11, <1>12, <1>13, <1>14 DEF Advancing

LEMMA WritingAdvances ==
    ASSUME Shape, Advancing, NEW r \in Requests, Remove(r) \/ Rename(r) PROVE Advancing'
<1>0. UNCHANGED <<mem, hup, loaded>> /\ Busy(r) /\ hup' = hup
  BY DEF Remove, Rename, At, Busy
<1>1. \/ Moved(r, "removed", req[r].body) /\ file' = {}
      \/ Moved(r, "renamed", req[r].body) /\ file' = {req[r].body}
  BY MovesOn DEF Remove, Rename
<1>2. ~hup /\ loaded = {}
  BY <1>0 DEF Advancing, Exclusive
<1>3. \A s \in Requests :
        /\ Busy(s)' => Busy(s) /\ req'[s].body = req[s].body /\ req'[s].kind = req[s].kind
        /\ Secretive(s)' <=> Secretive(s)
        /\ s # r => req'[s] = req[s]
  BY <1>0, <1>1 DEF Moved, Busy, Secretive
<1>4. \A s \in Requests : Busy(s)' /\ Secretive(s)' => s = r
  BY <1>0, <1>3 DEF Advancing, Exclusive
<1>5. Younger' /\ Carried'
  BY <1>0, <1>1, <1>3 DEF Advancing, Younger, Carried
<1>6. Exclusive'
  BY <1>0, <1>2, <1>3 DEF Advancing, Exclusive
<1>7. Leading'
  <2>1. ASSUME NEW s \in Requests, At(s, "renamed")', Secretive(s)'
        PROVE  file' = {req'[s].body}
    <3>1. s = r
      BY <1>4, <2>1 DEF At, Busy
    <3> QED
      BY <1>1, <2>1, <3>1 DEF Moved, At
  <2>2. ASSUME NEW s \in Requests, Busy(s)', req'[s].kind = "cli"
        PROVE  \A c \in file' : req'[s].body["secret"] >= c["secret"]
    <3>1. s = r
      BY <1>4, <2>2 DEF Secretive
    <3>2. req[r].body["secret"] \in Nat
      BY SecretsCompare
    <3> QED
      BY <1>1, <1>3, <2>2, <3>1, <3>2
  <2> QED
    BY <2>1, <2>2 DEF Leading
<1> QED
  BY <1>5, <1>6, <1>7 DEF Advancing

LEMMA SwapAdvances ==
    ASSUME Shape, Advancing, NEW r \in Requests, Swap(r)
    PROVE  Advancing' /\ mem'["secret"] >= mem["secret"]
<1>0. UNCHANGED <<file, loaded>> /\ At(r, "renamed") /\ Busy(r)
  BY DEF Swap, At, Busy
<1>1. PICK body : Moved(r, "ok", body)
  BY SwapMoves
<1>2. IF req[r].kind = "cli" THEN hup' = TRUE /\ UNCHANGED mem
                             ELSE mem' = req[r].body /\ UNCHANGED hup
  BY DEF Swap
<1>3. ~hup /\ loaded = {}
  BY <1>0 DEF Advancing, Exclusive
<1>4. \A s \in Requests : Busy(s)' => s # r /\ Busy(s) /\ req'[s] = req[s]
  BY <1>1 DEF Moved, Busy
<1>5. mem'["secret"] >= mem["secret"]
  BY <1>0, <1>2, SecretsCompare DEF Advancing, Younger
<1>6. CASE Secretive(r)
  <2>1. \A s \in Requests : ~Busy(s)'
    BY <1>0, <1>4, <1>6 DEF Advancing, Exclusive
  <2>2. \A s \in Requests : ~At(s, "renamed")'
    BY <2>1 DEF At, Busy
  <2>3. file = {req[r].body}
    BY <1>0, <1>6 DEF Advancing, Leading
  <2>4. \A c \in file' : c["secret"] >= mem'["secret"]
    BY <1>0, <1>2, <2>3, SecretsCompare DEF Advancing, Younger
  <2> QED
    BY <1>0, <1>3, <1>5, <2>1, <2>2, <2>4
    DEF Advancing, Younger, Carried, Exclusive, Leading
<1>7. CASE ~Secretive(r)
  <2>1. mem' = req[r].body /\ hup' = hup
    BY <1>2, <1>7 DEF Secretive
  <2>2. mem'["secret"] = mem["secret"]
    BY <1>0, <1>7, <2>1 DEF Advancing, Carried
  <2>3. \A s \in Requests : Busy(s)' => (Secretive(s)' <=> Secretive(s))
    BY <1>4 DEF Secretive
  <2>4. Younger' /\ Carried'
    BY <1>0, <1>4, <2>2, <2>3 DEF Advancing, Younger, Carried
  <2>5. Exclusive'
    BY <1>0, <1>4, <2>1, <2>3 DEF Advancing, Exclusive
  <2>6. \A s \in Requests : At(s, "renamed")' => At(s, "renamed") /\ Busy(s)'
    BY <1>4 DEF At, Busy
  <2>7. Leading'
    BY <1>0, <1>4, <2>3, <2>6 DEF Advancing, Leading
  <2> QED
    BY <1>5, <2>4, <2>5, <2>7 DEF Advancing
<1> QED
  BY <1>6, <1>7

LEMMA RefuseAdvances ==
    ASSUME Shape, Advancing, NEW r \in Requests, Refuse(r) PROVE Advancing'
<1>1. UNCHANGED <<file, mem, loaded>> /\ hup' = hup /\ Moved(r, "error", req[r].body)
  BY MovesOn DEF Refuse
<1>2. \A s \in Requests : Busy(s)' => req'[s] = req[s]
  BY <1>1 DEF Moved, Busy
<1> QED
  BY <1>1, <1>2, EndingAdvances

LEMMA RestartAdvances ==
    ASSUME Shape, Advancing, ReadFile \/ SwapLoaded \/ Crash, ~missed'
    PROVE  Advancing' /\ mem'["secret"] >= mem["secret"]
<1>0. file' = file /\ mem["secret"] \in Nat
  BY SecretsCompare DEF ReadFile, SwapLoaded, Crash
<1>1. ReadFile \/ Crash => file = {Load}
  <2>1. ReadFile \/ Crash => missed' = Missing
    BY DEF ReadFile, Crash
  <2>2. ReadFile \/ Crash => ~Missing
    BY <2>1, Zenon
  <2>3. ReadFile \/ Crash => file # {}
    BY <2>2 DEF Missing
  <2> QED
    BY <2>3, LoadIsAConfig
<1>2. ASSUME ReadFile \/ SwapLoaded PROVE \A r \in Requests : ~Busy(r)' /\ ~At(r, "renamed")'
  <2>1. req' = req /\ (hup \/ loaded # {})
    BY <1>2 DEF ReadFile, SwapLoaded
  <2> QED
    BY <2>1 DEF Advancing, Exclusive, Busy, At
<1>3. CASE ReadFile
  <2>1. loaded' = file' /\ mem' = mem
    BY <1>0, <1>1, <1>3 DEF ReadFile
  <2> QED
    BY <1>0, <1>2, <1>3, <2>1 DEF Advancing, Younger, Carried, Exclusive, Leading
<1>4. CASE SwapLoaded
  <2>1. loaded = file /\ loaded = {mem'} /\ loaded' = {}
    BY <1>4 DEF SwapLoaded, Shape, Advancing, Exclusive
  <2>2. mem'["secret"] >= mem["secret"] /\ mem'["secret"] \in Nat
    BY <2>1, SecretsCompare DEF Advancing, Younger
  <2> QED
    BY <1>0, <1>2, <1>4, <2>1, <2>2 DEF Advancing, Younger, Carried, Exclusive, Leading
<1>5. CASE Crash
  <2>1. /\ mem' = Load /\ ~hup' /\ loaded' = {}
        /\ \A r \in Requests :
             Busy(r)' => /\ Busy(r) /\ req'[r].kind = "cli" /\ req'[r].kind = req[r].kind
                         /\ req'[r].at = req[r].at /\ req'[r].body = req[r].body
    BY <1>5, CrashEnds
  <2>2. file = {mem'} /\ mem'["secret"] \in Nat
    BY <1>1, <1>5, <2>1, SecretsCompare
  <2>3. mem'["secret"] >= mem["secret"]
    BY <2>2 DEF Advancing, Younger
  <2>4. Younger'
    BY <1>0, <2>1, <2>2 DEF Advancing, Leading, Younger
  <2>5. \A r \in Requests : Busy(r)' => Secretive(r)' /\ Secretive(r)
    BY <2>1 DEF Secretive
  <2>6. Carried' /\ Exclusive'
    BY <2>1, <2>5 DEF Advancing, Carried, Exclusive
  <2>7. \A r \in Requests : At(r, "renamed")' => Busy(r)' /\ At(r, "renamed")
    BY <2>1 DEF At, Busy
  <2>8. Leading'
    BY <1>0, <2>1, <2>5, <2>7 DEF Advancing, Leading
  <2> QED
    BY <2>3, <2>4, <2>6, <2>8 DEF Advancing
<1> QED
  BY <1>3, <1>4, <1>5

\* What the histories let through, they let through before.
LEMMA HistoriesGrow ==
    ASSUME [Next]_vars PROVE (crossed => crossed') /\ (missed => missed')
<1>1. CASE UNCHANGED history
  <2>1. crossed' = crossed /\ missed' = missed
    BY <1>1 DEF history
  <2> QED
    BY <2>1, Zenon
<1>2. ASSUME NEW r \in Requests, Copy(r) PROVE (crossed => crossed') /\ (missed => missed')
  <2>1. crossed' = (crossed \/ Crosses(r))
    BY <1>2 DEF Copy
  <2>2. missed' = IF req[r].kind = "cli" THEN Missing ELSE missed
    BY <1>2 DEF Copy
  <2>3. missed => missed'
    BY <2>2, Zenon DEF Missing
  <2> QED
    BY <2>1, <2>3, Zenon
<1>3. CASE ReadFile \/ Crash
  <2>1. crossed' = crossed
    BY <1>3 DEF ReadFile, Crash
  <2>2. missed' = Missing
    BY <1>3 DEF ReadFile, Crash
  <2>3. missed => missed'
    BY <2>2, Zenon DEF Missing
  <2> QED
    BY <2>1, <2>3, Zenon
<1>4. CASE PageStep \/ UNCHANGED vars
  BY <1>1, <1>4 DEF PageStep, vars, configVars, engine, FetchServed, FetchArrives, Open, Leave,
     Blur, SendIcon, Type, Flip, Settle, SaveSettles, IconSettles, LateAnswer
<1>5. ASSUME NEW r \in Requests,
             Other(r) \/ AnswerLost(r) \/ OtherAnswered(r) \/ Remove(r) \/ Rename(r) \/ Swap(r)
             \/ Refuse(r)
      PROVE  UNCHANGED history
  BY <1>5 DEF Other, AnswerLost, OtherAnswered, engine, Remove, Rename, Swap, Refuse
<1>6. CASE SwapLoaded
  BY <1>1, <1>6 DEF SwapLoaded
<1> QED
  BY <1>1, <1>2, <1>3, <1>4, <1>5, <1>6 DEF Next, PageStep, Outside, Server, Serve

-----------------------------------------------------------------------------
(* The theorems.                                                           *)

LEMMA IdlingStepKeeps ==
    ASSUME Consistent, Idling, UNCHANGED <<file, mem, hup, loaded>>, clash' = clash
    PROVE  Consistent' /\ (Advancing => Advancing') /\ mem'["secret"] >= mem["secret"]
<1>1. clash => clash'
  BY Zenon
<1>2. Consistent'
  BY <1>1, IdlingKeeps DEF Idling
<1>3. mem["secret"] \in Nat
  BY DEF Consistent, Shape, IsConfig
<1>4. Advancing => Advancing'
  <2>1. \A r \in Requests :
          Busy(r)' => /\ req'[r].at = req[r].at /\ req'[r].body = req[r].body
                      /\ req'[r].kind = req[r].kind
    BY DEF Idling, Idles
  <2> QED
    BY <2>1, EndingAdvances
<1> QED
  BY <1>2, <1>3, <1>4

Onward == ~crossed' /\ ~missed' /\ Advancing => Advancing' /\ mem'["secret"] >= mem["secret"]

LEMMA StepOnward == ASSUME Consistent, [Next]_vars PROVE Consistent' /\ Onward
<1>0. Shape /\ mem["secret"] \in Nat
  BY DEF Consistent, Shape, IsConfig
<1>1. ASSUME Idling, UNCHANGED engine PROVE Consistent' /\ Onward
  <2>1. UNCHANGED <<file, mem, hup, loaded>> /\ clash' = clash
    BY <1>1 DEF engine, history
  <2> QED
    BY <1>1, <2>1, IdlingStepKeeps DEF Onward
<1>2. CASE PageStep
  BY <1>0, <1>1, <1>2, PageIdles
<1>3. ASSUME NEW r \in Requests, Other(r) \/ OtherAnswered(r) PROVE Consistent' /\ Onward
  BY <1>0, <1>1, <1>3, OthersIdle
<1>4. ASSUME NEW r \in Requests, AnswerLost(r) PROVE Consistent' /\ Onward
  BY <1>0, <1>4, LostIdles, IdlingStepKeeps DEF Onward
<1>5. ASSUME NEW r \in Requests, Serve(r) PROVE Consistent' /\ Onward
  <2>1. Consistent'
    BY <1>5, CopyKeeps, WritingKeeps, SwapKeeps, RefuseKeeps DEF Serve
  <2>2. CASE Swap(r)
    BY <1>0, <2>1, <2>2, SwapAdvances DEF Onward
  <2>3. CASE Copy(r) \/ Remove(r) \/ Rename(r) \/ Refuse(r)
    <3>1. mem' = mem
      BY <2>3 DEF Copy, Remove, Rename, Refuse
    <3>2. ~crossed' /\ ~missed' /\ Advancing => Advancing'
      BY <1>0, <2>3, CopyAdvances, WritingAdvances, RefuseAdvances
    <3> QED
      BY <1>0, <2>1, <3>1, <3>2 DEF Onward
  <2> QED
    BY <1>5, <2>2, <2>3 DEF Serve
<1>6. CASE ReadFile \/ SwapLoaded \/ Crash
  BY <1>0, <1>6, ReloadKeeps, CrashKeeps, RestartAdvances DEF Onward
<1>7. CASE UNCHANGED vars
  <2>1. req' = req /\ UNCHANGED engine
    BY <1>7 DEF vars, configVars
  <2> QED
    BY <1>0, <1>1, <2>1, StayingIdles
<1> QED
  BY <1>2, <1>3, <1>4, <1>5, <1>6, <1>7 DEF Next, PageStep, Outside, Server

LEMMA StepKeeps ==
    ASSUME Sound, [Next]_vars
    PROVE  Sound' /\ (~crossed' /\ ~missed' => mem'["secret"] >= mem["secret"])
<1>1. Consistent' /\ Onward
  BY StepOnward DEF Sound
<1>2. ASSUME ~crossed', ~missed' PROVE Advancing' /\ mem'["secret"] >= mem["secret"]
  <2>1. ~crossed /\ ~missed
    BY <1>2, HistoriesGrow
  <2>2. Advancing
    BY <2>1 DEF Sound, Advances
  <2> QED
    BY <1>1, <1>2, <2>2 DEF Onward
<1> QED
  BY <1>1, <1>2 DEF Sound, Advances

LEMMA Soundness == Spec => []Sound
<1>1. Sound /\ [Next]_vars => Sound'
  BY StepKeeps
<1> QED
  BY <1>1, Start, PTL DEF Spec

\* config.go's Update and Reload leave memory and file alike, for any settings, any number
\* of requests and any failures, crashes and reloads, as long as no two updates meet and
\* there is a file.
THEOREM FileFollowsMemory == Spec => []MemoryMatchesFile
<1>1. Sound => MemoryMatchesFile
  BY DEF Sound, Consistent, MemoryMatchesFile, Filed, Matches
<1> QED
  BY <1>1, Soundness, PTL

\* Any number of saves and icons at once, and restarts and reloads among them, never bring
\* back an older password hash or session epoch, as long as a change of the secrets meets
\* no other update and the file is never read while there is none.
THEOREM SecretsMoveOn == Spec => SecretsNeverGoBack
<1>1. Sound /\ [Next]_vars
        => [~crossed' /\ ~missed' => mem'["secret"] >= mem["secret"]]_configVars
  BY StepKeeps
<1> QED
  BY <1>1, Soundness, PTL DEF Spec, SecretsNeverGoBack

-----------------------------------------------------------------------------
(* The form.                                                               *)

\* A form, an answer and the cache hold one form or none; a page that is gone has none.
\* Edits have numbers.
IsForm(f) == f = [k \in Visible |-> f[k]]
OneForm(set) == set = {} \/ \E f : set = {f} /\ IsForm(f)
Filled ==
    /\ OneForm(form) /\ OneForm(cache) /\ OneForm(reply) /\ (~open => form = {})
    /\ version \in Nat

\* What is in the form's settings stays there.
EditsStay ==
    form # {} /\ form' # {} /\ version' = version =>
        \A f \in form, g \in form' : \A k \in Settings : g[k] = f[k]

LEMMA FormChanges ==
    ASSUME NEW f, IsForm(f), NEW k, NEW v
    PROVE  /\ IsForm([f EXCEPT ![k] = v])
           /\ \A j \in Visible \ {k} : [f EXCEPT ![k] = v][j] = f[j]
BY DEF IsForm

LEMMA FormStepKeeps == ASSUME Filled, [Next]_vars PROVE Filled' /\ EditsStay
<1>0. version \in Nat /\ version' \in Nat
  <2>1. version' \in {version, version + 1}
    BY DEF Next, vars, configVars, counters, Outside, Server, Other, AnswerLost, Crash, Serve,
       Copy, Remove, Rename, Swap, Refuse, OtherAnswered, ReadFile, SwapLoaded, FetchServed,
       FetchArrives, Open, Leave, Blur, SendIcon, Type, Flip, Settle, SaveSettles, IconSettles,
       LateAnswer
  <2> QED
    BY <2>1 DEF Filled
<1>1. ASSUME UNCHANGED <<form, open>>, OneForm(cache)', OneForm(reply)'
      PROVE  Filled' /\ EditsStay
  BY <1>0, <1>1 DEF Filled, OneForm, EditsStay
<1>2. CASE UNCHANGED <<form, open, cache>> /\ (UNCHANGED reply \/ reply' = {})
  BY <1>1, <1>2 DEF Filled, OneForm
<1>3. CASE FetchServed
  <2>1. UNCHANGED <<form, open, cache>> /\ reply' = {Published} /\ IsForm(Published)
    BY <1>3 DEF FetchServed, IsForm, Published
  <2> QED
    BY <1>1, <2>1 DEF Filled, OneForm
<1>4. CASE FetchArrives
  <2>1. cache' = reply /\ reply' = {} /\ form' = Fill(reply) /\ open' = open
    BY <1>4 DEF FetchArrives
  <2>2. CASE form = {}
    BY <1>0, <2>1, <2>2 DEF Filled, OneForm, EditsStay, Fill
  <2>3. CASE form # {}
    BY <1>1, <2>1, <2>3 DEF Filled, OneForm, Fill
  <2> QED
    BY <2>2, <2>3
<1>5. CASE Open
  <2>1. form = {} /\ form' = cache /\ UNCHANGED cache
    BY <1>5 DEF Open, Filled
  <2>2. open' /\ (UNCHANGED reply \/ reply' = {})
    BY <1>5 DEF Open
  <2> QED
    BY <1>0, <2>1, <2>2 DEF Filled, OneForm, EditsStay
<1>6. CASE Leave
  <2>1. form' = {} /\ UNCHANGED <<cache, reply>>
    BY <1>6 DEF Leave
  <2> QED
    BY <1>0, <2>1 DEF Filled, OneForm, EditsStay
<1>7. CASE (\E k \in Typed : Type(k)) \/ \E k \in Switches : Flip(k)
  <2>1. PICK k, v : /\ Ready /\ version' = version + 1 /\ form' = {[Shown EXCEPT ![k] = v]}
                    /\ UNCHANGED <<open, cache, reply>>
    BY <1>7 DEF Type, Flip
  <2>2. IsForm(Shown)
    BY <2>1 DEF Filled, OneForm, Shown, Ready
  <2>3. OneForm(form)' /\ (~open' => form' = {})
    BY <2>1, <2>2, FormChanges DEF OneForm, Ready
  <2> QED
    BY <1>0, <2>1, <2>3 DEF Filled, EditsStay
<1>8. ASSUME NEW r \in Requests, IconSettles(r) PROVE Filled' /\ EditsStay
  <2>1. UNCHANGED <<open, cache>> /\ (UNCHANGED reply \/ reply' = {})
    BY <1>8 DEF IconSettles, Invalidate
  <2>2. \/ UNCHANGED form
        \/ form' = {[f EXCEPT !["icon"] = req[r].body["icon"]] : f \in form}
    BY <1>8 DEF IconSettles
  <2>3. CASE UNCHANGED form
    BY <1>2, <2>1, <2>3
  <2>4. CASE form' = {[f EXCEPT !["icon"] = req[r].body["icon"]] : f \in form}
    <3>1. CASE form = {}
      BY <1>0, <2>1, <2>4, <3>1 DEF Filled, OneForm, EditsStay
    <3>2. CASE form # {}
      <4>1. PICK f : form = {f} /\ IsForm(f)
        BY <3>2 DEF Filled, OneForm
      <4>2. form' = {[f EXCEPT !["icon"] = req[r].body["icon"]]}
        BY <2>4, <4>1
      <4>3. \A k \in Settings : k \in Visible \ {"icon"}
        BY ConfigAssumption DEF Visible
      <4>4. EditsStay
        <5>1. ASSUME NEW k \in Settings
              PROVE  [f EXCEPT !["icon"] = req[r].body["icon"]][k] = f[k]
          BY <4>1, <4>3, FormChanges
        <5> QED
          BY <4>1, <4>2, <5>1 DEF EditsStay
      <4>5. OneForm(form')
        BY <4>1, <4>2, FormChanges DEF OneForm
      <4>6. Filled'
        BY <1>0, <2>1, <3>2, <4>5 DEF Filled, OneForm
      <4> QED
        BY <4>4, <4>6
    <3> QED
      BY <3>1, <3>2
  <2> QED
    BY <2>2, <2>3, <2>4
<1>9. CASE Blur \/ SendIcon \/ Outside \/ Server \/ UNCHANGED vars
  BY <1>2, <1>9 DEF Blur, SendIcon, Outside, Server, pageVars, vars
<1>10. ASSUME NEW r \in Requests, SaveSettles(r) \/ LateAnswer(r) PROVE Filled' /\ EditsStay
  BY <1>2, <1>10 DEF SaveSettles, LateAnswer, Invalidate
<1> QED
  BY <1>3, <1>4, <1>5, <1>6, <1>7, <1>8, <1>9, <1>10 DEF Next, Settle

\* No answer of the server, however late, replaces what is being edited (Settings.tsx's
\* effect fills an empty form only).
THEOREM EditsAreKept == Spec => AnswersKeepEdits
<1>1. Init => Filled
  BY DEF Init, ConfigInit, Filled, OneForm
<1>2. Filled /\ [Next]_vars => Filled'
  BY FormStepKeeps
<1>3. Filled /\ [Next]_vars => [EditsStay]_vars
  BY FormStepKeeps
<1> QED
  BY <1>1, <1>2, <1>3, PTL DEF Spec, AnswersKeepEdits, EditsStay

-----------------------------------------------------------------------------
(* The page and the server.                                                *)

\* While nothing else touches the configuration, the only request is the page's save; it
\* carries what the form shows, until someone types or a second save is put off.
TheSave(q) == q.kind = "put" /\ q.by = "page" /\ saving /\ form # {}
Undisturbed ==
    open /\ ~disturbed =>
        /\ ~hup /\ loaded = {}
        /\ \A r \in Requests : ~At(r, "free") => TheSave(req[r])
        /\ \A r, s \in Requests : ~At(r, "free") /\ ~At(s, "free") => r = s

Carries(q) == \A f \in form : \A k \in Visible : q.body[k] = f[k]
CarriesNormal(q) == \A f \in form : \A k \in Visible : q.body[k] = Normal(f)[k]
IsSaved(f) == Normal(f) = Published
Followed ==
    open /\ ~disturbed /\ ~merged /\ ~typing /\ form # {} =>
        /\ ~saving => \A f \in form : IsSaved(f)
        /\ \A r \in Requests : At(r, "sent") => Carries(req[r])
        /\ \A r \in Requests : Busy(r) => CarriesNormal(req[r])
        /\ \A r \in Requests : At(r, "ok") => \A f \in form : IsSaved(f)

PutOff == (~open => ~pending) /\ (pending => merged)

InStep == Shape /\ Filled /\ PutOff /\ Undisturbed /\ Followed

LEMMA PublishedIsAForm == IsForm(Published)
BY DEF IsForm, Published

\* What was validated needs no filling in.
Plain(c) == \A k \in Named : c[k] # Blank
Validated ==
    /\ Plain(mem)
    /\ \A c \in file \cup loaded : Plain(c)
    /\ \A r \in Requests : Busy(r) => Plain(req[r].body)

LEMMA PublishedIsSaved == ASSUME Plain(mem) PROVE IsSaved(Published)
<1>1. DOMAIN Published = Visible /\ Named \subseteq Visible
  BY ConfigAssumption DEF Published, Visible
<1>2. \A k \in Visible : ~(k \in Named /\ Published[k] = Blank)
  BY DEF Plain, Published
<1>3. Normal(Published) = [k \in Visible |-> Published[k]]
  BY <1>1, <1>2 DEF Normal
<1> QED
  BY <1>3 DEF IsSaved, Published

LEMMA NormalIsPlain == ASSUME NEW c, IsConfig(c) PROVE Plain(Normal(c))
<1>1. Named \subseteq Keys /\ Blank # 0
  BY ConfigAssumption DEF Keys, Visible, Blank
<1>2. \A k \in Keys : Normal(c)[k] = IF k \in Named /\ c[k] = Blank THEN 0 ELSE c[k]
  <2>1. DOMAIN c = Keys
    BY DEF IsConfig
  <2> QED
    BY <2>1 DEF Normal
<1> QED
  BY <1>1, <1>2 DEF Plain

LEMMA DefaultIsPlain == Plain(Default)
BY ConfigAssumption DEF Plain, Default, Keys, Visible, Blank

LEMMA ValidatedStep == ASSUME Shape, Validated, [Next]_vars PROVE Validated'
<1>0. Plain(Load)
  BY DefaultIsPlain DEF Validated, Load
<1>1. ASSUME Idling, UNCHANGED <<file, mem, loaded>> PROVE Validated'
  <2>1. \A r \in Requests : Busy(r)' => Busy(r) /\ req'[r].body = req[r].body
    BY <1>1 DEF Idling, Idles, Busy
  <2> QED
    BY <1>1, <2>1 DEF Validated
<1>2. CASE PageStep
  BY <1>1, <1>2, PageIdles DEF engine
<1>3. ASSUME NEW r \in Requests, Other(r) \/ OtherAnswered(r) PROVE Validated'
  BY <1>1, <1>3, OthersIdle DEF engine
<1>4. ASSUME NEW r \in Requests, AnswerLost(r) PROVE Validated'
  BY <1>1, <1>4, LostIdles
<1>5. ASSUME NEW r \in Requests, NEW at, NEW body, Moved(r, at, body),
             at \in {"copied", "removed", "renamed"} => Plain(body)
      PROVE  \A s \in Requests : Busy(s)' => Plain(req'[s].body)
  BY <1>5 DEF Validated, Moved, Busy
<1>6. ASSUME NEW r \in Requests, Copy(r) PROVE Validated'
  <2>1. Moved(r, "copied", Normal(Merged(r))) /\ Plain(Normal(Merged(r)))
    BY <1>6, MovesOn, SavedKeepsSecret, MergedKeepsSecret, NormalIsPlain DEF Copy
  <2>2. UNCHANGED <<file, mem, loaded>>
    BY <1>6 DEF Copy
  <2> QED
    BY <1>5, <2>1, <2>2 DEF Validated
<1>7. ASSUME NEW r \in Requests, Remove(r) \/ Rename(r) PROVE Validated'
  <2>1. Plain(req[r].body) /\ UNCHANGED <<mem, loaded>> /\ file' \in {{}, {req[r].body}}
    BY <1>7 DEF Validated, Remove, Rename, At, Busy
  <2>2. Moved(r, "removed", req[r].body) \/ Moved(r, "renamed", req[r].body)
    BY <1>7, MovesOn DEF Remove, Rename
  <2> QED
    BY <1>5, <2>1, <2>2 DEF Validated
<1>8. ASSUME NEW r \in Requests, Swap(r) PROVE Validated'
  <2>1. PICK body : Moved(r, "ok", body)
    BY <1>8, SwapMoves
  <2>2. UNCHANGED <<file, loaded>> /\ mem' \in {mem, req[r].body} /\ Plain(req[r].body)
    BY <1>8 DEF Validated, Swap, At, Busy
  <2> QED
    BY <1>5, <2>1, <2>2 DEF Validated
<1>9. ASSUME NEW r \in Requests, Refuse(r) PROVE Validated'
  <2>1. Moved(r, "error", req[r].body) /\ UNCHANGED <<file, mem, loaded>>
    BY <1>9, MovesOn DEF Refuse
  <2> QED
    BY <1>5, <2>1 DEF Validated
<1>10. CASE ReadFile
  <2>1. UNCHANGED <<file, mem, req>> /\ loaded' = {Load}
    BY <1>10 DEF ReadFile
  <2> QED
    BY <1>0, <2>1 DEF Validated, Busy
<1>11. CASE SwapLoaded
  <2>1. UNCHANGED <<file, req>> /\ loaded' = {} /\ mem' \in loaded
    BY <1>11 DEF SwapLoaded
  <2> QED
    BY <2>1 DEF Validated, Busy
<1>12. CASE Crash
  <2>1. /\ mem' = Load /\ file' = file /\ loaded' = {}
        /\ \A r \in Requests : Busy(r)' => Busy(r) /\ req'[r].body = req[r].body
    BY <1>12, CrashEnds
  <2> QED
    BY <1>0, <2>1 DEF Validated
<1>13. CASE UNCHANGED vars
  BY <1>1, <1>13, StayingIdles DEF vars, configVars, engine
<1> QED
  BY <1>2, <1>3, <1>4, <1>6, <1>7, <1>8, <1>9, <1>10, <1>11, <1>12, <1>13
  DEF Next, PageStep, Outside, Server, Serve

\* Two forms with the same settings are the same.
LEMMA SameForm ==
    ASSUME NEW f, NEW g, IsForm(f), IsForm(g), \A k \in Visible : f[k] = g[k] PROVE f = g
BY DEF IsForm

LEMMA PutOffStepKeeps == ASSUME PutOff, [Next]_vars PROVE PutOff'
<1>1. CASE UNCHANGED <<open, pending, merged>>
  BY <1>1 DEF PutOff
<1>2. CASE Open \/ Leave
  BY <1>2 DEF Open, Leave, PutOff
<1>3. CASE Blur \/ \E k \in Switches : Flip(k)
  <2>1. open' = open /\ open
    BY <1>3 DEF Blur, Flip, Ready
  <2>2. open'
    BY <2>1, Zenon
  <2>3. (pending' /\ merged') \/ UNCHANGED <<pending, merged>>
    BY <1>3 DEF Blur, Flip, Save
  <2> QED
    BY <2>2, <2>3 DEF PutOff
<1>4. ASSUME NEW r \in Requests, SaveSettles(r) PROVE PutOff'
  BY <1>4 DEF SaveSettles, PutOff
<1>5. ASSUME NEW r \in Requests, IconSettles(r) \/ LateAnswer(r) PROVE PutOff'
  BY <1>1, <1>5 DEF IconSettles, LateAnswer
<1>6. CASE FetchServed \/ FetchArrives \/ SendIcon \/ (\E k \in Typed : Type(k))
           \/ Outside \/ Server \/ UNCHANGED vars
  BY <1>1, <1>6 DEF FetchServed, FetchArrives, SendIcon, Type, Outside, Server, pageVars, vars
<1> QED
  BY <1>2, <1>3, <1>4, <1>5, <1>6 DEF Next, Settle

\* A step that disturbs the page, or comes while it is disturbed or closed.
LEMMA DisturbedStep ==
    ASSUME open' => disturbed' PROVE Undisturbed' /\ Followed'
BY DEF Undisturbed, Followed

\* Serving a request changes no other one, nor whose it is.
LEMMA ServedIsTheSame ==
    ASSUME Shape, NEW r \in Requests, Serve(r)
    PROVE  /\ \A s \in Requests \ {r} : req'[s] = req[s]
           /\ req'[r].kind = req[r].kind /\ req'[r].by = req[r].by
           /\ ~At(r, "free") /\ ~At(r, "free")'
<1>1. DOMAIN req = Requests /\ IsRequest(req[r])
  BY DEF Shape
<1>2. CASE Copy(r)
  BY <1>1, <1>2 DEF Copy, IsRequest, At
<1>3. CASE Remove(r) \/ Rename(r)
  BY <1>1, <1>3 DEF Remove, Rename, IsRequest, At
<1>4. CASE Swap(r)
  BY <1>1, <1>4 DEF Swap, IsRequest, At
<1>5. CASE Refuse(r)
  BY <1>1, <1>5 DEF Refuse, IsRequest, At
<1> QED
  BY <1>2, <1>3, <1>4, <1>5 DEF Serve

\* Validate's view of a form, and of a configuration.
LEMMA NormalFields ==
    /\ \A f : IsForm(f) => /\ IsForm(Normal(f))
                           /\ \A k \in Visible :
                                Normal(f)[k] = IF k \in Named /\ f[k] = Blank THEN 0 ELSE f[k]
    /\ \A c : IsConfig(c) => \A k \in Keys :
                                Normal(c)[k] = IF k \in Named /\ c[k] = Blank THEN 0 ELSE c[k]
<1>1. ASSUME NEW f, IsForm(f) PROVE DOMAIN f = Visible
  BY <1>1 DEF IsForm
<1>2. ASSUME NEW c, IsConfig(c) PROVE DOMAIN c = Keys
  BY <1>2 DEF IsConfig
<1> QED
  BY <1>1, <1>2 DEF Normal, IsForm

\* What a served save carries stays what the form shows, filled in by Validate, and is
\* published at the end.
LEMMA ServedFollows ==
    ASSUME Shape, NEW r \in Requests, Serve(r), req[r].kind = "put", NEW f, IsForm(f),
           At(r, "sent") => \A k \in Visible : req[r].body[k] = f[k],
           Busy(r) => \A k \in Visible : req[r].body[k] = Normal(f)[k],
           req[r].at \in {"sent", "copied", "removed", "renamed"}
    PROVE  /\ hup' = hup /\ loaded' = loaded
           /\ ~At(r, "sent")'
           /\ Busy(r)' => \A k \in Visible : req'[r].body[k] = Normal(f)[k]
           /\ At(r, "ok")' => IsSaved(f)'
<1>1. DOMAIN req = Requests /\ IsRequest(req[r])
  BY DEF Shape
<1>2. CASE Copy(r)
  <2> DEFINE whole == [req[r].body EXCEPT !["secret"] = mem["secret"]]
  <2>1. req'[r].body = Normal(whole) /\ req'[r].at = "copied"
    BY <1>1, <1>2 DEF Copy, IsRequest, Merged
  <2>2. \A k \in Visible : k # "secret" /\ k \in Keys
    BY ConfigAssumption DEF Visible, Keys
  <2>3. IsConfig(whole) /\ \A k \in Visible : whole[k] = req[r].body[k]
    <3>1. IsConfig(req[r].body) /\ mem["secret"] \in Nat
      BY <1>1 DEF IsRequest, Shape, IsConfig
    <3>2. IsConfig(whole)
      BY <3>1, SecretChanges
    <3> QED
      BY <2>2, <3>1, <3>2 DEF IsConfig
  <2>4. \A k \in Visible : req[r].body[k] = f[k]
    BY <1>2 DEF Copy
  <2> HIDE DEF whole
  <2>5. \A k \in Visible : req'[r].body[k] = Normal(f)[k]
    BY <2>1, <2>2, <2>3, <2>4, NormalFields
  <2> QED
    BY <1>2, <2>1, <2>5 DEF Copy, At, Busy
<1>3. CASE Remove(r) \/ Rename(r)
  <2>1. req'[r].body = req[r].body /\ req'[r].at \in {"removed", "renamed"} /\ Busy(r)
    BY <1>1, <1>3 DEF Remove, Rename, IsRequest, At, Busy
  <2> QED
    BY <1>3, <2>1 DEF Remove, Rename, At, Busy
<1>4. CASE Swap(r)
  <2>1. mem' = req[r].body /\ req'[r].at = "ok" /\ Busy(r)
    BY <1>1, <1>4 DEF Swap, IsRequest, At, Busy
  <2>2. IsForm(Normal(f)) /\ \A k \in Visible : mem'[k] = Normal(f)[k]
    BY <2>1, NormalFields
  <2>3. Normal(f) = Published'
    BY <2>2 DEF Published, IsForm
  <2> QED
    BY <1>4, <2>1, <2>3 DEF Swap, At, Busy, IsSaved
<1>5. CASE Refuse(r)
  BY <1>1, <1>5 DEF Refuse, IsRequest, At, Busy
<1> QED
  BY <1>2, <1>3, <1>4, <1>5 DEF Serve

LEMMA ServedInStep ==
    ASSUME InStep, NEW r \in Requests, Serve(r), UNCHANGED pageVars
    PROVE  Undisturbed' /\ Followed'
<1>0. UNCHANGED <<open, form, saving, typing, merged>> /\ disturbed' = disturbed /\ Shape
  BY DEF pageVars, InStep
<1>1. CASE ~(open /\ ~disturbed)
  <2>1. open' => disturbed'
    BY <1>0, <1>1, Zenon
  <2> QED
    BY <2>1, DisturbedStep
<1>2. CASE open /\ ~disturbed
  <2>1. /\ \A s \in Requests \ {r} : req'[s] = req[s]
        /\ req'[r].kind = req[r].kind /\ req'[r].by = req[r].by
        /\ ~At(r, "free") /\ ~At(r, "free")'
    BY <1>0, ServedIsTheSame
  <2>2. TheSave(req[r]) /\ ~hup /\ loaded = {} /\ \A s \in Requests \ {r} : At(s, "free")
    BY <1>2, <2>1 DEF InStep, Undisturbed
  <2>3. ~hup' /\ loaded' = {}
    BY <2>2 DEF Serve, Copy, Remove, Rename, Swap, Refuse, TheSave
  <2>4. \A s \in Requests \ {r} : At(s, "free")'
    BY <2>1, <2>2 DEF At
  <2>5. TheSave(req[r])'
    BY <1>0, <2>1, <2>2 DEF TheSave
  <2>6. Undisturbed'
    BY <2>3, <2>4, <2>5 DEF Undisturbed
  <2>7. ASSUME ~merged, ~typing PROVE Followed'
    <3>1. PICK f : form = {f} /\ IsForm(f)
      BY <2>2 DEF TheSave, InStep, Filled, OneForm
    <3>2. req[r].at \in {"sent", "copied", "removed", "renamed"}
      BY DEF Serve, Copy, Remove, Rename, Swap, Refuse, At
    <3>3. /\ At(r, "sent") => \A k \in Visible : req[r].body[k] = f[k]
          /\ Busy(r) => \A k \in Visible : req[r].body[k] = Normal(f)[k]
      BY <1>2, <2>7, <3>1 DEF InStep, Followed, Carries, CarriesNormal
    <3>4. /\ ~At(r, "sent")' /\ (Busy(r)' => \A k \in Visible : req'[r].body[k] = Normal(f)[k])
          /\ At(r, "ok")' => IsSaved(f)'
      BY <1>0, <2>2, <3>1, <3>2, <3>3, ServedFollows DEF TheSave
    <3>5. \A s \in Requests : ~At(s, "sent")' /\ (Busy(s)' => CarriesNormal(req[s])')
      BY <1>0, <2>4, <3>1, <3>4 DEF CarriesNormal, At, Busy
    <3>6. \A s \in Requests : At(s, "ok")' => \A g \in form' : IsSaved(g)'
      BY <1>0, <2>4, <3>1, <3>4 DEF At
    <3>7. saving'
      BY <2>5 DEF TheSave
    <3> QED
      BY <3>5, <3>6, <3>7 DEF Followed
  <2>8. ~(~merged /\ ~typing) => Followed'
    BY <1>0 DEF Followed
  <2> QED
    BY <2>6, <2>7, <2>8
<1> QED
  BY <1>1, <1>2

\* The steps of the page that make no request.
LEMMA QuietPageInStep ==
    ASSUME InStep, Plain(mem), UNCHANGED <<engine, req>>,
           FetchServed \/ FetchArrives \/ Open \/ \E k \in Typed : Type(k)
    PROVE  Undisturbed' /\ Followed'
<1>0. UNCHANGED <<hup, loaded, mem, req>>
  BY DEF engine
<1>1. \A r \in Requests : /\ At(r, "free")' <=> At(r, "free")
                          /\ At(r, "sent")' <=> At(r, "sent")
                          /\ At(r, "ok")' <=> At(r, "ok")
                          /\ Busy(r)' <=> Busy(r)
  BY <1>0 DEF At, Busy
<1>2. Published' = Published /\ \A f : IsSaved(f)' <=> IsSaved(f)
  BY <1>0 DEF Published, IsSaved
<1>3. CASE FetchServed
  <2>1. UNCHANGED <<open, form, saving, typing, merged>> /\ disturbed' = disturbed
    BY <1>3 DEF FetchServed
  <2>2. Undisturbed'
    BY <1>0, <1>1, <2>1 DEF InStep, Undisturbed, TheSave
  <2>3. Followed'
    BY <1>0, <1>1, <1>2, <2>1 DEF InStep, Followed, Carries, CarriesNormal
  <2> QED
    BY <2>2, <2>3
<1>4. CASE FetchArrives
  <2>1. UNCHANGED <<open, saving, typing, merged>> /\ form' = Fill(reply)
    BY <1>4 DEF FetchArrives
  <2>2. disturbed' = (disturbed \/ (form = {} /\ Differs(form')))
    BY <1>4 DEF FetchArrives
  <2>3. CASE form # {}
    <3>1. form' = form
      BY <2>1, <2>3 DEF Fill
    <3>2. disturbed => disturbed'
      BY <2>2, Zenon
    <3>3. Undisturbed'
      BY <1>0, <1>1, <2>1, <3>1, <3>2 DEF InStep, Undisturbed, TheSave
    <3>4. Followed'
      BY <1>0, <1>1, <1>2, <2>1, <3>1, <3>2 DEF InStep, Followed, Carries, CarriesNormal
    <3> QED
      BY <3>3, <3>4
  <2>4. CASE form = {} /\ open /\ ~disturbed'
    <3>1. ~disturbed /\ ~Differs(form')
      BY <2>2, <2>4, Zenon
    <3>2. \A r \in Requests : At(r, "free")
      BY <2>4, <3>1 DEF InStep, Undisturbed, TheSave
    <3>3. ~hup /\ loaded = {}
      BY <2>4, <3>1 DEF InStep, Undisturbed
    <3>4. form' = {} \/ form' = {Published}
      BY <3>1 DEF Differs
    <3>5. Undisturbed'
      BY <1>0, <1>1, <3>2, <3>3 DEF Undisturbed
    <3>6. Followed'
      BY <1>0, <1>1, <1>2, <3>2, <3>4, PublishedIsSaved DEF Followed, At, Busy
    <3> QED
      BY <3>5, <3>6
  <2>5. CASE ~open \/ disturbed'
    <3>1. open' => disturbed'
      BY <2>1, <2>5, Zenon
    <3> QED
      BY <3>1, DisturbedStep
  <2> QED
    BY <2>3, <2>4, <2>5, Zenon
<1>5. CASE Open
  <2>1. form' = cache
    BY <1>5 DEF Open
  <2>2. disturbed' = (Differs(cache) \/ ~Quiet \/ \E r \in Requests : ~At(r, "free"))
    BY <1>5 DEF Open
  <2>3. CASE disturbed'
    <3>1. open' => disturbed'
      BY <2>3
    <3> QED
      BY <3>1, DisturbedStep
  <2>4. CASE ~disturbed'
    <3>1. ~Differs(cache) /\ Quiet /\ \A r \in Requests : At(r, "free")
      BY <2>2, <2>4, Zenon
    <3>2. Undisturbed'
      BY <1>0, <1>1, <3>1 DEF Undisturbed, Quiet
    <3>3. Followed'
      BY <1>0, <1>1, <1>2, <2>1, <3>1, PublishedIsSaved DEF Followed, Differs, At, Busy
    <3> QED
      BY <3>2, <3>3
  <2> QED
    BY <2>3, <2>4
<1>6. ASSUME NEW k \in Typed, Type(k) PROVE Undisturbed' /\ Followed'
  <2>1. typing' /\ form' # {} /\ UNCHANGED <<open, saving>> /\ form # {}
    BY <1>6 DEF Type, Ready
  <2>2. disturbed' = disturbed
    BY <1>6 DEF Type
  <2>3. Undisturbed'
    BY <1>0, <1>1, <2>1, <2>2 DEF InStep, Undisturbed, TheSave
  <2>4. Followed'
    BY <2>1 DEF Followed
  <2> QED
    BY <2>3, <2>4
<1> QED
  BY <1>3, <1>4, <1>5, <1>6

\* A save starts: what it sends is what the form will show.
LEMMA SaveInStep ==
    ASSUME InStep, NEW closure, NEW sent, Save(closure, sent), IsForm(sent),
           open, form # {}, form' = {sent}, open' = open, disturbed' = disturbed,
           typing' = FALSE, UNCHANGED engine
    PROVE  Undisturbed' /\ Followed'
<1>0. UNCHANGED <<hup, loaded, mem>> /\ Shape
  BY DEF engine, InStep
<1>1. CASE disturbed
  <2>1. open' => disturbed'
    BY <1>1, Zenon
  <2> QED
    BY <2>1, DisturbedStep
<1>2. CASE ~disturbed /\ saving
  <2>1. req' = req /\ saving' = saving /\ merged'
    BY <1>2 DEF Save
  <2>2. Undisturbed'
    BY <1>0, <1>2, <2>1 DEF InStep, Undisturbed, TheSave, At
  <2>3. Followed'
    BY <2>1 DEF Followed
  <2> QED
    BY <2>2, <2>3
<1>3. CASE ~disturbed /\ ~saving
  <2>1. \A s \in Requests : At(s, "free")
    BY <1>3 DEF InStep, Undisturbed, TheSave
  <2>2. ~hup' /\ loaded' = {}
    BY <1>0, <1>3 DEF InStep, Undisturbed
  <2>3. PICK r \in Requests : Arrives(r, "put", "page", Body(sent)) /\ saving' = TRUE
    BY <1>3 DEF Save
  <2>4. /\ req'[r] = [kind |-> "put", at |-> "sent", by |-> "page", body |-> Body(sent)]
        /\ \A s \in Requests \ {r} : req'[s] = req[s]
    BY <1>0, <2>3 DEF Arrives, Shape
  <2>5. TheSave(req[r])' /\ \A s \in Requests \ {r} : At(s, "free")'
    BY <2>1, <2>3, <2>4 DEF TheSave, At
  <2>6. Undisturbed'
    BY <2>2, <2>5 DEF Undisturbed
  <2>7. \A k \in Visible : req'[r].body[k] = sent[k]
    BY <2>4 DEF Body, Keys
  <2>8. At(r, "sent")'
    BY <2>4 DEF At
  <2>9. Followed'
    BY <2>3, <2>5, <2>7, <2>8 DEF Followed, Carries, At, Busy
  <2> QED
    BY <2>6, <2>9
<1> QED
  BY <1>1, <1>2, <1>3

\* An answer: the page's own save, or one that cannot come while the page is undisturbed.
LEMMA AnswerInStep ==
    ASSUME InStep, NEW r \in Requests,
           Settle(r) \/ (OtherAnswered(r) /\ UNCHANGED pageVars)
    PROVE  Undisturbed' /\ Followed'
<1>0. UNCHANGED <<hup, loaded, mem, open, typing, merged>> /\ Shape
  BY DEF Settle, SaveSettles, IconSettles, LateAnswer, OtherAnswered, engine, InStep, pageVars
<1>1. disturbed => disturbed'
  <2>1. disturbed' = disturbed \/ disturbed' = (disturbed \/ At(r, "error"))
    BY DEF Settle, SaveSettles, IconSettles, LateAnswer, pageVars
  <2> QED
    BY <2>1, Zenon
<1>2. CASE ~(open /\ ~disturbed')
  <2>1. open' => disturbed'
    BY <1>0, <1>2, Zenon
  <2> QED
    BY <2>1, DisturbedStep
<1>3. CASE open /\ ~disturbed'
  <2>1. open /\ ~disturbed
    BY <1>1, <1>3, Zenon
  <2>2. ~At(r, "free")
    BY DEF Settle, SaveSettles, IconSettles, LateAnswer, OtherAnswered, Answered, At
  <2>3. TheSave(req[r]) /\ ~hup /\ loaded = {} /\ \A s \in Requests \ {r} : At(s, "free")
    BY <2>1, <2>2 DEF InStep, Undisturbed
  <2>4. SaveSettles(r)
    BY <2>3 DEF Settle, IconSettles, LateAnswer, OtherAnswered, Answered, TheSave
  <2>5. disturbed' = (disturbed \/ At(r, "error"))
    BY <2>4 DEF SaveSettles
  <2>6. ~At(r, "error")
    BY <1>3, <2>5, Zenon
  <2>7. At(r, "ok") /\ form' = form
    BY <2>4, <2>6 DEF SaveSettles, Answered, At
  <2>8. CASE pending
    <3>1. Arrives(r, "put", "page", Body(CHOOSE f \in base : TRUE)) /\ UNCHANGED saving /\ merged
      BY <2>4, <2>8 DEF SaveSettles, InStep, PutOff
    <3>2. /\ req'[r].kind = "put" /\ req'[r].by = "page"
          /\ \A s \in Requests \ {r} : req'[s] = req[s]
      BY <1>0, <3>1 DEF Arrives, Shape
    <3>3. TheSave(req[r])' /\ \A s \in Requests \ {r} : At(s, "free")'
      BY <2>3, <2>7, <3>1, <3>2 DEF TheSave, At
    <3>4. Undisturbed'
      BY <1>0, <2>3, <3>3 DEF Undisturbed
    <3>5. Followed'
      BY <1>0, <3>1 DEF Followed
    <3> QED
      BY <3>4, <3>5
  <2>9. CASE ~pending
    <3>1. req' = [req EXCEPT ![r] = Free]
      BY <2>4, <2>9 DEF SaveSettles
    <3>2. \A s \in Requests : At(s, "free")'
      BY <1>0, <2>3, <3>1 DEF Shape, At, Free
    <3>3. Undisturbed'
      BY <1>0, <2>3, <3>2 DEF Undisturbed
    <3>4. ~merged /\ ~typing => \A f \in form : IsSaved(f)
      BY <2>1, <2>3, <2>7 DEF InStep, Followed, TheSave
    <3>5. \A f : IsSaved(f)' <=> IsSaved(f)
      BY <1>0 DEF IsSaved, Published
    <3>6. Followed'
      BY <1>0, <2>7, <3>2, <3>4, <3>5 DEF Followed, At, Busy
    <3> QED
      BY <3>3, <3>6
  <2> QED
    BY <2>8, <2>9
<1> QED
  BY <1>2, <1>3

LEMMA PageStepInStep == ASSUME InStep, Plain(mem), [Next]_vars PROVE Undisturbed' /\ Followed'
<1>0. Filled
  BY DEF InStep
<1>1. CASE FetchServed \/ FetchArrives \/ Open \/ \E k \in Typed : Type(k)
  <2>1. UNCHANGED <<engine, req>>
    BY <1>1 DEF FetchServed, FetchArrives, Open, Type, configVars
  <2> QED
    BY <1>1, <2>1, QuietPageInStep
<1>2. CASE Leave
  <2>1. open' => disturbed'
    BY <1>2 DEF Leave
  <2> QED
    BY <2>1, DisturbedStep
<1>3. CASE SendIcon \/ Outside
  <2>1. disturbed' = TRUE \/ disturbed' = open'
    BY <1>3 DEF SendIcon, Outside
  <2>2. open' => disturbed'
    BY <2>1, Zenon
  <2> QED
    BY <2>2, DisturbedStep
<1>4. CASE Blur
  <2>1. form = {Shown} /\ IsForm(Shown)
    BY <1>0, <1>4 DEF Blur, Ready, Shown, Filled, OneForm
  <2>2. /\ Save(Shown, Shown) /\ open /\ form # {} /\ form' = form /\ open' = open
        /\ typing' = FALSE /\ UNCHANGED engine
    BY <1>4 DEF Blur, Ready
  <2>3. disturbed' = disturbed
    BY <1>4 DEF Blur
  <2> QED
    BY <2>1, <2>2, <2>3, SaveInStep
<1>5. ASSUME NEW k \in Switches, Flip(k) PROVE Undisturbed' /\ Followed'
  <2> DEFINE next == [Shown EXCEPT ![k] = version + 1]
  <2>1. IsForm(Shown)
    BY <1>0, <1>5 DEF Flip, Ready, Shown, Filled, OneForm
  <2>2. IsForm(next)
    BY <2>1, FormChanges
  <2>3. /\ Save(Shown, next) /\ open /\ form # {} /\ form' = {next} /\ open' = open
        /\ ~typing /\ typing' = typing /\ UNCHANGED engine
    BY <1>5 DEF Flip, Ready
  <2>4. disturbed' = disturbed
    BY <1>5 DEF Flip
  <2>5. typing' = FALSE
    BY <1>5 DEF Flip, Ready
  <2> HIDE DEF next
  <2> QED
    BY <2>2, <2>3, <2>4, <2>5, SaveInStep
<1>6. ASSUME NEW r \in Requests, Settle(r) PROVE Undisturbed' /\ Followed'
  BY <1>6, AnswerInStep
<1>7. CASE Server
  <2>1. UNCHANGED pageVars
    BY <1>7 DEF Server
  <2>2. ASSUME NEW r \in Requests, Serve(r) PROVE Undisturbed' /\ Followed'
    BY <2>1, <2>2, ServedInStep
  <2>3. ASSUME NEW r \in Requests, OtherAnswered(r) PROVE Undisturbed' /\ Followed'
    BY <2>1, <2>3, AnswerInStep
  <2>4. CASE ReadFile \/ SwapLoaded
    <3>1. hup \/ loaded # {}
      BY <2>4 DEF ReadFile, SwapLoaded
    <3>2. ~open \/ disturbed
      BY <3>1 DEF InStep, Undisturbed
    <3>3. open' => disturbed'
      BY <2>1, <3>2 DEF pageVars
    <3> QED
      BY <3>3, DisturbedStep
  <2> QED
    BY <1>7, <2>2, <2>3, <2>4 DEF Server
<1>8. CASE UNCHANGED vars
  <2>1. UNCHANGED <<hup, loaded, mem, req, open, form, saving, typing, merged>>
        /\ disturbed' = disturbed
    BY <1>8 DEF vars, configVars, engine, pageVars
  <2>2. Undisturbed'
    BY <2>1 DEF InStep, Undisturbed, TheSave, At
  <2>3. Followed'
    BY <2>1 DEF InStep, Followed, Carries, CarriesNormal, At, Busy, IsSaved, Published
  <2> QED
    BY <2>2, <2>3
<1> QED
  BY <1>1, <1>2, <1>3, <1>4, <1>5, <1>6, <1>7, <1>8 DEF Next

\* Settings.tsx's form and the server's configuration: with no failure, no other writer and
\* no two saves at once, a page at rest shows what the server has, but for an emptied text
\* that Validate filled in, however the edits, saves, fetches and visits of the page fall.
THEOREM PageShowsTheServer == Spec => []PageMatchesServer
<1>1. Init => InStep /\ Validated
  <2> SUFFICES ASSUME Init PROVE InStep /\ Validated
    OBVIOUS
  <2>1. Shape
    BY Start DEF Sound, Consistent
  <2>2. Validated
    BY DefaultIsPlain DEF Init, ConfigInit, Validated, Busy, Free
  <2> QED
    BY <2>1, <2>2 DEF Init, ConfigInit, InStep, Filled, OneForm, PutOff, Undisturbed, Followed
<1>2. InStep /\ Validated /\ Sound /\ [Next]_vars => InStep' /\ Validated'
  <2> SUFFICES ASSUME InStep, Validated, Sound, [Next]_vars PROVE InStep' /\ Validated'
    OBVIOUS
  <2>1. Shape'
    BY StepKeeps DEF Sound, Consistent
  <2>2. Filled' /\ PutOff'
    BY FormStepKeeps, PutOffStepKeeps DEF InStep
  <2>3. Undisturbed' /\ Followed'
    BY PageStepInStep DEF Validated
  <2> QED
    BY <2>1, <2>2, <2>3, ValidatedStep DEF InStep
<1>3. InStep => PageMatchesServer
  <2>1. ASSUME InStep, Settled, ~disturbed, ~merged PROVE IsSaved(Shown)
    <3>1. Shown \in form
      BY <2>1 DEF Settled, Ready, Shown
    <3> QED
      BY <2>1, <3>1 DEF InStep, Followed, Settled, Ready
  <2> QED
    BY <2>1 DEF PageMatchesServer, IsSaved
<1> QED
  BY <1>1, <1>2, <1>3, Soundness, PTL DEF Spec

-----------------------------------------------------------------------------
(* Types. What is not obvious of them is that the secrets stay in bounds:  *)
(* every one of them was lent by a call.                                   *)

AtMostOne(set, T) == set = {} \/ \E x \in T : set = {x}

LEMMA AtMostOneIsSmall ==
    ASSUME NEW T, NEW set, AtMostOne(set, T) PROVE set \in SUBSET T /\ Cardinality(set) <= 1
<1>1. CASE set = {}
  BY <1>1, FS_EmptySet
<1>2. ASSUME NEW x \in T, set = {x} PROVE set \in SUBSET T /\ Cardinality(set) <= 1
  <2>1. Cardinality({x}) = 1
    BY FS_Singleton
  <2> QED
    BY <1>2, <2>1
<1> QED
  BY <1>1, <1>2 DEF AtMostOne

AnyRequest == [kind : Kinds, at : Stages, by : Owners, body : Configs]

Histories == clash \in BOOLEAN /\ crossed \in BOOLEAN /\ missed \in BOOLEAN

ServerTypes ==
    /\ AtMostOne(file, Configs) /\ mem \in Configs /\ AtMostOne(loaded, Configs)
    /\ req \in [Requests -> AnyRequest]
    /\ hup \in BOOLEAN /\ Histories
    /\ version \in 0 .. MaxVersion /\ calls \in 0 .. MaxCalls /\ troubles \in 0 .. MaxTroubles

ViewTypes ==
    /\ open \in BOOLEAN /\ typing \in BOOLEAN /\ fetch \in {"idle", "sent", "answered"}
    /\ AtMostOne(form, Forms) /\ AtMostOne(cache, Forms) /\ AtMostOne(reply, Forms)

\* A save that was put off finds the form that the running one started from.
SaveTypes ==
    /\ saving \in BOOLEAN /\ pending \in BOOLEAN /\ merged \in BOOLEAN
    /\ AtMostOne(base, Forms) /\ (saving => base # {}) /\ (pending => saving)

\* The requests that will move the secret on, and the secrets there are.
Lent == {r \in Requests : At(r, "sent") /\ req[r].kind \in {"password", "cli"}}
Secrets ==
    {mem["secret"]} \cup {c["secret"] : c \in file \cup loaded}
    \cup {req[r].body["secret"] : r \in Requests}
Counted == \A n \in Secrets : n + Cardinality(Lent) <= calls

Types == ServerTypes /\ Counted /\ ViewTypes /\ SaveTypes /\ disturbed \in BOOLEAN

LEMMA HistoriesTyped == ASSUME Histories, UNCHANGED history PROVE Histories'
<1>1. clash' = clash /\ crossed' = crossed /\ missed' = missed
  BY DEF history
<1> QED
  BY <1>1 DEF Histories

LEMMA TypesAreRight == Types => TypeOK
<1> SUFFICES ASSUME Types PROVE TypeOK
  OBVIOUS
<1>1. version \in Values
  BY ConfigAssumption DEF Types, ServerTypes, Values, Blank
<1> QED
  BY <1>1, AtMostOneIsSmall
  DEF Types, ServerTypes, Histories, ViewTypes, SaveTypes, TypeOK, ConfigTypeOK, AnyRequest

LEMMA LentIsFinite == ASSUME NEW S, S \subseteq Requests PROVE IsFiniteSet(S) /\ Cardinality(S) \in Nat
BY ConfigAssumption, FS_Subset, FS_CardinalityType

LEMMA SecretsAreNumbers == ASSUME ServerTypes PROVE Secrets \subseteq Nat
<1>1. \A c \in Configs : c["secret"] \in Nat
  BY SecretIsAKey, ConfigAssumption DEF Configs, Values, Blank
<1>2. mem \in Configs /\ file \subseteq Configs /\ loaded \subseteq Configs
  BY DEF ServerTypes, AtMostOne
<1>3. \A r \in Requests : req[r].body \in Configs
  BY DEF ServerTypes, AnyRequest
<1> QED
  BY <1>1, <1>2, <1>3 DEF Secrets

LEMMA CountedAll ==
    ASSUME ServerTypes, Counted
    PROVE  \A n \in Secrets \cup {0} : n \in Nat /\ n + Cardinality(Lent) <= calls
<1>1. \A n \in Secrets : n \in Nat /\ n + Cardinality(Lent) <= calls
  BY SecretsAreNumbers DEF Counted
<1>2. mem["secret"] \in Secrets
  BY DEF Secrets
<1>3. Cardinality(Lent) \in Nat /\ calls \in Nat
  BY LentIsFinite, ConfigAssumption DEF Lent, ServerTypes
<1>4. 0 + Cardinality(Lent) <= calls
  <2>1. mem["secret"] \in Nat /\ mem["secret"] + Cardinality(Lent) <= calls
    BY <1>1, <1>2
  <2> QED
    BY <1>3, <2>1
<1> QED
  BY <1>1, <1>4

\* No step makes a secret but from another and a call.
LEMMA CountedStays ==
    ASSUME ServerTypes, Counted, calls' \in Nat, calls' >= calls, Lent' \subseteq Lent,
           \A n \in Secrets' : n = 0 \/ n \in Secrets
    PROVE  Counted'
<1>1. Cardinality(Lent') \in Nat /\ Cardinality(Lent) \in Nat /\ Cardinality(Lent') <= Cardinality(Lent)
  BY LentIsFinite, FS_Subset DEF Lent
<1>2. calls \in Nat
  BY ConfigAssumption DEF ServerTypes
<1>3. ASSUME NEW n \in Secrets' PROVE n + Cardinality(Lent') <= calls'
  <2>1. n \in Nat /\ n + Cardinality(Lent) <= calls
    BY <1>3, CountedAll
  <2> QED
    BY <1>1, <1>2, <2>1
<1> QED
  BY <1>3 DEF Counted

LEMMA ConfigChanges ==
    ASSUME NEW c \in Configs, NEW k, NEW v \in Values
    PROVE  /\ [c EXCEPT ![k] = v] \in Configs
           /\ [c EXCEPT !["secret"] = v]["secret"] = v
           /\ [c EXCEPT !["icon"] = v]["secret"] = c["secret"]
BY SecretIsAKey DEF Configs

LEMMA ValuesOfConfigs ==
    ASSUME ServerTypes
    PROVE  /\ Default \in Configs /\ Load \in Configs /\ mem \in Configs
           /\ \A c \in Configs : \A k \in Keys : c[k] \in Values
           /\ Default["secret"] = 0 /\ (Load["secret"] \in Secrets \/ Load["secret"] = 0)
           /\ mem["secret"] \in Secrets
<1>1. 0 \in Values
  BY ConfigAssumption DEF Values, Blank
<1>2. Default \in Configs /\ Default["secret"] = 0
  BY <1>1, SecretIsAKey DEF Default, Configs
<1>3. Load = Default \/ Load \in file
  BY DEF Load
<1>4. Load \in Configs /\ mem \in Configs
  BY <1>2, <1>3 DEF ServerTypes, AtMostOne
<1> QED
  BY <1>2, <1>3, <1>4 DEF Secrets, Configs

LEMMA NormalTyped ==
    ASSUME NEW c \in Configs
    PROVE  Normal(c) \in Configs /\ Normal(c)["secret"] = c["secret"]
<1>1. DOMAIN c = Keys /\ "secret" \notin Named /\ 0 \in Values
  BY ConfigAssumption DEF Configs, Values, Blank
<1>2. Normal(c) = [k \in Keys |-> IF k \in Named /\ c[k] = Blank THEN 0 ELSE c[k]]
  BY <1>1 DEF Normal
<1>3. Normal(c) \in Configs
  BY <1>1, <1>2 DEF Configs
<1> QED
  BY <1>1, <1>2, <1>3, SecretIsAKey

\* One request changes.
Changes(r, q) ==
    /\ req' \in [Requests -> AnyRequest]
    /\ req'[r] = q /\ \A s \in Requests \ {r} : req'[s] = req[s]

LEMMA ChangesOne ==
    ASSUME ServerTypes, NEW r \in Requests, NEW q \in AnyRequest, req' = [req EXCEPT ![r] = q]
    PROVE  Changes(r, q)
BY DEF ServerTypes, Changes

LEMMA ChangesStage ==
    ASSUME ServerTypes, NEW r \in Requests, NEW at \in Stages
    PROVE  /\ req' = [req EXCEPT ![r].at = at] => Changes(r, [req[r] EXCEPT !.at = at])
           /\ [req[r] EXCEPT !.at = at] \in AnyRequest
           /\ \A body \in Configs :
                /\ req' = [req EXCEPT ![r].at = at, ![r].body = body]
                     => Changes(r, [req[r] EXCEPT !.at = at, !.body = body])
                /\ [req[r] EXCEPT !.at = at, !.body = body] \in AnyRequest
<1>1. req[r] \in AnyRequest /\ DOMAIN req = Requests
  BY DEF ServerTypes
<1>2. [req[r] EXCEPT !.at = at] \in AnyRequest
  BY <1>1 DEF AnyRequest
<1>3. ASSUME NEW body \in Configs PROVE [req[r] EXCEPT !.at = at, !.body = body] \in AnyRequest
  BY <1>1 DEF AnyRequest
<1>4. ASSUME req' = [req EXCEPT ![r].at = at] PROVE Changes(r, [req[r] EXCEPT !.at = at])
  BY <1>1, <1>2, <1>4, ChangesOne
<1>5. ASSUME NEW body \in Configs, req' = [req EXCEPT ![r].at = at, ![r].body = body]
      PROVE  Changes(r, [req[r] EXCEPT !.at = at, !.body = body])
  <2>1. req' = [req EXCEPT ![r] = [req[r] EXCEPT !.at = at, !.body = body]]
    BY <1>1, <1>5
  <2> QED
    BY <1>3, <2>1, ChangesOne
<1> QED
  BY <1>2, <1>3, <1>4, <1>5

\* The request that changes lends no secret, and brings none that is new.
LEMMA ChangeCounts ==
    ASSUME ServerTypes, Counted, NEW r \in Requests, NEW q, Changes(r, q),
           ~(q.at = "sent" /\ q.kind \in {"password", "cli"}),
           q.body["secret"] = 0 \/ q.body["secret"] \in Secrets,
           \A c \in {mem'} \cup file' \cup loaded' : c["secret"] = 0 \/ c["secret"] \in Secrets,
           calls' \in Nat, calls' >= calls
    PROVE  Counted'
<1>1. Lent' \subseteq Lent
  BY DEF Lent, Changes, At
<1>2. \A n \in Secrets' : n = 0 \/ n \in Secrets
  BY DEF Secrets, Changes
<1> QED
  BY <1>1, <1>2, CountedStays

\* Copying for one of those that do takes its call.
LEMMA LoanCounts ==
    ASSUME ServerTypes, Counted, NEW r \in Lent, NEW q, Changes(r, q), q.at # "sent",
           NEW n \in Secrets \cup {0}, q.body["secret"] = n + 1,
           UNCHANGED <<mem, file, loaded, calls>>
    PROVE  Counted' /\ n + 1 \in Values
<1>1. Lent' = Lent \ {r}
  BY DEF Lent, Changes, At
<1>2. /\ Cardinality(Lent) \in Nat /\ Cardinality(Lent) # 0
      /\ Cardinality(Lent') = Cardinality(Lent) - 1
  <2>1. IsFiniteSet(Lent) /\ Cardinality(Lent) \in Nat
    BY LentIsFinite DEF Lent
  <2> QED
    BY <1>1, <2>1, FS_EmptySet, FS_RemoveElement
<1>3. Secrets \subseteq Nat /\ calls \in Nat /\ calls <= MaxCalls
  BY SecretsAreNumbers, ConfigAssumption DEF ServerTypes
<1>4. \A m \in Secrets \cup {0} : m \in Nat /\ m + Cardinality(Lent) <= calls
  BY CountedAll
<1>5. \A m \in Secrets' : m \in Secrets \/ m = n + 1
  BY DEF Secrets, Changes, Lent
<1>6. \A m \in Secrets' : m + Cardinality(Lent') <= calls'
  <2>1. n \in Nat /\ n + Cardinality(Lent) <= calls /\ calls' = calls
    BY <1>4
  <2>2. (n + 1) + Cardinality(Lent') <= calls'
    BY <1>2, <1>3, <2>1
  <2>3. ASSUME NEW m \in Secrets PROVE m + Cardinality(Lent') <= calls'
    <3>1. m \in Nat /\ m + Cardinality(Lent) <= calls
      BY <1>4
    <3> QED
      BY <1>2, <1>3, <2>1, <3>1
  <2> QED
    BY <1>5, <2>2, <2>3
<1>7. n + 1 \in Values
  <2>1. n \in Nat /\ n + 1 <= MaxCalls
    BY <1>2, <1>3, <1>4, ConfigAssumption
  <2> QED
    BY <2>1, ConfigAssumption DEF Values, Blank
<1> QED
  BY <1>6, <1>7 DEF Counted

LEMMA CopyTyped == ASSUME ServerTypes, Counted, NEW r \in Requests, Copy(r) PROVE ServerTypes' /\ Counted'
<1>0. /\ req[r] \in AnyRequest /\ req[r].body \in Configs /\ At(r, "sent")
      /\ UNCHANGED <<file, mem, loaded, hup, version, calls, troubles>>
  BY DEF ServerTypes, AnyRequest, Copy, counters
<1>1. /\ Load \in Configs /\ mem \in Configs /\ (Load["secret"] \in Secrets \/ Load["secret"] = 0)
      /\ mem["secret"] \in Secrets /\ mem["secret"] \in Values
      /\ \A c \in Configs : c["icon"] \in Values
  BY ValuesOfConfigs, SecretIsAKey DEF Keys, Visible
<1>2. Histories'
  <2>1. clash' = (clash \/ Clashes(r))
    BY DEF Copy
  <2>2. crossed' = (crossed \/ Crosses(r))
    BY DEF Copy
  <2>3. missed' = Missing \/ missed' = missed
    BY DEF Copy
  <2>4. missed' \in BOOLEAN
    BY <2>3 DEF Missing, ServerTypes, Histories
  <2> QED
    BY <2>1, <2>2, <2>4 DEF Histories
<1> DEFINE saved == Normal(Merged(r))
<1>3. ASSUME Merged(r) \in Configs,
             Changes(r, [req[r] EXCEPT !.at = "copied", !.body = saved]) => Counted'
      PROVE  ServerTypes' /\ Counted'
  <2>1. req' = [req EXCEPT ![r].at = "copied", ![r].body = saved] /\ "copied" \in Stages
    BY DEF Copy, Stages
  <2>2. saved \in Configs
    BY <1>3, NormalTyped
  <2> HIDE DEF saved
  <2>3. Changes(r, [req[r] EXCEPT !.at = "copied", !.body = saved])
    BY <2>1, <2>2, ChangesStage
  <2> QED
    BY <1>0, <1>2, <1>3, <2>3 DEF ServerTypes, Changes
<1> DEFINE q == [req[r] EXCEPT !.at = "copied", !.body = saved]
<1>4. q.at = "copied" /\ q.body = saved
  BY <1>0 DEF AnyRequest
<1>5. \A c \in {mem'} \cup file' \cup loaded' : c["secret"] = 0 \/ c["secret"] \in Secrets
  BY <1>0 DEF Secrets
<1>6. calls \in Nat
  BY ConfigAssumption DEF ServerTypes
<1> HIDE DEF q
<1>7. ASSUME Merged(r) \in Configs, Merged(r)["secret"] \in Secrets, Changes(r, q)
      PROVE  Counted'
  <2>1. calls' \in Nat /\ calls' >= calls
    BY <1>0, <1>6
  <2>2. q.body["secret"] \in Secrets
    BY <1>4, <1>7, NormalTyped
  <2> QED
    BY <1>4, <1>5, <1>7, <2>1, <2>2, ChangeCounts
<1>8. ASSUME NEW n \in Secrets \cup {0}, r \in Lent, Merged(r) \in Configs,
             Merged(r)["secret"] = n + 1, Changes(r, q)
      PROVE  Counted'
  <2>1. q.body["secret"] = n + 1 /\ q.at # "sent"
    BY <1>4, <1>8, NormalTyped
  <2> QED
    BY <1>0, <1>8, <2>1, LoanCounts
<1>9. CASE req[r].kind = "put"
  <2>1. Merged(r) = [req[r].body EXCEPT !["secret"] = mem["secret"]]
    BY <1>9 DEF Merged
  <2>2. Merged(r) \in Configs /\ Merged(r)["secret"] = mem["secret"]
    <3>1. /\ [req[r].body EXCEPT !["secret"] = mem["secret"]] \in Configs
          /\ [req[r].body EXCEPT !["secret"] = mem["secret"]]["secret"] = mem["secret"]
      BY <1>0, <1>1, SecretIsAKey, ConfigAssumption DEF Configs
    <3> QED
      BY <2>1, <3>1
  <2> QED
    BY <1>1, <1>3, <1>7, <2>2 DEF q
<1>10. CASE req[r].kind = "icon"
  <2>1. Merged(r) = [mem EXCEPT !["icon"] = req[r].body["icon"]]
    BY <1>10 DEF Merged
  <2>2. Merged(r) \in Configs /\ Merged(r)["secret"] = mem["secret"]
    <3>1. /\ [mem EXCEPT !["icon"] = req[r].body["icon"]] \in Configs
          /\ [mem EXCEPT !["icon"] = req[r].body["icon"]]["secret"] = mem["secret"]
      BY <1>0, <1>1, SecretIsAKey, ConfigAssumption DEF Configs
    <3> QED
      BY <2>1, <3>1
  <2> QED
    BY <1>1, <1>3, <1>7, <2>2 DEF q
<1>11. ASSUME NEW c \in Configs, c["secret"] \in Secrets \cup {0}, r \in Lent,
              Merged(r) = [c EXCEPT !["secret"] = c["secret"] + 1]
       PROVE  ServerTypes' /\ Counted'
  <2>1. c["secret"] + 1 \in Values
    <3>1. c["secret"] + Cardinality(Lent) <= calls
      BY <1>11, CountedAll
    <3>2. Cardinality(Lent) \in Nat /\ Cardinality(Lent) # 0
      <4>1. IsFiniteSet(Lent) /\ Cardinality(Lent) \in Nat
        BY LentIsFinite DEF Lent
      <4> QED
        BY <1>11, <4>1, FS_EmptySet
    <3>3. c["secret"] \in Nat /\ calls <= MaxCalls
      BY <1>11, SecretsAreNumbers DEF ServerTypes
    <3> QED
      BY <1>6, <3>1, <3>2, <3>3, ConfigAssumption DEF Values, Blank
  <2>2. Merged(r) \in Configs /\ Merged(r)["secret"] = c["secret"] + 1
    <3>1. /\ [c EXCEPT !["secret"] = c["secret"] + 1] \in Configs
          /\ [c EXCEPT !["secret"] = c["secret"] + 1]["secret"] = c["secret"] + 1
      BY <1>11, <2>1, SecretIsAKey, ConfigAssumption DEF Configs
    <3> QED
      BY <1>11, <3>1
  <2> QED
    BY <1>3, <1>8, <1>11, <2>2 DEF q
<1>12. CASE req[r].kind = "password"
  BY <1>0, <1>1, <1>11, <1>12 DEF Merged, Lent
<1>13. CASE req[r].kind = "cli"
  BY <1>0, <1>1, <1>11, <1>13 DEF Merged, Lent
<1> QED
  BY <1>0, <1>9, <1>10, <1>12, <1>13 DEF AnyRequest, Kinds

\* A request moves on, without a new configuration.
LEMMA StageTyped ==
    ASSUME ServerTypes, Counted, NEW r \in Requests, NEW at \in Stages \ {"sent"},
           req' = [req EXCEPT ![r].at = at], UNCHANGED <<mem, loaded, version, calls>>,
           file' \in {file, {}, {req[r].body}}, hup' \in BOOLEAN, Histories',
           troubles' \in 0 .. MaxTroubles
    PROVE  ServerTypes' /\ Counted'
<1> DEFINE q == [req[r] EXCEPT !.at = at]
<1>1. req[r].body \in Configs /\ req[r] \in AnyRequest /\ q.at = at /\ q.body = req[r].body
  BY DEF ServerTypes, AnyRequest
<1>2. Changes(r, q)
  BY ChangesStage
<1>3. ServerTypes'
  BY <1>1, <1>2 DEF ServerTypes, Changes, AtMostOne
<1>4. req[r].body["secret"] \in Secrets
  BY DEF Secrets
<1>5. \A c \in {mem'} \cup file' \cup loaded' : c["secret"] \in Secrets
  BY <1>4 DEF Secrets
<1>6. calls' \in Nat /\ calls' >= calls
  BY ConfigAssumption DEF ServerTypes
<1> HIDE DEF q
<1> QED
  BY <1>1, <1>2, <1>3, <1>4, <1>5, <1>6, ChangeCounts

LEMMA SwapTyped == ASSUME ServerTypes, Counted, NEW r \in Requests, Swap(r) PROVE ServerTypes' /\ Counted'
<1> DEFINE body == IconOnly(req[r].body)
           q == [req[r] EXCEPT !.at = "ok", !.body = body]
<1>0. req[r] \in AnyRequest /\ req[r].body \in Configs /\ DOMAIN req = Requests
  BY DEF ServerTypes, AnyRequest
<1>1. body \in Configs /\ body["secret"] = 0
  <2>1. req[r].body["icon"] \in Values /\ Default \in Configs /\ Default["secret"] = 0
    BY <1>0, ValuesOfConfigs DEF Keys, Visible
  <2> QED
    BY <2>1, ConfigChanges DEF IconOnly
<1>2. Changes(r, q)
  <2>1. req' = [req EXCEPT ![r].at = "ok", ![r].body = body] /\ "ok" \in Stages
    BY <1>0 DEF Swap, Stages, AnyRequest
  <2> HIDE DEF body
  <2> QED
    BY <1>1, <2>1, ChangesStage
<1>3. q.at = "ok" /\ q.body = body
  BY <1>0 DEF AnyRequest
<1>4. /\ UNCHANGED <<file, loaded, version, calls, troubles>>
      /\ (mem' = mem \/ mem' = req[r].body) /\ (hup' = TRUE \/ hup' = hup)
  BY DEF Swap, counters
<1>5. Histories'
  BY HistoriesTyped DEF Swap, ServerTypes
<1> HIDE DEF q, body
<1>6. ServerTypes'
  BY <1>0, <1>2, <1>4, <1>5 DEF ServerTypes, Changes
<1>7. \A c \in {mem'} \cup file' \cup loaded' : c["secret"] \in Secrets
  BY <1>4 DEF Secrets
<1>8. calls' \in Nat /\ calls' >= calls
  BY <1>4, ConfigAssumption DEF ServerTypes
<1> QED
  BY <1>1, <1>2, <1>3, <1>6, <1>7, <1>8, ChangeCounts

LEMMA ServeTyped == ASSUME ServerTypes, Counted, NEW r \in Requests, Serve(r) PROVE ServerTypes' /\ Counted'
<1>1. CASE Remove(r)
  <2>1. /\ req' = [req EXCEPT ![r].at = "removed"] /\ "removed" \in Stages \ {"sent"}
        /\ UNCHANGED <<mem, loaded, version, calls, troubles>> /\ file' = {}
    BY <1>1 DEF Remove, Stages, counters
  <2>2. hup' \in BOOLEAN /\ Histories' /\ troubles' \in 0 .. MaxTroubles
    BY <1>1, HistoriesTyped DEF Remove, ServerTypes
  <2> QED
    BY <2>1, <2>2, StageTyped
<1>2. CASE Rename(r)
  <2>1. /\ req' = [req EXCEPT ![r].at = "renamed"] /\ "renamed" \in Stages \ {"sent"}
        /\ UNCHANGED <<mem, loaded, version, calls, troubles>> /\ file' = {req[r].body}
    BY <1>2 DEF Rename, Stages, counters
  <2>2. hup' \in BOOLEAN /\ Histories' /\ troubles' \in 0 .. MaxTroubles
    BY <1>2, HistoriesTyped DEF Rename, ServerTypes
  <2> QED
    BY <2>1, <2>2, StageTyped
<1>3. CASE Refuse(r)
  <2>1. /\ req' = [req EXCEPT ![r].at = "error"] /\ "error" \in Stages \ {"sent"}
        /\ UNCHANGED <<mem, loaded, version, calls, file>>
    BY <1>3 DEF Refuse, Stages, counters
  <2>2. hup' \in BOOLEAN /\ Histories' /\ troubles' \in 0 .. MaxTroubles
    <3>1. Histories'
      BY <1>3, HistoriesTyped DEF Refuse, ServerTypes
    <3> QED
      BY <1>3, <3>1, ConfigAssumption DEF Refuse, Trouble, ServerTypes
  <2> QED
    BY <2>1, <2>2, StageTyped
<1> QED
  BY <1>1, <1>2, <1>3, CopyTyped, SwapTyped DEF Serve

\* Memory, file and reload change, requests only end.
LEMMA RestartTyped ==
    ASSUME ServerTypes, Counted, ReadFile \/ SwapLoaded \/ Crash PROVE ServerTypes' /\ Counted'
<1>1. /\ Load \in Configs /\ mem \in Configs /\ (Load["secret"] \in Secrets \/ Load["secret"] = 0)
  BY ValuesOfConfigs
<1>2. /\ file' = file /\ version' = version /\ calls' = calls
      /\ (mem' \in {mem, Load} \/ (loaded # {} /\ mem' = (CHOOSE c \in loaded : TRUE)))
      /\ (loaded' = {} \/ loaded' = {Load})
  BY DEF ReadFile, SwapLoaded, Crash, counters
<1>3. loaded # {} => (CHOOSE c \in loaded : TRUE) \in loaded
  OBVIOUS
<1>4. mem' \in Configs /\ AtMostOne(loaded', Configs)
  BY <1>1, <1>2, <1>3 DEF ServerTypes, AtMostOne
<1>5. hup' \in BOOLEAN /\ Histories' /\ troubles' \in 0 .. MaxTroubles
  <2>1. hup' \in BOOLEAN /\ troubles' \in 0 .. MaxTroubles
    <3>1. hup \in BOOLEAN /\ troubles \in 0 .. MaxTroubles
      BY DEF ServerTypes
    <3>2. (hup' = FALSE \/ hup' = hup)
          /\ (troubles' = troubles \/ (troubles < MaxTroubles /\ troubles' = troubles + 1))
      BY DEF ReadFile, SwapLoaded, Crash, Trouble
    <3>3. hup' \in BOOLEAN
      BY <3>1, <3>2
    <3>4. troubles' \in 0 .. MaxTroubles
      BY <3>1, <3>2, ConfigAssumption
    <3> QED
      BY <3>3, <3>4
  <2>2. CASE SwapLoaded
    BY <2>1, <2>2, HistoriesTyped DEF SwapLoaded, ServerTypes
  <2>3. CASE ReadFile \/ Crash
    <3>1. clash' = (clash \/ \E r \in Requests : Busy(r)) \/ clash' = clash
      BY <2>3 DEF ReadFile, Crash
    <3>2. crossed' = crossed
      BY <2>3 DEF ReadFile, Crash
    <3>3. missed' = Missing
      BY <2>3 DEF ReadFile, Crash
    <3>4. clash' \in BOOLEAN
      BY <3>1 DEF ServerTypes, Histories
    <3>5. missed' \in BOOLEAN
      BY <3>3 DEF Missing
    <3>6. crossed' \in BOOLEAN
      BY <3>2 DEF ServerTypes, Histories
    <3>7. Histories'
      BY <3>4, <3>5, <3>6 DEF Histories
    <3> QED
      BY <2>1, <3>7
  <2> QED
    BY <2>2, <2>3
<1>6. /\ req' \in [Requests -> AnyRequest]
      /\ \A r \in Requests : req'[r].body = req[r].body /\ req'[r].kind = req[r].kind
                             /\ (req'[r].at = req[r].at \/ req'[r].at = "error")
  <2>1. CASE req' = req
    BY <2>1 DEF ServerTypes
  <2>2. CASE Crash
    <3> DEFINE q(r) == [req[r] EXCEPT !.at = "error"]
    <3>1. \A r \in Requests : req[r] \in AnyRequest
      BY DEF ServerTypes
    <3>2. \A r \in Requests : /\ q(r) \in AnyRequest /\ q(r).body = req[r].body
                              /\ q(r).kind = req[r].kind /\ q(r).at = "error"
      BY <3>1 DEF AnyRequest, Stages
    <3>3. req' = [r \in Requests |->
                    IF req[r].at = "free" \/ req[r].kind = "cli" THEN req[r] ELSE q(r)]
      BY <2>2 DEF Crash
    <3> HIDE DEF q
    <3> QED
      BY <3>1, <3>2, <3>3
  <2> QED
    BY <2>1, <2>2 DEF ReadFile, SwapLoaded
<1>7. ServerTypes'
  BY <1>2, <1>4, <1>5, <1>6 DEF ServerTypes
<1>8. Lent' \subseteq Lent
  BY <1>6 DEF Lent, At
<1>9. \A n \in Secrets' : n = 0 \/ n \in Secrets
  <2>1. mem'["secret"] = 0 \/ mem'["secret"] \in Secrets
    BY <1>1, <1>2, <1>3 DEF Secrets
  <2>2. \A c \in file' \cup loaded' : c["secret"] = 0 \/ c["secret"] \in Secrets
    BY <1>1, <1>2 DEF Secrets
  <2>3. \A r \in Requests : req'[r].body["secret"] \in Secrets
    BY <1>6 DEF Secrets
  <2> QED
    BY <2>1, <2>2, <2>3 DEF Secrets
<1>10. calls' \in Nat /\ calls' >= calls
  BY <1>2, ConfigAssumption DEF ServerTypes
<1> QED
  BY <1>7, <1>8, <1>9, <1>10, CountedStays

\* A request comes to a name or leaves it, with a call of its own or not.
LEMMA ComingTyped ==
    ASSUME ServerTypes, Counted, NEW r \in Requests, NEW q \in AnyRequest,
           req' = [req EXCEPT ![r] = q], q.body["secret"] = 0, UNCHANGED engine,
           version' \in 0 .. MaxVersion, calls' \in 0 .. MaxCalls, calls' >= calls,
           q.at = "sent" /\ q.kind \in {"password", "cli"} => calls' = calls + 1
    PROVE  ServerTypes' /\ Counted'
<1>0. UNCHANGED <<mem, file, loaded, troubles>> /\ hup' = hup /\ Histories'
  BY HistoriesTyped DEF engine, ServerTypes
<1>1. Changes(r, q)
  BY ChangesOne
<1>2. ServerTypes'
  BY <1>0, <1>1 DEF ServerTypes, Changes
<1>3. calls \in Nat /\ calls' \in Nat
  BY ConfigAssumption DEF ServerTypes
<1>4. CASE ~(q.at = "sent" /\ q.kind \in {"password", "cli"})
  <2>1. \A c \in {mem'} \cup file' \cup loaded' : c["secret"] \in Secrets
    BY <1>0 DEF Secrets
  <2> QED
    BY <1>1, <1>2, <1>3, <1>4, <2>1, ChangeCounts
<1>5. CASE q.at = "sent" /\ q.kind \in {"password", "cli"}
  <2>1. Lent' \subseteq Lent \cup {r}
    BY <1>1 DEF Lent, Changes, At
  <2>2. /\ Cardinality(Lent) \in Nat /\ Cardinality(Lent') \in Nat
        /\ Cardinality(Lent') <= Cardinality(Lent) + 1
    <3>1. IsFiniteSet(Lent) /\ Cardinality(Lent) \in Nat /\ Cardinality(Lent') \in Nat
      BY LentIsFinite DEF Lent
    <3>2. /\ IsFiniteSet(Lent \cup {r}) /\ Cardinality(Lent \cup {r}) <= Cardinality(Lent) + 1
          /\ Cardinality(Lent \cup {r}) \in Nat
      <4>1. /\ IsFiniteSet(Lent \cup {r})
            /\ Cardinality(Lent \cup {r}) = IF r \in Lent THEN Cardinality(Lent)
                                                          ELSE Cardinality(Lent) + 1
        BY <3>1, FS_AddElement
      <4> QED
        BY <3>1, <4>1
    <3>3. Cardinality(Lent') <= Cardinality(Lent \cup {r})
      BY <2>1, <3>2, FS_Subset
    <3> QED
      BY <3>1, <3>2, <3>3
  <2>3. \A n \in Secrets' : n = 0 \/ n \in Secrets
    BY <1>0, <1>1 DEF Secrets, Changes
  <2>4. ASSUME NEW n \in Secrets' PROVE n + Cardinality(Lent') <= calls'
    <3>1. n \in Nat /\ n + Cardinality(Lent) <= calls
      BY <2>3, <2>4, CountedAll
    <3> QED
      BY <1>3, <1>5, <2>2, <3>1
  <2> QED
    BY <1>2, <2>4 DEF Counted
<1> QED
  BY <1>4, <1>5

\* Nothing of the server moves.
LEMMA RestTyped ==
    ASSUME ServerTypes, Counted, UNCHANGED <<engine, calls>>, version' \in 0 .. MaxVersion,
           req' \in [Requests -> AnyRequest],
           \A r \in Requests : req'[r].at = req[r].at /\ req'[r].kind = req[r].kind
                               /\ req'[r].body = req[r].body
    PROVE  ServerTypes' /\ Counted'
<1>1. UNCHANGED <<mem, file, loaded, troubles, calls>> /\ hup' = hup /\ Histories'
  BY HistoriesTyped DEF engine, ServerTypes
<1>2. ServerTypes'
  BY <1>1 DEF ServerTypes
<1>3. Lent' \subseteq Lent
  BY DEF Lent, At
<1>4. \A n \in Secrets' : n \in Secrets
  BY <1>1 DEF Secrets
<1>5. calls' \in Nat /\ calls' >= calls
  BY <1>1, ConfigAssumption DEF ServerTypes
<1> QED
  BY <1>2, <1>3, <1>4, <1>5, CountedStays

LEMMA ArrivesTyped ==
    ASSUME ServerTypes, Counted, NEW r \in Requests, NEW kind \in {"put", "icon"},
           NEW owner \in Owners, NEW body \in Configs, body["secret"] = 0,
           Arrives(r, kind, owner, body), UNCHANGED engine,
           version' \in 0 .. MaxVersion, calls' \in 0 .. MaxCalls, calls' >= calls
    PROVE  ServerTypes' /\ Counted'
<1> DEFINE q == [kind |-> kind, at |-> "sent", by |-> owner, body |-> body]
<1>1. q \in AnyRequest /\ q.body["secret"] = 0 /\ q.kind \notin {"password", "cli"}
  BY DEF AnyRequest, Kinds, Stages
<1>2. req' = [req EXCEPT ![r] = q]
  BY DEF Arrives
<1> HIDE DEF q
<1> QED
  BY <1>1, <1>2, ComingTyped

LEMMA FreesTyped ==
    ASSUME ServerTypes, Counted, NEW r \in Requests, req' = [req EXCEPT ![r] = Free],
           UNCHANGED <<engine, counters>>
    PROVE  ServerTypes' /\ Counted'
<1>1. Free \in AnyRequest /\ Free.body["secret"] = 0 /\ Free.at = "free"
  BY ValuesOfConfigs DEF Free, AnyRequest, Kinds, Stages, Owners
<1>2. /\ version' \in 0 .. MaxVersion /\ calls' \in 0 .. MaxCalls /\ calls' >= calls
      /\ UNCHANGED engine
  BY ConfigAssumption DEF counters, ServerTypes
<1> QED
  BY <1>1, <1>2, ComingTyped

LEMMA SameServer ==
    ASSUME ServerTypes, Counted, UNCHANGED configVars PROVE ServerTypes' /\ Counted'
<1>1. UNCHANGED <<engine, req, version, calls>>
  BY DEF configVars, counters
<1>2. version' \in 0 .. MaxVersion /\ req' \in [Requests -> AnyRequest]
  BY <1>1 DEF ServerTypes
<1> QED
  BY <1>1, <1>2, RestTyped

LEMMA FormsAreTyped ==
    ASSUME Types
    PROVE  /\ Published \in Forms
           /\ form # {} => Shown \in Forms
           /\ \A f \in Forms : Body(f) \in Configs /\ Body(f)["secret"] = 0
           /\ base # {} => (CHOOSE f \in base : TRUE) \in Forms
<1>1. mem \in Configs /\ AtMostOne(form, Forms) /\ AtMostOne(base, Forms)
  BY DEF Types, ServerTypes, ViewTypes, SaveTypes
<1>2. Published \in Forms
  BY <1>1 DEF Published, Forms, Keys, Configs
<1>3. ASSUME NEW f \in Forms PROVE Body(f) \in Configs /\ Body(f)["secret"] = 0
  <2>1. 0 \in Values /\ "secret" \notin Visible
    BY ConfigAssumption DEF Values, Blank, Visible
  <2> QED
    BY <2>1, SecretIsAKey DEF Body, Configs, Forms
<1>4. form # {} => Shown \in Forms
  BY <1>1 DEF AtMostOne, Shown
<1>5. base # {} => (CHOOSE f \in base : TRUE) \in Forms
  BY <1>1 DEF AtMostOne
<1> QED
  BY <1>2, <1>3, <1>4, <1>5

\* A new value of a setting.
LEMMA NextVersion ==
    ASSUME ServerTypes, version < MaxVersion
    PROVE  version + 1 \in Values /\ version + 1 \in 0 .. MaxVersion
BY ConfigAssumption DEF ServerTypes, Values, Blank

LEMMA CallTyped == ASSUME ServerTypes, Call PROVE calls' \in 0 .. MaxCalls /\ calls' >= calls
BY ConfigAssumption DEF ServerTypes, Call

LEMMA SaveTyped ==
    ASSUME Types, NEW closure \in Forms, NEW sent \in Forms, Save(closure, sent), Call,
           UNCHANGED engine, version' \in 0 .. MaxVersion
    PROVE  ServerTypes' /\ Counted' /\ SaveTypes'
<1>0. ServerTypes /\ Counted /\ SaveTypes /\ calls' \in 0 .. MaxCalls /\ calls' >= calls
  BY CallTyped DEF Types
<1>1. CASE saving
  <2>1. /\ pending' = TRUE /\ merged' = TRUE /\ UNCHANGED <<req, saving, base>>
    BY <1>1 DEF Save
  <2>2. SaveTypes'
    BY <1>0, <1>1, <2>1 DEF SaveTypes
  <2>3. ServerTypes'
    BY <1>0, <2>1, HistoriesTyped DEF ServerTypes, engine
  <2>4. Lent' \subseteq Lent /\ \A n \in Secrets' : n \in Secrets
    BY <2>1 DEF Lent, Secrets, At, engine
  <2>5. Counted'
    BY <1>0, <2>4, CountedStays, ConfigAssumption
  <2> QED
    BY <2>2, <2>3, <2>5
<1>2. CASE ~saving
  <2>1. PICK r \in Requests : Arrives(r, "put", "page", Body(sent))
    BY <1>2 DEF Save
  <2>2. Body(sent) \in Configs /\ Body(sent)["secret"] = 0
    BY FormsAreTyped
  <2>3. ServerTypes' /\ Counted'
    BY <1>0, <2>1, <2>2, ArrivesTyped DEF Owners
  <2>4. saving' = TRUE /\ base' = {closure} /\ UNCHANGED <<pending, merged>>
    BY <1>2 DEF Save
  <2>5. SaveTypes'
    BY <1>0, <2>4 DEF SaveTypes, AtMostOne
  <2> QED
    BY <2>3, <2>5
<1> QED
  BY <1>1, <1>2

LEMMA InvalidateTyped ==
    ASSUME ViewTypes, Invalidate \/ UNCHANGED <<fetch, reply>>
    PROVE  fetch' \in {"idle", "sent", "answered"} /\ AtMostOne(reply', Forms)
BY DEF ViewTypes, Invalidate, AtMostOne

\* The server and everyone else.
LEMMA OutsideTyped == ASSUME Types, Outside \/ Server PROVE Types'
<1>1. UNCHANGED <<open, form, cache, fetch, reply, typing, saving, pending, base, merged>>
  BY DEF Outside, Server, pageVars
<1>2. ViewTypes' /\ SaveTypes'
  BY <1>1 DEF Types, ViewTypes, SaveTypes
<1>3. disturbed' \in BOOLEAN
  <2>1. disturbed' = disturbed \/ disturbed' = open
    BY DEF Outside, Server, pageVars
  <2> QED
    BY <2>1 DEF Types, ViewTypes
<1>4. ServerTypes /\ Counted
  BY DEF Types
<1>5. ServerTypes' /\ Counted'
  <2>1. ASSUME NEW r \in Requests, Serve(r) PROVE ServerTypes' /\ Counted'
    BY <1>4, <2>1, ServeTyped
  <2>2. ASSUME NEW r \in Requests, OtherAnswered(r) PROVE ServerTypes' /\ Counted'
    BY <1>4, <2>2, FreesTyped DEF OtherAnswered
  <2>3. ASSUME NEW r \in Requests, Other(r) PROVE ServerTypes' /\ Counted'
    <3>1. PICK kind \in {"password", "cli"} : Arrives(r, kind, "other", Default)
      BY <2>3 DEF Other
    <3> DEFINE q == [kind |-> kind, at |-> "sent", by |-> "other", body |-> Default]
    <3>2. q \in AnyRequest /\ q.body["secret"] = 0 /\ req' = [req EXCEPT ![r] = q]
      BY <1>4, <3>1, ValuesOfConfigs DEF AnyRequest, Kinds, Stages, Owners, Arrives
    <3>3. UNCHANGED engine /\ version' \in 0 .. MaxVersion /\ calls' = calls + 1
          /\ calls' \in 0 .. MaxCalls /\ calls' >= calls
      BY <1>4, <2>3, CallTyped DEF Other, Call, ServerTypes
    <3> HIDE DEF q
    <3> QED
      BY <1>4, <3>2, <3>3, ComingTyped
  <2>4. ASSUME NEW r \in Requests, AnswerLost(r) PROVE ServerTypes' /\ Counted'
    <3>1. /\ req' = [req EXCEPT ![r].at = "error"] /\ "error" \in Stages \ {"sent"}
          /\ UNCHANGED <<mem, loaded, version, calls, file>>
      BY <2>4 DEF AnswerLost, Stages, counters
    <3>2. hup' \in BOOLEAN /\ Histories'
      BY <1>4, <2>4, HistoriesTyped DEF AnswerLost, ServerTypes
    <3>3. troubles' \in 0 .. MaxTroubles
      BY <1>4, <2>4, ConfigAssumption DEF AnswerLost, Trouble, ServerTypes
    <3> QED
      BY <1>4, <3>1, <3>2, <3>3, StageTyped
  <2> QED
    BY <1>4, <2>1, <2>2, <2>3, <2>4, RestartTyped DEF Outside, Server
<1> QED
  BY <1>2, <1>3, <1>5 DEF Types

LEMMA FetchTyped == ASSUME Types, FetchServed \/ FetchArrives PROVE Types'
<1>1. UNCHANGED <<configVars, open, cache, typing, saving, pending, base, merged>>
      \/ UNCHANGED <<configVars, open, typing, saving, pending, base, merged>>
  BY DEF FetchServed, FetchArrives
<1>2. ServerTypes' /\ Counted'
  BY <1>1, SameServer DEF Types
<1>3. SaveTypes'
  BY <1>1 DEF Types, SaveTypes
<1>4. ViewTypes'
  <2>1. ViewTypes /\ Published \in Forms
    BY FormsAreTyped DEF Types
  <2>2. CASE FetchServed
    BY <2>1, <2>2 DEF FetchServed, ViewTypes, AtMostOne
  <2>3. CASE FetchArrives
    BY <2>1, <2>3 DEF FetchArrives, Fill, ViewTypes, AtMostOne
  <2> QED
    BY <2>2, <2>3
<1>5. disturbed' \in BOOLEAN
  <2>1. CASE FetchServed
    BY <2>1 DEF FetchServed, Types
  <2>2. CASE FetchArrives
    <3>1. disturbed' = (disturbed \/ (form = {} /\ Differs(form')))
      BY <2>2 DEF FetchArrives
    <3> QED
      BY <3>1
  <2> QED
    BY <2>1, <2>2
<1> QED
  BY <1>2, <1>3, <1>4, <1>5 DEF Types

LEMMA OpenTyped == ASSUME Types, Open PROVE Types'
<1>1. ServerTypes' /\ Counted'
  BY SameServer DEF Types, Open
<1>2. SaveTypes'
  BY DEF Types, SaveTypes, Open
<1>3. ViewTypes'
  BY DEF Types, ViewTypes, Open, AtMostOne
<1>4. disturbed' \in BOOLEAN
  <2>1. disturbed' = (Differs(cache) \/ ~Quiet \/ \E r \in Requests : ~At(r, "free"))
    BY DEF Open
  <2> QED
    BY <2>1
<1> QED
  BY <1>1, <1>2, <1>3, <1>4 DEF Types

LEMMA LeaveTyped == ASSUME Types, Leave PROVE Types'
<1>1. UNCHANGED <<engine, calls>> /\ version' \in 0 .. MaxVersion
  BY DEF Types, ServerTypes, Leave, counters
<1>2. /\ req' \in [Requests -> AnyRequest]
      /\ \A r \in Requests : req'[r].at = req[r].at /\ req'[r].kind = req[r].kind
                             /\ req'[r].body = req[r].body
  <2> DEFINE q(r) == [req[r] EXCEPT !.by = "gone"]
  <2>1. \A r \in Requests : req[r] \in AnyRequest
    BY DEF Types, ServerTypes
  <2>2. \A r \in Requests : /\ q(r) \in AnyRequest /\ q(r).body = req[r].body
                            /\ q(r).kind = req[r].kind /\ q(r).at = req[r].at
    BY <2>1 DEF AnyRequest, Owners
  <2>3. req' = [r \in Requests |-> IF req[r].by = "page" THEN q(r) ELSE req[r]]
    BY DEF Leave
  <2> HIDE DEF q
  <2> QED
    BY <2>1, <2>2, <2>3
<1>3. ServerTypes' /\ Counted'
  BY <1>1, <1>2, RestTyped DEF Types
<1>4. ViewTypes'
  BY DEF Types, ViewTypes, Leave, AtMostOne
<1>5. SaveTypes'
  BY DEF Types, SaveTypes, Leave, AtMostOne
<1>6. disturbed' \in BOOLEAN
  BY DEF Leave
<1> QED
  BY <1>3, <1>4, <1>5, <1>6 DEF Types

LEMMA TypeTyped == ASSUME Types, NEW k \in Typed, Type(k) PROVE Types'
<1>1. UNCHANGED <<engine, req, calls>>
  BY DEF Type
<1>2. Shown \in Forms /\ version + 1 \in Values /\ version' \in 0 .. MaxVersion
  BY FormsAreTyped, NextVersion DEF Type, Ready, Types
<1>3. ServerTypes' /\ Counted'
  <2>1. req' \in [Requests -> AnyRequest]
    BY <1>1 DEF Types, ServerTypes
  <2> QED
    BY <1>1, <1>2, <2>1, RestTyped DEF Types
<1>4. Blank \in Values
  BY ConfigAssumption DEF Values, Blank
<1>5. PICK v \in Values : form' = {[Shown EXCEPT ![k] = v]}
  BY <1>2, <1>4 DEF Type
<1>6. [Shown EXCEPT ![k] = v] \in Forms
  BY <1>2, <1>5 DEF Forms
<1>7. ViewTypes'
  BY <1>5, <1>6 DEF Types, ViewTypes, Type, AtMostOne
<1>8. SaveTypes'
  BY DEF Types, SaveTypes, Type
<1>9. disturbed' \in BOOLEAN
  BY DEF Types, Type
<1> QED
  BY <1>3, <1>7, <1>8, <1>9 DEF Types

LEMMA BlurTyped == ASSUME Types, Blur PROVE Types'
<1>1. Shown \in Forms /\ version' \in 0 .. MaxVersion
  BY FormsAreTyped DEF Blur, Ready, Types, ServerTypes
<1>2. ServerTypes' /\ Counted' /\ SaveTypes'
  BY <1>1, SaveTyped DEF Blur
<1>3. ViewTypes'
  BY DEF Types, ViewTypes, Blur
<1>4. disturbed' \in BOOLEAN
  BY DEF Types, Blur
<1> QED
  BY <1>2, <1>3, <1>4 DEF Types

LEMMA FlipTyped == ASSUME Types, NEW k \in Switches, Flip(k) PROVE Types'
<1> DEFINE next == [Shown EXCEPT ![k] = version + 1]
<1>1. Shown \in Forms /\ version + 1 \in Values /\ version' \in 0 .. MaxVersion
  BY FormsAreTyped, NextVersion DEF Flip, Ready, Types
<1>2. next \in Forms
  BY <1>1 DEF Forms
<1>3. form' = {next} /\ Save(Shown, next) /\ Call /\ UNCHANGED engine
  BY DEF Flip
<1> HIDE DEF next
<1>4. ServerTypes' /\ Counted' /\ SaveTypes'
  BY <1>1, <1>2, <1>3, SaveTyped
<1>5. ViewTypes'
  BY <1>2, <1>3 DEF Types, ViewTypes, Flip, AtMostOne
<1>6. disturbed' \in BOOLEAN
  BY DEF Types, Flip
<1> QED
  BY <1>4, <1>5, <1>6 DEF Types

LEMMA SendIconTyped == ASSUME Types, SendIcon PROVE Types'
<1> DEFINE body == [Default EXCEPT !["icon"] = version + 1]
<1>0. ServerTypes /\ Counted
  BY DEF Types
<1>1. version + 1 \in Values /\ version' \in 0 .. MaxVersion
  BY NextVersion DEF SendIcon, Types
<1>2. body \in Configs /\ body["secret"] = 0
  BY <1>0, <1>1, ValuesOfConfigs, ConfigChanges
<1>3. PICK r \in Requests : Arrives(r, "icon", "page", body)
  BY DEF SendIcon
<1>4. calls' \in 0 .. MaxCalls /\ calls' >= calls /\ UNCHANGED engine
  BY <1>0, CallTyped DEF SendIcon
<1> HIDE DEF body
<1>5. ServerTypes' /\ Counted'
  BY <1>0, <1>1, <1>2, <1>3, <1>4, ArrivesTyped DEF Owners
<1>6. ViewTypes' /\ SaveTypes'
  BY DEF Types, ViewTypes, SaveTypes, SendIcon
<1>7. disturbed' \in BOOLEAN
  BY DEF SendIcon
<1> QED
  BY <1>5, <1>6, <1>7 DEF Types

LEMMA SaveSettlesTyped == ASSUME Types, NEW r \in Requests, SaveSettles(r) PROVE Types'
<1>0. ServerTypes /\ Counted /\ ViewTypes /\ SaveTypes
  BY DEF Types
<1>1. ViewTypes'
  <2>1. Invalidate \/ UNCHANGED <<fetch, reply>>
    BY DEF SaveSettles
  <2> QED
    BY <1>0, <2>1, InvalidateTyped DEF ViewTypes, SaveSettles
<1>2. disturbed' \in BOOLEAN
  <2>1. disturbed' = (disturbed \/ At(r, "error"))
    BY DEF SaveSettles
  <2> QED
    BY <2>1
<1>3. UNCHANGED <<engine, version, calls>> /\ version' \in 0 .. MaxVersion
      /\ calls' \in 0 .. MaxCalls /\ calls' >= calls /\ UNCHANGED <<engine, counters>>
  BY <1>0, ConfigAssumption DEF SaveSettles, ServerTypes, counters
<1>4. CASE pending
  <2>1. base # {} /\ Arrives(r, "put", "page", Body(CHOOSE f \in base : TRUE))
    BY <1>0, <1>4 DEF SaveTypes, SaveSettles
  <2>2. /\ Body(CHOOSE f \in base : TRUE) \in Configs
        /\ Body(CHOOSE f \in base : TRUE)["secret"] = 0
    BY <2>1, FormsAreTyped
  <2>3. ServerTypes' /\ Counted'
    BY <1>0, <1>3, <2>1, <2>2, ArrivesTyped DEF Owners
  <2>4. SaveTypes'
    BY <1>0, <1>4 DEF SaveTypes, SaveSettles
  <2> QED
    BY <1>1, <1>2, <2>3, <2>4 DEF Types
<1>5. CASE ~pending
  <2>1. ServerTypes' /\ Counted'
    BY <1>0, <1>3, <1>5, FreesTyped DEF SaveSettles
  <2>2. SaveTypes'
    BY <1>0, <1>5 DEF SaveTypes, SaveSettles, AtMostOne
  <2> QED
    BY <1>1, <1>2, <2>1, <2>2 DEF Types
<1> QED
  BY <1>4, <1>5

LEMMA OtherSettlesTyped ==
    ASSUME Types, NEW r \in Requests, IconSettles(r) \/ LateAnswer(r) PROVE Types'
<1>0. ServerTypes /\ Counted /\ ViewTypes /\ SaveTypes
  BY DEF Types
<1>1. ServerTypes' /\ Counted'
  BY <1>0, FreesTyped DEF IconSettles, LateAnswer
<1>2. SaveTypes'
  BY <1>0 DEF SaveTypes, IconSettles, LateAnswer
<1>3. disturbed' \in BOOLEAN
  BY DEF Types, IconSettles, LateAnswer
<1>4. AtMostOne(form', Forms)
  <2>1. form' = form \/ form' = {[f EXCEPT !["icon"] = req[r].body["icon"]] : f \in form}
    BY DEF IconSettles, LateAnswer
  <2>2. req[r].body["icon"] \in Values
    <3>1. req[r].body \in Configs
      BY <1>0 DEF ServerTypes, AnyRequest
    <3> QED
      BY <1>0, <3>1, ValuesOfConfigs DEF Keys, Visible
  <2>3. \A f \in Forms : [f EXCEPT !["icon"] = req[r].body["icon"]] \in Forms
    BY <2>2 DEF Forms
  <2> QED
    BY <1>0, <2>1, <2>3 DEF ViewTypes, AtMostOne
<1>5. ViewTypes'
  <2>1. Invalidate \/ UNCHANGED <<fetch, reply>>
    BY DEF IconSettles, LateAnswer
  <2> QED
    BY <1>0, <1>4, <2>1, InvalidateTyped DEF ViewTypes, IconSettles, LateAnswer
<1> QED
  BY <1>1, <1>2, <1>3, <1>5 DEF Types

\* A page's variables, and the server's with it, never leave their types: a form
\* is one form, a save that was put off has a form to start from, and no counter
\* passes its bound.
THEOREM TypeCorrect == Spec => []TypeOK
<1>1. Init => Types
  <2> SUFFICES ASSUME Init PROVE Types
    OBVIOUS
  <2>1. 0 \in Values /\ 0 \in 0 .. MaxVersion /\ 0 \in 0 .. MaxCalls /\ 0 \in 0 .. MaxTroubles
    BY ConfigAssumption DEF Values, Blank
  <2>2. Default \in Configs /\ Default["secret"] = 0
    BY <2>1, SecretIsAKey DEF Default, Configs
  <2>3. Free \in AnyRequest /\ Free.body["secret"] = 0 /\ Free.at = "free"
    BY <2>2 DEF Free, AnyRequest, Kinds, Stages, Owners
  <2>4. ServerTypes
    BY <2>1, <2>2, <2>3 DEF Init, ConfigInit, ServerTypes, Histories, AtMostOne
  <2>5. ViewTypes /\ SaveTypes /\ disturbed \in BOOLEAN
    BY DEF Init, ViewTypes, SaveTypes, AtMostOne
  <2>6. Counted
    <3>1. Lent = {}
      BY <2>3 DEF Init, ConfigInit, Lent, At
    <3>2. \A n \in Secrets : n = 0
      BY <2>2, <2>3 DEF Init, ConfigInit, Secrets
    <3>3. Cardinality({}) = 0 /\ calls = 0
      BY FS_EmptySet DEF Init, ConfigInit
    <3> QED
      BY <3>1, <3>2, <3>3 DEF Counted
  <2> QED
    BY <2>4, <2>5, <2>6 DEF Types
<1>2. Types /\ [Next]_vars => Types'
  <2> SUFFICES ASSUME Types, [Next]_vars PROVE Types'
    OBVIOUS
  <2>1. CASE UNCHANGED vars
    <3>1. ServerTypes' /\ Counted'
      BY <2>1, SameServer DEF Types, vars
    <3>2. ViewTypes' /\ SaveTypes' /\ disturbed' \in BOOLEAN
      BY <2>1 DEF Types, ViewTypes, SaveTypes, vars, pageVars
    <3> QED
      BY <3>1, <3>2 DEF Types
  <2>2. CASE Next
    <3>1. ASSUME NEW k \in Typed, Type(k) PROVE Types'
      BY <3>1, TypeTyped
    <3>2. ASSUME NEW k \in Switches, Flip(k) PROVE Types'
      BY <3>2, FlipTyped
    <3>3. ASSUME NEW r \in Requests, Settle(r) PROVE Types'
      BY <3>3, SaveSettlesTyped, OtherSettlesTyped DEF Settle
    <3> QED
      BY <2>2, <3>1, <3>2, <3>3, OutsideTyped, FetchTyped, OpenTyped, LeaveTyped, BlurTyped,
         SendIconTyped DEF Next
  <2> QED
    BY <2>1, <2>2
<1> QED
  BY <1>1, <1>2, TypesAreRight, PTL DEF Spec
=============================================================================
