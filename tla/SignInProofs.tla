---------------------------- MODULE SignInProofs ----------------------------
(***************************************************************************)
(* What holds of signing in for any browsers and bounds.  An accepted      *)
(* session was opened with the password in force because whatever carries  *)
(* an epoch, in a browser or in a handler, is as old as that epoch.  The   *)
(* limiter holds because what it has counted and what it let in before it  *)
(* closed bound what is tried.                                             *)
(***************************************************************************)
EXTENDS SignIn, FiniteSetTheorems, TLAPS

SignInNext == SignInUser \/ SignInServer \/ SignInPages

SessionSet == [epoch : Nat, password : Nat, secret : Nat]
PostSet == [kind : {"setup", "login", "change"},
            at : {"idle", "sent", "checked", "right", "wrong", "copied",
                  "saved", "ok", "denied", "refused"},
            old : Nat, new : Nat, epoch : Nat]

\* The types, without the bounds of the runs.
Shape ==
    /\ password \in Nat /\ epoch \in Nat /\ secret \in Nat \ {0} /\ chosen \in Nat
    /\ late \in BOOLEAN /\ outlived \in BOOLEAN
    /\ path \in [Browsers -> {"setup", "login", "change", "admin"}]
    /\ known \in [Browsers -> {"unknown", "no", "yes"}]
    /\ asked \in [Browsers -> {"idle", "sent", "no", "yes"}]
    /\ cookie \in [Browsers -> SessionSet]
    /\ posts \in [Browsers -> PostSet]

\* Only a form that has chosen a password copies the configuration; none is typed in
\* setup mode.
Formed(p) ==
    /\ p.at = "copied" => p.kind # "login"
    /\ p.kind # "login" /\ p.at \notin {"idle", "refused"} => p.new # 0
    /\ p.kind = "login" /\ password = 0 => p.old = 0

\* What a form has found out still holds, or its epoch is a past one.
Holds(p) ==
    /\ p.epoch <= epoch
    /\ p.at = "copied" => p.epoch = epoch
    /\ p.at = "saved" => p.kind = "setup" /\ p.new = password
    /\ p.kind = "setup" /\ p.at \in {"checked", "right", "copied"} => password = 0
    /\ p.kind = "setup" /\ p.at = "ok" =>
          password # 0 /\ (p.epoch = epoch => p.new = password)
    /\ p.kind = "login" /\ p.at \in {"checked", "right", "wrong", "ok"} => password # 0
    /\ p.kind = "login" /\ p.at \in {"right", "ok"} =>
          p.old # 0 /\ (p.epoch = epoch => p.old = password)

\* A session is of this key and epoch only with the password in force.
InForce(c) == c.secret = secret /\ c.epoch = epoch
Proves(c) ==
    /\ c.secret <= secret
    /\ c.secret = secret => c.epoch <= epoch
    /\ InForce(c) => password # 0 /\ c.password = password

\* A browser that believes in setup mode shows the setup page and is not signed in,
\* nor about to be.
Fits(belief, page, p, c) ==
    belief = "no" =>
        /\ page = "setup"
        /\ p.kind = "login" => p.old = 0
        /\ ~InForce(c)
Believes(b) == Fits(known[b], path[b], posts[b], cookie[b])

Grounded == Shape /\ \A b \in Browsers : Formed(posts[b])
Dated == outlived \/ \A b \in Browsers : Holds(posts[b]) /\ Proves(cookie[b])
Informed == late \/ outlived \/ \A b \in Browsers : Believes(b)

LEMMA Start == SignInInit => Grounded /\ Dated /\ Informed
<1> SUFFICES ASSUME SignInInit PROVE Grounded /\ Dated /\ Informed
  OBVIOUS
<1>1. Shape
  <2>1. NoSession \in SessionSet /\ NoPost \in PostSet
    BY DEF NoSession, NoPost, SessionSet, PostSet
  <2>2. cookie \in [Browsers -> SessionSet] /\ posts \in [Browsers -> PostSet]
    BY <2>1 DEF SignInInit
  <2>3. /\ path \in [Browsers -> {"setup", "login", "change", "admin"}]
        /\ known \in [Browsers -> {"unknown", "no", "yes"}]
        /\ asked \in [Browsers -> {"idle", "sent", "no", "yes"}]
    BY DEF SignInInit
  <2>4. password \in Nat /\ epoch \in Nat /\ secret \in Nat \ {0} /\ chosen \in Nat
    BY DEF SignInInit
  <2>5. late \in BOOLEAN /\ outlived \in BOOLEAN
    BY Zenon DEF SignInInit
  <2> QED
    BY <2>2, <2>3, <2>4, <2>5 DEF Shape
<1>2. \A b \in Browsers : posts[b] = NoPost /\ cookie[b] = NoSession
  BY DEF SignInInit
<1>3. \A b \in Browsers : Formed(posts[b]) /\ Holds(posts[b]) /\ Proves(cookie[b])
  BY <1>2 DEF Formed, Holds, Proves, InForce, NoPost, NoSession, SignInInit
<1>4. \A b \in Browsers : Believes(b)
  BY <1>2 DEF Believes, Fits, InForce, NoPost, NoSession, SignInInit
<1> QED
  BY <1>1, <1>3, <1>4 DEF Grounded, Dated, Informed

-----------------------------------------------------------------------------
(* Steps that leave password, epoch and key alone touch one form and one   *)
(* browser.                                                                *)

Places == {"setup", "login", "change", "admin"}
Beliefs == {"unknown", "no", "yes"}

Touches(b, belief, page, p, c) ==
    /\ known' = [known EXCEPT ![b] = belief]
    /\ path' = [path EXCEPT ![b] = page]
    /\ posts' = [posts EXCEPT ![b] = p]
    /\ cookie' = [cookie EXCEPT ![b] = c]
    /\ UNCHANGED secrets

LEMMA TouchingKeeps ==
    ASSUME Grounded, Dated, Informed, NEW b \in Browsers,
           NEW belief \in Beliefs, NEW page \in Places,
           NEW p \in PostSet, NEW c \in SessionSet,
           Touches(b, belief, page, p, c),
           chosen' \in Nat, late' \in BOOLEAN, late => late',
           asked' \in [Browsers -> {"idle", "sent", "no", "yes"}],
           Formed(p),
           outlived \/ (Holds(p) /\ Proves(c)),
           late' \/ outlived \/ Fits(belief, page, p, c)
    PROVE  Grounded' /\ Dated' /\ Informed'
<1> USE DEF Touches, secrets
<1>1. \A o \in Browsers :
        IF o = b THEN known'[o] = belief /\ path'[o] = page /\ posts'[o] = p /\ cookie'[o] = c
        ELSE /\ known'[o] = known[o] /\ path'[o] = path[o]
             /\ posts'[o] = posts[o] /\ cookie'[o] = cookie[o]
  BY DEF Grounded, Shape
<1>2. Shape'
  <2>1. /\ known' \in [Browsers -> Beliefs] /\ path' \in [Browsers -> Places]
        /\ posts' \in [Browsers -> PostSet] /\ cookie' \in [Browsers -> SessionSet]
    BY DEF Grounded, Shape, Beliefs, Places
  <2>2. outlived' \in BOOLEAN
    BY Zenon DEF Grounded, Shape
  <2> QED
    BY <2>1, <2>2 DEF Grounded, Shape, Beliefs, Places
<1>3. \A o \in Browsers : Formed(posts'[o])
  BY <1>1 DEF Grounded
<1>4. Grounded'
  BY <1>2, <1>3 DEF Grounded, Formed
<1>5. Dated'
  <2>1. CASE outlived
    BY <2>1 DEF Dated
  <2>2. CASE ~outlived
    <3>1. \A o \in Browsers : Holds(posts'[o]) /\ Proves(cookie'[o])
      BY <1>1, <2>2 DEF Dated
    <3> QED
      BY <3>1 DEF Dated, Holds, Proves, InForce
  <2> QED
    BY <2>1, <2>2
<1>6. Informed'
  <2>1. CASE late' \/ outlived
    BY <2>1 DEF Informed
  <2>2. CASE ~(late' \/ outlived)
    <3>1. \A o \in Browsers : Fits(known'[o], path'[o], posts'[o], cookie'[o])
      BY <1>1, <2>2 DEF Informed, Believes
    <3> QED
      BY <3>1 DEF Informed, Believes, Fits, InForce
  <2> QED
    BY <2>1, <2>2
<1> QED
  BY <1>4, <1>5, <1>6

\* What a browser keeps, written as a step that touches it.
LEMMA BrowserKeeps ==
    ASSUME Grounded, NEW b \in Browsers
    PROVE  /\ known = [known EXCEPT ![b] = known[b]] /\ known[b] \in Beliefs
           /\ path = [path EXCEPT ![b] = path[b]] /\ path[b] \in Places
           /\ posts = [posts EXCEPT ![b] = posts[b]] /\ posts[b] \in PostSet
           /\ cookie = [cookie EXCEPT ![b] = cookie[b]] /\ cookie[b] \in SessionSet
           /\ Formed(posts[b])
           /\ Dated => outlived \/ (Holds(posts[b]) /\ Proves(cookie[b]))
           /\ Informed =>
                late \/ outlived \/ Fits(known[b], path[b], posts[b], cookie[b])
BY DEF Grounded, Shape, Beliefs, Places, Dated, Informed, Believes

LEMMA RoutedPlaces ==
    ASSUME NEW page \in Places, NEW belief \in Beliefs
    PROVE  Routed(page, belief) \in Places /\ (belief = "no" => Routed(page, belief) = "setup")
BY DEF Routed, Places, Beliefs

LEMMA PagesKeep ==
    ASSUME Grounded, Dated, Informed, NEW b \in Browsers,
           \/ Visit(b) \/ StatusServed(b) \/ StatusArrives(b) \/ TurnTo(b) \/ Logout(b)
           \/ Unauthorized(b)
    PROVE  Grounded' /\ Dated' /\ Informed'
<1> USE BrowserKeeps
<1>0. /\ chosen \in Nat /\ late \in BOOLEAN
      /\ asked \in [Browsers -> {"idle", "sent", "no", "yes"}]
  BY DEF Grounded, Shape
<1>1. CASE Visit(b)
  <2>1. Touches(b, "unknown", path[b], posts[b], cookie[b])
    BY <1>1 DEF Visit, Reload, Touches
  <2>2. chosen' = chosen /\ late' = late /\ asked' = [asked EXCEPT ![b] = "sent"]
    BY <1>1 DEF Visit, Reload
  <2>3. Fits("unknown", path[b], posts[b], cookie[b]) /\ "unknown" \in Beliefs
    BY DEF Fits, Beliefs
  <2> QED
    BY <1>0, <2>1, <2>2, <2>3, TouchingKeeps
<1>2. CASE StatusServed(b)
  <2>1. Touches(b, known[b], path[b], posts[b], cookie[b])
    BY <1>2 DEF StatusServed, Touches
  <2>2. chosen' = chosen /\ late' = late
        /\ asked' \in [Browsers -> {"idle", "sent", "no", "yes"}]
    BY <1>0, <1>2 DEF StatusServed
  <2> QED
    BY <1>0, <2>1, <2>2, TouchingKeeps
<1>3. CASE StatusArrives(b)
  <2>1. asked[b] \in {"no", "yes"} /\ asked[b] \in Beliefs
    BY <1>3 DEF StatusArrives, Beliefs
  <2>2. Touches(b, asked[b], Routed(path[b], asked[b]), posts[b], cookie[b])
    BY <1>3 DEF StatusArrives, Touches
  <2>3. chosen' = chosen /\ asked' = [asked EXCEPT ![b] = "idle"]
    BY <1>3 DEF StatusArrives
  <2>4. late' = (late \/ (asked[b] = "no" /\ password # 0))
    BY <1>3 DEF StatusArrives
  <2>5. late' \in BOOLEAN /\ (late => late')
    BY <2>4
  <2>6. late' \/ outlived \/ Fits(asked[b], Routed(path[b], asked[b]), posts[b], cookie[b])
    <3> SUFFICES ASSUME ~late', ~outlived, asked[b] = "no"
                 PROVE  Fits(asked[b], Routed(path[b], asked[b]), posts[b], cookie[b])
      BY DEF Fits
    <3>1. password = 0
      BY <2>4
    <3>2. Routed(path[b], asked[b]) = "setup"
      BY <2>1, RoutedPlaces
    <3>3. posts[b].kind = "login" => posts[b].old = 0
      BY <3>1 DEF Formed
    <3>4. ~InForce(cookie[b])
      BY <3>1 DEF Proves
    <3> QED
      BY <3>2, <3>3, <3>4 DEF Fits
  <2> QED
    BY <1>0, <2>1, <2>2, <2>3, <2>5, <2>6, TouchingKeeps, RoutedPlaces
<1>4. CASE TurnTo(b)
  <2> DEFINE page == IF path[b] = "admin" THEN "change" ELSE "admin"
  <2>1. Touches(b, known[b], Routed(page, known[b]), posts[b], cookie[b])
    BY <1>4 DEF TurnTo, Shows, Touches
  <2>2. chosen' = chosen /\ late' = late /\ asked' = asked
    BY <1>4 DEF TurnTo
  <2>3. page \in Places
    BY DEF Places
  <2>4. late \/ outlived \/ Fits(known[b], Routed(page, known[b]), posts[b], cookie[b])
    BY <2>3, RoutedPlaces DEF Fits
  <2> QED
    BY <1>0, <2>1, <2>2, <2>3, <2>4, TouchingKeeps, RoutedPlaces
<1>5. CASE Logout(b)
  <2>1. "login" \in Places /\ Routed("login", known[b]) \in Places
    BY RoutedPlaces DEF Places
  <2>2. NoSession \in SessionSet /\ (Grounded => ~InForce(NoSession) /\ Proves(NoSession))
    BY DEF NoSession, SessionSet, Grounded, Shape, InForce, Proves
  <2>3. PICK c \in {cookie[b], NoSession} :
           Touches(b, known[b], Routed("login", known[b]), posts[b], c)
    BY <1>5 DEF Logout, Shows, Touches
  <2>4. chosen' = chosen /\ late' = late /\ asked' = asked
    BY <1>5 DEF Logout
  <2>5. late \/ outlived \/ Fits(known[b], Routed("login", known[b]), posts[b], c)
    BY <2>1, <2>2, RoutedPlaces DEF Fits
  <2>6. c \in SessionSet /\ (outlived \/ (Holds(posts[b]) /\ Proves(c)))
    BY <2>2
  <2> QED
    BY <1>0, <2>1, <2>3, <2>4, <2>5, <2>6, TouchingKeeps
<1>6. CASE Unauthorized(b)
  <2>1. Touches(b, "unknown", "login", posts[b], cookie[b])
    BY <1>6 DEF Unauthorized, Reload, Touches
  <2>2. chosen' = chosen /\ late' = late /\ asked' = [asked EXCEPT ![b] = "sent"]
    BY <1>6 DEF Unauthorized, Reload
  <2>3. Fits("unknown", "login", posts[b], cookie[b]) /\ "unknown" \in Beliefs /\ "login" \in Places
    BY DEF Fits, Beliefs, Places
  <2> QED
    BY <1>0, <2>1, <2>2, <2>3, TouchingKeeps
<1> QED
  BY <1>1, <1>2, <1>3, <1>4, <1>5, <1>6

-----------------------------------------------------------------------------
(* The steps of a form, from the submission to the answer.                 *)

\* A step that sends a form or moves it on leaves its browser alone.
LEMMA HandlingKeeps ==
    ASSUME Grounded, Dated, Informed, NEW b \in Browsers, NEW p \in PostSet,
           posts' = [posts EXCEPT ![b] = p], UNCHANGED <<secrets, browserVars>>,
           chosen' \in Nat, Formed(p), outlived \/ Holds(p),
           late \/ outlived \/ (known[b] = "no" /\ p.kind = "login" => p.old = 0)
    PROVE  Grounded' /\ Dated' /\ Informed'
<1>1. Touches(b, known[b], path[b], p, cookie[b])
  BY BrowserKeeps DEF Touches, browserVars
<1>2. asked' \in [Browsers -> {"idle", "sent", "no", "yes"}]
  BY DEF Grounded, Shape, browserVars
<1>3. late' \in BOOLEAN /\ (late => late')
  BY Zenon DEF Grounded, Shape, browserVars
<1>4. outlived \/ (Holds(p) /\ Proves(cookie[b]))
  BY BrowserKeeps
<1>5. late \/ outlived \/ Fits(known[b], path[b], p, cookie[b])
  BY BrowserKeeps DEF Fits
<1>6. late' \/ outlived \/ Fits(known[b], path[b], p, cookie[b])
  BY <1>3, <1>5
<1> QED
  BY <1>1, <1>2, <1>3, <1>4, <1>6, BrowserKeeps, TouchingKeeps

LEMMA SubmissionsKeep ==
    ASSUME Grounded, Dated, Informed, NEW b \in Browsers,
           SubmitLogin(b) \/ SubmitSetup(b) \/ SubmitChange(b)
    PROVE  Grounded' /\ Dated' /\ Informed'
<1> DEFINE Sent(kind, old, new) ==
             [kind |-> kind, at |-> "sent", old |-> old, new |-> new, epoch |-> 0]
<1>1. password \in Nat /\ epoch \in Nat /\ chosen \in Nat
  BY DEF Grounded, Shape
<1>2. CASE SubmitLogin(b)
  <2>1. PICK old \in {0, password} : Post(b, "login", old, 0)
    BY <1>2 DEF SubmitLogin
  <2>2. posts' = [posts EXCEPT ![b] = Sent("login", old, 0)] /\ UNCHANGED <<secrets, browserVars>>
    BY <2>1 DEF Post
  <2>3. Sent("login", old, 0) \in PostSet /\ chosen' = chosen
    BY <1>1, <1>2 DEF PostSet, SubmitLogin
  <2>4. Formed(Sent("login", old, 0)) /\ Holds(Sent("login", old, 0))
    BY <1>1 DEF Formed, Holds
  <2>5. late \/ outlived \/ known[b] # "no"
    BY <1>2, BrowserKeeps DEF SubmitLogin, Fits
  <2> QED
    BY <1>1, <2>2, <2>3, <2>4, <2>5, HandlingKeeps
<1>3. CASE SubmitSetup(b) \/ SubmitChange(b)
  <2>1. PICK kind \in {"setup", "change"}, old \in {0, password} : Post(b, kind, old, chosen')
    BY <1>3 DEF SubmitSetup, SubmitChange
  <2>2. /\ posts' = [posts EXCEPT ![b] = Sent(kind, old, chosen')]
        /\ UNCHANGED <<secrets, browserVars>>
    BY <2>1 DEF Post
  <2>3. chosen' \in Nat \ {0}
    BY <1>1, <1>3 DEF SubmitSetup, SubmitChange
  <2>4. Sent(kind, old, chosen') \in PostSet
    BY <1>1, <2>3 DEF PostSet
  <2>5. Formed(Sent(kind, old, chosen')) /\ Holds(Sent(kind, old, chosen'))
    BY <1>1, <2>3 DEF Formed, Holds
  <2> QED
    BY <1>1, <2>2, <2>3, <2>4, <2>5, HandlingKeeps
<1> QED
  BY <1>2, <1>3

LEMMA HandlersKeep ==
    ASSUME Grounded, Dated, Informed, NEW b \in Browsers,
           \/ Check(b) \/ Verify(b) \/ RecordFailure(b) \/ LogIn(b) \/ CopyConfig(b)
           \/ IssueSetup(b)
    PROVE  Grounded' /\ Dated' /\ Informed'
<1> DEFINE p == posts[b]
<1>0. /\ p \in PostSet /\ posts \in [Browsers -> PostSet] /\ chosen \in Nat
      /\ password \in Nat /\ epoch \in Nat
      /\ Formed(p) /\ (outlived \/ Holds(p))
      /\ late \/ outlived \/ (known[b] = "no" /\ p.kind = "login" => p.old = 0)
  BY BrowserKeeps DEF Grounded, Shape, Fits
<1> HIDE DEF p
<1>1. CASE Check(b)
  <2>1. PICK at \in {"denied", "refused", "checked"} :
          /\ posts' = [posts EXCEPT ![b].epoch = epoch, ![b].at = at]
          /\ at = "checked" => IF p.kind = "setup" THEN password = 0 ELSE password # 0
    BY <1>1 DEF Check, Refuses, p
  <2> DEFINE q == [p EXCEPT !.epoch = epoch, !.at = at]
  <2>2. posts' = [posts EXCEPT ![b] = q] /\ q \in PostSet
    BY <1>0, <2>1 DEF PostSet, p
  <2>3. Formed(q) /\ Holds(q)
    BY <1>0, <1>1, <2>1 DEF Formed, Holds, PostSet, Check, Stands, p
  <2>4. UNCHANGED <<secrets, browserVars>> /\ chosen' = chosen
    BY <1>1 DEF Check
  <2> QED
    BY <1>0, <2>2, <2>3, <2>4, HandlingKeeps DEF PostSet
<1>2. CASE Verify(b)
  <2>1. PICK at \in {"wrong", "right", "refused"} :
          /\ posts' = [posts EXCEPT ![b].at = at]
          /\ at = "right" => p.kind = "setup" \/ p.old = password
    BY <1>2 DEF Verify, Goes, p
  <2> DEFINE q == [p EXCEPT !.at = at]
  <2>2. posts' = [posts EXCEPT ![b] = q] /\ q \in PostSet
    BY <1>0, <2>1 DEF PostSet, p
  <2>3. Formed(q) /\ (outlived \/ Holds(q))
    BY <1>0, <1>2, <2>1 DEF Formed, Holds, PostSet, Verify, Stands, p
  <2>4. UNCHANGED <<secrets, browserVars>> /\ chosen' = chosen
    BY <1>2 DEF Verify
  <2> QED
    BY <1>0, <2>2, <2>3, <2>4, HandlingKeeps DEF PostSet
<1>3. CASE RecordFailure(b)
  <2> DEFINE q == [p EXCEPT !.at = "denied"]
  <2>2. posts' = [posts EXCEPT ![b] = q] /\ q \in PostSet
    BY <1>0, <1>3 DEF PostSet, RecordFailure, Goes, p
  <2>3. Formed(q) /\ (outlived \/ Holds(q))
    BY <1>0, <1>3 DEF Formed, Holds, PostSet, RecordFailure, Stands, p
  <2>4. UNCHANGED <<secrets, browserVars>> /\ chosen' = chosen
    BY <1>3 DEF RecordFailure
  <2> QED
    BY <1>0, <2>2, <2>3, <2>4, HandlingKeeps DEF PostSet
<1>4. CASE LogIn(b)
  <2> DEFINE q == [p EXCEPT !.at = "ok"]
  <2>2. posts' = [posts EXCEPT ![b] = q] /\ q \in PostSet
    BY <1>0, <1>4 DEF PostSet, LogIn, Goes, p
  <2>3. Formed(q) /\ (outlived \/ Holds(q))
    BY <1>0, <1>4 DEF Formed, Holds, PostSet, LogIn, Stands, p
  <2>4. UNCHANGED <<secrets, browserVars>> /\ chosen' = chosen
    BY <1>4 DEF LogIn
  <2> QED
    BY <1>0, <2>2, <2>3, <2>4, HandlingKeeps DEF PostSet
<1>5. CASE CopyConfig(b)
  <2> DEFINE q == [p EXCEPT !.at = "copied", !.epoch = epoch]
  <2>2. posts' = [posts EXCEPT ![b] = q] /\ q \in PostSet
    BY <1>0, <1>5 DEF PostSet, CopyConfig, p
  <2>3. Formed(q) /\ (outlived \/ Holds(q))
    BY <1>0, <1>5 DEF Formed, Holds, PostSet, CopyConfig, Stands, p
  <2>4. UNCHANGED <<secrets, browserVars>> /\ chosen' = chosen
    BY <1>5 DEF CopyConfig
  <2> QED
    BY <1>0, <2>2, <2>3, <2>4, HandlingKeeps DEF PostSet
<1>6. CASE IssueSetup(b)
  <2> DEFINE q == [p EXCEPT !.at = "ok", !.epoch = epoch]
  <2>2. posts' = [posts EXCEPT ![b] = q] /\ q \in PostSet
    BY <1>0, <1>6 DEF PostSet, IssueSetup, p
  <2>3. Formed(q) /\ (outlived \/ Holds(q))
    BY <1>0, <1>6 DEF Formed, Holds, PostSet, IssueSetup, Stands, p
  <2>4. UNCHANGED <<secrets, browserVars>> /\ chosen' = chosen
    BY <1>6 DEF IssueSetup
  <2> QED
    BY <1>0, <2>2, <2>3, <2>4, HandlingKeeps DEF PostSet
<1> QED
  BY <1>1, <1>2, <1>3, <1>4, <1>5, <1>6

LEMMA AnswersKeep ==
    ASSUME Grounded, Dated, Informed, NEW b \in Browsers,
           LoginAnswered(b) \/ SetupAnswered(b) \/ ChangeAnswered(b)
    PROVE  Grounded' /\ Dated' /\ Informed'
<1> USE BrowserKeeps
<1>0. /\ chosen \in Nat /\ late \in BOOLEAN /\ secret \in Nat
      /\ asked \in [Browsers -> {"idle", "sent", "no", "yes"}]
  BY DEF Grounded, Shape
<1>1. NoPost \in PostSet /\ Formed(NoPost) /\ Holds(NoPost)
  BY DEF NoPost, PostSet, Formed, Holds, Grounded, Shape
<1>2. Issued(b) \in SessionSet
  BY <1>0 DEF Issued, SessionSet, PostSet
<1>3. posts[b].kind \in {"login", "setup"} /\ posts[b].at = "ok" => outlived \/ Proves(Issued(b))
  BY <1>0 DEF Issued, Proves, InForce, Holds, PostSet
<1>4. {"login", "admin"} \subseteq Places /\ {"unknown", "yes"} \subseteq Beliefs
  BY DEF Places, Beliefs
<1>5. \A page \in Places :
        late \/ outlived \/ Fits(known[b], Routed(page, known[b]), NoPost, cookie[b])
  BY RoutedPlaces DEF Fits, NoPost
<1>6. \A page \in Places, c \in SessionSet :
        Fits("yes", page, NoPost, c) /\ Fits("unknown", page, NoPost, c)
  BY DEF Fits
<1>7. CASE LoginAnswered(b) /\ Stands(b, "ok")
  <2>1. Touches(b, known[b], Routed("admin", known[b]), NoPost, Issued(b))
    BY <1>7 DEF LoginAnswered, Shows, Ends, Touches
  <2>2. chosen' = chosen /\ late' = late /\ asked' = asked
    BY <1>7 DEF LoginAnswered
  <2>3. posts[b].kind = "login" /\ posts[b].at = "ok"
    BY <1>7 DEF LoginAnswered, Stands
  <2>4. late \/ outlived \/ Fits(known[b], Routed("admin", known[b]), NoPost, Issued(b))
    BY <2>3 DEF Fits, Holds
  <2> QED
    BY <1>0, <1>1, <1>2, <1>3, <1>4, <2>1, <2>2, <2>3, <2>4, RoutedPlaces, TouchingKeeps
<1>8. CASE SetupAnswered(b) /\ Stands(b, "ok")
  <2>1. Touches(b, "yes", "admin", NoPost, Issued(b))
    BY <1>8 DEF SetupAnswered, Ends, Touches
  <2>2. chosen' = chosen /\ late' = late /\ asked' = asked
    BY <1>8 DEF SetupAnswered
  <2>3. posts[b].kind = "setup" /\ posts[b].at = "ok"
    BY <1>8 DEF SetupAnswered, Stands
  <2> QED
    BY <1>0, <1>1, <1>2, <1>3, <1>4, <1>6, <2>1, <2>2, <2>3, TouchingKeeps
<1>9. CASE ChangeAnswered(b) /\ Stands(b, "ok")
  <2>1. Touches(b, known[b], Routed("login", known[b]), NoPost, cookie[b])
    BY <1>9 DEF ChangeAnswered, Shows, Ends, Touches, Stands
  <2>2. chosen' = chosen /\ late' = late /\ asked' = asked
    BY <1>9 DEF ChangeAnswered, Stands
  <2> QED
    BY <1>0, <1>1, <1>4, <1>5, <2>1, <2>2, RoutedPlaces, TouchingKeeps
<1>10. CASE ChangeAnswered(b) /\ Stands(b, "denied") /\ path[b] # "login"
  <2>1. Touches(b, "unknown", "login", NoPost, cookie[b])
    BY <1>10 DEF ChangeAnswered, Reload, Ends, Touches, Stands
  <2>2. chosen' = chosen /\ late' = late /\ asked' = [asked EXCEPT ![b] = "sent"]
    BY <1>10 DEF ChangeAnswered, Reload, Stands
  <2> QED
    BY <1>0, <1>1, <1>4, <1>6, <2>1, <2>2, TouchingKeeps
<1>11. CASE ~Stands(b, "ok") /\ ~(ChangeAnswered(b) /\ Stands(b, "denied") /\ path[b] # "login")
  <2>1. Touches(b, known[b], path[b], NoPost, cookie[b])
    BY <1>11 DEF LoginAnswered, SetupAnswered, ChangeAnswered, Ends, Touches
  <2>2. chosen' = chosen /\ late' = late /\ asked' = asked
    BY <1>11 DEF LoginAnswered, SetupAnswered, ChangeAnswered
  <2>3. late \/ outlived \/ Fits(known[b], path[b], NoPost, cookie[b])
    BY DEF Fits, NoPost
  <2> QED
    BY <1>0, <1>1, <2>1, <2>2, <2>3, TouchingKeeps
<1> QED
  BY <1>7, <1>8, <1>9, <1>10, <1>11

-----------------------------------------------------------------------------
(* The steps that change the password, the epoch or the key.               *)

LEMMA SavingKeeps ==
    ASSUME Grounded, Dated, Informed, NEW b \in Browsers, SaveConfig(b)
    PROVE  Grounded' /\ Dated' /\ Informed'
<1> DEFINE p == posts[b]
           Succeeds ==
             /\ password' = p.new
             /\ epoch' = IF p.kind = "change" THEN p.epoch + 1 ELSE p.epoch
             /\ outlived' = (outlived \/ \E o \in Browsers \ {b} : Writing(o))
             /\ Goes(b, IF p.kind = "setup" THEN "saved" ELSE "ok")
           Fails == Goes(b, "refused") /\ UNCHANGED <<password, epoch, outlived>>
<1>0. /\ p \in PostSet /\ posts \in [Browsers -> PostSet] /\ chosen \in Nat
      /\ password \in Nat /\ epoch \in Nat /\ secret \in Nat \ {0}
      /\ Formed(p) /\ (outlived \/ Holds(p))
      /\ late \/ outlived \/ (known[b] = "no" /\ p.kind = "login" => p.old = 0)
  BY BrowserKeeps DEF Grounded, Shape, Fits
<1>1. /\ p.at = "copied" /\ UNCHANGED browserVars /\ secret' = secret /\ chosen' = chosen
      /\ Succeeds \/ Fails
  BY DEF SaveConfig, Stands
<1>2. CASE Fails
  <2> DEFINE q == [p EXCEPT !.at = "refused"]
  <2>1. posts' = [posts EXCEPT ![b] = q] /\ q \in PostSet
    BY <1>0, <1>2 DEF PostSet, Goes
  <2>2. Formed(q) /\ (outlived \/ Holds(q))
    BY <1>0, <1>1 DEF Formed, Holds, PostSet
  <2>3. UNCHANGED <<secrets, browserVars>>
    BY <1>1, <1>2 DEF secrets
  <2> QED
    BY <1>0, <1>1, <2>1, <2>2, <2>3, HandlingKeeps DEF PostSet
<1>3. CASE Succeeds
  <2> DEFINE q == [p EXCEPT !.at = IF p.kind = "setup" THEN "saved" ELSE "ok"]
  <2>1. /\ posts' = [posts EXCEPT ![b] = q] /\ q \in PostSet
        /\ q.kind = p.kind /\ q.old = p.old /\ q.new = p.new /\ q.epoch = p.epoch
        /\ q.at = IF p.kind = "setup" THEN "saved" ELSE "ok"
    BY <1>0, <1>3 DEF PostSet, Goes
  <2>2. \A o \in Browsers : posts'[o] = (IF o = b THEN q ELSE posts[o]) /\ posts[o] \in PostSet
    BY <1>0, <2>1
  <2>3. /\ known' = known /\ path' = path /\ cookie' = cookie /\ late' = late /\ asked' = asked
    BY <1>1 DEF browserVars
  <2>4. outlived' \in BOOLEAN
    <3>1. outlived' = (outlived \/ \E o \in Browsers \ {b} : Writing(o))
      BY <1>3
    <3> QED
      BY <3>1, Zenon
  <2>5. password' \in Nat /\ epoch' \in Nat
    BY <1>0, <1>3 DEF PostSet
  <2>6. Shape'
    <3>1. posts' \in [Browsers -> PostSet]
      BY <1>0, <2>1
    <3> QED
      BY <1>1, <2>3, <2>4, <2>5, <3>1 DEF Grounded, Shape
  <2>7. \A o \in Browsers : Formed(posts[o])'
    <3>1. password' # 0
      BY <1>0, <1>1, <1>3 DEF Formed
    <3>2. \A o \in Browsers : Formed(posts[o]) /\ (o = b => Formed(q))
      BY <1>0, <1>1, <2>1 DEF Grounded, Formed
    <3> QED
      BY <2>2, <3>1, <3>2 DEF Formed
  <2>8. CASE outlived'
    BY <2>6, <2>7, <2>8 DEF Grounded, Dated, Informed
  <2>9. CASE ~outlived'
    <3>1. ~outlived /\ \A o \in Browsers \ {b} : ~Writing(o)
      BY <1>3, <2>9
    <3>2. \A o \in Browsers : Holds(posts[o]) /\ Proves(cookie[o]) /\ cookie[o] \in SessionSet
      BY <3>1 DEF Dated, Grounded, Shape
    <3>3. password' # 0
      BY <1>0, <1>1, <1>3 DEF Formed
    <3>4. ASSUME NEW o \in Browsers
          PROVE  Holds(posts[o])' /\ Proves(cookie[o])' /\ ~InForce(cookie[o])'
      <4>1. /\ Holds(posts[o]) /\ Proves(cookie[o]) /\ cookie[o] \in SessionSet
            /\ posts[o] \in PostSet /\ Formed(posts[o]) /\ Holds(p)
        BY <2>2, <3>1, <3>2 DEF Grounded
      <4>2. cookie'[o] = cookie[o] /\ posts'[o] = IF o = b THEN q ELSE posts[o]
        BY <2>2, <2>3
      <4>3. o # b => ~Writing(o)
        BY <3>1
      <4>4. CASE p.kind = "change"
        <5>1. epoch' = epoch + 1
          BY <1>1, <1>3, <4>1, <4>4 DEF Holds
        <5>2. Proves(cookie[o])' /\ ~InForce(cookie[o])'
          BY <1>0, <1>1, <4>1, <4>2, <5>1 DEF Proves, InForce, SessionSet
        <5>3. o = b => Holds(posts[o])'
          BY <1>0, <2>1, <4>1, <4>2, <4>4, <5>1 DEF Holds, PostSet
        <5>4. o # b => Holds(posts[o])'
          BY <1>0, <3>3, <4>1, <4>2, <4>3, <5>1 DEF Holds, PostSet, Writing, Formed
        <5> QED
          BY <5>2, <5>3, <5>4
      <4>5. CASE p.kind = "setup"
        <5>1. epoch' = epoch /\ password = 0
          BY <1>1, <1>3, <4>1, <4>5 DEF Holds
        <5>2. Proves(cookie[o])' /\ ~InForce(cookie[o])'
          BY <1>0, <1>1, <4>1, <4>2, <5>1 DEF Proves, InForce, SessionSet
        <5>3. o = b => Holds(posts[o])'
          BY <1>0, <1>3, <2>1, <4>1, <4>2, <4>5, <5>1 DEF Holds, PostSet
        <5>4. o # b => Holds(posts[o])'
          BY <1>0, <3>3, <4>1, <4>2, <4>3, <5>1 DEF Holds, PostSet, Writing, Formed
        <5> QED
          BY <5>2, <5>3, <5>4
      <4> QED
        BY <1>0, <1>1, <4>4, <4>5 DEF Formed, PostSet
    <3>5. Dated'
      BY <3>4 DEF Dated
    <3>6. Informed'
      <4>1. CASE late
        BY <2>3, <4>1 DEF Informed
      <4>2. CASE ~late
        <5>1. \A o \in Browsers : Believes(o)'
          BY <2>1, <2>2, <2>3, <3>1, <3>4, <4>2 DEF Informed, Believes, Fits
        <5> QED
          BY <5>1 DEF Informed
      <4> QED
        BY <4>1, <4>2
    <3> QED
      BY <2>6, <2>7, <3>5, <3>6 DEF Grounded
  <2> QED
    BY <2>8, <2>9
<1> QED
  BY <1>1, <1>2, <1>3

\* Raising the epoch, or taking a new key, makes every session a past one.
LEMMA ResetsKeep ==
    ASSUME Grounded, Dated, Informed, ResetSessions \/ ResetPassword
    PROVE  Grounded' /\ Dated' /\ Informed'
<1>0. /\ password \in Nat /\ epoch \in Nat /\ secret \in Nat \ {0} /\ chosen \in Nat
      /\ posts \in [Browsers -> PostSet] /\ cookie \in [Browsers -> SessionSet]
      /\ \A b \in Browsers : posts[b] \in PostSet /\ cookie[b] \in SessionSet /\ Formed(posts[b])
      /\ outlived \/ \A b \in Browsers : Holds(posts[b]) /\ Proves(cookie[b])
  BY DEF Grounded, Shape, Dated
<1>1. /\ known' = known /\ path' = path /\ cookie' = cookie /\ late' = late /\ asked' = asked
      /\ chosen' = chosen
  BY DEF ResetSessions, ResetPassword, browserVars
<1>2. CASE ResetSessions
  <2>1. password' = password /\ secret' = secret /\ epoch' = epoch + 1 /\ posts' = posts
    BY <1>2 DEF ResetSessions
  <2>2. outlived' = (outlived \/ \E b \in Browsers : Writing(b))
    BY <1>2 DEF ResetSessions
  <2>3. outlived' \in BOOLEAN
    BY <2>2, Zenon
  <2>4. Grounded'
    BY <1>0, <1>1, <2>1, <2>3 DEF Grounded, Shape, Formed
  <2>5. CASE outlived'
    BY <2>4, <2>5 DEF Dated, Informed
  <2>6. CASE ~outlived'
    <3>1. \A b \in Browsers :
            ~Writing(b) /\ Holds(posts[b]) /\ Proves(cookie[b])
      BY <1>0, <2>2, <2>6
    <3>2. \A b \in Browsers : Holds(posts[b])'
      BY <1>0, <2>1, <3>1 DEF Holds, PostSet, Writing, Formed
    <3>3. \A b \in Browsers : Proves(cookie[b])' /\ ~InForce(cookie[b])'
      BY <1>0, <1>1, <2>1, <3>1 DEF Proves, InForce, SessionSet
    <3>4. late \/ \A b \in Browsers : Believes(b)'
      BY <1>1, <2>1, <2>2, <2>6, <3>3 DEF Informed, Believes, Fits
    <3> QED
      BY <1>1, <2>4, <3>2, <3>3, <3>4 DEF Dated, Informed
  <2> QED
    BY <2>5, <2>6
<1>3. CASE ResetPassword
  <2>1. password' = 0 /\ epoch' = epoch /\ (~Lasting => secret' = secret + 1)
        /\ secret' \in Nat \ {0}
    <3>1. password' = 0 /\ epoch' = epoch
      BY <1>3 DEF ResetPassword
    <3>2. secret' = IF Lasting THEN secret ELSE secret + 1
      BY <1>3, Zenon DEF ResetPassword
    <3>3. CASE Lasting
      BY <1>0, <3>1, <3>2, <3>3
    <3>4. CASE ~Lasting
      BY <1>0, <3>1, <3>2, <3>4
    <3> QED
      BY <3>3, <3>4
  <2>2. outlived' = (outlived \/ Lasting)
    BY <1>3 DEF ResetPassword
  <2>3. outlived' \in BOOLEAN
    BY <2>2, Zenon
  <2>4. posts' = [b \in Browsers |->
                    IF Stands(b, "idle") THEN NoPost
                    ELSE [NoPost EXCEPT !.kind = posts[b].kind, !.at = "refused"]]
    BY <1>3 DEF ResetPassword
  <2>5. \A b \in Browsers :
          /\ posts'[b] \in PostSet /\ posts'[b].old = 0 /\ posts'[b].epoch = 0
          /\ posts'[b].at \in {"idle", "refused"}
    BY <1>0, <2>4 DEF NoPost, PostSet
  <2>6. posts' \in [Browsers -> PostSet]
    BY <2>4, <2>5
  <2>7. \A b \in Browsers : Formed(posts[b])' /\ Holds(posts[b])'
    BY <1>0, <2>1, <2>5 DEF Formed, Holds
  <2>8. Grounded'
    BY <1>0, <1>1, <2>1, <2>3, <2>6, <2>7 DEF Grounded, Shape
  <2>9. CASE outlived'
    BY <2>8, <2>9 DEF Dated, Informed
  <2>10. CASE ~outlived'
    <3>1. secret' = secret + 1 /\ \A b \in Browsers : Proves(cookie[b])
      BY <1>0, <2>1, <2>2, <2>10
    <3>2. \A b \in Browsers : Proves(cookie[b])' /\ ~InForce(cookie[b])'
      BY <1>0, <1>1, <3>1 DEF Proves, InForce, SessionSet
    <3>3. late \/ \A b \in Browsers : Believes(b)'
      BY <1>1, <2>2, <2>5, <2>10, <3>2 DEF Informed, Believes, Fits
    <3> QED
      BY <1>1, <2>7, <2>8, <3>2, <3>3 DEF Dated, Informed
  <2> QED
    BY <2>9, <2>10
<1> QED
  BY <1>2, <1>3

LEMMA StillKeeps ==
    ASSUME Grounded, Dated, Informed, WindowEnds \/ UNCHANGED signInVars
    PROVE  Grounded' /\ Dated' /\ Informed'
<1>1. /\ password' = password /\ epoch' = epoch /\ secret' = secret /\ path' = path
      /\ known' = known /\ asked' = asked /\ cookie' = cookie /\ posts' = posts
      /\ chosen' = chosen /\ late' = late /\ outlived' = outlived
  BY DEF WindowEnds, signInVars, secrets, browserVars
<1>2. Grounded'
  BY <1>1 DEF Grounded, Shape, Formed
<1>3. Dated'
  BY <1>1 DEF Dated, Holds, Proves, InForce
<1>4. Informed'
  BY <1>1 DEF Informed, Believes, Fits, InForce
<1> QED
  BY <1>2, <1>3, <1>4

LEMMA Invariance == SignInSpec => [](Grounded /\ Dated /\ Informed)
<1>1. Grounded /\ Dated /\ Informed /\ [SignInNext]_signInVars
        => (Grounded /\ Dated /\ Informed)'
  <2> SUFFICES ASSUME Grounded, Dated, Informed, [SignInNext]_signInVars
               PROVE  Grounded' /\ Dated' /\ Informed'
    OBVIOUS
  <2>1. CASE SignInUser
    BY <2>1, PagesKeep, SubmissionsKeep, ResetsKeep DEF SignInUser
  <2>2. CASE SignInServer
    BY <2>2, PagesKeep, HandlersKeep, SavingKeeps, StillKeeps DEF SignInServer
  <2>3. CASE SignInPages
    BY <2>3, PagesKeep, AnswersKeep DEF SignInPages
  <2>4. CASE UNCHANGED signInVars
    BY <2>4, StillKeeps
  <2> QED
    BY <2>1, <2>2, <2>3, <2>4 DEF SignInNext
<1> QED
  BY <1>1, Start, PTL DEF SignInSpec, SignInNext

-----------------------------------------------------------------------------
\* Changing the password (admin.go's changePassword) or starting anew without a lasting
\* key shuts out every session of the old password, for any number of browsers, of wrong
\* attempts and of steps, unless two changes overlap.
THEOREM OldSessionsEnd == SignInSpec => []SessionsProvePassword
<1>1. Dated => SessionsProvePassword
  BY DEF Dated, SessionsProvePassword, Proves, Accepted, InForce
<1> QED
  BY <1>1, Invariance, PTL

\* No browser that is signed in is kept on the setup page by what the router has cached
\* (Setup.tsx), unless it was told of setup mode too late or an old session is valid again.
THEOREM SetupEnds == SignInSpec => []SetupIsOver
<1>1. Informed => SetupIsOver
  BY DEF Informed, SetupIsOver, Believes, Fits, Accepted, InForce
<1> QED
  BY <1>1, Invariance, PTL

-----------------------------------------------------------------------------
(* The limiter.                                                            *)

\* Forms that were let in with a password to try, and those that have tried a wrong one
\* which is not recorded yet.
Tries(p) == p.kind # "setup" /\ p.at \in {"checked", "wrong"}
Errs(p) == p.kind # "setup" /\ p.at = "wrong"
Trying == {b \in Browsers : Tries(posts[b])}
Erring == {b \in Browsers : Errs(posts[b])}

\* Wrong passwords are recorded or about to be; and until the lock is on there is room for
\* everyone who was let in.
Counted ==
    /\ fails \in Nat /\ guesses \in Nat
    /\ lock \in {"none", "on", "over"}
    /\ \A b \in Browsers : posts[b].at = "wrong" => posts[b].kind # "setup"
    /\ lock = "none" => fails < MaxAttempts
    /\ guesses <= fails + Cardinality(Erring)
    /\ fails + Cardinality(Trying) < MaxAttempts + Cardinality(Browsers)

LEMMA FormSets ==
    /\ Cardinality(Browsers) \in Nat
    /\ IsFiniteSet(Trying) /\ Cardinality(Trying) \in Nat
    /\ IsFiniteSet(Erring) /\ Cardinality(Erring) \in Nat
    /\ Cardinality(Trying) <= Cardinality(Browsers)
<1>1. IsFiniteSet(Browsers)
  BY SignInAssumption
<1>2. Trying \in SUBSET Browsers /\ Erring \in SUBSET Browsers
  BY DEF Trying, Erring
<1> QED
  BY <1>1, <1>2, FS_Subset, FS_CardinalityType

LEMMA FormSetsNext ==
    /\ Cardinality(Trying') \in Nat /\ Cardinality(Erring') \in Nat
    /\ Cardinality(Trying') <= Cardinality(Browsers)
<1>1. IsFiniteSet(Browsers)
  BY SignInAssumption
<1>2. Trying' \in SUBSET Browsers /\ Erring' \in SUBSET Browsers
  BY DEF Trying, Erring
<1> QED
  BY <1>1, <1>2, FS_Subset, FS_CardinalityType

\* One form moves on: it enters or leaves the two sets, and nobody else does.
LEMMA FormMoves ==
    ASSUME Shape, NEW b \in Browsers, NEW p, posts' = [posts EXCEPT ![b] = p]
    PROVE  /\ Cardinality(Trying') = Cardinality(Trying) + (IF Tries(p) THEN 1 ELSE 0)
                                       - (IF Tries(posts[b]) THEN 1 ELSE 0)
           /\ Cardinality(Erring') = Cardinality(Erring) + (IF Errs(p) THEN 1 ELSE 0)
                                       - (IF Errs(posts[b]) THEN 1 ELSE 0)
           /\ \A o \in Browsers : posts'[o] = IF o = b THEN p ELSE posts[o]
<1>1. \A o \in Browsers : posts'[o] = IF o = b THEN p ELSE posts[o]
  BY DEF Shape
<1>2. Trying' = IF Tries(p) THEN Trying \cup {b} ELSE Trying \ {b}
  <2>1. \A o \in Browsers : o \in Trying' <=> Tries(posts'[o])
    BY DEF Trying, Tries
  <2> QED
    BY <1>1, <2>1 DEF Trying
<1>3. Erring' = IF Errs(p) THEN Erring \cup {b} ELSE Erring \ {b}
  <2>1. \A o \in Browsers : o \in Erring' <=> Errs(posts'[o])
    BY DEF Erring, Errs
  <2> QED
    BY <1>1, <2>1 DEF Erring
<1>4. /\ b \in Trying <=> Tries(posts[b])
      /\ b \in Erring <=> Errs(posts[b])
  BY DEF Trying, Erring
<1>5. /\ Cardinality(Trying \cup {b}) = IF b \in Trying THEN Cardinality(Trying)
                                                       ELSE Cardinality(Trying) + 1
      /\ Cardinality(Trying \ {b}) = IF b \in Trying THEN Cardinality(Trying) - 1
                                                    ELSE Cardinality(Trying)
  BY FormSets, FS_AddElement, FS_RemoveElement
<1>6. /\ Cardinality(Erring \cup {b}) = IF b \in Erring THEN Cardinality(Erring)
                                                       ELSE Cardinality(Erring) + 1
      /\ Cardinality(Erring \ {b}) = IF b \in Erring THEN Cardinality(Erring) - 1
                                                    ELSE Cardinality(Erring)
  BY FormSets, FS_AddElement, FS_RemoveElement
<1> QED
  BY <1>1, <1>2, <1>3, <1>4, <1>5, <1>6, FormSets

\* A form moves on without trying anything, and the limiter is left alone.
LEMMA IdleMoveCounts ==
    ASSUME Shape, Counted, NEW b \in Browsers, NEW p, posts' = [posts EXCEPT ![b] = p],
           UNCHANGED limiter, ~Tries(p), p.at # "wrong", ~Errs(posts[b])
    PROVE  Counted'
<1>1. ~Errs(p)
  BY DEF Errs
<1>2. Cardinality(Trying') <= Cardinality(Trying) /\ Cardinality(Erring') = Cardinality(Erring)
  <2>1. /\ Cardinality(Trying') = Cardinality(Trying) + 0 - (IF Tries(posts[b]) THEN 1 ELSE 0)
        /\ Cardinality(Erring') = Cardinality(Erring) + 0 - 0
    BY <1>1, FormMoves
  <2> QED
    BY <2>1, FormSets
<1>3. \A o \in Browsers : posts'[o].at = "wrong" => posts'[o].kind # "setup"
  BY FormMoves DEF Counted
<1> QED
  BY <1>2, <1>3, FormSets, FormSetsNext, SignInAssumption DEF Counted, limiter

\* The limiter is wiped, by a login, a restart or the end of the window.
LEMMA WipingCounts ==
    ASSUME fails' = 0, lock' = "none", guesses' = 0,
           \A o \in Browsers : posts'[o].at = "wrong" => posts'[o].kind # "setup"
    PROVE  Counted'
BY FormSetsNext, FormSets, SignInAssumption DEF Counted

LEMMA CheckCounts ==
    ASSUME Shape, Counted, NEW b \in Browsers, Check(b) PROVE Counted'
<1> DEFINE p == [posts[b] EXCEPT !.epoch = epoch,
                                 !.at = IF Denies(b) THEN "denied"
                                        ELSE IF Refuses(b) THEN "refused" ELSE "checked"]
<1>1. posts' = [posts EXCEPT ![b] = p]
  BY DEF Check, Shape
<1>2. /\ p.kind = posts[b].kind
      /\ p.at = IF Denies(b) THEN "denied" ELSE IF Refuses(b) THEN "refused" ELSE "checked"
      /\ posts[b].at = "sent"
  BY DEF Check, Stands, Shape, PostSet
<1>3. p.at # "wrong" /\ ~Errs(posts[b]) /\ ~Tries(posts[b]) /\ ~Errs(p)
  BY <1>2 DEF Errs, Tries
<1> HIDE DEF p
<1>4. \A o \in Browsers : posts'[o].at = "wrong" => posts'[o].kind # "setup"
  BY <1>1, <1>3, FormMoves DEF Counted
<1>5. CASE UNCHANGED limiter /\ ~Tries(p)
  BY <1>1, <1>3, <1>5, IdleMoveCounts
<1>6. CASE fails' = 0 /\ lock' = "none" /\ guesses' = 0
  BY <1>4, <1>6, WipingCounts
<1>7. CASE UNCHANGED limiter /\ Tries(p)
  <2>1. lock = "none"
    BY <1>2, <1>7 DEF Tries, Refuses, Locked, Check, Unlock, Counted, limiter
  <2>2. Cardinality(Erring') = Cardinality(Erring)
    <3>1. Cardinality(Erring') = Cardinality(Erring) + 0 - 0
      BY <1>1, <1>3, FormMoves
    <3> QED
      BY <3>1, FormSets
  <2>3. fails + Cardinality(Trying') < MaxAttempts + Cardinality(Browsers)
    BY <2>1, FormSets, FormSetsNext, SignInAssumption DEF Counted
  <2> QED
    BY <1>4, <1>7, <2>2, <2>3 DEF Counted, limiter
<1> QED
  BY <1>5, <1>6, <1>7 DEF Check, Unlock

LEMMA VerifyCounts ==
    ASSUME Shape, Counted, NEW b \in Browsers, Verify(b) PROVE Counted'
<1> DEFINE Moved(stage) == [posts[b] EXCEPT !.at = stage]
<1>1. \A stage : Goes(b, stage) => posts' = [posts EXCEPT ![b] = Moved(stage)]
  BY DEF Goes, Shape
<1>2. /\ \A stage : Moved(stage).at = stage /\ Moved(stage).kind = posts[b].kind
      /\ posts[b].at = "checked"
  BY DEF Verify, Stands, Shape, PostSet
<1> HIDE DEF Moved
<1>3. CASE posts[b].kind # "setup" /\ Goes(b, "wrong") /\ guesses' = guesses + 1
  <2>1. Tries(Moved("wrong")) /\ Errs(Moved("wrong")) /\ Tries(posts[b]) /\ ~Errs(posts[b])
    BY <1>2, <1>3 DEF Tries, Errs
  <2>2. /\ Cardinality(Erring') = Cardinality(Erring) + 1
        /\ Cardinality(Trying') = Cardinality(Trying)
    BY <1>1, <1>3, <2>1, FormMoves, FormSets
  <2>3. \A o \in Browsers : posts'[o].at = "wrong" => posts'[o].kind # "setup"
    BY <1>1, <1>2, <1>3, FormMoves DEF Counted
  <2> QED
    BY <1>3, <2>2, <2>3, FormSets DEF Counted, Verify
<1>4. CASE UNCHANGED guesses /\ (Goes(b, "right") \/ Goes(b, "refused"))
  <2>1. PICK stage \in {"right", "refused"} : Goes(b, stage)
    BY <1>4
  <2>2. ~Tries(Moved(stage)) /\ Moved(stage).at # "wrong" /\ ~Errs(posts[b])
    BY <1>2 DEF Tries, Errs
  <2>3. UNCHANGED limiter
    BY <1>4 DEF Verify, limiter
  <2> QED
    BY <1>1, <2>1, <2>2, <2>3, IdleMoveCounts
<1> QED
  BY <1>3, <1>4 DEF Verify

LEMMA RecordCounts ==
    ASSUME Shape, Counted, NEW b \in Browsers, RecordFailure(b) PROVE Counted'
<1> DEFINE p == [posts[b] EXCEPT !.at = "denied"]
<1>1. posts' = [posts EXCEPT ![b] = p]
  BY DEF RecordFailure, Goes, Shape
<1>2. p.at = "denied" /\ posts[b].at = "wrong" /\ posts[b].kind # "setup"
  BY DEF RecordFailure, Stands, Shape, PostSet, Counted
<1> HIDE DEF p
<1>3. ~Tries(p) /\ ~Errs(p) /\ Tries(posts[b]) /\ Errs(posts[b])
  BY <1>2 DEF Tries, Errs
<1>4. /\ Cardinality(Erring') = Cardinality(Erring) - 1
      /\ Cardinality(Trying') = Cardinality(Trying) - 1
  <2>1. /\ Cardinality(Erring') = Cardinality(Erring) + 0 - 1
        /\ Cardinality(Trying') = Cardinality(Trying) + 0 - 1
    BY <1>1, <1>3, FormMoves
  <2> QED
    BY <2>1, FormSets
<1>5. \A o \in Browsers : posts'[o].at = "wrong" => posts'[o].kind # "setup"
  BY <1>1, <1>2, FormMoves DEF Counted
<1> QED
  BY <1>4, <1>5, FormSets, SignInAssumption DEF Counted, RecordFailure

LEMMA LogInCounts ==
    ASSUME Shape, Counted, NEW b \in Browsers, LogIn(b) PROVE Counted'
<1> DEFINE p == [posts[b] EXCEPT !.at = "ok"]
<1>1. posts' = [posts EXCEPT ![b] = p] /\ p.at = "ok"
  BY DEF LogIn, Goes, Shape, PostSet
<1>2. \A o \in Browsers : posts'[o].at = "wrong" => posts'[o].kind # "setup"
  BY <1>1, FormMoves DEF Counted
<1> QED
  BY <1>2, WipingCounts DEF LogIn

\* The steps of forms that neither try a password nor touch the limiter.
LEMMA FormCounts ==
    ASSUME Shape, Counted, NEW b \in Browsers,
           \/ SubmitLogin(b) \/ SubmitSetup(b) \/ SubmitChange(b)
           \/ CopyConfig(b) \/ SaveConfig(b) \/ IssueSetup(b)
           \/ LoginAnswered(b) \/ SetupAnswered(b) \/ ChangeAnswered(b)
    PROVE  Counted'
<1>1. ASSUME NEW p, posts' = [posts EXCEPT ![b] = p], UNCHANGED limiter,
             p.at \notin {"checked", "wrong"}, posts[b].at # "wrong"
      PROVE  Counted'
  BY <1>1, IdleMoveCounts DEF Tries, Errs
<1>2. posts[b] \in PostSet
  BY DEF Shape
<1>3. CASE SubmitLogin(b) \/ SubmitSetup(b) \/ SubmitChange(b)
  BY <1>1, <1>3 DEF SubmitLogin, SubmitSetup, SubmitChange, Post, Stands
<1>4. CASE CopyConfig(b) \/ IssueSetup(b)
  <2>1. PICK stage \in {"copied", "ok"} :
           posts' = [posts EXCEPT ![b] = [posts[b] EXCEPT !.epoch = epoch, !.at = stage]]
    BY <1>4 DEF CopyConfig, IssueSetup, Shape
  <2>2. [posts[b] EXCEPT !.epoch = epoch, !.at = stage].at = stage
    BY <1>2 DEF PostSet
  <2>3. UNCHANGED limiter /\ posts[b].at # "wrong"
    BY <1>4 DEF CopyConfig, IssueSetup, Stands
  <2> QED
    BY <1>1, <2>1, <2>2, <2>3
<1>5. CASE SaveConfig(b)
  <2>1. PICK stage \in {"saved", "ok", "refused"} : Goes(b, stage)
    BY <1>5 DEF SaveConfig
  <2>2. posts' = [posts EXCEPT ![b] = [posts[b] EXCEPT !.at = stage]]
    BY <2>1 DEF Goes, Shape
  <2>3. [posts[b] EXCEPT !.at = stage].at = stage
    BY <1>2 DEF PostSet
  <2>4. UNCHANGED limiter /\ posts[b].at # "wrong"
    BY <1>5 DEF SaveConfig, Stands
  <2> QED
    BY <1>1, <2>2, <2>3, <2>4
<1>6. CASE LoginAnswered(b) \/ SetupAnswered(b) \/ ChangeAnswered(b)
  <2>1. posts' = [posts EXCEPT ![b] = NoPost] /\ NoPost.at = "idle"
    BY <1>6 DEF LoginAnswered, SetupAnswered, ChangeAnswered, Ends, NoPost
  <2>2. UNCHANGED limiter /\ posts[b].at # "wrong"
    BY <1>6 DEF LoginAnswered, SetupAnswered, ChangeAnswered
  <2> QED
    BY <1>1, <2>1, <2>2
<1> QED
  BY <1>3, <1>4, <1>5, <1>6

LEMMA ResetCounts ==
    ASSUME Counted, ResetPassword PROVE Counted'
<1>1. \A o \in Browsers : posts'[o].at # "wrong"
  BY DEF ResetPassword, NoPost
<1> QED
  BY <1>1, WipingCounts DEF ResetPassword

LEMMA RestCounts ==
    ASSUME Counted, UNCHANGED <<posts, fails, guesses>>, lock' = lock \/ lock' = "over"
    PROVE  Counted'
BY DEF Counted, Trying, Erring, Tries, Errs

LEMMA CountedAlways == SignInSpec => []Counted
<1>1. SignInInit => Counted
  <2> SUFFICES ASSUME SignInInit PROVE Counted
    OBVIOUS
  <2>1. \A b \in Browsers : posts[b].at = "idle"
    BY DEF SignInInit, NoPost
  <2> QED
    BY <2>1, FormSets, SignInAssumption DEF SignInInit, Counted
<1>2. Grounded /\ Counted /\ [SignInNext]_signInVars => Counted'
  <2> SUFFICES ASSUME Grounded, Counted, [SignInNext]_signInVars PROVE Counted'
    OBVIOUS
  <2>0. Shape
    BY DEF Grounded
  <2>1. CASE UNCHANGED signInVars
    BY <2>1, RestCounts DEF signInVars
  <2>2. CASE SignInUser
    <3>1. CASE ResetSessions \/ ResetPassword
      BY <3>1, RestCounts, ResetCounts DEF ResetSessions, limiter
    <3>2. ASSUME NEW b \in Browsers, Visit(b) \/ TurnTo(b) \/ Logout(b) PROVE Counted'
      BY <3>2, RestCounts DEF Visit, TurnTo, Logout, limiter
    <3> QED
      BY <2>0, <2>2, <3>1, <3>2, FormCounts DEF SignInUser
  <2>3. CASE SignInServer
    <3>1. CASE WindowEnds
      BY <3>1, RestCounts DEF WindowEnds
    <3>2. ASSUME NEW b \in Browsers, StatusServed(b) PROVE Counted'
      BY <3>2, RestCounts DEF StatusServed, limiter
    <3> QED
      BY <2>0, <2>3, <3>1, <3>2, CheckCounts, VerifyCounts, RecordCounts, LogInCounts, FormCounts
         DEF SignInServer
  <2>4. CASE SignInPages
    <3>1. ASSUME NEW b \in Browsers, StatusArrives(b) \/ Unauthorized(b) PROVE Counted'
      BY <3>1, RestCounts DEF StatusArrives, Unauthorized, limiter
    <3> QED
      BY <2>0, <2>4, <3>1, FormCounts DEF SignInPages
  <2> QED
    BY <2>1, <2>2, <2>3, <2>4 DEF SignInNext
<1> QED
  BY <1>1, <1>2, Invariance, PTL DEF SignInSpec, SignInNext

\* However the requests of an address interleave with the limiter's test and its recording
\* (ratelimit.go's locked and recordFailure), for any number of browsers, of attempts
\* allowed and of steps.
THEOREM LockoutIsKept == SignInSpec => []LockoutHolds
<1>1. Counted => LockoutHolds
  <2> SUFFICES ASSUME Counted PROVE LockoutHolds
    OBVIOUS
  <2>1. Erring \in SUBSET Trying
    BY DEF Erring, Trying, Errs, Tries
  <2>2. Cardinality(Erring) <= Cardinality(Trying)
    BY <2>1, FormSets, FS_Subset
  <2> QED
    BY <2>2, FormSets, SignInAssumption DEF Counted, LockoutHolds
<1> QED
  BY <1>1, CountedAlways, PTL

-----------------------------------------------------------------------------
(* The bounds. What the users and the shell do is bounded, and so is what  *)
(* comes of it: a form moves the failures or the epoch on by one, at most, *)
(* and has taken its submission before.                                    *)

Waits(p) == p.kind # "setup" /\ p.at \in {"sent", "checked", "wrong"}
Renews(p) == p.kind = "change" /\ p.at \in {"sent", "checked", "right", "copied"}
Waiting == {b \in Browsers : Waits(posts[b])}
Renewing == {b \in Browsers : Renews(posts[b])}

\* With those that will move it on, an epoch is within the moves made.
Paid(e) == e + Cardinality(Renewing) <= moves

Bounded ==
    /\ moves \in 0 .. MaxMoves
    /\ password <= chosen /\ chosen <= moves + 1 /\ secret <= moves + 1
    /\ fails + Cardinality(Waiting) <= moves
    /\ Paid(epoch)
    /\ \A b \in Browsers :
         /\ posts[b].old <= chosen /\ posts[b].new <= chosen /\ Paid(posts[b].epoch)
         /\ cookie[b].password <= chosen /\ cookie[b].secret <= secret /\ Paid(cookie[b].epoch)

\* Two sets that differ in one element at most.
LEMMA OneMoves ==
    ASSUME NEW A, NEW B, NEW b, IsFiniteSet(A), A \ {b} = B \ {b}
    PROVE  /\ Cardinality(A) \in Nat /\ Cardinality(B) \in Nat
           /\ Cardinality(B) = Cardinality(A) + (IF b \in B THEN 1 ELSE 0)
                                              - (IF b \in A THEN 1 ELSE 0)
<1>1. Cardinality(A) \in Nat
  BY FS_CardinalityType
<1>2. CASE b \in B
  <2>1. B = A \cup {b}
    BY <1>2
  <2>2. Cardinality(B) = IF b \in A THEN Cardinality(A) ELSE Cardinality(A) + 1
    BY <2>1, FS_AddElement
  <2> QED
    BY <1>1, <1>2, <2>2
<1>3. CASE b \notin B
  <2>1. B = A \ {b}
    BY <1>3
  <2>2. Cardinality(B) = IF b \in A THEN Cardinality(A) - 1 ELSE Cardinality(A)
    BY <2>1, FS_RemoveElement
  <2>3. b \in A => Cardinality(A) # 0
    BY FS_EmptySet
  <2> QED
    BY <1>1, <1>3, <2>2, <2>3
<1> QED
  BY <1>2, <1>3

LEMMA TollSets ==
    /\ IsFiniteSet(Waiting) /\ Cardinality(Waiting) \in Nat
    /\ IsFiniteSet(Renewing) /\ Cardinality(Renewing) \in Nat
<1>1. Waiting \in SUBSET Browsers /\ Renewing \in SUBSET Browsers
  BY DEF Waiting, Renewing
<1> QED
  BY <1>1, SignInAssumption, FS_Subset, FS_CardinalityType

\* One form moves on.
LEMMA TollsMove ==
    ASSUME Shape, NEW b \in Browsers, NEW p, posts' = [posts EXCEPT ![b] = p]
    PROVE  /\ posts'[b] = p /\ \A o \in Browsers \ {b} : posts'[o] = posts[o]
           /\ Cardinality(Waiting') \in Nat /\ Cardinality(Renewing') \in Nat
           /\ Cardinality(Waiting') = Cardinality(Waiting) + (IF Waits(p) THEN 1 ELSE 0)
                                        - (IF Waits(posts[b]) THEN 1 ELSE 0)
           /\ Cardinality(Renewing') = Cardinality(Renewing) + (IF Renews(p) THEN 1 ELSE 0)
                                        - (IF Renews(posts[b]) THEN 1 ELSE 0)
<1>1. posts'[b] = p /\ \A o \in Browsers \ {b} : posts'[o] = posts[o]
  BY DEF Shape
<1>2. /\ Waiting \ {b} = Waiting' \ {b} /\ Renewing \ {b} = Renewing' \ {b}
      /\ (b \in Waiting' <=> Waits(p)) /\ (b \in Renewing' <=> Renews(p))
      /\ (b \in Waiting <=> Waits(posts[b])) /\ (b \in Renewing <=> Renews(posts[b]))
  BY <1>1 DEF Waiting, Renewing, Waits, Renews
<1>3. /\ Cardinality(Waiting') \in Nat
      /\ Cardinality(Waiting') = Cardinality(Waiting) + (IF b \in Waiting' THEN 1 ELSE 0)
                                   - (IF b \in Waiting THEN 1 ELSE 0)
  BY <1>2, TollSets, OneMoves
<1>4. /\ Cardinality(Renewing') \in Nat
      /\ Cardinality(Renewing') = Cardinality(Renewing) + (IF b \in Renewing' THEN 1 ELSE 0)
                                   - (IF b \in Renewing THEN 1 ELSE 0)
  BY <1>2, TollSets, OneMoves
<1> QED
  BY <1>1, <1>2, <1>3, <1>4

\* A step of one browser and its form.
LEMMA BrowserStepIsBounded ==
    ASSUME Shape, Bounded, NEW b \in Browsers, NEW p \in PostSet, NEW c \in SessionSet,
           posts' = [posts EXCEPT ![b] = p], cookie' = [cookie EXCEPT ![b] = c],
           NEW toll \in {0, 1}, moves' = moves + toll, moves' \in 0 .. MaxMoves,
           chosen' \in Nat, chosen' >= chosen, chosen' <= moves' + 1,
           password' <= chosen', secret' = secret,
           p.old <= chosen', p.new <= chosen', c.password <= chosen', c.secret <= secret,
           epoch' \in Nat, epoch' + Cardinality(Renewing') <= moves',
           p.epoch + Cardinality(Renewing') <= moves',
           c.epoch + Cardinality(Renewing') <= moves',
           Cardinality(Renewing') <= Cardinality(Renewing) + toll,
           fails' + Cardinality(Waiting') <= moves'
    PROVE  Bounded'
<1>1. \A o \in Browsers :
        /\ posts'[o] = IF o = b THEN p ELSE posts[o]
        /\ cookie'[o] = IF o = b THEN c ELSE cookie[o]
  BY DEF Shape
<1>2. Cardinality(Renewing) \in Nat /\ Cardinality(Renewing') \in Nat
  BY TollSets, TollsMove
<1>3. \A n \in Nat : Paid(n) => n + Cardinality(Renewing') <= moves'
  BY <1>2, SignInAssumption DEF Paid, Bounded
<1>4. chosen \in Nat /\ secret \in Nat /\ moves \in Nat
  BY SignInAssumption DEF Shape, Bounded
<1>5. ASSUME NEW o \in Browsers
      PROVE  /\ posts'[o].old <= chosen' /\ posts'[o].new <= chosen'
             /\ posts'[o].epoch + Cardinality(Renewing') <= moves'
             /\ cookie'[o].password <= chosen' /\ cookie'[o].secret <= secret'
             /\ cookie'[o].epoch + Cardinality(Renewing') <= moves'
  <2>1. CASE o = b
    BY <1>1, <2>1
  <2>2. CASE o # b
    <3>1. posts[o] \in PostSet /\ cookie[o] \in SessionSet
      BY DEF Shape
    <3>2. /\ posts[o].old \in Nat /\ posts[o].new \in Nat /\ posts[o].epoch \in Nat
          /\ cookie[o].password \in Nat /\ cookie[o].secret \in Nat /\ cookie[o].epoch \in Nat
      BY <3>1 DEF PostSet, SessionSet
    <3>3. /\ posts[o].old <= chosen /\ posts[o].new <= chosen /\ Paid(posts[o].epoch)
          /\ cookie[o].password <= chosen /\ cookie[o].secret <= secret /\ Paid(cookie[o].epoch)
      BY DEF Bounded
    <3>4. posts'[o] = posts[o] /\ cookie'[o] = cookie[o]
      BY <1>1, <2>2
    <3> QED
      BY <1>3, <1>4, <3>2, <3>3, <3>4
  <2> QED
    BY <2>1, <2>2
<1>6. secret' <= moves' + 1
  BY <1>4, SignInAssumption DEF Bounded
<1> QED
  BY <1>5, <1>6 DEF Bounded, Paid

\* The numbers that a browser's step starts from.
LEMMA NumbersOf ==
    ASSUME Shape, Bounded, NEW b \in Browsers
    PROVE  /\ posts[b] \in PostSet /\ cookie[b] \in SessionSet
           /\ posts[b].old \in Nat /\ posts[b].new \in Nat /\ posts[b].epoch \in Nat
           /\ cookie[b].password \in Nat /\ cookie[b].secret \in Nat /\ cookie[b].epoch \in Nat
           /\ posts[b].old <= chosen /\ posts[b].new <= chosen
           /\ posts[b].epoch + Cardinality(Renewing) <= moves
           /\ cookie[b].password <= chosen /\ cookie[b].secret <= secret
           /\ cookie[b].epoch + Cardinality(Renewing) <= moves
           /\ epoch + Cardinality(Renewing) <= moves
           /\ fails + Cardinality(Waiting) <= moves
           /\ epoch \in Nat /\ chosen \in Nat /\ password \in Nat /\ secret \in Nat
           /\ moves \in Nat /\ password <= chosen /\ chosen <= moves + 1
BY SignInAssumption DEF Shape, Bounded, Paid, PostSet, SessionSet

LEMMA FormStepIsBounded ==
    ASSUME Shape, Bounded, fails \in Nat, NEW b \in Browsers, NEW p \in PostSet,
           posts' = [posts EXCEPT ![b] = p], UNCHANGED <<cookie, moves, chosen, secret>>,
           p.old = posts[b].old, p.new = posts[b].new,
           p.epoch \in {epoch, posts[b].epoch},
           Waits(p) => Waits(posts[b]), Renews(p) => Renews(posts[b]),
           password' \in {password, p.new},
           fails' \in {0, fails} \/ (fails' = fails + 1 /\ Waits(posts[b]) /\ ~Waits(p)),
           epoch' \in {epoch, posts[b].epoch}
             \/ (epoch' = posts[b].epoch + 1 /\ Renews(posts[b]) /\ ~Renews(p))
    PROVE  Bounded'
<1> DEFINE w == Cardinality(Waiting)
           wn == Cardinality(Waiting')
           r == Cardinality(Renewing)
           rn == Cardinality(Renewing')
<1>1. /\ w \in Nat /\ wn \in Nat /\ r \in Nat /\ rn \in Nat
      /\ wn = w + (IF Waits(p) THEN 1 ELSE 0) - (IF Waits(posts[b]) THEN 1 ELSE 0)
      /\ rn = r + (IF Renews(p) THEN 1 ELSE 0) - (IF Renews(posts[b]) THEN 1 ELSE 0)
  BY TollSets, TollsMove
<1>2. /\ posts[b].old \in Nat /\ posts[b].new \in Nat /\ posts[b].epoch \in Nat
      /\ cookie[b] \in SessionSet /\ cookie[b].password \in Nat /\ cookie[b].epoch \in Nat
      /\ posts[b].old <= chosen /\ posts[b].new <= chosen /\ posts[b].epoch + r <= moves
      /\ cookie[b].password <= chosen /\ cookie[b].secret <= secret
      /\ cookie[b].epoch + r <= moves /\ epoch + r <= moves /\ fails + w <= moves
      /\ epoch \in Nat /\ chosen \in Nat /\ moves \in Nat
      /\ password <= chosen /\ chosen <= moves + 1
  BY NumbersOf
<1> HIDE DEF w, wn, r, rn
<1>3. fails' + wn <= moves
  BY <1>1, <1>2
<1>4. rn <= r
  BY <1>1
<1>5. epoch' + rn <= moves /\ epoch' \in Nat
  BY <1>1, <1>2
<1>6. p.epoch + rn <= moves /\ cookie[b].epoch + rn <= moves
  BY <1>1, <1>2, <1>4
<1>7. cookie' = [cookie EXCEPT ![b] = cookie[b]]
  BY DEF Shape
<1>8. moves' = moves + 0 /\ moves' \in 0 .. MaxMoves /\ chosen' = chosen
  BY <1>2 DEF Bounded
<1>9. rn <= r + 0
  BY <1>1, <1>4
<1>10. /\ chosen' \in Nat /\ chosen' >= chosen /\ chosen' <= moves' + 1 /\ password' <= chosen'
       /\ secret' = secret /\ p.old <= chosen' /\ p.new <= chosen'
       /\ cookie[b].password <= chosen'
  BY <1>2
<1>11. epoch' + rn <= moves' /\ p.epoch + rn <= moves' /\ cookie[b].epoch + rn <= moves'
       /\ fails' + wn <= moves'
  BY <1>3, <1>5, <1>6
<1> QED
  BY <1>2, <1>5, <1>7, <1>8, <1>9, <1>10, <1>11, BrowserStepIsBounded DEF r, rn, wn

LEMMA HandlersAreBounded ==
    ASSUME Shape, Bounded, Counted, NEW b \in Browsers,
           \/ Check(b) \/ Verify(b) \/ RecordFailure(b) \/ LogIn(b) \/ CopyConfig(b)
           \/ SaveConfig(b) \/ IssueSetup(b)
    PROVE  Bounded'
<1> DEFINE Moved(at, e) == [posts[b] EXCEPT !.at = at, !.epoch = e]
           Stages == {"denied", "refused", "checked", "wrong", "right", "ok", "copied", "saved"}
<1>1. posts[b] \in PostSet /\ epoch \in Nat /\ fails \in Nat /\ posts[b].epoch \in Nat
  BY DEF Shape, Counted, PostSet
<1>2. \A at \in Stages, e \in {epoch, posts[b].epoch} :
        /\ Moved(at, e) \in PostSet /\ Moved(at, e).at = at /\ Moved(at, e).epoch = e
        /\ Moved(at, e).kind = posts[b].kind
        /\ Moved(at, e).old = posts[b].old /\ Moved(at, e).new = posts[b].new
  BY <1>1 DEF PostSet
<1>3. /\ \A at : posts' = [posts EXCEPT ![b].at = at]
            => posts' = [posts EXCEPT ![b] = Moved(at, posts[b].epoch)]
      /\ \A at : posts' = [posts EXCEPT ![b].at = at, ![b].epoch = epoch]
            => posts' = [posts EXCEPT ![b] = Moved(at, epoch)]
  BY <1>1 DEF Shape, PostSet
<1> HIDE DEF Moved
<1>4. UNCHANGED <<cookie, moves, chosen, secret>>
  BY DEF Check, Verify, RecordFailure, LogIn, CopyConfig, SaveConfig, IssueSetup, browserVars,
     secrets
<1>5. ASSUME NEW at \in Stages, NEW e \in {epoch, posts[b].epoch},
             posts' = [posts EXCEPT ![b] = Moved(at, e)],
             at = "checked" => posts[b].at = "sent",
             at = "right" => posts[b].at = "checked",
             at = "copied" => posts[b].at = "right",
             at = "wrong" => posts[b].at = "checked",
             password' \in {password, posts[b].new},
             fails' \in {0, fails}
               \/ (fails' = fails + 1 /\ Waits(posts[b]) /\ at = "denied"),
             epoch' \in {epoch, posts[b].epoch}
               \/ (epoch' = posts[b].epoch + 1 /\ Renews(posts[b]) /\ at = "ok")
      PROVE  Bounded'
  <2> DEFINE p == Moved(at, e)
  <2>1. /\ p \in PostSet /\ p.at = at /\ p.epoch = e /\ p.kind = posts[b].kind
        /\ p.old = posts[b].old /\ p.new = posts[b].new
    BY <1>2
  <2>2. posts' = [posts EXCEPT ![b] = p]
    BY <1>5
  <2> HIDE DEF p
  <2>3. Waits(p) => Waits(posts[b])
    BY <1>5, <2>1 DEF Waits
  <2>4. Renews(p) => Renews(posts[b])
    BY <1>5, <2>1 DEF Renews
  <2>5. (at = "denied" => ~Waits(p)) /\ (at = "ok" => ~Renews(p))
    BY <2>1 DEF Waits, Renews
  <2> QED
    BY <1>1, <1>4, <1>5, <2>1, <2>2, <2>3, <2>4, <2>5, FormStepIsBounded
<1>6. CASE Check(b)
  <2>1. PICK at \in {"denied", "refused", "checked"} :
           posts' = [posts EXCEPT ![b].epoch = epoch, ![b].at = at]
    BY <1>6 DEF Check
  <2>2. posts' = [posts EXCEPT ![b].at = at, ![b].epoch = epoch]
    BY <2>1
  <2>3. fails' \in {0, fails} /\ password' = password /\ epoch' = epoch /\ posts[b].at = "sent"
    BY <1>6 DEF Check, Unlock, limiter, secrets, Stands
  <2> QED
    BY <1>3, <1>5, <2>2, <2>3
<1>7. CASE Verify(b)
  <2>1. PICK at \in {"wrong", "right", "refused"} : Goes(b, at)
    BY <1>7 DEF Verify
  <2>2. fails' = fails /\ password' = password /\ epoch' = epoch /\ posts[b].at = "checked"
    BY <1>7 DEF Verify, secrets, Stands
  <2> QED
    BY <1>3, <1>5, <2>1, <2>2 DEF Goes
<1>8. CASE RecordFailure(b)
  <2>1. /\ Goes(b, "denied") /\ fails' = fails + 1 /\ password' = password /\ epoch' = epoch
        /\ Waits(posts[b])
    BY <1>8 DEF RecordFailure, secrets, Stands, Waits, Counted
  <2> QED
    BY <1>3, <1>5, <2>1 DEF Goes
<1>9. CASE LogIn(b)
  <2>1. Goes(b, "ok") /\ fails' = 0 /\ password' = password /\ epoch' = epoch
    BY <1>9 DEF LogIn, secrets
  <2> QED
    BY <1>3, <1>5, <2>1 DEF Goes
<1>10. CASE CopyConfig(b)
  <2>1. /\ posts' = [posts EXCEPT ![b].at = "copied", ![b].epoch = epoch]
        /\ fails' = fails /\ password' = password /\ epoch' = epoch /\ posts[b].at = "right"
    BY <1>10 DEF CopyConfig, secrets, limiter, Stands
  <2> QED
    BY <1>3, <1>5, <2>1
<1>11. CASE SaveConfig(b)
  <2>1. PICK at \in {"saved", "ok", "refused"} :
          /\ Goes(b, at)
          /\ password' \in {password, posts[b].new}
          /\ epoch' \in {epoch, posts[b].epoch}
               \/ (epoch' = posts[b].epoch + 1 /\ posts[b].kind = "change" /\ at = "ok")
    BY <1>11 DEF SaveConfig
  <2>2. fails' = fails /\ posts[b].at = "copied"
    BY <1>11 DEF SaveConfig, limiter, Stands
  <2>3. posts[b].kind = "change" => Renews(posts[b])
    BY <2>2 DEF Renews
  <2> QED
    BY <1>3, <1>5, <2>1, <2>2, <2>3 DEF Goes
<1>12. CASE IssueSetup(b)
  <2>1. /\ posts' = [posts EXCEPT ![b].at = "ok", ![b].epoch = epoch]
        /\ fails' = fails /\ password' = password /\ epoch' = epoch
    BY <1>12 DEF IssueSetup, secrets, limiter
  <2> QED
    BY <1>3, <1>5, <2>1
<1> QED
  BY <1>6, <1>7, <1>8, <1>9, <1>10, <1>11, <1>12

LEMMA SubmissionsAreBounded ==
    ASSUME Shape, Bounded, fails \in Nat, NEW b \in Browsers,
           SubmitLogin(b) \/ SubmitSetup(b) \/ SubmitChange(b)
    PROVE  Bounded'
<1>1. PICK kind \in {"setup", "login", "change"}, old \in {0, password}, new \in {0, chosen'} :
         Post(b, kind, old, new)
  BY DEF SubmitLogin, SubmitSetup, SubmitChange
<1> DEFINE p == [kind |-> kind, at |-> "sent", old |-> old, new |-> new, epoch |-> 0]
           w == Cardinality(Waiting)
           wn == Cardinality(Waiting')
           r == Cardinality(Renewing)
           rn == Cardinality(Renewing')
<1>2. /\ posts' = [posts EXCEPT ![b] = p]
      /\ UNCHANGED <<fails, password, epoch, secret, cookie>>
  BY <1>1 DEF Post, secrets, limiter, browserVars
<1>3. moves' = moves + 1 /\ moves' \in 0 .. MaxMoves /\ (chosen' = chosen \/ chosen' = chosen + 1)
  BY SignInAssumption DEF SubmitLogin, SubmitSetup, SubmitChange, AMove, Bounded
<1>4. /\ cookie[b] \in SessionSet /\ cookie[b].password \in Nat /\ cookie[b].epoch \in Nat
      /\ cookie[b].password <= chosen /\ cookie[b].secret <= secret
      /\ cookie[b].epoch + r <= moves /\ epoch + r <= moves /\ fails + w <= moves
      /\ epoch \in Nat /\ chosen \in Nat /\ moves \in Nat /\ password \in Nat
      /\ password <= chosen /\ chosen <= moves + 1
  BY NumbersOf
<1>5. p \in PostSet /\ p.old = old /\ p.new = new /\ p.epoch = 0
  BY <1>3, <1>4 DEF PostSet
<1>6. /\ w \in Nat /\ wn \in Nat /\ r \in Nat /\ rn \in Nat
      /\ wn = w + (IF Waits(p) THEN 1 ELSE 0) - (IF Waits(posts[b]) THEN 1 ELSE 0)
      /\ rn = r + (IF Renews(p) THEN 1 ELSE 0) - (IF Renews(posts[b]) THEN 1 ELSE 0)
  BY <1>2, TollSets, TollsMove
<1> HIDE DEF p, w, wn, r, rn
<1>7. wn <= w + 1 /\ rn <= r + 1
  BY <1>6
<1>8. cookie' = [cookie EXCEPT ![b] = cookie[b]]
  BY <1>2 DEF Shape
<1>9. /\ chosen' \in Nat /\ chosen' >= chosen /\ chosen' <= moves' + 1 /\ password' <= chosen'
      /\ p.old <= chosen' /\ p.new <= chosen' /\ cookie[b].password <= chosen'
  BY <1>2, <1>3, <1>4, <1>5
<1>10. /\ epoch' \in Nat /\ epoch' + rn <= moves' /\ p.epoch + rn <= moves'
       /\ cookie[b].epoch + rn <= moves' /\ fails' + wn <= moves'
  BY <1>2, <1>3, <1>4, <1>5, <1>6, <1>7
<1> QED
  BY <1>2, <1>3, <1>4, <1>5, <1>7, <1>8, <1>9, <1>10, BrowserStepIsBounded DEF r, rn, wn

\* A step of the user or of a page leaves the forms alone and keeps a cookie or drops it.
LEMMA StillBounded ==
    ASSUME Shape, Bounded, fails \in Nat,
           UNCHANGED <<password, epoch, secret, posts, chosen, fails>>,
           moves' \in {moves, moves + 1}, moves' \in 0 .. MaxMoves,
           \A b \in Browsers : cookie'[b] \in {cookie[b], NoSession}
    PROVE  Bounded'
<1>1. Waiting' = Waiting /\ Renewing' = Renewing
  BY DEF Waiting, Renewing
<1>2. moves \in Nat /\ moves' >= moves
  BY SignInAssumption DEF Bounded
<1>3. \A n \in Nat : n <= moves => n <= moves'
  BY <1>2, SignInAssumption
<1>4. \A n \in Nat : n + Cardinality(Renewing) <= moves => n + Cardinality(Renewing) <= moves'
  BY <1>2, TollSets, SignInAssumption
<1>5. /\ password <= chosen /\ chosen \in Nat /\ secret \in Nat /\ epoch \in Nat
      /\ chosen <= moves + 1 /\ secret <= moves + 1 /\ epoch + Cardinality(Renewing) <= moves
      /\ fails + Cardinality(Waiting) <= moves
  BY DEF Shape, Bounded, Paid
<1>6. chosen <= moves' + 1 /\ secret <= moves' + 1 /\ fails + Cardinality(Waiting) <= moves'
  BY <1>2, <1>5, TollSets
<1>7. ASSUME NEW b \in Browsers
      PROVE  /\ posts[b].old <= chosen /\ posts[b].new <= chosen
             /\ posts[b].epoch + Cardinality(Renewing) <= moves'
             /\ cookie'[b].password <= chosen /\ cookie'[b].secret <= secret
             /\ cookie'[b].epoch + Cardinality(Renewing) <= moves'
  <2>1. /\ posts[b].old <= chosen /\ posts[b].new <= chosen
        /\ posts[b].epoch + Cardinality(Renewing) <= moves'
    BY <1>4, NumbersOf
  <2>2. CASE cookie'[b] = cookie[b]
    BY <1>4, <2>1, <2>2, NumbersOf
  <2>3. CASE cookie'[b] = NoSession
    <3>1. /\ NoSession.password = 0 /\ NoSession.secret = 0 /\ NoSession.epoch = 0
          /\ Cardinality(Renewing) <= moves
      BY <1>5, TollSets, SignInAssumption DEF NoSession, Bounded
    <3>2. 0 + Cardinality(Renewing) <= moves'
      BY <1>4, <3>1, TollSets
    <3> QED
      BY <1>5, <2>1, <2>3, <3>1, <3>2
  <2> QED
    BY <2>1, <2>2, <2>3
<1> QED
  BY <1>1, <1>4, <1>5, <1>6, <1>7 DEF Bounded, Paid

LEMMA PagesAreBounded ==
    ASSUME Shape, Bounded, fails \in Nat, NEW b \in Browsers,
           \/ Visit(b) \/ StatusServed(b) \/ StatusArrives(b) \/ TurnTo(b) \/ Logout(b)
           \/ Unauthorized(b)
    PROVE  Bounded'
<1>1. UNCHANGED <<password, epoch, secret, posts, chosen, fails>>
  BY DEF Visit, StatusServed, StatusArrives, TurnTo, Logout, Unauthorized, secrets, limiter
<1>2. moves' \in {moves, moves + 1} /\ moves' \in 0 .. MaxMoves
  BY SignInAssumption
     DEF Visit, StatusServed, StatusArrives, TurnTo, Logout, Unauthorized, AMove, Bounded
<1>3. cookie' = cookie \/ cookie' = [cookie EXCEPT ![b] = NoSession]
  BY DEF Visit, StatusServed, StatusArrives, TurnTo, Logout, Unauthorized
<1>4. \A o \in Browsers : cookie'[o] \in {cookie[o], NoSession}
  BY <1>3 DEF Shape
<1> QED
  BY <1>1, <1>2, <1>4, StillBounded

LEMMA AnswersAreBounded ==
    ASSUME Shape, Bounded, fails \in Nat, NEW b \in Browsers,
           LoginAnswered(b) \/ SetupAnswered(b) \/ ChangeAnswered(b)
    PROVE  Bounded'
<1> DEFINE w == Cardinality(Waiting)
           wn == Cardinality(Waiting')
           r == Cardinality(Renewing)
           rn == Cardinality(Renewing')
<1>1. /\ posts' = [posts EXCEPT ![b] = NoPost]
      /\ UNCHANGED <<password, epoch, secret, chosen, moves, fails>>
      /\ cookie' = cookie \/ cookie' = [cookie EXCEPT ![b] = Issued(b)]
  BY DEF LoginAnswered, SetupAnswered, ChangeAnswered, Ends, secrets, limiter
<1>2. /\ NoPost \in PostSet /\ NoPost.old = 0 /\ NoPost.new = 0 /\ NoPost.epoch = 0
      /\ ~Waits(NoPost) /\ ~Renews(NoPost)
  BY DEF NoPost, PostSet, Waits, Renews
<1>3. /\ w \in Nat /\ wn \in Nat /\ r \in Nat /\ rn \in Nat
      /\ wn = w + (IF Waits(NoPost) THEN 1 ELSE 0) - (IF Waits(posts[b]) THEN 1 ELSE 0)
      /\ rn = r + (IF Renews(NoPost) THEN 1 ELSE 0) - (IF Renews(posts[b]) THEN 1 ELSE 0)
  BY <1>1, TollSets, TollsMove
<1>4. /\ posts[b].old \in Nat /\ posts[b].new \in Nat /\ posts[b].epoch \in Nat
      /\ cookie[b] \in SessionSet /\ cookie[b].password \in Nat /\ cookie[b].epoch \in Nat
      /\ posts[b].old <= chosen /\ posts[b].new <= chosen /\ posts[b].epoch + r <= moves
      /\ cookie[b].password <= chosen /\ cookie[b].secret <= secret
      /\ cookie[b].epoch + r <= moves /\ epoch + r <= moves /\ fails + w <= moves
      /\ epoch \in Nat /\ chosen \in Nat /\ moves \in Nat /\ secret \in Nat
      /\ password <= chosen /\ chosen <= moves + 1
  BY NumbersOf
<1>5. PICK c \in {cookie[b], Issued(b)} : cookie' = [cookie EXCEPT ![b] = c]
  <2>1. cookie = [cookie EXCEPT ![b] = cookie[b]]
    BY DEF Shape
  <2> QED
    BY <1>1, <2>1
<1> HIDE DEF w, wn, r, rn
<1>6. c \in SessionSet /\ c.password <= chosen /\ c.secret <= secret /\ c.epoch + r <= moves
      /\ c.epoch \in Nat
  <2>1. CASE c = cookie[b]
    BY <1>4, <2>1
  <2>2. CASE c = Issued(b)
    BY <1>4, <2>2 DEF Issued, SessionSet
  <2> QED
    BY <1>5, <2>1, <2>2
<1>7. wn <= w /\ rn <= r
  BY <1>2, <1>3
<1>8. /\ moves' = moves + 0 /\ moves' \in 0 .. MaxMoves
      /\ chosen' \in Nat /\ chosen' >= chosen /\ chosen' <= moves' + 1 /\ password' <= chosen'
      /\ NoPost.old <= chosen' /\ NoPost.new <= chosen' /\ c.password <= chosen'
  BY <1>1, <1>2, <1>4, <1>6 DEF Bounded
<1>9. /\ epoch' \in Nat /\ epoch' + rn <= moves' /\ NoPost.epoch + rn <= moves'
      /\ c.epoch + rn <= moves' /\ fails' + wn <= moves' /\ rn <= r + 0
  BY <1>1, <1>2, <1>3, <1>4, <1>6, <1>7
<1>10. posts' = [posts EXCEPT ![b] = NoPost] /\ secret' = secret /\ NoPost \in PostSet
  BY <1>1, <1>2
<1> QED
  BY <1>5, <1>6, <1>8, <1>9, <1>10, BrowserStepIsBounded DEF r, rn, wn

LEMMA ResetsAreBounded ==
    ASSUME Shape, Bounded, fails \in Nat, ResetSessions \/ ResetPassword PROVE Bounded'
<1>1. /\ moves' = moves + 1 /\ moves' \in 0 .. MaxMoves /\ moves \in Nat
      /\ UNCHANGED <<chosen, cookie>>
  <2>1. moves < MaxMoves /\ moves' = moves + 1 /\ UNCHANGED <<chosen, cookie>>
    BY DEF ResetSessions, ResetPassword, AMove, browserVars
  <2>2. moves \in 0 .. MaxMoves
    BY DEF Bounded
  <2> QED
    BY <2>1, <2>2, SignInAssumption
<1>2. /\ password \in Nat /\ chosen \in Nat /\ secret \in Nat /\ epoch \in Nat
      /\ password <= chosen /\ chosen <= moves + 1 /\ secret <= moves + 1
      /\ epoch + Cardinality(Renewing) <= moves /\ fails + Cardinality(Waiting) <= moves
  BY DEF Shape, Bounded, Paid
<1>3. CASE ResetSessions
  <2>1. Waiting' = Waiting /\ Renewing' = Renewing
    BY <1>3 DEF ResetSessions, Waiting, Renewing
  <2>2. /\ epoch' = epoch + 1 /\ UNCHANGED <<password, secret, fails, posts>>
    BY <1>3 DEF ResetSessions, limiter
  <2>3. ASSUME NEW b \in Browsers
        PROVE  /\ posts[b].old <= chosen /\ posts[b].new <= chosen
               /\ posts[b].epoch + Cardinality(Renewing) <= moves'
               /\ cookie[b].password <= chosen /\ cookie[b].secret <= secret
               /\ cookie[b].epoch + Cardinality(Renewing) <= moves'
    BY <1>1, NumbersOf, TollSets
  <2>4. /\ epoch' + Cardinality(Renewing) <= moves' /\ fails + Cardinality(Waiting) <= moves'
        /\ chosen <= moves' + 1 /\ secret <= moves' + 1
    BY <1>1, <1>2, <2>2, TollSets
  <2> QED
    BY <1>1, <1>2, <2>1, <2>2, <2>3, <2>4 DEF Bounded, Paid
<1>4. CASE ResetPassword
  <2>1. \A b \in Browsers :
          /\ posts'[b].old = 0 /\ posts'[b].new = 0 /\ posts'[b].epoch = 0
          /\ ~Waits(posts'[b]) /\ ~Renews(posts'[b])
    BY <1>4 DEF ResetPassword, NoPost, Waits, Renews
  <2>2. Waiting' = {} /\ Renewing' = {}
    BY <2>1 DEF Waiting, Renewing, Waits, Renews
  <2>3. Cardinality({}) = 0
    BY FS_EmptySet
  <2>4. /\ password' = 0 /\ (secret' = secret \/ secret' = secret + 1) /\ fails' = 0 /\ epoch' = epoch
    BY <1>4 DEF ResetPassword
  <2>5. ASSUME NEW b \in Browsers
        PROVE  /\ cookie[b].password <= chosen /\ cookie[b].secret <= secret'
               /\ cookie[b].epoch + 0 <= moves'
    <3>1. /\ cookie[b].password <= chosen /\ cookie[b].secret <= secret
          /\ cookie[b].secret \in Nat /\ cookie[b].epoch \in Nat
          /\ cookie[b].epoch + Cardinality(Renewing) <= moves
      BY NumbersOf
    <3> QED
      BY <1>1, <1>2, <2>4, <3>1, TollSets
  <2>6. epoch' + 0 <= moves' /\ fails' + 0 <= moves' /\ chosen <= moves' + 1 /\ secret' <= moves' + 1
    BY <1>1, <1>2, <2>4, TollSets
  <2>7. \A b \in Browsers : /\ posts'[b].old <= chosen' /\ posts'[b].new <= chosen'
                            /\ posts'[b].epoch + 0 <= moves'
    BY <1>1, <1>2, <2>1
  <2> QED
    BY <1>1, <1>2, <2>2, <2>3, <2>4, <2>5, <2>6, <2>7 DEF Bounded, Paid
<1> QED
  BY <1>3, <1>4

LEMMA WindowIsBounded ==
    ASSUME Shape, Bounded, fails \in Nat,
           UNCHANGED <<password, epoch, secret, posts, chosen, fails, moves, cookie>>
    PROVE  Bounded'
BY StillBounded DEF Bounded

\* Nothing that signing in keeps leaves its type, and no number of failures, passwords,
\* keys or epochs gets ahead of what the users and the shell did.
THEOREM SignInTypes == SignInSpec => []SignInTypeOK
<1>1. SignInInit => Counted /\ Bounded
  <2> SUFFICES ASSUME SignInInit PROVE Counted /\ Bounded
    OBVIOUS
  <2>1. \A b \in Browsers : posts[b] = NoPost /\ cookie[b] = NoSession
    BY DEF SignInInit
  <2>2. /\ NoPost.at = "idle" /\ NoPost.old = 0 /\ NoPost.new = 0 /\ NoPost.epoch = 0
        /\ NoSession.password = 0 /\ NoSession.secret = 0 /\ NoSession.epoch = 0
    BY DEF NoPost, NoSession
  <2>3. Waiting = {} /\ Renewing = {} /\ Cardinality({}) = 0
    BY <2>1, <2>2, FS_EmptySet DEF Waiting, Renewing, Waits, Renews
  <2>4. Bounded
    BY <2>1, <2>2, <2>3, SignInAssumption DEF SignInInit, Bounded, Paid
  <2>5. Counted
    BY <2>1, <2>2, FormSets, SignInAssumption DEF SignInInit, Counted
  <2> QED
    BY <2>4, <2>5
<1>2. Grounded /\ Counted /\ Bounded /\ [SignInNext]_signInVars => Bounded'
  <2> SUFFICES ASSUME Grounded, Counted, Bounded, [SignInNext]_signInVars PROVE Bounded'
    OBVIOUS
  <2>0. Shape /\ fails \in Nat
    BY DEF Grounded, Counted
  <2>1. CASE UNCHANGED signInVars
    BY <2>0, <2>1, WindowIsBounded DEF signInVars
  <2>2. CASE SignInUser
    BY <2>0, <2>2, SubmissionsAreBounded, PagesAreBounded, ResetsAreBounded DEF SignInUser
  <2>3. CASE SignInServer
    <3>1. CASE WindowEnds
      BY <2>0, <3>1, WindowIsBounded DEF WindowEnds, secrets, browserVars
    <3> QED
      BY <2>0, <2>3, <3>1, HandlersAreBounded, PagesAreBounded DEF SignInServer
  <2>4. CASE SignInPages
    BY <2>0, <2>4, AnswersAreBounded, PagesAreBounded DEF SignInPages
  <2> QED
    BY <2>1, <2>2, <2>3, <2>4 DEF SignInNext
<1>3. Grounded /\ Counted /\ Bounded => SignInTypeOK
  <2> SUFFICES ASSUME Grounded, Counted, Bounded PROVE SignInTypeOK
    OBVIOUS
  <2>0. Shape /\ fails \in Nat /\ guesses \in Nat
    BY DEF Grounded, Counted
  <2>1. Cardinality(Erring) <= Cardinality(Waiting) /\ Cardinality(Erring) \in Nat
    <3>1. Erring \in SUBSET Waiting
      BY DEF Erring, Waiting, Errs, Waits
    <3> QED
      BY <3>1, TollSets, FormSets, FS_Subset
  <2>2. moves \in Nat /\ moves <= MaxMoves /\ MaxMoves \in Nat
    BY SignInAssumption DEF Bounded
  <2>3. \A n \in Nat : n <= moves + 1 => n \in Numbers
    BY <2>2 DEF Numbers
  <2>4. /\ password \in Numbers /\ chosen \in Numbers /\ secret \in Numbers /\ epoch \in Numbers
        /\ fails \in Numbers /\ guesses \in Numbers
    <3>1. /\ password \in Nat /\ chosen \in Nat /\ secret \in Nat /\ epoch \in Nat
          /\ password <= chosen /\ chosen <= moves + 1 /\ secret <= moves + 1
          /\ epoch + Cardinality(Renewing) <= moves /\ fails + Cardinality(Waiting) <= moves
      BY <2>0 DEF Shape, Bounded, Paid
    <3>2. guesses <= fails + Cardinality(Erring)
      BY DEF Counted
    <3>3. /\ password <= moves + 1 /\ epoch <= moves + 1 /\ fails <= moves + 1
          /\ guesses <= moves + 1
      BY <2>0, <2>1, <2>2, <3>1, <3>2, TollSets
    <3> QED
      BY <2>0, <2>3, <3>1, <3>3
  <2>5. ASSUME NEW b \in Browsers
        PROVE  /\ posts[b].old \in Numbers /\ posts[b].new \in Numbers /\ posts[b].epoch \in Numbers
               /\ cookie[b].password \in Numbers /\ cookie[b].secret \in Numbers
               /\ cookie[b].epoch \in Numbers
    <3>1. /\ posts[b].old \in Nat /\ posts[b].new \in Nat /\ posts[b].epoch \in Nat
          /\ cookie[b].password \in Nat /\ cookie[b].secret \in Nat /\ cookie[b].epoch \in Nat
          /\ posts[b].old <= chosen /\ posts[b].new <= chosen
          /\ posts[b].epoch + Cardinality(Renewing) <= moves
          /\ cookie[b].password <= chosen /\ cookie[b].secret <= secret
          /\ cookie[b].epoch + Cardinality(Renewing) <= moves
          /\ chosen \in Nat /\ secret \in Nat /\ chosen <= moves + 1
      BY <2>0, NumbersOf
    <3>2. secret <= moves + 1
      BY DEF Bounded
    <3>3. /\ posts[b].old <= moves + 1 /\ posts[b].new <= moves + 1 /\ posts[b].epoch <= moves + 1
          /\ cookie[b].password <= moves + 1 /\ cookie[b].secret <= moves + 1
          /\ cookie[b].epoch <= moves + 1
      BY <2>2, <3>1, <3>2, TollSets
    <3> QED
      BY <2>3, <3>1, <3>3
  <2>6. cookie \in [Browsers -> Sessions]
    BY <2>0, <2>5 DEF Shape, SessionSet, Sessions
  <2>7. posts \in [Browsers -> [kind : {"setup", "login", "change"},
                               at : {"idle", "sent", "checked", "right", "wrong", "copied",
                                     "saved", "ok", "denied", "refused"},
                               old : Numbers, new : Numbers, epoch : Numbers]]
    BY <2>0, <2>5 DEF Shape, PostSet
  <2>8. late \in BOOLEAN /\ outlived \in BOOLEAN
    BY <2>0 DEF Shape
  <2>9. lock \in {"none", "on", "over"} /\ moves \in 0 .. MaxMoves
    BY DEF Counted, Bounded
  <2> QED
    BY <2>0, <2>4, <2>6, <2>7, <2>8, <2>9 DEF Shape, SignInTypeOK
<1> QED
  BY <1>1, <1>2, <1>3, CountedAlways, Invariance, PTL DEF SignInSpec, SignInNext
=============================================================================
