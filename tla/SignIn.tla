------------------------------- MODULE SignIn -------------------------------
(***************************************************************************)
(* Signing in to the console from browsers behind one address: the pages   *)
(* that set up, ask for and change the administrator's password, the       *)
(* router that picks one of them, and the handlers behind them with their  *)
(* limiter, which keep no sessions: a cookie is valid as long as its       *)
(* signature and its epoch are.                                            *)
(***************************************************************************)
EXTENDS Naturals, FiniteSets

CONSTANTS
    Browsers,
    MaxAttempts,  \* login_rate_max_attempts
    Lasting,      \* SESSION_SECRET is set: a restart keeps the key
    MaxMoves      \* bound: what the users and the shell do

ASSUME SignInAssumption ==
    /\ IsFiniteSet(Browsers)
    /\ MaxAttempts \in Nat \ {0} /\ Lasting \in BOOLEAN /\ MaxMoves \in Nat

VARIABLES
    password,     \* the number of the password in force, 0 in setup mode
    epoch,        \* SessionEpoch
    secret,       \* the number of the signing key
    fails, lock,  \* the limiter's entry for the address; lock is "none", "on" or "over"
    path,         \* each browser: the page
    known,        \* authStatus: what it knows of `configured`
    asked,        \* the request for that
    cookie,       \* its session
    posts,        \* the form it has sent
    chosen,       \* the last password somebody chose; every one is new
    moves,
    guesses,      \* history: wrong passwords tried since the limiter's last clean slate
    late,         \* history: a browser was told of setup mode when that was over
    outlived      \* history: two passwords or epochs were saved at a time, or a password
                  \* was cleared while the key stays

signInVars == <<password, epoch, secret, fails, lock, path, known, asked, cookie,
                posts, chosen, moves, guesses, late, outlived>>
limiter == <<fails, lock, guesses>>
secrets == <<password, epoch, secret, outlived>>
browserVars == <<path, known, asked, cookie, late>>

Numbers == 0 .. (MaxMoves + 1)
Sessions == [epoch : Numbers, password : Numbers, secret : Numbers]
NoSession == [epoch |-> 0, password |-> 0, secret |-> 0]
NoPost == [kind |-> "login", at |-> "idle", old |-> 0, new |-> 0, epoch |-> 0]

SignInTypeOK ==
    /\ {password, epoch, secret, fails, chosen, guesses} \subseteq Numbers
    /\ moves \in 0 .. MaxMoves
    /\ late \in BOOLEAN /\ outlived \in BOOLEAN
    /\ lock \in {"none", "on", "over"}
    /\ path \in [Browsers -> {"setup", "login", "change", "admin"}]
    /\ known \in [Browsers -> {"unknown", "no", "yes"}]
    /\ asked \in [Browsers -> {"idle", "sent", "no", "yes"}]
    /\ cookie \in [Browsers -> Sessions]
    /\ posts \in [Browsers -> [kind : {"setup", "login", "change"},
                               at : {"idle", "sent", "checked", "right", "wrong", "copied",
                                     "saved", "ok", "denied", "refused"},
                               old : Numbers, new : Numbers, epoch : Numbers]]

SignInInit ==
    /\ password \in {0, 1} /\ chosen = 1
    /\ epoch = 0 /\ secret = 1
    /\ fails = 0 /\ lock = "none" /\ guesses = 0
    \* Everybody has loaded the console and been sent where the router sends them.
    /\ path = [b \in Browsers |-> IF password = 0 THEN "setup" ELSE "login"]
    /\ known = [b \in Browsers |-> IF password = 0 THEN "no" ELSE "yes"]
    /\ asked = [b \in Browsers |-> "idle"]
    /\ cookie = [b \in Browsers |-> NoSession]
    /\ posts = [b \in Browsers |-> NoPost]
    /\ moves = 0 /\ late = FALSE /\ outlived = FALSE

AMove == moves < MaxMoves /\ moves' = moves + 1
Goes(b, stage) == posts' = [posts EXCEPT ![b].at = stage]
Stands(b, stage) == posts[b].at = stage
Ends(b) == posts' = [posts EXCEPT ![b] = NoPost]

-----------------------------------------------------------------------------
(* The router.                                                             *)

\* The guards of the console's routes, in a browser.
Routed(page, configured) ==
    CASE configured = "no" -> "setup"
      [] configured = "yes" /\ page = "setup" -> "login"
      [] OTHER -> page

Shows(b, page) == path' = [path EXCEPT ![b] = Routed(page, known[b])]

\* A page load forgets what was known and asks again.
Reload(b, page) ==
    /\ path' = [path EXCEPT ![b] = page]
    /\ known' = [known EXCEPT ![b] = "unknown"]
    /\ asked' = [asked EXCEPT ![b] = "sent"]

\* Bound: the user loads the page at hand, and not while a form is under way.
Visit(b) ==
    /\ AMove /\ Stands(b, "idle")
    /\ Reload(b, path[b])
    /\ UNCHANGED <<secrets, limiter, cookie, posts, chosen, late>>

StatusServed(b) ==
    /\ asked[b] = "sent"
    /\ asked' = [asked EXCEPT ![b] = IF password = 0 THEN "no" ELSE "yes"]
    /\ UNCHANGED <<secrets, limiter, path, known, cookie, posts, chosen, moves, late>>

StatusArrives(b) ==
    /\ asked[b] \in {"no", "yes"}
    /\ known' = [known EXCEPT ![b] = asked[b]]
    /\ path' = [path EXCEPT ![b] = Routed(path[b], asked[b])]
    /\ asked' = [asked EXCEPT ![b] = "idle"]
    /\ late' = (late \/ (asked[b] = "no" /\ password # 0))
    /\ UNCHANGED <<secrets, limiter, cookie, posts, chosen, moves>>

-----------------------------------------------------------------------------
(* The pages.                                                              *)

Post(b, kind, old, new) ==
    /\ Stands(b, "idle")
    /\ posts' = [posts EXCEPT ![b] =
                   [kind |-> kind, at |-> "sent", old |-> old, new |-> new, epoch |-> 0]]
    /\ UNCHANGED <<secrets, limiter, browserVars>>

\* The right password of this moment, or a wrong one.
SubmitLogin(b) ==
    /\ AMove /\ path[b] = "login"
    /\ \E old \in {0, password} : Post(b, "login", old, 0)
    /\ UNCHANGED chosen

SubmitSetup(b) ==
    /\ AMove /\ path[b] = "setup"
    /\ chosen' = chosen + 1
    /\ Post(b, "setup", 0, chosen')

SubmitChange(b) ==
    /\ AMove /\ path[b] = "change"
    /\ chosen' = chosen + 1
    /\ \E old \in {0, password} : Post(b, "change", old, chosen')

\* The settings page leads to the change page, and its back button out again.
TurnTo(b) ==
    /\ AMove /\ path[b] \in {"admin", "change"}
    /\ Shows(b, IF path[b] = "admin" THEN "change" ELSE "admin")
    /\ UNCHANGED <<secrets, limiter, known, asked, cookie, posts, chosen, late>>

\* The cookie goes when the request succeeds; the page goes in any case.
Logout(b) ==
    /\ AMove /\ path[b] = "admin"
    /\ cookie' \in {cookie, [cookie EXCEPT ![b] = NoSession]}
    /\ Shows(b, "login")
    /\ UNCHANGED <<secrets, limiter, known, asked, posts, chosen, late>>

-----------------------------------------------------------------------------
(* The server.                                                             *)

\* validSession: no password, no session.
Accepted(session) ==
    password # 0 /\ session.secret = secret /\ session.epoch = epoch

\* locked: the first look after the window is over leaves a clean slate.
Locked == lock = "on"
Unlock ==
    IF lock = "over" THEN lock' = "none" /\ fails' = 0 /\ guesses' = 0
    ELSE UNCHANGED limiter

\* What a handler refuses at once: 401 without a session, and everything else.
Denies(b) == posts[b].kind = "change" /\ password # 0 /\ ~Accepted(cookie[b])
Refuses(b) ==
    IF posts[b].kind = "setup" THEN password # 0 ELSE password = 0 \/ Locked

Check(b) ==
    /\ Stands(b, "sent")
    /\ posts' = [posts EXCEPT ![b].epoch = epoch,
                              ![b].at = IF Denies(b) THEN "denied"
                                        ELSE IF Refuses(b) THEN "refused" ELSE "checked"]
    /\ IF posts[b].kind = "setup" \/ password = 0 \/ Denies(b) THEN UNCHANGED limiter ELSE Unlock
    /\ UNCHANGED <<secrets, browserVars, chosen, moves>>

\* The password is compared with the one in force by then; a setup is compared with
\* the code, and any new password may be too weak.
Verify(b) ==
    /\ Stands(b, "checked")
    /\ IF posts[b].kind # "setup" /\ posts[b].old # password
         THEN Goes(b, "wrong") /\ guesses' = guesses + 1
         ELSE /\ \/ Goes(b, "right")
                 \/ posts[b].kind # "login" /\ Goes(b, "refused")
              /\ UNCHANGED guesses
    /\ UNCHANGED <<secrets, fails, lock, browserVars, chosen, moves>>

\* Mutant: one failure more before the lock.
RecordFailureAfter(b) ==
    /\ Stands(b, "wrong") /\ Goes(b, "denied")
    /\ fails' = fails + 1
    /\ lock' = IF fails + 1 > MaxAttempts THEN "on" ELSE lock
    /\ UNCHANGED <<secrets, guesses, browserVars, chosen, moves>>

RecordFailure(b) ==
    /\ Stands(b, "wrong") /\ Goes(b, "denied")
    /\ fails' = fails + 1
    /\ lock' = IF fails + 1 >= MaxAttempts THEN "on" ELSE lock
    /\ UNCHANGED <<secrets, guesses, browserVars, chosen, moves>>

\* Mutant: the session gets the epoch of now, not that of before the password was checked.
LogInLate(b) ==
    /\ posts[b].kind = "login" /\ Stands(b, "right")
    /\ fails' = 0 /\ lock' = "none" /\ guesses' = 0
    /\ posts' = [posts EXCEPT ![b].at = "ok", ![b].epoch = epoch]
    /\ UNCHANGED <<secrets, browserVars, chosen, moves>>

\* clear, then issueToken with the epoch copied first.
LogIn(b) ==
    /\ posts[b].kind = "login" /\ Stands(b, "right") /\ Goes(b, "ok")
    /\ fails' = 0 /\ lock' = "none" /\ guesses' = 0
    /\ UNCHANGED <<secrets, browserVars, chosen, moves>>

\* Setup and change copy the configuration, change the copy and save it.
CopyConfig(b) ==
    /\ posts[b].kind # "login" /\ Stands(b, "right")
    /\ posts' = [posts EXCEPT ![b].at = "copied", ![b].epoch = epoch]
    /\ UNCHANGED <<secrets, limiter, browserVars, chosen, moves>>

Writing(b) == posts[b].kind # "login" /\ posts[b].at \in {"checked", "right", "copied", "saved"}

SaveConfig(b) ==
    /\ Stands(b, "copied")
    /\ \/ /\ password' = posts[b].new
          /\ epoch' = IF posts[b].kind = "change" THEN posts[b].epoch + 1 ELSE posts[b].epoch
          /\ outlived' = (outlived \/ \E o \in Browsers \ {b} : Writing(o))
          /\ Goes(b, IF posts[b].kind = "setup" THEN "saved" ELSE "ok")
       \/ Goes(b, "refused") /\ UNCHANGED <<password, epoch, outlived>>
    /\ UNCHANGED <<secret, limiter, browserVars, chosen, moves>>

\* A setup signs its browser in at once.
IssueSetup(b) ==
    /\ Stands(b, "saved")
    /\ posts' = [posts EXCEPT ![b].at = "ok", ![b].epoch = epoch]
    /\ UNCHANGED <<secrets, limiter, browserVars, chosen, moves>>

\* Time passes.
WindowEnds ==
    /\ lock = "on" /\ lock' = "over"
    /\ UNCHANGED <<secrets, fails, guesses, browserVars, posts, chosen, moves>>

\* `gourl reset sessions`.
ResetSessions ==
    /\ AMove /\ epoch < MaxMoves
    /\ epoch' = epoch + 1
    /\ outlived' = (outlived \/ \E b \in Browsers : Writing(b))
    /\ UNCHANGED <<password, secret, limiter, browserVars, posts, chosen>>

\* `gourl reset password` clears it and restarts the server; requests under way fail.
ResetPassword ==
    /\ AMove
    /\ password' = 0
    /\ secret' = IF Lasting THEN secret ELSE secret + 1
    /\ fails' = 0 /\ lock' = "none" /\ guesses' = 0
    /\ posts' = [b \in Browsers |->
                   IF Stands(b, "idle") THEN NoPost ELSE [NoPost EXCEPT !.kind = posts[b].kind,
                                                                       !.at = "refused"]]
    /\ outlived' = (outlived \/ Lasting)
    /\ UNCHANGED <<epoch, browserVars, chosen>>

-----------------------------------------------------------------------------
(* The answers.                                                            *)

Issued(b) ==
    [epoch |-> posts[b].epoch, secret |-> secret,
     password |-> IF posts[b].kind = "setup" THEN posts[b].new ELSE posts[b].old]

LoginAnswered(b) ==
    /\ posts[b].kind = "login" /\ posts[b].at \in {"ok", "denied", "refused"} /\ Ends(b)
    /\ IF Stands(b, "ok")
         THEN cookie' = [cookie EXCEPT ![b] = Issued(b)] /\ Shows(b, "admin")
         ELSE UNCHANGED <<cookie, path>>
    /\ UNCHANGED <<secrets, limiter, known, asked, chosen, moves, late>>

\* Mutant: the query cache keeps what it knew.
SetupAnsweredUncached(b) ==
    /\ posts[b].kind = "setup" /\ posts[b].at \in {"ok", "refused"} /\ Ends(b)
    /\ IF Stands(b, "ok")
         THEN cookie' = [cookie EXCEPT ![b] = Issued(b)] /\ Shows(b, "admin")
         ELSE UNCHANGED <<cookie, path>>
    /\ UNCHANGED <<secrets, limiter, known, asked, chosen, moves, late>>

\* The router's query cache is corrected before the page moves on.
SetupAnswered(b) ==
    /\ posts[b].kind = "setup" /\ posts[b].at \in {"ok", "refused"} /\ Ends(b)
    /\ IF Stands(b, "ok")
         THEN /\ cookie' = [cookie EXCEPT ![b] = Issued(b)]
              /\ known' = [known EXCEPT ![b] = "yes"]
              /\ path' = [path EXCEPT ![b] = "admin"]
         ELSE UNCHANGED <<cookie, known, path>>
    /\ UNCHANGED <<secrets, limiter, asked, chosen, moves, late>>

\* A 401 is a page load, also when the session is valid and only the password was wrong.
ChangeAnswered(b) ==
    /\ posts[b].kind = "change" /\ posts[b].at \in {"ok", "denied", "refused"} /\ Ends(b)
    /\ CASE Stands(b, "ok") -> Shows(b, "login") /\ UNCHANGED <<known, asked>>
         [] Stands(b, "denied") /\ path[b] # "login" -> Reload(b, "login")
         [] OTHER -> UNCHANGED <<path, known, asked>>
    /\ UNCHANGED <<secrets, limiter, cookie, chosen, moves, late>>

\* The same for any other request of a page whose session is not accepted.
Unauthorized(b) ==
    /\ Stands(b, "idle") /\ path[b] # "login"
    /\ password # 0 /\ ~Accepted(cookie[b])
    /\ Reload(b, "login")
    /\ UNCHANGED <<secrets, limiter, cookie, posts, chosen, moves, late>>

-----------------------------------------------------------------------------
SignInUser ==
    \/ \E b \in Browsers :
         SubmitLogin(b) \/ SubmitSetup(b) \/ SubmitChange(b) \/ Visit(b) \/ TurnTo(b) \/ Logout(b)
    \/ ResetSessions \/ ResetPassword

SignInServer ==
    \/ \E b \in Browsers :
         \/ StatusServed(b) \/ Check(b) \/ Verify(b) \/ RecordFailure(b) \/ LogIn(b)
         \/ CopyConfig(b) \/ SaveConfig(b) \/ IssueSetup(b)
    \/ WindowEnds

SignInPages ==
    \E b \in Browsers :
        \/ StatusArrives(b) \/ LoginAnswered(b) \/ SetupAnswered(b) \/ ChangeAnswered(b)
        \/ Unauthorized(b)

SignInSpec == SignInInit /\ [][SignInUser \/ SignInServer \/ SignInPages]_signInVars

(***************************************************************************)
(* Properties                                                              *)
(***************************************************************************)
\* A session that the server accepts was opened with the password in force: changing
\* the password (admin.go's changePassword) shuts out whoever signed in with the old
\* one, even while the change was made, unless two changes of password or epoch
\* overlap, or the password is cleared while the signing key stays.
SessionsProvePassword ==
    outlived \/ \A b \in Browsers : Accepted(cookie[b]) => cookie[b].password = password

\* The lock-out test and the recording of a failure are separate critical sections of
\* the limiter: an address tries at most the allowed number of wrong passwords, and
\* one more for each other request that was let in at the same time.
LockoutHolds == guesses < MaxAttempts + Cardinality(Browsers)

\* A browser that is signed in is not kept on the setup page by what the router knew
\* before the setup (Setup.tsx corrects the cached answer, which is not asked for again
\* as long as the page and the connection last), unless an answer of that time arrives
\* late or an old session outlives its password.
SetupIsOver ==
    late \/ outlived \/ \A b \in Browsers : ~(known[b] = "no" /\ Accepted(cookie[b]))
=============================================================================
