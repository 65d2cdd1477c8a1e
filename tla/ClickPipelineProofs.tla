------------------------- MODULE ClickPipelineProofs -------------------------
(***************************************************************************)
(* What holds of the click pipeline for any visitors, codes, dates and     *)
(* bounds.  Accounts is inductive: types and conservation need each other, *)
(* since a reset subtracts what Redis holds from what was counted.  Each   *)
(* later invariant adds the supporting conjuncts it needs to Accounts.     *)
(***************************************************************************)
EXTENDS ClickPipeline, Sums

Accounts == TypeOK /\ Conservation

LEMMA KeysAreKeys ==
    ASSUME NEW c \in Codes
    PROVE  /\ TotalKey(c) \in Keys
           /\ \A d \in Dates : DailyKey(c, d) \in Keys
           /\ \A p \in Periods : <<c, p>> \in Keys
BY DEF TotalKey, DailyKey, Keys, Periods

LEMMA ZeroType ==
    /\ Zero \in [Keys -> 0..2]
    /\ Zero \in [Keys -> Nat]
    /\ \A k \in Keys : Zero[k] = 0
BY DEF Zero

LEMMA DueType ==
    ASSUME TypeOK, NEW i, NEW p \in Periods
    PROVE  Due(i, p) \in Nat
<1>1. CASE \E c \in Codes : live[c] = i
  <2>1. (CHOOSE c \in Codes : live[c] = i) \in Codes
    BY <1>1
  <2> QED
    BY <2>1, KeysAreKeys, <1>1 DEF Due, TypeOK
<1>2. CASE ~ \E c \in Codes : live[c] = i
  BY <1>2 DEF Due
<1> QED
  BY <1>1, <1>2

LEMMA AccountsInit == Init => Accounts
<1> SUFFICES ASSUME Init
             PROVE  TypeOK /\ Conservation
  BY DEF Accounts
<1>1. TypeOK
  <2>1. clicks \in [Ids -> Nat] /\ daily \in [Ids \X Dates -> Nat]
    BY DEF Init
  <2>2. live \in [Codes -> Ids \cup {NoLink}] /\ visitor \in [Visitors -> {Idle} \cup Requests]
    BY DEF Init
  <2>3. /\ created \in 0..MaxLinks /\ visits \in 0..MaxVisits
        /\ faults \in Nat /\ hiccups \in Nat /\ dbFailures \in Nat
        /\ faults + hiccups + dbFailures <= MaxTrouble
    BY BoundsAssumption DEF Init
  <2>4. churned \subseteq Codes /\ visited \subseteq Ids /\ nilReply \in BOOLEAN
    BY DEF Init
  <2> QED
    BY <2>1, <2>2, <2>3, <2>4, ZeroType DEF Init, TypeOK
<1>2. Conservation
  BY ZeroType DEF Init, Conservation, Pending
<1> QED
  BY <1>1, <1>2

LEMMA AccountsLinkSteps ==
    ASSUME Accounts, NEW c \in Codes,
           \/ CreateLink(c) \/ DeleteLink(c)
           \/ \E new \in Codes : RenameLink(c, new)
    PROVE  Accounts'
<1> USE BoundsAssumption DEF Accounts, TypeOK, Conservation, Pending, redisVars, clickVars, flushVars,
        ledgerVars, visitVars, budgetVars, Ids, NoLink
<1>1. CASE CreateLink(c)
  BY <1>1 DEF CreateLink
<1>2. CASE DeleteLink(c)
  BY <1>2 DEF DeleteLink
<1>3. CASE \E new \in Codes : RenameLink(c, new)
  BY <1>3 DEF RenameLink
<1> QED
  BY <1>1, <1>2, <1>3

LEMMA AccountsVisitSteps ==
    ASSUME Accounts, NEW v \in Visitors,
           \/ \E c \in Codes, d \in Dates : Lookup(v, c, d)
           \/ IncrTotal(v) \/ IncrDaily(v) \/ IncrBreaks(v) \/ IncrUnheard(v)
    PROVE  Accounts'
<1> USE BoundsAssumption DEF Accounts, TypeOK, Conservation, Pending, redisVars, linkVars,
        clickVars, flushVars, ledgerVars, budgetVars, Send
<1>1. CASE \E c \in Codes, d \in Dates : Lookup(v, c, d)
  <2> PICK c \in Codes, d \in Dates : Lookup(v, c, d)
    BY <1>1
  <2>1. live[c] \in Ids
    BY DEF Lookup
  <2>2. [pc |-> "found", code |-> c, date |-> d, id |-> live[c]] \in Requests
    BY <2>1 DEF Requests
  <2> QED
    BY <2>2 DEF Lookup
<1>2. CASE IncrTotal(v)
  <2>1. visitor[v] \in Requests
    BY <1>2 DEF IncrTotal, Idle
  <2>2. visitor[v].code \in Codes /\ visitor[v].id \in Ids
    BY <2>1 DEF Requests
  <2>3. [visitor[v] EXCEPT !.pc = "half"] \in Requests
    BY <2>1 DEF Requests
  <2>4. TotalKey(visitor[v].code) \in Keys
    BY <2>2, KeysAreKeys
  <2> QED
    BY <1>2, <2>2, <2>3, <2>4 DEF IncrTotal, Incr
<1>3. CASE IncrDaily(v)
  <2>1. visitor[v] \in Requests
    BY <1>3 DEF IncrDaily, Idle
  <2>2. DailyKey(visitor[v].code, visitor[v].date) \in Keys
    BY <2>1, KeysAreKeys DEF Requests
  <2> QED
    BY <1>3, <2>2 DEF IncrDaily, Incr
<1>4. CASE IncrBreaks(v)
  <2>1. visitor[v] \in Requests
    BY <1>4 DEF IncrBreaks, Idle
  <2>2. [visitor[v] EXCEPT !.pc = "found"] \in Requests
    BY <2>1 DEF Requests
  <2>3. visits' \in 0..MaxVisits
    BY <1>4 DEF IncrBreaks
  <2>4. visitor' \in [Visitors -> {Idle} \cup Requests]
    BY <1>4, <2>2 DEF IncrBreaks
  <2> QED
    BY <1>4, <2>3, <2>4 DEF IncrBreaks, Fault, Trouble
<1>5. CASE IncrUnheard(v)
  <2>1. visitor[v] \in Requests
    BY <1>5 DEF IncrUnheard, Idle
  <2>2. [visitor[v] EXCEPT !.pc = "found"] \in Requests
    BY <2>1 DEF Requests
  <2>3. DailyKey(visitor[v].code, visitor[v].date) \in Keys
    BY <2>1, KeysAreKeys DEF Requests
  <2> QED
    BY <1>5, <2>2, <2>3 DEF IncrUnheard, Incr, Fault, Trouble
<1> QED
  BY <1>1, <1>2, <1>3, <1>4, <1>5

\* What an aborted take does to the books: held moves to lost.
DropTakenResult ==
    /\ todo' \in [Keys -> 0..2]
    /\ held' \in [Keys -> Nat]
    /\ lost' \in [Keys -> Nat]
    /\ flush' = "idle" /\ nilReply' \in BOOLEAN
    /\ counted' = counted /\ settled' = settled
    /\ \A k \in Keys : counted'[k] = Pending(k)' + settled'[k] + lost'[k]

LEMMA DropTakenKeepsAccounts ==
    ASSUME Accounts, DropTaken, UNCHANGED buf
    PROVE  DropTakenResult
<1>1. \A k \in Keys : held'[k] = 0 /\ lost'[k] = lost[k] + held[k]
  BY ZeroType DEF DropTaken
<1>2. \A k \in Keys : /\ buf[k] \in Nat /\ held[k] \in Nat /\ lost[k] \in Nat
                      /\ settled[k] \in Nat
  BY DEF Accounts, TypeOK
<1>3. \A k \in Keys : counted'[k] = Pending(k)' + settled'[k] + lost'[k]
  BY <1>1, <1>2 DEF Accounts, Conservation, Pending, DropTaken
<1>4. todo' \in [Keys -> 0..2] /\ held' \in [Keys -> Nat]
  BY ZeroType DEF DropTaken
<1>5. lost' \in [Keys -> Nat]
  BY <1>2 DEF DropTaken
<1> QED
  BY <1>3, <1>4, <1>5 DEF DropTaken, DropTakenResult

LEMMA AccountsFlushSteps ==
    ASSUME Accounts,
           \/ Scan \/ TakeFindsNil \/ TakeDone \/ Apply \/ ApplyFails \/ ReturnDone
           \/ \E k \in Keys : TakeKey(k) \/ ReturnKey(k)
    PROVE  Accounts'
<1> USE BoundsAssumption, ZeroType DEF Accounts, TypeOK, Conservation, Pending, redisVars, linkVars,
        clickVars, ledgerVars, visitVars, budgetVars
<1>1. CASE Scan
  <2>1. todo' \in [Keys -> 0..2]
    BY <1>1 DEF Scan
  <2>2. /\ faults' \in Nat /\ hiccups' \in Nat /\ dbFailures' \in Nat
        /\ faults' + hiccups' + dbFailures' <= MaxTrouble
    BY <1>1 DEF Scan, Hiccup, Trouble
  <2> QED
    BY <1>1, <2>1, <2>2 DEF Scan
<1>2. CASE \E k \in Keys : TakeKey(k)
  <2> PICK k \in Keys : TakeKey(k)
    BY <1>2
  <2>1. todo[k] - 1 \in 0..2
    BY DEF TakeKey
  <2>2. todo' \in [Keys -> 0..2] /\ buf' \in [Keys -> Nat]
    BY <2>1 DEF TakeKey
  <2>3. CASE buf[k] = 0
    BY <2>2, <2>3 DEF TakeKey
  <2>4. CASE buf[k] # 0
    BY <2>2, <2>4 DEF TakeKey
  <2> QED
    BY <2>3, <2>4
<1>3. CASE TakeFindsNil
  <2>1. DropTaken /\ UNCHANGED buf
    BY <1>3 DEF TakeFindsNil
  <2>2. DropTakenResult
    BY <2>1, DropTakenKeepsAccounts
  <2> QED
    BY <1>3, <2>2 DEF TakeFindsNil, DropTakenResult
<1>4. CASE TakeDone
  BY <1>4 DEF TakeDone
<1>5. CASE Apply
  <2>1. \A i \in Ids : Due(i, "total") \in Nat
    BY DueType DEF Periods
  <2>2. \A r \in Ids \X Dates : Due(r[1], r[2]) \in Nat
    BY DueType DEF Periods
  <2> QED
    BY <1>5, <2>1, <2>2 DEF Apply
<1>6. CASE ApplyFails
  BY <1>6 DEF ApplyFails, Trouble
<1>7. CASE \E k \in Keys : ReturnKey(k)
  BY <1>7 DEF ReturnKey
<1>8. CASE ReturnDone
  BY <1>8 DEF ReturnDone
<1> QED
  BY <1>1, <1>2, <1>3, <1>4, <1>5, <1>6, <1>7, <1>8

LEMMA AccountsTroubleSteps ==
    ASSUME Accounts,
           \/ TakeBreaks \/ FlushAll \/ Crash
           \/ \E k \in Keys : ReturnBreaks(k)
    PROVE  Accounts'
<1> USE BoundsAssumption, ZeroType DEF Accounts, TypeOK, Conservation, Pending, redisVars, linkVars,
        clickVars, ledgerVars, visitVars, flushVars
<1>1. CASE TakeBreaks
  <2>1. DropTaken /\ UNCHANGED buf
    BY <1>1 DEF TakeBreaks
  <2>2. DropTakenResult
    BY <2>1, DropTakenKeepsAccounts
  <2> QED
    BY <1>1, <2>2 DEF TakeBreaks, DropTakenResult, Fault, Trouble
<1>2. CASE \E k \in Keys : ReturnBreaks(k)
  BY <1>2 DEF ReturnBreaks, Fault, Trouble
<1>3. CASE FlushAll
  BY <1>3 DEF FlushAll, Hiccup, Trouble
<1>4. CASE Crash
  <2>1. DropTaken /\ UNCHANGED buf
    BY <1>4 DEF Crash
  <2>2. DropTakenResult
    BY <2>1, DropTakenKeepsAccounts
  <2> QED
    BY <1>4, <2>2 DEF Crash, DropTakenResult, Fault, Trouble
<1> QED
  BY <1>1, <1>2, <1>3, <1>4

LEMMA AccountsNext == Accounts /\ [Next]_vars => Accounts'
<1> SUFFICES ASSUME Accounts, [Next]_vars
             PROVE  Accounts'
  OBVIOUS
<1>1. CASE Next
  BY <1>1, AccountsLinkSteps, AccountsVisitSteps, AccountsFlushSteps, AccountsTroubleSteps
     DEF Next, LinkNext, VisitNext, FlushOnce, Redirect
<1>2. CASE UNCHANGED vars
  BY <1>2 DEF vars, Accounts, TypeOK, Conservation, Pending, redisVars, linkVars, clickVars,
     ledgerVars, visitVars, flushVars, budgetVars
<1> QED
  BY <1>1, <1>2

\* Every variable of the pipeline stays in its type.
THEOREM TypeCorrect == Spec => []TypeOK
<1>1. Accounts => TypeOK
  BY DEF Accounts
<1> QED
  BY <1>1, AccountsInit, AccountsNext, PTL DEF Spec

\* Whatever interleaves, fails or is reset, an increment Redis executed is in exactly one of
\* Redis, the flusher, SQLite and the lost (redirect.go, flush.go, counts.go).
THEOREM CountsAreConserved == Spec => []Conservation
<1>1. Accounts => Conservation
  BY DEF Accounts
<1> QED
  BY <1>1, AccountsInit, AccountsNext, PTL DEF Spec

-----------------------------------------------------------------------------
(* A failed transaction loses nothing.                                     *)

CleanFlush == IdleHoldsNothing /\ CleanTake /\ NothingLostByDbFailure

LEMMA CleanFlushInit == Init => CleanFlush
BY ZeroType DEF Init, CleanFlush, IdleHoldsNothing, CleanTake, NothingLostByDbFailure

LEMMA CleanFlushNext == Accounts /\ CleanFlush /\ [Next]_vars => CleanFlush'
<1> SUFFICES ASSUME Accounts, CleanFlush, [Next]_vars
             PROVE  CleanFlush'
  OBVIOUS
<1> USE ZeroType DEF Accounts, TypeOK, CleanFlush, IdleHoldsNothing, CleanTake,
        NothingLostByDbFailure, redisVars, linkVars, clickVars, flushVars, ledgerVars, visitVars,
        budgetVars
<1>1. ASSUME NEW c \in Codes,
             \/ CreateLink(c) \/ DeleteLink(c)
             \/ \E new \in Codes : RenameLink(c, new)
      PROVE  CleanFlush'
  BY <1>1 DEF CreateLink, DeleteLink, RenameLink
<1>2. ASSUME NEW v \in Visitors, NEW c \in Codes, NEW d \in Dates, Lookup(v, c, d)
      PROVE  CleanFlush'
  BY <1>2 DEF Lookup
<1>3. ASSUME NEW v \in Visitors, IncrTotal(v) \/ IncrDaily(v)
      PROVE  CleanFlush'
  <2>1. PICK key : Incr(key)
    BY <1>3 DEF IncrTotal, IncrDaily
  <2>2. \A k \in Keys : buf'[k] >= buf[k]
    BY <2>1 DEF Incr
  <2>3. UNCHANGED budgetVars
    BY <1>3 DEF IncrTotal, IncrDaily
  <2> QED
    BY <2>1, <2>2, <2>3 DEF Incr
<1>4. ASSUME NEW v \in Visitors, IncrBreaks(v) \/ IncrUnheard(v)
      PROVE  CleanFlush'
  <2>1. faults' = faults + 1 /\ UNCHANGED <<flush, held, lost>>
    BY <1>4 DEF IncrBreaks, IncrUnheard, Incr, Fault
  <2> QED
    BY <2>1
<1>5. CASE Scan
  <2>1. \A k \in Keys : held[k] = 0
    BY <1>5 DEF Scan
  <2> QED
    BY <1>5, <2>1 DEF Scan, Hiccup
<1>6. ASSUME NEW k \in Keys, TakeKey(k)
      PROVE  CleanFlush'
  BY <1>6 DEF TakeKey
<1>7. CASE TakeFindsNil
  BY <1>7 DEF TakeFindsNil, DropTaken
<1>8. CASE TakeBreaks \/ Crash
  BY <1>8 DEF TakeBreaks, Crash, Fault, DropTaken
<1>9. CASE TakeDone \/ Apply \/ ApplyFails \/ ReturnDone
  BY <1>9 DEF TakeDone, Apply, ApplyFails, ReturnDone
<1>10. ASSUME NEW k \in Keys, ReturnKey(k)
       PROVE  CleanFlush'
  BY <1>10 DEF ReturnKey
<1>11. ASSUME NEW k \in Keys, ReturnBreaks(k)
       PROVE  CleanFlush'
  BY <1>11 DEF ReturnBreaks, Fault
<1>12. CASE FlushAll
  BY <1>12 DEF FlushAll, Hiccup
<1>13. CASE UNCHANGED vars
  BY <1>13 DEF vars
<1> QED
  BY <1>1, <1>2, <1>3, <1>4, <1>5, <1>6, <1>7, <1>8, <1>9, <1>10, <1>11, <1>12, <1>13
     DEF Next, LinkNext, VisitNext, FlushOnce, Redirect

\* With Redis up and no reset, a flush loses no count, whatever fails in SQLite.
THEOREM DbFailuresLoseNothing == Spec => []NothingLostByDbFailure
<1>1. CleanFlush => NothingLostByDbFailure
  BY DEF CleanFlush
<1> QED
  BY <1>1, AccountsInit, AccountsNext, CleanFlushInit, CleanFlushNext, PTL DEF Spec

-----------------------------------------------------------------------------
(* A link that kept its code is credited what the flusher processed.       *)

Rows == OneCodePerLink /\ FreshRowsAreZero /\ UnusedCodesAreClean /\ CreditMatchesSettled

LEMMA RowsInit == Init => Rows
BY ZeroType, KeysAreKeys
   DEF Init, Rows, OneCodePerLink, FreshRowsAreZero, UnusedCodesAreClean, CreditMatchesSettled,
       NoLink, Ids

\* What Apply adds to the row of a live code, and to a row no code bears.
LEMMA DueOfLive ==
    ASSUME TypeOK, OneCodePerLink, NEW c \in Codes, live[c] # NoLink, NEW p
    PROVE  Due(live[c], p) = held[<<c, p>>]
<1> DEFINE bearer == CHOOSE other \in Codes : live[other] = live[c]
<1>1. bearer \in Codes /\ live[bearer] = live[c]
  OBVIOUS
<1>2. bearer = c
  BY <1>1 DEF OneCodePerLink
<1> QED
  BY <1>2 DEF Due

LEMMA DueOfFresh ==
    ASSUME TypeOK, OneCodePerLink, NEW i \in Ids, i > created, NEW p
    PROVE  Due(i, p) = 0
<1>1. \A c \in Codes : live[c] # i
  BY DEF OneCodePerLink, TypeOK, Ids, NoLink
<1> QED
  BY <1>1 DEF Due

LEMMA FourNaturals ==
    \A b, h, s, l \in Nat : b + h + s + l = 0 => b = 0 /\ h = 0 /\ s = 0
OBVIOUS

\* A code that never had a link is in no book.
LEMMA UnusedIsEmpty ==
    ASSUME Accounts, UnusedCodesAreClean, NEW c \in Codes \ churned, live[c] = NoLink,
           NEW p \in Periods
    PROVE  /\ counted[<<c, p>>] = 0 /\ settled[<<c, p>>] = 0
           /\ buf[<<c, p>>] = 0 /\ held[<<c, p>>] = 0
<1>1. <<c, p>> \in Keys
  BY KeysAreKeys
<1>2. counted[<<c, p>>] = 0
  BY DEF UnusedCodesAreClean
<1>3. ASSUME NEW k \in Keys, counted[k] = 0
      PROVE  settled[k] = 0 /\ buf[k] = 0 /\ held[k] = 0
  <2>1. buf[k] \in Nat /\ held[k] \in Nat /\ settled[k] \in Nat /\ lost[k] \in Nat
    BY DEF Accounts, TypeOK
  <2>2. counted[k] = buf[k] + held[k] + settled[k] + lost[k]
    BY DEF Accounts, Conservation, Pending
  <2> QED
    BY ONLY <1>3, <2>1, <2>2, FourNaturals
<1> QED
  BY <1>1, <1>2, <1>3

LEMMA RowsLinkSteps ==
    ASSUME Accounts, Rows, NEW c \in Codes,
           \/ CreateLink(c) \/ DeleteLink(c)
           \/ \E new \in Codes \ {c} : RenameLink(c, new)
    PROVE  Rows'
<1> USE DEF redisVars, clickVars, ledgerVars, visitVars
<1>1. TypeOK
  BY DEF Accounts
<1>2. CASE CreateLink(c)
  <2>0. /\ \A other \in Codes : live'[other] = IF other = c THEN created + 1 ELSE live[other]
        /\ \A other \in Codes : live[other] \in Nat /\ live[other] <= created
        /\ created' = created + 1 /\ created \in Nat
    BY <1>1, <1>2 DEF CreateLink, Rows, OneCodePerLink, TypeOK, Ids, NoLink
  <2>1. OneCodePerLink'
    BY <2>0 DEF Rows, OneCodePerLink
  <2>2. FreshRowsAreZero' /\ UnusedCodesAreClean'
    BY <1>1, <1>2 DEF CreateLink, Rows, FreshRowsAreZero, UnusedCodesAreClean, TypeOK, Ids, NoLink
  <2>3. created + 1 \in Ids /\ created + 1 > created
    BY <1>1, <1>2, BoundsAssumption DEF CreateLink, TypeOK, Ids
  <2>4. clicks[created + 1] = 0 /\ \A d \in Dates : daily[<<created + 1, d>>] = 0
    BY <2>3 DEF Rows, FreshRowsAreZero
  <2>5. c \notin churned => \A p \in Periods : settled[<<c, p>>] = 0
    BY <1>2, UnusedIsEmpty DEF CreateLink, Rows
  <2>6. CreditMatchesSettled'
    BY <1>1, <1>2, <2>4, <2>5
       DEF CreateLink, Rows, CreditMatchesSettled, TypeOK, TotalKey, DailyKey, Periods
  <2> QED
    BY <2>1, <2>2, <2>6 DEF Rows
<1>3. CASE DeleteLink(c)
  BY <1>1, <1>3
     DEF DeleteLink, Rows, OneCodePerLink, FreshRowsAreZero, UnusedCodesAreClean,
         CreditMatchesSettled, TypeOK, NoLink, Ids
<1>4. CASE \E new \in Codes \ {c} : RenameLink(c, new)
  <2> PICK new \in Codes \ {c} : RenameLink(c, new)
    BY <1>4
  <2>1. /\ \A other \in Codes : live'[other] = IF other = new THEN live[c]
                                             ELSE IF other = c THEN NoLink ELSE live[other]
        /\ UNCHANGED <<created, clicks, daily, settled, counted, visitor>>
        /\ churned' = churned \cup {c, new}
    BY <1>1 DEF RenameLink, TypeOK
  <2>2. OneCodePerLink'
    <3>1. \A other \in Codes : live[other] \in Nat /\ live[other] <= created
      BY <1>1 DEF Rows, OneCodePerLink, TypeOK, NoLink, Ids
    <3>2. \A c1, c2 \in Codes : live[c1] = live[c2] /\ live[c1] # NoLink => c1 = c2
      BY DEF Rows, OneCodePerLink
    <3>3. created \in Nat
      BY <1>1, BoundsAssumption DEF TypeOK
    <3>4. \A other \in Codes : live'[other] <= created'
      BY <2>1, <3>1, <3>3 DEF NoLink
    <3>5. \A c1, c2 \in Codes : live'[c1] = live'[c2] /\ live'[c1] # NoLink => c1 = c2
      BY <2>1, <3>2
    <3> QED
      BY <3>4, <3>5 DEF OneCodePerLink
  <2>3. UnusedCodesAreClean' /\ CreditMatchesSettled' /\ FreshRowsAreZero'
    BY <2>1 DEF Rows, UnusedCodesAreClean, CreditMatchesSettled, FreshRowsAreZero
  <2> QED
    BY <2>2, <2>3 DEF Rows
<1> QED
  BY <1>2, <1>3, <1>4

LEMMA RowsVisitSteps ==
    ASSUME Accounts, Rows, NEW v \in Visitors,
           \/ \E c \in Codes, d \in Dates : Lookup(v, c, d)
           \/ IncrTotal(v) \/ IncrDaily(v) \/ IncrBreaks(v) \/ IncrUnheard(v)
    PROVE  Rows'
<1> USE DEF redisVars, linkVars, clickVars, ledgerVars, TotalKey, DailyKey
<1>1. TypeOK
  BY DEF Accounts
<1>2. /\ UNCHANGED <<live, created, churned, clicks, daily, settled>>
      /\ visitor' \in [Visitors -> {Idle} \cup Requests]
  BY AccountsVisitSteps
     DEF Lookup, IncrTotal, IncrDaily, IncrBreaks, IncrUnheard, Incr, Accounts, TypeOK
<1>3. ASSUME NEW c \in Codes \ churned, live[c] = NoLink, NEW w \in Visitors, visitor'[w] # Idle
      PROVE  visitor'[w].code # c
  <2>1. CASE visitor'[w] = visitor[w]
    BY <1>3, <2>1 DEF Rows, UnusedCodesAreClean
  <2>2. CASE \E other \in Codes, d \in Dates : Lookup(v, other, d)
    BY <1>1, <1>3, <2>2 DEF Lookup, Rows, UnusedCodesAreClean, TypeOK
  <2>3. CASE IncrTotal(v) \/ IncrBreaks(v) \/ IncrUnheard(v)
    <3>1. visitor[v] # Idle /\ visitor[v] \in Requests
      BY <1>1, <2>3 DEF IncrTotal, IncrBreaks, IncrUnheard, TypeOK, Idle
    <3>2. visitor'[v] # Idle => visitor'[v].code = visitor[v].code
      BY <1>1, <2>3, <3>1 DEF IncrTotal, IncrBreaks, IncrUnheard, TypeOK, Requests
    <3> QED
      BY <1>1, <1>3, <2>1, <2>3, <3>1, <3>2
         DEF IncrTotal, IncrBreaks, IncrUnheard, Rows, UnusedCodesAreClean, TypeOK
  <2>4. CASE IncrDaily(v)
    BY <1>1, <1>3, <2>1, <2>4 DEF IncrDaily, TypeOK
  <2> QED
    BY <2>2, <2>3, <2>4
<1>4. ASSUME NEW c \in Codes \ churned, live[c] = NoLink, NEW p \in Periods
      PROVE  counted'[<<c, p>>] = 0
  <2>1. counted[<<c, p>>] = 0 /\ <<c, p>> \in Keys
    BY <1>4, KeysAreKeys DEF Rows, UnusedCodesAreClean
  <2>2. CASE UNCHANGED counted
    BY <2>1, <2>2
  <2>3. CASE IncrTotal(v) \/ IncrDaily(v) \/ IncrUnheard(v)
    <3>1. visitor[v] # Idle
      BY <2>3 DEF IncrTotal, IncrDaily, IncrUnheard, Idle
    <3>2. visitor[v].code # c
      BY <1>4, <3>1 DEF Rows, UnusedCodesAreClean
    <3> QED
      BY <1>1, <2>1, <2>3, <3>2 DEF IncrTotal, IncrDaily, IncrUnheard, Incr, TypeOK
  <2> QED
    BY <2>2, <2>3 DEF Lookup, IncrBreaks
<1> QED
  BY <1>2, <1>3, <1>4
     DEF Rows, OneCodePerLink, FreshRowsAreZero, UnusedCodesAreClean, CreditMatchesSettled

LEMMA RowsApply == ASSUME Accounts, Rows, Apply PROVE Rows'
<1> USE DEF redisVars, linkVars, visitVars, Apply
<1>1. TypeOK /\ OneCodePerLink
  BY DEF Accounts, Rows
<1>2. OneCodePerLink' /\ UnusedCodesAreClean'
  BY DEF Rows, OneCodePerLink, UnusedCodesAreClean
<1>3. FreshRowsAreZero'
  BY <1>1, DueOfFresh DEF Rows, FreshRowsAreZero, TypeOK
<1>4. ASSUME NEW c \in Codes \ churned, live[c] # NoLink
      PROVE  /\ clicks'[live[c]] = settled'[TotalKey(c)]
             /\ \A d \in Dates : daily'[<<live[c], d>>] = settled'[DailyKey(c, d)]
  <2>1. live[c] \in Ids
    BY <1>1, <1>4 DEF TypeOK
  <2>2. \A p : Due(live[c], p) = held[<<c, p>>]
    BY <1>1, <1>4, DueOfLive
  <2> QED
    BY <1>4, <2>1, <2>2, KeysAreKeys DEF Rows, CreditMatchesSettled, TotalKey, DailyKey
<1>5. live' = live /\ churned' = churned
  OBVIOUS
<1>6. CreditMatchesSettled'
  BY ONLY <1>4, <1>5 DEF CreditMatchesSettled
<1> QED
  BY ONLY <1>2, <1>3, <1>6 DEF Rows

\* Every other step leaves rows and settled counts alone.
LEMMA RowsOtherSteps ==
    ASSUME Accounts, Rows,
           \/ Scan \/ TakeFindsNil \/ TakeBreaks \/ TakeDone \/ ApplyFails \/ ReturnDone
           \/ FlushAll \/ Crash \/ UNCHANGED vars
           \/ \E k \in Keys : TakeKey(k) \/ ReturnKey(k) \/ ReturnBreaks(k)
    PROVE  Rows'
<1> USE DEF redisVars, linkVars, clickVars, flushVars, ledgerVars, visitVars, budgetVars, vars,
        Scan, TakeFindsNil, TakeBreaks, TakeDone, ApplyFails, ReturnDone, FlushAll, Crash, TakeKey,
        ReturnKey, ReturnBreaks, DropTaken
<1>1. UNCHANGED <<live, created, churned, clicks, daily, settled>>
  OBVIOUS
<1>2. \A v \in Visitors : visitor'[v] = visitor[v] \/ visitor'[v] = Idle
  OBVIOUS
<1>3. ASSUME NEW c \in Codes \ churned, live[c] = NoLink, NEW p \in Periods
      PROVE  counted'[<<c, p>>] = 0
  <2>1. /\ counted[<<c, p>>] = 0 /\ buf[<<c, p>>] = 0 /\ held[<<c, p>>] = 0
        /\ <<c, p>> \in Keys
    BY <1>3, UnusedIsEmpty, KeysAreKeys DEF Rows
  <2> QED
    BY <2>1 DEF Accounts, TypeOK
<1> QED
  BY <1>1, <1>2, <1>3
     DEF Rows, OneCodePerLink, FreshRowsAreZero, UnusedCodesAreClean, CreditMatchesSettled

LEMMA RowsNext == Accounts /\ Rows /\ [Next]_vars => Rows'
BY RowsLinkSteps, RowsVisitSteps, RowsApply, RowsOtherSteps
   DEF Next, LinkNext, VisitNext, FlushOnce, Redirect

\* A link that has always had its code shows exactly the counts processed for it.
THEOREM CreditIsExact == Spec => []CreditMatchesSettled
<1>1. Rows => CreditMatchesSettled
  BY DEF Rows
<1> QED
  BY <1>1, AccountsInit, AccountsNext, RowsInit, RowsNext, PTL DEF Spec

-----------------------------------------------------------------------------
(* Totals and daily rows.                                                  *)

\* Redirects that have counted in total and not yet for the day.
HalfWay(c) ==
    {v \in Visitors : visitor[v] # Idle /\ visitor[v].pc = "half" /\ visitor[v].code = c}
Dailies(c) == [d \in Dates |-> counted[DailyKey(c, d)]]

\* With no trouble, the increments of a code's total are those of its days, but for the
\* redirects half way.
Paired ==
    faults = 0 /\ hiccups = 0 =>
        \A c \in Codes :
            counted[TotalKey(c)] = SumFunction(Dailies(c)) + Cardinality(HalfWay(c))

LEMMA HalfWayIsFinite ==
    ASSUME NEW c PROVE IsFiniteSet(HalfWay(c)) /\ Cardinality(HalfWay(c)) \in Nat
<1>1. HalfWay(c) \in SUBSET Visitors
  BY DEF HalfWay
<1> QED
  BY <1>1, FinitenessAssumption, FS_Subset, FS_CardinalityType

LEMMA DailiesType ==
    ASSUME TypeOK, NEW c \in Codes
    PROVE  /\ DOMAIN Dailies(c) = Dates /\ IsFiniteSet(DOMAIN Dailies(c))
           /\ \A d \in DOMAIN Dailies(c) : Dailies(c)[d] \in Nat
           /\ SumFunction(Dailies(c)) \in Nat
<1>1. DOMAIN Dailies(c) = Dates /\ IsFiniteSet(DOMAIN Dailies(c))
  BY FinitenessAssumption DEF Dailies
<1>2. \A d \in DOMAIN Dailies(c) : Dailies(c)[d] \in Nat
  BY KeysAreKeys DEF Dailies, TypeOK
<1> QED
  BY <1>1, <1>2, SumType

LEMMA PairedInit == Init => Paired
<1> SUFFICES ASSUME Init, NEW c \in Codes
             PROVE  counted[TotalKey(c)] = SumFunction(Dailies(c)) + Cardinality(HalfWay(c))
  BY DEF Paired
<1>1. HalfWay(c) = {}
  BY DEF Init, HalfWay
<1>2. \A d \in DOMAIN Dailies(c) : Dailies(c)[d] = 0
  BY ZeroType, KeysAreKeys DEF Init, Dailies
<1>3. IsFiniteSet(DOMAIN Dailies(c))
  BY FinitenessAssumption DEF Dailies
<1> QED
  BY <1>1, <1>2, <1>3, SumOfZeros, FS_EmptySet, ZeroType, KeysAreKeys DEF Init

LEMMA PairedStays ==
    ASSUME Paired, UNCHANGED counted, \A c \in Codes : HalfWay(c)' = HalfWay(c),
           faults' = 0 /\ hiccups' = 0 => faults = 0 /\ hiccups = 0
    PROVE  Paired'
BY DEF Paired, Dailies

LEMMA PairedIncr ==
    ASSUME TypeOK, Paired, NEW v \in Visitors, IncrTotal(v) \/ IncrDaily(v)
    PROVE  Paired'
<1> DEFINE r == visitor[v]
<1>1. r \in Requests /\ r # Idle
  BY DEF IncrTotal, IncrDaily, TypeOK, Idle
<1>2. r.code \in Codes /\ r.date \in Dates
  BY <1>1 DEF Requests
<1>3. UNCHANGED <<faults, hiccups>>
  BY DEF IncrTotal, IncrDaily, Incr, budgetVars
<1> SUFFICES ASSUME faults = 0, hiccups = 0, NEW c \in Codes
             PROVE  (counted[TotalKey(c)] = SumFunction(Dailies(c)) + Cardinality(HalfWay(c)))'
  BY <1>3 DEF Paired
<1>4. /\ counted[TotalKey(c)] = SumFunction(Dailies(c)) + Cardinality(HalfWay(c))
      /\ SumFunction(Dailies(c)) \in Nat
      /\ IsFiniteSet(HalfWay(c)) /\ Cardinality(HalfWay(c)) \in Nat
      /\ counted[TotalKey(c)] \in Nat
  BY HalfWayIsFinite, DailiesType, KeysAreKeys DEF Paired, TypeOK
<1>5. \A d \in Dates : DailyKey(c, d) # TotalKey(c)
  BY DatesAssumption DEF DailyKey, TotalKey
<1>6. CASE IncrTotal(v)
  <2>1. /\ \A k \in Keys : counted'[k] = IF k = TotalKey(r.code) THEN counted[k] + 1 ELSE counted[k]
        /\ visitor'[v] = [r EXCEPT !.pc = "half"] /\ r.pc = "found"
        /\ \A w \in Visitors \ {v} : visitor'[w] = visitor[w]
    BY <1>6 DEF IncrTotal, Incr, TypeOK
  <2>2. visitor'[v] # Idle /\ visitor'[v].pc = "half" /\ visitor'[v].code = r.code
    BY <1>1, <2>1 DEF Requests, Idle
  <2>3. /\ TotalKey(c) \in Keys
        /\ \A d \in Dates : DailyKey(c, d) \in Keys /\ DailyKey(c, d) # TotalKey(r.code)
    BY KeysAreKeys, DatesAssumption DEF DailyKey, TotalKey
  <2>4. Dailies(c)' = Dailies(c)
    BY <2>1, <2>3 DEF Dailies
  <2>5. CASE c = r.code
    <3>1. HalfWay(c)' = HalfWay(c) \cup {v} /\ v \notin HalfWay(c)
      <4>1. v \notin HalfWay(c)
        BY <2>1 DEF HalfWay
      <4>2. \A w \in Visitors :
               (visitor'[w] # Idle /\ visitor'[w].pc = "half" /\ visitor'[w].code = c)
               <=> (w = v \/ w \in HalfWay(c))
        BY <2>1, <2>2, <2>5 DEF HalfWay
      <4> QED
        BY <4>1, <4>2 DEF HalfWay
    <3>2. Cardinality(HalfWay(c)') = Cardinality(HalfWay(c)) + 1
      BY <1>4, <3>1, FS_AddElement
    <3> QED
      BY <1>4, <2>1, <2>3, <2>4, <2>5, <3>2
  <2>6. CASE c # r.code
    <3>1. HalfWay(c)' = HalfWay(c)
      BY <2>1, <2>2, <2>6 DEF HalfWay
    <3>2. TotalKey(c) # TotalKey(r.code)
      BY <2>6 DEF TotalKey
    <3> QED
      BY <1>4, <2>1, <2>3, <2>4, <3>1, <3>2
  <2> QED
    BY <2>5, <2>6
<1>7. CASE IncrDaily(v)
  <2> DEFINE key == DailyKey(r.code, r.date)
  <2>1. /\ \A k \in Keys : counted'[k] = IF k = key THEN counted[k] + 1 ELSE counted[k]
        /\ visitor'[v] = Idle /\ r.pc = "half"
        /\ \A w \in Visitors \ {v} : visitor'[w] = visitor[w]
    BY <1>7 DEF IncrDaily, Incr, TypeOK
  <2>2. TotalKey(c) \in Keys /\ TotalKey(c) # key /\ \A d \in Dates : DailyKey(c, d) \in Keys
    BY <1>2, KeysAreKeys, DatesAssumption DEF DailyKey, TotalKey
  <2>3. \A d \in Dates : /\ Dailies(c)[d] = counted[DailyKey(c, d)]
                         /\ Dailies(c)'[d] = counted'[DailyKey(c, d)]
    BY DEF Dailies
  <2>4. DOMAIN Dailies(c)' = Dates /\ DOMAIN Dailies(c) = Dates
    BY DEF Dailies
  <2>5. CASE c = r.code
    <3>1. HalfWay(c)' = HalfWay(c) \ {v} /\ v \in HalfWay(c)
      BY <1>1, <2>1, <2>5 DEF HalfWay
    <3>2. Cardinality(HalfWay(c)') = Cardinality(HalfWay(c)) - 1
      BY <1>4, <3>1, FS_RemoveElement
    <3>3. /\ Dailies(c)'[r.date] = Dailies(c)[r.date] + 1
          /\ \A d \in Dates \ {r.date} : Dailies(c)'[d] = Dailies(c)[d]
      BY <1>2, <2>1, <2>2, <2>3, <2>5 DEF DailyKey
    <3>4. SumFunction(Dailies(c)') = SumFunction(Dailies(c)) + 1
      BY <1>2, <2>4, <3>3, DailiesType, SumOfOneMore
    <3> QED
      BY <1>4, <2>1, <2>2, <3>2, <3>4
  <2>6. CASE c # r.code
    <3>1. HalfWay(c)' = HalfWay(c)
      BY <2>1, <2>6 DEF HalfWay
    <3>2. Dailies(c)' = Dailies(c)
      BY <2>1, <2>2, <2>6 DEF Dailies, DailyKey
    <3> QED
      BY <1>4, <2>1, <2>2, <3>1, <3>2
  <2> QED
    BY <2>5, <2>6
<1> QED
  BY <1>6, <1>7

LEMMA PairedNext == TypeOK /\ Paired /\ [Next]_vars => Paired'
<1> SUFFICES ASSUME TypeOK, Paired, [Next]_vars PROVE Paired'
  OBVIOUS
<1> USE DEF redisVars, linkVars, clickVars, flushVars, ledgerVars, visitVars, budgetVars
<1>0. /\ faults \in Nat /\ hiccups \in Nat
      /\ (Fault => faults' # 0) /\ (Hiccup => hiccups' # 0)
  BY DEF TypeOK, Fault, Hiccup
<1>1. ASSUME UNCHANGED <<counted, visitor, faults, hiccups>> PROVE Paired'
  BY <1>1, PairedStays DEF HalfWay
<1>2. ASSUME UNCHANGED <<counted, visitor>>, Hiccup \/ UNCHANGED budgetVars PROVE Paired'
  BY <1>0, <1>1, <1>2 DEF Paired
<1>3. ASSUME faults' # 0 \/ hiccups' # 0 PROVE Paired'
  BY <1>3 DEF Paired
<1>4. CASE LinkNext
  BY <1>1, <1>4 DEF LinkNext, CreateLink, DeleteLink, RenameLink
<1>5. CASE VisitNext
  <2>1. ASSUME NEW v \in Visitors, NEW c \in Codes, NEW d \in Dates, Lookup(v, c, d) PROVE Paired'
    <3>1. UNCHANGED <<counted, faults, hiccups>> /\ visitor[v] = Idle
      BY <2>1 DEF Lookup
    <3>2. visitor'[v].pc = "found" /\ \A w \in Visitors \ {v} : visitor'[w] = visitor[w]
      BY <2>1 DEF Lookup, TypeOK
    <3>3. \A e \in Codes : HalfWay(e)' = HalfWay(e)
      BY <3>1, <3>2 DEF HalfWay
    <3> QED
      BY <3>1, <3>3, PairedStays
  <2>2. ASSUME NEW v \in Visitors, IncrBreaks(v) \/ IncrUnheard(v) PROVE Paired'
    BY <1>0, <1>3, <2>2 DEF IncrBreaks, IncrUnheard
  <2> QED
    BY <1>5, <2>1, <2>2, PairedIncr DEF VisitNext, Redirect
<1>6. CASE FlushOnce
  <2>1. CASE Scan
    BY <1>2, <2>1 DEF Scan
  <2>2. CASE \/ TakeFindsNil \/ TakeDone \/ Apply \/ ReturnDone
             \/ \E k \in Keys : TakeKey(k) \/ ReturnKey(k)
    BY <1>1, <2>2 DEF TakeFindsNil, DropTaken, TakeDone, Apply, ReturnDone, TakeKey, ReturnKey
  <2> QED
    BY <1>6, <2>1, <2>2 DEF FlushOnce
<1>7. CASE TakeBreaks \/ FlushAll \/ Crash \/ \E k \in Keys : ReturnBreaks(k)
  BY <1>0, <1>3, <1>7 DEF TakeBreaks, FlushAll, Crash, ReturnBreaks
<1>8. CASE ApplyFails \/ UNCHANGED vars
  BY <1>1, <1>8 DEF ApplyFails, vars
<1> QED
  BY <1>4, <1>5, <1>6, <1>7, <1>8 DEF Next

\* The click_count of a link and the sum of its daily rows are counted by two INCRs, taken
\* by two GETDELs and retried apart (redirect.go, flush.go, counts.go), and agree once all
\* is flushed, for any number of dates, redirects and failed transactions.
THEOREM TotalsAgree == Spec => []TotalsMatchDailies
<1>1. ASSUME Accounts, Paired, NothingLostByDbFailure, CreditMatchesSettled
      PROVE  TotalsMatchDailies
  <2> SUFFICES ASSUME Quiet, faults = 0, hiccups = 0, NEW c \in Codes \ churned, live[c] # NoLink
               PROVE  clicks[live[c]] = SumFunction([d \in Dates |-> daily[<<live[c], d>>]])
    BY DEF TotalsMatchDailies
  <2>1. \A k \in Keys : counted[k] = settled[k]
    BY <1>1 DEF Quiet, NothingLostByDbFailure, Accounts, Conservation, TypeOK
  <2>2. Dailies(c) = [d \in Dates |-> daily[<<live[c], d>>]]
    BY <1>1, <2>1, KeysAreKeys DEF CreditMatchesSettled, Dailies
  <2>3. HalfWay(c) = {}
    BY DEF Quiet, HalfWay
  <2>4. counted[TotalKey(c)] = SumFunction(Dailies(c)) + 0
    BY <1>1, <2>3, FS_EmptySet DEF Paired
  <2>5. SumFunction(Dailies(c)) \in Nat
    BY <1>1, DailiesType DEF Accounts
  <2> QED
    BY <1>1, <2>1, <2>2, <2>4, <2>5, KeysAreKeys DEF CreditMatchesSettled
<1>2. Accounts => TypeOK
  BY DEF Accounts
<1> QED
  BY <1>1, <1>2, AccountsInit, AccountsNext, PairedInit, PairedNext, DbFailuresLoseNothing,
     CreditIsExact, PTL DEF Spec

-----------------------------------------------------------------------------
(* The pipeline implements the ledger.                                     *)

LEMMA LedgerInit == Init => Ledger!Init
BY ZeroType DEF Init, Ledger!Init, Pending, Zero

\* The ledger's pending book, before and after a step, counter by counter.
LEMMA PendingBook ==
    ASSUME Accounts, Accounts'
    PROVE  \A k \in Keys :
               /\ Pending(k) = buf[k] + held[k] /\ Pending(k)' = buf'[k] + held'[k]
               /\ buf[k] \in Nat /\ held[k] \in Nat /\ buf'[k] \in Nat /\ held'[k] \in Nat
               /\ settled[k] \in Nat /\ lost[k] \in Nat
BY DEF Accounts, TypeOK, Pending

LEMMA DropTakenIsLose ==
    ASSUME Accounts, Accounts', DropTaken, UNCHANGED buf
    PROVE  Ledger!Lose
<1>1. \A k \in Keys : held'[k] = 0 /\ lost'[k] = lost[k] + held[k] /\ buf'[k] = buf[k]
  BY ZeroType DEF DropTaken
<1>2. settled' = settled
  BY DEF DropTaken
<1> QED
  BY <1>1, <1>2, PendingBook DEF Ledger!Lose, Ledger!Moves

LEMMA LedgerStep ==
    ASSUME Accounts, Accounts', [Next]_vars
    PROVE  [Ledger!Next]_(Ledger!vars)
<1> USE DEF Ledger!Next, Ledger!vars, redisVars, linkVars, clickVars, flushVars, ledgerVars,
        visitVars, budgetVars
<1>1. ASSUME UNCHANGED <<buf, held, settled, lost>>
      PROVE  UNCHANGED Ledger!vars
  BY <1>1 DEF Pending
<1>2. ASSUME NEW key \in Keys, Incr(key), UNCHANGED held
      PROVE  Ledger!Count
  <2>1. buf'[key] = buf[key] + 1 /\ \A k \in Keys \ {key} : buf'[k] = buf[k]
    BY <1>2 DEF Incr, Accounts, TypeOK
  <2>2. UNCHANGED <<settled, lost>>
    BY <1>2 DEF Incr
  <2> QED
    BY <1>2, <2>1, <2>2, PendingBook DEF Ledger!Count
<1>3. ASSUME NEW v \in Visitors, IncrTotal(v) \/ IncrDaily(v) \/ IncrUnheard(v)
      PROVE  Ledger!Count
  <2>1. visitor[v] \in Requests
    BY <1>3 DEF IncrTotal, IncrDaily, IncrUnheard, Accounts, TypeOK, Idle
  <2>2. \E key \in Keys : Incr(key)
    BY <1>3, <2>1, KeysAreKeys DEF IncrTotal, IncrDaily, IncrUnheard, Requests
  <2>3. UNCHANGED held
    BY <2>2 DEF Incr
  <2> QED
    BY <1>2, <2>2, <2>3
<1>4. ASSUME NEW k \in Keys, TakeKey(k)
      PROVE  Ledger!Lose \/ UNCHANGED Ledger!vars
  <2>1. CASE buf[k] = 0
    BY <1>1, <1>4, <2>1 DEF TakeKey, Accounts, TypeOK
  <2>2. CASE buf[k] # 0
    <3>1. /\ held'[k] = buf[k] /\ buf'[k] = 0 /\ lost'[k] = lost[k] + held[k]
          /\ \A other \in Keys \ {k} : /\ held'[other] = held[other]
                                       /\ buf'[other] = buf[other]
                                       /\ lost'[other] = lost[other]
          /\ settled' = settled
      BY <1>4, <2>2 DEF TakeKey, Accounts, TypeOK
    <3> QED
      BY <3>1, PendingBook DEF Ledger!Lose, Ledger!Moves
  <2> QED
    BY <2>1, <2>2
<1>5. CASE TakeFindsNil \/ TakeBreaks \/ Crash
  BY <1>5, DropTakenIsLose DEF TakeFindsNil, TakeBreaks, Crash
<1>6. CASE Apply
  <2>1. \A k \in Keys : held'[k] = 0 /\ settled'[k] = settled[k] + held[k] /\ buf'[k] = buf[k]
    BY <1>6, ZeroType DEF Apply
  <2>2. lost' = lost
    BY <1>6 DEF Apply
  <2> QED
    BY <2>1, <2>2, PendingBook DEF Ledger!Settle, Ledger!Moves
<1>7. ASSUME NEW k \in Keys, ReturnKey(k)
      PROVE  UNCHANGED Ledger!vars
  <2>1. \A other \in Keys : buf'[other] + held'[other] = buf[other] + held[other]
    BY <1>7 DEF ReturnKey, Accounts, TypeOK
  <2>2. UNCHANGED <<settled, lost>>
    BY <1>7 DEF ReturnKey
  <2> QED
    BY <2>1, <2>2 DEF Pending
<1>8. ASSUME NEW k \in Keys, ReturnBreaks(k)
      PROVE  Ledger!Lose \/ Ledger!Count
  <2>1. /\ held'[k] = 0 /\ held[k] > 0 /\ settled' = settled
        /\ \A other \in Keys \ {k} : held'[other] = held[other]
    BY <1>8 DEF ReturnBreaks, Accounts, TypeOK
  <2>2. CASE lost' = [lost EXCEPT ![k] = @ + held[k]] /\ UNCHANGED buf
    <3>1. /\ lost'[k] = lost[k] + held[k]
          /\ \A other \in Keys \ {k} : lost'[other] = lost[other]
      BY <2>2 DEF Accounts, TypeOK
    <3> QED
      BY <2>1, <2>2, <3>1, PendingBook DEF Ledger!Lose, Ledger!Moves
  <2>3. CASE buf' = [buf EXCEPT ![k] = @ + 2 * held[k]] /\ UNCHANGED lost
    <3>1. /\ buf'[k] = buf[k] + 2 * held[k]
          /\ \A other \in Keys \ {k} : buf'[other] = buf[other]
      BY <2>3 DEF Accounts, TypeOK
    <3> QED
      BY <2>1, <2>3, <3>1, PendingBook DEF Ledger!Count
  <2> QED
    BY <1>8, <2>2, <2>3 DEF ReturnBreaks
<1>9. CASE FlushAll
  <2>1. \A k \in Keys : buf'[k] = 0 /\ held'[k] = held[k]
    BY <1>9, ZeroType DEF FlushAll
  <2>2. UNCHANGED <<settled, lost>>
    BY <1>9 DEF FlushAll
  <2> QED
    BY <2>1, <2>2, PendingBook DEF Ledger!Forget
<1>10. CASE LinkNext
  BY <1>1, <1>10 DEF LinkNext, CreateLink, DeleteLink, RenameLink
<1>11. ASSUME NEW v \in Visitors,
              IncrBreaks(v) \/ \E c \in Codes, d \in Dates : Lookup(v, c, d)
       PROVE  UNCHANGED Ledger!vars
  BY <1>1, <1>11 DEF IncrBreaks, Lookup
<1>12. CASE Scan \/ TakeDone \/ ApplyFails \/ ReturnDone \/ UNCHANGED vars
  BY <1>1, <1>12 DEF Scan, TakeDone, ApplyFails, ReturnDone, vars
<1> QED
  BY <1>3, <1>4, <1>5, <1>6, <1>7, <1>8, <1>9, <1>10, <1>11, <1>12
     DEF Next, VisitNext, FlushOnce, Redirect

\* Redis, the flusher and SQLite together keep a ledger: every step of theirs
\* counts, settles, loses or resets counts, or is invisible to the ledger.
THEOREM PipelineImplementsLedger == Spec => LedgerSpec
<1>1. Accounts /\ Accounts' /\ [Next]_vars => [Ledger!Next]_(Ledger!vars)
  BY LedgerStep
<1> QED
  BY <1>1, AccountsInit, AccountsNext, LedgerInit, PTL DEF Spec, LedgerSpec, Ledger!Spec
=============================================================================
