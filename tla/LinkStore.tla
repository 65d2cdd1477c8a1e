------------------------------ MODULE LinkStore ------------------------------
(***************************************************************************)
(* The links table, the cache in front of it and the requests that use     *)
(* both, one SQL statement or transaction, or one cache operation, a step. *)
(*                                                                         *)
(*   internal/store/store.go    GetLink, CreateLink(s), UpdateLink,        *)
(*                              RenameLink, DeleteLink(s), DeleteExpired,  *)
(*                              UpdateMeta                                 *)
(*   internal/store/cache.go    get, set, del, clear                       *)
(*   internal/store/backups.go  BackupLink, ClearBackups                   *)
(*   internal/api/links.go      createLink, getLink, updateLink, deleteLink *)
(*   internal/api/bulk.go, batch.go, metaqueue.go  the calls they make     *)
(*                                                                         *)
(* "At most one" is a set of at most one element: {} is a cache miss, a    *)
(* row not found, a backup not taken.                                      *)
(***************************************************************************)
EXTENDS Naturals

CONSTANTS
    Clients,        \* goroutines that serve requests, metadata workers included
    Codes,          \* short codes
    Patches,        \* what an edit provides: some fields and their new values
    MaxLinks,       \* bound: rows ever inserted into links
    MaxBackups,     \* bound: b_id
    MaxWrites,      \* bound: requests that write, and crashes
    MaxExternals    \* bound: edits of the file by other programs

Fields == {"url", "title", "expires"}
Values == {0, 1}                \* expires: 0 is never, 1 is a moment now past
Data == [Fields -> Values]
Blank == [f \in Fields |-> 0]
Expired == [Blank EXCEPT !["expires"] = 1]
Patched(data, patch) == [f \in Fields |-> IF f \in DOMAIN patch THEN patch[f] ELSE data[f]]

ASSUME PatchesAssumption == Patches \subseteq UNION {[S -> Values] : S \in SUBSET Fields}
ASSUME StoreBounds ==
    /\ MaxLinks \in Nat
    /\ MaxBackups \in Nat
    /\ MaxWrites \in 0..MaxBackups
    /\ MaxExternals \in Nat

Ids == 1..MaxLinks              \* links.id, AUTOINCREMENT: never reused
BIds == 1..MaxBackups           \* backups.b_id
Link == [id : Ids, code : Codes, data : Data]
Row == [code : Codes, data : Data, deleted : BOOLEAN]

Ops ==
    [kind : {"get", "meta"}, code : Codes]
        \cup [kind : {"create"}, codes : SUBSET Codes, data : {Blank, Expired}]
        \cup [kind : {"edit"}, code : Codes, new : Codes, patch : Patches]
        \cup [kind : {"delete"}, code : Codes, hard : BOOLEAN]
        \cup [kind : {"bulk"}, codes : SUBSET Codes, hard : BOOLEAN]
        \cup [kind : {"sweep"}, hard : BOOLEAN]
        \cup [kind : {"none"}]
NoOp == [kind |-> "none"]

VARIABLES
    rows,       \* links: the row of each id, {} when there is none
    created,    \* links: the last id the table gave out
    backups,    \* backups: the snapshot of each b_id, {} when there is none
    cache,      \* linkCache.m: the unexpired entry of each code, {} on a miss
    pc,         \* each client: the next step of its request
    op,         \* ... the request
    seen,       \* ... the link it works on
    bid,        \* ... the b_id it computed for its backup
    fills,      \* ... rows still to be put in the cache
    drops,      \* ... codes still to be dropped from the cache
    \* Bounds, and history read by no action:
    writes,     \* writing requests and crashes so far
    externals,  \* external edits so far
    past,       \* every link that was ever current
    raced       \* codes written while another request was about to cache them

tableVars   == <<rows, created>>
localVars   == <<pc, op, seen, bid, fills, drops>>
budgetVars  == <<writes, externals>>
historyVars == <<past, raced>>
vars == <<tableVars, backups, cache, localVars, budgetVars, historyVars>>

PCs == {"idle", "lookup", "select", "fill", "next b_id", "snapshot", "rename", "drop renamed",
        "update", "insert", "delete", "sweep", "meta", "drop", "clear", "done"}

\* Steps that run a SQL statement under the request's context.
Statements == {"select", "next b_id", "snapshot", "rename", "update", "insert", "delete", "sweep",
               "meta"}

\* WHERE code = ? AND deleted = 0, and the link such a SELECT returns.
Bears(i, c) == \E r \in rows[i] : r.code = c /\ ~r.deleted
\* Mutant: the id is not scanned.
AsLinkWithoutId(i) == {[id |-> 0, code |-> r.code, data |-> r.data] : r \in rows[i]}
AsLink(i) == {[id |-> i, code |-> r.code, data |-> r.data] : r \in rows[i]}
Current(c) == UNION {AsLink(i) : i \in {j \in Ids : Bears(j, c)}}

TypeOK ==
    /\ rows \in [Ids -> SUBSET Row]
    /\ created \in 0..MaxLinks
    /\ backups \in [BIds -> SUBSET Link]
    /\ cache \in [Codes -> SUBSET Link]
    /\ pc \in [Clients -> PCs]
    /\ op \in [Clients -> Ops]
    /\ seen \in [Clients -> SUBSET Link]
    /\ bid \in [Clients -> Nat]
    /\ fills \in [Clients -> SUBSET Link]
    /\ drops \in [Clients -> SUBSET Codes]
    /\ writes \in 0..MaxWrites
    /\ externals \in 0..MaxExternals
    /\ past \subseteq Link
    /\ raced \subseteq Codes

Init ==
    /\ rows = [i \in Ids |-> {}]
    /\ created = 0
    /\ backups = [b \in BIds |-> {}]
    /\ cache = [c \in Codes |-> {}]
    /\ pc = [p \in Clients |-> "idle"]
    /\ op = [p \in Clients |-> NoOp]
    /\ seen = [p \in Clients |-> {}]
    /\ bid = [p \in Clients |-> 0]
    /\ fills = [p \in Clients |-> {}]
    /\ drops = [p \in Clients |-> {}]
    /\ writes = 0
    /\ externals = 0
    /\ past = {}
    /\ raced = {}

Goto(p, label) == pc' = [pc EXCEPT ![p] = label]

\* A write to the table, and what it does to history: a code is raced when it
\* changes hands or contents while some request is about to cache it.
Commit(new) ==
    /\ rows' = new
    /\ past' = past \cup UNION {Current(c)' : c \in Codes}
    /\ raced' = raced \cup {c \in Codes : /\ Current(c)' # Current(c)
                                          /\ \E q \in Clients : \E l \in fills[q] : l.code = c}

\* A statement that matches no row, or fails a constraint, ends the request.
NoEffect(p) ==
    /\ Goto(p, "done")
    /\ UNCHANGED <<rows, past, raced, drops>>

-----------------------------------------------------------------------------
(* Requests arrive and are answered.                                       *)

Accept(p, request, label) ==
    /\ pc[p] = "idle"
    /\ op' = [op EXCEPT ![p] = request]
    /\ Goto(p, label)
    /\ UNCHANGED <<tableVars, backups, cache, seen, bid, fills, drops, externals, historyVars>>

Writing == writes < MaxWrites /\ writes' = writes + 1

\* getLink and the redirect handlers.
Get(p, c) ==
    /\ Accept(p, [kind |-> "get", code |-> c], "lookup")
    /\ UNCHANGED writes

\* createLink with one code, batchCreate with several.
Create(p, codes, data) ==
    /\ Writing
    /\ Accept(p, [kind |-> "create", codes |-> codes, data |-> data], "insert")

Edit(p, c, new, patch) ==
    /\ Writing
    /\ Accept(p, [kind |-> "edit", code |-> c, new |-> new, patch |-> patch], "lookup")

Delete(p, c, hard) ==
    /\ Writing
    /\ Accept(p, [kind |-> "delete", code |-> c, hard |-> hard], "lookup")

DeleteMany(p, codes, hard) ==
    /\ Writing
    /\ Accept(p, [kind |-> "bulk", codes |-> codes, hard |-> hard], "delete")

Sweep(p, hard) ==
    /\ Writing
    /\ Accept(p, [kind |-> "sweep", hard |-> hard], "sweep")

\* A metadata worker comes back with a title for a code.
Meta(p, c) ==
    /\ Writing
    /\ Accept(p, [kind |-> "meta", code |-> c], "meta")

Begin(p) ==
    \/ \E c \in Codes :
        \/ Get(p, c)
        \/ Meta(p, c)
        \/ \E new \in Codes, patch \in Patches : Edit(p, c, new, patch)
        \/ \E hard \in BOOLEAN : Delete(p, c, hard)
    \/ \E codes \in SUBSET Codes \ {{}} :
        \/ \E data \in {Blank, Expired} : Create(p, codes, data)
        \/ \E hard \in BOOLEAN : DeleteMany(p, codes, hard)
    \/ \E hard \in BOOLEAN : Sweep(p, hard)

Answer(p) ==
    /\ pc[p] = "done"
    /\ Goto(p, "idle")
    /\ op' = [op EXCEPT ![p] = NoOp]
    /\ seen' = [seen EXCEPT ![p] = {}]
    /\ bid' = [bid EXCEPT ![p] = 0]
    /\ UNCHANGED <<tableVars, backups, cache, fills, drops, budgetVars, historyVars>>

\* The statement fails, the client has hung up (the request's context is
\* cancelled), or a new value is refused after the backup was taken.
Abort(p) ==
    /\ pc[p] \in Statements
    /\ Goto(p, "done")
    /\ UNCHANGED <<tableVars, backups, cache, op, seen, bid, fills, drops, budgetVars, historyVars>>

-----------------------------------------------------------------------------
(* GetLink, the first part of every request that addresses one link.       *)

\* Where an edit goes when it is backed up, or needs no backup.
Write(p) == IF op[p].new = op[p].code THEN "update" ELSE "rename"

\* An edit that changes something is backed up, unless backup_on_edit is off.
AfterGet(p) ==
    CASE op[p].kind = "delete" -> {"delete"}
      [] op[p].kind = "edit"   -> {Write(p)} \cup
                                  IF op[p].new # op[p].code \/ DOMAIN op[p].patch # {}
                                  THEN {"next b_id"}
                                  ELSE {}
      [] OTHER                 -> {"done"}

CacheHit(p) ==
    /\ pc[p] = "lookup"
    /\ cache[op[p].code] # {}
    /\ seen' = [seen EXCEPT ![p] = cache[op[p].code]]
    /\ \E label \in AfterGet(p) : Goto(p, label)
    /\ UNCHANGED <<tableVars, backups, cache, op, bid, fills, drops, budgetVars, historyVars>>

CacheMiss(p) ==
    /\ pc[p] = "lookup"
    /\ cache[op[p].code] = {}
    /\ Goto(p, "select")
    /\ UNCHANGED <<tableVars, backups, cache, op, seen, bid, fills, drops, budgetVars, historyVars>>

Select(p) ==
    /\ pc[p] = "select"
    /\ seen' = [seen EXCEPT ![p] = Current(op[p].code)]
    /\ fills' = [fills EXCEPT ![p] = Current(op[p].code)]
    /\ Goto(p, IF Current(op[p].code) = {} THEN "done" ELSE "fill")
    /\ UNCHANGED <<tableVars, backups, cache, op, bid, drops, budgetVars, historyVars>>

\* cache.set: the rows of a batch in the order they were inserted.
Fill(p) ==
    /\ pc[p] = "fill"
    /\ \E l \in fills[p] :
        /\ \A other \in fills[p] : l.id <= other.id
        /\ cache' = [cache EXCEPT ![l.code] = {l}]
        /\ fills' = [fills EXCEPT ![p] = @ \ {l}]
    /\ IF fills'[p] = {}
       THEN \E label \in AfterGet(p) : Goto(p, label)
       ELSE UNCHANGED pc
    /\ UNCHANGED <<tableVars, backups, op, seen, bid, drops, budgetVars, historyVars>>

-----------------------------------------------------------------------------
(* CreateLink and CreateLinks: codes in use are skipped.                   *)

Insert(p) ==
    /\ pc[p] = "insert"
    /\ LET free == {c \in op[p].codes : Current(c) = {}}
       IN  IF free = {}
           THEN NoEffect(p) /\ UNCHANGED <<created, fills>>
           ELSE \E last \in Ids, id \in [free -> Ids] :
                  /\ \A c, d \in free : id[c] = id[d] => c = d
                  /\ {id[c] : c \in free} = (created + 1)..last
                  /\ Commit([i \in Ids |->
                         rows[i] \cup {[code |-> c, data |-> op[p].data, deleted |-> FALSE] :
                                         c \in {c \in free : id[c] = i}}])
                  /\ created' = last
                  /\ fills' = [fills EXCEPT ![p] =
                         {[id |-> id[c], code |-> c, data |-> op[p].data] : c \in free}]
                  /\ Goto(p, "fill")
                  /\ UNCHANGED drops
    /\ UNCHANGED <<backups, cache, op, seen, bid, budgetVars>>

-----------------------------------------------------------------------------
(* updateLink: back up, rename, update.                                    *)

\* SELECT COALESCE(MAX(b_id), 0) + 1 FROM backups.
NextBId(p) ==
    /\ pc[p] = "next b_id"
    /\ \E b \in BIds :
        /\ \A other \in BIds : other >= b => backups[other] = {}
        /\ b > 1 => backups[b - 1] # {}
        /\ bid' = [bid EXCEPT ![p] = b]
    /\ Goto(p, "snapshot")
    /\ UNCHANGED <<tableVars, backups, cache, op, seen, fills, drops, budgetVars, historyVars>>

\* Mutant: INSERT OR REPLACE.
SnapshotReplaces(p) ==
    /\ pc[p] = "snapshot"
    /\ backups' = [backups EXCEPT ![bid[p]] = seen[p]]
    /\ Goto(p, Write(p))
    /\ UNCHANGED <<tableVars, cache, op, seen, bid, fills, drops, budgetVars, historyVars>>

\* The primary key refuses a b_id that another edit took meanwhile.
Snapshot(p) ==
    /\ pc[p] = "snapshot"
    /\ IF backups[bid[p]] = {}
       THEN /\ backups' = [backups EXCEPT ![bid[p]] = seen[p]]
            /\ Goto(p, Write(p))
       ELSE /\ Goto(p, "done")
            /\ UNCHANGED backups
    /\ UNCHANGED <<tableVars, cache, op, seen, bid, fills, drops, budgetVars, historyVars>>

\* Mutant: the unique index does not cover codes that a rename brings.
RenameOverTaken(p) ==
    IF Current(op[p].code) = {}
    THEN NoEffect(p)
    ELSE /\ Commit([i \in Ids |-> IF Bears(i, op[p].code)
                                  THEN {[r EXCEPT !.code = op[p].new] : r \in rows[i]}
                                  ELSE rows[i]])
         /\ drops' = [drops EXCEPT ![p] = {op[p].code, op[p].new}]
         /\ Goto(p, "drop renamed")

\* UPDATE links SET code = ?: no row, or a taken code, ends the request.
RenameRow(p) ==
    IF Current(op[p].code) = {} \/ Current(op[p].new) # {}
    THEN NoEffect(p)
    ELSE /\ Commit([i \in Ids |-> IF Bears(i, op[p].code)
                                  THEN {[r EXCEPT !.code = op[p].new] : r \in rows[i]}
                                  ELSE rows[i]])
         /\ drops' = [drops EXCEPT ![p] = {op[p].code, op[p].new}]
         /\ Goto(p, "drop renamed")

\* Mutant: the edited link is cached under its new code before it is saved.
RenameFills(p) ==
    /\ pc[p] = "rename"
    /\ RenameRow(p)
    /\ cache' = [cache EXCEPT ![op[p].new] =
                   {[l EXCEPT !.code = op[p].new, !.data = Patched(l.data, op[p].patch)] :
                      l \in seen[p]}]
    /\ UNCHANGED <<created, backups, op, seen, bid, fills, budgetVars>>

Rename(p) ==
    /\ pc[p] = "rename"
    /\ RenameRow(p)
    /\ UNCHANGED <<created, backups, cache, op, seen, bid, fills, budgetVars>>

\* UPDATE links SET url = ?, ...: every field as the request sees it.
Update(p) ==
    /\ pc[p] = "update"
    /\ IF Current(op[p].new) = {}
       THEN NoEffect(p)
       ELSE /\ Commit([i \in Ids |->
                   IF Bears(i, op[p].new)
                   THEN {[r EXCEPT !.data = Patched(l.data, op[p].patch)] :
                           r \in rows[i], l \in seen[p]}
                   ELSE rows[i]])
            /\ drops' = [drops EXCEPT ![p] = {op[p].new}]
            /\ Goto(p, "drop")
    /\ UNCHANGED <<created, backups, cache, op, seen, bid, fills, budgetVars>>

-----------------------------------------------------------------------------
(* Deleting, sweeping, and the titles that workers bring.                  *)

Gone(i, hard) == IF hard THEN {} ELSE {[r EXCEPT !.deleted = TRUE] : r \in rows[i]}

\* DeleteLink of one code, or DeleteLinks of several in a transaction.
DeleteRows(p) ==
    /\ pc[p] = "delete"
    /\ LET codes == IF op[p].kind = "bulk" THEN op[p].codes ELSE {op[p].code}
       IN  IF op[p].kind = "delete" /\ Current(op[p].code) = {}
           THEN NoEffect(p)
           ELSE /\ Commit([i \in Ids |-> IF \E c \in codes : Bears(i, c)
                                         THEN Gone(i, op[p].hard)
                                         ELSE rows[i]])
                /\ drops' = [drops EXCEPT ![p] = codes]
                /\ Goto(p, "drop")
    /\ UNCHANGED <<created, backups, cache, op, seen, bid, fills, budgetVars>>

\* Mutant: the sweep reports and forgets the cache.
SweepRowsOnly(p) ==
    /\ pc[p] = "sweep"
    /\ Commit([i \in Ids |->
           IF \E r \in rows[i] : ~r.deleted /\ r.data["expires"] = 1
           THEN Gone(i, op[p].hard)
           ELSE rows[i]])
    /\ Goto(p, "done")
    /\ UNCHANGED <<created, backups, cache, op, seen, bid, fills, drops, budgetVars>>

\* DeleteExpired; the SELECT before it only names a link for the log.
SweepRows(p) ==
    /\ pc[p] = "sweep"
    /\ Commit([i \in Ids |->
           IF \E r \in rows[i] : ~r.deleted /\ r.data["expires"] = 1
           THEN Gone(i, op[p].hard)
           ELSE rows[i]])
    /\ Goto(p, "clear")
    /\ UNCHANGED <<created, backups, cache, op, seen, bid, fills, drops, budgetVars>>

Clear(p) ==
    /\ pc[p] = "clear"
    /\ cache' = [c \in Codes |-> {}]
    /\ Goto(p, "done")
    /\ UNCHANGED <<tableVars, backups, op, seen, bid, fills, drops, budgetVars, historyVars>>

\* Mutant: the WHERE clause has lost its AND deleted = 0.
UpdateMetaOfDeleted(p) ==
    /\ pc[p] = "meta"
    /\ Commit([i \in Ids |-> IF \E r \in rows[i] : r.code = op[p].code
                             THEN {[r EXCEPT !.data["title"] = 1] : r \in rows[i]}
                             ELSE rows[i]])
    /\ drops' = [drops EXCEPT ![p] = {op[p].code}]
    /\ Goto(p, "drop")
    /\ UNCHANGED <<created, backups, cache, op, seen, bid, fills, budgetVars>>

\* Mutant: a worker's title leaves the cache alone.
UpdateMetaQuietly(p) ==
    /\ pc[p] = "meta"
    /\ Commit([i \in Ids |-> IF Bears(i, op[p].code)
                             THEN {[r EXCEPT !.data["title"] = 1] : r \in rows[i]}
                             ELSE rows[i]])
    /\ Goto(p, "done")
    /\ UNCHANGED <<created, backups, cache, op, seen, bid, fills, drops, budgetVars>>

\* A worker's code may have no link by now: the cache entry goes all the same.
UpdateMeta(p) ==
    /\ pc[p] = "meta"
    /\ Commit([i \in Ids |-> IF Bears(i, op[p].code)
                             THEN {[r EXCEPT !.data["title"] = 1] : r \in rows[i]}
                             ELSE rows[i]])
    /\ drops' = [drops EXCEPT ![p] = {op[p].code}]
    /\ Goto(p, "drop")
    /\ UNCHANGED <<created, backups, cache, op, seen, bid, fills, budgetVars>>

\* cache.del, after the commit: in any order, which includes the code's (the
\* old code of a rename first, a bulk delete's in the order of the request).
Drop(p) ==
    /\ pc[p] \in {"drop", "drop renamed"}
    /\ \E c \in drops[p] :
        /\ cache' = [cache EXCEPT ![c] = {}]
        /\ drops' = [drops EXCEPT ![p] = @ \ {c}]
    /\ IF drops'[p] # {}
       THEN UNCHANGED pc
       ELSE Goto(p, IF pc[p] = "drop" THEN "done" ELSE "update")
    /\ UNCHANGED <<tableVars, backups, op, seen, bid, fills, budgetVars, historyVars>>

-----------------------------------------------------------------------------
(* The outside.                                                            *)

\* Mutant: get does not look at expiresAt.
LapseNever(c) ==
    /\ cache[c] # {}
    /\ UNCHANGED vars

\* linkCacheTTL after it was set, an entry is a miss.
Lapse(c) ==
    /\ cache[c] # {}
    /\ cache' = [cache EXCEPT ![c] = {}]
    /\ UNCHANGED <<tableVars, backups, localVars, budgetVars, historyVars>>

\* DELETE FROM backups, by the API or the CLI.
ClearBackups ==
    /\ Writing
    /\ backups' = [b \in BIds |-> {}]
    /\ UNCHANGED <<tableVars, cache, localVars, externals, historyVars>>

\* Another program edits the file: the process does not notice.
ExternalEdit(c, patch) ==
    /\ externals < MaxExternals
    /\ Current(c) # {}
    /\ externals' = externals + 1
    /\ rows' = [i \in Ids |-> IF Bears(i, c)
                              THEN {[r EXCEPT !.data = Patched(r.data, patch)] : r \in rows[i]}
                              ELSE rows[i]]
    /\ past' = past \cup Current(c)'
    /\ raced' = raced \cup {c}
    /\ UNCHANGED <<created, backups, cache, localVars, writes>>

\* The process dies and restarts with an empty cache.
Crash ==
    /\ Writing
    /\ cache' = [c \in Codes |-> {}]
    /\ pc' = [p \in Clients |-> "idle"]
    /\ op' = [p \in Clients |-> NoOp]
    /\ seen' = [p \in Clients |-> {}]
    /\ bid' = [p \in Clients |-> 0]
    /\ fills' = [p \in Clients |-> {}]
    /\ drops' = [p \in Clients |-> {}]
    /\ UNCHANGED <<tableVars, backups, externals, historyVars>>

Serve(p) ==
    \/ CacheHit(p) \/ CacheMiss(p) \/ Select(p) \/ Fill(p)
    \/ Insert(p)
    \/ NextBId(p) \/ Snapshot(p) \/ Rename(p) \/ Update(p)
    \/ DeleteRows(p) \/ SweepRows(p) \/ UpdateMeta(p)
    \/ Drop(p) \/ Clear(p)
    \/ Answer(p)

Next ==
    \/ \E p \in Clients : Begin(p) \/ Serve(p) \/ Abort(p)
    \/ \E c \in Codes :
        \/ Lapse(c)
        \/ \E patch \in Patches : ExternalEdit(c, patch)
    \/ ClearBackups
    \/ Crash

Spec == Init /\ [][Next]_vars

\* Requests that were accepted run on, and time passes; nobody owes a request.
Fairness ==
    /\ \A p \in Clients : WF_vars(Serve(p))
    /\ \A c \in Codes : WF_vars(Lapse(c))

FairSpec == Spec /\ Fairness

-----------------------------------------------------------------------------
(* Properties.                                                             *)

\* Edits work on copies (linkCache.get): whatever a request is given, caches or backs up
\* is what the table had under that code after some commit, however edits fail, race or
\* are abandoned. An edit with a new code commits twice, so its first half, the new code
\* with the old fields, is among that.
OnlyCommittedLinks ==
    /\ \A c \in Codes : cache[c] \subseteq {l \in past : l.code = c}
    /\ \A p \in Clients : seen[p] \cup fills[p] \subseteq past
    /\ \A b \in BIds : backups[b] \subseteq past

\* Some request is about to drop the cache's entry of code c, ...
Announced(c) == \E p \in Clients : c \in drops[p] \/ pc[p] = "clear"
\* ... or to put one there.
Pending(c) == \E p \in Clients : \E l \in fills[p] : l.code = c

\* The cache is invalidated by every write that needs it: it disagrees with
\* the table only while a writer is about to drop the entry, or on a code that
\* was written between some request's read (or insert) and its cache fill.
InvalidationWorks == \A c \in Codes \ raced : cache[c] \subseteq Current(c) \/ Announced(c)

\* One live row per code, and one row per id, through concurrent creates,
\* batch imports, renames and reuse of deleted codes.
OneLiveLinkPerCode ==
    \A c \in Codes : \A l, m \in Current(c) : l = m

\* Deleted links are history: no late title, stale edit or re-created code
\* touches their rows.
DeletedRowsAreFrozen ==
    [][\A i \in Ids : \A r \in rows[i] : r.deleted => rows'[i] = rows[i]]_vars

\* Snapshots are never overwritten, though two edits may compute the same
\* b_id and a clear may come between the two statements.
BackupsAreAppendOnly ==
    [][\/ \A b \in BIds : backups[b] \subseteq backups'[b]
       \/ \A b \in BIds : backups'[b] = {}]_vars

\* The store seen from outside: a register for each code, with a copy that may
\* lag behind it (LinkRegister).
Register == INSTANCE LinkRegister WITH
    Readers <- Clients,
    link <- [c \in Codes |-> Current(c)],
    former <- [c \in Codes |-> {l \in past : l.code = c}],
    copy <- cache,
    stale <- {c \in Codes : Announced(c)},
    copying <- {c \in Codes : Pending(c)},
    answer <- seen
RegisterSpec == Register!Spec

\* Once writers stop, every cached link is the current one, though readers
\* never pause.
EventuallyFresh == <>[](\A c \in Codes : cache[c] \subseteq Current(c))

\* What the properties rest on: each step belongs to certain requests; ...
KindsAt(label) ==
    CASE label \in {"lookup", "select"} -> {"get", "edit", "delete"}
      [] label = "fill" -> {"get", "edit", "delete", "create"}
      [] label \in {"next b_id", "snapshot", "rename", "drop renamed", "update"} -> {"edit"}
      [] label = "insert" -> {"create"}
      [] label = "delete" -> {"delete", "bulk"}
      [] label = "sweep" -> {"sweep"}
      [] label = "meta" -> {"meta"}
      [] OTHER -> {"get", "edit", "delete", "create", "bulk", "sweep", "meta", "none"}
StepsFitRequests == \A p \in Clients : op[p].kind \in KindsAt(pc[p])

\* ... cache work is pending only at the steps that do it; ...
PendingIsAnnounced ==
    \A p \in Clients :
        /\ fills[p] # {} => pc[p] = "fill"
        /\ drops[p] # {} => pc[p] \in {"drop", "drop renamed"}

\* ... an id has one row, or none if it was not given out, and a code has one
\* live row; ...
RowsAreSound ==
    /\ \A i \in Ids : \A r, s \in rows[i] : r = s
    /\ \A i \in Ids : i > created => rows[i] = {}
    /\ \A i, j \in Ids, c \in Codes : Bears(i, c) /\ Bears(j, c) => i = j

\* ... a look-up, in the cache or the table, gives one link at most; ...
AnswersAreSingle ==
    /\ \A c \in Codes : \A l, m \in cache[c] : l = m
    /\ \A p \in Clients : \A l, m \in seen[p] : l = m

\* ... what is current is in the past; ...
CurrentIsPast == \A c \in Codes : Current(c) \subseteq past

\* ... and what is about to be cached is current unless it was raced.
FillsAreCurrent ==
    \A p \in Clients : \A l \in fills[p] : l.code \notin raced => l \in Current(l.code)

\* What the comments on GetLink and linkCacheTTL say: writes invalidate the
\* affected entries immediately.
WritesInvalidateImmediately == \A c \in Codes : cache[c] \subseteq Current(c) \/ Announced(c)

\* What the comment on updateLinkRequest says: a field that is not provided is
\* not an explicit value, so the write of an edit leaves it as it is in the table.
EditsKeepOtherFields ==
    [][\A p \in Clients : pc[p] = "update" /\ pc'[p] = "drop" =>
         \A l \in Current(op[p].new), f \in Fields \ DOMAIN op[p].patch :
           \A r \in rows'[l.id] : r.data[f] = l.data[f]]_vars
=============================================================================
