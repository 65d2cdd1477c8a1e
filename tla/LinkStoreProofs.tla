--------------------------- MODULE LinkStoreProofs ---------------------------
(***************************************************************************)
(* What holds of the link store for any clients, codes, patches and        *)
(* bounds.  Sound is inductive: a statement is well typed because its step *)
(* belongs to a request of the right kind, and it changes one row because  *)
(* an id has one row and a code one live row.  With what it says of the    *)
(* cache (Committed, Invalidating) the store implements LinkRegister.      *)
(***************************************************************************)
EXTENDS LinkStore, TLAPS

Sound == TypeOK /\ StepsFitRequests /\ PendingIsAnnounced /\ RowsAreSound /\ AnswersAreSingle

\* The fields a request has, by its kind.
LEMMA RequestFields ==
    ASSUME NEW o \in Ops
    PROVE  /\ o.kind \in {"get", "edit", "delete", "create", "bulk", "sweep", "meta", "none"}
           /\ o.kind \in {"get", "edit", "delete", "meta"} => o.code \in Codes
           /\ o.kind = "edit" => o.new \in Codes /\ o.patch \in Patches
           /\ o.kind = "create" => o.codes \subseteq Codes /\ o.data \in {Blank, Expired}
           /\ o.kind = "bulk" => o.codes \subseteq Codes
BY DEF Ops

LEMMA DataTypes ==
    /\ Blank \in Data /\ Expired \in Data
    /\ \A data \in Data, patch \in Patches : Patched(data, patch) \in Data
<1>1. Blank \in Data /\ Expired \in Data
  BY DEF Blank, Expired, Data, Fields, Values
<1>2. ASSUME NEW data \in Data, NEW patch \in Patches
      PROVE  Patched(data, patch) \in Data
  <2>1. PICK S \in SUBSET Fields : patch \in [S -> Values]
    BY PatchesAssumption
  <2> QED
    BY <2>1 DEF Patched, Data
<1> QED
  BY <1>1, <1>2

LEMMA CurrentAreLinks ==
    ASSUME TypeOK
    PROVE  /\ \A i \in Ids : AsLink(i) \subseteq Link
           /\ \A c : Current(c) \subseteq Link
BY DEF TypeOK, AsLink, Current, Link, Row

\* What a SELECT by code returns is the live row that bears the code.
LEMMA CurrentIsBorne ==
    ASSUME RowsAreSound, NEW c, NEW l
    PROVE  l \in Current(c) <=>
             \E i \in Ids : \E r \in rows[i] :
                /\ r.code = c /\ ~r.deleted
                /\ l = [id |-> i, code |-> c, data |-> r.data]
BY DEF Current, AsLink, Bears, RowsAreSound

LEMMA CurrentIsSingle ==
    ASSUME RowsAreSound, NEW c \in Codes
    PROVE  /\ \A l, m \in Current(c) : l = m
           /\ Current(c) = {} <=> \A i \in Ids : ~Bears(i, c)
<1>1. Current(c) = {} <=> \A i \in Ids : ~Bears(i, c)
  <2>1. ASSUME NEW i \in Ids, Bears(i, c)
        PROVE  Current(c) # {}
    <3>1. PICK r \in rows[i] : r.code = c /\ ~r.deleted
      BY <2>1 DEF Bears
    <3>2. [id |-> i, code |-> c, data |-> r.data] \in Current(c)
      BY <3>1, CurrentIsBorne
    <3> QED
      BY <3>2
  <2>2. ASSUME NEW l \in Current(c)
        PROVE  \E i \in Ids : Bears(i, c)
    BY CurrentIsBorne DEF Bears
  <2> QED
    BY <2>1, <2>2
<1>2. ASSUME NEW l \in Current(c), NEW m \in Current(c)
      PROVE  l = m
  <2>1. PICK i \in Ids : \E r \in rows[i] : /\ r.code = c /\ ~r.deleted
                                            /\ l = [id |-> i, code |-> c, data |-> r.data]
    BY CurrentIsBorne
  <2>2. PICK j \in Ids : \E r \in rows[j] : /\ r.code = c /\ ~r.deleted
                                            /\ m = [id |-> j, code |-> c, data |-> r.data]
    BY CurrentIsBorne
  <2>3. i = j
    BY <2>1, <2>2 DEF RowsAreSound, Bears
  <2> QED
    BY <2>1, <2>2, <2>3 DEF RowsAreSound
<1> QED
  BY <1>1, <1>2

-----------------------------------------------------------------------------
(* Sound is inductive.                                                     *)

LEMMA SoundInit == Init => Sound
<1> SUFFICES ASSUME Init PROVE Sound
  OBVIOUS
<1>1. TypeOK
  BY StoreBounds DEF Init, TypeOK, PCs, Ops, NoOp
<1>2. StepsFitRequests
  BY DEF Init, StepsFitRequests, KindsAt, NoOp
<1>3. PendingIsAnnounced
  BY DEF Init, PendingIsAnnounced
<1>4. RowsAreSound
  BY DEF Init, RowsAreSound, Bears
<1>5. AnswersAreSingle
  BY DEF Init, AnswersAreSingle
<1> QED
  BY <1>1, <1>2, <1>3, <1>4, <1>5 DEF Sound

LEMMA KindsTable ==
    /\ \A label \in {"lookup", "select"} : KindsAt(label) = {"get", "edit", "delete"}
    /\ KindsAt("fill") = {"get", "edit", "delete", "create"}
    /\ \A label \in {"next b_id", "snapshot", "rename", "drop renamed", "update"} :
         KindsAt(label) = {"edit"}
    /\ KindsAt("insert") = {"create"} /\ KindsAt("delete") = {"delete", "bulk"}
    /\ KindsAt("sweep") = {"sweep"} /\ KindsAt("meta") = {"meta"}
    /\ \A label \in {"idle", "drop", "clear", "done"} :
         KindsAt(label) = {"get", "edit", "delete", "create", "bulk", "sweep", "meta", "none"}
BY DEF KindsAt

\* One client moves to a step that fits its request.
LEMMA MoveFits ==
    ASSUME TypeOK, StepsFitRequests, NEW p \in Clients, NEW label \in PCs,
           pc' = [pc EXCEPT ![p] = label], op' = op, op[p].kind \in KindsAt(label)
    PROVE  StepsFitRequests' /\ pc' \in [Clients -> PCs]
BY DEF TypeOK, StepsFitRequests

LEMMA AfterGetFits ==
    ASSUME NEW p, NEW label \in AfterGet(p), op[p].kind \in {"get", "edit", "delete", "create"}
    PROVE  label \in {"done", "delete", "next b_id", "rename", "update"}
           /\ op[p].kind \in KindsAt(label)
BY KindsTable DEF AfterGet, Write

\* A request that is accepted is one of Ops and starts at a step that fits it.
LEMMA BeginAccepts ==
    ASSUME NEW p, Begin(p)
    PROVE  /\ \E request \in Ops, label \in {"lookup", "insert", "delete", "sweep", "meta"} :
                Accept(p, request, label) /\ request.kind \in KindsAt(label)
           /\ Writing \/ UNCHANGED writes
<1>1. CASE \E c \in Codes : Get(p, c)
  <2> PICK c \in Codes : Get(p, c)
    BY <1>1
  <2>1. [kind |-> "get", code |-> c] \in Ops
    BY DEF Ops
  <2> QED
    BY <2>1, KindsTable DEF Get
<1>2. CASE \E c \in Codes : Meta(p, c)
  <2> PICK c \in Codes : Meta(p, c)
    BY <1>2
  <2>1. [kind |-> "meta", code |-> c] \in Ops
    BY DEF Ops
  <2> QED
    BY <2>1, KindsTable DEF Meta
<1>3. CASE \E c, new \in Codes, patch \in Patches : Edit(p, c, new, patch)
  <2> PICK c \in Codes, new \in Codes, patch \in Patches : Edit(p, c, new, patch)
    BY <1>3
  <2>1. [kind |-> "edit", code |-> c, new |-> new, patch |-> patch] \in Ops
    BY DEF Ops
  <2> QED
    BY <2>1, KindsTable DEF Edit
<1>4. CASE \E c \in Codes, hard \in BOOLEAN : Delete(p, c, hard)
  <2> PICK c \in Codes, hard \in BOOLEAN : Delete(p, c, hard)
    BY <1>4
  <2>1. [kind |-> "delete", code |-> c, hard |-> hard] \in Ops
    BY DEF Ops
  <2> QED
    BY <2>1, KindsTable DEF Delete
<1>5. CASE \E codes \in SUBSET Codes, data \in {Blank, Expired} : Create(p, codes, data)
  <2> PICK codes \in SUBSET Codes, data \in {Blank, Expired} : Create(p, codes, data)
    BY <1>5
  <2>1. [kind |-> "create", codes |-> codes, data |-> data] \in Ops
    BY DEF Ops
  <2> QED
    BY <2>1, KindsTable DEF Create
<1>6. CASE \E codes \in SUBSET Codes, hard \in BOOLEAN : DeleteMany(p, codes, hard)
  <2> PICK codes \in SUBSET Codes, hard \in BOOLEAN : DeleteMany(p, codes, hard)
    BY <1>6
  <2>1. [kind |-> "bulk", codes |-> codes, hard |-> hard] \in Ops
    BY DEF Ops
  <2> QED
    BY <2>1, KindsTable DEF DeleteMany
<1>7. CASE \E hard \in BOOLEAN : Sweep(p, hard)
  <2> PICK hard \in BOOLEAN : Sweep(p, hard)
    BY <1>7
  <2>1. [kind |-> "sweep", hard |-> hard] \in Ops
    BY DEF Ops
  <2> QED
    BY <2>1, KindsTable DEF Sweep
<1> QED
  BY <1>1, <1>2, <1>3, <1>4, <1>5, <1>6, <1>7 DEF Begin

LEMMA SoundBegin ==
    ASSUME Sound, NEW p \in Clients, Begin(p)
    PROVE  Sound'
<1> USE DEF tableVars, historyVars
<1>1. PICK request \in Ops, label \in {"lookup", "insert", "delete", "sweep", "meta"} :
        /\ Accept(p, request, label)
        /\ request.kind \in KindsAt(label)
  BY BeginAccepts
<1>2. writes' \in 0..MaxWrites
  BY BeginAccepts, StoreBounds DEF Writing, Sound, TypeOK
<1>3. TypeOK'
  BY <1>1, <1>2 DEF Accept, Goto, Sound, TypeOK, PCs
<1>4. StepsFitRequests' /\ PendingIsAnnounced'
  BY <1>1 DEF Accept, Goto, Sound, TypeOK, StepsFitRequests, PendingIsAnnounced
<1>5. RowsAreSound'
  BY <1>1 DEF Accept, Sound, RowsAreSound, Bears
<1>6. AnswersAreSingle'
  BY <1>1 DEF Accept, Sound, AnswersAreSingle
<1> QED
  BY <1>3, <1>4, <1>5, <1>6 DEF Sound

\* Steps of a request that leave the links table alone.
LEMMA SoundLocalSteps ==
    ASSUME Sound, NEW p \in Clients,
           \/ Abort(p) \/ CacheHit(p) \/ CacheMiss(p) \/ Select(p) \/ Fill(p)
           \/ NextBId(p) \/ Snapshot(p) \/ Drop(p) \/ Clear(p)
    PROVE  Sound'
<1> USE DEF tableVars, budgetVars, historyVars, Goto, Sound
<1>1. UNCHANGED <<rows, created, op, writes, externals, past, raced>>
  BY DEF Abort, CacheHit, CacheMiss, Select, Fill, NextBId, Snapshot, Drop, Clear
<1>2. RowsAreSound'
  BY <1>1 DEF RowsAreSound, Bears
<1>3. op[p].kind \in KindsAt(pc[p]) /\ op[p] \in Ops
  BY DEF StepsFitRequests, TypeOK
<1>4. PICK label \in PCs : pc' = [pc EXCEPT ![p] = label] /\ op[p].kind \in KindsAt(label)
  <2>1. CASE Abort(p)
    BY <1>3, <2>1, RequestFields, KindsTable DEF Abort, PCs
  <2>2. CASE CacheHit(p)
    BY <1>3, <2>2, KindsTable, AfterGetFits DEF CacheHit, PCs
  <2>3. CASE CacheMiss(p) \/ Select(p)
    BY <1>3, <2>3, KindsTable, RequestFields DEF CacheMiss, Select, PCs
  <2>4. CASE Fill(p)
    <3>1. CASE UNCHANGED pc
      BY <1>3, <3>1 DEF TypeOK
    <3>2. CASE \E label \in AfterGet(p) : pc' = [pc EXCEPT ![p] = label]
      BY <1>3, <2>4, <3>2, KindsTable, AfterGetFits DEF Fill, PCs
    <3> QED
      BY <2>4, <3>1, <3>2 DEF Fill
  <2>5. CASE NextBId(p) \/ Snapshot(p)
    BY <1>3, <2>5, KindsTable, RequestFields DEF NextBId, Snapshot, Write, PCs
  <2>6. CASE Drop(p)
    <3>1. CASE UNCHANGED pc
      BY <1>3, <3>1 DEF TypeOK
    <3>2. CASE pc' = [pc EXCEPT ![p] = IF pc[p] = "drop" THEN "done" ELSE "update"]
      BY <1>3, <2>6, <3>2, KindsTable DEF Drop, PCs
    <3> QED
      BY <2>6, <3>1, <3>2 DEF Drop
  <2>7. CASE Clear(p)
    BY <1>3, <2>7, KindsTable DEF Clear, PCs
  <2> QED
    BY <2>1, <2>2, <2>3, <2>4, <2>5, <2>6, <2>7
<1>5. StepsFitRequests' /\ pc' \in [Clients -> PCs]
  BY <1>1, <1>4, MoveFits
<1>6. TypeOK'
  <2>1. CASE Abort(p) \/ CacheMiss(p)
    BY <1>1, <1>5, <2>1 DEF Abort, CacheMiss, TypeOK
  <2>7. CASE NextBId(p)
    <3>1. PICK b \in BIds : bid' = [bid EXCEPT ![p] = b]
      BY <2>7 DEF NextBId
    <3>2. bid' \in [Clients -> Nat]
      BY <3>1, StoreBounds DEF TypeOK, BIds
    <3> QED
      BY <1>1, <1>5, <2>7, <3>2 DEF NextBId, TypeOK
  <2>2. CASE CacheHit(p)
    <3>1. op[p].code \in Codes
      BY <1>3, <2>2, KindsTable, RequestFields DEF CacheHit
    <3> QED
      BY <1>1, <1>5, <2>2, <3>1 DEF CacheHit, TypeOK
  <2>3. CASE Select(p)
    <3>1. Current(op[p].code) \in SUBSET Link
      BY CurrentAreLinks
    <3> QED
      BY <1>1, <1>5, <2>3, <3>1 DEF Select, TypeOK
  <2>4. CASE Fill(p)
    BY <1>1, <1>5, <2>4 DEF Fill, TypeOK, Link
  <2>5. CASE Snapshot(p)
    BY <1>1, <1>5, <2>5 DEF Snapshot, TypeOK
  <2>6. CASE Drop(p) \/ Clear(p)
    BY <1>1, <1>5, <2>6 DEF Drop, Clear, TypeOK
  <2> QED
    BY <2>1, <2>2, <2>3, <2>4, <2>5, <2>6, <2>7
<1>7. PendingIsAnnounced'
  <2>1. CASE Abort(p) \/ CacheHit(p) \/ CacheMiss(p) \/ NextBId(p) \/ Snapshot(p) \/ Clear(p)
    <3>1. pc[p] \notin {"fill", "drop", "drop renamed"} /\ UNCHANGED <<fills, drops>>
      BY <2>1 DEF Abort, CacheHit, CacheMiss, NextBId, Snapshot, Clear, Statements
    <3> QED
      BY <1>4, <3>1 DEF PendingIsAnnounced, TypeOK
  <2>2. CASE Select(p)
    BY <2>2 DEF Select, PendingIsAnnounced, TypeOK
  <2>3. CASE Fill(p)
    <3>1. pc[p] = "fill" /\ drops' = drops /\ fills' = [fills EXCEPT ![p] = fills'[p]]
      BY <2>3 DEF Fill, TypeOK
    <3>2. fills'[p] = {} \/ pc' = pc
      BY <2>3 DEF Fill
    <3> QED
      BY <1>4, <3>1, <3>2 DEF PendingIsAnnounced, TypeOK
  <2>4. CASE Drop(p)
    BY <2>4 DEF Drop, PendingIsAnnounced, TypeOK
  <2> QED
    BY <2>1, <2>2, <2>3, <2>4
<1>8. AnswersAreSingle'
  <2>1. CASE Abort(p) \/ CacheMiss(p) \/ NextBId(p) \/ Snapshot(p)
    BY <2>1 DEF Abort, CacheMiss, NextBId, Snapshot, AnswersAreSingle
  <2>2. CASE CacheHit(p)
    <3>1. op[p].code \in Codes
      BY <1>3, <2>2, KindsTable, RequestFields DEF CacheHit
    <3> QED
      BY <2>2, <3>1 DEF CacheHit, AnswersAreSingle, TypeOK
  <2>3. CASE Select(p)
    <3>1. op[p].code \in Codes
      BY <1>3, <2>3, KindsTable, RequestFields DEF Select
    <3> QED
      BY <2>3, <3>1, CurrentIsSingle DEF Select, AnswersAreSingle, TypeOK
  <2>4. CASE Fill(p)
    BY <2>4 DEF Fill, AnswersAreSingle, TypeOK, Link
  <2>5. CASE Drop(p) \/ Clear(p)
    BY <2>5 DEF Drop, Clear, AnswersAreSingle, TypeOK
  <2> QED
    BY <2>1, <2>2, <2>3, <2>4, <2>5
<1> QED
  BY <1>2, <1>5, <1>6, <1>7, <1>8

LEMMA SoundAnswer ==
    ASSUME Sound, NEW p \in Clients, Answer(p)
    PROVE  Sound'
<1> USE DEF Answer, Goto, tableVars, budgetVars, historyVars
<1>1. NoOp \in Ops /\ NoOp.kind \in KindsAt("idle")
  BY KindsTable DEF Ops, NoOp
<1>2. TypeOK'
  BY <1>1 DEF Sound, TypeOK, PCs
<1>3. StepsFitRequests'
  BY <1>1 DEF Sound, TypeOK, StepsFitRequests
<1>4. PendingIsAnnounced'
  BY DEF Sound, TypeOK, PendingIsAnnounced
<1>5. RowsAreSound' /\ AnswersAreSingle'
  BY DEF Sound, RowsAreSound, AnswersAreSingle, Bears, TypeOK
<1> QED
  BY <1>2, <1>3, <1>4, <1>5 DEF Sound

-----------------------------------------------------------------------------
(* Writes to the links table.                                              *)

\* Rows changed in place keep their codes, unless they die.
LEMMA InPlaceKeepsRows ==
    ASSUME RowsAreSound, created' = created,
           \A i \in Ids : \A r \in rows'[i] :
             \E s \in rows[i] : ~r.deleted => ~s.deleted /\ s.code = r.code,
           \A i \in Ids : \A r, s \in rows'[i] : r = s
    PROVE  RowsAreSound'
<1>1. \A i \in Ids, c \in Codes : Bears(i, c)' => Bears(i, c)
  BY DEF Bears
<1>2. \A i \in Ids : i > created' => rows'[i] = {}
  BY DEF RowsAreSound
<1> QED
  BY <1>1, <1>2 DEF RowsAreSound

\* What Commit does to the types.
LEMMA CommitTypes ==
    ASSUME TypeOK, NEW new \in [Ids -> SUBSET Row], Commit(new)
    PROVE  rows' \in [Ids -> SUBSET Row] /\ past' \subseteq Link /\ raced' \subseteq Codes
<1>1. rows' = new
  BY DEF Commit
<1>2. \A c \in Codes : Current(c)' \subseteq Link
  BY <1>1 DEF Current, AsLink, Link, Row
<1> QED
  BY <1>1, <1>2 DEF Commit, TypeOK

LEMMA RowEdits ==
    ASSUME NEW r \in Row
    PROVE  /\ \A c \in Codes : [r EXCEPT !.code = c] \in Row
           /\ \A data \in Data : [r EXCEPT !.data = data] \in Row
           /\ [r EXCEPT !.deleted = TRUE] \in Row
           /\ [r EXCEPT !.data["title"] = 1] \in Row
<1>1. [r.data EXCEPT !["title"] = 1] \in Data
  BY DEF Row, Data, Values, Fields
<1> QED
  BY <1>1 DEF Row

\* A statement that finds nothing to do.
LEMMA SoundNoEffect ==
    ASSUME Sound, NEW p \in Clients, pc[p] \in Statements, NoEffect(p),
           UNCHANGED <<created, backups, cache, op, seen, bid, fills, writes, externals>>
    PROVE  Sound'
<1>1. "done" \in PCs /\ op[p].kind \in KindsAt("done")
  BY RequestFields, KindsTable DEF PCs, Sound, TypeOK
<1>2. StepsFitRequests' /\ pc' \in [Clients -> PCs]
  BY <1>1, MoveFits DEF NoEffect, Goto, Sound
<1>3. TypeOK'
  BY <1>2 DEF NoEffect, Sound, TypeOK
<1>4. PendingIsAnnounced'
  BY DEF NoEffect, Goto, Sound, TypeOK, PendingIsAnnounced, Statements
<1>5. RowsAreSound' /\ AnswersAreSingle'
  BY DEF NoEffect, Sound, RowsAreSound, AnswersAreSingle, Bears
<1> QED
  BY <1>2, <1>3, <1>4, <1>5 DEF Sound

\* A statement that commits: its row conditions remain.
LEMMA SoundCommit ==
    ASSUME Sound, NEW p \in Clients, pc[p] \in Statements,
           NEW new \in [Ids -> SUBSET Row], Commit(new), RowsAreSound',
           NEW label \in PCs, Goto(p, label), op[p].kind \in KindsAt(label),
           NEW codes \in SUBSET Codes, drops' = [drops EXCEPT ![p] = codes],
           codes # {} => label \in {"drop", "drop renamed"},
           UNCHANGED <<created, backups, cache, op, seen, bid, fills, writes, externals>>
    PROVE  Sound'
<1>1. StepsFitRequests' /\ pc' \in [Clients -> PCs]
  BY MoveFits DEF Goto, Sound
<1>2. TypeOK'
  BY <1>1, CommitTypes DEF Sound, TypeOK
<1>3. PendingIsAnnounced'
  BY DEF Goto, Sound, TypeOK, PendingIsAnnounced, Statements
<1>4. AnswersAreSingle'
  BY DEF Sound, AnswersAreSingle
<1> QED
  BY <1>1, <1>2, <1>3, <1>4 DEF Sound

LEMMA SoundUpdate ==
    ASSUME Sound, NEW p \in Clients, Update(p)
    PROVE  Sound'
<1>1. op[p].kind = "edit" /\ op[p] \in Ops
  BY KindsTable DEF Update, Sound, StepsFitRequests, TypeOK
<1>2. op[p].new \in Codes /\ op[p].patch \in Patches
  BY <1>1, RequestFields
<1>3. /\ pc[p] \in Statements
      /\ UNCHANGED <<created, backups, cache, op, seen, bid, fills, writes, externals>>
  BY DEF Update, Statements, budgetVars
<1>4. CASE Current(op[p].new) = {}
  <2>1. NoEffect(p)
    BY <1>4 DEF Update
  <2> QED
    BY <1>3, <2>1, SoundNoEffect
<1>5. CASE Current(op[p].new) # {}
  <2> DEFINE Saved(i) == {[r EXCEPT !.data = Patched(l.data, op[p].patch)] :
                            r \in rows[i], l \in seen[p]}
             New == [i \in Ids |-> IF Bears(i, op[p].new) THEN Saved(i) ELSE rows[i]]
  <2>1. Commit(New) /\ drops' = [drops EXCEPT ![p] = {op[p].new}] /\ Goto(p, "drop")
    BY <1>5 DEF Update
  <2>2. \A i \in Ids : Saved(i) \subseteq Row
    <3>1. \A l \in seen[p] : Patched(l.data, op[p].patch) \in Data
      BY <1>2, DataTypes DEF Sound, TypeOK, Link
    <3>2. \A i \in Ids : rows[i] \subseteq Row
      BY DEF Sound, TypeOK
    <3> QED
      BY <3>1, <3>2, RowEdits DEF Row
  <2>3. New \in [Ids -> SUBSET Row]
    BY <2>2 DEF Sound, TypeOK
  <2>4. RowsAreSound'
    <3>1. rows' = New
      BY <2>1 DEF Commit
    <3>2. \A i \in Ids : \A r \in rows'[i] :
            \E s \in rows[i] : ~r.deleted => ~s.deleted /\ s.code = r.code
      BY <3>1 DEF Sound, TypeOK, Row
    <3>3. \A i \in Ids : \A r, s \in rows'[i] : r = s
      BY <3>1 DEF Sound, RowsAreSound, AnswersAreSingle
    <3> QED
      BY <3>2, <3>3, InPlaceKeepsRows DEF Update, Sound
  <2>5. op[p].kind \in KindsAt("drop") /\ "drop" \in PCs
    BY <1>1, KindsTable DEF PCs
  <2>6. {op[p].new} \in SUBSET Codes
    BY <1>2
  <2> HIDE DEF New
  <2> QED
    BY <1>3, <2>1, <2>3, <2>4, <2>5, <2>6, SoundCommit
<1> QED
  BY <1>4, <1>5

\* Marking or removing some of the rows.
LEMMA DyingRows ==
    ASSUME Sound, created' = created, NEW hard, NEW new, rows' = new,
           new = [i \in Ids |-> new[i]],
           \A i \in Ids : new[i] = rows[i] \/ new[i] = Gone(i, hard)
    PROVE  new \in [Ids -> SUBSET Row] /\ RowsAreSound'
<1>1. \A i \in Ids : rows[i] \subseteq Row
  BY DEF Sound, TypeOK
<1>2. \A i \in Ids : \A r \in rows[i] : [r EXCEPT !.deleted = TRUE].deleted
  BY <1>1 DEF Row
<1>3. \A i \in Ids : Gone(i, hard) \subseteq Row /\ \A r \in Gone(i, hard) : r.deleted
  BY <1>1, <1>2, RowEdits DEF Gone
<1>4. \A i \in Ids : \A r, s \in Gone(i, hard) : r = s
  BY DEF Sound, RowsAreSound, Gone
<1>5. \A i \in Ids : \A r \in Gone(i, hard) : rows[i] # {}
  BY DEF Gone
<1>6. \A i \in Ids : \A r \in rows'[i] :
        \E s \in rows[i] : ~r.deleted => ~s.deleted /\ s.code = r.code
  BY <1>3, <1>5
<1>7. \A i \in Ids : \A r, s \in rows'[i] : r = s
  BY <1>4 DEF Sound, RowsAreSound
<1>8. new \in [Ids -> SUBSET Row]
  BY <1>1, <1>3
<1> QED
  BY <1>6, <1>7, <1>8, InPlaceKeepsRows DEF Sound

LEMMA SoundDeleteRows ==
    ASSUME Sound, NEW p \in Clients, DeleteRows(p)
    PROVE  Sound'
<1> DEFINE codes == IF op[p].kind = "bulk" THEN op[p].codes ELSE {op[p].code}
           New == [i \in Ids |-> IF \E c \in codes : Bears(i, c)
                                 THEN Gone(i, op[p].hard)
                                 ELSE rows[i]]
<1>1. op[p].kind \in {"delete", "bulk"} /\ op[p] \in Ops
  BY KindsTable DEF DeleteRows, Sound, StepsFitRequests, TypeOK
<1>2. codes \in SUBSET Codes
  BY <1>1, RequestFields
<1>3. /\ pc[p] \in Statements
      /\ UNCHANGED <<created, backups, cache, op, seen, bid, fills, writes, externals>>
  BY DEF DeleteRows, Statements, budgetVars
<1>4. CASE NoEffect(p)
  BY <1>3, <1>4, SoundNoEffect
<1>5. CASE ~NoEffect(p)
  <2>1. Commit(New) /\ drops' = [drops EXCEPT ![p] = codes] /\ Goto(p, "drop")
    BY <1>5 DEF DeleteRows
  <2>2. rows' = New
    BY <2>1 DEF Commit
  <2>3. \A i \in Ids : New[i] = rows[i] \/ New[i] = Gone(i, op[p].hard)
    OBVIOUS
  <2>4. New = [i \in Ids |-> New[i]]
    OBVIOUS
  <2>5. op[p].kind \in KindsAt("drop") /\ "drop" \in PCs
    BY <1>1, KindsTable DEF PCs
  <2> HIDE DEF New, codes
  <2>6. New \in [Ids -> SUBSET Row] /\ RowsAreSound'
    BY <1>3, <2>2, <2>3, <2>4, DyingRows
  <2> QED
    BY <1>2, <1>3, <2>1, <2>5, <2>6, SoundCommit
<1> QED
  BY <1>4, <1>5

LEMMA SoundSweepRows ==
    ASSUME Sound, NEW p \in Clients, SweepRows(p)
    PROVE  Sound'
<1> DEFINE New == [i \in Ids |-> IF \E r \in rows[i] : ~r.deleted /\ r.data["expires"] = 1
                                 THEN Gone(i, op[p].hard)
                                 ELSE rows[i]]
<1>1. op[p].kind = "sweep" /\ drops[p] = {} /\ drops = [drops EXCEPT ![p] = {}]
  BY KindsTable DEF SweepRows, Sound, StepsFitRequests, PendingIsAnnounced, TypeOK
<1>2. /\ pc[p] \in Statements
      /\ UNCHANGED <<created, backups, cache, op, seen, bid, fills, drops, writes, externals>>
  BY DEF SweepRows, Statements, budgetVars
<1>3. Commit(New) /\ Goto(p, "clear")
  BY DEF SweepRows
<1>4. rows' = New
  BY <1>3 DEF Commit
<1>5. \A i \in Ids : New[i] = rows[i] \/ New[i] = Gone(i, op[p].hard)
  OBVIOUS
<1>6. New = [i \in Ids |-> New[i]]
  OBVIOUS
<1>7. op[p].kind \in KindsAt("clear") /\ "clear" \in PCs
  <2>1. op[p].kind = "sweep"
    BY <1>1
  <2> QED
    BY <2>1, KindsTable DEF PCs
<1> HIDE DEF New
<1>8. New \in [Ids -> SUBSET Row] /\ RowsAreSound'
  BY <1>2, <1>4, <1>5, <1>6, DyingRows
<1>9. drops' = [drops EXCEPT ![p] = {}] /\ {} \in SUBSET Codes
  BY <1>1, <1>2
<1> QED
  BY <1>2, <1>3, <1>7, <1>8, <1>9, SoundCommit

LEMMA SoundUpdateMeta ==
    ASSUME Sound, NEW p \in Clients, UpdateMeta(p)
    PROVE  Sound'
<1> DEFINE Titled(i) == {[r EXCEPT !.data["title"] = 1] : r \in rows[i]}
           New == [i \in Ids |-> IF Bears(i, op[p].code) THEN Titled(i) ELSE rows[i]]
<1>1. op[p].kind = "meta" /\ op[p] \in Ops
  BY KindsTable DEF UpdateMeta, Sound, StepsFitRequests, TypeOK
<1>2. {op[p].code} \in SUBSET Codes
  BY <1>1, RequestFields
<1>3. /\ pc[p] \in Statements
      /\ UNCHANGED <<created, backups, cache, op, seen, bid, fills, writes, externals>>
  BY DEF UpdateMeta, Statements, budgetVars
<1>4. Commit(New) /\ drops' = [drops EXCEPT ![p] = {op[p].code}] /\ Goto(p, "drop")
  BY DEF UpdateMeta
<1>5. \A i \in Ids : rows[i] \subseteq Row
  BY DEF Sound, TypeOK
<1>6. \A i \in Ids : Titled(i) \subseteq Row
  BY <1>5, RowEdits
<1>7. New \in [Ids -> SUBSET Row]
  BY <1>5, <1>6
<1>8. RowsAreSound'
  <2>1. rows' = New
    BY <1>4 DEF Commit
  <2>2. \A i \in Ids : \A r \in rows'[i] :
          \E s \in rows[i] : ~r.deleted => ~s.deleted /\ s.code = r.code
    BY <1>5, <2>1 DEF Row
  <2>3. \A i \in Ids : \A r, s \in rows'[i] : r = s
    BY <2>1 DEF Sound, RowsAreSound
  <2> QED
    BY <1>3, <2>2, <2>3, InPlaceKeepsRows DEF Sound
<1>9. op[p].kind \in KindsAt("drop") /\ "drop" \in PCs
  BY <1>1, KindsTable DEF PCs
<1> HIDE DEF New
<1> QED
  BY <1>2, <1>3, <1>4, <1>7, <1>8, <1>9, SoundCommit

LEMMA SoundRename ==
    ASSUME Sound, NEW p \in Clients, Rename(p)
    PROVE  Sound'
<1> DEFINE Moved(i) == {[r EXCEPT !.code = op[p].new] : r \in rows[i]}
           New == [i \in Ids |-> IF Bears(i, op[p].code) THEN Moved(i) ELSE rows[i]]
<1>1. op[p].kind = "edit" /\ op[p] \in Ops
  BY KindsTable DEF Rename, Sound, StepsFitRequests, TypeOK
<1>2. op[p].code \in Codes /\ op[p].new \in Codes
  BY <1>1, RequestFields
<1>3. /\ pc[p] \in Statements
      /\ UNCHANGED <<created, backups, cache, op, seen, bid, fills, writes, externals>>
  BY DEF Rename, Statements, budgetVars
<1>4. CASE NoEffect(p)
  BY <1>3, <1>4, SoundNoEffect
<1>5. CASE ~NoEffect(p)
  <2>1. /\ Commit(New) /\ drops' = [drops EXCEPT ![p] = {op[p].code, op[p].new}]
        /\ Goto(p, "drop renamed") /\ Current(op[p].new) = {}
    BY <1>5 DEF Rename, RenameRow
  <2>2. \A i \in Ids : rows[i] \subseteq Row
    BY DEF Sound, TypeOK
  <2>3. \A i \in Ids : Moved(i) \subseteq Row
    BY <1>2, <2>2, RowEdits
  <2>4. New \in [Ids -> SUBSET Row]
    BY <2>2, <2>3
  <2>5. RowsAreSound'
    <3>1. rows' = New
      BY <2>1 DEF Commit
    <3>2. \A i \in Ids : ~Bears(i, op[p].new)
      BY <1>2, <2>1, CurrentIsSingle DEF Sound
    <3>3. \A i \in Ids : \A r, s \in rows'[i] : r = s
      BY <3>1 DEF Sound, RowsAreSound
    <3>4. \A i \in Ids : i > created' => rows'[i] = {}
      BY <1>3, <3>1 DEF Sound, RowsAreSound
    <3>5. ASSUME NEW i \in Ids, NEW c \in Codes, Bears(i, c)'
          PROVE  (c = op[p].new /\ Bears(i, op[p].code)) \/ (c # op[p].new /\ Bears(i, c))
      <4>1. CASE Bears(i, op[p].code)
        <5>1. \A r \in rows'[i] : r.code = op[p].new
          BY <2>2, <3>1, <4>1 DEF Row
        <5> QED
          BY <3>5, <4>1, <5>1 DEF Bears
      <4>2. CASE ~Bears(i, op[p].code)
        <5>1. rows'[i] = rows[i]
          BY <3>1, <4>2
        <5> QED
          BY <3>2, <3>5, <5>1 DEF Bears
      <4> QED
        BY <4>1, <4>2
    <3>6. \A i, j \in Ids, c \in Codes : Bears(i, c)' /\ Bears(j, c)' => i = j
      BY <1>2, <3>5 DEF Sound, RowsAreSound
    <3> QED
      BY <3>3, <3>4, <3>6 DEF RowsAreSound
  <2>6. op[p].kind \in KindsAt("drop renamed") /\ "drop renamed" \in PCs
    BY <1>1, KindsTable DEF PCs
  <2>7. {op[p].code, op[p].new} \in SUBSET Codes
    BY <1>2
  <2> HIDE DEF New
  <2> QED
    BY <1>3, <2>1, <2>4, <2>5, <2>6, <2>7, SoundCommit
<1> QED
  BY <1>4, <1>5

LEMMA SoundInsert ==
    ASSUME Sound, NEW p \in Clients, Insert(p)
    PROVE  Sound'
<1> DEFINE free == {c \in op[p].codes : Current(c) = {}}
<1>1. op[p].kind = "create" /\ op[p] \in Ops /\ drops[p] = {}
  BY KindsTable DEF Insert, Sound, StepsFitRequests, PendingIsAnnounced, TypeOK
<1>2. free \subseteq Codes /\ op[p].data \in Data
  BY <1>1, RequestFields, DataTypes
<1>3. /\ pc[p] \in Statements
      /\ UNCHANGED <<backups, cache, op, seen, bid, writes, externals>>
  BY DEF Insert, Statements, budgetVars
<1>4. CASE free = {}
  <2>1. NoEffect(p) /\ UNCHANGED <<created, fills>>
    BY <1>4 DEF Insert
  <2> QED
    BY <1>3, <2>1, SoundNoEffect
<1>5. CASE free # {}
  <2> DEFINE Fresh(id, i) == {[code |-> c, data |-> op[p].data, deleted |-> FALSE] :
                                c \in {c \in free : id[c] = i}}
             New(id) == [i \in Ids |-> rows[i] \cup Fresh(id, i)]
             Filled(id) == {[id |-> id[c], code |-> c, data |-> op[p].data] : c \in free}
  <2>1. PICK last \in Ids, id \in [free -> Ids] :
          /\ \A c, d \in free : id[c] = id[d] => c = d
          /\ {id[c] : c \in free} = (created + 1)..last
          /\ Commit(New(id))
          /\ created' = last
          /\ fills' = [fills EXCEPT ![p] = Filled(id)]
          /\ Goto(p, "fill")
          /\ UNCHANGED drops
    BY <1>5 DEF Insert
  <2>2. \A i \in Ids : rows[i] \subseteq Row /\ Fresh(id, i) \subseteq Row
    <3>1. \A i \in Ids : rows[i] \subseteq Row
      BY DEF Sound, TypeOK
    <3>2. \A c \in free : [code |-> c, data |-> op[p].data, deleted |-> FALSE] \in Row
      BY <1>2 DEF Row
    <3> QED
      BY <3>1, <3>2
  <2>3. New(id) \in [Ids -> SUBSET Row]
    BY <2>2
  <2>4. rows' = New(id)
    BY <2>1 DEF Commit
  <2>5. \A i \in Ids : Fresh(id, i) # {} => created < i /\ i <= last /\ rows[i] = {}
    <3>1. created \in Nat
      BY DEF Sound, TypeOK
    <3>2. ASSUME NEW i \in Ids, NEW c \in free, id[c] = i
          PROVE  created < i /\ i <= last /\ rows[i] = {}
      <4>1. i \in (created + 1)..last
        BY <2>1, <3>2
      <4>2. created < i /\ i <= last
        BY <3>1, <4>1
      <4> QED
        BY <4>2 DEF Sound, RowsAreSound, Ids
    <3> QED
      BY <3>2
  <2>6. created <= last
    <3>1. PICK c \in free : TRUE
      BY <1>5
    <3>2. id[c] \in (created + 1)..last
      BY <2>1
    <3> QED
      BY <3>2, StoreBounds DEF Sound, TypeOK, Ids
  <2>7. RowsAreSound'
    <3>1. \A i \in Ids : \A r, s \in rows'[i] : r = s
      <4>1. \A i \in Ids : \A r, s \in Fresh(id, i) : r = s
        BY <2>1
      <4>2. \A i \in Ids : \A r, s \in rows[i] : r = s
        BY DEF Sound, RowsAreSound
      <4> HIDE DEF Fresh
      <4> QED
        BY <2>4, <2>5, <4>1, <4>2
    <3>2. \A i \in Ids : i > created' => rows'[i] = {}
      <4> HIDE DEF Fresh
      <4> SUFFICES ASSUME NEW i \in Ids, i > last PROVE rows'[i] = {}
        BY <2>1
      <4>1. Fresh(id, i) = {}
        BY <2>5 DEF Ids
      <4>2. rows[i] = {}
        <5>1. i \in Nat /\ last \in Nat /\ created \in Nat
          BY StoreBounds DEF Sound, TypeOK, Ids
        <5>2. i > created
          BY <2>6, <5>1
        <5> QED
          BY <5>2 DEF Sound, RowsAreSound
      <4> QED
        BY <2>4, <4>1, <4>2
    <3>3. ASSUME NEW i \in Ids, NEW c \in Codes, Bears(i, c)'
          PROVE  Bears(i, c) \/ (c \in free /\ id[c] = i)
      BY <2>4, <3>3 DEF Bears
    <3>4. \A i \in Ids, c \in free : ~Bears(i, c)
      BY <1>2, CurrentIsSingle DEF Sound
    <3>5. \A i, j \in Ids, c \in Codes : Bears(i, c)' /\ Bears(j, c)' => i = j
      BY <3>3, <3>4 DEF Sound, RowsAreSound
    <3> QED
      BY <3>1, <3>2, <3>5 DEF RowsAreSound
  <2>8. StepsFitRequests' /\ pc' \in [Clients -> PCs]
    <3>1. "fill" \in PCs /\ op[p].kind \in KindsAt("fill")
      BY <1>1, KindsTable DEF PCs
    <3> QED
      BY <1>3, <2>1, <3>1, MoveFits DEF Goto, Sound
  <2>9. TypeOK'
    <3>1. Filled(id) \subseteq Link
      BY <1>2 DEF Link
    <3>2. fills' \in [Clients -> SUBSET Link]
      BY <2>1, <3>1 DEF Sound, TypeOK
    <3>3. created' \in 0..MaxLinks
      BY <2>1, StoreBounds DEF Ids
    <3>4. rows' \in [Ids -> SUBSET Row] /\ past' \subseteq Link /\ raced' \subseteq Codes
      BY <2>1, <2>3, CommitTypes DEF Sound
    <3>5. UNCHANGED <<backups, cache, op, seen, bid, drops, writes, externals>>
      BY <1>3, <2>1
    <3> QED
      BY <2>8, <3>2, <3>3, <3>4, <3>5 DEF Sound, TypeOK
  <2>10. PendingIsAnnounced'
    BY <1>1, <2>1 DEF Goto, Sound, TypeOK, PendingIsAnnounced
  <2>11. AnswersAreSingle'
    BY <1>3 DEF Sound, AnswersAreSingle
  <2> QED
    BY <2>7, <2>8, <2>9, <2>10, <2>11 DEF Sound
<1> QED
  BY <1>4, <1>5

-----------------------------------------------------------------------------
(* The outside, and the whole.                                             *)

LEMMA SoundLapse ==
    ASSUME Sound, NEW c \in Codes, Lapse(c)
    PROVE  Sound'
<1> USE DEF Lapse, Sound, tableVars, localVars, budgetVars, historyVars
<1>1. TypeOK' /\ StepsFitRequests' /\ PendingIsAnnounced'
  BY DEF TypeOK, StepsFitRequests, PendingIsAnnounced
<1>2. RowsAreSound' /\ AnswersAreSingle'
  BY DEF RowsAreSound, AnswersAreSingle, Bears, TypeOK
<1> QED
  BY <1>1, <1>2

LEMMA SoundClearBackups ==
    ASSUME Sound, ClearBackups
    PROVE  Sound'
<1> USE DEF ClearBackups, Writing, Sound, tableVars, localVars, historyVars
<1>1. TypeOK'
  BY StoreBounds DEF TypeOK
<1>2. StepsFitRequests' /\ PendingIsAnnounced'
  BY DEF StepsFitRequests, PendingIsAnnounced
<1>3. RowsAreSound' /\ AnswersAreSingle'
  BY DEF RowsAreSound, AnswersAreSingle, Bears
<1> QED
  BY <1>1, <1>2, <1>3

LEMMA SoundCrash ==
    ASSUME Sound, Crash
    PROVE  Sound'
<1> USE DEF Crash, Writing, Sound, tableVars, historyVars
<1>1. TypeOK'
  <2>1. NoOp \in Ops /\ "idle" \in PCs
    BY DEF Ops, NoOp, PCs
  <2> QED
    BY <2>1, StoreBounds DEF TypeOK
<1>2. StepsFitRequests' /\ PendingIsAnnounced'
  BY KindsTable DEF StepsFitRequests, PendingIsAnnounced, NoOp
<1>3. RowsAreSound' /\ AnswersAreSingle'
  BY DEF RowsAreSound, AnswersAreSingle, Bears
<1> QED
  BY <1>1, <1>2, <1>3

LEMMA SoundExternalEdit ==
    ASSUME Sound, NEW c \in Codes, NEW patch \in Patches, ExternalEdit(c, patch)
    PROVE  Sound'
<1> DEFINE Edited(i) == {[r EXCEPT !.data = Patched(r.data, patch)] : r \in rows[i]}
<1>1. rows' = [i \in Ids |-> IF Bears(i, c) THEN Edited(i) ELSE rows[i]]
  BY DEF ExternalEdit
<1>2. UNCHANGED <<created, backups, cache, pc, op, seen, bid, fills, drops, writes>>
  BY DEF ExternalEdit, localVars
<1>3. \A i \in Ids : rows[i] \subseteq Row
  BY DEF Sound, TypeOK
<1>4. \A i \in Ids : Edited(i) \subseteq Row
  BY <1>3, RowEdits, DataTypes DEF Row
<1>5. rows' \in [Ids -> SUBSET Row]
  BY <1>1, <1>3, <1>4
<1>6. RowsAreSound'
  <2>1. \A i \in Ids : \A r \in rows'[i] :
          \E s \in rows[i] : ~r.deleted => ~s.deleted /\ s.code = r.code
    BY <1>1, <1>3 DEF Row
  <2>2. \A i \in Ids : \A r, s \in rows'[i] : r = s
    BY <1>1 DEF Sound, RowsAreSound
  <2> QED
    BY <1>2, <2>1, <2>2, InPlaceKeepsRows DEF Sound
<1>7. TypeOK'
  <2>1. Current(c)' \subseteq Link
    BY <1>5 DEF Current, AsLink, Link, Row
  <2>2. past' \subseteq Link /\ raced' \subseteq Codes /\ externals' \in 0..MaxExternals
    BY <2>1, StoreBounds DEF ExternalEdit, Sound, TypeOK
  <2> QED
    BY <1>2, <1>5, <2>2 DEF Sound, TypeOK
<1>8. StepsFitRequests' /\ PendingIsAnnounced' /\ AnswersAreSingle'
  BY <1>2 DEF Sound, StepsFitRequests, PendingIsAnnounced, AnswersAreSingle
<1> QED
  BY <1>6, <1>7, <1>8 DEF Sound

LEMMA SoundUnchanged ==
    ASSUME Sound, UNCHANGED vars
    PROVE  Sound'
<1> USE DEF Sound, vars, tableVars, localVars, budgetVars, historyVars
<1>1. TypeOK' /\ StepsFitRequests' /\ PendingIsAnnounced'
  BY DEF TypeOK, StepsFitRequests, PendingIsAnnounced
<1>2. RowsAreSound' /\ AnswersAreSingle'
  BY DEF RowsAreSound, AnswersAreSingle, Bears
<1> QED
  BY <1>1, <1>2

LEMMA SoundNext == Sound /\ [Next]_vars => Sound'
<1> SUFFICES ASSUME Sound, [Next]_vars PROVE Sound'
  OBVIOUS
<1>1. ASSUME NEW p \in Clients, Begin(p) PROVE Sound'
  BY <1>1, SoundBegin
<1>2. ASSUME NEW p \in Clients, Serve(p) \/ Abort(p) PROVE Sound'
  BY <1>2, SoundLocalSteps, SoundAnswer, SoundInsert, SoundRename, SoundUpdate, SoundDeleteRows,
     SoundSweepRows, SoundUpdateMeta DEF Serve
<1>3. ASSUME NEW c \in Codes, Lapse(c) \/ \E patch \in Patches : ExternalEdit(c, patch)
      PROVE  Sound'
  BY <1>3, SoundLapse, SoundExternalEdit
<1>4. ASSUME ClearBackups \/ Crash PROVE Sound'
  BY <1>4, SoundClearBackups, SoundCrash
<1>5. CASE UNCHANGED vars
  BY <1>5, SoundUnchanged
<1> QED
  BY <1>1, <1>2, <1>3, <1>4, <1>5 DEF Next

LEMMA AlwaysSound == Spec => []Sound
BY SoundInit, SoundNext, PTL DEF Spec

-----------------------------------------------------------------------------
(* What follows from Sound.                                                *)

\* The table, the cache, the backups and every request in progress hold links
\* of the declared shapes: the fields each step reads of a request are there.
THEOREM TypeCorrect == Spec => []TypeOK
BY AlwaysSound, PTL DEF Sound

\* For any number of concurrent creates, imports, renames and deletes, a code
\* has one live link (the unique index of the links table).
THEOREM OneLivePerCode == Spec => []OneLiveLinkPerCode
<1>1. Sound => OneLiveLinkPerCode
  BY CurrentIsSingle DEF Sound, OneLiveLinkPerCode
<1> QED
  BY <1>1, AlwaysSound, PTL

LEMMA FreshIds ==
    ASSUME Sound, NEW p \in Clients, Insert(p)
    PROVE  \A i \in Ids : rows[i] # {} => rows'[i] = rows[i]
<1> DEFINE free == {c \in op[p].codes : Current(c) = {}}
<1>1. CASE free = {}
  BY <1>1 DEF Insert, NoEffect
<1>2. CASE free # {}
  <2>1. PICK last \in Ids, id \in [free -> Ids] :
          /\ {id[c] : c \in free} = (created + 1)..last
          /\ rows' = [i \in Ids |->
               rows[i] \cup {[code |-> c, data |-> op[p].data, deleted |-> FALSE] :
                              c \in {c \in free : id[c] = i}}]
    BY <1>2 DEF Insert, Commit
  <2>2. ASSUME NEW i \in Ids, NEW c \in free, id[c] = i
        PROVE  rows[i] = {}
    <3>1. i \in (created + 1)..last /\ created \in Nat
      BY <2>1, <2>2 DEF Sound, TypeOK
    <3>2. i > created
      BY <3>1
    <3> QED
      BY <3>2 DEF Sound, RowsAreSound
  <2> QED
    BY <2>1, <2>2
<1> QED
  BY <1>1, <1>2

\* A row that is deleted bears no code, so no statement's WHERE finds it.
LEMMA FrozenStep ==
    ASSUME Sound, [Next]_vars, NEW i \in Ids, NEW r \in rows[i], r.deleted
    PROVE  rows'[i] = rows[i]
<1>1. /\ \A c : ~Bears(i, c)
      /\ ~\E s \in rows[i] : ~s.deleted /\ s.data["expires"] = 1
  BY DEF Bears, Sound, RowsAreSound
<1>2. rows = [j \in Ids |-> rows[j]]
  BY DEF Sound, TypeOK
<1>3. ASSUME NEW p \in Clients, Begin(p)
      PROVE  UNCHANGED rows
  BY <1>3, BeginAccepts DEF Accept, tableVars
<1>4. ASSUME NEW p \in Clients,
             \/ Abort(p) \/ CacheHit(p) \/ CacheMiss(p) \/ Select(p) \/ Fill(p)
             \/ NextBId(p) \/ Snapshot(p) \/ Drop(p) \/ Clear(p) \/ Answer(p)
      PROVE  UNCHANGED rows
  BY <1>4 DEF Abort, CacheHit, CacheMiss, Select, Fill, NextBId, Snapshot, Drop, Clear, Answer,
     tableVars
<1>5. ASSUME NEW p \in Clients, Insert(p)
      PROVE  rows'[i] = rows[i]
  BY <1>5, FreshIds
<1>6. ASSUME NEW p \in Clients, Rename(p) \/ Update(p)
      PROVE  rows'[i] = rows[i]
  <2>1. CASE NoEffect(p)
    BY <2>1 DEF NoEffect
  <2>2. CASE Rename(p) /\ ~NoEffect(p)
    <3>1. rows' = [j \in Ids |-> IF Bears(j, op[p].code)
                                 THEN {[s EXCEPT !.code = op[p].new] : s \in rows[j]}
                                 ELSE rows[j]]
      BY <2>2 DEF Rename, RenameRow, Commit
    <3> QED
      BY <1>1, <3>1
  <2>3. CASE Update(p) /\ ~NoEffect(p)
    <3>1. rows' = [j \in Ids |-> IF Bears(j, op[p].new)
                                 THEN {[s EXCEPT !.data = Patched(l.data, op[p].patch)] :
                                         s \in rows[j], l \in seen[p]}
                                 ELSE rows[j]]
      BY <2>3 DEF Update, Commit
    <3> QED
      BY <1>1, <3>1
  <2> QED
    BY <1>6, <2>1, <2>2, <2>3
<1>7. ASSUME NEW p \in Clients, DeleteRows(p)
      PROVE  rows'[i] = rows[i]
  BY <1>1, <1>7 DEF DeleteRows, NoEffect, Commit
<1>8. ASSUME NEW p \in Clients, SweepRows(p) \/ UpdateMeta(p)
      PROVE  rows'[i] = rows[i]
  BY <1>1, <1>8 DEF SweepRows, UpdateMeta, Commit
<1>9. ASSUME NEW c \in Codes, Lapse(c) \/ \E patch \in Patches : ExternalEdit(c, patch)
      PROVE  rows'[i] = rows[i]
  BY <1>1, <1>9 DEF Lapse, ExternalEdit, tableVars
<1>10. CASE ClearBackups \/ Crash \/ UNCHANGED vars
  BY <1>10 DEF ClearBackups, Crash, vars, tableVars
<1> QED
  BY <1>3, <1>4, <1>5, <1>6, <1>7, <1>8, <1>9, <1>10 DEF Next, Serve

\* A deleted link's row never changes again: no late title, stale edit or
\* re-created code reaches it.
THEOREM DeletedStayFrozen == Spec => DeletedRowsAreFrozen
<1>1. Sound /\ [Next]_vars =>
        [\A i \in Ids : \A r \in rows[i] : r.deleted => rows'[i] = rows[i]]_vars
  BY FrozenStep
<1> QED
  BY <1>1, AlwaysSound, PTL DEF Spec, DeletedRowsAreFrozen

\* A snapshot is never overwritten: only a clear removes snapshots, all of them.
THEOREM BackupsAppendOnly == Spec => BackupsAreAppendOnly
<1> DEFINE Kept == \/ \A b \in BIds : backups[b] \subseteq backups'[b]
                   \/ \A b \in BIds : backups'[b] = {}
<1>1. Sound /\ [Next]_vars => Kept
  <2> SUFFICES ASSUME Sound, [Next]_vars PROVE Kept
    OBVIOUS
  <2>1. ASSUME NEW p \in Clients, Begin(p) \/ Abort(p)
        PROVE  UNCHANGED backups
    BY <2>1, BeginAccepts DEF Abort, Accept
  <2>2. ASSUME NEW p \in Clients, Serve(p), ~Snapshot(p)
        PROVE  UNCHANGED backups
    <3>1. CASE Insert(p)
      BY <3>1 DEF Insert
    <3>2. CASE Rename(p) \/ Update(p) \/ DeleteRows(p) \/ SweepRows(p) \/ UpdateMeta(p)
      BY <3>2 DEF Rename, Update, DeleteRows, SweepRows, UpdateMeta
    <3>3. CASE \/ CacheHit(p) \/ CacheMiss(p) \/ Select(p) \/ Fill(p) \/ NextBId(p)
               \/ Drop(p) \/ Clear(p) \/ Answer(p)
      BY <3>3 DEF CacheHit, CacheMiss, Select, Fill, NextBId, Drop, Clear, Answer
    <3> QED
      BY <2>2, <3>1, <3>2, <3>3 DEF Serve
  <2>3. ASSUME NEW p \in Clients, Snapshot(p)
        PROVE  Kept
    BY <2>3 DEF Snapshot, Sound, TypeOK
  <2>4. ASSUME NEW c \in Codes, Lapse(c) \/ \E patch \in Patches : ExternalEdit(c, patch)
        PROVE  UNCHANGED backups
    BY <2>4 DEF Lapse, ExternalEdit
  <2>5. CASE ClearBackups
    BY <2>5 DEF ClearBackups
  <2>6. CASE Crash \/ UNCHANGED vars
    BY <2>6 DEF Crash, vars
  <2> QED
    BY <2>1, <2>2, <2>3, <2>4, <2>5, <2>6 DEF Next
<1> QED
  BY <1>1, AlwaysSound, PTL DEF Spec, BackupsAreAppendOnly

-----------------------------------------------------------------------------
(* Only committed links are seen.                                          *)

Committed == CurrentIsPast /\ OnlyCommittedLinks

\* A code whose rows are as they were has the links it had.
LEMMA CurrentStays ==
    ASSUME NEW c,
           \A i \in Ids : rows'[i] = rows[i] \/ (~Bears(i, c) /\ ~Bears(i, c)')
    PROVE  Current(c)' = Current(c)
<1>1. \A i \in Ids : Bears(i, c)' <=> Bears(i, c)
  BY DEF Bears
<1>2. \A i \in Ids : Bears(i, c) => AsLink(i)' = AsLink(i)
  BY DEF AsLink
<1> QED
  BY <1>1, <1>2 DEF Current

LEMMA QuietPast ==
    ASSUME CurrentIsPast, UNCHANGED <<rows, past>>
    PROVE  CurrentIsPast' /\ past \subseteq past'
<1>1. \A c \in Codes : Current(c)' = Current(c)
  BY DEF Current, AsLink, Bears
<1> QED
  BY <1>1 DEF CurrentIsPast

LEMMA CommitPast ==
    ASSUME NEW new, Commit(new)
    PROVE  CurrentIsPast' /\ past \subseteq past'
<1>1. past' = past \cup UNION {Current(c)' : c \in Codes}
  BY DEF Commit
<1> DEFINE Now(c) == Current(c)'
<1>2. \A c \in Codes : Now(c) \subseteq past'
  <2> HIDE DEF Now
  <2>1. past' = past \cup UNION {Now(c) : c \in Codes}
    BY <1>1 DEF Now
  <2> QED
    BY <2>1
<1> QED
  BY <1>1, <1>2 DEF CurrentIsPast

\* Steps that put nothing new in the cache, the requests or the backups.
LEMMA NothingNew ==
    ASSUME Committed, CurrentIsPast', past \subseteq past',
           \A c \in Codes : cache'[c] \subseteq cache[c],
           \A p \in Clients : seen'[p] \subseteq seen[p] /\ fills'[p] \subseteq fills[p],
           \A b \in BIds : backups'[b] \subseteq backups[b]
    PROVE  Committed'
BY DEF Committed, OnlyCommittedLinks

LEMMA CommittedQuiet ==
    ASSUME Sound, Committed, NEW p \in Clients,
           \/ Begin(p) \/ Abort(p) \/ CacheMiss(p) \/ NextBId(p) \/ Drop(p) \/ Clear(p) \/ Answer(p)
    PROVE  Committed'
<1> USE DEF tableVars, historyVars, localVars, budgetVars
<1>1. UNCHANGED <<rows, past, backups, fills>>
  BY BeginAccepts DEF Accept, Abort, CacheMiss, NextBId, Drop, Clear, Answer
<1>2. \A c \in Codes : cache'[c] \subseteq cache[c]
  <2>1. CASE UNCHANGED cache
    BY <2>1
  <2>2. CASE Drop(p)
    BY <2>2 DEF Drop, Sound, TypeOK
  <2>3. CASE Clear(p)
    BY <2>3 DEF Clear
  <2> QED
    BY <2>1, <2>2, <2>3, BeginAccepts DEF Accept, Abort, CacheMiss, NextBId, Answer
<1>3. \A q \in Clients : seen'[q] \subseteq seen[q]
  <2>1. CASE UNCHANGED seen
    BY <2>1
  <2>2. CASE Answer(p)
    BY <2>2 DEF Answer, Sound, TypeOK
  <2> QED
    BY <2>1, <2>2, BeginAccepts DEF Accept, Abort, CacheMiss, NextBId, Drop, Clear
<1> QED
  BY <1>1, <1>2, <1>3, QuietPast, NothingNew DEF Committed

LEMMA CommittedReads ==
    ASSUME Sound, Committed, NEW p \in Clients,
           CacheHit(p) \/ Select(p) \/ Fill(p) \/ Snapshot(p)
    PROVE  Committed'
<1> USE DEF tableVars, historyVars, budgetVars
<1>1. UNCHANGED <<rows, past>> /\ CurrentIsPast'
  BY QuietPast DEF CacheHit, Select, Fill, Snapshot, Committed
<1>2. op[p] \in Ops /\ op[p].kind \in KindsAt(pc[p])
  BY DEF Sound, TypeOK, StepsFitRequests
<1>3. CASE CacheHit(p)
  <2>1. op[p].code \in Codes
    BY <1>2, <1>3, KindsTable, RequestFields DEF CacheHit
  <2>2. seen' = [seen EXCEPT ![p] = cache[op[p].code]] /\ UNCHANGED <<backups, cache, fills>>
    BY <1>3 DEF CacheHit
  <2>3. \A q \in Clients : seen'[q] \subseteq past
    BY <2>1, <2>2 DEF Sound, TypeOK, Committed, OnlyCommittedLinks
  <2> QED
    BY <1>1, <2>2, <2>3 DEF Committed, OnlyCommittedLinks
<1>4. CASE Select(p)
  <2>1. Current(op[p].code) \subseteq past
    <3>1. op[p].code \in Codes
      BY <1>2, <1>4, KindsTable, RequestFields DEF Select
    <3> QED
      BY <3>1 DEF Committed, CurrentIsPast
  <2>2. /\ seen' = [seen EXCEPT ![p] = Current(op[p].code)]
        /\ fills' = [fills EXCEPT ![p] = Current(op[p].code)]
        /\ UNCHANGED <<backups, cache>>
    BY <1>4 DEF Select
  <2>3. \A q \in Clients : seen'[q] \cup fills'[q] \subseteq past
    BY <2>1, <2>2 DEF Sound, TypeOK, Committed, OnlyCommittedLinks
  <2> QED
    BY <1>1, <2>2, <2>3 DEF Committed, OnlyCommittedLinks
<1>5. CASE Fill(p)
  <2>1. PICK l \in fills[p] : /\ cache' = [cache EXCEPT ![l.code] = {l}]
                              /\ fills' = [fills EXCEPT ![p] = @ \ {l}]
    BY <1>5 DEF Fill
  <2>2. l \in past /\ UNCHANGED <<backups, seen>>
    BY <1>5 DEF Fill, Committed, OnlyCommittedLinks
  <2>3. \A c \in Codes : cache'[c] \subseteq {m \in past : m.code = c}
    BY <2>1, <2>2 DEF Sound, TypeOK, Committed, OnlyCommittedLinks
  <2>4. \A q \in Clients : fills'[q] \subseteq fills[q]
    BY <2>1 DEF Sound, TypeOK
  <2> QED
    BY <1>1, <2>2, <2>3, <2>4 DEF Committed, OnlyCommittedLinks
<1>6. CASE Snapshot(p)
  <2>1. UNCHANGED <<cache, seen, fills>>
    BY <1>6 DEF Snapshot
  <2>2. \A b \in BIds : backups'[b] \subseteq past
    BY <1>6 DEF Snapshot, Sound, TypeOK, Committed, OnlyCommittedLinks
  <2> QED
    BY <1>1, <2>1, <2>2 DEF Committed, OnlyCommittedLinks
<1> QED
  BY <1>3, <1>4, <1>5, <1>6

LEMMA CommittedWrites ==
    ASSUME Committed, NEW p \in Clients,
           Rename(p) \/ Update(p) \/ DeleteRows(p) \/ SweepRows(p) \/ UpdateMeta(p)
    PROVE  Committed'
<1>1. UNCHANGED <<backups, cache, seen, fills>>
  BY DEF Rename, Update, DeleteRows, SweepRows, UpdateMeta
<1>2. NoEffect(p) \/ \E new : Commit(new)
  <2>1. CASE Rename(p)
    BY <2>1 DEF Rename, RenameRow
  <2>2. CASE Update(p)
    BY <2>2 DEF Update
  <2>3. CASE DeleteRows(p)
    BY <2>3 DEF DeleteRows
  <2>4. CASE SweepRows(p) \/ UpdateMeta(p)
    BY <2>4 DEF SweepRows, UpdateMeta
  <2> QED
    BY <2>1, <2>2, <2>3, <2>4
<1>3. CurrentIsPast' /\ past \subseteq past'
  BY <1>2, QuietPast, CommitPast DEF NoEffect, Committed
<1> QED
  BY <1>1, <1>3, NothingNew

\* What an insert puts in the table is what it is about to cache; the codes
\* that change were free.
LEMMA InsertedLinks ==
    ASSUME Sound, NEW p \in Clients, Insert(p)
    PROVE  \/ NoEffect(p) /\ UNCHANGED fills
           \/ /\ \E new : Commit(new)
              /\ Goto(p, "fill") /\ UNCHANGED drops
              /\ \A q \in Clients \ {p} : fills'[q] = fills[q]
              /\ \A l \in fills'[p] : l.code \in Codes /\ l \in Current(l.code)'
              /\ \A c \in Codes : Current(c) = {} \/ Current(c)' = Current(c)
<1> DEFINE free == {c \in op[p].codes : Current(c) = {}}
<1>1. CASE free = {}
  BY <1>1 DEF Insert
<1>2. CASE free # {}
  <2> DEFINE Fresh(id, i) == {[code |-> c, data |-> op[p].data, deleted |-> FALSE] :
                                c \in {c \in free : id[c] = i}}
             New(id) == [i \in Ids |-> rows[i] \cup Fresh(id, i)]
             Filled(id) == {[id |-> id[c], code |-> c, data |-> op[p].data] : c \in free}
  <2>1. PICK last \in Ids, id \in [free -> Ids] :
          /\ Commit(New(id))
          /\ fills' = [fills EXCEPT ![p] = Filled(id)]
          /\ Goto(p, "fill")
          /\ UNCHANGED drops
    BY <1>2 DEF Insert
  <2>2. rows' = New(id)
    BY <2>1 DEF Commit
  <2>3. fills'[p] = Filled(id) /\ \A q \in Clients \ {p} : fills'[q] = fills[q]
    BY <2>1 DEF Sound, TypeOK
  <2>4. free \subseteq Codes
    <3>1. op[p] \in Ops /\ op[p].kind = "create"
      BY KindsTable DEF Insert, Sound, StepsFitRequests, TypeOK
    <3> QED
      BY <3>1, RequestFields
  <2>5. ASSUME NEW c \in free
        PROVE  [id |-> id[c], code |-> c, data |-> op[p].data] \in Current(c)'
    <3> DEFINE r == [code |-> c, data |-> op[p].data, deleted |-> FALSE]
    <3>1. id[c] \in Ids /\ r \in rows'[id[c]]
      BY <2>2
    <3>2. Bears(id[c], c)'
      BY <3>1 DEF Bears
    <3>3. r.code = c /\ r.data = op[p].data
      OBVIOUS
    <3>4. AsLink(id[c])' = {[id |-> id[c], code |-> s.code, data |-> s.data] : s \in rows'[id[c]]}
      BY DEF AsLink
    <3> HIDE DEF r
    <3>5. [id |-> id[c], code |-> c, data |-> op[p].data] \in AsLink(id[c])'
      BY <3>1, <3>3, <3>4
    <3> QED
      BY <3>1, <3>2, <3>5 DEF Current
  <2>6. \A l \in fills'[p] : l.code \in Codes /\ l \in Current(l.code)'
    BY <2>3, <2>4, <2>5
  <2>7. ASSUME NEW c \in Codes, Current(c) # {}
        PROVE  Current(c)' = Current(c)
    <3>1. \A i \in Ids : \A r \in Fresh(id, i) : r.code # c
      BY <2>7
    <3>2. ASSUME NEW i \in Ids, rows'[i] # rows[i]
          PROVE  ~Bears(i, c) /\ ~Bears(i, c)'
      <4>1. rows[i] = {}
        BY <3>2, FreshIds
      <4> QED
        BY <2>2, <3>1, <4>1 DEF Bears
    <3> QED
      BY <3>2, CurrentStays
  <2> QED
    BY <2>1, <2>3, <2>6, <2>7
<1> QED
  BY <1>1, <1>2

LEMMA CommittedInsert ==
    ASSUME Sound, Committed, NEW p \in Clients, Insert(p)
    PROVE  Committed'
<1>1. UNCHANGED <<backups, cache, seen>>
  BY DEF Insert
<1>2. CASE NoEffect(p) /\ UNCHANGED fills
  <2>1. CurrentIsPast' /\ past \subseteq past'
    BY <1>2, QuietPast DEF NoEffect, Committed
  <2> QED
    BY <1>1, <1>2, <2>1, NothingNew
<1>3. CASE /\ \E new : Commit(new)
           /\ \A q \in Clients \ {p} : fills'[q] = fills[q]
           /\ \A l \in fills'[p] : l.code \in Codes /\ l \in Current(l.code)'
  <2>1. CurrentIsPast' /\ past \subseteq past'
    BY <1>3, CommitPast
  <2>2. \A q \in Clients : fills'[q] \subseteq past'
    BY <1>3, <2>1 DEF CurrentIsPast, Committed, OnlyCommittedLinks
  <2> QED
    BY <1>1, <2>1, <2>2 DEF Committed, OnlyCommittedLinks
<1> QED
  BY <1>2, <1>3, InsertedLinks

\* An edit of the file changes the links of its code only.
LEMMA ExternalStays ==
    ASSUME Sound, NEW c \in Codes, NEW patch \in Patches, ExternalEdit(c, patch),
           NEW d \in Codes, d # c
    PROVE  Current(d)' = Current(d)
<1>1. \A i \in Ids : rows[i] \subseteq Row
  BY DEF Sound, TypeOK
<1>2. ASSUME NEW i \in Ids, rows'[i] # rows[i]
      PROVE  ~Bears(i, d) /\ ~Bears(i, d)'
  <2>1. Bears(i, c) /\ rows'[i] = {[r EXCEPT !.data = Patched(r.data, patch)] : r \in rows[i]}
    BY <1>2 DEF ExternalEdit
  <2>2. \A r \in rows[i] : r.code = c
    BY <2>1 DEF Bears, Sound, RowsAreSound
  <2>3. \A r \in rows'[i] : r.code = c
    BY <1>1, <2>1, <2>2 DEF Row
  <2> QED
    BY <2>2, <2>3 DEF Bears
<1> QED
  BY <1>2, CurrentStays

LEMMA CommittedExternalEdit ==
    ASSUME Sound, Committed, NEW c \in Codes, NEW patch \in Patches, ExternalEdit(c, patch)
    PROVE  Committed'
<1>1. past' = past \cup Current(c)'
  BY DEF ExternalEdit
<1>2. UNCHANGED <<backups, cache, seen, fills>>
  BY DEF ExternalEdit, localVars
<1>3. CurrentIsPast'
  BY <1>1, ExternalStays DEF Committed, CurrentIsPast
<1> QED
  BY <1>1, <1>2, <1>3, NothingNew

LEMMA CommittedInit == Init => Committed
BY DEF Init, Committed, CurrentIsPast, OnlyCommittedLinks, Current, Bears

LEMMA CommittedNext == Sound /\ Committed /\ [Next]_vars => Committed'
<1> SUFFICES ASSUME Sound, Committed, [Next]_vars PROVE Committed'
  OBVIOUS
<1>1. ASSUME NEW p \in Clients, Begin(p) \/ Serve(p) \/ Abort(p) PROVE Committed'
  BY <1>1, CommittedQuiet, CommittedReads, CommittedWrites, CommittedInsert DEF Serve
<1>2. ASSUME NEW c \in Codes, NEW patch \in Patches, ExternalEdit(c, patch) PROVE Committed'
  BY <1>2, CommittedExternalEdit
<1>3. ASSUME \/ \E c \in Codes : Lapse(c)
             \/ ClearBackups \/ Crash \/ UNCHANGED vars
      PROVE  Committed'
  <2>1. UNCHANGED <<rows, past>>
    BY <1>3 DEF Lapse, ClearBackups, Crash, vars, tableVars, historyVars
  <2>2. /\ \A c \in Codes : cache'[c] \subseteq cache[c]
        /\ \A p \in Clients : seen'[p] \subseteq seen[p] /\ fills'[p] \subseteq fills[p]
        /\ \A b \in BIds : backups'[b] \subseteq backups[b]
    <3>1. CASE \E c \in Codes : Lapse(c)
      BY <3>1 DEF Lapse, Sound, TypeOK, localVars
    <3>2. CASE ClearBackups
      BY <3>2 DEF ClearBackups, localVars
    <3>3. CASE Crash \/ UNCHANGED vars
      BY <3>3 DEF Crash, vars, localVars
    <3> QED
      BY <1>3, <3>1, <3>2, <3>3
  <2> QED
    BY <2>1, <2>2, QuietPast, NothingNew DEF Committed
<1> QED
  BY <1>1, <1>2, <1>3 DEF Next

\* What the cache serves, a request works on or a backup keeps was at some
\* moment committed under that code, in the whole.
THEOREM OnlyCommitted == Spec => []OnlyCommittedLinks
BY CommittedInit, CommittedNext, AlwaysSound, PTL DEF Spec, Committed

-----------------------------------------------------------------------------
(* The cache is invalidated.                                               *)

Invalidating == InvalidationWorks /\ FillsAreCurrent

\* Steps that write no rows: what they take out of drops, or the clear they
\* end, they took out of the cache; what they cache is current or raced.
LEMMA QuietInvalidation ==
    ASSUME Invalidating, UNCHANGED <<rows, raced>>,
           \A c \in Codes : \/ cache'[c] = {}
                            \/ cache'[c] = cache[c] /\ (Announced(c) => Announced(c)')
                            \/ \E p \in Clients : \E l \in fills[p] : l.code = c /\ cache'[c] = {l},
           \A p \in Clients : \A l \in fills'[p] : l \in fills[p] \/ l \in Current(l.code)
    PROVE  Invalidating'
<1>1. \A c : Current(c)' = Current(c)
  BY DEF Current, AsLink, Bears
<1>2. FillsAreCurrent'
  BY <1>1 DEF Invalidating, FillsAreCurrent
<1>3. ASSUME NEW c \in Codes, c \notin raced'
      PROVE  cache'[c] \subseteq Current(c)' \/ Announced(c)'
  <2>1. CASE cache'[c] = {}
    BY <2>1
  <2>2. CASE cache'[c] = cache[c] /\ (Announced(c) => Announced(c)')
    BY <1>1, <1>3, <2>2 DEF Invalidating, InvalidationWorks
  <2>3. CASE \E p \in Clients : \E l \in fills[p] : l.code = c /\ cache'[c] = {l}
    BY <1>1, <1>3, <2>3 DEF Invalidating, FillsAreCurrent
  <2> QED
    BY <2>1, <2>2, <2>3
<1> QED
  BY <1>2, <1>3 DEF Invalidating, InvalidationWorks

\* A statement that writes rows, and announces every code that it changes.
Announcing(p) ==
    /\ pc[p] \in Statements /\ pc' = [pc EXCEPT ![p] = pc'[p]]
    /\ \E new : Commit(new)
    /\ UNCHANGED <<cache, seen>>
    /\ \A q \in Clients \ {p} : fills'[q] = fills[q] /\ drops'[q] = drops[q]
    /\ \A l \in fills'[p] : l \in fills[p] \/ l \in Current(l.code)'
    /\ \A c \in Codes : \/ Current(c)' = Current(c)
                        \/ Current(c) = {}
                        \/ Announced(c)'

\* One that writes none.
Failing(p) ==
    /\ pc[p] \in Statements
    /\ NoEffect(p)
    /\ UNCHANGED <<cache, seen, fills>>

LEMMA AnnouncementsStay ==
    ASSUME Sound, NEW p \in Clients, Announcing(p), NEW c \in Codes
    PROVE  /\ Announced(c) => Announced(c)'
           /\ Pending(c) => Pending(c)'
<1>1. drops[p] = {} /\ fills[p] = {} /\ pc[p] # "clear"
  BY DEF Announcing, Sound, PendingIsAnnounced, Statements
<1>2. Announced(c) => Announced(c)'
  BY <1>1 DEF Announcing, Announced, Sound, TypeOK
<1>3. Pending(c) => Pending(c)'
  BY <1>1 DEF Announcing, Pending
<1> QED
  BY <1>2, <1>3

LEMMA AnnouncingInvalidation ==
    ASSUME Sound, Invalidating, NEW p \in Clients, Announcing(p)
    PROVE  Invalidating'
<1>1. raced' = raced \cup {c \in Codes : /\ Current(c)' # Current(c)
                                         /\ \E q \in Clients : \E l \in fills[q] : l.code = c}
  BY DEF Announcing, Commit
<1>2. \A q \in Clients : \A l \in fills[q] : l.code \in Codes
  BY DEF Sound, TypeOK, Link
<1>3. FillsAreCurrent'
  <2>1. ASSUME NEW q \in Clients, NEW l \in fills[q], l.code \notin raced'
        PROVE  l \in Current(l.code)'
    <3>1. l.code \notin raced /\ Current(l.code)' = Current(l.code)
      BY <1>1, <1>2, <2>1
    <3> QED
      BY <3>1 DEF Invalidating, FillsAreCurrent
  <2>2. ASSUME NEW q \in Clients, NEW l \in fills'[q], l.code \notin raced'
        PROVE  l \in Current(l.code)'
    BY <2>1, <2>2 DEF Announcing
  <2> QED
    BY <2>2 DEF FillsAreCurrent
<1>4. ASSUME NEW c \in Codes, c \notin raced'
      PROVE  cache'[c] \subseteq Current(c)' \/ Announced(c)'
  <2>1. cache[c] \subseteq Current(c) \/ Announced(c)
    BY <1>1, <1>4 DEF Invalidating, InvalidationWorks
  <2>2. cache'[c] = cache[c] /\ (Announced(c) => Announced(c)')
    BY AnnouncementsStay DEF Announcing
  <2>3. Current(c)' = Current(c) \/ Current(c) = {} \/ Announced(c)'
    BY DEF Announcing
  <2> QED
    BY <2>1, <2>2, <2>3
<1> QED
  BY <1>3, <1>4 DEF Invalidating, InvalidationWorks

\* Dropping an entry makes up for its announcement.
LEMMA DroppingInvalidation ==
    ASSUME Invalidating, UNCHANGED <<rows, raced>>,
           \A c \in Codes : cache'[c] # {} => cache'[c] = cache[c],
           \A c \in Codes : cache'[c] # {} /\ Announced(c) => Announced(c)',
           \A p \in Clients : fills'[p] \subseteq fills[p]
    PROVE  Invalidating'
<1>1. \A c : Current(c)' = Current(c)
  BY DEF Current, AsLink, Bears
<1>2. FillsAreCurrent'
  BY <1>1 DEF Invalidating, FillsAreCurrent
<1>3. ASSUME NEW c \in Codes, c \notin raced', cache'[c] # {}
      PROVE  cache'[c] \subseteq Current(c)' \/ Announced(c)'
  BY <1>1, <1>3 DEF Invalidating, InvalidationWorks
<1>4. InvalidationWorks'
  BY <1>3 DEF InvalidationWorks
<1> QED
  BY <1>2, <1>4 DEF Invalidating

LEMMA InvalidationLocalSteps ==
    ASSUME Sound, Invalidating, NEW p \in Clients,
           \/ Begin(p) \/ Abort(p) \/ CacheHit(p) \/ CacheMiss(p) \/ Select(p) \/ Fill(p)
           \/ NextBId(p) \/ Snapshot(p) \/ Drop(p) \/ Clear(p) \/ Answer(p)
    PROVE  Invalidating'
<1> USE DEF tableVars, historyVars, budgetVars
<1>1. UNCHANGED <<rows, raced>>
  BY BeginAccepts DEF Accept, Abort, CacheHit, CacheMiss, Select, Fill, NextBId, Snapshot, Drop,
     Clear, Answer
<1>2. pc' = [pc EXCEPT ![p] = pc'[p]]
  <2>1. \/ UNCHANGED pc
        \/ \E label : Goto(p, label)
    BY BeginAccepts DEF Accept, Abort, CacheHit, CacheMiss, Select, Fill, NextBId, Snapshot, Drop,
       Clear, Answer
  <2> QED
    BY <2>1 DEF Goto, Sound, TypeOK
<1>3. ASSUME pc[p] # "clear", UNCHANGED drops
      PROVE  \A c \in Codes : Announced(c) => Announced(c)'
  BY <1>2, <1>3 DEF Announced, Sound, TypeOK
<1>4. CASE \/ Begin(p) \/ Abort(p) \/ CacheHit(p) \/ CacheMiss(p) \/ NextBId(p) \/ Snapshot(p)
           \/ Answer(p)
  <2>1. pc[p] # "clear" /\ UNCHANGED <<cache, drops, fills>>
    BY <1>4, BeginAccepts DEF Accept, Abort, CacheHit, CacheMiss, NextBId, Snapshot, Answer, Statements
  <2> QED
    BY <1>1, <1>3, <2>1, QuietInvalidation
<1>5. CASE Select(p)
  <2>1. pc[p] # "clear" /\ UNCHANGED <<cache, drops>>
    BY <1>5 DEF Select
  <2>2. fills' = [fills EXCEPT ![p] = Current(op[p].code)]
    BY <1>5 DEF Select
  <2>3. \A l \in Current(op[p].code) : l \in Current(l.code)
    BY CurrentIsBorne DEF Sound
  <2>4. \A q \in Clients : \A l \in fills'[q] : l \in fills[q] \/ l \in Current(l.code)
    BY <2>2, <2>3 DEF Sound, TypeOK
  <2> QED
    BY <1>1, <1>3, <2>1, <2>4, QuietInvalidation
<1>6. CASE Fill(p)
  <2>1. PICK l \in fills[p] : /\ cache' = [cache EXCEPT ![l.code] = {l}]
                              /\ fills' = [fills EXCEPT ![p] = @ \ {l}]
    BY <1>6 DEF Fill
  <2>2. pc[p] # "clear" /\ UNCHANGED drops
    BY <1>6 DEF Fill
  <2>3. \A c \in Codes : cache'[c] = cache[c] \/ (l.code = c /\ cache'[c] = {l})
    BY <2>1 DEF Sound, TypeOK
  <2>4. \A q \in Clients : \A m \in fills'[q] : m \in fills[q]
    BY <2>1 DEF Sound, TypeOK
  <2> QED
    BY <1>1, <1>3, <2>2, <2>3, <2>4, QuietInvalidation
<1>7. CASE Drop(p)
  <2>1. PICK c \in drops[p] : /\ cache' = [cache EXCEPT ![c] = {}]
                              /\ drops' = [drops EXCEPT ![p] = @ \ {c}]
    BY <1>7 DEF Drop
  <2>2. \A d \in Codes : cache'[d] = {} \/ (d # c /\ cache'[d] = cache[d])
    BY <2>1 DEF Sound, TypeOK
  <2>3. pc[p] # "clear" /\ UNCHANGED fills
    BY <1>7 DEF Drop
  <2>4. \A d \in Codes : cache'[d] # {} => cache'[d] = cache[d]
    BY <2>2
  <2>5. ASSUME NEW d \in Codes, cache'[d] # {}, Announced(d)
        PROVE  Announced(d)'
    <3>1. d # c
      BY <2>2, <2>5
    <3> QED
      BY <1>2, <2>1, <2>3, <2>5, <3>1 DEF Announced, Sound, TypeOK
  <2>6. \A q \in Clients : fills'[q] \subseteq fills[q]
    BY <2>3
  <2> QED
    BY <1>1, <2>4, <2>5, <2>6, DroppingInvalidation
<1>8. CASE Clear(p)
  <2>1. \A c \in Codes : cache'[c] = {}
    BY <1>8 DEF Clear
  <2>2. \A q \in Clients : fills'[q] \subseteq fills[q]
    BY <1>8 DEF Clear
  <2> QED
    BY <1>1, <2>1, <2>2, DroppingInvalidation
<1> QED
  BY <1>4, <1>5, <1>6, <1>7, <1>8

\* A write to rows that bear certain codes changes no other code's links.
LEMMA OthersStay ==
    ASSUME Sound, NEW codes, NEW d, d \notin codes,
           \A i \in Ids : rows'[i] = rows[i] \/ \E c \in codes : Bears(i, c),
           \A i \in Ids : \A r \in rows'[i] :
             r.deleted \/ r.code \in codes \/ \E s \in rows[i] : s.code = r.code
    PROVE  Current(d)' = Current(d)
<1>1. ASSUME NEW i \in Ids, rows'[i] # rows[i]
      PROVE  ~Bears(i, d) /\ ~Bears(i, d)'
  <2>1. \A r \in rows[i] : r.code # d
    BY <1>1 DEF Bears, Sound, RowsAreSound
  <2> QED
    BY <2>1 DEF Bears
<1> QED
  BY <1>1, CurrentStays

LEMMA FailingInvalidation ==
    ASSUME Sound, Invalidating, NEW p \in Clients, Failing(p)
    PROVE  Invalidating'
<1>1. UNCHANGED <<rows, raced, cache, fills>>
  BY DEF Failing, NoEffect
<1>2. \A c \in Codes : Announced(c) => Announced(c)'
  BY DEF Failing, NoEffect, Goto, Statements, Announced, Sound, TypeOK
<1> QED
  BY <1>1, <1>2, QuietInvalidation

\* A commit that drops the codes it changed.
LEMMA DropsAnnounce ==
    ASSUME Sound, NEW p \in Clients, pc[p] \in Statements,
           NEW new, Commit(new), UNCHANGED <<cache, seen, fills>>,
           NEW label, Goto(p, label),
           NEW codes, drops' = [drops EXCEPT ![p] = codes],
           \A c \in Codes \ codes : Current(c)' = Current(c)
    PROVE  Announcing(p)
<1>1. \A c \in codes : Announced(c)'
  BY DEF Announced, Sound, TypeOK
<1>2. pc' = [pc EXCEPT ![p] = pc'[p]]
  BY DEF Goto, Sound, TypeOK
<1>3. \A q \in Clients \ {p} : fills'[q] = fills[q] /\ drops'[q] = drops[q]
  BY DEF Sound, TypeOK
<1> QED
  BY <1>1, <1>2, <1>3 DEF Announcing

LEMMA RenameAnnounces ==
    ASSUME Sound, NEW p \in Clients, Rename(p)
    PROVE  Failing(p) \/ Announcing(p)
<1>1. pc[p] \in Statements /\ UNCHANGED <<cache, seen, fills>>
  BY DEF Rename, Statements
<1>2. CASE NoEffect(p)
  BY <1>1, <1>2 DEF Failing
<1>3. CASE ~NoEffect(p)
  <2> DEFINE new == [i \in Ids |-> IF Bears(i, op[p].code)
                                   THEN {[r EXCEPT !.code = op[p].new] : r \in rows[i]}
                                   ELSE rows[i]]
             codes == {op[p].code, op[p].new}
  <2>1. Commit(new) /\ drops' = [drops EXCEPT ![p] = codes] /\ Goto(p, "drop renamed")
    BY <1>3 DEF Rename, RenameRow
  <2>2. \A c \in Codes \ codes : Current(c)' = Current(c)
    <3>1. rows' = new /\ \A i \in Ids : rows[i] \subseteq Row
      BY <2>1 DEF Commit, Sound, TypeOK
    <3>2. \A i \in Ids : rows'[i] = rows[i] \/ \E c \in codes : Bears(i, c)
      BY <3>1
    <3>3. \A i \in Ids : \A r \in rows'[i] :
            r.code \in codes \/ \E s \in rows[i] : s.code = r.code
      BY <3>1 DEF Row
    <3> HIDE DEF new, codes
    <3> QED
      BY <3>2, <3>3, OthersStay
  <2> HIDE DEF new, codes
  <2> QED
    BY <1>1, <2>1, <2>2, DropsAnnounce
<1> QED
  BY <1>2, <1>3

LEMMA UpdateAnnounces ==
    ASSUME Sound, NEW p \in Clients, Update(p)
    PROVE  Failing(p) \/ Announcing(p)
<1>1. pc[p] \in Statements /\ UNCHANGED <<cache, seen, fills>>
  BY DEF Update, Statements
<1>2. CASE NoEffect(p)
  BY <1>1, <1>2 DEF Failing
<1>3. CASE ~NoEffect(p)
  <2> DEFINE new == [i \in Ids |-> IF Bears(i, op[p].new)
                                   THEN {[r EXCEPT !.data = Patched(l.data, op[p].patch)] :
                                           r \in rows[i], l \in seen[p]}
                                   ELSE rows[i]]
             codes == {op[p].new}
  <2>1. Commit(new) /\ drops' = [drops EXCEPT ![p] = codes] /\ Goto(p, "drop")
    BY <1>3 DEF Update
  <2>2. \A c \in Codes \ codes : Current(c)' = Current(c)
    <3>1. rows' = new /\ \A i \in Ids : rows[i] \subseteq Row
      BY <2>1 DEF Commit, Sound, TypeOK
    <3>2. \A i \in Ids : rows'[i] = rows[i] \/ \E c \in codes : Bears(i, c)
      BY <3>1
    <3>3. \A i \in Ids : \A r \in rows'[i] : \E s \in rows[i] : s.code = r.code
      BY <3>1 DEF Row
    <3> QED
      BY <3>2, <3>3, OthersStay
  <2> HIDE DEF new, codes
  <2> QED
    BY <1>1, <2>1, <2>2, DropsAnnounce
<1> QED
  BY <1>2, <1>3

LEMMA DeleteRowsAnnounces ==
    ASSUME Sound, NEW p \in Clients, DeleteRows(p)
    PROVE  Failing(p) \/ Announcing(p)
<1>1. pc[p] \in Statements /\ UNCHANGED <<cache, seen, fills>>
  BY DEF DeleteRows, Statements
<1>2. CASE NoEffect(p)
  BY <1>1, <1>2 DEF Failing
<1>3. CASE ~NoEffect(p)
  <2> DEFINE codes == IF op[p].kind = "bulk" THEN op[p].codes ELSE {op[p].code}
             new == [i \in Ids |-> IF \E c \in codes : Bears(i, c)
                                   THEN Gone(i, op[p].hard)
                                   ELSE rows[i]]
  <2>1. Commit(new) /\ drops' = [drops EXCEPT ![p] = codes] /\ Goto(p, "drop")
    BY <1>3 DEF DeleteRows
  <2> HIDE DEF codes
  <2>2. \A c \in Codes \ codes : Current(c)' = Current(c)
    <3>1. rows' = new /\ \A i \in Ids : rows[i] \subseteq Row
      BY <2>1 DEF Commit, Sound, TypeOK
    <3>2. \A i \in Ids : rows'[i] = rows[i] \/ \E c \in codes : Bears(i, c)
      BY <3>1
    <3>3. \A i \in Ids : \A r \in Gone(i, op[p].hard) : r.deleted
      BY <3>1 DEF Gone, Row
    <3>4. \A i \in Ids : \A r \in rows'[i] : r.deleted \/ \E s \in rows[i] : s.code = r.code
      BY <3>1, <3>3
    <3> QED
      BY <3>2, <3>4, OthersStay
  <2> HIDE DEF new
  <2> QED
    BY <1>1, <2>1, <2>2, DropsAnnounce
<1> QED
  BY <1>2, <1>3

LEMMA UpdateMetaAnnounces ==
    ASSUME Sound, NEW p \in Clients, UpdateMeta(p)
    PROVE  Failing(p) \/ Announcing(p)
<1> DEFINE new == [i \in Ids |-> IF Bears(i, op[p].code)
                                 THEN {[r EXCEPT !.data["title"] = 1] : r \in rows[i]}
                                 ELSE rows[i]]
           codes == {op[p].code}
<1>1. pc[p] \in Statements /\ UNCHANGED <<cache, seen, fills>>
  BY DEF UpdateMeta, Statements
<1>2. Commit(new) /\ drops' = [drops EXCEPT ![p] = codes] /\ Goto(p, "drop")
  BY DEF UpdateMeta
<1>3. \A c \in Codes \ codes : Current(c)' = Current(c)
  <2>1. rows' = new /\ \A i \in Ids : rows[i] \subseteq Row
    BY <1>2 DEF Commit, Sound, TypeOK
  <2>2. \A i \in Ids : rows'[i] = rows[i] \/ \E c \in codes : Bears(i, c)
    BY <2>1
  <2>3. \A i \in Ids : \A r \in rows'[i] : \E s \in rows[i] : s.code = r.code
    BY <2>1 DEF Row
  <2> QED
    BY <2>2, <2>3, OthersStay
<1> HIDE DEF new, codes
<1> QED
  BY <1>1, <1>2, <1>3, DropsAnnounce

\* A sweep announces every code by the clear that follows.
LEMMA SweepRowsAnnounces ==
    ASSUME Sound, NEW p \in Clients, SweepRows(p)
    PROVE  Failing(p) \/ Announcing(p)
<1>1. pc[p] \in Statements /\ UNCHANGED <<cache, seen, fills, drops>>
  BY DEF SweepRows, Statements
<1>2. PICK new : Commit(new)
  BY DEF SweepRows
<1>3. pc' = [pc EXCEPT ![p] = pc'[p]] /\ pc'[p] = "clear"
  BY DEF SweepRows, Goto, Sound, TypeOK
<1>4. \A c \in Codes : Announced(c)'
  BY <1>3 DEF Announced
<1>5. \A q \in Clients \ {p} : fills'[q] = fills[q] /\ drops'[q] = drops[q]
  BY <1>1
<1> QED
  BY <1>1, <1>2, <1>3, <1>4, <1>5 DEF Announcing

LEMMA InsertAnnounces ==
    ASSUME Sound, NEW p \in Clients, Insert(p)
    PROVE  Failing(p) \/ Announcing(p)
<1>1. pc[p] \in Statements /\ UNCHANGED <<cache, seen>>
  BY DEF Insert, Statements
<1>2. CASE NoEffect(p) /\ UNCHANGED fills
  BY <1>1, <1>2 DEF Failing
<1>3. CASE /\ \E new : Commit(new)
           /\ Goto(p, "fill") /\ UNCHANGED drops
           /\ \A q \in Clients \ {p} : fills'[q] = fills[q]
           /\ \A l \in fills'[p] : l.code \in Codes /\ l \in Current(l.code)'
           /\ \A c \in Codes : Current(c) = {} \/ Current(c)' = Current(c)
  <2>1. PICK new : Commit(new)
    BY <1>3
  <2>2. pc' = [pc EXCEPT ![p] = pc'[p]]
    BY <1>3 DEF Goto, Sound, TypeOK
  <2>3. \A q \in Clients \ {p} : fills'[q] = fills[q] /\ drops'[q] = drops[q]
    BY <1>3
  <2> QED
    BY <1>1, <1>3, <2>1, <2>2, <2>3 DEF Announcing
<1> QED
  BY <1>2, <1>3, InsertedLinks

LEMMA StatementsAnnounce ==
    ASSUME Sound, NEW p \in Clients,
           Insert(p) \/ Rename(p) \/ Update(p) \/ DeleteRows(p) \/ SweepRows(p) \/ UpdateMeta(p)
    PROVE  Failing(p) \/ Announcing(p)
BY InsertAnnounces, RenameAnnounces, UpdateAnnounces, DeleteRowsAnnounces, SweepRowsAnnounces,
   UpdateMetaAnnounces

LEMMA InvalidationExternalEdit ==
    ASSUME Sound, Invalidating, NEW c \in Codes, NEW patch \in Patches, ExternalEdit(c, patch)
    PROVE  Invalidating'
<1>1. raced' = raced \cup {c} /\ UNCHANGED <<cache, pc, fills, drops>>
  BY DEF ExternalEdit, localVars
<1>2. \A d \in Codes \ {c} : Current(d)' = Current(d)
  BY ExternalStays
<1>3. \A q \in Clients : \A l \in fills[q] : l.code \in Codes
  BY DEF Sound, TypeOK, Link
<1>4. FillsAreCurrent'
  BY <1>1, <1>2, <1>3 DEF Invalidating, FillsAreCurrent
<1>5. \A d \in Codes : Announced(d)' <=> Announced(d)
  BY <1>1 DEF Announced
<1>6. ASSUME NEW d \in Codes, d \notin raced'
      PROVE  cache'[d] \subseteq Current(d)' \/ Announced(d)'
  <2>1. d # c /\ d \notin raced
    BY <1>1, <1>6
  <2> QED
    BY <1>1, <1>2, <1>5, <2>1 DEF Invalidating, InvalidationWorks
<1> QED
  BY <1>4, <1>6 DEF Invalidating, InvalidationWorks

LEMMA InvalidationInit == Init => Invalidating
BY DEF Init, Invalidating, InvalidationWorks, FillsAreCurrent

LEMMA InvalidationNext == Sound /\ Invalidating /\ [Next]_vars => Invalidating'
<1> SUFFICES ASSUME Sound, Invalidating, [Next]_vars PROVE Invalidating'
  OBVIOUS
<1>1. ASSUME NEW p \in Clients, Begin(p) \/ Serve(p) \/ Abort(p) PROVE Invalidating'
  BY <1>1, InvalidationLocalSteps, StatementsAnnounce, FailingInvalidation, AnnouncingInvalidation
     DEF Serve
<1>2. ASSUME NEW c \in Codes, NEW patch \in Patches, ExternalEdit(c, patch) PROVE Invalidating'
  BY <1>2, InvalidationExternalEdit
<1>3. ASSUME \/ \E c \in Codes : Lapse(c)
             \/ ClearBackups \/ UNCHANGED vars
      PROVE  Invalidating'
  <2>1. UNCHANGED <<rows, raced, pc, fills, drops>>
    BY <1>3 DEF Lapse, ClearBackups, vars, tableVars, localVars, historyVars
  <2>2. \A c \in Codes : cache'[c] = {} \/ cache'[c] = cache[c]
    BY <1>3 DEF Lapse, ClearBackups, vars, Sound, TypeOK
  <2>3. \A c \in Codes : Announced(c) => Announced(c)'
    BY <2>1 DEF Announced
  <2>4. \A q \in Clients : \A l \in fills'[q] : l \in fills[q]
    BY <2>1
  <2> QED
    BY <2>1, <2>2, <2>3, <2>4, QuietInvalidation
<1>4. ASSUME Crash PROVE Invalidating'
  <2>1. UNCHANGED <<rows, raced>>
    BY <1>4 DEF Crash, tableVars, historyVars
  <2>2. \A c \in Codes : cache'[c] = {}
    BY <1>4 DEF Crash
  <2>3. \A q \in Clients : fills'[q] \subseteq fills[q]
    BY <1>4 DEF Crash
  <2> QED
    BY <2>1, <2>2, <2>3, DroppingInvalidation
<1> QED
  BY <1>1, <1>2, <1>3, <1>4 DEF Next

\* The writes invalidate the cache: an entry that disagrees with the table is
\* about to be dropped, or was read before a write that raced with its fill.
THEOREM WritesInvalidate == Spec => []InvalidationWorks
BY InvalidationInit, InvalidationNext, AlwaysSound, PTL DEF Spec, Invalidating

-----------------------------------------------------------------------------
(* The store implements a register for each code.                          *)

\* What the register remembers and what it shows stay while the table does.
LEMMA RegisterQuiet ==
    ASSUME UNCHANGED <<rows, past, raced>>
    PROVE  /\ [c \in Codes |-> Current(c)]' = [c \in Codes |-> Current(c)]
           /\ [c \in Codes |-> {l \in past : l.code = c}]' =
                [c \in Codes |-> {l \in past : l.code = c}]
           /\ raced' = raced
BY DEF Current, AsLink, Bears

LEMMA RegisterStutters ==
    ASSUME UNCHANGED <<rows, past, raced, cache, seen>>,
           \A c \in Codes : (Announced(c)' <=> Announced(c)) /\ (Pending(c)' <=> Pending(c))
    PROVE  UNCHANGED Register!vars
<1>1. {c \in Codes : Announced(c)}' = {c \in Codes : Announced(c)}
  OBVIOUS
<1>2. {c \in Codes : Pending(c)}' = {c \in Codes : Pending(c)}
  OBVIOUS
<1> QED
  BY <1>1, <1>2, RegisterQuiet DEF Register!vars

\* A write is remembered under the codes it changed.
LEMMA RegisterRemembers ==
    ASSUME past' = past \cup UNION {Current(c)' : c \in Codes}, RowsAreSound'
    PROVE  Register!Remember
<1> DEFINE Now(c) == Current(c)'
<1>1. \A c \in Codes : \A l \in Now(c) : l.code = c
  <2>1. ASSUME NEW c \in Codes, NEW l \in Current(c)'
        PROVE  l.code = c
    BY <2>1 DEF Current, AsLink, Bears, RowsAreSound
  <2> QED
    BY <2>1
<1>2. past' = past \cup UNION {Now(c) : c \in Codes}
  OBVIOUS
<1> HIDE DEF Now
<1>3. \A c \in Codes : {l \in past' : l.code = c} = {l \in past : l.code = c} \cup Now(c)
  BY <1>1, <1>2
<1> QED
  BY <1>3 DEF Register!Remember, Now

LEMMA RegisterChanges == Register!Changed = {c \in Codes : Current(c)' # Current(c)}
BY DEF Register!Changed

LEMMA RegisterPublishes ==
    ASSUME Sound, Sound', Invalidating, NEW p \in Clients, Announcing(p)
    PROVE  Register!Publish
<1>1. Register!Remember
  BY RegisterRemembers DEF Announcing, Commit, Sound
<1>2. raced' = raced \cup (Register!Changed \cap {c \in Codes : Pending(c)})
  <2>1. raced' = raced \cup {c \in Codes : Current(c)' # Current(c) /\ Pending(c)}
    BY DEF Announcing, Commit, Pending
  <2> QED
    BY <2>1, RegisterChanges
<1>3. /\ {c \in Codes : Announced(c)} \subseteq {c \in Codes : Announced(c)}'
      /\ {c \in Codes : Pending(c)} \subseteq {c \in Codes : Pending(c)}'
  BY AnnouncementsStay
<1>4. ASSUME NEW c \in Register!Changed
      PROVE  cache[c] = {} \/ c \in {d \in Codes : Announced(d)}' \cup raced'
  <2>1. c \in Codes /\ Current(c)' # Current(c)
    BY RegisterChanges
  <2>2. Current(c) = {} \/ Announced(c)'
    BY <2>1 DEF Announcing
  <2>3. Announced(c) => Announced(c)'
    BY <2>1, AnnouncementsStay
  <2>4. c \notin raced => cache[c] \subseteq Current(c) \/ Announced(c)
    BY <2>1 DEF Invalidating, InvalidationWorks
  <2> QED
    BY <1>2, <2>1, <2>2, <2>3, <2>4
<1>5. UNCHANGED <<cache, seen>>
  BY DEF Announcing
<1> QED
  BY <1>1, <1>2, <1>3, <1>4, <1>5 DEF Register!Publish

LEMMA RegisterIntrudes ==
    ASSUME Sound, Sound', Committed, NEW c \in Codes, NEW patch \in Patches, ExternalEdit(c, patch)
    PROVE  Register!Intrude(c)
<1>1. \A d \in Codes \ {c} : Current(d)' = Current(d)
  BY ExternalStays
<1>2. Register!Changed \subseteq {c}
  BY <1>1, RegisterChanges
<1>3. past' = past \cup UNION {Current(d)' : d \in Codes}
  <2> DEFINE Now(d) == Current(d)'
  <2>1. past' = past \cup Now(c)
    BY DEF ExternalEdit
  <2>2. \A d \in Codes \ {c} : Now(d) \subseteq past
    BY <1>1 DEF Committed, CurrentIsPast
  <2> HIDE DEF Now
  <2>3. past' = past \cup UNION {Now(d) : d \in Codes}
    BY <2>1, <2>2
  <2> QED
    BY <2>3 DEF Now
<1>4. Register!Remember
  BY <1>3, RegisterRemembers DEF Sound
<1>5. UNCHANGED <<cache, seen, drops, pc, fills>> /\ raced' = raced \cup {c}
  BY DEF ExternalEdit, localVars
<1>6. /\ {d \in Codes : Announced(d)}' = {d \in Codes : Announced(d)}
      /\ {d \in Codes : Pending(d)}' = {d \in Codes : Pending(d)}
  BY <1>5 DEF Announced, Pending
<1> QED
  BY <1>2, <1>4, <1>5, <1>6 DEF Register!Intrude

\* A request that reads works on a code.
LEMMA ReadersHaveCodes ==
    ASSUME Sound, NEW p \in Clients, pc[p] \in {"lookup", "select"}
    PROVE  op[p].code \in Codes
<1>1. op[p] \in Ops /\ op[p].kind \in {"get", "edit", "delete"}
  BY KindsTable DEF Sound, TypeOK, StepsFitRequests
<1> QED
  BY <1>1, RequestFields

LEMMA RegisterReadsCopy ==
    ASSUME Sound, NEW p \in Clients, CacheHit(p)
    PROVE  Register!ReadCopy(p, op[p].code)
<1>1. UNCHANGED <<rows, past, raced, cache, drops, fills>>
  BY DEF CacheHit, tableVars, historyVars
<1>2. pc[p] # "clear" /\ pc' = [pc EXCEPT ![p] = pc'[p]] /\ pc'[p] # "clear"
  <2>1. PICK label \in AfterGet(p) : Goto(p, label)
    BY DEF CacheHit
  <2>2. label # "clear"
    BY DEF AfterGet, Write
  <2> QED
    BY <2>1, <2>2 DEF CacheHit, Goto, Sound, TypeOK
<1>3. \A c \in Codes : (Announced(c)' <=> Announced(c)) /\ (Pending(c)' <=> Pending(c))
  BY <1>1, <1>2 DEF Announced, Pending, Sound, TypeOK
<1>4. /\ {d \in Codes : Announced(d)}' = {d \in Codes : Announced(d)}
      /\ {d \in Codes : Pending(d)}' = {d \in Codes : Pending(d)}
  BY <1>3
<1>5. cache[op[p].code] # {} /\ seen' = [seen EXCEPT ![p] = cache[op[p].code]]
  BY DEF CacheHit
<1> QED
  BY <1>1, <1>4, <1>5, RegisterQuiet DEF Register!ReadCopy

LEMMA RegisterReadsLink ==
    ASSUME Sound, NEW p \in Clients, Select(p)
    PROVE  Register!ReadLink(p, op[p].code)
<1> DEFINE code == op[p].code
<1>1. UNCHANGED <<rows, past, raced, cache, drops>> /\ code \in Codes
  BY ReadersHaveCodes DEF Select, tableVars, historyVars
<1>2. pc[p] # "clear" /\ pc' = [pc EXCEPT ![p] = pc'[p]] /\ pc'[p] # "clear"
  BY DEF Select, Goto, Sound, TypeOK
<1>3. \A c \in Codes : Announced(c)' <=> Announced(c)
  BY <1>1, <1>2 DEF Announced, Sound, TypeOK
<1>4. fills[p] = {} /\ fills' = [fills EXCEPT ![p] = Current(code)]
  BY DEF Select, Sound, PendingIsAnnounced
<1>5. \A l \in Current(code) : l.code = code
  BY CurrentIsBorne DEF Sound
<1> HIDE DEF code
<1>6. \A c \in Codes : Pending(c)' <=> Pending(c) \/ (c = code /\ Current(code) # {})
  BY <1>4, <1>5 DEF Pending, Sound, TypeOK
<1>7. {d \in Codes : Announced(d)}' = {d \in Codes : Announced(d)}
  BY <1>3
<1>8. {d \in Codes : Pending(d)}' =
        {d \in Codes : Pending(d)} \cup {d \in {code} : [c \in Codes |-> Current(c)][d] # {}}
  BY <1>1, <1>6
<1>9. seen' = [seen EXCEPT ![p] = [c \in Codes |-> Current(c)][code]]
  BY <1>1 DEF Select, code
<1>10. Register!ReadLink(p, code)
  BY <1>1, <1>7, <1>8, <1>9, RegisterQuiet DEF Register!ReadLink
<1> QED
  BY <1>10 DEF code

LEMMA RegisterCopies ==
    ASSUME Sound, Committed, Invalidating, NEW p \in Clients, Fill(p)
    PROVE  \E c \in Codes : Register!Copy(c)
<1>1. UNCHANGED <<rows, past, raced, seen, drops>>
  BY DEF Fill, tableVars, historyVars
<1>2. PICK l \in fills[p] : /\ cache' = [cache EXCEPT ![l.code] = {l}]
                            /\ fills' = [fills EXCEPT ![p] = @ \ {l}]
  BY DEF Fill
<1> DEFINE code == l.code
<1>3. code \in Codes /\ l \in past
  BY DEF Sound, TypeOK, Link, Committed, OnlyCommittedLinks
<1>4. code \in raced \/ l \in Current(code)
  BY DEF Invalidating, FillsAreCurrent
<1>5. pc[p] # "clear" /\ pc' = [pc EXCEPT ![p] = pc'[p]] /\ pc'[p] # "clear"
  <2>1. CASE UNCHANGED pc
    BY <2>1 DEF Fill, Sound, TypeOK
  <2>2. CASE \E label \in AfterGet(p) : Goto(p, label)
    <3>1. PICK label \in AfterGet(p) : Goto(p, label)
      BY <2>2
    <3>2. label # "clear"
      BY DEF AfterGet, Write
    <3> QED
      BY <3>1, <3>2 DEF Fill, Goto, Sound, TypeOK
  <2> QED
    BY <2>1, <2>2 DEF Fill
<1>6. {d \in Codes : Announced(d)}' = {d \in Codes : Announced(d)}
  BY <1>1, <1>5 DEF Announced, Sound, TypeOK
<1>7. Pending(code)
  BY DEF Pending
<1>8. \A d \in Codes : \/ Pending(d)' <=> Pending(d)
                       \/ d = code /\ ~Pending(d)'
  <2>1. \A q \in Clients : \A m : m \in fills'[q] <=> m \in fills[q] /\ (q # p \/ m # l)
    BY <1>2 DEF Sound, TypeOK
  <2>2. ASSUME NEW d \in Codes, d # code
        PROVE  Pending(d)' <=> Pending(d)
    BY <2>1, <2>2 DEF Pending
  <2> QED
    BY <1>7, <2>2
<1> HIDE DEF code
<1>9. {d \in Codes : Pending(d)}' \in {{d \in Codes : Pending(d)}, {d \in Codes : Pending(d)} \ {code}}
  <2>1. CASE Pending(code)'
    BY <1>7, <1>8, <2>1
  <2>2. CASE ~Pending(code)'
    BY <1>8, <2>2
  <2> QED
    BY <2>1, <2>2
<1>10. \E m \in IF code \in raced THEN [d \in Codes |-> {k \in past : k.code = d}][code]
                                  ELSE [d \in Codes |-> Current(d)][code] :
         cache' = [cache EXCEPT ![code] = {m}]
  BY <1>2, <1>3, <1>4 DEF code
<1>11. code \in {d \in Codes : Pending(d)}
  BY <1>3, <1>7
<1>12. Register!Copy(code)
  BY <1>1, <1>6, <1>9, <1>10, <1>11, RegisterQuiet DEF Register!Copy
<1> QED
  BY <1>3, <1>12

\* Steps that take entries out of the cache: no announcement is withdrawn of a
\* code whose entry stays.
LEMMA RegisterDrops ==
    ASSUME Sound, UNCHANGED <<rows, past, raced, seen, fills>>,
           NEW gone \in SUBSET Codes,
           cache' = [c \in Codes |-> IF c \in gone THEN {} ELSE cache[c]],
           \A c \in Codes : Announced(c)' => Announced(c),
           \A c \in Codes \ gone : Announced(c) => Announced(c)'
    PROVE  Register!Drop
<1>1. {d \in Codes : Pending(d)}' = {d \in Codes : Pending(d)}
  BY DEF Pending
<1>2. {d \in Codes : Announced(d)}' \subseteq {d \in Codes : Announced(d)}
  OBVIOUS
<1>3. {d \in Codes : Announced(d)} \ gone \subseteq {d \in Codes : Announced(d)}'
  OBVIOUS
<1>4. [c \in Codes |-> Current(c)]' = [c \in Codes |-> Current(c)]
  BY RegisterQuiet
<1>5. [c \in Codes |-> {l \in past : l.code = c}]' = [c \in Codes |-> {l \in past : l.code = c}]
  BY RegisterQuiet
<1> QED
  BY <1>1, <1>2, <1>3, <1>4, <1>5 DEF Register!Drop

LEMMA RegisterLosesCopies ==
    ASSUME Sound, \/ \E p \in Clients : Drop(p) \/ Clear(p)
                  \/ \E c \in Codes : Lapse(c)
    PROVE  Register!Drop
<1>1. UNCHANGED <<rows, past, raced, seen, fills>>
  BY DEF Drop, Clear, Lapse, tableVars, historyVars, localVars
<1>2. ASSUME NEW p \in Clients, Drop(p)
      PROVE  Register!Drop
  <2>1. PICK d \in drops[p] : /\ cache' = [cache EXCEPT ![d] = {}]
                              /\ drops' = [drops EXCEPT ![p] = @ \ {d}]
    BY <1>2 DEF Drop
  <2>2. pc[p] # "clear" /\ pc' = [pc EXCEPT ![p] = pc'[p]] /\ pc'[p] # "clear"
    BY <1>2 DEF Drop, Goto, Sound, TypeOK
  <2>3. cache' = [b \in Codes |-> IF b \in {d} THEN {} ELSE cache[b]] /\ {d} \in SUBSET Codes
    BY <2>1 DEF Sound, TypeOK
  <2>4. \A b \in Codes : Announced(b)' => Announced(b)
    BY <2>1, <2>2 DEF Announced, Sound, TypeOK
  <2>5. \A b \in Codes \ {d} : Announced(b) => Announced(b)'
    BY <2>1, <2>2 DEF Announced, Sound, TypeOK
  <2> QED
    BY <1>1, <2>3, <2>4, <2>5, RegisterDrops
<1>3. ASSUME NEW p \in Clients, Clear(p)
      PROVE  Register!Drop
  <2>1. cache' = [b \in Codes |-> IF b \in Codes THEN {} ELSE cache[b]] /\ Codes \in SUBSET Codes
    BY <1>3 DEF Clear
  <2>2. \A b \in Codes : Announced(b)' => Announced(b)
    BY <1>3 DEF Clear, Goto, Announced, Sound, TypeOK
  <2>3. \A b \in Codes \ Codes : Announced(b) => Announced(b)'
    OBVIOUS
  <2> QED
    BY <1>1, <2>1, <2>2, <2>3, RegisterDrops
<1>4. ASSUME NEW c \in Codes, Lapse(c)
      PROVE  Register!Drop
  <2>1. cache' = [b \in Codes |-> IF b \in {c} THEN {} ELSE cache[b]] /\ {c} \in SUBSET Codes
    BY <1>4 DEF Lapse, Sound, TypeOK
  <2>2. \A b \in Codes : Announced(b)' <=> Announced(b)
    BY <1>4 DEF Lapse, localVars, Announced
  <2> QED
    BY <1>1, <2>1, <2>2, RegisterDrops
<1> QED
  BY <1>2, <1>3, <1>4

LEMMA RegisterFinishes ==
    ASSUME Sound, NEW p \in Clients, Answer(p)
    PROVE  Register!Finish(p)
<1>1. UNCHANGED <<rows, past, raced, cache, drops, fills>>
  BY DEF Answer, tableVars, historyVars
<1>2. pc[p] # "clear" /\ pc' = [pc EXCEPT ![p] = pc'[p]] /\ pc'[p] # "clear"
  BY DEF Answer, Goto, Sound, TypeOK
<1>3. {d \in Codes : Announced(d)}' = {d \in Codes : Announced(d)}
  BY <1>1, <1>2 DEF Announced, Sound, TypeOK
<1>4. {d \in Codes : Pending(d)}' = {d \in Codes : Pending(d)}
  BY <1>1 DEF Pending
<1>5. seen' = [seen EXCEPT ![p] = {}]
  BY DEF Answer
<1> QED
  BY <1>1, <1>3, <1>4, <1>5, RegisterQuiet DEF Register!Finish

LEMMA RegisterRestarts ==
    ASSUME Crash
    PROVE  Register!Restart
<1>1. UNCHANGED <<rows, past, raced>>
  BY DEF Crash, tableVars, historyVars
<1>2. {d \in Codes : Announced(d)}' = {} /\ {d \in Codes : Pending(d)}' = {}
  BY DEF Crash, Announced, Pending
<1>3. cache' = [c \in Codes |-> {}] /\ seen' = [p \in Clients |-> {}]
  BY DEF Crash
<1> QED
  BY <1>1, <1>2, <1>3, RegisterQuiet DEF Register!Restart

\* Steps that only their request notices.
LEMMA RegisterIgnores ==
    ASSUME Sound, NEW p \in Clients,
           Begin(p) \/ Abort(p) \/ CacheMiss(p) \/ NextBId(p) \/ Snapshot(p) \/ Failing(p)
    PROVE  UNCHANGED Register!vars
<1>1. UNCHANGED <<rows, past, raced, cache, seen, drops, fills>>
  BY BeginAccepts DEF Accept, Abort, CacheMiss, NextBId, Snapshot, Failing, NoEffect, tableVars,
     historyVars
<1>2. pc[p] # "clear"
  BY BeginAccepts DEF Accept, Abort, CacheMiss, NextBId, Snapshot, Failing, Statements
<1>3. pc' = [pc EXCEPT ![p] = pc'[p]] /\ pc'[p] # "clear"
  <2>1. CASE Begin(p)
    <3>1. \E label \in {"lookup", "insert", "delete", "sweep", "meta"} : Goto(p, label)
      BY <2>1, BeginAccepts DEF Accept
    <3> QED
      BY <3>1 DEF Goto, Sound, TypeOK
  <2>2. CASE Abort(p) \/ CacheMiss(p) \/ NextBId(p) \/ Snapshot(p) \/ Failing(p)
    <3>1. \E label \in {"done", "select", "snapshot", "update", "rename"} : Goto(p, label)
      BY <2>2 DEF Abort, CacheMiss, NextBId, Snapshot, Write, Failing, NoEffect
    <3> QED
      BY <3>1 DEF Goto, Sound, TypeOK
  <2> QED
    BY <2>1, <2>2
<1>4. \A c \in Codes : (Announced(c)' <=> Announced(c)) /\ (Pending(c)' <=> Pending(c))
  BY <1>1, <1>2, <1>3 DEF Announced, Pending, Sound, TypeOK
<1> QED
  BY <1>1, <1>4, RegisterStutters

LEMMA RegisterStep ==
    ASSUME Sound, Sound', Committed, Invalidating, [Next]_vars
    PROVE  [Register!Next]_(Register!vars)
<1>1. ASSUME NEW p \in Clients, Begin(p) \/ Abort(p)
      PROVE  UNCHANGED Register!vars
  BY <1>1, RegisterIgnores
<1>2. ASSUME NEW p \in Clients, Serve(p)
      PROVE  [Register!Next]_(Register!vars)
  <2>1. CASE CacheMiss(p) \/ NextBId(p) \/ Snapshot(p)
    BY <2>1, RegisterIgnores
  <2>2. CASE CacheHit(p) \/ Select(p)
    <3>1. op[p].code \in Codes
      BY <2>2, ReadersHaveCodes DEF CacheHit, Select
    <3> QED
      BY <2>2, <3>1, RegisterReadsCopy, RegisterReadsLink DEF Register!Next
  <2>3. CASE Fill(p)
    BY <2>3, RegisterCopies DEF Register!Next
  <2>4. CASE Insert(p) \/ Rename(p) \/ Update(p) \/ DeleteRows(p) \/ SweepRows(p) \/ UpdateMeta(p)
    BY <2>4, StatementsAnnounce, RegisterIgnores, RegisterPublishes DEF Register!Next
  <2>5. CASE Drop(p) \/ Clear(p)
    BY <2>5, RegisterLosesCopies DEF Register!Next
  <2>6. CASE Answer(p)
    BY <2>6, RegisterFinishes DEF Register!Next
  <2> QED
    BY <1>2, <2>1, <2>2, <2>3, <2>4, <2>5, <2>6 DEF Serve
<1>3. ASSUME NEW c \in Codes, NEW patch \in Patches, ExternalEdit(c, patch)
      PROVE  Register!Next
  BY <1>3, RegisterIntrudes DEF Register!Next
<1>4. ASSUME NEW c \in Codes, Lapse(c)
      PROVE  Register!Next
  BY <1>4, RegisterLosesCopies DEF Register!Next
<1>5. CASE ClearBackups \/ UNCHANGED vars
  <2>1. UNCHANGED <<rows, past, raced, cache, seen, pc, drops, fills>>
    BY <1>5 DEF ClearBackups, vars, tableVars, historyVars, localVars
  <2>2. \A c \in Codes : (Announced(c)' <=> Announced(c)) /\ (Pending(c)' <=> Pending(c))
    BY <2>1 DEF Announced, Pending
  <2> QED
    BY <2>1, <2>2, RegisterStutters
<1>6. CASE Crash
  BY <1>6, RegisterRestarts DEF Register!Next
<1> QED
  BY <1>1, <1>2, <1>3, <1>4, <1>5, <1>6 DEF Next

\* Requests, cache and table together are a register for each code, with a copy
\* that reads may see in its place: every step of theirs reads, writes, copies or
\* drops as LinkRegister allows, or is invisible to it.
THEOREM StoreImplementsRegister == Spec => RegisterSpec
<1>1. Init => Register!Init
  BY DEF Init, Register!Init, Current, Bears, Announced, Pending
<1>2. Sound /\ Sound' /\ Committed /\ Invalidating /\ [Next]_vars => [Register!Next]_(Register!vars)
  BY RegisterStep
<1> QED
  BY <1>1, <1>2, SoundInit, SoundNext, CommittedInit, CommittedNext, InvalidationInit,
     InvalidationNext, PTL DEF Spec, RegisterSpec, Register!Spec

-----------------------------------------------------------------------------
(* What the register is worth to a reader, whatever implements it.         *)

Fresh ==
    /\ cache = [c \in Codes |-> cache[c]]
    /\ InvalidationWorks

LEMMA FreshNext == Fresh /\ [Register!Next]_(Register!vars) => Fresh'
<1> SUFFICES ASSUME Fresh, [Register!Next]_(Register!vars) PROVE Fresh'
  OBVIOUS
<1> DEFINE Links == [c \in Codes |-> Current(c)]
           Stale == {c \in Codes : Announced(c)}
           Agree == \A c \in Codes : c \in raced \/ c \in Stale \/ cache[c] \subseteq Links[c]
<1>1. Agree
  BY DEF Fresh, InvalidationWorks
<1>2. SUFFICES cache' = [c \in Codes |-> cache'[c]] /\ Agree'
  BY DEF Fresh, InvalidationWorks
<1>3. cache = [c \in Codes |-> cache[c]]
  BY DEF Fresh
<1>4. CASE Register!Publish
  <2>1. cache' = cache /\ raced \subseteq raced' /\ Stale \subseteq Stale'
    BY <1>4 DEF Register!Publish
  <2>2. \A c \in Codes : Links'[c] # Links[c] => cache[c] = {} \/ c \in Stale' \cup raced'
    BY <1>4 DEF Register!Publish, Register!Changed
  <2> HIDE DEF Links, Stale
  <2> QED
    BY <1>1, <1>3, <2>1, <2>2
<1>5. ASSUME NEW c \in Codes, Register!Intrude(c)
      PROVE  cache' = [d \in Codes |-> cache'[d]] /\ Agree'
  <2>1. cache' = cache /\ raced' = raced \cup {c} /\ Stale' = Stale
    BY <1>5 DEF Register!Intrude
  <2>2. \A d \in Codes : Links'[d] # Links[d] => d = c
    BY <1>5 DEF Register!Intrude, Register!Changed
  <2> HIDE DEF Links, Stale
  <2> QED
    BY <1>1, <1>3, <2>1, <2>2
<1>6. ASSUME NEW c \in Codes, Register!Copy(c)
      PROVE  cache' = [d \in Codes |-> cache'[d]] /\ Agree'
  <2>1. Links' = Links /\ raced' = raced /\ Stale' = Stale
    BY <1>6 DEF Register!Copy
  <2>2. PICK l : cache' = [cache EXCEPT ![c] = {l}] /\ (c \in raced \/ l \in Links[c])
    BY <1>6 DEF Register!Copy
  <2> HIDE DEF Links, Stale
  <2>3. cache'[c] = {l} /\ \A d \in Codes : d # c => cache'[d] = cache[d]
    BY <1>3, <2>2
  <2>4. cache' = [d \in Codes |-> cache'[d]]
    BY <1>3, <2>2
  <2> QED
    BY <1>1, <2>1, <2>2, <2>3, <2>4
<1>7. CASE Register!Drop
  <2>1. /\ cache' = [c \in Codes |-> IF cache'[c] = {} THEN {} ELSE cache[c]]
        /\ \A c \in Stale \ Stale' : cache'[c] = {}
    BY <1>7 DEF Register!Drop
  <2>2. \A c \in Codes : cache'[c] = {} \/ cache'[c] = cache[c]
    BY <2>1
  <2>3. Links' = Links /\ raced' = raced
    BY <1>7 DEF Register!Drop
  <2> HIDE DEF Links, Stale
  <2>4. cache' = [c \in Codes |-> cache'[c]]
    BY <2>1
  <2> QED
    BY <1>1, <2>1, <2>2, <2>3, <2>4
<1>8. CASE Register!Restart
  BY <1>8 DEF Register!Restart
<1>9. ASSUME \/ \E p \in Clients, c \in Codes : Register!ReadCopy(p, c) \/ Register!ReadLink(p, c)
             \/ \E p \in Clients : Register!Finish(p)
             \/ UNCHANGED Register!vars
      PROVE  cache' = [d \in Codes |-> cache'[d]] /\ Agree'
  <2>1. Links' = Links /\ raced' = raced /\ Stale' = Stale /\ cache' = cache
    BY <1>9 DEF Register!ReadCopy, Register!ReadLink, Register!Finish, Register!vars
  <2> HIDE DEF Links, Stale
  <2> QED
    BY <1>1, <1>3, <2>1
<1> QED
  BY <1>4, <1>5, <1>6, <1>7, <1>8, <1>9 DEF Register!Next

\* Whatever keeps to the register, as the store does, serves copies of the
\* present link but for codes that are raced or about to lose their copy.
THEOREM RegisterIsFresh == RegisterSpec => []InvalidationWorks
<1>1. Register!Init => Fresh
  BY DEF Register!Init, Fresh, InvalidationWorks
<1>2. Fresh => InvalidationWorks
  BY DEF Fresh
<1> QED
  BY <1>1, <1>2, FreshNext, PTL DEF RegisterSpec, Register!Spec
=============================================================================
