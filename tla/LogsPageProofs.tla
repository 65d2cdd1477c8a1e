--------------------------- MODULE LogsPageProofs ---------------------------
(***************************************************************************)
(* What the logs page shows has no holes but for the reasons it records,   *)
(* for any length of the log, any size of its pages and of the             *)
(* subscriber's channel, and any number of writers and of requests.        *)
(***************************************************************************)
EXTENDS LogsPage, TLAPS

LogsNext == LogsUser \/ LogsRuns \/ LogsTrouble

Reply == [at: {"idle", "sent", "answered"}, offset: Nat, lines: Seq(Nat)]

\* The types that the lines rest on.
LogsShape ==
    /\ logged \in Nat /\ file \in Seq(Nat) /\ historyOffset \in Nat
    /\ records \in Seq(Nat) /\ pipe \in Seq(Nat)
    /\ history \in Reply /\ more \in [Slots -> Reply]

\* The file has lines that were logged, each once.
Once(f) == \A i, j \in 1..Len(f) : f[i] = f[j] => i = j
Written == Once(file) /\ Lines(file) \subseteq 1..logged

\* Older lines are asked for when the newest are there, and a closed page asks for nothing.
Orderly ==
    /\ history.at # "answered" => history.lines = <<>>
    /\ history.at # "idle" => ~hasMore /\ \A s \in Slots : more[s].at = "idle"
    /\ ~logsOpen => /\ history.at = "idle" /\ ~hasMore
                    /\ \A s \in Slots : more[s].at = "idle"

\* Without a gap there is one request for older lines, for those that come next.
Single ==
    \A s \in Slots : more[s].at # "idle" =>
        /\ more[s].offset = historyOffset
        /\ \A r \in Slots : more[r].at # "idle" => r = s

\* From its first line in the file, and from an offset on that counts from the end, a set
\* has every line of the file.
Complete(f, lines, offset) ==
    \A n \in 1..Len(f) :
        (n > Len(f) - offset \/ \E i \in 1..n : f[i] \in lines) => f[n] \in lines

\* An answer on its way has some lines of the file in a row, all of it if it has none. The
\* page has those that were written since, and the stream brings none from before.
Joins(f, lines, had, coming) ==
    \E m \in 0..Len(f) :
        /\ Len(lines) <= m /\ (Len(lines) = 0 => m = 0)
        /\ Lines(lines) = {f[n] : n \in (m - Len(lines) + 1)..m}
        /\ \A n \in (m + 1)..Len(f) : f[n] \in had
        /\ \A n \in 1..(m - Len(lines)) : f[n] \notin coming

\* The page has no holes, and will have none with the answer on its way.
InReach == Lines(records) \cup Lines(pipe)
Whole ==
    /\ history.at = "idle" =>
         /\ Single
         /\ Complete(file, InReach, historyOffset)
         /\ \A s \in Slots : more[s].at = "answered" =>
              Complete(file, Lines(more[s].lines) \cup InReach,
                       historyOffset + Len(more[s].lines))
    /\ history.at = "answered" => Joins(file, history.lines, InReach, Lines(pipe))

Unbroken == LogsShape /\ Written /\ Orderly /\ (logsOpen /\ ~gap => Whole)

-----------------------------------------------------------------------------
(* Sequences of lines.                                                     *)

LEMMA LinesOfAppend ==
    ASSUME NEW s \in Seq(Nat), NEW x \in Nat
    PROVE  Append(s, x) \in Seq(Nat) /\ Lines(Append(s, x)) = Lines(s) \cup {x}
<1>1. /\ Append(s, x) \in Seq(Nat) /\ DOMAIN Append(s, x) = 1..(Len(s) + 1)
      /\ \A i \in 1..Len(s) : Append(s, x)[i] = s[i]
      /\ Append(s, x)[Len(s) + 1] = x
      /\ DOMAIN s = 1..Len(s) /\ Len(s) \in Nat
  OBVIOUS
<1> QED
  BY <1>1 DEF Lines

LEMMA LinesOfConcat ==
    ASSUME NEW s \in Seq(Nat), NEW t \in Seq(Nat)
    PROVE  s \o t \in Seq(Nat) /\ Lines(s \o t) = Lines(s) \cup Lines(t)
<1>1. /\ s \o t \in Seq(Nat) /\ DOMAIN (s \o t) = 1..(Len(s) + Len(t))
      /\ \A i \in 1..Len(s) : (s \o t)[i] = s[i]
      /\ \A i \in 1..Len(t) : (s \o t)[Len(s) + i] = t[i]
      /\ DOMAIN s = 1..Len(s) /\ Len(s) \in Nat
      /\ DOMAIN t = 1..Len(t) /\ Len(t) \in Nat
  OBVIOUS
<1>2. \A i \in DOMAIN (s \o t) : i \in DOMAIN s \/ \E j \in DOMAIN t : i = Len(s) + j
  <2> SUFFICES ASSUME NEW i \in DOMAIN (s \o t), i \notin DOMAIN s
               PROVE  \E j \in DOMAIN t : i = Len(s) + j
    OBVIOUS
  <2>1. i - Len(s) \in DOMAIN t /\ i = Len(s) + (i - Len(s))
    BY <1>1
  <2> QED
    BY <2>1
<1>3. Lines(s \o t) \subseteq Lines(s) \cup Lines(t)
  BY <1>1, <1>2 DEF Lines
<1>4. Lines(s) \subseteq Lines(s \o t)
  BY <1>1 DEF Lines
<1>5. Lines(t) \subseteq Lines(s \o t)
  <2> SUFFICES ASSUME NEW j \in DOMAIN t PROVE t[j] \in Lines(s \o t)
    BY DEF Lines
  <2>1. Len(s) + j \in DOMAIN (s \o t) /\ (s \o t)[Len(s) + j] = t[j]
    BY <1>1
  <2> QED
    BY <2>1 DEF Lines
<1> QED
  BY <1>1, <1>3, <1>4, <1>5

LEMMA NoLines == <<>> \in Seq(Nat) /\ Lines(<<>>) = {} /\ Len(<<>>) = 0
BY DEF Lines

LEMMA LinesAreNumbers ==
    ASSUME NEW s \in Seq(Nat)
    PROVE  /\ Len(s) \in Nat /\ Lines(s) = {s[i] : i \in 1..Len(s)}
           /\ \A i \in 1..Len(s) : s[i] \in Nat
<1>1. Len(s) \in Nat /\ DOMAIN s = 1..Len(s) /\ \A i \in 1..Len(s) : s[i] \in Nat
  OBVIOUS
<1> QED
  BY <1>1 DEF Lines

LEMMA NumbersInARow ==
    ASSUME NEW n \in Nat, NEW s \in [1..n -> Nat]
    PROVE  s \in Seq(Nat) /\ Len(s) = n
OBVIOUS

\* Reading the first line of a sequence takes it from what is to come.
LEMMA LinesOfTail ==
    ASSUME NEW s \in Seq(Nat), s # <<>>
    PROVE  /\ Head(s) \in Nat /\ Tail(s) \in Seq(Nat)
           /\ Lines(s) = {Head(s)} \cup Lines(Tail(s))
<1>1. /\ Len(s) \in Nat /\ Len(s) # 0 /\ DOMAIN s = 1..Len(s)
      /\ Head(s) \in Nat /\ Head(s) = s[1]
      /\ Tail(s) \in Seq(Nat) /\ DOMAIN Tail(s) = 1..(Len(s) - 1)
      /\ \A i \in 1..(Len(s) - 1) : Tail(s)[i] = s[i + 1]
  OBVIOUS
<1>2. Lines(s) \subseteq {Head(s)} \cup Lines(Tail(s))
  <2> SUFFICES ASSUME NEW i \in 1..Len(s), i # 1 PROVE s[i] \in Lines(Tail(s))
    BY <1>1 DEF Lines
  <2>1. i - 1 \in DOMAIN Tail(s) /\ Tail(s)[i - 1] = s[i]
    BY <1>1
  <2> QED
    BY <2>1 DEF Lines
<1>3. {Head(s)} \cup Lines(Tail(s)) \subseteq Lines(s)
  <2>1. 1 \in DOMAIN s /\ \A i \in 1..(Len(s) - 1) : i + 1 \in DOMAIN s
    BY <1>1
  <2> QED
    BY <1>1, <2>1 DEF Lines
<1> QED
  BY <1>1, <1>2, <1>3

\* A page of the file: what is asked for, as far as it is there.
LEMMA LinesOfChunk ==
    ASSUME LogsShape, NEW offset \in Nat
    PROVE  \E last \in Nat, first \in Nat :
              /\ last = IF Len(file) > offset THEN Len(file) - offset ELSE 0
              /\ first <= last /\ (first = last => last = 0)
              /\ Chunk(offset) \in Seq(Nat) /\ Len(Chunk(offset)) = last - first
              /\ Lines(Chunk(offset)) = {file[n] : n \in (first + 1)..last}
<1> DEFINE last == IF Len(file) > offset THEN Len(file) - offset ELSE 0
           first == IF last > Limit THEN last - Limit ELSE 0
<1>1. file \in Seq(Nat) /\ Len(file) \in Nat /\ \A n \in 1..Len(file) : file[n] \in Nat
  BY LinesAreNumbers DEF LogsShape
<1>2. /\ last \in Nat /\ first \in Nat /\ first <= last /\ last <= Len(file)
      /\ (first = last => last = 0)
  BY <1>1, LogsAssumption
<1>3. Chunk(offset) = SubSeq(file, first + 1, last)
  BY DEF Chunk
<1>9. last = IF Len(file) > offset THEN Len(file) - offset ELSE 0
  OBVIOUS
<1> HIDE DEF last, first
<1>4. Chunk(offset) = [i \in 1..(last - first) |-> file[i + first]]
  BY <1>1, <1>2, <1>3
<1>5. /\ \A i \in 1..(last - first) : i + first \in 1..Len(file)
      /\ last - first \in Nat
  BY <1>1, <1>2
<1>6. Chunk(offset) \in Seq(Nat) /\ Len(Chunk(offset)) = last - first
  <2>1. \A i \in 1..(last - first) : file[i + first] \in Nat
    BY <1>1, <1>5
  <2>2. Chunk(offset) \in [1..(last - first) -> Nat]
    BY <1>4, <2>1, Zenon
  <2> QED
    BY <1>5, <2>2, NumbersInARow
<1>7. Lines(Chunk(offset)) = {file[i + first] : i \in 1..(last - first)}
  BY <1>4 DEF Lines
<1>8. /\ \A n \in (first + 1)..last : n - first \in 1..(last - first) /\ (n - first) + first = n
      /\ \A i \in 1..(last - first) : i + first \in (first + 1)..last
  BY <1>2
<1>10. {file[i + first] : i \in 1..(last - first)} = {file[n] : n \in (first + 1)..last}
  BY <1>8
<1> QED
  BY <1>2, <1>6, <1>7, <1>9, <1>10

-----------------------------------------------------------------------------
(* Sets of lines.                                                          *)

\* It matters only which lines of the file are in the set.
LEMMA SameInFile ==
    ASSUME NEW f \in Seq(Nat), NEW a, NEW b, NEW offset, Complete(f, a, offset),
           \A n \in 1..Len(f) : f[n] \in a <=> f[n] \in b
    PROVE  Complete(f, b, offset)
<1>1. \A n \in 1..Len(f) : \A i \in 1..n : i \in 1..Len(f)
  OBVIOUS
<1> QED
  BY <1>1 DEF Complete

LEMMA FileGrows ==
    ASSUME NEW f \in Seq(Nat), NEW l \in Nat, NEW a, NEW offset \in Nat, l \in a,
           Complete(f, a, offset)
    PROVE  Complete(Append(f, l), a, offset)
<1>1. /\ Len(f) \in Nat /\ Len(Append(f, l)) = Len(f) + 1
      /\ \A n \in 1..Len(f) : Append(f, l)[n] = f[n]
      /\ Append(f, l)[Len(f) + 1] = l
  OBVIOUS
<1> DEFINE g == Append(f, l)
<1> HIDE DEF g
<1>2. /\ Len(g) = Len(f) + 1 /\ g[Len(f) + 1] = l
      /\ \A n \in 1..Len(f) : g[n] = f[n]
  BY <1>1 DEF g
<1>3. ASSUME NEW n \in 1..Len(g), n > Len(g) - offset \/ \E i \in 1..n : g[i] \in a
      PROVE  g[n] \in a
  <2>1. CASE n = Len(f) + 1
    BY <1>2, <2>1
  <2>2. CASE n # Len(f) + 1
    <3>1. n \in 1..Len(f) /\ g[n] = f[n] /\ \A i \in 1..n : i \in 1..Len(f) /\ g[i] = f[i]
      BY <1>1, <1>2, <2>2
    <3>2. n > Len(f) - offset \/ \E i \in 1..n : f[i] \in a
      BY <1>1, <1>2, <1>3, <3>1
    <3> QED
      BY <3>1, <3>2 DEF Complete
  <2> QED
    BY <2>1, <2>2
<1>4. Complete(g, a, offset)
  BY <1>3 DEF Complete
<1> QED
  BY <1>4 DEF g

-----------------------------------------------------------------------------
(* Opening and leaving.                                                    *)

LEMMA EmptyRequest ==
    /\ NoRequest \in Reply /\ NoRequest.at = "idle" /\ NoRequest.lines = <<>>
    /\ [NoRequest EXCEPT !.at = "sent"] \in Reply
    /\ [NoRequest EXCEPT !.at = "sent"].at = "sent"
    /\ [NoRequest EXCEPT !.at = "sent"].lines = <<>>
BY NoLines DEF NoRequest, Reply

LEMMA MountingKeeps ==
    ASSUME Unbroken, MountLogs \/ UnmountLogs PROVE Unbroken'
<1>1. Written'
  BY DEF MountLogs, UnmountLogs, Unbroken, Written, Once, Lines, log
<1>2. CASE MountLogs
  <2>1. LogsShape'
    BY <1>2, EmptyRequest DEF MountLogs, Unbroken, LogsShape, Reply, log
  <2>2. Orderly'
    BY <1>2, EmptyRequest DEF MountLogs, Unbroken, Orderly
  <2>3. Whole'
    BY <1>2, EmptyRequest DEF MountLogs, Whole
  <2> QED
    BY <1>1, <2>1, <2>2, <2>3 DEF Unbroken
<1>3. CASE UnmountLogs
  <2>1. LogsShape'
    BY <1>3, NoLines, EmptyRequest DEF UnmountLogs, Unbroken, LogsShape, Reply, log
  <2>2. Orderly'
    BY <1>3, EmptyRequest DEF UnmountLogs, Unbroken, Orderly
  <2> QED
    BY <1>1, <1>3, <2>1, <2>2 DEF UnmountLogs, Unbroken
<1> QED
  BY <1>2, <1>3

-----------------------------------------------------------------------------
(* The stream.                                                             *)

\* What the page knows is the same as long as it has the same lines of the file in reach,
\* and no older ones are to come.
LEMMA WholeStays ==
    ASSUME Unbroken, Whole, UNCHANGED <<file, history, more, historyOffset>>,
           \A n \in 1..Len(file) : file[n] \in InReach <=> file[n] \in InReach',
           \A n \in 1..Len(file) : file[n] \in Lines(pipe') => file[n] \in Lines(pipe)
    PROVE  Whole'
<1>0. file \in Seq(Nat) /\ \A s \in Slots : more[s] \in Reply
  BY DEF Unbroken, LogsShape
<1>1. CASE history.at = "idle"
  <2>1. Single'
    BY <1>1 DEF Whole, Single
  <2>2. Complete(file, InReach', historyOffset)
    BY <1>0, <1>1, SameInFile DEF Whole
  <2>3. ASSUME NEW s \in Slots, more[s].at = "answered"
        PROVE  Complete(file, Lines(more[s].lines) \cup InReach',
                        historyOffset + Len(more[s].lines))
    <3> DEFINE a == Lines(more[s].lines) \cup InReach
               b == Lines(more[s].lines) \cup InReach'
    <3>1. Complete(file, a, historyOffset + Len(more[s].lines))
      BY <1>1, <2>3 DEF Whole
    <3>2. \A n \in 1..Len(file) : file[n] \in a <=> file[n] \in b
      OBVIOUS
    <3> HIDE DEF a, b
    <3>3. Complete(file, b, historyOffset + Len(more[s].lines))
      BY <1>0, <3>1, <3>2, SameInFile
    <3> QED
      BY <3>3 DEF b
  <2> QED
    BY <1>1, <2>1, <2>2, <2>3 DEF Whole, Lines
<1>2. CASE history.at = "answered"
  <2>1. PICK m \in 0..Len(file) :
           /\ Len(history.lines) <= m /\ (Len(history.lines) = 0 => m = 0)
           /\ Lines(history.lines) = {file[n] : n \in (m - Len(history.lines) + 1)..m}
           /\ \A n \in (m + 1)..Len(file) : file[n] \in InReach
           /\ \A n \in 1..(m - Len(history.lines)) : file[n] \notin Lines(pipe)
    BY <1>2 DEF Whole, Joins
  <2>2. Len(history.lines) \in Nat /\ Len(file) \in Nat
    BY DEF Unbroken, LogsShape, Reply
  <2>3. /\ \A n \in (m + 1)..Len(file) : n \in 1..Len(file)
        /\ \A n \in 1..(m - Len(history.lines)) : n \in 1..Len(file)
    BY <2>2
  <2>4. /\ \A n \in (m + 1)..Len(file) : file[n] \in InReach'
        /\ \A n \in 1..(m - Len(history.lines)) : file[n] \notin Lines(pipe')
    BY <2>1, <2>3
  <2>5. Joins(file, history.lines, InReach', Lines(pipe'))
    BY <2>1, <2>4 DEF Joins
  <2> QED
    BY <1>2, <2>5 DEF Whole, Lines
<1> QED
  BY <1>1, <1>2 DEF Whole

LEMMA StreamKeeps ==
    ASSUME Unbroken, StreamOpens \/ Subscribe \/ StreamRetries \/ StreamFails PROVE Unbroken'
<1>1. /\ UNCHANGED <<records, historyOffset, hasMore, history, more, logged, file, logsOpen>>
      /\ pipe' \in {pipe, <<>>}
  BY DEF StreamOpens, Subscribe, StreamRetries, StreamFails, scrollback, log
<1>2. LogsShape'
  BY <1>1, NoLines DEF Unbroken, LogsShape, Reply
<1>3. Written' /\ Orderly'
  BY <1>1 DEF Unbroken, Written, Once, Lines, Orderly
<1>4. ASSUME logsOpen', ~gap' PROVE Whole'
  <2>1. CASE history.at = "sent"
    BY <1>1, <2>1 DEF Whole
  <2>2. CASE history.at # "sent"
    <3>1. ~gap /\ (pipe' = pipe \/ (StreamFails /\ LostWithStream = {}))
      <4>1. CASE StreamOpens \/ Subscribe \/ StreamRetries
        <5>1. pipe' = pipe /\ gap' = gap
          BY <4>1 DEF StreamOpens, Subscribe, StreamRetries
        <5> QED
          BY <1>4, <5>1, Zenon
      <4>2. CASE StreamFails
        <5>1. gap' = (gap \/ (history.at # "sent" /\ LostWithStream # {}))
          BY <4>2 DEF StreamFails
        <5> QED
          BY <1>4, <2>2, <4>2, <5>1
      <4> QED
        BY <4>1, <4>2
    <3>2. Whole
      BY <1>1, <1>4, <3>1 DEF Unbroken
    <3>3. CASE pipe' = pipe
      BY <1>1, <3>2, <3>3, WholeStays DEF InReach, Lines
    <3>4. CASE pipe' = <<>> /\ LostWithStream = {}
      <4>0. file \in Seq(Nat) /\ history.lines \in Seq(Nat) /\ Lines(pipe') = {}
        BY <3>4, NoLines DEF Unbroken, LogsShape, Reply
      <4>1. \A n \in 1..Len(file) :
               file[n] \in Lines(pipe) =>
                 file[n] \in Lines(records) \cup Lines(history.lines)
        BY <3>4, <4>0, LinesAreNumbers DEF LostWithStream
      <4>2. InReach' = Lines(records)
        BY <1>1, <4>0 DEF InReach, Lines
      <4>3. CASE history.at = "idle"
        <5>1. Lines(history.lines) = {}
          BY <4>3, NoLines DEF Unbroken, Orderly
        <5>2. \A n \in 1..Len(file) : file[n] \in InReach <=> file[n] \in InReach'
          BY <4>1, <4>2, <5>1 DEF InReach
        <5> QED
          BY <1>1, <3>2, <4>0, <5>2, WholeStays
      <4>4. CASE history.at = "answered"
        <5> DEFINE k == Len(history.lines)
                   answer == Lines(history.lines)
        <5>1. PICK m \in 0..Len(file) :
                 /\ k <= m /\ (k = 0 => m = 0)
                 /\ answer = {file[n] : n \in (m - k + 1)..m}
                 /\ \A n \in (m + 1)..Len(file) : file[n] \in InReach
                 /\ \A n \in 1..(m - k) : file[n] \notin Lines(pipe)
          BY <3>2, <4>4 DEF Whole, Joins
        <5>2. k \in Nat /\ Len(file) \in Nat
          BY <4>0
        <5>3. ASSUME NEW n \in (m + 1)..Len(file) PROVE file[n] \in InReach'
          <6>1. file[n] \notin answer
            <7> SUFFICES ASSUME NEW i \in (m - k + 1)..m, file[i] = file[n] PROVE FALSE
              BY <5>1
            <7>1. i \in 1..Len(file) /\ n \in 1..Len(file) /\ i # n
              BY <5>1, <5>2
            <7> QED
              BY <7>1 DEF Unbroken, Written, Once
          <6>2. n \in 1..Len(file) /\ file[n] \in InReach
            BY <5>1, <5>2
          <6> QED
            BY <4>1, <4>2, <6>1, <6>2 DEF InReach
        <5>4. Joins(file, history.lines, InReach', Lines(pipe'))
          BY <4>0, <5>1, <5>3 DEF Joins
        <5> QED
          BY <1>1, <4>4, <5>4 DEF Whole, Lines
      <4> QED
        BY <2>2, <4>3, <4>4 DEF Unbroken, LogsShape, Reply
    <3> QED
      BY <1>1, <3>1, <3>3, <3>4
  <2> QED
    BY <2>1, <2>2
<1> QED
  BY <1>2, <1>3, <1>4 DEF Unbroken

\* A line that is handed out is not in the file yet.
LEMMA BroadcastKeeps ==
    ASSUME Unbroken, LineBroadcast PROVE Unbroken'
<1>1. /\ UNCHANGED <<records, historyOffset, hasMore, history, more, file, logsOpen, gap>>
      /\ logged' = logged + 1 /\ logged \in Nat
      /\ pipe' = pipe \/ pipe' = Append(pipe, logged + 1)
  BY DEF LineBroadcast, scrollback, Unbroken, LogsShape
<1>2. pipe \in Seq(Nat) /\ file \in Seq(Nat) /\ logged + 1 \in Nat
  BY <1>1 DEF Unbroken, LogsShape
<1>3. pipe' \in Seq(Nat) /\ Lines(pipe') \in {Lines(pipe), Lines(pipe) \cup {logged + 1}}
  <2>1. CASE pipe' = pipe
    BY <1>2, <2>1 DEF Lines
  <2>2. CASE pipe' = Append(pipe, logged + 1)
    <3>1. /\ Append(pipe, logged + 1) \in Seq(Nat)
          /\ Lines(Append(pipe, logged + 1)) = Lines(pipe) \cup {logged + 1}
      BY <1>2, LinesOfAppend
    <3> QED
      BY <2>2, <3>1
  <2> QED
    BY <1>1, <2>1, <2>2
<1>4. LogsShape'
  BY <1>1, <1>3 DEF Unbroken, LogsShape, Reply
<1>5. Written' /\ Orderly'
  <2>1. \A l \in 1..logged : l \in 1..(logged + 1)
    BY <1>1
  <2> QED
    BY <1>1, <2>1 DEF Unbroken, Written, Once, Lines, Orderly
<1>6. \A n \in 1..Len(file) : file[n] # logged + 1
  <2> SUFFICES ASSUME NEW n \in 1..Len(file) PROVE file[n] # logged + 1
    OBVIOUS
  <2>1. file[n] \in 1..logged
    BY <1>2, LinesAreNumbers DEF Unbroken, Written
  <2> QED
    BY <1>1, <2>1
<1>7. /\ \A n \in 1..Len(file) : file[n] \in Lines(pipe') <=> file[n] \in Lines(pipe)
      /\ Lines(records') = Lines(records)
  BY <1>1, <1>3, <1>6 DEF Lines
<1>8. \A n \in 1..Len(file) : file[n] \in InReach <=> file[n] \in InReach'
  BY <1>7 DEF InReach
<1>9. Whole => Whole'
  BY <1>1, <1>7, <1>8, WholeStays
<1> QED
  BY <1>1, <1>4, <1>5, <1>9 DEF Unbroken

LEMMA ArrivalKeeps ==
    ASSUME Unbroken, LineArrives PROVE Unbroken'
<1>1. /\ UNCHANGED <<logged, file, logsOpen, historyOffset, hasMore, history, more, gap>>
      /\ pipe # <<>> /\ pipe' = Tail(pipe)
      /\ records' = Append(records, Head(pipe))
  BY DEF LineArrives, log
<1>2. /\ pipe' \in Seq(Nat) /\ records' \in Seq(Nat)
      /\ Lines(records') = Lines(records) \cup {Head(pipe)}
      /\ Lines(pipe) = {Head(pipe)} \cup Lines(pipe')
  BY <1>1, LinesOfTail, LinesOfAppend DEF Unbroken, LogsShape
<1>3. LogsShape'
  BY <1>1, <1>2 DEF Unbroken, LogsShape, Reply
<1>4. Written' /\ Orderly'
  BY <1>1 DEF Unbroken, Written, Once, Lines, Orderly
<1>5. InReach' = InReach
  BY <1>2 DEF InReach
<1>6. Whole => Whole'
  BY <1>1, <1>2, <1>5, WholeStays
<1> QED
  BY <1>1, <1>3, <1>4, <1>6 DEF Unbroken

\* A line that is written is one that the page has in reach, or it is a gap.
LEMMA WritingKeeps ==
    ASSUME Unbroken, NEW l \in 1..MaxLines, LineWritten(l) PROVE Unbroken'
<1>1. /\ UNCHANGED <<records, historyOffset, hasMore, history, more, logged, logsOpen, pipe>>
      /\ file' = Append(file, l) /\ l \in 1..logged /\ l \notin Lines(file)
      /\ gap' = (gap \/ (/\ logsOpen /\ history.at # "sent"
                         /\ l \notin Lines(records) \cup Lines(pipe)))
  BY DEF LineWritten, scrollback, connection
<1>2. file \in Seq(Nat) /\ l \in Nat /\ logged \in Nat /\ Len(file) \in Nat
  BY <1>1 DEF Unbroken, LogsShape
<1>3. /\ file' \in Seq(Nat) /\ Len(file') = Len(file) + 1 /\ file'[Len(file) + 1] = l
      /\ \A n \in 1..Len(file) : file'[n] = file[n]
      /\ Lines(file') = Lines(file) \cup {l}
  BY <1>1, <1>2, LinesOfAppend
<1>4. LogsShape' /\ Orderly'
  BY <1>1, <1>3 DEF Unbroken, LogsShape, Reply, Orderly
<1>5. Written'
  <2>1. \A n \in 1..Len(file) : file[n] # l
    BY <1>1, <1>2, LinesAreNumbers
  <2>2. \A n \in 1..Len(file') : n = Len(file) + 1 \/ n \in 1..Len(file)
    BY <1>2, <1>3
  <2>3. Once(file')
    BY <1>3, <2>1, <2>2 DEF Once, Unbroken, Written
  <2>4. Lines(file') \subseteq 1..logged'
    BY <1>1, <1>3 DEF Unbroken, Written
  <2> QED
    BY <2>3, <2>4 DEF Written
<1>6. ASSUME logsOpen', ~gap' PROVE Whole'
  <2>1. CASE history.at = "sent"
    BY <1>1, <2>1 DEF Whole
  <2>2. CASE history.at # "sent"
    <3>1. ~gap /\ l \in InReach
      BY <1>1, <1>6, <2>2 DEF InReach
    <3>2. Whole
      BY <1>1, <1>6, <3>1 DEF Unbroken
    <3>3. InReach' = InReach /\ Lines(pipe') = Lines(pipe)
      BY <1>1 DEF InReach, Lines
    <3>4. CASE history.at = "idle"
      <4>1. historyOffset \in Nat
            /\ \A s \in Slots : historyOffset + Len(more[s].lines) \in Nat
        BY DEF Unbroken, LogsShape, Reply
      <4>2. Single' /\ Complete(file', InReach, historyOffset)
        BY <1>1, <1>2, <3>1, <3>2, <3>4, <4>1, FileGrows DEF Whole, Single
      <4>3. ASSUME NEW s \in Slots, more[s].at = "answered"
            PROVE  Complete(file', Lines(more[s].lines) \cup InReach,
                            historyOffset + Len(more[s].lines))
        <5> DEFINE a == Lines(more[s].lines) \cup InReach
        <5>1. l \in a /\ Complete(file, a, historyOffset + Len(more[s].lines))
          BY <3>1, <3>2, <3>4, <4>3 DEF Whole
        <5> HIDE DEF a
        <5>2. Complete(file', a, historyOffset + Len(more[s].lines))
          BY <1>1, <1>2, <4>1, <5>1, FileGrows
        <5> QED
          BY <5>2 DEF a
      <4> QED
        BY <1>1, <3>3, <3>4, <4>2, <4>3 DEF Whole, Lines
    <3>5. CASE history.at = "answered"
      <4> DEFINE k == Len(history.lines)
      <4>1. PICK m \in 0..Len(file) :
               /\ k <= m /\ (k = 0 => m = 0)
               /\ Lines(history.lines) = {file[n] : n \in (m - k + 1)..m}
               /\ \A n \in (m + 1)..Len(file) : file[n] \in InReach
               /\ \A n \in 1..(m - k) : file[n] \notin Lines(pipe)
        BY <3>2, <3>5 DEF Whole, Joins
      <4>2. k \in Nat
        BY DEF Unbroken, LogsShape, Reply
      <4> HIDE DEF k
      <4>6. m \in Nat /\ m <= Len(file) /\ k <= m /\ Len(file') = Len(file) + 1
        BY <1>2, <1>3, <4>1
      <4>3. /\ m \in 0..Len(file')
            /\ \A n \in (m - k + 1)..m : n \in 1..Len(file)
            /\ \A n \in 1..(m - k) : n \in 1..Len(file)
            /\ \A n \in (m + 1)..Len(file') : n = Len(file) + 1 \/ n \in (m + 1)..Len(file)
            /\ \A n \in (m + 1)..Len(file) : n \in 1..Len(file)
        BY <1>2, <4>2, <4>6
      <4>4. /\ {file[n] : n \in (m - k + 1)..m} = {file'[n] : n \in (m - k + 1)..m}
            /\ \A n \in 1..(m - k) : file'[n] \notin Lines(pipe)
            /\ \A n \in (m + 1)..Len(file') : file'[n] \in InReach
        BY <1>3, <3>1, <4>1, <4>3
      <4>5. Joins(file', history.lines, InReach, Lines(pipe))
        BY <4>1, <4>3, <4>4 DEF Joins, k
      <4> QED
        BY <1>1, <3>3, <3>5, <4>5 DEF Whole
    <3> QED
      BY <2>2, <3>4, <3>5 DEF Unbroken, LogsShape, Reply
  <2> QED
    BY <2>1, <2>2
<1> QED
  BY <1>4, <1>5, <1>6 DEF Unbroken

-----------------------------------------------------------------------------
(* The history.                                                            *)

LEMMA ServingKeeps ==
    ASSUME Unbroken, HistoryServed PROVE Unbroken'
<1> DEFINE lines == Chunk(0)
           answer == [history EXCEPT !.at = "answered", !.lines = lines]
<1>1. PICK last \in Nat, first \in Nat :
         /\ last = IF Len(file) > 0 THEN Len(file) - 0 ELSE 0
         /\ first <= last /\ (first = last => last = 0)
         /\ lines \in Seq(Nat) /\ Len(lines) = last - first
         /\ Lines(lines) = {file[n] : n \in (first + 1)..last}
  BY LinesOfChunk DEF Unbroken
<1>2. /\ UNCHANGED <<logged, file, logsOpen, records, historyOffset, hasMore, more, pipe>>
      /\ history.at = "sent" /\ history' = answer
      /\ gap' = (gap \/ \E i \in 1..(Len(file) - Len(lines)) : file[i] \in Lines(pipe))
  BY DEF HistoryServed, connection, log
<1>3. answer \in Reply /\ answer.at = "answered" /\ answer.lines = lines
  BY <1>1 DEF Unbroken, LogsShape, Reply
<1> HIDE DEF lines, answer
<1>4. LogsShape'
  BY <1>2, <1>3 DEF Unbroken, LogsShape, Reply
<1>5. Written' /\ Orderly'
  BY <1>2, <1>3 DEF Unbroken, Written, Once, Lines, Orderly
<1>6. ASSUME ~gap' PROVE Joins(file, lines, InReach, Lines(pipe))
  <2>1. Len(file) \in Nat /\ last = Len(file) /\ first = Len(file) - Len(lines)
    BY <1>1 DEF Unbroken, LogsShape
  <2>2. \A n \in 1..(last - Len(lines)) : file[n] \notin Lines(pipe)
    BY <1>2, <1>6, <2>1
  <2>3. last \in 0..Len(file) /\ Len(lines) <= last /\ (Len(lines) = 0 => last = 0)
    BY <1>1, <2>1
  <2>4. Lines(lines) = {file[n] : n \in (last - Len(lines) + 1)..last}
    BY <1>1, <2>1
  <2>5. \A n \in (last + 1)..Len(file) : FALSE
    BY <2>1
  <2> QED
    BY <2>2, <2>3, <2>4, <2>5 DEF Joins
<1>7. ~gap' => Whole'
  BY <1>2, <1>3, <1>6 DEF Whole, InReach, Lines
<1> QED
  BY <1>4, <1>5, <1>7 DEF Unbroken

LEMMA HistoryKeeps ==
    ASSUME Unbroken, HistoryArrives PROVE Unbroken'
<1> DEFINE answer == history.lines
           k == Len(answer)
<1>1. /\ UNCHANGED <<logged, file, logsOpen, more, pipe>>
      /\ records' = answer /\ historyOffset' = k
      /\ history' = NoRequest /\ history.at = "answered"
      /\ gap' = (gap \/ Lines(records) \cap WrittenAfter(answer) # {})
  BY DEF HistoryArrives, connection, log
<1>2. answer \in Seq(Nat) /\ k \in Nat /\ file \in Seq(Nat) /\ Len(file) \in Nat
  BY DEF Unbroken, LogsShape, Reply
<1>3. LogsShape'
  BY <1>1, <1>2, EmptyRequest DEF Unbroken, LogsShape, Reply
<1>4. Written'
  BY <1>1 DEF Unbroken, Written, Once, Lines
<1>5. \A s \in Slots : more[s].at = "idle"
  BY <1>1 DEF Unbroken, Orderly
<1>6. Orderly'
  BY <1>1, EmptyRequest DEF Unbroken, Orderly, HistoryArrives
<1>7. ASSUME logsOpen', ~gap' PROVE Complete(file, Lines(answer) \cup Lines(pipe), k)
  <2>1. ~gap /\ Lines(records) \cap WrittenAfter(answer) = {}
    BY <1>1, <1>7
  <2>2. Whole
    BY <1>1, <1>7, <2>1 DEF Unbroken
  <2>3. PICK m \in 0..Len(file) :
           /\ k <= m /\ (k = 0 => m = 0)
           /\ Lines(answer) = {file[n] : n \in (m - k + 1)..m}
           /\ \A n \in (m + 1)..Len(file) : file[n] \in InReach
           /\ \A n \in 1..(m - k) : file[n] \notin Lines(pipe)
    BY <1>1, <2>2 DEF Whole, Joins
  <2>4. Once(file) /\ DOMAIN file = 1..Len(file)
    BY <1>2 DEF Unbroken, Written
  <2>5. \A i \in 1..Len(file) : file[i] \in Lines(answer) => i \in (m - k + 1)..m
    <3> SUFFICES ASSUME NEW i \in 1..Len(file), NEW j \in (m - k + 1)..m, file[i] = file[j]
                 PROVE  i \in (m - k + 1)..m
      BY <2>3
    <3>1. j \in 1..Len(file)
      BY <1>2, <2>3
    <3> QED
      BY <2>4, <3>1 DEF Once
  <2>6. \A n \in (m + 1)..Len(file) : file[n] \in Lines(pipe)
    <3> SUFFICES ASSUME NEW n \in (m + 1)..Len(file) PROVE file[n] \in Lines(pipe)
      OBVIOUS
    <3>1. n \in 1..Len(file) /\ \A i \in (m - k + 1)..m : i < n
      BY <1>2, <2>3
    <3>2. file[n] \in WrittenAfter(answer)
      BY <2>4, <2>5, <3>1 DEF WrittenAfter
    <3> QED
      BY <2>1, <2>3, <3>2 DEF InReach
  <2> SUFFICES ASSUME NEW n \in 1..Len(file),
                      \/ n > Len(file) - k
                      \/ \E i \in 1..n : file[i] \in Lines(answer) \cup Lines(pipe)
               PROVE  file[n] \in Lines(answer) \cup Lines(pipe)
    BY DEF Complete
  <2>7. CASE n > m
    BY <1>2, <2>3, <2>6, <2>7
  <2>8. CASE n > m - k /\ ~(n > m)
    BY <1>2, <2>3, <2>8
  <2>9. n > m - k
    <3>1. CASE n > Len(file) - k
      BY <1>2, <2>3, <3>1
    <3>2. ASSUME NEW i \in 1..n, file[i] \in Lines(answer) \cup Lines(pipe) PROVE n > m - k
      <4>1. i \in 1..Len(file)
        BY <1>2
      <4>3. file[i] \in Lines(answer) => i \in (m - k + 1)..m
        BY <2>5, <4>1
      <4>2. i \notin 1..(m - k)
        <5>1. i \in 1..(m - k) => file[i] \notin Lines(pipe)
          BY <2>3
        <5>2. i \in (m - k + 1)..m => i \notin 1..(m - k)
          BY <1>2
        <5> QED
          BY <3>2, <4>3, <5>1, <5>2
      <4> QED
        BY <1>2, <2>3, <4>1, <4>2
    <3> QED
      BY <3>1, <3>2
  <2> QED
    BY <2>7, <2>8, <2>9
<1>8. ASSUME logsOpen', ~gap' PROVE Whole'
  <2>1. InReach' = Lines(answer) \cup Lines(pipe)
    BY <1>1 DEF InReach, Lines
  <2> QED
    BY <1>1, <1>5, <1>7, <1>8, <2>1, EmptyRequest DEF Whole, Single
<1> QED
  BY <1>3, <1>4, <1>6, <1>8 DEF Unbroken

LEMMA FailingKeeps ==
    ASSUME Unbroken, HistoryFails PROVE Unbroken'
<1>1. /\ UNCHANGED <<logged, file, logsOpen, records, historyOffset, hasMore, more, pipe>>
      /\ history' = NoRequest /\ gap' = TRUE
  BY DEF HistoryFails, connection, log
<1>2. LogsShape'
  BY <1>1, EmptyRequest DEF Unbroken, LogsShape, Reply
<1>3. Written' /\ Orderly'
  BY <1>1, EmptyRequest DEF Unbroken, Written, Once, Lines, Orderly
<1> QED
  BY <1>1, <1>2, <1>3 DEF Unbroken

-----------------------------------------------------------------------------
(* Older lines.                                                            *)

LEMMA AskingKeeps ==
    ASSUME Unbroken, NEW s \in Slots, LoadMore(s) \/ MoreFails(s) PROVE Unbroken'
<1>1. /\ UNCHANGED <<logged, file, logsOpen, records, historyOffset, hasMore, history, pipe>>
      /\ more \in [Slots -> Reply] /\ historyOffset \in Nat
  BY DEF LoadMore, MoreFails, connection, log, Unbroken, LogsShape
<1>2. PICK q \in Reply : /\ more' = [more EXCEPT ![s] = q] /\ q.at # "answered"
                         /\ q.at = "sent" => LoadMore(s) /\ q.offset = historyOffset
  <2>1. CASE LoadMore(s)
    <3>1. [at |-> "sent", offset |-> historyOffset, lines |-> <<>>] \in Reply
      BY <1>1, NoLines DEF Reply
    <3> QED
      BY <2>1, <3>1 DEF LoadMore
  <2>2. CASE MoreFails(s)
    BY <2>2, EmptyRequest DEF MoreFails
  <2> QED
    BY <2>1, <2>2
<1>3. \A r \in Slots : more'[r] = IF r = s THEN q ELSE more[r]
  BY <1>1, <1>2
<1>4. LogsShape'
  BY <1>1, <1>2 DEF Unbroken, LogsShape, Reply
<1>5. history.at = "idle"
  BY DEF Unbroken, Orderly, LoadMore, MoreFails
<1>6. Written' /\ Orderly'
  BY <1>1, <1>2, <1>3, <1>5 DEF Unbroken, Written, Once, Lines, Orderly, LoadMore, MoreFails
<1>7. ASSUME logsOpen', ~gap' PROVE Whole'
  <2>1. ~gap
    BY <1>7 DEF LoadMore, MoreFails
  <2>2. Whole
    BY <1>1, <1>7, <2>1 DEF Unbroken
  <2>3. Single'
    <3>1. CASE q.at = "sent"
      <4>1. gap' = (gap \/ \E r \in Slots \ {s} : more[r].at # "idle")
        BY <1>2, <3>1 DEF LoadMore
      <4>2. \A r \in Slots \ {s} : more[r].at = "idle"
        BY <1>7, <4>1
      <4> QED
        BY <1>1, <1>2, <1>3, <3>1, <4>2 DEF Single
    <3>2. CASE q.at = "idle"
      BY <1>1, <1>3, <1>5, <2>2, <3>2 DEF Single, Whole
    <3> QED
      BY <1>2, <3>1, <3>2 DEF Reply
  <2>4. InReach' = InReach
    BY <1>1 DEF InReach, Lines
  <2> QED
    BY <1>1, <1>2, <1>3, <1>5, <2>2, <2>3, <2>4 DEF Whole, Lines
<1> QED
  BY <1>4, <1>6, <1>7 DEF Unbroken

LEMMA AnsweringKeeps ==
    ASSUME Unbroken, NEW s \in Slots, MoreServed(s) PROVE Unbroken'
<1> DEFINE offset == more[s].offset
           lines == Chunk(offset)
           q == [more[s] EXCEPT !.at = "answered", !.lines = lines]
<1>1. /\ UNCHANGED <<logged, file, logsOpen, records, historyOffset, hasMore, history, pipe>>
      /\ more[s].at = "sent" /\ more' = [more EXCEPT ![s] = q]
      /\ more \in [Slots -> Reply] /\ offset \in Nat /\ more[s] \in Reply
      /\ Len(file) \in Nat
  <2>1. /\ UNCHANGED <<logged, file, logsOpen, records, historyOffset, hasMore, history, pipe>>
        /\ more[s].at = "sent" /\ more' = [more EXCEPT ![s] = q]
    BY DEF MoreServed, connection, log
  <2>2. file \in Seq(Nat) /\ more \in [Slots -> Reply] /\ more[s] \in Reply
    BY DEF Unbroken, LogsShape
  <2>3. offset \in Nat
    BY <2>2 DEF Reply
  <2>4. Len(file) \in Nat
    BY <2>2
  <2> QED
    BY <2>1, <2>2, <2>3, <2>4
<1>2. PICK last \in Nat, first \in Nat :
         /\ last = IF Len(file) > offset THEN Len(file) - offset ELSE 0
         /\ first <= last /\ (first = last => last = 0)
         /\ lines \in Seq(Nat) /\ Len(lines) = last - first
         /\ Lines(lines) = {file[n] : n \in (first + 1)..last}
  BY <1>1, LinesOfChunk DEF Unbroken
<1>3. q \in Reply /\ q.at = "answered" /\ q.lines = lines /\ q.offset = offset
  BY <1>1, <1>2 DEF Reply
<1> HIDE DEF lines, q
<1>4. \A r \in Slots : more'[r] = IF r = s THEN q ELSE more[r]
  BY <1>1
<1>5. LogsShape'
  BY <1>1, <1>3 DEF Unbroken, LogsShape, Reply
<1>6. history.at = "idle" /\ logsOpen
  BY <1>1 DEF Unbroken, Orderly
<1>7. Written' /\ Orderly'
  BY <1>1, <1>3, <1>4, <1>6 DEF Unbroken, Written, Once, Lines, Orderly
<1>8. ASSUME Whole PROVE Whole'
  <2>1. offset = historyOffset /\ Complete(file, InReach, historyOffset)
    BY <1>1, <1>6, <1>8 DEF Whole, Single
  <2>2. Complete(file, Lines(lines) \cup InReach, historyOffset + Len(lines))
    <3> SUFFICES ASSUME NEW n \in 1..Len(file),
                        \/ n > Len(file) - (historyOffset + Len(lines))
                        \/ \E i \in 1..n : file[i] \in Lines(lines) \cup InReach,
                        file[n] \notin Lines(lines)
                 PROVE  file[n] \in InReach
      BY DEF Complete
    <3>1. n \in Nat /\ ~(first + 1 <= n /\ n <= last)
      BY <1>1, <1>2
    <3>2. CASE n > last
      <4>1. n > Len(file) - historyOffset
        BY <1>1, <1>2, <2>1, <3>1, <3>2
      <4> QED
        BY <2>1, <4>1 DEF Complete
    <3>3. CASE n <= first
      <4>1. last = Len(file) - historyOffset /\ Len(file) \in Nat /\ offset \in Nat
        BY <1>1, <1>2, <2>1, <3>1, <3>3
      <4>2. ~(n > Len(file) - (historyOffset + Len(lines)))
        BY <1>2, <2>1, <3>1, <3>3, <4>1
      <4>3. PICK i \in 1..n : file[i] \in Lines(lines) \cup InReach
        BY <4>2
      <4>4. CASE file[i] \in InReach
        BY <2>1, <4>4 DEF Complete
      <4>5. CASE file[i] \in Lines(lines)
        <5>1. PICK j \in (first + 1)..last : file[i] = file[j]
          BY <1>2, <4>5
        <5>2. i <= first /\ first < j /\ j <= Len(file)
          BY <1>2, <3>1, <3>3, <4>1
        <5>3. i \in 1..Len(file) /\ j \in 1..Len(file) /\ i # j
          BY <1>2, <3>1, <4>1, <5>2
        <5>4. \A k, m \in 1..Len(file) : file[k] = file[m] => k = m
          BY <1>1 DEF Unbroken, Written, Once
        <5> QED
          BY <5>1, <5>3, <5>4
      <4> QED
        BY <4>3, <4>4, <4>5
    <3> QED
      BY <1>2, <3>1, <3>2, <3>3
  <2>3. Single'
    BY <1>1, <1>3, <1>4, <1>6, <1>8 DEF Whole, Single
  <2>4. \A r \in Slots : more'[r].at = "answered" => more'[r].lines = lines
    BY <1>1, <1>3, <1>4, <1>6, <1>8 DEF Whole, Single
  <2>5. InReach' = InReach
    BY <1>1 DEF InReach, Lines
  <2>6. ASSUME NEW r \in Slots, more'[r].at = "answered"
        PROVE  Complete(file', Lines(more'[r].lines) \cup InReach',
                        historyOffset' + Len(more'[r].lines))
    BY <1>1, <2>2, <2>4, <2>5, <2>6
  <2>7. Complete(file', InReach', historyOffset')
    BY <1>1, <2>1, <2>5
  <2> QED
    BY <1>1, <1>6, <2>3, <2>6, <2>7 DEF Whole, Lines
<1>9. gap' = gap
  BY DEF MoreServed
<1> QED
  BY <1>1, <1>5, <1>7, <1>8, <1>9 DEF Unbroken

LEMMA AddingKeeps ==
    ASSUME Unbroken, NEW s \in Slots, MoreArrives(s) PROVE Unbroken'
<1> DEFINE lines == more[s].lines
<1>1. /\ UNCHANGED <<logged, file, logsOpen, history, pipe>>
      /\ more[s].at = "answered"
      /\ records' = lines \o records /\ historyOffset' = historyOffset + Len(lines)
      /\ more' = [more EXCEPT ![s] = NoRequest]
  BY DEF MoreArrives, connection, log
<1>2. /\ more \in [Slots -> Reply] /\ lines \in Seq(Nat) /\ Len(lines) \in Nat
      /\ historyOffset \in Nat /\ records \in Seq(Nat)
  BY DEF Unbroken, LogsShape, Reply
<1>3. \A r \in Slots : more'[r] = IF r = s THEN NoRequest ELSE more[r]
  BY <1>1, <1>2
<1>4. records' \in Seq(Nat) /\ Lines(records') = Lines(lines) \cup Lines(records)
  BY <1>1, <1>2, LinesOfConcat
<1>5. LogsShape'
  <2>1. more' \in [Slots -> Reply]
    BY <1>1, <1>2, EmptyRequest
  <2>2. historyOffset' \in Nat
    BY <1>1, <1>2
  <2> QED
    BY <1>1, <1>4, <2>1, <2>2 DEF Unbroken, LogsShape
<1>6. history.at = "idle" /\ logsOpen
  BY <1>1 DEF Unbroken, Orderly
<1>7. Written' /\ Orderly'
  BY <1>1, <1>3, <1>6, EmptyRequest DEF Unbroken, Written, Once, Lines, Orderly
<1>8. ASSUME Whole PROVE Whole'
  <2>1. InReach' = Lines(lines) \cup InReach
    BY <1>1, <1>4 DEF InReach, Lines
  <2>2. Complete(file', InReach', historyOffset')
    BY <1>1, <1>6, <1>8, <2>1 DEF Whole
  <2>3. \A r \in Slots : more'[r].at = "idle"
    BY <1>1, <1>3, <1>6, <1>8, EmptyRequest DEF Whole, Single, Unbroken, LogsShape, Reply
  <2> QED
    BY <1>1, <1>6, <2>2, <2>3 DEF Whole, Single
<1>9. gap' = gap
  BY DEF MoreArrives
<1> QED
  BY <1>1, <1>5, <1>7, <1>8, <1>9 DEF Unbroken

-----------------------------------------------------------------------------
LEMMA LogsStart == LogsInit => Unbroken
<1> SUFFICES ASSUME LogsInit PROVE Unbroken
  OBVIOUS
<1>1. file = <<>> /\ Len(<<>>) = 0
  BY DEF LogsInit
<1>2. Written
  BY <1>1, NoLines DEF Written, Once
<1> QED
  BY <1>2, NoLines, EmptyRequest DEF LogsInit, Unbroken, LogsShape, Orderly

LEMMA LogsStepKeeps == ASSUME Unbroken, LogsNext PROVE Unbroken'
BY MountingKeeps, StreamKeeps, BroadcastKeeps, ArrivalKeeps, WritingKeeps, ServingKeeps,
   HistoryKeeps, FailingKeeps, AskingKeeps, AnsweringKeeps, AddingKeeps
   DEF LogsNext, LogsUser, LogsRuns, LogsTrouble

\* Whatever leaves the page, its connection and the log alone.
LEMMA LogsRestKeeps ==
    ASSUME Unbroken, UNCHANGED <<log, logsOpen, scrollback, pipe, gap>>
    PROVE  Unbroken'
<1>1. /\ records' = records /\ historyOffset' = historyOffset /\ hasMore' = hasMore
      /\ history' = history /\ more' = more /\ logged' = logged /\ file' = file
      /\ logsOpen' = logsOpen /\ pipe' = pipe /\ gap' = gap
  BY DEF scrollback, log
<1>2. LogsShape'
  BY <1>1 DEF Unbroken, LogsShape, Reply
<1>3. Written' /\ Orderly'
  BY <1>1 DEF Unbroken, Written, Once, Lines, Orderly
<1>4. InReach' = InReach
  BY <1>1 DEF InReach, Lines
<1>5. Whole => Whole'
  BY <1>1, <1>4, WholeStays
<1> QED
  BY <1>1, <1>2, <1>3, <1>5 DEF Unbroken

LEMMA UnbrokenHasAll == Unbroken => NoLineMissing
<1> SUFFICES ASSUME Unbroken, logsOpen, history.at = "idle", ~gap,
                    NEW i \in DOMAIN file, NEW j \in DOMAIN file, i <= j,
                    file[i] \in Lines(records)
             PROVE  file[j] \in Lines(records) \cup Lines(pipe)
  BY DEF NoLineMissing
<1>1. Complete(file, InReach, historyOffset)
  BY DEF Unbroken, Whole
<1>2. i \in 1..j /\ j \in 1..Len(file) /\ file[i] \in InReach
  BY DEF Unbroken, LogsShape, InReach
<1> QED
  BY <1>1, <1>2 DEF Complete, InReach

\* The history, the lines asked for later and the live stream (Logs.tsx) leave no hole
\* between them, for any length of the log and of its pages, however their answers, lost
\* connections, and lines that are streamed before they are written (logx.go) interleave,
\* but for the reasons that gap records; a line dropped for a full channel is one.
THEOREM NoHoles == LogsSpec => []NoLineMissing
<1>1. Unbroken /\ [LogsNext]_logsVars => Unbroken'
  <2>1. CASE LogsNext
    BY <2>1, LogsStepKeeps
  <2>2. CASE UNCHANGED logsVars
    BY <2>2, LogsRestKeeps DEF logsVars, scrollback, log
  <2> QED
    BY <2>1, <2>2
<1> QED
  BY <1>1, LogsStart, UnbrokenHasAll, PTL DEF LogsSpec, LogsNext

-----------------------------------------------------------------------------
(* The types.                                                              *)

LineTypes ==
    /\ logged \in 0..MaxLines /\ file \in Seq(1..MaxLines)
    /\ records \in Seq(1..MaxLines) /\ historyOffset \in Nat
    /\ history \in Requests /\ more \in [Slots -> Requests]
    /\ pipe \in Seq(1..MaxLines)
    /\ outages \in 0..MaxOutages /\ visits \in 0..MaxVisits

FlagTypes ==
    /\ app \in BOOLEAN /\ logsOpen \in BOOLEAN
    /\ hasMore \in BOOLEAN /\ historyLoading \in BOOLEAN
    /\ stream \in {"none", "connecting", "open", "waiting", "closed"}
    /\ subscribed \in BOOLEAN /\ streamDown \in BOOLEAN /\ gap \in BOOLEAN

LEMMA LogsTypeParts == LogsTypeOK <=> LineTypes /\ FlagTypes
BY DEF LogsTypeOK, LineTypes, FlagTypes

LEMMA ChunkIsOfLines ==
    ASSUME LineTypes, NEW offset \in Nat PROVE Chunk(offset) \in Seq(1..MaxLines)
<1> DEFINE last == IF Len(file) > offset THEN Len(file) - offset ELSE 0
           first == IF last > Limit THEN last - Limit ELSE 0
<1>1. file \in Seq(1..MaxLines) /\ Len(file) \in Nat /\ Limit \in Nat
  BY LogsAssumption DEF LineTypes
<1>2. last \in Nat /\ last <= Len(file)
  BY <1>1
<1> HIDE DEF last
<1>3. first \in Nat /\ first <= last
  BY <1>1, <1>2
<1> HIDE DEF first
<1>4. Chunk(offset) = SubSeq(file, first + 1, last)
  BY DEF Chunk, last, first
<1>5. \A S : \A f \in Seq(S) : \A i \in Nat, j \in Nat :
         i <= j /\ j <= Len(f) => SubSeq(f, i + 1, j) \in Seq(S)
  OBVIOUS
<1> QED
  BY <1>1, <1>2, <1>3, <1>4, <1>5

LEMMA NoRequestTyped ==
    /\ NoRequest \in Requests
    /\ [NoRequest EXCEPT !.at = "sent"] \in Requests
    /\ [s \in Slots |-> NoRequest] \in [Slots -> Requests]
    /\ <<>> \in Seq(1..MaxLines)
<1>1. <<>> \in Seq(1..MaxLines)
  OBVIOUS
<1>2. NoRequest \in Requests /\ [NoRequest EXCEPT !.at = "sent"] \in Requests
  BY <1>1 DEF NoRequest, Requests
<1> QED
  BY <1>1, <1>2

LEMMA UserLinesTyped == ASSUME LineTypes, LogsUser PROVE LineTypes'
<1>1. visits' \in 0..MaxVisits /\ outages' = outages
  <2>1. /\ outages' = outages
        /\ visits' = visits \/ (visits < MaxVisits /\ visits' = visits + 1)
    BY DEF LogsUser, MountLogs, UnmountLogs, LoadMore
  <2> QED
    BY <2>1, LogsAssumption DEF LineTypes
<1>2. CASE MountLogs
  <2>1. history' \in Requests
    BY <1>2, NoRequestTyped DEF MountLogs
  <2> QED
    BY <1>1, <1>2, <2>1 DEF MountLogs, LineTypes, log
<1>4. CASE UnmountLogs
  <2>1. history' \in Requests /\ more' \in [Slots -> Requests]
    BY <1>4, NoRequestTyped DEF UnmountLogs
  <2>2. records' \in Seq(1..MaxLines) /\ pipe' \in Seq(1..MaxLines) /\ historyOffset' \in Nat
    BY <1>4, NoRequestTyped DEF UnmountLogs
  <2> QED
    BY <1>1, <1>4, <2>1, <2>2 DEF UnmountLogs, LineTypes, log
<1>3. ASSUME NEW s \in Slots, LoadMore(s) PROVE LineTypes'
  <2>1. [at |-> "sent", offset |-> historyOffset, lines |-> <<>>] \in Requests
    BY NoRequestTyped DEF Requests, LineTypes
  <2>2. more' \in [Slots -> Requests]
    BY <1>3, <2>1 DEF LoadMore, LineTypes
  <2> QED
    BY <1>1, <1>3, <2>2 DEF LoadMore, LineTypes, connection, log
<1> QED
  BY <1>2, <1>4, <1>3 DEF LogsUser

LEMMA RunningLinesTyped == ASSUME LineTypes, LogsRuns PROVE LineTypes'
<1>1. CASE StreamOpens \/ Subscribe \/ StreamRetries
  BY <1>1 DEF StreamOpens, Subscribe, StreamRetries, LineTypes, scrollback, log
<1>2. CASE LineArrives
  <2>0. \A S : \A q \in Seq(S) : q # <<>> => Head(q) \in S /\ Tail(q) \in Seq(S)
    OBVIOUS
  <2>1. Head(pipe) \in 1..MaxLines /\ Tail(pipe) \in Seq(1..MaxLines)
    BY <1>2, <2>0 DEF LineArrives, LineTypes
  <2>2. records' \in Seq(1..MaxLines) /\ pipe' \in Seq(1..MaxLines)
    BY <1>2, <2>1 DEF LineArrives, LineTypes
  <2> QED
    BY <1>2, <2>2 DEF LineArrives, LineTypes, log
<1>3. CASE HistoryServed
  <2>1. Chunk(0) \in Seq(1..MaxLines)
    BY ChunkIsOfLines
  <2>2. history' \in Requests
    BY <1>3, <2>1 DEF HistoryServed, LineTypes, Requests
  <2> QED
    BY <1>3, <2>2 DEF HistoryServed, LineTypes, connection, log
<1>4. CASE HistoryArrives
  <2>1. history.lines \in Seq(1..MaxLines) /\ Len(history.lines) \in Nat
    BY DEF LineTypes, Requests
  <2> QED
    BY <1>4, <2>1, NoRequestTyped DEF HistoryArrives, LineTypes, connection, log
<1>5. ASSUME NEW s \in Slots, MoreServed(s) PROVE LineTypes'
  <2>1. more[s] \in Requests /\ more[s].offset \in Nat
    BY DEF LineTypes, Requests
  <2>2. Chunk(more[s].offset) \in Seq(1..MaxLines)
    BY <2>1, ChunkIsOfLines
  <2> DEFINE c == Chunk(more[s].offset)
  <2>3. more' = [more EXCEPT ![s].at = "answered", ![s].lines = c]
    BY <1>5 DEF MoreServed
  <2> HIDE DEF c
  <2>4. [more[s] EXCEPT !.at = "answered", !.lines = c] \in Requests
    BY <2>1, <2>2 DEF Requests, c
  <2>5. more' \in [Slots -> Requests]
    BY <2>3, <2>4 DEF LineTypes
  <2> QED
    BY <1>5, <2>5 DEF MoreServed, LineTypes, connection, log
<1>6. ASSUME NEW s \in Slots, MoreArrives(s) PROVE LineTypes'
  <2>1. more[s] \in Requests /\ more[s].lines \in Seq(1..MaxLines) /\ Len(more[s].lines) \in Nat
    BY DEF LineTypes, Requests
  <2>2. more' \in [Slots -> Requests]
    BY <1>6, NoRequestTyped DEF MoreArrives, LineTypes
  <2>3. records' \in Seq(1..MaxLines) /\ historyOffset' \in Nat
    BY <1>6, <2>1 DEF MoreArrives, LineTypes
  <2> QED
    BY <1>6, <2>2, <2>3 DEF MoreArrives, LineTypes, connection, log
<1>7. CASE LineBroadcast
  <2>1. logged' \in 0..MaxLines /\ logged + 1 \in 1..MaxLines
    BY <1>7, LogsAssumption DEF LineBroadcast, LineTypes
  <2>2. \A q \in Seq(1..MaxLines) : Append(q, logged + 1) \in Seq(1..MaxLines)
    BY <2>1
  <2>3. pipe' = pipe \/ pipe' = Append(pipe, logged + 1)
    BY <1>7 DEF LineBroadcast
  <2>4. pipe' \in Seq(1..MaxLines)
    BY <2>2, <2>3 DEF LineTypes
  <2> QED
    BY <1>7, <2>1, <2>4 DEF LineBroadcast, LineTypes, scrollback
<1>8. ASSUME NEW l \in 1..MaxLines, LineWritten(l) PROVE LineTypes'
  <2>1. file' = Append(file, l) /\ file \in Seq(1..MaxLines)
    BY <1>8 DEF LineWritten, LineTypes
  <2>2. file' \in Seq(1..MaxLines)
    BY <2>1
  <2> QED
    BY <1>8, <2>2 DEF LineWritten, LineTypes, scrollback, connection
<1> QED
  BY <1>1, <1>2, <1>3, <1>4, <1>5, <1>6, <1>7, <1>8 DEF LogsRuns

LEMMA TroubledLinesTyped == ASSUME LineTypes, LogsTrouble PROVE LineTypes'
<1>2. ASSUME outages < MaxOutages, outages' = outages + 1 PROVE outages' \in 0..MaxOutages
  BY <1>2, LogsAssumption DEF LineTypes
<1>3. CASE StreamFails
  BY <1>2, <1>3, NoRequestTyped DEF StreamFails, LineTypes, scrollback, log
<1>4. CASE HistoryFails
  BY <1>2, <1>4, NoRequestTyped DEF HistoryFails, LineTypes, connection, log
<1>5. ASSUME NEW s \in Slots, MoreFails(s) PROVE LineTypes'
  <2>1. more' \in [Slots -> Requests]
    BY <1>5, NoRequestTyped DEF MoreFails, LineTypes
  <2> QED
    BY <1>2, <1>5, <2>1 DEF MoreFails, LineTypes, connection, log
<1> QED
  BY <1>3, <1>4, <1>5 DEF LogsTrouble

\* What each step makes of the flags.
LEMMA FlagsTyped == ASSUME FlagTypes, LogsNext PROVE FlagTypes'
<1>1. app' = app /\ (logsOpen' = logsOpen \/ logsOpen' = TRUE \/ logsOpen' = FALSE)
  BY DEF LogsNext, LogsUser, LogsRuns, LogsTrouble, MountLogs, UnmountLogs, LoadMore,
     StreamOpens, StreamRetries, LineArrives, HistoryServed, HistoryArrives, MoreServed,
     MoreArrives, Subscribe, LineBroadcast, LineWritten, StreamFails, HistoryFails,
     MoreFails
<1>2. \/ hasMore' = hasMore \/ hasMore' = FALSE \/ hasMore' = (Len(history.lines) = Limit)
      \/ \E s \in Slots : hasMore' = (Len(more[s].lines) = Limit)
  BY DEF LogsNext, LogsUser, LogsRuns, LogsTrouble, MountLogs, UnmountLogs, LoadMore,
     StreamOpens, StreamRetries, LineArrives, HistoryServed, HistoryArrives, MoreServed,
     MoreArrives, Subscribe, LineBroadcast, LineWritten, StreamFails, HistoryFails,
     MoreFails, scrollback
<1>3. historyLoading' = historyLoading \/ historyLoading' = TRUE \/ historyLoading' = FALSE
  BY DEF LogsNext, LogsUser, LogsRuns, LogsTrouble, MountLogs, UnmountLogs, LoadMore,
     StreamOpens, StreamRetries, LineArrives, HistoryServed, HistoryArrives, MoreServed,
     MoreArrives, Subscribe, LineBroadcast, LineWritten, StreamFails, HistoryFails,
     MoreFails, scrollback
<1>4. stream' = stream \/ stream' \in {"none", "connecting", "open", "waiting", "closed"}
  BY DEF LogsNext, LogsUser, LogsRuns, LogsTrouble, MountLogs, UnmountLogs, LoadMore,
     StreamOpens, StreamRetries, LineArrives, HistoryServed, HistoryArrives, MoreServed,
     MoreArrives, Subscribe, LineBroadcast, LineWritten, StreamFails, HistoryFails,
     MoreFails, connection
<1>5. streamDown' = streamDown \/ streamDown' = TRUE \/ streamDown' = FALSE
  BY DEF LogsNext, LogsUser, LogsRuns, LogsTrouble, MountLogs, UnmountLogs, LoadMore,
     StreamOpens, StreamRetries, LineArrives, HistoryServed, HistoryArrives, MoreServed,
     MoreArrives, Subscribe, LineBroadcast, LineWritten, StreamFails, HistoryFails,
     MoreFails, connection
<1>6. gap' \in BOOLEAN
  <2>1. CASE UNCHANGED gap \/ gap' = TRUE \/ gap' = FALSE
    BY <2>1 DEF FlagTypes
  <2>2. CASE HistoryArrives
    <3>1. gap' = (gap \/ Lines(records) \cap WrittenAfter(history.lines) # {})
      BY <2>2 DEF HistoryArrives
    <3> QED
      BY <3>1
  <2>3. ASSUME NEW s \in Slots, LoadMore(s) PROVE gap' \in BOOLEAN
    <3>1. gap' = (gap \/ \E r \in Slots \ {s} : more[r].at # "idle")
      BY <2>3 DEF LoadMore
    <3> QED
      BY <3>1
  <2>4. CASE StreamFails
    <3>1. gap' = (gap \/ (history.at # "sent" /\ LostWithStream # {}))
      BY <2>4 DEF StreamFails
    <3> QED
      BY <3>1
  <2>5. ASSUME NEW l \in 1..MaxLines, LineWritten(l) PROVE gap' \in BOOLEAN
    <3>1. gap' = (gap \/ (/\ logsOpen /\ history.at # "sent"
                          /\ l \notin Lines(records) \cup Lines(pipe)))
      BY <2>5 DEF LineWritten
    <3> QED
      BY <3>1
  <2>7. CASE HistoryServed
    <3>1. gap' = (gap \/ \E i \in 1..(Len(file) - Len(Chunk(0))) : file[i] \in Lines(pipe))
      BY <2>7 DEF HistoryServed
    <3> QED
      BY <3>1
  <2>6. CASE \/ MountLogs \/ UnmountLogs \/ StreamOpens \/ Subscribe \/ StreamRetries
             \/ LineArrives \/ LineBroadcast \/ HistoryFails
             \/ \E s \in Slots : MoreServed(s) \/ MoreArrives(s) \/ MoreFails(s)
    BY <2>1, <2>6 DEF MountLogs, UnmountLogs, StreamOpens, Subscribe, StreamRetries,
       LineArrives, LineBroadcast, MoreServed, MoreArrives, HistoryFails, MoreFails
  <2> QED
    BY <2>2, <2>3, <2>4, <2>5, <2>6, <2>7 DEF LogsNext, LogsUser, LogsRuns, LogsTrouble
<1>7. app' \in BOOLEAN /\ logsOpen' \in BOOLEAN
  BY <1>1 DEF FlagTypes
<1>8. hasMore' \in BOOLEAN
  BY <1>2 DEF FlagTypes
<1>9. historyLoading' \in BOOLEAN
  BY <1>3 DEF FlagTypes
<1>10. streamDown' \in BOOLEAN
  BY <1>5 DEF FlagTypes
<1>12. subscribed' \in BOOLEAN
  <2>1. subscribed' = subscribed \/ subscribed' = TRUE \/ subscribed' = FALSE
    BY DEF LogsNext, LogsUser, LogsRuns, LogsTrouble, MountLogs, UnmountLogs, LoadMore,
       StreamOpens, StreamRetries, LineArrives, HistoryServed, HistoryArrives, MoreServed,
       MoreArrives, Subscribe, LineBroadcast, LineWritten, StreamFails, HistoryFails,
       MoreFails, connection
  <2> QED
    BY <2>1 DEF FlagTypes
<1>11. stream' \in {"none", "connecting", "open", "waiting", "closed"}
  BY <1>4 DEF FlagTypes
<1> QED
  BY <1>6, <1>7, <1>8, <1>9, <1>10, <1>11, <1>12 DEF FlagTypes

\* Every line the page has or waits for is one the server can log, every request is of
\* its form, and outages and visits stay within their bounds.
LEMMA LogsStepTyped == ASSUME LogsTypeOK, LogsNext PROVE LogsTypeOK'
<1>1. LineTypes /\ FlagTypes
  BY LogsTypeParts
<1>2. LineTypes'
  BY <1>1, UserLinesTyped, RunningLinesTyped, TroubledLinesTyped DEF LogsNext
<1>3. FlagTypes'
  BY <1>1, FlagsTyped
<1> QED
  BY <1>2, <1>3 DEF LogsTypeOK, LineTypes, FlagTypes

\* Whatever leaves the page alone counts an outage or a visit at most.
LEMMA LogsRestTyped ==
    ASSUME LogsTypeOK, UNCHANGED <<app, log, logsOpen, scrollback, connection, gap>>,
           outages' \in 0..MaxOutages, visits' \in 0..MaxVisits
    PROVE  LogsTypeOK'
<1>1. /\ records' = records /\ historyOffset' = historyOffset /\ hasMore' = hasMore
      /\ historyLoading' = historyLoading /\ history' = history /\ more' = more
      /\ stream' = stream /\ subscribed' = subscribed /\ pipe' = pipe
      /\ streamDown' = streamDown /\ logged' = logged /\ file' = file
  BY DEF scrollback, connection, log
<1>2. LineTypes /\ FlagTypes
  BY LogsTypeParts
<1>3. LineTypes'
  BY <1>1, <1>2 DEF LineTypes
<1>4. FlagTypes'
  BY <1>1, <1>2 DEF FlagTypes
<1> QED
  BY <1>3, <1>4 DEF LogsTypeOK, LineTypes, FlagTypes

LEMMA LogsStartTyped == LogsInit => LogsTypeOK
<1> SUFFICES ASSUME LogsInit PROVE LogsTypeOK
  OBVIOUS
<1>1. history \in Requests /\ more \in [Slots -> Requests]
  BY NoRequestTyped DEF LogsInit
<1>2. records \in Seq(1..MaxLines) /\ pipe \in Seq(1..MaxLines) /\ file \in Seq(1..MaxLines)
  BY NoRequestTyped DEF LogsInit
<1>3. LineTypes
  BY <1>1, <1>2, LogsAssumption DEF LogsInit, LineTypes
<1>4. FlagTypes
  BY DEF LogsInit, FlagTypes
<1> QED
  BY <1>3, <1>4, LogsTypeParts
=============================================================================
