---------------------------- MODULE LinkRegister ----------------------------
(***************************************************************************)
(* What the link store promises, with requests, cache and table taken as   *)
(* one: a register for each code and a copy of it, either of which answers *)
(* a read.  A write of the process makes the copy of each code it changes  *)
(* stale, and a code is stale until its copy is dropped.  Only what was    *)
(* written while someone was about to copy it, or from outside, is raced:  *)
(* its copy may be of any age.                                             *)
(***************************************************************************)

CONSTANTS Readers, Codes

VARIABLES
    link,       \* what each code stands for: one link, or none
    former,     \* the links each code ever stood for
    copy,       \* the copy of each code, if there is one
    stale,      \* codes whose copy is going to be dropped
    copying,    \* codes that someone read and is about to copy
    raced,      \* codes whose copy nobody vouches for
    answer      \* what each reader was told

vars == <<link, former, copy, stale, copying, raced, answer>>

Init ==
    /\ link = [c \in Codes |-> {}]
    /\ former = [c \in Codes |-> {}]
    /\ copy = [c \in Codes |-> {}]
    /\ stale = {}
    /\ copying = {}
    /\ raced = {}
    /\ answer = [p \in Readers |-> {}]

Changed == {c \in Codes : link'[c] # link[c]}
Remember == former' = [c \in Codes |-> former[c] \cup link'[c]]

\* Some codes change hands or contents; a writer may go on to copy what it wrote.
Publish ==
    /\ UNCHANGED <<copy, answer>>
    /\ stale \subseteq stale' /\ copying \subseteq copying'
    /\ raced' = raced \cup (Changed \cap copying)
    /\ \A c \in Changed : copy[c] = {} \/ c \in stale' \cup raced'
    /\ Remember

\* Another program writes.
Intrude(c) ==
    /\ raced' = raced \cup {c}
    /\ UNCHANGED <<copy, answer, stale, copying>>
    /\ Changed \subseteq {c}
    /\ Remember

ReadCopy(p, c) ==
    /\ copy[c] # {}
    /\ answer' = [answer EXCEPT ![p] = copy[c]]
    /\ UNCHANGED <<copy, raced, stale, copying, link, former>>

ReadLink(p, c) ==
    /\ answer' = [answer EXCEPT ![p] = link[c]]
    /\ copying' = copying \cup {d \in {c} : link[d] # {}}
    /\ UNCHANGED <<copy, raced, stale, link, former>>

\* A copy is of the link itself, unless the code was raced.
Copy(c) ==
    /\ c \in copying
    /\ \E l \in IF c \in raced THEN former[c] ELSE link[c] : copy' = [copy EXCEPT ![c] = {l}]
    /\ copying' \in {copying, copying \ {c}}
    /\ UNCHANGED <<answer, raced, stale, link, former>>

\* No code ceases to be stale but by losing its copy.
Drop ==
    /\ UNCHANGED <<answer, raced, copying>>
    /\ copy' = [c \in Codes |-> IF copy'[c] = {} THEN {} ELSE copy[c]]
    /\ stale' \subseteq stale
    /\ \A c \in stale \ stale' : copy'[c] = {}
    /\ UNCHANGED <<link, former>>

Finish(p) ==
    /\ answer' = [answer EXCEPT ![p] = {}]
    /\ UNCHANGED <<copy, raced, stale, copying, link, former>>

Restart ==
    /\ copy' = [c \in Codes |-> {}]
    /\ answer' = [p \in Readers |-> {}]
    /\ stale' = {} /\ copying' = {}
    /\ UNCHANGED <<raced, link, former>>

Next ==
    \/ Publish \/ Drop \/ Restart
    \/ \E c \in Codes :
        \/ Intrude(c) \/ Copy(c)
        \/ \E p \in Readers : ReadCopy(p, c) \/ ReadLink(p, c)
    \/ \E p \in Readers : Finish(p)

Spec == Init /\ [][Next]_vars
=============================================================================
