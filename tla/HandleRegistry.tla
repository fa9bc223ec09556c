--------------------------- MODULE HandleRegistry ---------------------------
(***************************************************************************)
(* The opaque-handle table of the flat-ABI bindings (bindings/registry.rs):*)
(* a map from positive 32-bit handles to values, and a counter that wraps  *)
(* around at the largest handle.  Foreign code keeps handles as plain      *)
(* integers: it may present one that was freed, was never given out or is  *)
(* in use again.  The table is reached from one thread at a time.          *)
(***************************************************************************)
EXTENDS Integers

CONSTANTS
    MaxHandle,  \* i32::MAX
    Value,
    None        \* no entry

ASSUME HandleAssumption ==
    /\ MaxHandle \in Nat \ {0}
    /\ None \notin Value \cup (1..MaxHandle)
    /\ Value \cap (1..MaxHandle) = {}

VARIABLES
    next,       \* the handle given out last, 0 before the first
    entries,    \* the live entries
    answer,     \* what the last call returned
    metSince    \* history: per handle, the handles live since it was given out

vars == <<next, entries, answer, metSince>>

Handle == 1..MaxHandle
Live == {h \in Handle : entries[h] # None}

TypeOK ==
    /\ next \in 0..MaxHandle
    /\ entries \in [Handle -> Value \cup {None}]
    /\ answer \in Value \cup Handle \cup {None}
    /\ metSince \in [Handle -> SUBSET Handle]

-----------------------------------------------------------------------------
\* Steps of the counter from n until it shows h; h = n takes a full round.
\* wrapping_add(1).max(1) turns i32::MAX into 1.
Steps(n, h) == IF h > n THEN h - n ELSE h + MaxHandle - n

\* Mutant: the counter restarts from the bottom in every call.
FreshLowest(h) == h \notin Live /\ \A k \in Handle \ Live : h <= k

\* Where the loop of store stops: the first handle on the way that is not live.
Fresh(h) == h \notin Live /\ \A k \in Handle \ Live : Steps(next, h) <= Steps(next, k)

\* With no handle free the loop of store does not end; no step models it.
Store(v) ==
    \E h \in Handle :
        /\ Fresh(h)
        /\ next' = h
        /\ entries' = [entries EXCEPT ![h] = v]
        /\ answer' = h
        /\ metSince' = [k \in Handle |->
                            IF k = h THEN Live \cup {h}
                            ELSE IF metSince[k] = {} THEN {}
                            ELSE metSince[k] \cup Live \cup {h}]

\* with: an unknown handle is refused.
With(h) ==
    /\ answer' = IF h \in Handle THEN entries[h] ELSE None
    /\ UNCHANGED <<next, entries, metSince>>

\* with_mut: the body leaves v in the entry.
WithMut(h, v) ==
    /\ entries' = IF h \in Live THEN [entries EXCEPT ![h] = v] ELSE entries
    /\ answer' = IF h \in Live THEN v ELSE None
    /\ UNCHANGED <<next, metSince>>

\* remove: unknown handles are ignored.
Remove(h) ==
    /\ entries' = IF h \in Live THEN [entries EXCEPT ![h] = None] ELSE entries
    /\ answer' = None
    /\ UNCHANGED <<next, metSince>>

Init ==
    /\ next = 0
    /\ entries = [h \in Handle |-> None]
    /\ answer = None
    /\ metSince = [h \in Handle |-> {}]

\* Foreign code may present any integer; 0 stands for all that are no handles.
Next ==
    \/ \E v \in Value : Store(v)
    \/ \E h \in Handle \cup {0} : With(h)
    \/ \E h \in Handle \cup {0}, v \in Value : WithMut(h, v)
    \/ \E h \in Handle \cup {0} : Remove(h)

Spec == Init /\ [][Next]_vars
-----------------------------------------------------------------------------
(* Properties *)

\* store overwrites no live entry, in particular not after the counter wrapped.
StoreKeepsEntries ==
    [][answer' \in Handle => \A h \in Live : entries'[h] = entries[h]]_vars

\* A stale handle stays unknown as long as possible: a handle is given out
\* again only when every other handle was in use at some moment since.
ReusedLast ==
    [][answer' \in Handle /\ metSince[answer'] # {} =>
          metSince[answer'] \cup Live \cup {answer'} = Handle]_vars

\* What the counter passed since a handle was given out was in use at the time.
Ahead(h, k) == IF k >= h THEN k - h ELSE k + MaxHandle - h

PassedMet ==
    \A h \in Handle : metSince[h] # {} =>
        /\ next # 0
        /\ \A k \in Handle : Ahead(h, k) <= Ahead(h, next) => k \in metSince[h]

LiveMet == \A h \in Live : metSince[h] # {}

IInv == TypeOK /\ PassedMet /\ LiveMet
=============================================================================
