------------------------------ MODULE LegacyDB ------------------------------
(***************************************************************************)
(* _DBWithCursor and _iter_mixin of berkeleydb/__init__.py: the dictionary *)
(* returned by hashopen and btopen, with its own cursor (first, next,      *)
(* previous, last, set_location) and with generators that are suspended    *)
(* while the program uses the dictionary.                                  *)
(*                                                                         *)
(* The database locks what a cursor reads, so that a write would wait for  *)
(* the cursors of its own thread: every write closes them first.  The      *)
(* dictionary's own cursor is made again at the key it was at, and a       *)
(* generator has to notice that its cursor was closed.                     *)
(*                                                                         *)
(* One action is one call of the program, which uses one thread.  Records  *)
(* are their keys, in the order of the database.                           *)
(***************************************************************************)
EXTENDS Integers, FiniteSets

CONSTANTS
    Gen,        \* the generators the program may make
    MaxRecords, \* bound: the number of keys
    MaxWrites   \* bound: the writes the program makes

Records == 1 .. MaxRecords
Unset == 0      \* a cursor not positioned yet, no saved key
Own == "dbc"    \* self.dbc
Cursors == Gen \cup {Own}

ASSUME LegacyAssumption ==
    MaxRecords \in Nat /\ MaxWrites \in Nat /\ IsFiniteSet(Gen) /\ Own \notin Gen

VARIABLES
    btree,      \* the database is of btopen, not of hashopen
    up,         \* self.db is not None
    keys,       \* the records
    open,       \* the cursors that are open
    at,         \* where each cursor is; the last key of a generator
    saved,      \* self.saved_dbc_key
    refs,       \* self._cursor_refs
    inIter,     \* self._in_iter
    kill,       \* self._kill_iteration
    gen,        \* each generator: not started, suspended at a yield, over
    result,     \* what the last call returned or raised
    writes,     \* the writes so far
    \* History.
    seen,       \* the keys each generator gave
    written,    \* the suspended generators since whose start there was a write
    place       \* the key the program moved to, if its record is still there

legacyVars == <<btree, up, keys, open, at, saved, refs, inIter, kill, gen, result, writes,
                seen, written, place>>

LegacyInit ==
    /\ btree \in BOOLEAN /\ up = TRUE /\ keys \in SUBSET Records
    /\ open = {} /\ at = [c \in Cursors |-> Unset]
    /\ saved = Unset /\ refs = {} /\ inIter = 0 /\ kill = FALSE
    /\ gen = [g \in Gen |-> "new"] /\ result = "none" /\ writes = 0
    /\ seen = [g \in Gen |-> {}] /\ written = {} /\ place = Unset

Suspended == {g \in Gen : gen[g] = "suspended"}

Least(S) == CHOOSE k \in S : \A l \in S : k <= l
Greatest(S) == CHOOSE k \in S : \A l \in S : k >= l
AfterFaulty(p) == {k \in keys : k > p + 1}      \* steps over the neighbour
After(p) == {k \in keys : k > p}
Before(p) == {k \in keys : k < p}

-----------------------------------------------------------------------------
(* _closeCursors: what is closed, and the key that is saved.                 *)

ClosedBy == {Own} \cup refs

SavedKeyFaulty == IF Own \in open THEN at[Own] ELSE Unset   \* forgets the saved key
SavedKey ==
    IF Own \in open /\ at[Own] \in keys THEN at[Own] ELSE saved

CloseCursors(save) ==
    /\ open' = open \ ClosedBy
    /\ refs' = refs \ ClosedBy
    /\ saved' = IF save THEN SavedKey ELSE saved
    /\ at' = [at EXCEPT ![Own] = Unset]

Write(S) ==
    /\ up /\ writes < MaxWrites
    /\ writes' = writes + 1
    /\ CloseCursors(TRUE)
    /\ keys' = S
    /\ kill' = (kill \/ (inIter > 0 /\ S # keys))
    /\ written' = written \cup Suspended
    /\ place' = IF place \in S THEN place ELSE Unset
    /\ UNCHANGED <<btree, up, inIter, gen, seen>>

SetItem(k) == Write(keys \cup {k}) /\ result' = "none"

DelItem(k) == Write(keys \ {k}) /\ result' = IF k \in keys THEN "none" ELSE "KeyError"

Close ==
    /\ up /\ up' = FALSE
    /\ CloseCursors(FALSE)
    /\ result' = "none" /\ place' = Unset
    /\ UNCHANGED <<btree, keys, inIter, kill, gen, writes, seen, written>>

-----------------------------------------------------------------------------
(* __iter__ and iteritems.                                                   *)

Yield(g, k) ==
    /\ gen' = [gen EXCEPT ![g] = "suspended"]
    /\ open' = open \cup {g} /\ refs' = refs \cup {g}
    /\ at' = [at EXCEPT ![g] = k]
    /\ seen' = [seen EXCEPT ![g] = @ \cup {k}]
    /\ result' = "key"

\* The finally clauses, after n increments of _in_iter in this call.
FinishFaulty(g, n, outcome) ==      \* an error leaves _in_iter alone
    /\ gen' = [gen EXCEPT ![g] = "over"]
    /\ open' = open \ {g} /\ refs' = refs \ {g}
    /\ inIter' = IF outcome = "KeyError" THEN inIter ELSE inIter + n - 1
    /\ result' = outcome
    /\ UNCHANGED <<at, seen>>

FinishLeak(g, n, outcome) ==        \* the entry goes, the cursor stays open
    /\ gen' = [gen EXCEPT ![g] = "over"]
    /\ refs' = refs \ {g} /\ UNCHANGED open
    /\ inIter' = inIter + n - 1
    /\ result' = outcome
    /\ UNCHANGED <<at, seen>>

Finish(g, n, outcome) ==
    /\ gen' = [gen EXCEPT ![g] = "over"]
    /\ open' = open \ {g} /\ refs' = refs \ {g}
    /\ inIter' = inIter + n - 1
    /\ result' = outcome
    /\ UNCHANGED <<at, seen>>

Start(g) ==
    /\ gen[g] = "new"
    /\ kill' = FALSE
    /\ IF up /\ keys # {} THEN Yield(g, Least(keys)) /\ inIter' = inIter + 1
       ELSE Finish(g, 1, IF up THEN "stop" ELSE "Error")
    /\ UNCHANGED <<btree, up, keys, saved, writes, written, place>>

\* iteritems returns before it counts when there is nothing to iterate over.
ItemsReturn(g) ==
    /\ gen[g] = "new" /\ ~(up /\ keys # {})
    /\ gen' = [gen EXCEPT ![g] = "over"]
    /\ result' = "stop"
    /\ UNCHANGED <<btree, up, keys, open, at, saved, refs, inIter, kill, writes,
                   seen, written, place>>

(* When its cursor was closed the generator frees it again, which fails on   *)
(* the missing entry of _cursor_refs: in the handler, or, when the handler   *)
(* raised RuntimeError, in the finally clause.                               *)
Resume(g) ==
    LET moves == g \in open \/ (g \in refs /\ ~kill /\ at[g] \in keys)
    IN  /\ gen[g] = "suspended"
        /\ IF moves /\ After(at[g]) # {} THEN Yield(g, Least(After(at[g]))) /\ UNCHANGED inIter
           ELSE Finish(g, 0, IF moves THEN "stop"
                             ELSE IF g \notin refs THEN "KeyError"
                             ELSE IF kill THEN "RuntimeError" ELSE "stop")
        /\ UNCHANGED <<btree, up, keys, saved, kill, writes, written, place>>

\* The program drops a suspended generator.
Drop(g) ==
    /\ gen[g] = "suspended"
    /\ Finish(g, 0, "none")
    /\ UNCHANGED <<btree, up, keys, saved, kill, writes, written, place>>

-----------------------------------------------------------------------------
(* The own cursor.  _checkCursor makes it, at the saved key if there is one; *)
(* when that record is gone the call fails and the cursor stays unpositioned.*)

\* Where the own cursor stands when it is there again; s is the saved key.
Origin(s) == IF Own \in open THEN at[Own] ELSE s

\* A call that moves the own cursor to the record k, if there is one.
Reposition(s, k) ==
    LET fresh == Own \notin open
        lost == fresh /\ s # Unset /\ s \notin keys
    IN  /\ up
        /\ open' = open \cup {Own}
        /\ saved' = IF fresh /\ ~lost THEN Unset ELSE s
        /\ result' = IF lost \/ k = Unset THEN "KeyError" ELSE "key"
        /\ at' = [at EXCEPT ![Own] = IF lost THEN Unset ELSE IF k = Unset THEN Origin(s) ELSE k]
        /\ place' = IF lost \/ k = Unset THEN place ELSE k
        /\ UNCHANGED <<btree, up, keys, refs, inIter, kill, gen, writes, seen, written>>

LeastOf(S) == IF S = {} THEN Unset ELSE Least(S)
GreatestOf(S) == IF S = {} THEN Unset ELSE Greatest(S)

First == Reposition(Unset, LeastOf(keys))
Last == Reposition(Unset, GreatestOf(keys))
NextRecord == Reposition(saved, LeastOf(After(Origin(saved))))
Previous ==
    LET p == Origin(saved)
    IN  Reposition(saved, GreatestOf(IF p = Unset THEN keys ELSE Before(p)))
\* The next record from the key on in a btree, the record of the key in a hash.
SetLocation(k) == Reposition(saved, LeastOf(IF btree THEN After(k - 1) ELSE keys \cap {k}))

LegacyNext ==
    \/ \E k \in Records : SetItem(k) \/ DelItem(k) \/ SetLocation(k)
    \/ Close \/ First \/ Last \/ NextRecord \/ Previous
    \/ \E g \in Gen : Start(g) \/ ItemsReturn(g) \/ Resume(g) \/ Drop(g)

LegacySpec == LegacyInit /\ [][LegacyNext]_legacyVars

-----------------------------------------------------------------------------
(* Every open cursor is known, either as self.dbc or in _cursor_refs, and    *)
(* nothing else is in there: what a write or a close would not find would    *)
(* keep its locks.                                                           *)
CursorsKnown == open \ {Own} = refs

(* _in_iter counts the generators at a yield, however they end, so that      *)
(* __setitem__ and __delitem__ know when an iteration can be disturbed.      *)
InIterExact == inIter = Cardinality(Suspended)

(* A generator gives the keys in order, and when it stops normally it gave   *)
(* every key once and nothing was written meanwhile.                         *)
IterationComplete ==
    [][\A g \in Gen :
         /\ seen'[g] # seen[g] => \A k \in seen[g] : at'[g] > k
         /\ gen[g] = "suspended" /\ gen'[g] = "over" /\ result' = "stop"
               => seen[g] = keys /\ g \notin written]_legacyVars

(* The program does not see that a write closed the own cursor: as long as   *)
(* the record it moved to exists, next and previous go on from there.        *)
PlaceKept ==
    place # Unset => IF Own \in open THEN at[Own] = place ELSE saved = place

-----------------------------------------------------------------------------
(* The inductive invariant.  What a generator gave is the records up to the  *)
(* one it is at, as long as its cursor was not closed; it was closed if      *)
(* there was a write.                                                        *)
GeneratorInv(g) ==
    /\ gen[g] = "new" => seen[g] = {} /\ g \notin written
    /\ \A k \in seen[g] : k <= at[g]
    /\ g \in refs => /\ gen[g] = "suspended" /\ g \notin written
                     /\ at[g] \in keys /\ seen[g] = {k \in keys : k <= at[g]}

PlaceInv == place # Unset => place \in keys

LegacyTypeOK ==
    /\ keys \subseteq Records /\ open \subseteq Cursors /\ refs \subseteq Gen
    /\ at \in [Cursors -> Records \cup {Unset}]
    /\ {saved, place} \subseteq Records \cup {Unset}
    /\ gen \in [Gen -> {"new", "suspended", "over"}] /\ inIter \in Int
    /\ seen \in [Gen -> SUBSET Records] /\ written \subseteq Gen

LegacyInv ==
    /\ LegacyTypeOK /\ CursorsKnown /\ InIterExact /\ PlaceKept /\ PlaceInv
    /\ \A g \in Gen : GeneratorInv(g)

=============================================================================
