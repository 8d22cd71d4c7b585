----------------------------- MODULE DataAccess -----------------------------
(***************************************************************************)
(* The data methods of DB and DBCursor: threads read, write and list the   *)
(* records of one open DB of Module/berkeleydb.c, as a dictionary or       *)
(* through the methods.                                                    *)
(*                                                                         *)
(* Each native call is atomic for the records, and runs in a window in     *)
(* which the interpreter lock is released: other threads run between two   *)
(* native calls of a method, and between the last one and its return.  One *)
(* action is the code up to and including the next native call, or up to   *)
(* the return.  A cursor may stand anywhere.                               *)
(***************************************************************************)
EXTENDS Naturals, FiniteSets

CONSTANTS
    Thread,
    MaxKey,     \* bound: the number of keys
    MaxDup      \* bound: the records that DB.put and DBCursor.put give a key

ASSUME DataAssumption == MaxKey \in Nat \ {0} /\ MaxDup \in Nat \ {0, 1}

Key == 1 .. MaxKey

VARIABLES
    dup,        \* self->setflags & (DB_DUP|DB_DUPSORT)
    rec,        \* how many records each key has
    level,      \* moduleFlags, as set_get_returns_none takes and returns it
    call,       \* what each thread is doing
    \* History.
    owed,       \* the keys that were stored, and that nothing meant to remove
    multi       \* the keys given a second record by a put

vars == <<dup, rec, level, call, owed, multi>>

Reads == {"subscript", "has_key", "get_size", "get", "default", "set", "get_both", "set_both"}
Writes == {"put", "delete", "assign", "deleted", "assigned", "truncate"}
Err == {"ok", "NOTFOUND", "KEYEXIST", "other"}

(* err is what the last native call returned; early is a flag that was read  *)
(* before the window; got is the list so far, up to key.  History: asked is  *)
(* what that flag has been during the call, raced tells that another thread  *)
(* stored the key after the delete, kept and met are the keys that were      *)
(* there all along, and at some time.                                        *)
Idle == [op |-> "idle", key |-> 0, err |-> "ok", early |-> FALSE, got |-> {},
         asked |-> {}, raced |-> FALSE, kept |-> {}, met |-> {}]

Present == {k \in Key : rec[k] > 0}

Init ==
    /\ dup \in BOOLEAN /\ level = 2     \* DEFAULT_..._RETURNS_NONE
    /\ rec \in [Key -> {0, 1}]
    /\ call = [t \in Thread |-> Idle]
    /\ owed = Present /\ multi = {}

-----------------------------------------------------------------------------
(* The two flags, and the methods that read each of them.                    *)

FlagAt(op, n) == \/ op \in {"get", "get_both"} /\ n >= 1     \* getReturnsNone
                 \/ op \in {"set", "set_both"} /\ n >= 2     \* cursorSetReturnsNone
FlagFaulty(op) == FlagAt(op, level + 1)     \* the other flag read
Flag(op) == FlagAt(op, level)

(* What a method returns or raises for a missing record: the dictionary       *)
(* methods, those that read the flag when the call has failed, and those that *)
(* read it before.                                                           *)
DictMissing(op) == IF op = "has_key" THEN "False" ELSE "KeyError"
LateMissing(op) == IF Flag(op) THEN "None" ELSE "DBNotFoundError"
EarlyMissing(early) == IF early THEN "None" ELSE "DBNotFoundError"

Missing(c) ==
    CASE c.op \in {"subscript", "has_key"} -> DictMissing(c.op)
      [] c.op = "default"                  -> "default"
      [] c.op \in {"get", "set"}           -> LateMissing(c.op)
      [] c.op \in {"get_both", "set_both"} -> EarlyMissing(c.early)
      [] OTHER -> "DBNotFoundError"

Outcome(c) ==
    CASE c.err = "other"    -> "DBError"
      [] c.err = "KEYEXIST" -> "DBKeyExistError"
      [] c.err = "ok" \/ (c.err = "NOTFOUND" /\ c.op = "listed") -> "value"
      [] OTHER -> Missing(c)

Done(c) == \/ c.op \in Reads \cup {"put", "delete", "assigned", "truncate", "listed"}
           \/ c.op = "assign" /\ (c.err = "ok" \/ ~dup)

(* t goes on to c after a native call; S are the keys that call stored.      *)
Observe(c, S) ==
    [c EXCEPT !.raced = @ \/ (c.op = "deleted" /\ c.key \in S),
              !.kept = IF c.op = "list" THEN @ \cap Present' ELSE @,
              !.met = IF c.op = "list" THEN @ \cup Present' ELSE @]

Go(t, c, S) ==
    call' = [u \in Thread |-> IF u = t THEN c ELSE Observe(call[u], S)]

(* DB->put.  Only DB.put and DBCursor.put may give a key a second record.    *)
Added(k) == IF dup THEN rec[k] + 1 ELSE 1

Store(t, k, noOverwrite, next) ==
    \/ /\ ~(noOverwrite /\ k \in Present)
       /\ rec' = [rec EXCEPT ![k] = Added(k)]
       /\ owed' = owed \cup {k}
       /\ Go(t, [next EXCEPT !.err = "ok"], {k})
    \/ \E e \in {"KEYEXIST", "other"} :
          /\ e = "KEYEXIST" => noOverwrite /\ k \in Present
          /\ UNCHANGED rec
          /\ owed' = IF next.op = "assigned" /\ e = "other" THEN owed \ {k} ELSE owed
          /\ Go(t, [next EXCEPT !.err = e], {})

(* DB->del, of every record of the keys of S.                                *)
Erase(t, S, next) ==
    /\ S \cap Present # {}
    /\ rec' = [k \in Key |-> IF k \in S THEN 0 ELSE rec[k]]
    /\ multi' = multi \ S
    /\ Go(t, [next EXCEPT !.err = "ok"], {})

Fail(t, next, e) ==
    /\ UNCHANGED <<rec, multi>>
    /\ Go(t, [next EXCEPT !.err = e], {})

-----------------------------------------------------------------------------
(* The methods of one native call.                                           *)

Enter(op) == [Idle EXCEPT !.op = op, !.early = Flag(op), !.asked = {FlagAt(op, level)}]

Read(t, op, k) ==
    /\ call[t] = Idle
    /\ UNCHANGED <<dup, rec, level, owed, multi>>
    /\ \E e \in {IF k \in Present THEN "ok" ELSE "NOTFOUND", "other"} :
          Go(t, [Enter(op) EXCEPT !.err = e], {})

\* DB.consume: the head of a queue.
Consume(t) ==
    /\ call[t] = Idle /\ ~dup
    /\ \/ \E k \in Present : /\ \A l \in Present : k <= l
                             /\ Erase(t, {k}, Enter("get")) /\ owed' = owed \ {k}
       \/ \E e \in {"NOTFOUND", "other"} :
             /\ e = "NOTFOUND" => Present = {}
             /\ Fail(t, Enter("get"), e) /\ UNCHANGED owed
    /\ UNCHANGED <<dup, level>>

\* DB.put, DB.append and DBCursor.put, with or without DB_NOOVERWRITE.
Put(t, k, noOverwrite) ==
    /\ call[t] = Idle
    /\ dup => rec[k] < MaxDup
    /\ Store(t, k, noOverwrite, [Idle EXCEPT !.op = "put"])
    /\ multi' = IF rec'[k] > 1 THEN multi \cup {k} ELSE multi
    /\ UNCHANGED <<dup, level>>

\* DB.delete, del; DB.truncate.
Delete(t, k) ==
    /\ call[t] = Idle
    /\ \/ Erase(t, {k}, [Idle EXCEPT !.op = "delete"]) /\ owed' = owed \ {k}
       \/ \E e \in {"NOTFOUND", "other"} :
             /\ e = "NOTFOUND" => k \notin Present
             /\ Fail(t, [Idle EXCEPT !.op = "delete"], e) /\ UNCHANGED owed
    /\ UNCHANGED <<dup, level>>

Truncate(t) ==
    /\ call[t] = Idle
    /\ \/ Erase(t, Key, [Idle EXCEPT !.op = "truncate"]) /\ owed' = {}
       \/ \E e \in {"ok", "other"} :
             /\ e = "ok" => Present = {}
             /\ Fail(t, [Idle EXCEPT !.op = "truncate"], e) /\ UNCHANGED owed
    /\ UNCHANGED <<dup, level>>

\* DBCursor.delete: one record, where the cursor stands.
CursorDelete(t, k) ==
    /\ call[t] = Idle /\ k \in Present
    /\ rec' = [rec EXCEPT ![k] = @ - 1]
    /\ multi' = IF rec'[k] > 1 THEN multi ELSE multi \ {k}
    /\ owed' = IF rec'[k] > 0 THEN owed ELSE owed \ {k}
    /\ Go(t, [Idle EXCEPT !.op = "delete"], {})
    /\ UNCHANGED <<dup, level>>

-----------------------------------------------------------------------------
(* db[k] = v.  With duplicates: a put that does not overwrite; when it       *)
(* fails, whatever the reason, a delete of all the records of the key,       *)
(* whatever its outcome, and the same put again.                             *)

Assign(t, k) ==
    /\ call[t] = Idle
    /\ Store(t, k, dup, [Idle EXCEPT !.op = "assign", !.key = k])
    /\ UNCHANGED <<dup, level, multi>>

AssignDeleteFaulty(t) ==    \* one record of the key deleted
    /\ call[t].op = "assign" /\ ~Done(call[t])
    /\ rec' = [k \in Key |-> IF k = call[t].key /\ k \in Present THEN rec[k] - 1 ELSE rec[k]]
    /\ Go(t, [Idle EXCEPT !.op = "deleted", !.key = call[t].key], {})
    /\ UNCHANGED <<dup, level, owed, multi>>

AssignDelete(t) ==
    LET k == call[t].key
        next == [Idle EXCEPT !.op = "deleted", !.key = k]
    IN  /\ call[t].op = "assign" /\ ~Done(call[t])
        /\ \/ Erase(t, {k}, next)
           \/ k \notin Present /\ Fail(t, next, "ok")
           \/ Fail(t, [next EXCEPT !.raced = TRUE], "ok")    \* the delete failed
        /\ UNCHANGED <<dup, level, owed>>

SecondPutFaulty(t) ==       \* the flag forgotten
    /\ call[t].op = "deleted"
    /\ dup => rec[call[t].key] < MaxDup
    /\ Store(t, call[t].key, FALSE, [call[t] EXCEPT !.op = "assigned"])
    /\ UNCHANGED <<dup, level, multi>>

SecondPutSkipped(t) ==      \* the delete taken for the whole assignment
    /\ call[t].op = "deleted"
    /\ UNCHANGED <<dup, rec, level, owed, multi>>
    /\ Go(t, [call[t] EXCEPT !.op = "assigned"], {})

AssignAgain(t) ==
    /\ call[t].op = "deleted"
    /\ Store(t, call[t].key, TRUE, [call[t] EXCEPT !.op = "assigned"])
    /\ UNCHANGED <<dup, level, multi>>

-----------------------------------------------------------------------------
(* DB.keys, items and values: a native cursor walks the DB.                  *)

ListStart(t) ==
    /\ call[t] = Idle
    /\ UNCHANGED <<dup, rec, level, owed, multi>>
    /\ \/ Go(t, [Idle EXCEPT !.op = "list", !.kept = Present, !.met = Present], {})
       \/ Go(t, [Idle EXCEPT !.op = "listed", !.err = "other"], {})

ListNextFaulty(t) ==        \* any error taken for the end
    /\ call[t].op = "list"
    /\ UNCHANGED <<dup, rec, level, owed, multi>>
    /\ \/ \E k \in Present : /\ k > call[t].key
                             /\ \A l \in Present : l > call[t].key => l >= k
                             /\ Go(t, [call[t] EXCEPT !.key = k, !.got = @ \cup {k}], {})
       \/ Go(t, [call[t] EXCEPT !.op = "listed", !.err = "NOTFOUND"], {})

ListNext(t) ==
    /\ call[t].op = "list"
    /\ UNCHANGED <<dup, rec, level, owed, multi>>
    /\ \/ \E k \in Present : /\ k > call[t].key
                             /\ \A l \in Present : l > call[t].key => l >= k
                             /\ Go(t, [call[t] EXCEPT !.key = k, !.got = @ \cup {k}], {})
       \/ /\ \A l \in Present : l <= call[t].key
          /\ Go(t, [call[t] EXCEPT !.op = "listed", !.err = "NOTFOUND"], {})
       \/ Go(t, [call[t] EXCEPT !.op = "listed", !.err = "other"], {})

-----------------------------------------------------------------------------
Return(t) ==
    /\ Done(call[t])
    /\ call' = [call EXCEPT ![t] = Idle]
    /\ UNCHANGED <<dup, rec, level, owed, multi>>

SetGetReturnsNone(t, n) ==
    /\ call[t] = Idle /\ n # level
    /\ level' = n
    /\ call' = [u \in Thread |-> IF call[u].asked = {} THEN call[u]
                                 ELSE [call[u] EXCEPT !.asked = @ \cup {FlagAt(call[u].op, n)}]]
    /\ UNCHANGED <<dup, rec, owed, multi>>

Next == \E t \in Thread :
    \/ \E op \in Reads, k \in Key : Read(t, op, k)
    \/ \E k \in Key : Delete(t, k) \/ CursorDelete(t, k) \/ Assign(t, k)
    \/ \E k \in Key, noOverwrite \in BOOLEAN : Put(t, k, noOverwrite)
    \/ Truncate(t) \/ Consume(t) \/ AssignDelete(t) \/ AssignAgain(t)
    \/ ListStart(t) \/ ListNext(t) \/ Return(t)
    \/ \E n \in 0 .. 2 : SetGetReturnsNone(t, n)

Spec == Init /\ [][Next]_vars

-----------------------------------------------------------------------------
(* "Dictionaries shouldn't have duplicate keys": however the assignments of  *)
(* several threads overlap, only a put gives a key a second record.          *)
NoDuplicates == \A k \in Key : rec[k] > 1 => k \in multi

(* The delete inside an assignment loses no record for good: a key that was  *)
(* stored, and that no thread meant to remove, has a record, or will get one *)
(* again from the assignment that is at work on it; an assignment that fails *)
(* natively after its delete is the only way to lose it.                     *)
StoredIsKept ==
    \A k \in owed \ Present :
        \E t \in Thread : call[t].op = "deleted" /\ call[t].key = k

(* Assignment "will now replace all values for a given key": it is refused   *)
(* because the key exists only when another thread stored the key between    *)
(* its delete and its second put, or when the delete failed.                 *)
RefusedOnlyByRace ==
    \A t \in Thread : call[t].op = "assigned" /\ Outcome(call[t]) = "DBKeyExistError"
                          => call[t].raced

(* A list that is returned has every key that was there all along, and none  *)
(* that was never there, whatever other threads wrote meanwhile; an error    *)
(* half-way gives no list.                                                   *)
ListsAreComplete ==
    \A t \in Thread : call[t].op = "listed" /\ Outcome(call[t]) = "value"
                          => call[t].kept \subseteq call[t].got /\ call[t].got \subseteq call[t].met

(* docs: a method returns None for a missing record only if its level of     *)
(* set_get_returns_none asked for it at some time during the call, and       *)
(* raises only if it did not at some time.                                   *)
NoneOnlyWhenAsked ==
    \A t \in Thread : Done(call[t]) =>
        /\ Outcome(call[t]) = "None" => TRUE \in call[t].asked
        /\ call[t].op \in {"get", "set", "get_both", "set_both"}
              /\ Outcome(call[t]) = "DBNotFoundError" => FALSE \in call[t].asked
-----------------------------------------------------------------------------
(* The inductive invariant of DataAccess_proofs.                             *)

Ops == Reads \cup Writes \cup {"idle", "list", "listed"}
Calls == [op : Ops, key : 0 .. MaxKey, err : Err, early : BOOLEAN, got : SUBSET Key,
          asked : SUBSET BOOLEAN, raced : BOOLEAN, kept : SUBSET Key, met : SUBSET Key]

TypeOK ==
    /\ dup \in BOOLEAN /\ level \in 0 .. 2
    /\ rec \in [Key -> Nat]
    /\ call \in [Thread -> Calls]
    /\ owed \subseteq Key /\ multi \subseteq Key

\* Between the delete and the second put the key is there only by a race, and
\* nothing else lets the second put fail for it.
AssignInv(c) ==
    /\ c.op \in {"assign", "deleted"} => c.key \in Key
    /\ c.op = "deleted" /\ c.key \in Present => c.raced
    /\ c.op = "assigned" /\ c.err = "KEYEXIST" => c.raced

\* A list so far has what stayed, up to where it is.
ListInv(c) ==
    /\ c.op = "list" => /\ c.kept \subseteq Present /\ Present \subseteq c.met
                        /\ c.got \subseteq c.met
                        /\ \A k \in c.kept : k <= c.key => k \in c.got
    /\ c.op = "listed" /\ c.err \in {"ok", "NOTFOUND"} =>
          c.kept \subseteq c.got /\ c.got \subseteq c.met

\* What a method read, or would read now, of its flag is among what it has been.
ReadInv(c) == c.op \in Reads => FlagAt(c.op, level) \in c.asked /\ c.early \in c.asked

CallInv(c) == AssignInv(c) /\ ListInv(c) /\ ReadInv(c)

IInv ==
    /\ TypeOK
    /\ NoDuplicates /\ StoredIsKept
    /\ \A t \in Thread : CallInv(call[t])
=============================================================================
