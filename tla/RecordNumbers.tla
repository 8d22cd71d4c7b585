--------------------------- MODULE RecordNumbers ---------------------------
(***************************************************************************)
(* How record numbers and data cross between Python and Berkeley DB        *)
(* (Module/berkeleydb.c): make_key_dbt, make_dbt, the BuildValue functions *)
(* and the methods of DB and DBCursor that use them.                       *)
(*                                                                         *)
(* A record number is an unsigned integer of a fixed width, a C long has   *)
(* that width or more, and a Python integer is any; some methods tell the  *)
(* number as it is, some as a C long and some as a signed C int.  Data     *)
(* that the library found lies in memory of the DB handle, of a cursor or  *)
(* of malloc, as the DBT asks; it is copied into a Python object once the  *)
(* interpreter lock is regained.                                           *)
(***************************************************************************)
EXTENDS Integers, FiniteSets

CONSTANTS
    Thread,
    Types,      \* the types of DB to look at
    Size,       \* how many values a db_recno_t has
    Long,       \* a C long is in -Long .. Long - 1
    MaxInt,     \* bound: of the Python integers that the program uses
    MaxStores   \* bound: records that are ever stored

Half  == Size \div 2
Recno == 1..(Size - 1)

ASSUME NumbersAssumption ==
    /\ Size \in Nat /\ Long \in Nat /\ MaxStores \in Nat /\ MaxInt \in Nat
    /\ Types \subseteq {"recno", "queue", "btree"}
    /\ Size = 2 * Half /\ Half > 0
    /\ Long = Half \/ Long >= Size     \* 32 bits, or more than a db_recno_t

VARIABLES
    dbtype,
    threaded,   \* DB_THREAD is set in the DB or its environment
    recs,       \* the stored records, each with a stamp of its own, or 0
    stores,     \* the last stamp
    last,       \* the highest number, after which the next record is appended
    handle,     \* the record in the memory of the DB handle
    call,       \* each thread's call
    told,       \* history: the number and the record that the program was told last
    memory      \* history: leaked, malloc's memory was lost; wild, memory was
                \* freed that is not malloc's

vars == <<dbtype, threaded, recs, stores, last, handle, call, told, memory>>

\* Methods with an integer key, by what they do: set is also set_range and the
\* other cursor methods with a key, size is also exists and has_key, step is
\* also items, and keys is also DBCursor.get_recno.
Keyed   == {"get", "get_both", "size", "put", "delete", "set"}
Reads   == {"get", "get_both", "size", "set", "step", "keys", "pget"}
Methods == Keyed \cup Reads \cup {"append", "consume", "set_recno"}

Allowed(op) ==
    \/ dbtype = "btree" /\ op \in {"get", "size", "keys", "set_recno"}
    \/ dbtype # "btree" /\ op \in Keyed \cup Reads \cup {"append"}
    \/ dbtype = "queue" /\ op = "consume"

-----------------------------------------------------------------------------
(* A DBT: what the library is to do about memory, and where its data is.     *)

Dbt(flag, at) == [flag |-> flag, at |-> at]
Cleared == Dbt("none", "null")
Wild(d) == d.flag \in {"MALLOC", "REALLOC"} /\ d.at \notin {"null", "malloc"}

\* Berkeley DB returns something in a DBT; own is the memory it uses if not
\* told otherwise.
Filled(d, own) ==
    CASE d.flag \in {"MALLOC", "REALLOC"} -> [d EXCEPT !.at = "malloc"]
      [] d.flag = "USERMEM" -> d
      [] OTHER -> [d EXCEPT !.at = own]

ResultFlagNever == "none"                                   \* DB_THREAD not heeded
ResultFlag == IF threaded THEN "MALLOC" ELSE "none"

KeyDbt(op) ==
    CASE op \in Keyed \cup {"pget", "set_recno"} -> Dbt("REALLOC", "malloc")
      [] op = "append"  -> Dbt("USERMEM", "stack")
      [] op = "consume" -> Dbt(ResultFlag, "null")
      [] OTHER -> Cleared

DataDbt(op) ==
    CASE op \in {"get", "pget", "consume"} -> Dbt(ResultFlag, "null")
      [] op = "get_both" -> Dbt(ResultFlag, "python")
      [] op = "size" -> Dbt("USERMEM", "null")
      [] op \in {"put", "append"} -> Dbt("none", "python")
      [] OTHER -> Cleared

PKeyDbt(op) == IF op = "pget" THEN Dbt("MALLOC", "null") ELSE Cleared

-----------------------------------------------------------------------------
(* Record numbers and Python integers.                                       *)

\* make_key_dbt does not test PyLong_AsLong for an error: it is then -1.
NumberHalf(k) == (IF k \in -Long..(Long - 1) THEN k ELSE -1) % Half
Number(k) == (IF k \in -Long..(Long - 1) THEN k ELSE -1) % Size

Signed(n) == IF n < Half THEN n ELSE n - Size

\* PyLong_FromLong of a record number: negative if a long has no more bits.
AsLong(n) == IF n < Long THEN n ELSE n - Size

\* BuildValue_IS and pget tell a C int, BuildValue_US the unsigned number.
Name(op, n) ==
    CASE op \in {"step", "set", "pget"} -> Signed(n)
      [] op = "consume" -> n
      [] OTHER -> AsLong(n)

Tells == {"append", "consume", "step", "keys", "set", "pget"}
ParsesInt(k) == k \in -Half..(Half - 1)

Idle == [op |-> "none", pc |-> "idle", num |-> 0, found |-> 0,
         key |-> Cleared, data |-> Cleared, pkey |-> Cleared]

Init ==
    /\ dbtype \in Types
    /\ threaded \in BOOLEAN
    /\ last \in 0..(Size - 1)
    /\ recs = [n \in Recno |-> IF n <= last THEN n ELSE 0]
    /\ stores = last
    /\ handle = 0
    /\ call = [t \in Thread |-> Idle]
    /\ told = {}
    /\ memory = {}

-----------------------------------------------------------------------------
(* A call: the arguments, the native call, the result.                       *)

Begun(op, k) ==
    [op |-> op, pc |-> "native", found |-> 0,
     num |-> IF op \in Keyed \cup {"set_recno"} THEN Number(k) ELSE 0,
     key |-> KeyDbt(op), data |-> DataDbt(op), pkey |-> PKeyDbt(op)]

\* The program shares a DB among threads only with DB_THREAD.
Begin(t, op, k) ==
    /\ call[t].pc = "idle"
    /\ threaded \/ \A u \in Thread : call[u].pc = "idle"
    /\ Allowed(op)
    /\ op = "set_recno" => ParsesInt(k)
    /\ op \notin Keyed \cup {"set_recno"} => k = 0
    /\ call' = [call EXCEPT ![t] = Begun(op, k)]
    /\ UNCHANGED <<dbtype, threaded, recs, stores, last, handle, told, memory>>

\* FREE_DBT on some of a call's DBTs; the others go out of scope as they are.
Dropped(c, frees) ==
    (IF \E x \in {"key", "data", "pkey"} \ frees : c[x].at = "malloc" THEN {"leaked"} ELSE {})
    \cup (IF \E x \in frees : Wild(c[x]) THEN {"wild"} ELSE {})

Back(t, frees) ==
    /\ call' = [call EXCEPT ![t] = Idle]
    /\ memory' = memory \cup Dropped(call[t], frees)

\* Another argument is refused after the key was converted: a transaction that
\* is closed, data that is no bytes, one of dlen and doff without the other.
Refuse(t) ==
    /\ call[t].pc = "native" /\ call[t].op # "keys"
    /\ Back(t, {"key"})
    /\ UNCHANGED <<dbtype, threaded, recs, stores, last, handle, told>>

\* What a method stores or removes.
Stored(n) ==
    /\ stores < MaxStores
    /\ stores' = stores + 1
    /\ recs' = [recs EXCEPT ![n] = stores']
    /\ last' = IF n > last \/ (dbtype = "queue" /\ last = Size - 1) THEN n ELSE last

Changes(op, n) ==
    CASE op \in {"put", "append"} -> Stored(n)
      [] op \in {"delete", "consume"} ->
            recs' = [recs EXCEPT ![n] = 0] /\ UNCHANGED <<stores, last>>
      [] OTHER -> UNCHANGED <<recs, stores, last>>

\* The record that a native call is about: an append takes the next number,
\* after the highest comes 1, and the reads without a key may find any.
Finds(c, n) ==
    CASE c.op \in Keyed \cup {"set_recno"} -> n = c.num /\ (c.op # "put" => recs[n] # 0)
      [] c.op = "append" -> n = (last % (Size - 1)) + 1 /\ recs[n] = 0
      [] OTHER -> recs[n] # 0

\* get_both may leave the data that it was given where it is.
Returns(op, d, own) ==
    IF op = "get_both" THEN {d, Filled(d, own)}
    ELSE {Filled(d, IF op \in {"put", "append"} THEN d.at ELSE own)}

Memory(op) == IF op \in {"get", "get_both", "pget", "consume"} THEN "handle" ELSE "cursor"

NativeDone(t) ==
    LET c == call[t] IN
    /\ c.pc = "native"
    /\ \E n \in Recno :
          /\ Finds(c, n)
          /\ Changes(c.op, n)
          /\ LET stamp == IF c.op \in {"put", "append"} THEN stores' ELSE recs[n] IN
             \E d \in Returns(c.op, c.data, Memory(c.op)) :
                /\ call' = [call EXCEPT ![t] =
                      [c EXCEPT !.pc = "back", !.num = n, !.found = stamp, !.data = d,
                                !.key = Filled(@, Memory(c.op)), !.pkey = Filled(@, "null")]]
                /\ handle' = IF d.at = "handle" THEN stamp ELSE handle
    /\ UNCHANGED <<dbtype, threaded, told, memory>>

\* Not found, or any error.
NativeFails(t) ==
    /\ call[t].pc = "native"
    /\ Back(t, {"key"})
    /\ UNCHANGED <<dbtype, threaded, recs, stores, last, handle, told>>

\* What the method frees once it has built its result.
FreesAll(c) == {"key", "data", "pkey"}
Frees(c) == IF c.op = "get_both" /\ c.data.at = "python" THEN {"key"} ELSE {"key", "data", "pkey"}

\* The record that the method reads now, with the lock.
Answer(c) == IF c.data.at = "handle" THEN handle ELSE c.found

Result(t) ==
    LET c == call[t] IN
    /\ c.pc = "back"
    /\ Back(t, Frees(c))
    /\ told' = IF c.op \in Tells THEN {[name |-> Name(c.op, c.num), rec |-> Answer(c)]} ELSE told
    /\ UNCHANGED <<dbtype, threaded, recs, stores, last, handle>>

Next ==
    \E t \in Thread :
        \/ \E op \in Methods, k \in -MaxInt..MaxInt : Begin(t, op, k)
        \/ Refuse(t) \/ NativeDone(t) \/ NativeFails(t) \/ Result(t)

Spec == Init /\ [][Next]_vars

-----------------------------------------------------------------------------
(* Properties.                                                               *)

(* The number that any method told of a record goes on naming that record as a
   key, for as long as the record is stored, whether it was told as it is, as a
   C long or as a C int. *)
NamesHold ==
    \A p \in told : \A n \in Recno :
        recs[n] = p.rec => Number(p.name) = n /\ p.name \in -Half..(Size - 1)

(* A method returns the record that its own native call found, whatever other
   threads did with the DB before it had the lock again. *)
AnswersOwn == \A t \in Thread : call[t].pc = "back" => Answer(call[t]) = call[t].found

(* Whichever way a method returns, it freed what it and the library allocated
   for it and nothing else. *)
MemoryExact == memory = {}

-----------------------------------------------------------------------------
(* The inductive invariant of RecordNumbers_proofs.                          *)

Flags  == {"none", "USERMEM", "MALLOC", "REALLOC"}
Places == {"null", "stack", "python", "malloc", "handle", "cursor"}
Dbts   == [flag : Flags, at : Places]
Calls  == [op : Methods \cup {"none"}, pc : {"idle", "native", "back"},
           num : 0..(Size - 1), found : 0..stores, key : Dbts, data : Dbts, pkey : Dbts]

TypeOK ==
    /\ dbtype \in Types /\ threaded \in BOOLEAN
    /\ recs \in [Recno -> 0..stores]
    /\ stores \in Nat /\ last \in 0..(Size - 1) /\ handle \in Nat
    /\ call \in [Thread -> Calls]
    /\ told \in SUBSET [name : Int, rec : 1..stores]
    /\ memory \in SUBSET {"leaked", "wild"}

\* FREE_DBT is right for this DBT.
Plain(d) == ~Wild(d) /\ (d.at = "malloc" => d.flag \in {"MALLOC", "REALLOC"})

CallInv(t) ==
    LET c == call[t] IN
    /\ c.pc = "native" =>
          /\ c.op \in Methods
          /\ c.key = KeyDbt(c.op) /\ c.data = DataDbt(c.op) /\ c.pkey = PKeyDbt(c.op)
    /\ c.pc = "back" =>
          /\ Plain(c.key) /\ Plain(c.pkey)
          /\ Plain(c.data) \/ (c.op = "get_both" /\ c.data.at = "python")
          /\ c.op = "get_both" => c.pkey.at # "malloc"
          /\ c.found # 0 /\ \A n \in Recno : recs[n] = c.found => n = c.num
          /\ c.op = "consume" => \A n \in Recno : recs[n] # c.found
          /\ c.data.at = "handle" => ~threaded /\ handle = c.found

IInv ==
    /\ TypeOK
    /\ MemoryExact
    /\ \A m, n \in Recno : recs[m] = recs[n] /\ recs[m] # 0 => m = n
    /\ \A t \in Thread : CallInv(t)
    /\ ~threaded => \A t, u \in Thread : call[t].pc # "idle" /\ call[u].pc # "idle" => t = u
    /\ \A p \in told, n \in Recno : recs[n] = p.rec => p.name \in {AsLong(n), Signed(n)}
=============================================================================
