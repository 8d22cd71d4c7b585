----------------------------- MODULE GilWindows -----------------------------
(***************************************************************************)
(* The close functions of Module/berkeleydb.c run by several threads.      *)
(*                                                                         *)
(* A thread runs the C code under the interpreter lock and releases it     *)
(* around every native call (MYDB_BEGIN_ALLOW_THREADS).  The functions     *)
(* call one another, so that a thread has a stack; what one of them read   *)
(* before a window may be out of date after it.                            *)
(*                                                                         *)
(* A frame is at "start", at the "test" of a pointer, in a loop, at        *)
(* "native" (lock released, native call running), or at "back" (call done, *)
(* waiting for the lock).  Every step but those two needs the lock.  The   *)
(* program starts with an open environment, transactions, and DBs that may *)
(* be open in one of them; sequences (lists like those of the cursors of a *)
(* DB and of the DBs of a transaction) and nesting are in HandleTree.      *)
(***************************************************************************)
EXTENDS Naturals, Sequences, FiniteSets

CONSTANTS
    Thread,
    Env, Txn, DB, Cursor,   \* Env is one handle, the others are sets
    None,                   \* no thread, no transaction
    OpenedIn,               \* the transaction each DB was opened in
    May,                    \* the calls each thread makes, in any order
    Alone                   \* those the program makes when no other is running

Handle == {Env} \cup Txn \cup DB \cup Cursor

\* A call: the function, its handle; for DB.cursor the DB and the transaction.
CallOf(fn, h) == [fn |-> fn, h |-> h, db |-> None, txn |-> None]
Call == [fn : {"env"}, h : {Env}, db : {None}, txn : {None}]
    \cup [fn : {"commit", "abort"}, h : Txn, db : {None}, txn : {None}]
    \cup [fn : {"db"}, h : DB, db : {None}, txn : {None}]
    \cup [fn : {"cursor"}, h : Cursor, db : {None}, txn : {None}]
    \cup [fn : {"newcursor"}, h : Cursor, db : DB, txn : Txn \cup {None}]

ASSUME CallAssumption ==
    /\ OpenedIn \in [DB -> Txn \cup {None}]
    /\ May \in [Thread -> SUBSET Call]
    /\ Alone \subseteq Call
    /\ None \notin Thread \cup Handle
    /\ Env \notin Txn \cup DB \cup Cursor
    /\ Txn \cap DB = {} /\ Txn \cap Cursor = {} /\ DB \cap Cursor = {}

\* "cursors" is _close_transaction_cursors, called by commit and abort.
Frame == [call : Call \cup {CallOf("cursors", t) : t \in Txn},
          at : {"start", "test", "cursors", "dbs", "native", "back"}]

VARIABLES
    gil,        \* the thread that has the interpreter lock
    stack,      \* the frames of each thread, the innermost first
    made,       \* the calls each thread has begun
    ptr,        \* the wrappers whose handle pointer is set
    closed,     \* self->closed of the environment
    envKids,    \* children_txns and children_dbs of the environment
    dbKids,     \* children_cursors of each DB
    txnKids,    \* children_cursors and children_dbs of each transaction
    txnOf,      \* self->txn of a DB or a cursor
    dbOf,       \* self->mydb of a cursor
    lives,      \* the native handles that were created
    ends,       \* how many times each of them was closed or resolved natively
    begunIn,    \* the DB and the native transaction of a native cursor
    corrupt     \* a wrapper left a list it was not in: what C does is undefined

wrappers == <<ptr, closed, envKids, dbKids, txnKids, txnOf, dbOf>>
natives  == <<lives, ends, begunIn>>
vars     == <<gil, stack, made, wrappers, natives, corrupt>>

Init ==
    /\ gil = None
    /\ stack = [th \in Thread |-> << >>]
    /\ made = [th \in Thread |-> {}]
    /\ ptr = {Env} \cup Txn \cup DB
    /\ closed = FALSE
    /\ envKids = Txn \cup DB
    /\ dbKids = [d \in DB |-> {}]
    /\ txnKids = [t \in Txn |-> {d \in DB : OpenedIn[d] = t}]
    /\ txnOf = [o \in DB \cup Cursor |-> IF o \in DB THEN OpenedIn[o] ELSE None]
    /\ dbOf = [c \in Cursor |-> None]
    /\ lives = {Env} \cup Txn \cup DB
    /\ ends = [h \in Handle |-> 0]
    /\ begunIn = [c \in Cursor |-> <<None, None>>]
    /\ corrupt = FALSE

-----------------------------------------------------------------------------
(* Frames.                                                                   *)

Top(th) == Head(stack[th])
Runs(th, fn, at) ==
    /\ ~corrupt /\ gil = th
    /\ stack[th] # << >> /\ Top(th).call.fn \in fn /\ Top(th).at = at

Move(th, at) == stack' = [stack EXCEPT ![th] = <<[@[1] EXCEPT !.at = at]>> \o Tail(@)]

Goto(th, at) == Move(th, at) /\ UNCHANGED gil

\* MYDB_BEGIN_ALLOW_THREADS.
Window(th) == Move(th, "native") /\ gil' = None

\* A call from one function to another, which resumes at "next".
Invoke(th, fn, h, at, next) ==
    /\ stack' = [stack EXCEPT ![th] =
          <<[call |-> CallOf(fn, h), at |-> at], [@[1] EXCEPT !.at = next]>> \o Tail(@)]
    /\ UNCHANGED gil

\* Between two calls of the program another thread may run.

Return(th) ==
    /\ stack' = [stack EXCEPT ![th] = Tail(@)]
    /\ gil' = IF Len(stack[th]) = 1 THEN None ELSE gil

\* The call the program made, of a thread that is running one.
Outer(th) == stack[th][Len(stack[th])].call

Enter(th, call) ==
    /\ ~corrupt /\ gil = None /\ stack[th] = << >>
    /\ call \in May[th] \ made[th]
    /\ \A o \in Thread : stack[o] # << >> => {call, Outer(o)} \cap Alone = {}
    /\ gil' = th
    /\ stack' = [stack EXCEPT ![th] = <<[call |-> call, at |-> "start"]>>]
    /\ made' = [made EXCEPT ![th] = @ \cup {call}]
    /\ UNCHANGED <<wrappers, natives, corrupt>>

(* The native call, or the Python code that shows a warning, which runs      *)
(* without the lock.                                                         *)
Native(th) ==
    /\ ~corrupt /\ stack[th] # << >> /\ Top(th).at = "native"
    /\ Move(th, "back")
    /\ LET call == Top(th).call
       IN  CASE call.fn = "newcursor" -> lives' = lives \cup {call.h} /\ UNCHANGED ends
             [] call.fn = "cursors" -> UNCHANGED <<lives, ends>>
             [] OTHER -> ends' = [ends EXCEPT ![call.h] = @ + 1] /\ UNCHANGED lives
    /\ UNCHANGED <<gil, made, wrappers, begunIn, corrupt>>

Regain(th) ==
    /\ ~corrupt /\ gil = None /\ stack[th] # << >> /\ Top(th).at = "back"
    /\ gil' = th
    /\ UNCHANGED <<stack, made, wrappers, natives, corrupt>>

-----------------------------------------------------------------------------
(* Leaving the lists: the ..._TXN extraction depends on self->txn.           *)

ExtractFaulty(o) ==         \* self->txn cleared first
    LET in == IF o \in DB THEN o \in envKids ELSE o \in dbKids[dbOf[o]]
    IN  /\ corrupt' = ~in
        /\ IF o \in DB THEN envKids' = envKids \ {o} /\ UNCHANGED dbKids
           ELSE dbKids' = [dbKids EXCEPT ![dbOf[o]] = @ \ {o}] /\ UNCHANGED envKids
        /\ UNCHANGED txnKids
        /\ txnOf' = [txnOf EXCEPT ![o] = None]

Extract(o) ==
    LET t == txnOf[o]
        in == IF o \in DB THEN o \in envKids ELSE o \in dbKids[dbOf[o]]
    IN  /\ corrupt' = ~(in /\ (t = None \/ o \in txnKids[t]))
        /\ IF o \in DB THEN envKids' = envKids \ {o} /\ UNCHANGED dbKids
           ELSE dbKids' = [dbKids EXCEPT ![dbOf[o]] = @ \ {o}] /\ UNCHANGED envKids
        /\ txnKids' = IF t = None THEN txnKids ELSE [txnKids EXCEPT ![t] = @ \ {o}]
        /\ txnOf' = [txnOf EXCEPT ![o] = None]

(* DBC_close_internal.                                                       *)
CursorStart(th) ==
    LET c == Top(th).call.h
    IN  /\ Runs(th, {"cursor"}, "start")
        /\ IF c \in ptr THEN Extract(c) /\ Window(th)
           ELSE Return(th) /\ UNCHANGED <<envKids, dbKids, txnKids, txnOf, corrupt>>
        /\ UNCHANGED <<made, ptr, closed, dbOf, natives>>

\* The pointer is cleared: a cursor, a DB, and the environment.
ClearPointerFaulty(th) ==   \* a DB keeps its pointer
    /\ Runs(th, {"cursor", "db", "env"}, "back")
    /\ ptr' = ptr \ ({Top(th).call.h} \ DB)
    /\ Return(th)
    /\ UNCHANGED <<made, closed, envKids, dbKids, txnKids, txnOf, dbOf, natives, corrupt>>

ClearPointer(th) ==
    /\ Runs(th, {"cursor", "db", "env"}, "back")
    /\ ptr' = ptr \ {Top(th).call.h}
    /\ Return(th)
    /\ UNCHANGED <<made, closed, envKids, dbKids, txnKids, txnOf, dbOf, natives, corrupt>>

(* DB_close_internal.                                                        *)
DBStart(th) ==
    LET d == Top(th).call.h
    IN  /\ Runs(th, {"db"}, "start")
        /\ IF d \in ptr THEN Extract(d) /\ Goto(th, "cursors")
           ELSE Return(th) /\ UNCHANGED <<envKids, dbKids, txnKids, txnOf, corrupt>>
        /\ UNCHANGED <<made, ptr, closed, dbOf, natives>>

DBCursorsFaulty(th) ==      \* the first cursor only
    LET kids == dbKids[Top(th).call.h]
    IN  /\ Runs(th, {"db"}, "cursors")
        /\ IF Cardinality(kids) > 1 THEN \E c \in kids : Invoke(th, "cursor", c, "start", "cursors")
           ELSE Window(th)
        /\ UNCHANGED <<made, wrappers, natives, corrupt>>

DBCursors(th) ==
    LET kids == dbKids[Top(th).call.h]
    IN  /\ Runs(th, {"db"}, "cursors")
        /\ \/ \E c \in kids : Invoke(th, "cursor", c, "start", "cursors")
           \/ kids = {} /\ Window(th)
        /\ UNCHANGED <<made, wrappers, natives, corrupt>>

(* _close_transaction_cursors: the list is read again after the warning.     *)
WarnCursors(th) ==
    /\ Runs(th, {"cursors"}, "start")
    /\ IF txnKids[Top(th).call.h] \cap Cursor = {} THEN Return(th) ELSE Window(th)
    /\ UNCHANGED <<made, wrappers, natives, corrupt>>

CloseFirst(th) ==
    LET kids == txnKids[Top(th).call.h] \cap Cursor
    IN  /\ Runs(th, {"cursors"}, "back")
        /\ corrupt' = (kids = {})
        /\ IF kids = {} THEN Goto(th, "start")
           ELSE \E c \in kids : Invoke(th, "cursor", c, "start", "start")
        /\ UNCHANGED <<made, wrappers, natives>>

(* The call commit and abort begin with; the abort inside closes of the      *)
(* environment starts at its "test".                                         *)
TxnCursors(th) ==
    /\ Runs(th, {"commit", "abort"}, "start")
    /\ Invoke(th, "cursors", Top(th).call.h, "start", "test")
    /\ UNCHANGED <<made, wrappers, natives, corrupt>>

(* The test of self->txn, which is cleared at once.  Abort then empties the  *)
(* lists, commit leaves the list of its environment.                         *)

TakeTxn(th) ==
    LET t == Top(th).call.h
        commits == Top(th).call.fn = "commit"
    IN  /\ Runs(th, {"commit", "abort"}, "test")
        /\ IF t \notin ptr THEN Return(th) /\ UNCHANGED <<ptr, envKids>>
           ELSE /\ ptr' = ptr \ {t}
                /\ IF commits THEN Window(th) ELSE Invoke(th, "cursors", t, "start", "dbs")
                /\ envKids' = IF commits THEN envKids \ {t} ELSE envKids
        /\ UNCHANGED <<made, closed, dbKids, txnKids, txnOf, dbOf, natives, corrupt>>

AbortListsFaulty(th) ==     \* the list of the environment is not left
    LET t == Top(th).call.h
    IN  /\ Runs(th, {"abort"}, "dbs")
        /\ \/ \E d \in txnKids[t] \cap DB : Invoke(th, "db", d, "start", "dbs")
           \/ txnKids[t] \cap DB = {} /\ Window(th)
        /\ UNCHANGED <<made, wrappers, natives, corrupt>>

AbortLists(th) ==
    LET t == Top(th).call.h
    IN  /\ Runs(th, {"abort"}, "dbs")
        /\ \/ (\E d \in txnKids[t] \cap DB : Invoke(th, "db", d, "start", "dbs")) /\ UNCHANGED envKids
           \/ txnKids[t] \cap DB = {} /\ envKids' = envKids \ {t} /\ Window(th)
        /\ UNCHANGED <<made, ptr, closed, dbKids, txnKids, txnOf, dbOf, natives, corrupt>>

(* _promote_transaction_dbs_and_sequences, for an outermost transaction.     *)
Promote(th) ==
    LET t == Top(th).call.h
        P == txnKids[t] \cap DB
    IN  /\ Runs(th, {"commit"}, "back")
        /\ txnOf' = [o \in DOMAIN txnOf |-> IF o \in P THEN None ELSE txnOf[o]]
        /\ txnKids' = [txnKids EXCEPT ![t] = @ \ P]
        /\ Return(th)
        /\ UNCHANGED <<made, ptr, closed, envKids, dbKids, dbOf, natives, corrupt>>

AbortBack(th) ==
    /\ Runs(th, {"abort"}, "back")
    /\ Return(th)
    /\ UNCHANGED <<made, wrappers, natives, corrupt>>

(* DBEnv_close_internal.                                                     *)
EnvStart(th) ==
    /\ Runs(th, {"env"}, "start")
    /\ IF closed THEN Return(th) ELSE Goto(th, "test")
    /\ UNCHANGED <<made, wrappers, natives, corrupt>>

EnvTxns(th) ==
    /\ Runs(th, {"env"}, "test")
    /\ \/ \E t \in envKids \cap Txn : Invoke(th, "abort", t, "test", "test")
       \/ envKids \cap Txn = {} /\ Goto(th, "dbs")
    /\ UNCHANGED <<made, wrappers, natives, corrupt>>

EnvDBs(th) ==
    /\ Runs(th, {"env"}, "dbs")
    /\ \/ (\E d \in envKids \cap DB : Invoke(th, "db", d, "start", "dbs")) /\ UNCHANGED closed
       \/ /\ envKids \cap DB = {}
          /\ closed' = TRUE
          /\ IF Env \in ptr THEN Window(th) ELSE Return(th)
    /\ UNCHANGED <<made, ptr, envKids, dbKids, txnKids, txnOf, dbOf, natives, corrupt>>

(* DB.cursor: the DB and the transaction are tested before the window.       *)
CursorBegin(th) ==
    LET call == Top(th).call
        t == IF call.txn \in ptr THEN call.txn ELSE None
    IN  /\ Runs(th, {"newcursor"}, "start")
        /\ IF call.db \in ptr
           THEN Window(th) /\ begunIn' = [begunIn EXCEPT ![call.h] = <<call.db, t>>]
           ELSE Return(th) /\ UNCHANGED begunIn
        /\ UNCHANGED <<made, wrappers, lives, ends, corrupt>>

CursorLink(th) ==
    LET call == Top(th).call
        c == call.h
    IN  /\ Runs(th, {"newcursor"}, "back")
        /\ ptr' = ptr \cup {c}
        /\ dbOf' = [dbOf EXCEPT ![c] = call.db]
        /\ dbKids' = [dbKids EXCEPT ![call.db] = @ \cup {c}]
        /\ txnOf' = [txnOf EXCEPT ![c] = call.txn]
        /\ txnKids' = IF call.txn = None THEN txnKids
                      ELSE [txnKids EXCEPT ![call.txn] = @ \cup {c}]
        /\ Return(th)
        /\ UNCHANGED <<made, closed, envKids, natives, corrupt>>

Step(th) ==
    \/ Native(th) \/ Regain(th)
    \/ CursorStart(th) \/ ClearPointer(th)
    \/ DBStart(th) \/ DBCursors(th)
    \/ WarnCursors(th) \/ CloseFirst(th)
    \/ TxnCursors(th) \/ TakeTxn(th) \/ AbortLists(th) \/ Promote(th) \/ AbortBack(th)
    \/ EnvStart(th) \/ EnvTxns(th) \/ EnvDBs(th)
    \/ CursorBegin(th) \/ CursorLink(th)

Next == \E th \in Thread : Step(th) \/ \E call \in May[th] : Enter(th, call)

(* A native call returns and a thread that waits for the lock gets it.       *)
Spec == Init /\ [][Next]_vars /\ \A th \in Thread : WF_vars(Step(th))

-----------------------------------------------------------------------------
(* Properties.                                                               *)

\* A native handle that was made and not closed or resolved.
Open(h) == h \in lives /\ ends[h] = 0

(* No environment is closed twice, however its close calls overlap ("Don't   *)
(* close more than once", DBEnv_close_internal).                             *)
EnvClosedOnce == ends[Env] <= 1

(* No wrapper leaves a list it is not in and no native handle is closed or   *)
(* resolved twice, although cascades of two threads walk and change the same *)
(* lists and both commit and abort one transaction (each takes self->txn and *)
(* clears it before it releases the lock).                                   *)
ClosedOnce == ~corrupt /\ \A h \in Handle : ends[h] <= 1

(* Berkeley DB's order: a cursor is closed before its DB and its transaction *)
(* end, an aborted transaction has no DB left, and the environment ends      *)
(* last -- also while other threads add and remove children in the windows.  *)
NativeOrder ==
    /\ \A c \in Cursor : Open(c) =>
          Open(begunIn[c][1]) /\ (begunIn[c][2] # None => Open(begunIn[c][2]))
    /\ \A o \in Txn \cup DB : Open(o) => Open(Env)
    /\ \A th \in Thread : (stack[th] # << >> /\ Top(th).at = "native" /\ Top(th).call.fn = "abort")
          => \A d \in DB : txnOf[d] = Top(th).call.h => ~Open(d)

(* When no call is running the lists are exact: each wrapper with a handle   *)
(* is in the list of its owner and of its transaction and in no other, no    *)
(* matter how the calls interleaved.                                         *)
QuietLists ==
    (\A th \in Thread : stack[th] = << >>) =>
        /\ envKids = (Txn \cup DB) \cap ptr
        /\ \A d \in DB : dbKids[d] = {c \in Cursor \cap ptr : dbOf[c] = d}
        /\ \A t \in Txn : txnKids[t] = {o \in (DB \cup Cursor) \cap ptr : txnOf[o] = t}

(* Every call returns: the loops of the close functions end although other   *)
(* threads work on the same lists in their windows.                          *)
CallsReturn == \A th \in Thread : (stack[th] # << >>) ~> (stack[th] = << >>)
-----------------------------------------------------------------------------
(* The discipline of a program for which the theorems of GilWindows_proofs   *)
(* hold: what Berkeley DB asks of threads that share its handles.            *)

\* The cursors that the program makes with one of the handles of S.
Using(S) == {c \in Cursor : \E th \in Thread : \E n \in May[th] :
                n.fn = "newcursor" /\ n.h = c /\ {n.db, n.txn} \cap S # {}}

\* What a call may close, and what it only needs to be open.
Reach(call) ==
    LET S == {call.h} \cup {d \in DB : OpenedIn[d] = call.h}
    IN  IF call.fn = "env" THEN Handle ELSE S \cup Using(S)
Needs(call) == {call.db, call.txn} \ {None}

\* Transactions in which nothing is opened.
Bare == {t \in Txn : Using({t}) = {} /\ \A d \in DB : OpenedIn[d] # t}

(* The environment is closed when nothing else runs, each cursor is made     *)
(* once, and what one thread may close another neither closes nor needs,     *)
(* except that several may commit or abort one bare transaction.             *)
Orderly ==
    /\ \A th \in Thread : \A a \in May[th] : a.fn = "env" => a \in Alone
    /\ \A th, u \in Thread : \A a \in May[th], b \in May[u] :
          a.fn = "newcursor" /\ b.fn = "newcursor" /\ a.h = b.h => th = u /\ a = b
    /\ \A th, u \in Thread : th # u =>
          \A a \in May[th] \ Alone, b \in May[u] \ Alone :
             Reach(a) \cap Reach(b) \subseteq Bare /\ Needs(a) \cap Reach(b) = {}

-----------------------------------------------------------------------------
(* The inductive invariant.                                                  *)

TypeOK ==
    /\ gil \in Thread \cup {None}
    /\ stack \in [Thread -> Seq(Frame)]
    /\ made \in [Thread -> SUBSET Call]
    /\ ptr \subseteq Handle /\ lives \subseteq Handle
    /\ closed \in BOOLEAN /\ corrupt \in BOOLEAN
    /\ envKids \subseteq Txn \cup DB
    /\ dbKids \in [DB -> SUBSET Cursor]
    /\ txnKids \in [Txn -> SUBSET (DB \cup Cursor)]
    /\ txnOf \in [DB \cup Cursor -> Txn \cup {None}]
    /\ dbOf \in [Cursor -> DB \cup {None}]
    /\ ends \in [Handle -> Nat]
    /\ begunIn \in [Cursor -> (DB \cup {None}) \X (Txn \cup {None})]

\* Where the function fn called on h is in the stack s, if it is there.
PosIn(s, fn, h) ==
    LET I == {i \in 1 .. Len(s) : s[i].call.fn = fn /\ s[i].call.h = h}
    IN  IF I = {} THEN "none" ELSE s[CHOOSE i \in I : TRUE].at
At(th, fn, h) == PosIn(stack[th], fn, h)

Running(th) == stack[th] # << >>

\* Functions call those of a lower rank; DB.cursor calls none of them.
Rank(fn) == CASE fn = "cursor" -> 1 [] fn \in {"db", "cursors"} -> 2
              [] fn \in {"commit", "abort", "newcursor"} -> 3 [] OTHER -> 4
Ordered(s) ==
    \A i, j \in 1 .. Len(s) : i < j =>
        /\ Rank(s[i].call.fn) < Rank(s[j].call.fn)
        /\ "newcursor" \notin {s[i].call.fn, s[j].call.fn}

\* The functions that a call has called work on what it reaches.
StackInv ==
    \A th \in Thread :
        /\ Ordered(stack[th])
        /\ Running(th) => Outer(th) \in made[th]
        /\ \A i \in 1 .. Len(stack[th]) : stack[th][i].call.h \in Reach(Outer(th))
        /\ made[th] \subseteq May[th]

\* Calls that run at the same time are not made alone.
AloneInv == \A th, u \in Thread : Running(th) /\ Running(u) /\ th # u => Outer(th) \notin Alone

\* A DB or a cursor that has left its lists and keeps its pointer.
CloserOf(o) == IF o \in DB THEN "db" ELSE "cursor"
Leaving(o) == \E th \in Thread : At(th, CloserOf(o), o) \in {"cursors", "native", "back"}
Ended(o) == \E th \in Thread : At(th, CloserOf(o), o) = "back"

\* Where commit or abort has taken self->txn, and the native call is not over.
TakenBy(th, t) == At(th, "abort", t) \in {"dbs", "native"} \/ At(th, "commit", t) = "native"
Taken(t) == \E th \in Thread : TakenBy(th, t)
Aborting(t) == \E th \in Thread : At(th, "abort", t) = "dbs"

\* The native cursor is made, its wrapper not yet.
Linking(c) == \E th \in Thread : At(th, "newcursor", c) = "back"

ListInv ==
    /\ \A d \in DB : d \in envKids <=> d \in ptr /\ ~Leaving(d)
    /\ \A t \in Txn : t \in envKids <=> t \in ptr \/ Aborting(t)
    /\ \A d \in DB, c \in Cursor : c \in dbKids[d] <=> c \in ptr /\ dbOf[c] = d /\ ~Leaving(c)
    /\ \A t \in Txn, o \in DB \cup Cursor : o \in txnKids[t] <=> txnOf[o] = t
    /\ \A o \in DB \cup Cursor : txnOf[o] # None => o \in ptr /\ ~Leaving(o)
    /\ \A o \in DB \cup Cursor : Leaving(o) => o \in ptr

\* A cursor and the call that made it.
MadeBy(c, n) == n.fn = "newcursor" /\ n.h = c /\ \E th \in Thread : n \in made[th]

CursorInv ==
    /\ \A d \in DB : txnOf[d] \in {None, OpenedIn[d]}
    /\ \A c \in Cursor : c \in lives \cup ptr => \E n \in Call :
          /\ MadeBy(c, n) /\ begunIn[c][1] = n.db /\ begunIn[c][2] \in {None, n.txn}
          /\ txnOf[c] \in {None, n.txn}
    /\ \A c \in Cursor : c \in ptr => dbOf[c] = begunIn[c][1]
    /\ \A c \in Cursor : c \in ptr /\ ~Leaving(c) /\ begunIn[c][2] # None => txnOf[c] = begunIn[c][2]

EndsInv ==
    /\ \A d \in DB : ends[d] = IF d \in ptr /\ ~Ended(d) THEN 0 ELSE 1
    /\ \A t \in Txn : ends[t] = IF t \in ptr \/ Taken(t) THEN 0 ELSE 1
    /\ \A c \in Cursor :
          /\ c \notin lives => c \notin ptr /\ ends[c] = 0
          /\ c \in ptr => ends[c] = IF Ended(c) THEN 1 ELSE 0
          /\ c \in lives \ ptr =>
                ends[c] = IF Linking(c) THEN 0 ELSE 1
    /\ ends[Env] \in {0, 1} /\ (~closed => ends[Env] = 0)
    /\ {Env} \cup Txn \cup DB \subseteq lives

\* No cursor that was begun in h is open.
NoCursorIn(h) == \A c \in Cursor : h \in {begunIn[c][1], begunIn[c][2]} => ~Open(c)

TxnInv(th, t) ==
    /\ TakenBy(th, t) => t \notin ptr /\ \A u \in Thread : TakenBy(u, t) => u = th
    /\ At(th, "abort", t) = "dbs" \/ At(th, "commit", t) = "test" =>
          At(th, "cursors", t) # "none" \/ NoCursorIn(t)
    /\ At(th, "abort", t) = "native" \/ At(th, "commit", t) = "native" => NoCursorIn(t)
    /\ At(th, "abort", t) = "native" => \A d \in DB : txnOf[d] # t

\* A list of cursors that was not empty stays so until its reader goes on.
CursorsInv(th, t) ==
    At(th, "cursors", t) \in {"native", "back"} =>
        /\ \E c \in Cursor : txnOf[c] = t
        /\ \A c \in Cursor : At(th, "cursor", c) = "none"

NewInv(th, c) ==
    /\ At(th, "newcursor", c) # "none" =>
          /\ c \notin ptr /\ txnOf[c] = None
          /\ c \in lives <=> At(th, "newcursor", c) = "back"
    /\ At(th, "newcursor", c) \in {"native", "back"} =>
          /\ begunIn[c][1] = Outer(th).db /\ begunIn[c][2] \in {None, Outer(th).txn}
          /\ Open(begunIn[c][1]) /\ (begunIn[c][2] # None => Open(begunIn[c][2]))

EnvInv(th) ==
    /\ At(th, "env", Env) \in {"test", "dbs"} => ~closed
    /\ At(th, "env", Env) \in {"dbs", "native", "back"} => \A t \in Txn : ~Open(t)
    /\ At(th, "env", Env) \in {"native", "back"} => \A d \in DB : ~Open(d)
    /\ At(th, "env", Env) = "native" => closed /\ ends[Env] = 0

CloseInv(th) ==
    /\ \A d \in DB : At(th, "db", d) = "native" => NoCursorIn(d)
    /\ \A t \in Txn : TxnInv(th, t) /\ CursorsInv(th, t)
    /\ \A c \in Cursor : NewInv(th, c)
    /\ EnvInv(th)

\* What Berkeley DB's order of closes is about: the handles an open one needs.
OrderInv ==
    /\ \A c \in Cursor : Open(c) =>
          Open(begunIn[c][1]) /\ (begunIn[c][2] # None => Open(begunIn[c][2]))
    /\ \A o \in Txn \cup DB : Open(o) => Open(Env)

IInv ==
    /\ ~corrupt /\ TypeOK /\ StackInv /\ AloneInv
    /\ ListInv /\ CursorInv /\ EndsInv /\ OrderInv
    /\ \A th \in Thread : CloseInv(th)
=============================================================================
