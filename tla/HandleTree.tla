----------------------------- MODULE HandleTree -----------------------------
(***************************************************************************)
(* The tree of handle wrappers kept by Module/berkeleydb.c.                *)
(*                                                                         *)
(* A Python object wraps a native Berkeley DB handle.  The extension links *)
(* the wrappers with intrusive lists, so that closing one handle closes    *)
(* what depends on it first: every wrapper but an environment sits in the  *)
(* sibling list of its owner, and a DB, a cursor or a sequence opened in a *)
(* transaction also sits in a second (..._txn) list of that transaction.   *)
(* Owners are kept alive by strong references, transactions of a handle    *)
(* are weak pointers.                                                      *)
(*                                                                         *)
(* One action is one call made by the Python program or one deallocation   *)
(* made by the interpreter.  Where the C code has no defined outcome (a    *)
(* list that reaches freed memory, a call on a native handle that is gone) *)
(* the program may crash: the model stops there.                           *)
(***************************************************************************)
EXTENDS Naturals, FiniteSets

CONSTANTS
    Obj,        \* every wrapper that may ever be allocated
    KindOf,     \* the type of each of them
    NoObj       \* NULL / Py_None

Kinds == {"env", "db", "cursor", "seq", "txn", "logc", "site"}

ASSUME ObjAssumption ==
    /\ NoObj \notin Obj
    /\ KindOf \in [Obj -> Kinds]

Env    == {o \in Obj : KindOf[o] = "env"}
DB     == {o \in Obj : KindOf[o] = "db"}
Cursor == {o \in Obj : KindOf[o] = "cursor"}
DBSeq  == {o \in Obj : KindOf[o] = "seq"}
Txn    == {o \in Obj : KindOf[o] = "txn"}
Leaf   == {o \in Obj : KindOf[o] \in {"logc", "site"}}

VARIABLES
    st,         \* the wrapper: not allocated, handle pointer set, NULL, freed
    owner,      \* the strong reference: myenvobj, mydb, env or parent_txn
    txnOf,      \* the weak reference: self->txn of a DB, cursor or sequence
    kids,       \* the children_* lists linked through sibling_next
    txnKids,    \* the children_* lists linked through sibling_next_txn
    held,       \* the wrappers the Python program has a reference to
    opened,     \* the environments, DBs and sequences opened natively
    prepared,   \* the transactions whose flag_prepare is set
    native,     \* the native handle behind the wrapper
    anc,        \* what a native transaction was begun in: environment, parents
    openIn      \* history: the transaction a DB or a sequence was opened in

vars == <<st, owner, txnOf, kids, txnKids, held, opened, prepared, native, anc,
          openIn>>

(* "torn" is a wrapper whose memory was released while its list still has it. *)
WrapperState == {"fresh", "live", "dead", "gone", "torn"}
(* "left" is a prepared transaction whose handle was dropped unresolved.      *)
NativeState == {"none", "up", "prepared", "left", "down"}

TypeOK ==
    /\ st \in [Obj -> WrapperState]
    /\ owner \in [Obj -> Obj \cup {NoObj}]
    /\ txnOf \in [Obj -> Txn \cup {NoObj}]
    /\ kids \in [Obj -> SUBSET Obj]
    /\ txnKids \in [Obj -> SUBSET (DB \cup Cursor \cup DBSeq)]
    /\ held \subseteq Obj
    /\ opened \subseteq Env \cup DB \cup DBSeq
    /\ prepared \subseteq Txn
    /\ native \in [Obj -> NativeState]
    /\ anc \in [Obj -> SUBSET Obj]
    /\ openIn \in [Obj -> Txn \cup {NoObj}]

Init ==
    /\ st = [o \in Obj |-> "fresh"]
    /\ owner = [o \in Obj |-> NoObj]
    /\ txnOf = [o \in Obj |-> NoObj]
    /\ kids = [o \in Obj |-> {}]
    /\ txnKids = [o \in Obj |-> {}]
    /\ held = {}
    /\ opened = {}
    /\ prepared = {}
    /\ native = [o \in Obj |-> "none"]
    /\ anc = [o \in Obj |-> {}]
    /\ openIn = [o \in Obj |-> NoObj]

-----------------------------------------------------------------------------
(* What a state lets the program do.                                         *)

Live(o)   == st[o] = "live"
Allocated == {o \in Obj : st[o] \in {"live", "dead"}}

\* A wrapper whose pointer is set although the native handle is gone.
Stale(o) == Live(o) /\ native[o] = "down"

\* Nobody refers to it any more: the interpreter calls tp_dealloc at once.
Garbage == {o \in Allocated : /\ o \notin held
                              /\ \A x \in Allocated : owner[x] # o}

\* A list reaches freed memory, or an environment was destroyed under its wrapper.
Undefined ==
    \/ \E o \in Obj : st[o] = "torn"
    \/ \E o \in Obj : Live(o) /\ txnOf[o] # NoObj /\ st[txnOf[o]] = "gone"
    \/ \E e \in Env : Stale(e)

Usable(o) == o \in held /\ o \in Allocated /\ ~Stale(o)
Calm      == Garbage = {} /\ ~Undefined

-----------------------------------------------------------------------------
(* INSERT_IN_DOUBLE_LINKED_LIST and the construction of a wrapper.           *)

Wrap(o, p, t) ==
    /\ st[o] = "fresh"
    /\ st' = [st EXCEPT ![o] = "live"]
    /\ owner' = [owner EXCEPT ![o] = p]
    /\ txnOf' = [txnOf EXCEPT ![o] = t]
    /\ kids' = [x \in Obj |-> IF x = p THEN kids[x] \cup {o} ELSE kids[x]]
    /\ txnKids' = [x \in Obj |-> IF x = t THEN txnKids[x] \cup {o} ELSE txnKids[x]]
    /\ held' = held \cup {o}

(* The close_internal functions on the wrappers of S: unlink them, from the  *)
(* transaction list only when self->txn says so, and clear their handles.    *)
UnlinkOwnerOnly(S) ==       \* the ..._TXN extraction forgotten
    /\ kids' = [p \in Obj |-> kids[p] \ S]
    /\ txnOf' = [o \in Obj |-> IF o \in S THEN NoObj ELSE txnOf[o]]
    /\ UNCHANGED txnKids

UnlinkTxnOnly(S) ==         \* the extraction from the owner's list forgotten
    /\ txnKids' = [t \in Obj |-> {x \in txnKids[t] : ~(x \in S /\ txnOf[x] = t)}]
    /\ txnOf' = [o \in Obj |-> IF o \in S THEN NoObj ELSE txnOf[o]]
    /\ UNCHANGED kids

Unlink(S) ==
    /\ kids' = [p \in Obj |-> kids[p] \ S]
    /\ txnKids' = [t \in Obj |-> {x \in txnKids[t] : ~(x \in S /\ txnOf[x] = t)}]
    /\ txnOf' = [o \in Obj |-> IF o \in S THEN NoObj ELSE txnOf[o]]

Forget(S) == [o \in Obj |-> IF o \in S /\ Live(o) THEN "dead" ELSE st[o]]

(* Native side: R are the transactions resolved by the call, L those left    *)
(* alone, S the other handles closed.  Resolving takes the children along.   *)
Taken(S, R) == (S \ Txn) \cup R \cup
    {o \in Obj : native[o] = "up" /\ anc[o] \cap (R \cup (S \cap Env)) # {}}

Release(S, R, L) ==
    [o \in Obj |-> IF o \in Taken(S, R) THEN "down"
                   ELSE IF o \in L THEN "left" ELSE native[o]]

CloseAll(S, R, L) ==
    /\ Unlink(S)
    /\ st' = Forget(S)
    /\ native' = Release(S, R, L)

(* DB_close_internal on each DB of D: its cursors and sequences go first.    *)
DBCascadeFaulty(D) == D     \* the loops over the children forgotten
DBCascade(D) == D \cup UNION {kids[d] : d \in D}

(* DBTxn_abort_discard_internal on each transaction of T: the cursors, the   *)
(* sequences and the DBs of its lists; children_txns is not looked at.       *)
EnclosedFaulty(T) == UNION {txnKids[t] \ DB : t \in T}      \* children_dbs forgotten
Enclosed(T) == UNION {txnKids[t] : t \in T}
TxnCascade(T) == T \cup Enclosed(T) \cup DBCascade(Enclosed(T) \cap DB)

(* DBEnv_close_internal: nothing unless DBEnv.open succeeded once.           *)
EnvCascadeNoTxns(e) ==      \* the loop over children_txns forgotten
    IF e \notin opened THEN {}
    ELSE {e} \cup DBCascade(kids[e] \cap DB) \cup (kids[e] \cap Leaf)

EnvCascadeNoLeaves(e) ==    \* the loops over log cursors and sites forgotten
    IF e \notin opened THEN {}
    ELSE {e} \cup TxnCascade(kids[e] \cap Txn) \cup DBCascade(kids[e] \cap DB)

EnvCascade(e) ==
    IF e \notin opened THEN {}
    ELSE {e} \cup TxnCascade(kids[e] \cap Txn) \cup DBCascade(kids[e] \cap DB)
             \cup (kids[e] \cap Leaf)

(* The transactions whose flag_prepare keeps a close from aborting them.     *)
ResolvedAll(T) == T                     \* flag_prepare not looked at
ResolvedInverted(T) == T \cap prepared  \* the test on flag_prepare inverted
Resolved(T) == T \ prepared
Kept(T)     == T \cap prepared

-----------------------------------------------------------------------------
(* Environments.                                                             *)

EnvNew(e) ==
    /\ Calm
    /\ e \in Env
    /\ Wrap(e, NoObj, NoObj)
    /\ native' = [native EXCEPT ![e] = "up"]
    /\ UNCHANGED <<opened, prepared, anc, openIn>>

EnvOpen(e) ==
    /\ Calm /\ e \in Env /\ Usable(e) /\ Live(e)
    /\ e \notin opened          \* natively an error otherwise
    /\ opened' = opened \cup {e}
    /\ UNCHANGED <<st, owner, txnOf, kids, txnKids, held, prepared, native, anc, openIn>>

EnvClose(e) ==
    LET S == EnvCascade(e)
        T == S \cap Txn
    IN  /\ Calm /\ e \in Env /\ Usable(e) /\ Live(e)
        /\ CloseAll(S, Resolved(T), Kept(T))
        /\ UNCHANGED <<owner, held, opened, prepared, anc, openIn>>

\* DBEnv.remove: close_internal without the native close, then the native
\* remove, which destroys the handle whatever close_internal did.
EnvRemove(e) ==
    LET S == EnvCascade(e)
        T == S \cap Txn
    IN  /\ Calm /\ e \in Env /\ Usable(e) /\ Live(e)
        /\ Unlink(S)
        /\ st' = Forget(S)
        /\ native' = Release(S \cup {e}, Resolved(T), Kept(T))
        /\ UNCHANGED <<owner, held, opened, prepared, anc, openIn>>

-----------------------------------------------------------------------------
(* Databases.                                                                *)

\* DB(dbEnv): there is no check that the environment is still open.
DBNew(d, e) ==
    /\ Calm /\ d \in DB
    /\ e = NoObj \/ (e \in Env /\ Usable(e))
    /\ Wrap(d, e, NoObj)
    /\ native' = [native EXCEPT ![d] = "up"]
    /\ UNCHANGED <<opened, prepared, anc, openIn>>

\* db_create fails: the wrapper is released, the list of the environment keeps it.
DBNewFails(d, e) ==
    /\ Calm /\ d \in DB /\ e \in Env /\ Usable(e)
    /\ st[d] = "fresh"
    /\ st' = [st EXCEPT ![d] = "torn"]
    /\ kids' = [kids EXCEPT ![e] = @ \cup {d}]
    /\ UNCHANGED <<owner, txnOf, txnKids, held, opened, prepared, native, anc, openIn>>

\* A transaction argument: checkTxnObj takes NULL from a resolved DBTxn.
TxnArg(t) == t = NoObj \/ (t \in Txn /\ Usable(t))
Effective(t) == IF t # NoObj /\ Live(t) THEN t ELSE NoObj

\* Natively a handle and its transaction must belong to one environment.
Joins(d, t) == t # NoObj => owner[d] \in anc[t] /\ native[t] = "up"

DBOpen(d, t) ==
    /\ Calm /\ d \in DB /\ Usable(d) /\ Live(d) /\ TxnArg(t)
    /\ d \notin opened
    /\ owner[d] # NoObj => owner[d] \in opened
    /\ Joins(d, Effective(t))
    /\ txnOf' = [txnOf EXCEPT ![d] = Effective(t)]
    /\ txnKids' = [x \in Obj |-> IF x = Effective(t) THEN txnKids[x] \cup {d}
                                                     ELSE txnKids[x]]
    /\ opened' = opened \cup {d}
    /\ openIn' = [openIn EXCEPT ![d] = Effective(t)]
    /\ UNCHANGED <<st, owner, kids, held, prepared, native, anc>>

\* DB.close; also DB.open when the native open fails, and DB.remove,
\* DB.rename and DB.verify, whose native call destroys the handle.
DBClose(d) ==
    /\ Calm /\ d \in DB /\ Usable(d) /\ Live(d)
    /\ CloseAll(DBCascade({d}), {}, {})
    /\ UNCHANGED <<owner, held, opened, prepared, anc, openIn>>

-----------------------------------------------------------------------------
(* Cursors, sequences, log cursors and sites.                                *)

\* DB.cursor, and DB.join with t = NoObj.  newDBCursorObject tests the DBTxn
\* object, not its handle: a cursor joins the list of a resolved transaction.
CursorNew(c, d, t) ==
    /\ Calm /\ c \in Cursor /\ d \in DB /\ Usable(d) /\ Live(d) /\ TxnArg(t)
    /\ d \in opened
    /\ Joins(d, Effective(t))
    /\ Wrap(c, d, t)
    /\ native' = [native EXCEPT ![c] = "up"]
    /\ UNCHANGED <<opened, prepared, anc, openIn>>

CursorDup(c, b) ==
    /\ Calm /\ c \in Cursor /\ b \in Cursor /\ Usable(b) /\ Live(b)
    /\ txnOf[b] # NoObj => ~Stale(txnOf[b])
    /\ Wrap(c, owner[b], txnOf[b])
    /\ native' = [native EXCEPT ![c] = "up"]
    /\ UNCHANGED <<opened, prepared, anc, openIn>>

SeqNew(s, d) ==
    /\ Calm /\ s \in DBSeq /\ d \in DB /\ Usable(d)
    /\ Live(d)                  \* not checked: db_sequence_create(NULL) crashes
    /\ Wrap(s, d, NoObj)
    /\ native' = [native EXCEPT ![s] = "up"]
    /\ UNCHANGED <<opened, prepared, anc, openIn>>

\* db_sequence_create fails: as in DBNewFails, for the list of the DB.
SeqNewFails(s, d) ==
    /\ Calm /\ s \in DBSeq /\ d \in DB /\ Usable(d) /\ Live(d)
    /\ st[s] = "fresh"
    /\ st' = [st EXCEPT ![s] = "torn"]
    /\ kids' = [kids EXCEPT ![d] = @ \cup {s}]
    /\ UNCHANGED <<owner, txnOf, txnKids, held, opened, prepared, native, anc, openIn>>

SeqOpen(s, t) ==
    /\ Calm /\ s \in DBSeq /\ Usable(s) /\ Live(s) /\ TxnArg(t)
    /\ s \notin opened /\ owner[s] \in opened
    /\ Joins(owner[s], Effective(t))
    /\ txnOf' = [txnOf EXCEPT ![s] = Effective(t)]
    /\ txnKids' = [x \in Obj |-> IF x = Effective(t) THEN txnKids[x] \cup {s}
                                                     ELSE txnKids[x]]
    /\ opened' = opened \cup {s}
    /\ openIn' = [openIn EXCEPT ![s] = Effective(t)]
    /\ UNCHANGED <<st, owner, kids, held, prepared, native, anc>>

LeafNew(l, e) ==
    /\ Calm /\ l \in Leaf /\ e \in Env /\ Usable(e) /\ Live(e)
    /\ KindOf[l] = "logc" => e \in opened
    /\ Wrap(l, e, NoObj)
    /\ native' = [native EXCEPT ![l] = "up"]
    /\ UNCHANGED <<opened, prepared, anc, openIn>>

\* DBCursor.close, DBSequence.close and .remove, DBLogCursor.close, DBSite.close.
HandleClose(o) ==
    /\ Calm /\ o \in Cursor \cup DBSeq \cup Leaf /\ Usable(o) /\ Live(o)
    /\ CloseAll({o}, {}, {})
    /\ UNCHANGED <<owner, held, opened, prepared, anc, openIn>>

-----------------------------------------------------------------------------
(* Transactions.                                                             *)

TxnBegin(t, e, p) ==
    /\ Calm /\ t \in Txn /\ e \in Env /\ Usable(e) /\ Live(e) /\ e \in opened
    /\ TxnArg(p)
    /\ Effective(p) # NoObj => e \in anc[p] /\ native[p] = "up"
    /\ LET q == IF Effective(p) = NoObj THEN e ELSE p
       IN  /\ Wrap(t, q, NoObj)
           /\ anc' = [anc EXCEPT ![t] = {q} \cup anc[q]]
    /\ native' = [native EXCEPT ![t] = "up"]
    /\ UNCHANGED <<opened, prepared, openIn>>

\* DBEnv.txn_recover: one wrapper for each prepared transaction recovery found.
TxnRecover(e, R) ==
    /\ Calm /\ e \in Env /\ Usable(e) /\ Live(e) /\ e \in opened
    /\ R # {} /\ R \subseteq {t \in Txn : st[t] = "fresh"}
    /\ st' = [o \in Obj |-> IF o \in R THEN "live" ELSE st[o]]
    /\ owner' = [o \in Obj |-> IF o \in R THEN e ELSE owner[o]]
    /\ kids' = [kids EXCEPT ![e] = @ \cup R]
    /\ anc' = [o \in Obj |-> IF o \in R THEN {e} ELSE anc[o]]
    /\ native' = [o \in Obj |-> IF o \in R THEN "prepared" ELSE native[o]]
    /\ prepared' = prepared \cup R
    /\ held' = held \cup R
    /\ UNCHANGED <<txnOf, txnKids, opened, openIn>>

\* flag_prepare is set before the native call and stays set when it fails;
\* natively only a top-level transaction can be prepared, children commit.
TxnPrepare(t, ok) ==
    /\ Calm /\ t \in Txn /\ Usable(t) /\ Live(t)
    /\ prepared' = prepared \cup {t}
    /\ \/ /\ ok /\ owner[t] \in Env /\ native[t] = "up"
          /\ native' = [Release({}, {t}, {}) EXCEPT ![t] = "prepared"]
       \/ ~ok /\ UNCHANGED native
    /\ UNCHANGED <<st, owner, txnOf, kids, txnKids, held, opened, anc, openIn>>

\* self->parent_txn, NULL in an outermost transaction.
ParentSkipped(t) == NoObj               \* promoted past the parent
Parent(t) == IF owner[t] \in Txn THEN owner[t] ELSE NoObj

\* _close_transaction_cursors comes before the test of self->txn, so that it
\* also runs on a resolved transaction; then the DBs and sequences are promoted.
TxnCommit(t) ==
    LET C == txnKids[t] \cap Cursor
        P == txnKids[t] \ C
        q == Parent(t)
        S == IF Live(t) THEN C \cup {t} ELSE C
    IN  /\ Calm /\ t \in Txn /\ Usable(t)
        /\ st' = Forget(S)
        /\ kids' = [p \in Obj |-> kids[p] \ S]
        /\ native' = Release(S, S \cap Txn, {})
        /\ IF Live(t)
           THEN /\ prepared' = prepared \ {t}
                /\ txnOf' = [o \in Obj |-> IF o \in C THEN NoObj
                                           ELSE IF o \in P THEN q ELSE txnOf[o]]
                /\ txnKids' = [x \in Obj |-> IF x = t THEN {}
                                             ELSE IF x = q THEN txnKids[x] \cup P
                                             ELSE txnKids[x]]
           ELSE /\ UNCHANGED prepared
                /\ txnOf' = [o \in Obj |-> IF o \in C THEN NoObj ELSE txnOf[o]]
                /\ txnKids' = [txnKids EXCEPT ![t] = P]
        /\ UNCHANGED <<owner, held, opened, anc, openIn>>

\* The test of self->txn forgotten.
TxnAbortFaulty(t) ==
    LET S == TxnCascade({t})
    IN  /\ Calm /\ t \in Txn /\ Usable(t)
        /\ CloseAll(S, S \cap Txn, {})
        /\ prepared' = prepared \ {t}
        /\ UNCHANGED <<owner, held, opened, anc, openIn>>

\* DBTxn.abort, and DBTxn.discard of a prepared transaction: both clear
\* flag_prepare first, and natively both consume the handle.
TxnAbort(t) ==
    LET S == IF Live(t) THEN TxnCascade({t}) ELSE txnKids[t] \cap Cursor
    IN  /\ Calm /\ t \in Txn /\ Usable(t)
        /\ CloseAll(S, S \cap Txn, {})
        /\ prepared' = prepared \ {t}
        /\ UNCHANGED <<owner, held, opened, anc, openIn>>

-----------------------------------------------------------------------------
(* The interpreter: a reference is dropped, tp_dealloc runs.                 *)

DropRef(o) ==
    /\ Calm /\ o \in held
    /\ held' = held \ {o}
    /\ UNCHANGED <<st, owner, txnOf, kids, txnKids, opened, prepared, native, anc, openIn>>

OwnCascade(o) == IF o \in Env THEN EnvCascade(o)
                 ELSE IF o \in DB THEN DBCascade({o})
                 ELSE IF o \in Txn THEN TxnCascade({o}) ELSE {o}

Freed(o, S) == [Forget(S) EXCEPT ![o] = "gone"]

\* The *_dealloc functions: close_internal when the pointer is set (abort for a
\* transaction, unless flag_prepare), then the reference to the owner goes.
Dealloc(o) ==
    LET C == IF Live(o) THEN OwnCascade(o) ELSE {}
        T == C \cap Txn
    IN  /\ ~Undefined /\ o \in Garbage /\ ~Stale(o)
        /\ Unlink(C)
        /\ st' = Freed(o, C)
        /\ native' = Release(C, Resolved(T), Kept(T))
        /\ owner' = [owner EXCEPT ![o] = NoObj]
        /\ UNCHANGED <<held, opened, prepared, anc, openIn>>

-----------------------------------------------------------------------------
Next ==
    \/ \E e \in Env : EnvNew(e) \/ EnvOpen(e) \/ EnvClose(e) \/ EnvRemove(e)
    \/ \E d \in DB, e \in Env \cup {NoObj} : DBNew(d, e)
    \/ \E d \in DB, e \in Env : DBNewFails(d, e)
    \/ \E d \in DB, t \in Txn \cup {NoObj} : DBOpen(d, t)
    \/ \E d \in DB : DBClose(d)
    \/ \E c \in Cursor, d \in DB, t \in Txn \cup {NoObj} : CursorNew(c, d, t)
    \/ \E c, b \in Cursor : CursorDup(c, b)
    \/ \E s \in DBSeq, d \in DB : SeqNew(s, d) \/ SeqNewFails(s, d)
    \/ \E s \in DBSeq, t \in Txn \cup {NoObj} : SeqOpen(s, t)
    \/ \E l \in Leaf, e \in Env : LeafNew(l, e)
    \/ \E o \in Cursor \cup DBSeq \cup Leaf : HandleClose(o)
    \/ \E t \in Txn, e \in Env, p \in Txn \cup {NoObj} : TxnBegin(t, e, p)
    \/ \E e \in Env, R \in SUBSET Txn : TxnRecover(e, R)
    \/ \E t \in Txn, ok \in BOOLEAN : TxnPrepare(t, ok)
    \/ \E t \in Txn : TxnCommit(t) \/ TxnAbort(t)
    \/ \E o \in Obj : DropRef(o) \/ Dealloc(o)

Spec == Init /\ [][Next]_vars
-----------------------------------------------------------------------------
(* Invariants.                                                               *)

(* The primary sibling lists hold exactly the wrappers whose handle is set,  *)
(* each in the list of its owner: no close, promotion or failure loses a     *)
(* wrapper or leaves a closed one behind (a wrapper torn by a failed         *)
(* construction apart).                                                      *)
SiblingLists ==
    \A p, o \in Obj : (o \in kids[p] /\ st[o] # "torn") <=> (Live(o) /\ owner[o] = p)

(* The second list of a transaction holds exactly the open DBs, cursors and  *)
(* sequences whose weak txn pointer designates it.                           *)
TxnLists ==
    \A t, o \in Obj : o \in txnKids[t] <=> (Live(o) /\ txnOf[o] = t)

(* A cursor or a sequence is never open over a closed DB, whichever of the   *)
(* calls and deallocations closed the DB.                                    *)
ChildrenUnderOpenDB ==
    \A o \in Cursor \cup DBSeq : Live(o) => Live(owner[o])

(* A DB or a sequence never points at a resolved transaction: commit         *)
(* promoted it, abort and discard closed it.                                 *)
EnclosedUnderLiveTxn ==
    \A o \in DB \cup DBSeq : Live(o) /\ txnOf[o] # NoObj => Live(txnOf[o])

(* Strong references: the owner of an allocated wrapper is allocated, so     *)
(* that a deallocation may still reach it.                                   *)
OwnersAllocated ==
    \A o \in Allocated : owner[o] # NoObj => owner[o] \in Allocated

(* A wrapper still holds a native handle that is gone only if it is a nested *)
(* transaction resolved through its parent, or an environment destroyed by   *)
(* DBEnv.remove before any DBEnv.open.                                       *)
StaleOnlyWhereKnown ==
    \A o \in Obj : Stale(o) => \/ o \in Txn /\ owner[o] \in Txn
                               \/ o \in Env \ opened

(* No native handle outlives its wrapper, a never-opened environment apart:  *)
(* what is closed or deallocated was released natively, or was left on       *)
(* purpose because flag_prepare was set.                                     *)
NothingLeaks ==
    \A o \in Obj : st[o] \in {"dead", "gone"} =>
        \/ native[o] = "down"
        \/ native[o] = "left" /\ o \in Txn
        \/ o \in Env \ opened

(* What was opened inside a transaction stays under that transaction or one  *)
(* of its parents until the outermost one is resolved: a commit hands it to  *)
(* the parent, never past it.                                                *)
Line(o) == ({openIn[o]} \cup anc[openIn[o]]) \cap Txn

InheritedStepByStep ==
    \A o \in DB \cup DBSeq : Live(o) /\ openIn[o] # NoObj =>
        \/ txnOf[o] \in Line(o)
        \/ txnOf[o] = NoObj /\ \A t \in Line(o) : ~Live(t)

(* What the other invariants rest on: who can own whom, and that a weak txn  *)
(* pointer is only set in an open wrapper, by a successful open or cursor.   *)
Shape ==
    \A o \in Obj :
        /\ owner[o] # o
        /\ o \in Env => owner[o] = NoObj
        /\ o \in DB => owner[o] \in Env \cup {NoObj}
        /\ Live(o) /\ o \in Cursor \cup DBSeq => owner[o] \in DB
        /\ Live(o) /\ o \in Txn => owner[o] \in Env \cup Txn
        /\ Live(o) /\ o \in Leaf => owner[o] \in Env
        /\ st[o] = "fresh" => owner[o] = NoObj
        /\ txnOf[o] # NoObj => Live(o)
        /\ o \in (DB \cup DBSeq) \ opened => txnOf[o] = NoObj

TreeInv ==
    /\ Shape
    /\ SiblingLists
    /\ TxnLists
    /\ ChildrenUnderOpenDB
    /\ EnclosedUnderLiveTxn

(* The native side: where a transaction was begun, that the transactions     *)
(* below a resolved one are resolved with it, and that every other wrapper   *)
(* with a handle has a good one.                                             *)
NativeInv ==
    \A o \in Obj :
        /\ o \notin Txn => anc[o] = {}
        /\ Live(o) /\ o \in Env => native[o] \in {"up", "down"}
        /\ Live(o) /\ o \notin Txn \cup Env => native[o] = "up"
        /\ Live(o) /\ o \in opened => native[o] = "up"
        /\ Live(o) /\ o \in Txn /\ owner[o] \in Env =>
              /\ owner[o] \in opened /\ anc[o] = {owner[o]}
              /\ native[o] \in {"up", "prepared"}
              /\ native[o] = "prepared" => o \in prepared
        /\ Live(o) /\ owner[o] \in Txn =>
              /\ {owner[o]} \cup anc[owner[o]] \subseteq anc[o]
              /\ native[o] \in {"up", "down"}
              /\ ~Live(owner[o]) => native[o] = "down"

IInv == TreeInv /\ NativeInv /\ NothingLeaks /\ OwnersAllocated

(* What InheritedStepByStep rests on: ancestry is transitive and was fixed   *)
(* when a transaction began, and the transactions that a DB has left behind  *)
(* on its way up are over.                                                   *)
AncestryInv ==
    \A t \in Obj :
        /\ st[t] = "fresh" => openIn[t] = NoObj
        /\ openIn[t] # NoObj => st[openIn[t]] # "fresh"
        /\ \A u \in anc[t] : st[u] # "fresh" /\ anc[u] \subseteq anc[t]
        /\ Live(t) /\ owner[t] \in Txn => anc[t] = {owner[t]} \cup anc[owner[t]]

PassedInv ==
    \A o \in DB \cup DBSeq : Live(o) /\ openIn[o] # NoObj =>
        /\ txnOf[o] \in Line(o) \cup {NoObj}
        /\ \A u \in Line(o) : Live(u) =>
              txnOf[o] # NoObj /\ u \in {txnOf[o]} \cup anc[txnOf[o]]

-----------------------------------------------------------------------------
(* Action properties.                                                        *)

(* The native handle of a transaction in the prepare or recover state is     *)
(* consumed by an explicit commit, abort or discard only, never because the  *)
(* wrapper went out of scope or its environment was closed.                  *)
PreparedResolvedExplicitly ==
    [][\A t \in Txn : native[t] = "prepared" /\ native'[t] = "down"
                         => TxnCommit(t) \/ TxnAbort(t)]_vars

(* When the wrapper of an environment gives up its handle, nothing that      *)
(* depends on it stays open: its DBs, their cursors and sequences, its       *)
(* outermost transactions with what they enclose, its log cursors and sites. *)
EnvCloseLeavesNothingOpen ==
    [][\A e \in Env : Live(e) /\ st'[e] # "live" =>
         \A o \in Obj :
            \/ owner[o] = e
            \/ owner[o] # NoObj /\ owner[o] \in DB /\ owner[owner[o]] = e
            \/ txnOf[o] # NoObj /\ Live(txnOf[o]) /\ owner[txnOf[o]] = e
            => st'[o] # "live"]_vars

(* A wrapper never comes back: once its handle pointer is cleared or its     *)
(* memory released, no later call revives it, and what was left prepared is  *)
(* not touched through it again.                                             *)
ClosedForGood ==
    [][\A o \in Obj :
         /\ st[o] \in {"dead", "gone"} => st'[o] \in {"dead", "gone"}
         /\ native[o] \in {"down", "left"} => native'[o] = native[o]]_vars
=============================================================================
