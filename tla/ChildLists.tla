----------------------------- MODULE ChildLists -----------------------------
(***************************************************************************)
(* The intrusive doubly linked lists of Module/berkeleydb.c, pointer by    *)
(* pointer: the lists of the DBs opened in each transaction.               *)
(*                                                                         *)
(* A DB points to its successor and to the pointer that points to it, so   *)
(* that it can leave a list without knowing which one.  The pointers of a  *)
(* DB that left a list keep their old values.  DB.open links, DB.close     *)
(* unlinks, the loops of commit and abort empty a whole list, one wrapper  *)
(* in each turn.                                                           *)
(***************************************************************************)
EXTENDS Naturals, FiniteSets, Sequences

CONSTANTS
    Txn,        \* the transactions
    Handle,     \* the DBs
    ParentOf,   \* the parent of each transaction
    NULL,
    MaxOpens    \* bound: the calls of DB.open the program makes on one DB

Field == Txn \cup Handle

ASSUME ListAssumption ==
    /\ Txn \cap Handle = {} /\ NULL \notin Field
    /\ ParentOf \in [Txn -> Txn \cup {NULL}]
    /\ \A t \in Txn : ParentOf[t] # t
    /\ MaxOpens \in Nat /\ IsFiniteSet(Handle)

VARIABLES
    mem,        \* children_dbs of a transaction, sibling_next_txn of a DB
    prevp,      \* sibling_prev_p_txn: the field that points to the DB
    txn,        \* self->txn
    db,         \* the DBs whose self->db is set
    opens,      \* the calls of DB.open so far
    txns,       \* the transactions whose self->txn is set
    loop        \* the list being emptied, by which call

vars == <<mem, prevp, txn, db, opens, txns, loop>>

Idle == [call |-> "none", of |-> NULL]
Loops == {Idle} \cup [call : {"commit", "abort"}, of : Txn]

TypeOK ==
    /\ mem \in [Field -> Handle \cup {NULL}]
    /\ prevp \in [Handle -> Field \cup {NULL}]
    /\ txn \in [Handle -> Txn \cup {NULL}]
    /\ db \subseteq Handle
    /\ opens \in [Handle -> Nat]
    /\ txns \subseteq Txn
    /\ loop \in Loops

Init ==
    /\ mem = [x \in Field |-> NULL]
    /\ prevp = [d \in Handle |-> NULL]
    /\ txn = [d \in Handle |-> NULL]
    /\ db = Handle
    /\ opens = [d \in Handle |-> 0]
    /\ txns = Txn
    /\ loop = Idle

-----------------------------------------------------------------------------
(* The macros, on a record of the two kinds of pointers.                     *)

Lists == [mem |-> mem, prevp |-> prevp]

InsertedFaulty(L, t, d) ==      \* the old head keeps its back pointer
    [mem   |-> [L.mem EXCEPT ![d] = L.mem[t], ![t] = d],
     prevp |-> [L.prevp EXCEPT ![d] = t]]

Inserted(L, t, d) ==
    LET m == [L.mem EXCEPT ![d] = L.mem[t], ![t] = d]
        p == [L.prevp EXCEPT ![d] = t]
    IN  [mem   |-> m,
         prevp |-> IF m[d] = NULL THEN p ELSE [p EXCEPT ![m[d]] = d]]

ExtractedFaulty(L, d) ==        \* the successor is forgotten
    [mem |-> [L.mem EXCEPT ![L.prevp[d]] = NULL], prevp |-> L.prevp]

Extracted(L, d) ==
    LET p == IF L.mem[d] = NULL THEN L.prevp
             ELSE [L.prevp EXCEPT ![L.mem[d]] = L.prevp[d]]
    IN  [mem |-> [L.mem EXCEPT ![p[d]] = L.mem[d]], prevp |-> p]

Store(L) == mem' = L.mem /\ prevp' = L.prevp

(* DB_close_internal on d, when the lists are L and self->txn is t.          *)
CloseFaulty(L, d, t) ==         \* self->txn cleared before it is tested
    /\ Store(L)
    /\ txn' = [txn EXCEPT ![d] = NULL]
    /\ db' = db \ {d}

Close(L, d, t) ==
    /\ Store(IF d \in db /\ t # NULL THEN Extracted(L, d) ELSE L)
    /\ txn' = [txn EXCEPT ![d] = IF d \in db THEN NULL ELSE t]
    /\ db' = db \ {d}

-----------------------------------------------------------------------------
(* DB.open tests self->db, not whether the DB was opened: the wrapper joins  *)
(* the list of its transaction first, and is closed when natively the open   *)
(* fails.                                                                    *)
DBOpen(d, t, ok) ==
    LET L == IF t = NULL THEN Lists ELSE Inserted(Lists, t, d)
    IN  /\ loop = Idle /\ d \in db /\ t \in txns \cup {NULL}
        /\ opens[d] < MaxOpens
        /\ opens' = [opens EXCEPT ![d] = @ + 1]
        /\ IF ok THEN Store(L) /\ txn' = [txn EXCEPT ![d] = t] /\ UNCHANGED db
           ELSE Close(L, d, t)
        /\ UNCHANGED <<txns, loop>>

DBClose(d) ==
    /\ loop = Idle /\ d \in db
    /\ Close(Lists, d, txn[d])
    /\ UNCHANGED <<opens, txns, loop>>

\* DBTxn.commit and DBTxn.abort of a transaction whose parent is unresolved.
Resolve(t, call) ==
    /\ loop = Idle /\ t \in txns
    /\ ParentOf[t] \in txns \cup {NULL}
    /\ txns' = txns \ {t}
    /\ loop' = [call |-> call, of |-> t]
    /\ UNCHANGED <<mem, prevp, txn, db, opens>>

(* One turn of _promote_transaction_dbs_and_sequences.                       *)
Promote ==
    LET t == loop.of
        d == mem[t]
        q == ParentOf[t]
        L == Extracted(Lists, d)
    IN  /\ loop.call = "commit" /\ d # NULL
        /\ Store(IF q = NULL THEN L ELSE Inserted(L, q, d))
        /\ txn' = [txn EXCEPT ![d] = q]
        /\ UNCHANGED <<db, opens, txns, loop>>

(* One turn of the loop of DBTxn_abort_discard_internal.                     *)
CloseHead ==
    LET d == mem[loop.of]
    IN  /\ loop.call = "abort" /\ d # NULL
        /\ Close(Lists, d, txn[d])
        /\ UNCHANGED <<opens, txns, loop>>

LoopEnds ==
    /\ loop # Idle /\ mem[loop.of] = NULL
    /\ loop' = Idle
    /\ UNCHANGED <<mem, prevp, txn, db, opens, txns>>

Turn == Promote \/ CloseHead \/ LoopEnds

Next ==
    \/ \E d \in Handle, t \in Txn \cup {NULL}, ok \in BOOLEAN : DBOpen(d, t, ok)
    \/ \E d \in Handle : DBClose(d)
    \/ \E t \in Txn, call \in {"commit", "abort"} : Resolve(t, call)
    \/ Turn

(* The loops run in C without a break: nothing but their own test ends them. *)
Spec == Init /\ [][Next]_vars /\ WF_vars(Turn)

-----------------------------------------------------------------------------
(* Every pointer into a list is answered: the DB a linked field points to    *)
(* points back at that field and belongs to the same transaction, and a DB   *)
(* that has a transaction is reached through its back pointer.               *)
Linked(tx, x) == x \in Txn \/ tx[x] # NULL
ListOf(tx, x) == IF x \in Txn THEN x ELSE tx[x]

WellLinkedIn(L, tx) ==
    /\ \A x \in Field : Linked(tx, x) /\ L.mem[x] # NULL =>
          /\ tx[L.mem[x]] # NULL /\ tx[L.mem[x]] = ListOf(tx, x)
          /\ L.prevp[L.mem[x]] = x
    /\ \A d \in Handle : tx[d] # NULL =>
          /\ L.prevp[d] \in Field /\ Linked(tx, L.prevp[d])
          /\ L.mem[L.prevp[d]] = d

(* The lists of the transactions are well linked, through opens, closes and  *)
(* every turn of the loops, and hold open DBs only.                          *)
WellLinked ==
    /\ WellLinkedIn(Lists, txn)
    /\ \A d \in Handle : txn[d] # NULL => d \in db

(* A commit or an abort empties its list and returns.                        *)
ResolveEnds == loop # Idle ~> loop = Idle

(* The DBs reached from the head of t, in order.                             *)
Chain(t) ==
    LET at[n \in 0 .. Cardinality(Handle)] ==
            IF n = 0 THEN mem[t] ELSE IF at[n - 1] = NULL THEN NULL ELSE mem[at[n - 1]]
        len == Cardinality({n \in DOMAIN at : at[n] # NULL})
    IN  [i \in 1 .. len |-> at[i - 1]]

(* What the pointers promise: one sequence of DBs for each transaction.      *)
Queues == INSTANCE TxnQueues WITH list <- [t \in Txn |-> Chain(t)]
ImplementsQueues == Queues!Spec

(* The pointers m, read from x on, give the sequence s: no DB twice, each    *)
(* field points to the next DB and the last one to none.                     *)
Gives(m, x, s) ==
    /\ \A i, j \in 1 .. Len(s) : s[i] = s[j] => i = j
    /\ m[x] = IF Len(s) = 0 THEN NULL ELSE s[1]
    /\ \A i \in 1 .. Len(s) : m[s[i]] = IF i = Len(s) THEN NULL ELSE s[i + 1]

(* The pointers m give the sequences l, those of the DBs tx says.            *)
GivesAll(m, tx, l) ==
    \A t \in Txn : /\ Gives(m, t, l[t])
                   /\ \A d \in Handle : tx[d] = t <=> \E i \in 1 .. Len(l[t]) : l[t][i] = d
=============================================================================
