-------------------------- MODULE HandleTree_proofs --------------------------
(* Proofs about the wrapper tree, for any number of handles of each type:    *)
(* its invariants, transactions nested to any depth, what a step never does. *)
EXTENDS HandleTree, TLAPS

(* The sets of handles are disjoint subsets of Obj, since KindOf is a        *)
(* function.                                                                 *)
LEMMA KindsDisjoint ==
    /\ Env \subseteq Obj /\ DB \subseteq Obj /\ Cursor \subseteq Obj
    /\ DBSeq \subseteq Obj /\ Txn \subseteq Obj /\ Leaf \subseteq Obj
    /\ NoObj \notin Obj
    /\ Env \cap DB = {} /\ Env \cap Txn = {} /\ DB \cap Txn = {}
    /\ (Cursor \cup DBSeq \cup Leaf) \cap (Env \cup DB \cup Txn) = {}
    /\ Cursor \cap DBSeq = {} /\ Leaf \cap (Cursor \cup DBSeq) = {}
  BY ObjAssumption DEF Env, DB, Cursor, DBSeq, Txn, Leaf

-----------------------------------------------------------------------------
(* Typing of the operators the actions are built from.                       *)

LEMMA WrapType ==
    ASSUME TypeOK, NEW o \in Obj, NEW p \in Obj \cup {NoObj},
           NEW t \in Txn \cup {NoObj}, Wrap(o, p, t),
           t # NoObj => o \in DB \cup Cursor \cup DBSeq
    PROVE  /\ st' \in [Obj -> WrapperState]
           /\ owner' \in [Obj -> Obj \cup {NoObj}]
           /\ txnOf' \in [Obj -> Txn \cup {NoObj}]
           /\ kids' \in [Obj -> SUBSET Obj]
           /\ txnKids' \in [Obj -> SUBSET (DB \cup Cursor \cup DBSeq)]
           /\ held' \subseteq Obj
  <1>1. st' \in [Obj -> WrapperState]
    BY DEF Wrap, TypeOK, WrapperState
  <1>2. owner' \in [Obj -> Obj \cup {NoObj}] /\ txnOf' \in [Obj -> Txn \cup {NoObj}]
    BY DEF Wrap, TypeOK
  <1>3. kids' \in [Obj -> SUBSET Obj] /\ held' \subseteq Obj
    BY DEF Wrap, TypeOK
  <1>4. txnKids' \in [Obj -> SUBSET (DB \cup Cursor \cup DBSeq)]
    BY KindsDisjoint DEF Wrap, TypeOK
  <1>5. QED
    BY <1>1, <1>2, <1>3, <1>4

LEMMA UnlinkType ==
    ASSUME TypeOK, NEW S, Unlink(S)
    PROVE  /\ txnOf' \in [Obj -> Txn \cup {NoObj}]
           /\ kids' \in [Obj -> SUBSET Obj]
           /\ txnKids' \in [Obj -> SUBSET (DB \cup Cursor \cup DBSeq)]
  BY DEF Unlink, TypeOK

LEMMA ForgetType ==
    ASSUME TypeOK, NEW S
    PROVE  /\ Forget(S) \in [Obj -> WrapperState]
           /\ \A o \in Obj : Freed(o, S) \in [Obj -> WrapperState]
  BY DEF Forget, Freed, TypeOK, WrapperState

LEMMA ReleaseType ==
    ASSUME TypeOK, NEW S, NEW R, NEW L
    PROVE  Release(S, R, L) \in [Obj -> NativeState]
  BY DEF Release, TypeOK, NativeState

LEMMA CloseType ==
    ASSUME TypeOK, NEW S, NEW R, NEW L, CloseAll(S, R, L)
    PROVE  /\ st' \in [Obj -> WrapperState]
           /\ txnOf' \in [Obj -> Txn \cup {NoObj}]
           /\ kids' \in [Obj -> SUBSET Obj]
           /\ txnKids' \in [Obj -> SUBSET (DB \cup Cursor \cup DBSeq)]
           /\ native' \in [Obj -> NativeState]
  BY UnlinkType, ForgetType, ReleaseType DEF CloseAll

-----------------------------------------------------------------------------
LEMMA TypeInit == Init => TypeOK
  BY DEF Init, TypeOK, WrapperState, NativeState

LEMMA TypeNext == TypeOK /\ [Next]_vars => TypeOK'
  <1> SUFFICES ASSUME TypeOK, [Next]_vars PROVE TypeOK'
    OBVIOUS
  <1> USE KindsDisjoint
  <1>1. ASSUME NEW e \in Env, EnvNew(e) PROVE TypeOK'
    BY <1>1, WrapType DEF EnvNew, TypeOK, NativeState
  <1>2. ASSUME NEW e \in Env, EnvOpen(e) PROVE TypeOK'
    BY <1>2 DEF EnvOpen, TypeOK
  <1>3. ASSUME NEW e \in Env, EnvClose(e) PROVE TypeOK'
    BY <1>3, CloseType DEF EnvClose, TypeOK
  <1>4. ASSUME NEW e \in Env, EnvRemove(e) PROVE TypeOK'
    BY <1>4, UnlinkType, ForgetType, ReleaseType DEF EnvRemove, TypeOK
  <1>5. ASSUME NEW d \in DB, NEW e \in Env \cup {NoObj}, DBNew(d, e) PROVE TypeOK'
    BY <1>5, WrapType DEF DBNew, TypeOK, NativeState
  <1>6. ASSUME NEW d \in DB, NEW e \in Env, DBNewFails(d, e) PROVE TypeOK'
    BY <1>6 DEF DBNewFails, TypeOK, WrapperState
  <1>7. ASSUME NEW d \in DB, NEW t \in Txn \cup {NoObj}, DBOpen(d, t) PROVE TypeOK'
    BY <1>7 DEF DBOpen, TypeOK, Effective
  <1>8. ASSUME NEW d \in DB, DBClose(d) PROVE TypeOK'
    BY <1>8, CloseType DEF DBClose, TypeOK
  <1>9. ASSUME NEW c \in Cursor, NEW d \in DB, NEW t \in Txn \cup {NoObj},
               CursorNew(c, d, t)
        PROVE  TypeOK'
    BY <1>9, WrapType DEF CursorNew, TypeOK, NativeState
  <1>10. ASSUME NEW c \in Cursor, NEW b \in Cursor, CursorDup(c, b) PROVE TypeOK'
    <2>1. owner[b] \in Obj \cup {NoObj} /\ txnOf[b] \in Txn \cup {NoObj}
      BY DEF TypeOK
    <2>2. QED
      BY <1>10, <2>1, WrapType DEF CursorDup, TypeOK, NativeState
  <1>11. ASSUME NEW s \in DBSeq, NEW d \in DB, SeqNew(s, d) PROVE TypeOK'
    BY <1>11, WrapType DEF SeqNew, TypeOK, NativeState
  <1>12. ASSUME NEW s \in DBSeq, NEW d \in DB, SeqNewFails(s, d) PROVE TypeOK'
    BY <1>12 DEF SeqNewFails, TypeOK, WrapperState
  <1>13. ASSUME NEW s \in DBSeq, NEW t \in Txn \cup {NoObj}, SeqOpen(s, t)
         PROVE  TypeOK'
    BY <1>13 DEF SeqOpen, TypeOK, Effective
  <1>14. ASSUME NEW l \in Leaf, NEW e \in Env, LeafNew(l, e) PROVE TypeOK'
    BY <1>14, WrapType DEF LeafNew, TypeOK, NativeState
  <1>15. ASSUME NEW o \in Cursor \cup DBSeq \cup Leaf, HandleClose(o) PROVE TypeOK'
    BY <1>15, CloseType DEF HandleClose, TypeOK
  <1>16. ASSUME NEW t \in Txn, NEW e \in Env, NEW p \in Txn \cup {NoObj},
                TxnBegin(t, e, p)
         PROVE  TypeOK'
    <2> DEFINE q == IF Effective(p) = NoObj THEN e ELSE p
    <2>1. q \in Obj
      BY DEF Effective
    <2>2. Wrap(t, q, NoObj) /\ anc' = [anc EXCEPT ![t] = {q} \cup anc[q]]
      BY <1>16 DEF TxnBegin
    <2>3. anc' \in [Obj -> SUBSET Obj]
      BY <2>1, <2>2 DEF TypeOK
    <2>4. native' \in [Obj -> NativeState]
      BY <1>16 DEF TxnBegin, TypeOK, NativeState
    <2>5. QED
      BY <1>16, <2>1, <2>2, <2>3, <2>4, WrapType DEF TxnBegin, TypeOK
  <1>17. ASSUME NEW e \in Env, NEW R \in SUBSET Txn, TxnRecover(e, R) PROVE TypeOK'
    BY <1>17 DEF TxnRecover, TypeOK, WrapperState, NativeState
  <1>18. ASSUME NEW t \in Txn, NEW ok \in BOOLEAN, TxnPrepare(t, ok) PROVE TypeOK'
    <2>1. native' \in [Obj -> NativeState]
      BY <1>18, ReleaseType DEF TxnPrepare, TypeOK, NativeState
    <2>2. QED
      BY <1>18, <2>1 DEF TxnPrepare, TypeOK
  <1>19. ASSUME NEW t \in Txn, TxnCommit(t) PROVE TypeOK'
    <2>1. st' \in [Obj -> WrapperState] /\ native' \in [Obj -> NativeState]
      BY <1>19, ForgetType, ReleaseType DEF TxnCommit
    <2>2. kids' \in [Obj -> SUBSET Obj]
      BY <1>19 DEF TxnCommit, Parent, TypeOK
    <2>3. txnOf' \in [Obj -> Txn \cup {NoObj}]
      BY <1>19 DEF TxnCommit, Parent, TypeOK
    <2>4. txnKids' \in [Obj -> SUBSET (DB \cup Cursor \cup DBSeq)]
      BY <1>19 DEF TxnCommit, Parent, TypeOK
    <2>5. prepared' \subseteq Txn
      BY <1>19 DEF TxnCommit, Parent, TypeOK
    <2>6. UNCHANGED <<owner, held, opened, anc, openIn>>
      BY <1>19 DEF TxnCommit
    <2>7. QED
      BY <2>1, <2>2, <2>3, <2>4, <2>5, <2>6 DEF TypeOK
  <1>20. ASSUME NEW t \in Txn, TxnAbort(t) PROVE TypeOK'
    BY <1>20, CloseType DEF TxnAbort, TypeOK
  <1>21. ASSUME NEW o \in Obj, DropRef(o) PROVE TypeOK'
    BY <1>21 DEF DropRef, TypeOK
  <1>22. ASSUME NEW o \in Obj, Dealloc(o) PROVE TypeOK'
    <2>1. owner' \in [Obj -> Obj \cup {NoObj}]
      BY <1>22 DEF Dealloc, TypeOK
    <2>2. QED
      BY <1>22, <2>1, UnlinkType, ForgetType, ReleaseType DEF Dealloc, TypeOK
  <1>23. CASE UNCHANGED vars
    BY <1>23 DEF vars, TypeOK
  <1>24. QED
    BY <1>1, <1>2, <1>3, <1>4, <1>5, <1>6, <1>7, <1>8, <1>9, <1>10, <1>11, <1>12,
       <1>13, <1>14, <1>15, <1>16, <1>17, <1>18, <1>19, <1>20, <1>21, <1>22, <1>23
    DEF Next

(* Type correctness: the pointers, lists and flags of every wrapper stay in  *)
(* their types through every call and deallocation.                          *)
THEOREM TypeCorrect == Spec => []TypeOK
  BY TypeInit, TypeNext, PTL DEF Spec

-----------------------------------------------------------------------------
(* The lists.  A close may take any set S of wrappers without breaking them, *)
(* provided no live wrapper outside S depends on one in S.                   *)

DownClosed(S) ==
    \A x \in Obj \ S : Live(x) =>
        /\ x \in Cursor \cup DBSeq => owner[x] \notin S
        /\ x \in DB \cup DBSeq /\ txnOf[x] # NoObj => txnOf[x] \notin S

\* S loses its handles, the rest is as it was.
Closes(S) ==
    \A o \in Obj : /\ Live(o)' <=> Live(o) /\ o \notin S
                   /\ st'[o] = "torn" <=> st[o] = "torn"
                   /\ st'[o] = "fresh" <=> st[o] = "fresh"
                   /\ o \notin S /\ Live(o) => owner'[o] = owner[o]

LEMMA ForgetCloses ==
    ASSUME TypeOK, NEW S, st' = Forget(S), UNCHANGED owner
    PROVE  Closes(S)
  BY DEF Closes, Forget, Live, TypeOK

LEMMA CloseKeepsTree ==
    ASSUME TypeOK, TreeInv, NEW S, DownClosed(S), Unlink(S), Closes(S),
           opened' = opened,
           \A o \in Obj : owner'[o] \in {owner[o], NoObj}
    PROVE  TreeInv'
  <1> USE DEF TreeInv, Closes, Unlink
  <1>1. SiblingLists'
    BY DEF SiblingLists, TypeOK
  <1>2. TxnLists'
    BY KindsDisjoint DEF TxnLists, TypeOK, Shape
  <1>3. ChildrenUnderOpenDB'
    BY KindsDisjoint DEF ChildrenUnderOpenDB, DownClosed, Shape
  <1>4. EnclosedUnderLiveTxn'
    BY KindsDisjoint DEF EnclosedUnderLiveTxn, DownClosed, TypeOK
  <1>5. Shape'
    BY KindsDisjoint DEF Shape, TypeOK
  <1>6. QED
    BY <1>1, <1>2, <1>3, <1>4, <1>5

(* The three cascades of the C code are such sets.                           *)
LEMMA DBCascadeClosed ==
    ASSUME TypeOK, TreeInv, NEW D \in SUBSET DB
    PROVE  DownClosed(DBCascade(D))
  <1> SUFFICES ASSUME NEW x \in Obj, x \notin DBCascade(D), Live(x)
               PROVE  /\ x \in Cursor \cup DBSeq => owner[x] \notin DBCascade(D)
                      /\ x \in DB \cup DBSeq /\ txnOf[x] # NoObj
                            => txnOf[x] \notin DBCascade(D)
    BY DEF DownClosed
  <1>1. ASSUME NEW d \in D, NEW y \in kids[d], Live(y)
        PROVE  y \notin DB \cup Txn
    BY <1>1, KindsDisjoint DEF TreeInv, SiblingLists, Shape, TypeOK, Live
  <1>2. ASSUME x \in Cursor \cup DBSeq PROVE owner[x] \notin DBCascade(D)
    <2>1. owner[x] \in DB /\ Live(owner[x]) /\ x \in kids[owner[x]]
      BY <1>2, KindsDisjoint
      DEF TreeInv, Shape, ChildrenUnderOpenDB, SiblingLists
    <2>2. QED
      BY <1>1, <2>1 DEF DBCascade
  <1>3. ASSUME x \in DB \cup DBSeq, txnOf[x] # NoObj PROVE txnOf[x] \notin DBCascade(D)
    <2>1. txnOf[x] \in Txn /\ Live(txnOf[x])
      BY <1>3 DEF TreeInv, EnclosedUnderLiveTxn, TypeOK
    <2>2. QED
      BY <1>1, <2>1, KindsDisjoint DEF DBCascade
  <1>4. QED
    BY <1>2, <1>3

LEMMA TxnCascadeClosed ==
    ASSUME TypeOK, TreeInv, NEW T \in SUBSET Txn
    PROVE  DownClosed(TxnCascade(T))
  <1> DEFINE E == Enclosed(T)
             S == TxnCascade(T)
  <1>1. E \subseteq DB \cup Cursor \cup DBSeq /\ S = T \cup E \cup DBCascade(E \cap DB)
    BY KindsDisjoint DEF Enclosed, TxnCascade, TypeOK
  <1>2. DownClosed(DBCascade(E \cap DB))
    BY DBCascadeClosed
  <1> SUFFICES ASSUME NEW x \in Obj, x \notin S, Live(x)
               PROVE  /\ x \in Cursor \cup DBSeq => owner[x] \notin S
                      /\ x \in DB \cup DBSeq /\ txnOf[x] # NoObj => txnOf[x] \notin S
    BY DEF DownClosed
  <1>3. ASSUME x \in Cursor \cup DBSeq PROVE owner[x] \notin S
    <2>1. owner[x] \in DB
      BY <1>3, KindsDisjoint DEF TreeInv, Shape
    <2>2. owner[x] \notin DBCascade(E \cap DB)
      BY <1>1, <1>2, <1>3 DEF DownClosed
    <2>3. owner[x] \notin E
      BY <2>1, <2>2 DEF DBCascade
    <2>4. QED
      BY <1>1, <2>1, <2>2, <2>3, KindsDisjoint
  <1>4. ASSUME x \in DB \cup DBSeq, txnOf[x] # NoObj PROVE txnOf[x] \notin S
    <2>1. txnOf[x] \in Txn /\ x \in txnKids[txnOf[x]]
      BY <1>4, KindsDisjoint DEF TreeInv, TxnLists, TypeOK
    <2>2. txnOf[x] \notin DBCascade(E \cap DB)
      BY <1>1, <1>2, <1>4 DEF DownClosed
    <2>3. txnOf[x] \notin T
      BY <1>1, <2>1 DEF Enclosed
    <2>4. QED
      BY <1>1, <2>1, <2>2, <2>3, KindsDisjoint
  <1>5. QED
    BY <1>3, <1>4

LEMMA EnvCascadeClosed ==
    ASSUME TypeOK, TreeInv, NEW e \in Env
    PROVE  DownClosed(EnvCascade(e))
  <1> DEFINE A == TxnCascade(kids[e] \cap Txn)
             B == DBCascade(kids[e] \cap DB)
  <1>1. DownClosed(A) /\ DownClosed(B)
    BY TxnCascadeClosed, DBCascadeClosed
  <1>2. CASE e \notin opened
    BY <1>2 DEF EnvCascade, DownClosed
  <1>3. CASE e \in opened
    <2>1. EnvCascade(e) = {e} \cup A \cup B \cup (kids[e] \cap Leaf)
      BY <1>3 DEF EnvCascade
    <2> HIDE DEF A, B
    <2>2. ASSUME NEW x \in Obj, x \notin EnvCascade(e), Live(x)
          PROVE  /\ x \in Cursor \cup DBSeq => owner[x] \in DB
                 /\ txnOf[x] # NoObj => txnOf[x] \in Txn
      BY <2>2, KindsDisjoint DEF TreeInv, Shape, TypeOK
    <2>3. QED
      BY <1>1, <2>1, <2>2, KindsDisjoint DEF DownClosed
  <1>4. QED
    BY <1>2, <1>3

-----------------------------------------------------------------------------
(* A new wrapper enters the list of its owner, and a cursor that of its      *)
(* transaction.                                                              *)
LEMMA WrapKeepsTree ==
    ASSUME TypeOK, TreeInv, UNCHANGED opened,
           NEW o \in Obj, NEW p \in Obj \cup {NoObj}, NEW t \in Txn \cup {NoObj},
           Wrap(o, p, t), p # o,
           o \in Env => p = NoObj,
           o \in DB => p \in Env \cup {NoObj},
           o \in Cursor \cup DBSeq => p \in DB /\ Live(p),
           o \in Txn => p \in Env \cup Txn,
           o \in Leaf => p \in Env,
           o \notin Cursor => t = NoObj
    PROVE  TreeInv'
  <1> USE KindsDisjoint DEF TreeInv, Wrap, Live
  <1>1. SiblingLists'
    BY DEF SiblingLists, TypeOK
  <1>2. TxnLists'
    BY DEF TxnLists, TypeOK
  <1>3. ChildrenUnderOpenDB'
    BY DEF ChildrenUnderOpenDB, TypeOK, Shape
  <1>4. EnclosedUnderLiveTxn'
    BY DEF EnclosedUnderLiveTxn, TypeOK
  <1>5. Shape'
    BY DEF Shape, TypeOK
  <1>6. QED
    BY <1>1, <1>2, <1>3, <1>4, <1>5

(* DB.open and DBSequence.open: x joins the list of a live transaction t.    *)
LEMMA OpenKeepsTree ==
    ASSUME TypeOK, TreeInv, NEW x \in DB \cup DBSeq, NEW t \in Txn \cup {NoObj},
           Live(x), x \notin opened, t # NoObj => Live(t),
           txnOf' = [txnOf EXCEPT ![x] = t],
           txnKids' = [y \in Obj |-> IF y = t THEN txnKids[y] \cup {x} ELSE txnKids[y]],
           opened' = opened \cup {x},
           UNCHANGED <<st, owner, kids>>
    PROVE  TreeInv'
  <1> USE KindsDisjoint DEF TreeInv, Live
  <1>1. txnOf[x] = NoObj
    BY DEF Shape
  <1>2. SiblingLists' /\ ChildrenUnderOpenDB'
    BY DEF SiblingLists, ChildrenUnderOpenDB
  <1>3. TxnLists'
    BY <1>1 DEF TxnLists, TypeOK
  <1>4. EnclosedUnderLiveTxn'
    BY DEF EnclosedUnderLiveTxn, TypeOK
  <1>5. Shape'
    BY DEF Shape, TypeOK
  <1>6. QED
    BY <1>2, <1>3, <1>4, <1>5

(* A failed construction leaves a torn wrapper in one list and nothing else. *)
LEMMA TornKeepsTree ==
    ASSUME TypeOK, TreeInv, NEW o \in DB \cup DBSeq, NEW p \in Obj,
           st[o] = "fresh",
           st' = [st EXCEPT ![o] = "torn"],
           kids' = [kids EXCEPT ![p] = @ \cup {o}],
           UNCHANGED <<owner, txnOf, txnKids, opened>>
    PROVE  TreeInv'
  <1> USE KindsDisjoint DEF TreeInv, Live
  <1>1. SiblingLists'
    BY DEF SiblingLists, TypeOK
  <1>2. TxnLists'
    BY DEF TxnLists, TypeOK
  <1>3. ChildrenUnderOpenDB' /\ EnclosedUnderLiveTxn'
    BY DEF ChildrenUnderOpenDB, EnclosedUnderLiveTxn, Shape, TypeOK
  <1>4. Shape'
    BY DEF Shape, TypeOK
  <1>5. QED
    BY <1>1, <1>2, <1>3, <1>4

(* The commit of a live transaction: its cursors close, its DBs and          *)
(* sequences move to the parent, or out of any transaction.                  *)
LEMMA CommitKeepsTree ==
    ASSUME TypeOK, TreeInv, NEW t \in Txn, TxnCommit(t), Live(t),
           owner[t] \in Txn => Live(owner[t])
    PROVE  TreeInv'
  <1> DEFINE C == txnKids[t] \cap Cursor
             P == txnKids[t] \ C
             q == Parent(t)
             S == C \cup {t}
  <1>1. /\ st' = Forget(S)
        /\ kids' = [p \in Obj |-> kids[p] \ S]
        /\ txnOf' = [o \in Obj |-> IF o \in C THEN NoObj
                                   ELSE IF o \in P THEN q ELSE txnOf[o]]
        /\ txnKids' = [x \in Obj |-> IF x = t THEN {}
                                     ELSE IF x = q THEN txnKids[x] \cup P
                                     ELSE txnKids[x]]
        /\ UNCHANGED <<owner, opened>>
    BY DEF TxnCommit, CloseAll
  <1>2. /\ txnKids[t] = P \cup C /\ P \cap C = {} /\ t \notin P \cup C
        /\ P \subseteq DB \cup DBSeq /\ C \subseteq Cursor
        /\ \A x \in P \cup C : Live(x) /\ txnOf[x] = t
        /\ q \in Txn \cup {NoObj} /\ (q # NoObj => Live(q))
    BY KindsDisjoint DEF TreeInv, TxnLists, TypeOK, Parent
  <1>21. P \subseteq opened
    BY <1>2, KindsDisjoint DEF TreeInv, Shape
  <1>22. txnOf[t] = NoObj
    BY KindsDisjoint DEF TreeInv, TxnLists, TypeOK
  <1>3. Closes(S)
    BY <1>1, ForgetCloses
  <1>4. q # t
    BY KindsDisjoint DEF TreeInv, Shape, Parent
  <1> USE KindsDisjoint DEF TreeInv, Closes
  <1> HIDE DEF C, P, q
  <1>5. SiblingLists'
    BY <1>1, <1>3 DEF SiblingLists, TypeOK
  <1>6. TxnLists'
    <2> SUFFICES ASSUME NEW y \in Obj, NEW o \in Obj
                 PROVE  o \in txnKids'[y] <=> (Live(o)' /\ txnOf'[o] = y)
      BY DEF TxnLists
    <2>1. o \in txnKids[y] <=> (Live(o) /\ txnOf[o] = y)
      BY DEF TxnLists
    <2>2. o \in P \cup C <=> (Live(o) /\ txnOf[o] = t)
      BY <1>2 DEF TxnLists
    <2>3. /\ Live(o)' <=> Live(o) /\ o \notin C /\ o # t
          /\ txnOf'[o] = IF o \in C THEN NoObj ELSE IF o \in P THEN q ELSE txnOf[o]
          /\ txnKids'[y] = IF y = t THEN {} ELSE IF y = q THEN txnKids[y] \cup P
                           ELSE txnKids[y]
      BY <1>1, <1>3
    <2>4. QED
      BY <1>2, <1>22, <1>4, <2>1, <2>2, <2>3
  <1>7. ChildrenUnderOpenDB'
    BY <1>1, <1>2, <1>3 DEF ChildrenUnderOpenDB, Shape
  <1>8. EnclosedUnderLiveTxn'
    <2> SUFFICES ASSUME NEW o \in DB \cup DBSeq, st'[o] = "live",
                        txnOf'[o] # NoObj
                 PROVE  st'[txnOf'[o]] = "live"
      BY DEF EnclosedUnderLiveTxn, Live
    <2>1. o \notin C /\ o # t /\ Live(o)
      BY <1>3 DEF Live
    <2>2. CASE o \in P
      <3>1. txnOf'[o] = q
        BY <1>1, <2>1, <2>2
      <3>2. q \in Obj /\ Live(q) /\ q \notin C /\ q # t
        BY <1>2, <1>4, <2>2, <3>1
      <3>3. QED
        BY <1>3, <3>1, <3>2 DEF Live
    <2>3. CASE o \notin P
      <3>1. txnOf'[o] = txnOf[o] /\ txnOf[o] \in Txn
        BY <1>1, <2>1, <2>3 DEF TypeOK
      <3>2. Live(txnOf[o]) /\ txnOf[o] # t
        BY <1>2, <2>1, <2>3, <3>1 DEF EnclosedUnderLiveTxn, TxnLists
      <3>3. QED
        BY <1>2, <1>3, <3>1, <3>2 DEF Live
    <2>4. QED
      BY <2>2, <2>3
  <1>9. Shape'
    <2> SUFFICES ASSUME NEW o \in Obj
                 PROVE  /\ txnOf'[o] # NoObj => Live(o)'
                        /\ o \in (DB \cup DBSeq) \ opened => txnOf'[o] = NoObj
      BY <1>1, <1>3 DEF Shape
    <2>1. /\ Live(o)' <=> Live(o) /\ o \notin C /\ o # t
          /\ txnOf'[o] = IF o \in C THEN NoObj ELSE IF o \in P THEN q ELSE txnOf[o]
      BY <1>1, <1>3
    <2>2. QED
      BY <1>2, <1>21, <1>22, <2>1 DEF Shape
  <1>10. QED
    BY <1>5, <1>6, <1>7, <1>8, <1>9

(* The deallocation of o closes C = OwnCascade(o) when o is live; o itself   *)
(* is then in no list.                                                       *)
LEMMA DeallocKeepsTree ==
    ASSUME TypeOK, TreeInv, NEW o \in Obj, Dealloc(o)
    PROVE  TreeInv'
  <1> DEFINE C == IF Live(o) THEN OwnCascade(o) ELSE {}
             S == C \cup {o}
  <1>1. /\ Unlink(C) /\ st' = Freed(o, C) /\ opened' = opened
        /\ owner' = [owner EXCEPT ![o] = NoObj]
        /\ o \in Allocated /\ \A x \in Allocated : owner[x] # o
    BY DEF Dealloc, Garbage
  <1>2. DownClosed(C)
    <2>1. ASSUME Live(o), o \notin Env \cup DB \cup Txn PROVE DownClosed({o})
      BY <2>1, KindsDisjoint DEF DownClosed, TreeInv, Shape, TypeOK
    <2>2. DownClosed({})
      BY DEF DownClosed
    <2>3. QED
      BY <2>1, <2>2, DBCascadeClosed, TxnCascadeClosed, EnvCascadeClosed DEF OwnCascade
  <1>3. o \notin C => Live(o) = FALSE \/ o \in Env
    BY DEF OwnCascade, DBCascade, TxnCascade
  <1>4. ASSUME o \notin C
        PROVE  txnOf[o] = NoObj /\ \A p \in Obj : o \notin kids[p] /\ o \notin txnKids[p]
    <2>1. st[o] # "torn"
      BY <1>1 DEF Allocated
    <2>2. CASE o \in Env
      BY <2>1, <2>2, KindsDisjoint DEF TreeInv, Shape, SiblingLists, TxnLists, TypeOK
    <2>3. CASE ~Live(o)
      BY <2>1, <2>3 DEF TreeInv, Shape, SiblingLists, TxnLists
    <2>4. QED
      BY <1>3, <1>4, <2>2, <2>3
  <1>5. Unlink(S)
    <2>1. CASE o \in C
      BY <1>1, <2>1
    <2>2. CASE o \notin C
      BY <1>1, <1>4, <2>2 DEF Unlink, TypeOK
    <2>3. QED
      BY <2>1, <2>2
  <1>6. Closes(S)
    BY <1>1 DEF Closes, Freed, Forget, Allocated, Live, TypeOK
  <1>7. DownClosed(S)
    <2> SUFFICES ASSUME NEW x \in Obj, x \notin S, Live(x)
                 PROVE  /\ x \in Cursor \cup DBSeq => owner[x] # o
                        /\ x \in DB \cup DBSeq /\ txnOf[x] # NoObj /\ o \notin C
                              => txnOf[x] # o
      BY <1>2 DEF DownClosed
    <2>1. owner[x] # o
      BY <1>1 DEF Allocated, Live
    <2>2. QED
      BY <1>3, <2>1, KindsDisjoint DEF TreeInv, EnclosedUnderLiveTxn, TypeOK
  <1>8. QED
    BY <1>1, <1>5, <1>6, <1>7, CloseKeepsTree DEF TypeOK

-----------------------------------------------------------------------------
(* The native side.  S loses its handles in the wrappers; natively the       *)
(* non-transactions of Y close, R is resolved and L left alone.              *)

LEMMA CloseKeepsNative ==
    ASSUME TypeOK, NativeInv, NEW S, NEW Y, NEW R \in SUBSET (S \cap Txn),
           NEW L \in SUBSET (S \cap Txn),
           Closes(S), native' = Release(Y, R, L), UNCHANGED <<opened, anc>>,
           \A o \in prepared \ prepared' : o \in S \/ ~Live(o),
           \A y \in Y \ Txn : y \in S \/ y \in Env \ opened,
           \A o \in Txn : Live(o) /\ owner[o] \in Y \cap Env => o \in S,
           \A o \in Obj : Live(o) /\ o \notin S /\ owner[o] \in S \cap Txn /\ Live(owner[o])
               => owner[o] \in R \/ anc[owner[o]] \cap (Y \cap Env) # {}
    PROVE  NativeInv'
  <1> SUFFICES ASSUME NEW o \in Obj, Live(o)', Live(o), o \notin S, owner'[o] = owner[o]
               PROVE  /\ o \in Env => native'[o] \in {"up", "down"}
                      /\ o \notin Txn \cup Env => native'[o] = "up"
                      /\ o \in opened => native'[o] = "up"
                      /\ o \in Txn /\ owner[o] \in Env =>
                            /\ native'[o] \in {"up", "prepared"}
                            /\ native'[o] = "prepared" => o \in prepared'
                      /\ owner[o] \in Txn =>
                            /\ native'[o] \in {"up", "down"}
                            /\ ~Live(owner[o])' => native'[o] = "down"
    BY KindsDisjoint DEF NativeInv, Closes, TypeOK
  <1> DEFINE hit == native[o] = "up" /\ anc[o] \cap (R \cup (Y \cap Env)) # {}
  <1>1. native'[o] = IF o \in Y \ Txn \/ hit THEN "down" ELSE native[o]
    BY DEF Release, Taken
  <1>2. o \notin Txn => ~hit
    BY DEF NativeInv
  <1>3. /\ o \notin Txn \cup Env => native'[o] = "up"
        /\ o \in Env => native'[o] \in {"up", "down"}
    BY <1>1, <1>2 DEF NativeInv
  <1>4. o \in opened => native'[o] = "up"
    BY <1>1, <1>2, KindsDisjoint DEF NativeInv, TypeOK
  <1>5. ASSUME o \in Txn, owner[o] \in Env
        PROVE  /\ native'[o] \in {"up", "prepared"}
               /\ native'[o] = "prepared" => o \in prepared'
    <2>1. anc[o] = {owner[o]} /\ native[o] \in {"up", "prepared"}
          /\ (native[o] = "prepared" => o \in prepared)
      BY <1>5 DEF NativeInv
    <2>2. owner[o] \notin R \cup (Y \cap Env)
      BY <1>5, KindsDisjoint
    <2>3. QED
      BY <1>1, <1>5, <2>1, <2>2
  <1>6. ASSUME owner[o] \in Txn
        PROVE  /\ native'[o] \in {"up", "down"}
               /\ ~Live(owner[o])' => native'[o] = "down"
    <2>1. /\ {owner[o]} \cup anc[owner[o]] \subseteq anc[o]
          /\ native[o] \in {"up", "down"}
          /\ ~Live(owner[o]) => native[o] = "down"
      BY <1>6 DEF NativeInv
    <2>2. ASSUME ~Live(owner[o])', Live(owner[o]) PROVE hit \/ native[o] = "down"
      <3>1. owner[o] \in S \cap Txn
        BY <1>6, <2>2, KindsDisjoint DEF Closes
      <3>2. QED
        BY <2>1, <2>2, <3>1
    <2>3. QED
      BY <1>1, <2>1, <2>2
  <1>7. QED
    BY <1>3, <1>4, <1>5, <1>6

LEMMA CloseKeepsReleased ==
    ASSUME TypeOK, NothingLeaks, NEW S, NEW Y, NEW R, NEW L \in SUBSET Txn,
           Closes(S), native' = Release(Y, R, L), UNCHANGED opened,
           \A o \in S : Live(o) => o \in Y \ Txn \/ o \in R \cup L \/ o \in Env \ opened
    PROVE  NothingLeaks'
  <1> SUFFICES ASSUME NEW o \in Obj, st'[o] \in {"dead", "gone"}
               PROVE  \/ native'[o] = "down"
                      \/ native'[o] = "left" /\ o \in Txn
                      \/ o \in Env \ opened
    BY DEF NothingLeaks
  <1>1. st[o] \in {"dead", "gone"} \/ (Live(o) /\ o \in S)
    BY DEF Closes, TypeOK, WrapperState, Live
  <1>2. native'[o] = IF o \in Taken(Y, R) THEN "down"
                     ELSE IF o \in L THEN "left" ELSE native[o]
    BY DEF Release
  <1>3. CASE st[o] \in {"dead", "gone"}
    BY <1>2, <1>3 DEF NothingLeaks
  <1>4. CASE Live(o) /\ o \in S
    BY <1>2, <1>4 DEF Taken
  <1>5. QED
    BY <1>1, <1>3, <1>4

LEMMA CloseKeepsOwners ==
    ASSUME TypeOK, OwnersAllocated, NEW S, st' = Forget(S), UNCHANGED owner
    PROVE  OwnersAllocated'
  <1>1. Allocated' = Allocated
    BY DEF Allocated, Forget, Live, TypeOK
  <1>2. QED
    BY <1>1 DEF OwnersAllocated

(* What the cascades contain, beside what they were given.                   *)
LEMMA CascadeKinds ==
    ASSUME TypeOK, TreeInv, ~Undefined
    PROVE  /\ \A D \in SUBSET DB : DBCascade(D) \subseteq DB \cup Cursor \cup DBSeq
           /\ \A T \in SUBSET Txn :
                 T \subseteq TxnCascade(T)
                 /\ TxnCascade(T) \subseteq T \cup DB \cup Cursor \cup DBSeq
           /\ \A e \in Env \ opened : EnvCascade(e) = {}
           /\ \A e \in opened \cap Env :
                 /\ e \in EnvCascade(e) /\ EnvCascade(e) \cap Env = {e}
                 /\ EnvCascade(e) \cap Txn = kids[e] \cap Txn
  <1>1. ASSUME NEW p \in Obj, NEW y \in kids[p] PROVE Live(y) /\ owner[y] = p
    BY <1>1 DEF TreeInv, SiblingLists, Undefined, TypeOK
  <1>2. ASSUME NEW D \in SUBSET DB
        PROVE  DBCascade(D) \subseteq DB \cup Cursor \cup DBSeq
    <2>1. ASSUME NEW d \in D, NEW y \in kids[d] PROVE y \in Cursor \cup DBSeq
      <3>1. Live(y) /\ owner[y] = d /\ d \in DB /\ y \in Obj
        BY <1>1, <2>1, KindsDisjoint DEF TypeOK
      <3>2. y \notin Env \cup DB \cup Txn \cup Leaf
        BY <3>1, KindsDisjoint DEF TreeInv, Shape
      <3>3. QED
        BY <3>1, <3>2, ObjAssumption DEF Env, DB, Txn, Leaf, Cursor, DBSeq, Kinds
    <2>2. QED
      BY <2>1 DEF DBCascade
  <1>3. ASSUME NEW T \in SUBSET Txn
        PROVE  /\ T \subseteq TxnCascade(T)
               /\ TxnCascade(T) \subseteq T \cup DB \cup Cursor \cup DBSeq
    <2>1. Enclosed(T) \subseteq DB \cup Cursor \cup DBSeq
      BY KindsDisjoint DEF Enclosed, TypeOK
    <2>2. QED
      BY <1>2, <2>1 DEF TxnCascade
  <1>4. ASSUME NEW e \in opened \cap Env
        PROVE  /\ e \in EnvCascade(e) /\ EnvCascade(e) \cap Env = {e}
               /\ EnvCascade(e) \cap Txn = kids[e] \cap Txn
    <2> DEFINE A == TxnCascade(kids[e] \cap Txn)
               B == DBCascade(kids[e] \cap DB)
    <2>1. /\ kids[e] \cap Txn \subseteq A
          /\ A \subseteq (kids[e] \cap Txn) \cup DB \cup Cursor \cup DBSeq
          /\ B \subseteq DB \cup Cursor \cup DBSeq
      BY <1>2, <1>3
    <2>2. EnvCascade(e) = {e} \cup A \cup B \cup (kids[e] \cap Leaf)
      BY DEF EnvCascade
    <2> HIDE DEF A, B
    <2>3. QED
      BY <2>1, <2>2, KindsDisjoint
  <1>5. QED
    BY <1>2, <1>3, <1>4 DEF EnvCascade

-----------------------------------------------------------------------------
(* The other steps on the native side.                                       *)

LEMMA WrapKeepsNative ==
    ASSUME TypeOK, TreeInv, NativeInv, NothingLeaks, OwnersAllocated,
           NEW o \in Obj, NEW p \in Obj \cup {NoObj}, NEW t \in Txn \cup {NoObj},
           Wrap(o, p, t), p # NoObj => p \in Allocated,
           native' = [native EXCEPT ![o] = "up"],
           UNCHANGED <<opened, prepared>>,
           o \notin Txn => UNCHANGED anc /\ p \notin Txn,
           o \in Txn => /\ anc' = [anc EXCEPT ![o] = {p} \cup anc[p]]
                        /\ p \in opened \cap Env \/ (p \in Txn /\ Live(p))
    PROVE  NativeInv' /\ NothingLeaks' /\ OwnersAllocated'
  <1> USE KindsDisjoint
  <1>1. /\ st[o] = "fresh" /\ st' = [st EXCEPT ![o] = "live"]
        /\ owner' = [owner EXCEPT ![o] = p]
    BY DEF Wrap
  <1>2. \A x \in Allocated : owner[x] # o
    BY <1>1 DEF OwnersAllocated, Allocated
  <1>3. Allocated' = Allocated \cup {o}
    BY <1>1 DEF Allocated, TypeOK
  <1>4. OwnersAllocated'
    <2> SUFFICES ASSUME NEW x \in Allocated \cup {o}, owner'[x] # NoObj
                 PROVE  owner'[x] \in Allocated \cup {o}
      BY <1>3 DEF OwnersAllocated
    <2>1. CASE x = o
      BY <1>1, <2>1 DEF TypeOK
    <2>2. CASE x # o
      BY <1>1, <2>2 DEF OwnersAllocated, TypeOK, Allocated
    <2>3. QED
      BY <2>1, <2>2
  <1>5. NothingLeaks'
    BY <1>1 DEF NothingLeaks, TypeOK
  <1>6. NativeInv'
    <2> SUFFICES ASSUME NEW x \in Obj
                 PROVE  /\ x \notin Txn => anc'[x] = {}
                        /\ Live(x)' /\ x \in Env => native'[x] \in {"up", "down"}
                        /\ Live(x)' /\ x \notin Txn \cup Env => native'[x] = "up"
                        /\ Live(x)' /\ x \in opened => native'[x] = "up"
                        /\ Live(x)' /\ x \in Txn /\ owner'[x] \in Env =>
                              /\ owner'[x] \in opened /\ anc'[x] = {owner'[x]}
                              /\ native'[x] \in {"up", "prepared"}
                              /\ native'[x] = "prepared" => x \in prepared
                        /\ Live(x)' /\ owner'[x] \in Txn =>
                              /\ {owner'[x]} \cup anc'[owner'[x]] \subseteq anc'[x]
                              /\ native'[x] \in {"up", "down"}
                              /\ ~Live(owner[x])' => native'[x] = "down"
      BY <1>1 DEF NativeInv, TypeOK, Live
    <2>1. CASE x # o
      <3>1. /\ owner'[x] = owner[x] /\ anc'[x] = anc[x] /\ native'[x] = native[x]
            /\ st'[x] = st[x]
        BY <1>1, <2>1 DEF TypeOK
      <3>2. Live(x) => owner[x] # o
        BY <1>2 DEF Allocated, Live
      <3>3. Live(x) /\ owner[x] \in Txn =>
               anc'[owner[x]] = anc[owner[x]] /\ st'[owner[x]] = st[owner[x]]
        BY <1>1, <3>2 DEF TypeOK
      <3>4. QED
        BY <3>1, <3>3 DEF NativeInv, Live
    <2>2. CASE x = o
      <3>1. st'[o] = "live" /\ owner'[o] = p /\ native'[o] = "up"
        BY <1>1 DEF TypeOK
      <3>2. p # o
        BY <1>1 DEF Allocated
      <3>3. o \in Txn => anc'[o] = {p} \cup anc[p] /\ (p \in Txn => anc'[p] = anc[p])
        BY <3>2 DEF TypeOK
      <3>4. p \in Env => anc[p] = {}
        BY DEF NativeInv
      <3>5. p \in Txn => Live(p)' 
        BY <1>1, <3>2 DEF Live
      <3>6. QED
        BY <2>2, <3>1, <3>2, <3>3, <3>4, <3>5 DEF NativeInv, Live
    <2>3. QED
      BY <2>1, <2>2
  <1>7. QED
    BY <1>4, <1>5, <1>6

LEMMA TornKeepsNative ==
    ASSUME TypeOK, NativeInv, NothingLeaks, OwnersAllocated,
           NEW o \in DB \cup DBSeq, st[o] = "fresh", st' = [st EXCEPT ![o] = "torn"],
           UNCHANGED <<owner, opened, prepared, native, anc>>
    PROVE  NativeInv' /\ NothingLeaks' /\ OwnersAllocated'
  <1>1. \A x \in Obj : Live(x)' <=> Live(x)
    BY KindsDisjoint DEF Live, TypeOK
  <1>2. Allocated' = Allocated
    BY KindsDisjoint DEF Allocated, TypeOK
  <1>3. NothingLeaks'
    BY KindsDisjoint DEF NothingLeaks, TypeOK
  <1>4. OwnersAllocated'
    BY <1>2 DEF OwnersAllocated
  <1>5. NativeInv'
    BY <1>1, KindsDisjoint DEF NativeInv
  <1>6. QED
    BY <1>3, <1>4, <1>5

(* An open: x joins opened, and has a good native handle already.            *)
LEMMA OpenKeepsNative ==
    ASSUME TypeOK, NativeInv, NothingLeaks, OwnersAllocated,
           NEW x \in Obj, Live(x), native[x] = "up", opened' = opened \cup {x},
           UNCHANGED <<st, owner, prepared, native, anc>>
    PROVE  NativeInv' /\ NothingLeaks' /\ OwnersAllocated'
  <1>1. NothingLeaks' /\ OwnersAllocated'
    BY DEF NothingLeaks, OwnersAllocated, Allocated, Live
  <1>2. NativeInv'
    BY DEF NativeInv, Live
  <1>3. QED
    BY <1>1, <1>2

LEMMA RecoverKeepsIInv ==
    ASSUME TypeOK, IInv, NEW e \in Env, NEW R \in SUBSET Txn, TxnRecover(e, R)
    PROVE  IInv'
  <1> USE KindsDisjoint DEF IInv, TreeInv
  <1>1. /\ R \subseteq Obj /\ e \in Obj \ R /\ e \in opened /\ e \in Allocated
        /\ \A x \in R : st[x] = "fresh"
        /\ st' = [o \in Obj |-> IF o \in R THEN "live" ELSE st[o]]
        /\ owner' = [o \in Obj |-> IF o \in R THEN e ELSE owner[o]]
        /\ kids' = [kids EXCEPT ![e] = @ \cup R]
        /\ anc' = [o \in Obj |-> IF o \in R THEN {e} ELSE anc[o]]
        /\ native' = [o \in Obj |-> IF o \in R THEN "prepared" ELSE native[o]]
        /\ prepared' = prepared \cup R
        /\ UNCHANGED <<txnOf, txnKids, opened>>
    BY DEF TxnRecover, Usable
  <1>2. \A x \in Allocated : x \notin R /\ owner[x] \notin R
    BY <1>1 DEF OwnersAllocated, Allocated
  <1>3. \A x \in Obj : Live(x)' <=> Live(x) \/ x \in R
    BY <1>1 DEF Live
  <1>4. SiblingLists'
    BY <1>1, <1>3 DEF SiblingLists, TypeOK, Live
  <1>5. TxnLists' /\ ChildrenUnderOpenDB' /\ EnclosedUnderLiveTxn'
    <2>1. \A x \in R : ~Live(x) /\ txnOf[x] = NoObj
      BY <1>1 DEF Shape, Live
    <2>2. TxnLists'
      BY <1>1, <1>3, <2>1 DEF TxnLists, TypeOK
    <2>3. ChildrenUnderOpenDB' 
      BY <1>1, <1>3 DEF ChildrenUnderOpenDB, Shape
    <2>4. EnclosedUnderLiveTxn'
      BY <1>1, <1>3 DEF EnclosedUnderLiveTxn, TypeOK
    <2>5. QED
      BY <2>2, <2>3, <2>4
  <1>6. Shape'
    BY <1>1, <1>3 DEF Shape, Live
  <1>7. OwnersAllocated'
    <2>1. Allocated' = Allocated \cup R
      BY <1>1 DEF Allocated
    <2>2. QED
      BY <1>1, <1>2, <2>1 DEF OwnersAllocated, TypeOK, Allocated
  <1>8. NothingLeaks'
    BY <1>1 DEF NothingLeaks
  <1>9. NativeInv'
    <2>1. \A x \in Obj : Live(x) => x \notin R /\ owner[x] \notin R
      BY <1>2 DEF Allocated, Live
    <2>2. QED
      BY <1>1, <1>3, <2>1 DEF NativeInv, TypeOK
  <1>10. QED
    BY <1>4, <1>5, <1>6, <1>7, <1>8, <1>9

LEMMA PrepareKeepsIInv ==
    ASSUME TypeOK, IInv, NEW t \in Txn, NEW ok \in BOOLEAN, TxnPrepare(t, ok)
    PROVE  IInv'
  <1> USE KindsDisjoint
  <1>1. /\ UNCHANGED <<st, owner, txnOf, kids, txnKids, opened, anc>>
        /\ prepared' = prepared \cup {t} /\ Live(t) /\ t \in Obj
    BY DEF TxnPrepare
  <1>2. TreeInv' /\ OwnersAllocated'
    BY <1>1 DEF IInv, TreeInv, Shape, SiblingLists, TxnLists, ChildrenUnderOpenDB,
                EnclosedUnderLiveTxn, OwnersAllocated, Allocated, Live
  <1>3. CASE UNCHANGED native
    <2>1. NothingLeaks' /\ NativeInv'
      BY <1>1, <1>3 DEF IInv, NothingLeaks, NativeInv, Live
    <2>2. QED
      BY <1>2, <2>1 DEF IInv
  <1>4. CASE /\ owner[t] \in Env
             /\ native' = [Release({}, {t}, {}) EXCEPT ![t] = "prepared"]
    <2>1. \A x \in Obj : native'[x] =
             IF x = t THEN "prepared"
             ELSE IF native[x] = "up" /\ t \in anc[x] THEN "down" ELSE native[x]
      BY <1>1, <1>4 DEF Release, Taken
    <2>2. NothingLeaks'
      BY <1>1, <2>1 DEF IInv, NothingLeaks, Live
    <2>3. ASSUME NEW x \in Obj, Live(x), x = t \/ t \in anc[x]
          PROVE  /\ x \in Txn
                 /\ owner[x] \in Env => x = t
                 /\ owner[x] \in Txn => x # t
      BY <1>4, <2>3 DEF IInv, NativeInv
    <2>4. NativeInv'
      <3> SUFFICES ASSUME NEW x \in Obj, Live(x)
                   PROVE  /\ x \in Env => native'[x] \in {"up", "down"}
                          /\ x \notin Txn \cup Env => native'[x] = "up"
                          /\ x \in opened => native'[x] = "up"
                          /\ x \in Txn /\ owner[x] \in Env =>
                                /\ native'[x] \in {"up", "prepared"}
                                /\ native'[x] = "prepared" => x \in prepared'
                          /\ owner[x] \in Txn =>
                                /\ native'[x] \in {"up", "down"}
                                /\ ~Live(owner[x]) => native'[x] = "down"
        BY <1>1 DEF IInv, NativeInv, Live
      <3>1. CASE x = t \/ t \in anc[x]
        BY <1>1, <2>1, <2>3, <3>1 DEF IInv, NativeInv, TypeOK
      <3>2. CASE ~(x = t \/ t \in anc[x])
        BY <1>1, <2>1, <3>2 DEF IInv, NativeInv
      <3>3. QED
        BY <3>1, <3>2
    <2>5. QED
      BY <1>2, <2>2, <2>4 DEF IInv
  <1>5. QED
    BY <1>3, <1>4 DEF TxnPrepare

-----------------------------------------------------------------------------
(* Any of the explicit closes: what the wrappers lose, S, and what natively  *)
(* happens, Release(Y, R, L), have to agree.                                 *)
LEMMA CloseKeepsIInv ==
    ASSUME TypeOK, IInv, NEW S, NEW Y, NEW R \in SUBSET (S \cap Txn),
           NEW L \in SUBSET (S \cap Txn),
           DownClosed(S), Unlink(S), st' = Forget(S), native' = Release(Y, R, L),
           UNCHANGED <<owner, opened, anc>>,
           \A o \in prepared \ prepared' : o \in S \/ ~Live(o),
           \A y \in Y \ Txn : y \in S \/ y \in Env \ opened,
           \A o \in Txn : Live(o) /\ owner[o] \in Y \cap Env => o \in S,
           \A o \in Obj : Live(o) /\ o \notin S /\ owner[o] \in S \cap Txn /\ Live(owner[o])
               => owner[o] \in R \/ anc[owner[o]] \cap (Y \cap Env) # {},
           \A o \in S : o \in Y \ Txn \/ o \in R \cup L
    PROVE  IInv'
  <1>1. Closes(S)
    BY ForgetCloses
  <1>2. TreeInv'
    BY <1>1, CloseKeepsTree DEF IInv
  <1>3. NativeInv'
    BY <1>1, CloseKeepsNative DEF IInv
  <1>4. NothingLeaks'
    BY <1>1, CloseKeepsReleased DEF IInv
  <1>5. OwnersAllocated'
    BY CloseKeepsOwners DEF IInv
  <1>6. QED
    BY <1>2, <1>3, <1>4, <1>5 DEF IInv

(* The transactions of an environment, and what closing it does to them.     *)
LEMMA EnvCascadeTxns ==
    ASSUME TypeOK, IInv, ~Undefined, NEW e \in Env, Live(e)
    PROVE  LET S == EnvCascade(e)
               T == S \cap Txn
           IN  /\ S \subseteq Obj /\ S \cap Env \subseteq {e}
               /\ e \notin opened => S = {}
               /\ e \in opened => e \in S
               /\ \A t \in T : Live(t) /\ owner[t] = e /\ anc[t] = {e} /\ e \in S
               /\ \A t \in Txn : Live(t) /\ owner[t] = e => t \in S
  <1> DEFINE S == EnvCascade(e)
  <1> USE KindsDisjoint
  <1>1. e \notin opened => S = {}
    BY DEF EnvCascade
  <1>2. e \in opened => e \in S /\ S \cap Env = {e} /\ S \cap Txn = kids[e] \cap Txn
    BY CascadeKinds DEF IInv
  <1>3. \A t \in Txn : t \in kids[e] <=> Live(t) /\ owner[t] = e
    BY DEF IInv, TreeInv, SiblingLists, Undefined
  <1>4. \A t \in Txn : Live(t) /\ owner[t] = e => anc[t] = {e} /\ e \in opened
    BY DEF IInv, NativeInv
  <1>5. S \subseteq Obj
    <2>1. kids[e] \subseteq Obj
      BY DEF TypeOK
    <2>2. DBCascade(kids[e] \cap DB) \subseteq Obj
      BY CascadeKinds DEF IInv
    <2>3. TxnCascade(kids[e] \cap Txn) \subseteq Obj
      BY CascadeKinds DEF IInv
    <2>4. QED
      BY <2>1, <2>2, <2>3 DEF EnvCascade
  <1>6. QED
    BY <1>1, <1>2, <1>3, <1>4, <1>5

LEMMA EnvCloseKeepsIInv ==
    ASSUME TypeOK, IInv, NEW e \in Env, EnvClose(e) \/ EnvRemove(e)
    PROVE  IInv'
  <1> DEFINE S == EnvCascade(e)
             T == S \cap Txn
  <1> USE KindsDisjoint
  <1>1. /\ Live(e) /\ ~Undefined
        /\ Unlink(S) /\ st' = Forget(S) /\ UNCHANGED <<owner, opened, prepared, anc>>
        /\ \/ native' = Release(S, Resolved(T), Kept(T))
           \/ native' = Release(S \cup {e}, Resolved(T), Kept(T))
    BY DEF EnvClose, EnvRemove, CloseAll, Calm
  <1>2. /\ S \subseteq Obj /\ S \cap Env \subseteq {e}
        /\ e \notin opened => S = {}
        /\ e \in opened => e \in S
        /\ \A t \in T : Live(t) /\ owner[t] = e /\ anc[t] = {e} /\ e \in S
        /\ \A t \in Txn : Live(t) /\ owner[t] = e => t \in S
    BY <1>1, EnvCascadeTxns
  <1>3. DownClosed(S)
    BY EnvCascadeClosed DEF IInv
  <1>4. Resolved(T) \subseteq S \cap Txn /\ Kept(T) \subseteq S \cap Txn
        /\ T = Resolved(T) \cup Kept(T)
    BY DEF Resolved, Kept
  <1> HIDE DEF S
  <1>5. ASSUME NEW Y \in {S, S \cup {e}}, native' = Release(Y, Resolved(T), Kept(T))
        PROVE  IInv'
    <2>1. \A y \in Y \ Txn : y \in S \/ y \in Env \ opened
      BY <1>2
    <2>2. \A o \in Txn : Live(o) /\ owner[o] \in Y \cap Env => o \in S
      BY <1>2
    <2>3. \A o \in Obj : owner[o] \in S \cap Txn => anc[owner[o]] \cap (Y \cap Env) # {}
      BY <1>2
    <2>4. \A o \in S : o \in Y \ Txn \/ o \in Resolved(T) \cup Kept(T)
      BY <1>4
    <2>5. QED
      BY SMTT(30), <1>1, <1>3, <1>4, <1>5, <2>1, <2>2, <2>3, <2>4, CloseKeepsIInv
  <1>6. QED
    BY <1>1, <1>5

(* Closing handles that are no transactions and no environments.             *)
LEMMA PlainCloseKeepsIInv ==
    ASSUME TypeOK, IInv, NEW S, S \cap (Txn \cup Env) = {},
           DownClosed(S), Unlink(S), st' = Forget(S), native' = Release(S, {}, {}),
           UNCHANGED <<owner, opened, anc>>,
           \A o \in prepared \ prepared' : ~Live(o)
    PROVE  IInv'
  BY CloseKeepsIInv

LEMMA DBCloseKeepsIInv ==
    ASSUME TypeOK, IInv, NEW d \in DB, DBClose(d)
    PROVE  IInv'
  <1> DEFINE S == DBCascade({d})
  <1>1. DownClosed(S)
    BY DBCascadeClosed DEF IInv
  <1>2. S \cap (Txn \cup Env) = {}
    BY CascadeKinds, KindsDisjoint DEF IInv, DBClose, Calm
  <1>3. QED
    BY <1>1, <1>2, PlainCloseKeepsIInv DEF DBClose, CloseAll

LEMMA HandleCloseKeepsIInv ==
    ASSUME TypeOK, IInv, NEW o \in Cursor \cup DBSeq \cup Leaf, HandleClose(o)
    PROVE  IInv'
  <1>1. DownClosed({o})
    BY KindsDisjoint DEF DownClosed, IInv, TreeInv, Shape, TypeOK
  <1>2. {o} \cap (Txn \cup Env) = {}
    BY KindsDisjoint
  <1>3. QED
    BY <1>1, <1>2, PlainCloseKeepsIInv DEF HandleClose, CloseAll

LEMMA AbortKeepsIInv ==
    ASSUME TypeOK, IInv, NEW t \in Txn, TxnAbort(t)
    PROVE  IInv'
  <1> USE KindsDisjoint
  <1>1. CASE Live(t)
    <2> DEFINE S == TxnCascade({t})
    <2>1. DownClosed(S)
      BY TxnCascadeClosed DEF IInv
    <2>2. t \in S /\ S \subseteq {t} \cup DB \cup Cursor \cup DBSeq
      BY CascadeKinds DEF IInv, TxnAbort, Calm
    <2> HIDE DEF S
    <2>3. S \cap Txn = {t} /\ S \cap Env = {}
      BY <2>2
    <2>4. CloseAll(S, {t}, {}) /\ prepared' = prepared \ {t} /\ UNCHANGED <<owner, opened, anc>>
      BY <1>1, <2>3 DEF TxnAbort, S
    <2>5. QED
      BY <2>1, <2>2, <2>3, <2>4, CloseKeepsIInv DEF CloseAll
  <1>2. CASE ~Live(t)
    <2> DEFINE S == txnKids[t] \cap Cursor
    <2>1. DownClosed(S) /\ S \cap (Txn \cup Env) = {}
      BY DEF DownClosed, IInv, TreeInv, Shape, TypeOK
    <2> HIDE DEF S
    <2>2. CloseAll(S, {}, {}) /\ prepared' = prepared \ {t} /\ UNCHANGED <<owner, opened, anc>>
      BY <1>2, <2>1 DEF TxnAbort, S
    <2>3. QED
      BY <1>2, <2>1, <2>2, PlainCloseKeepsIInv DEF CloseAll
  <1>3. QED
    BY <1>1, <1>2

(* Commit.  The parent of a transaction that is not stale is still open.     *)
LEMMA CommitKeepsIInv ==
    ASSUME TypeOK, IInv, NEW t \in Txn, TxnCommit(t)
    PROVE  IInv'
  <1> DEFINE C == txnKids[t] \cap Cursor
  <1> USE KindsDisjoint
  <1>1. C \subseteq Cursor /\ C \subseteq Obj /\ DownClosed(C)
    BY DEF DownClosed, IInv, TreeInv, Shape, TypeOK
  <1>2. UNCHANGED <<owner, opened, anc>>
    BY DEF TxnCommit
  <1>3. CASE Live(t)
    <2> DEFINE S == C \cup {t}
    <2>1. S \cap Txn = {t} /\ S \cap Env = {}
      BY <1>1
    <2>2. /\ st' = Forget(S) /\ native' = Release(S, {t}, {})
          /\ prepared' = prepared \ {t}
      BY <1>3, <2>1 DEF TxnCommit
    <2>3. owner[t] \in Txn => Live(owner[t])
      BY <1>3 DEF TxnCommit, Usable, Stale, IInv, NativeInv
    <2>4. TreeInv'
      BY <1>3, <2>3, CommitKeepsTree DEF IInv
    <2>5. Closes(S)
      BY <1>2, <2>2, ForgetCloses
    <2>6. NativeInv' /\ NothingLeaks'
      BY <1>2, <2>1, <2>2, <2>5, CloseKeepsNative, CloseKeepsReleased DEF IInv
    <2>7. OwnersAllocated'
      BY <1>2, <2>2, CloseKeepsOwners DEF IInv
    <2>8. QED
      BY <2>4, <2>6, <2>7 DEF IInv
  <1>4. CASE ~Live(t)
    <2>1. /\ st' = Forget(C) /\ UNCHANGED prepared
          /\ kids' = [p \in Obj |-> kids[p] \ C]
          /\ txnOf' = [o \in Obj |-> IF o \in C THEN NoObj ELSE txnOf[o]]
          /\ txnKids' = [txnKids EXCEPT ![t] = txnKids[t] \ C]
      BY <1>4 DEF TxnCommit
    <2>2. native' = Release(C, {}, {})
      BY <1>1, <1>4 DEF TxnCommit
    <2>3. \A x \in C : txnOf[x] = t
      BY <1>1 DEF IInv, TreeInv, TxnLists
    <2>4. Unlink(C)
      <3> DEFINE K(y) == {x \in txnKids[y] : ~(x \in C /\ txnOf[x] = y)}
      <3>1. K(t) = txnKids[t] \ C /\ \A y \in Obj \ {t} : K(y) = txnKids[y]
        BY <2>3
      <3>2. txnKids' = [y \in Obj |-> K(y)]
        <4> HIDE DEF K
        <4> QED
          BY <2>1, <3>1 DEF TypeOK
      <3>3. QED
        BY <2>1, <3>2 DEF Unlink
    <2>5. QED
      BY <1>1, <1>2, <2>1, <2>2, <2>4, PlainCloseKeepsIInv
  <1>5. QED
    BY <1>3, <1>4

(* What the deallocation of o closes: no transaction but o, and o itself.    *)
LEMMA OwnCascadeKinds ==
    ASSUME TypeOK, IInv, ~Undefined, NEW o \in Obj, Live(o),
           \A x \in Allocated : owner[x] # o
    PROVE  LET C == OwnCascade(o)
           IN  /\ C \subseteq Obj /\ C \cap Txn \subseteq {o} /\ C \cap Env \subseteq {o}
               /\ o \in C \/ o \in Env \ opened
  <1> DEFINE C == OwnCascade(o)
  <1> USE KindsDisjoint
  <1>1. CASE o \in Env
    <2>1. C = EnvCascade(o)
      BY <1>1 DEF OwnCascade
    <2>2. C \cap Txn = {}
      BY <1>1, <2>1, EnvCascadeTxns DEF Allocated, Live
    <2>3. QED
      BY <1>1, <2>1, <2>2, EnvCascadeTxns
  <1>2. CASE o \in DB
    <2>1. C = DBCascade({o}) /\ o \in C
      BY <1>2 DEF OwnCascade, DBCascade
    <2>2. C \subseteq DB \cup Cursor \cup DBSeq
      BY <1>2, <2>1, CascadeKinds DEF IInv
    <2>3. QED
      BY <2>1, <2>2
  <1>3. CASE o \in Txn
    <2>1. C = TxnCascade({o}) /\ o \in C
      BY <1>3 DEF OwnCascade, TxnCascade
    <2>2. C \subseteq {o} \cup DB \cup Cursor \cup DBSeq
      BY <1>3, <2>1, CascadeKinds DEF IInv
    <2>3. QED
      BY <2>1, <2>2
  <1>4. CASE o \notin Env \cup DB \cup Txn
    BY <1>4 DEF OwnCascade
  <1>5. QED
    BY <1>1, <1>2, <1>3, <1>4

(* Deallocation.  No allocated wrapper refers to o, so that what o closes    *)
(* has no dependent left: an environment has no transaction, a transaction   *)
(* no child.                                                                 *)
LEMMA DeallocKeepsIInv ==
    ASSUME TypeOK, IInv, NEW o \in Obj, Dealloc(o)
    PROVE  IInv'
  <1> DEFINE C == IF Live(o) THEN OwnCascade(o) ELSE {}
             T == C \cap Txn
             S == C \cup {o}
  <1> USE KindsDisjoint
  <1>1. /\ st' = Freed(o, C) /\ native' = Release(C, Resolved(T), Kept(T))
        /\ owner' = [owner EXCEPT ![o] = NoObj]
        /\ UNCHANGED <<opened, prepared, anc>>
        /\ ~Undefined /\ ~Stale(o) /\ o \in Allocated
        /\ \A x \in Allocated : owner[x] # o
    BY DEF Dealloc, Garbage
  <1>2. TreeInv'
    BY DeallocKeepsTree DEF IInv
  <1>3. Closes(S)
    BY <1>1 DEF Closes, Freed, Forget, Allocated, Live, TypeOK
  <1>4. /\ C \subseteq Obj /\ T \subseteq {o} /\ C \cap Env \subseteq {o}
        /\ Live(o) => o \in C \/ o \in Env \ opened
    BY <1>1, OwnCascadeKinds
  <1> HIDE DEF C
  <1>5. Resolved(T) \in SUBSET (S \cap Txn) /\ Kept(T) \in SUBSET (S \cap Txn)
        /\ T = Resolved(T) \cup Kept(T)
    BY DEF Resolved, Kept
  <1>6. NativeInv'
    <2>1. \A x \in Obj : Live(x) => owner[x] # o
      BY <1>1 DEF Allocated, Live
    <2>2. \A x \in Obj : Live(x) => owner[x] \notin C \cap (Env \cup Txn)
      BY <1>4, <2>1
    <2>3. \A x \in Obj : Live(x) /\ x \notin S => owner[x] \notin S \cap Txn
      BY <1>4, <2>1
    <2>4. /\ \A x \in prepared \ prepared' : x \in S \/ ~Live(x)
          /\ \A y \in C \ Txn : y \in S \/ y \in Env \ opened
      BY <1>1
    <2>5. \A x \in Txn : Live(x) => owner[x] \notin C \cap Env
      BY <2>2
    <2> HIDE DEF S, T
    <2>6. QED
      BY <1>1, <1>3, <1>5, <2>3, <2>4, <2>5, CloseKeepsNative DEF IInv
  <1>7. NothingLeaks'
    <2>1. \A x \in S : Live(x) => \/ x \in C \ Txn \/ x \in Env \ opened
                                  \/ x \in Resolved(T) \cup Kept(T)
      BY <1>4, <1>5
    <2>2. Kept(T) \in SUBSET Txn
      BY <1>5
    <2> HIDE DEF S, T
    <2>3. QED
      BY <1>1, <1>3, <2>1, <2>2, CloseKeepsReleased DEF IInv
  <1>8. OwnersAllocated'
    <2>1. Allocated' = Allocated \ {o}
      BY <1>1 DEF Allocated, Freed, Forget, Live, TypeOK
    <2>2. QED
      BY <1>1, <2>1 DEF IInv, OwnersAllocated, TypeOK, Allocated
  <1>9. QED
    BY <1>2, <1>6, <1>7, <1>8 DEF IInv

-----------------------------------------------------------------------------
(* The inductive invariant.                                                  *)

LEMMA InitIInv == Init => IInv
  <1> SUFFICES ASSUME Init PROVE IInv
    OBVIOUS
  <1>1. \A o \in Obj : st[o] = "fresh" /\ owner[o] = NoObj /\ txnOf[o] = NoObj
                       /\ kids[o] = {} /\ txnKids[o] = {} /\ anc[o] = {}
    BY DEF Init
  <1>2. Shape
    BY <1>1, KindsDisjoint DEF Shape, Live
  <1>3. SiblingLists /\ TxnLists /\ ChildrenUnderOpenDB /\ EnclosedUnderLiveTxn
    BY <1>1, KindsDisjoint
    DEF SiblingLists, TxnLists, ChildrenUnderOpenDB, EnclosedUnderLiveTxn, Live
  <1>4. NativeInv /\ NothingLeaks /\ OwnersAllocated
    BY <1>1 DEF NativeInv, NothingLeaks, OwnersAllocated, Allocated, Live
  <1>5. QED
    BY <1>2, <1>3, <1>4 DEF IInv, TreeInv

LEMMA IInvNext == TypeOK /\ IInv /\ [Next]_vars => IInv'
  <1> SUFFICES ASSUME TypeOK, IInv, [Next]_vars PROVE IInv'
    OBVIOUS
  <1> USE KindsDisjoint
  <1>0. \A o \in Obj : Usable(o) => o \in Allocated
    BY DEF Usable
  <1>1. ASSUME NEW e \in Env, EnvNew(e) PROVE IInv'
    <2>1. TreeInv'
      BY <1>1, WrapKeepsTree DEF EnvNew, IInv
    <2>2. NativeInv' /\ NothingLeaks' /\ OwnersAllocated'
      BY <1>1, WrapKeepsNative DEF EnvNew, IInv
    <2>3. QED
      BY <2>1, <2>2 DEF IInv
  <1>2. ASSUME NEW e \in Env, EnvOpen(e) PROVE IInv'
    <2>1. native[e] = "up"
      BY <1>2 DEF EnvOpen, Usable, Stale, IInv, NativeInv
    <2>2. NativeInv' /\ NothingLeaks' /\ OwnersAllocated'
      BY <1>2, <2>1, OpenKeepsNative DEF EnvOpen, IInv
    <2>3. TreeInv'
      BY <1>2 DEF EnvOpen, IInv, TreeInv, Shape, SiblingLists, TxnLists,
                  ChildrenUnderOpenDB, EnclosedUnderLiveTxn, Live
    <2>4. QED
      BY <2>2, <2>3 DEF IInv
  <1>3. ASSUME NEW e \in Env, EnvClose(e) \/ EnvRemove(e) PROVE IInv'
    BY <1>3, EnvCloseKeepsIInv
  <1>5. ASSUME NEW d \in DB, NEW e \in Env \cup {NoObj}, DBNew(d, e) PROVE IInv'
    <2>1. TreeInv'
      BY <1>5, WrapKeepsTree DEF DBNew, IInv
    <2>2. NativeInv' /\ NothingLeaks' /\ OwnersAllocated'
      BY <1>0, <1>5, WrapKeepsNative DEF DBNew, IInv
    <2>3. QED
      BY <2>1, <2>2 DEF IInv
  <1>6. ASSUME NEW d \in DB, NEW e \in Env, DBNewFails(d, e) PROVE IInv'
    BY <1>6, TornKeepsTree, TornKeepsNative DEF DBNewFails, IInv
  <1>7. ASSUME NEW d \in DB, NEW t \in Txn \cup {NoObj}, DBOpen(d, t) PROVE IInv'
    <2>1. native[d] = "up" /\ Live(d)
      BY <1>7 DEF DBOpen, IInv, NativeInv
    <2>2. TreeInv'
      BY ZenonT(30), <1>7, OpenKeepsTree DEF DBOpen, Effective, IInv
    <2>3. NativeInv' /\ NothingLeaks' /\ OwnersAllocated'
      BY <1>7, <2>1, OpenKeepsNative DEF DBOpen, IInv
    <2>4. QED
      BY <2>2, <2>3 DEF IInv
  <1>8. ASSUME NEW d \in DB, DBClose(d) PROVE IInv'
    BY <1>8, DBCloseKeepsIInv
  <1>9. ASSUME NEW c \in Cursor, NEW d \in DB, NEW t \in Txn \cup {NoObj},
               CursorNew(c, d, t)
        PROVE  IInv'
    <2>1. TreeInv'
      BY <1>9, WrapKeepsTree DEF CursorNew, IInv
    <2>2. NativeInv' /\ NothingLeaks' /\ OwnersAllocated'
      BY <1>0, <1>9, WrapKeepsNative DEF CursorNew, IInv
    <2>3. QED
      BY <2>1, <2>2 DEF IInv
  <1>10. ASSUME NEW c \in Cursor, NEW b \in Cursor, CursorDup(c, b) PROVE IInv'
    <2>1. owner[b] \in DB /\ Live(owner[b]) /\ owner[b] \in Allocated
      BY <1>10 DEF CursorDup, IInv, TreeInv, Shape, ChildrenUnderOpenDB, Allocated, Live
    <2>2. txnOf[b] \in Txn \cup {NoObj}
      BY DEF TypeOK
    <2>3. TreeInv'
      BY <1>10, <2>1, <2>2, WrapKeepsTree DEF CursorDup, IInv
    <2>4. NativeInv' /\ NothingLeaks' /\ OwnersAllocated'
      BY <1>10, <2>1, <2>2, WrapKeepsNative DEF CursorDup, IInv
    <2>5. QED
      BY <2>3, <2>4 DEF IInv
  <1>11. ASSUME NEW s \in DBSeq, NEW d \in DB, SeqNew(s, d) PROVE IInv'
    <2>1. TreeInv'
      BY <1>11, WrapKeepsTree DEF SeqNew, IInv
    <2>2. NativeInv' /\ NothingLeaks' /\ OwnersAllocated'
      BY <1>0, <1>11, WrapKeepsNative DEF SeqNew, IInv
    <2>3. QED
      BY <2>1, <2>2 DEF IInv
  <1>12. ASSUME NEW s \in DBSeq, NEW d \in DB, SeqNewFails(s, d) PROVE IInv'
    BY <1>12, TornKeepsTree, TornKeepsNative DEF SeqNewFails, IInv
  <1>13. ASSUME NEW s \in DBSeq, NEW t \in Txn \cup {NoObj}, SeqOpen(s, t)
         PROVE  IInv'
    <2>1. native[s] = "up" /\ Live(s)
      BY <1>13 DEF SeqOpen, IInv, NativeInv
    <2>2. TreeInv'
      BY <1>13, OpenKeepsTree DEF SeqOpen, Effective, IInv
    <2>3. NativeInv' /\ NothingLeaks' /\ OwnersAllocated'
      BY <1>13, <2>1, OpenKeepsNative DEF SeqOpen, IInv
    <2>4. QED
      BY <2>2, <2>3 DEF IInv
  <1>14. ASSUME NEW l \in Leaf, NEW e \in Env, LeafNew(l, e) PROVE IInv'
    <2>1. TreeInv'
      BY <1>14, WrapKeepsTree DEF LeafNew, IInv
    <2>2. NativeInv' /\ NothingLeaks' /\ OwnersAllocated'
      BY <1>0, <1>14, WrapKeepsNative DEF LeafNew, IInv
    <2>3. QED
      BY <2>1, <2>2 DEF IInv
  <1>15. ASSUME NEW o \in Cursor \cup DBSeq \cup Leaf, HandleClose(o) PROVE IInv'
    BY <1>15, HandleCloseKeepsIInv
  <1>16. ASSUME NEW t \in Txn, NEW e \in Env, NEW p \in Txn \cup {NoObj},
                TxnBegin(t, e, p)
         PROVE  IInv'
    <2> DEFINE q == IF Effective(p) = NoObj THEN e ELSE p
    <2>1. /\ q \in opened \cap Env \/ (q \in Txn /\ Live(q))
          /\ q \in Allocated /\ q \in Obj
      BY <1>0, <1>16 DEF TxnBegin, Effective, TxnArg
    <2>2. /\ Wrap(t, q, NoObj) /\ anc' = [anc EXCEPT ![t] = {q} \cup anc[q]]
          /\ native' = [native EXCEPT ![t] = "up"] /\ UNCHANGED <<opened, prepared>>
      BY <1>16 DEF TxnBegin
    <2> HIDE DEF q
    <2>3. q # t
      BY <2>1, <2>2 DEF Wrap, Allocated
    <2>4. TreeInv'
      BY <2>1, <2>2, <2>3, WrapKeepsTree DEF IInv
    <2>5. NativeInv' /\ NothingLeaks' /\ OwnersAllocated'
      BY <2>1, <2>2, WrapKeepsNative DEF IInv
    <2>6. QED
      BY <2>4, <2>5 DEF IInv
  <1>17. ASSUME NEW e \in Env, NEW R \in SUBSET Txn, TxnRecover(e, R) PROVE IInv'
    BY <1>17, RecoverKeepsIInv
  <1>18. ASSUME NEW t \in Txn, NEW ok \in BOOLEAN, TxnPrepare(t, ok) PROVE IInv'
    BY <1>18, PrepareKeepsIInv
  <1>19. ASSUME NEW t \in Txn, TxnCommit(t) PROVE IInv'
    BY <1>19, CommitKeepsIInv
  <1>20. ASSUME NEW t \in Txn, TxnAbort(t) PROVE IInv'
    BY <1>20, AbortKeepsIInv
  <1>21. ASSUME NEW o \in Obj, DropRef(o) PROVE IInv'
    BY <1>21 DEF DropRef, IInv, TreeInv, Shape, SiblingLists, TxnLists,
                 ChildrenUnderOpenDB, EnclosedUnderLiveTxn, NativeInv, NothingLeaks,
                 OwnersAllocated, Allocated, Live
  <1>22. ASSUME NEW o \in Obj, Dealloc(o) PROVE IInv'
    BY <1>22, DeallocKeepsIInv
  <1>23. CASE UNCHANGED vars
    BY <1>23 DEF vars, IInv, TreeInv, Shape, SiblingLists, TxnLists,
                 ChildrenUnderOpenDB, EnclosedUnderLiveTxn, NativeInv, NothingLeaks,
                 OwnersAllocated, Allocated, Live
  <1>24. QED
    BY <1>1, <1>2, <1>3, <1>5, <1>6, <1>7, <1>8, <1>9, <1>10, <1>11, <1>12, <1>13,
       <1>14, <1>15, <1>16, <1>17, <1>18, <1>19, <1>20, <1>21, <1>22, <1>23
    DEF Next

-----------------------------------------------------------------------------
LEMMA Inductive == Spec => [](TypeOK /\ IInv)
  <1>1. Init => TypeOK /\ IInv
    BY TypeInit, InitIInv
  <1>2. TypeOK /\ IInv /\ [Next]_vars => (TypeOK /\ IInv)'
    BY TypeNext, IInvNext
  <1>3. QED
    BY <1>1, <1>2, PTL DEF Spec

(* The lists of an owner hold exactly the wrappers under it whose handle is  *)
(* set, whatever calls, failures and deallocations came before.              *)
THEOREM SiblingListsHold == Spec => []SiblingLists
  <1>1. IInv => SiblingLists
    BY DEF IInv, TreeInv
  <1>2. QED
    BY <1>1, Inductive, PTL

(* The lists of a transaction hold exactly the open wrappers that belong to  *)
(* it, also after a commit handed them to its parent.                        *)
THEOREM TxnListsHold == Spec => []TxnLists
  <1>1. IInv => TxnLists
    BY DEF IInv, TreeInv
  <1>2. QED
    BY <1>1, Inductive, PTL

(* No cursor and no sequence is ever open over a closed DB.                  *)
THEOREM ChildrenCloseWithTheirDB == Spec => []ChildrenUnderOpenDB
  <1>1. IInv => ChildrenUnderOpenDB
    BY DEF IInv, TreeInv
  <1>2. QED
    BY <1>1, Inductive, PTL

(* No DB and no sequence ever points at a resolved transaction.              *)
THEOREM EnclosedNeverDangle == Spec => []EnclosedUnderLiveTxn
  <1>1. IInv => EnclosedUnderLiveTxn
    BY DEF IInv, TreeInv
  <1>2. QED
    BY <1>1, Inductive, PTL

(* The owner of an allocated wrapper is allocated.                           *)
THEOREM OwnersStayAllocated == Spec => []OwnersAllocated
  <1>1. IInv => OwnersAllocated
    BY DEF IInv
  <1>2. QED
    BY <1>1, Inductive, PTL

(* A wrapper whose handle was cleared holds no native resource, but for a    *)
(* prepared transaction and an environment that was never opened.            *)
THEOREM NothingEverLeaks == Spec => []NothingLeaks
  <1>1. IInv => NothingLeaks
    BY DEF IInv
  <1>2. QED
    BY <1>1, Inductive, PTL

(* Only nested transactions, through their parent, and environments removed  *)
(* before an open ever hold a native handle that is gone.                    *)
THEOREM StalenessIsConfined == Spec => []StaleOnlyWhereKnown
  <1>1. ASSUME TypeOK, IInv PROVE StaleOnlyWhereKnown
    <2> SUFFICES ASSUME NEW o \in Obj, Stale(o)
                 PROVE  (o \in Txn /\ owner[o] \in Txn) \/ o \in Env \ opened
      BY DEF StaleOnlyWhereKnown
    <2>1. Live(o) /\ native[o] = "down"
      BY DEF Stale
    <2>2. o \in Txn => owner[o] \in Env \cup Txn
      BY <1>1, <2>1 DEF IInv, TreeInv, Shape
    <2>3. QED
      BY <1>1, <2>1, <2>2 DEF IInv, NativeInv
  <1>2. QED
    BY <1>1, Inductive, PTL

-----------------------------------------------------------------------------
(* A close spares every transaction that is prepared natively: its           *)
(* flag_prepare is set.                                                      *)
LEMMA PreparedSpared ==
    ASSUME TypeOK, IInv, NEW t \in Txn, native[t] = "prepared",
           NEW S, NEW Y, \A x \in S \cap Txn : Live(x),
           native' = Release(Y, Resolved(S \cap Txn), Kept(S \cap Txn))
    PROVE  native'[t] # "down"
  <1>1. Live(t) => owner[t] \in Env \cup Txn
    BY KindsDisjoint DEF IInv, TreeInv, Shape
  <1>2. Live(t) => t \in prepared
    BY <1>1, KindsDisjoint DEF IInv, NativeInv
  <1>3. t \notin Resolved(S \cap Txn)
    BY <1>2 DEF Resolved
  <1>4. QED
    BY <1>3, KindsDisjoint DEF Release, Taken

(* A prepared transaction is resolved by an explicit commit, abort or        *)
(* discard only.                                                             *)
THEOREM PreparedIsKept == Spec => PreparedResolvedExplicitly
  <1> DEFINE Safe(t) == native[t] = "prepared" /\ native'[t] = "down"
                            => TxnCommit(t) \/ TxnAbort(t)
  <1>1. ASSUME TypeOK, IInv, Next, NEW t \in Txn, native[t] = "prepared",
               native'[t] = "down"
        PROVE  TxnCommit(t) \/ TxnAbort(t)
    <2> USE KindsDisjoint
    <2>1. ~ UNCHANGED native
      BY <1>1
    <2>2. ASSUME NEW o \in Obj, native' = [native EXCEPT ![o] = "up"] PROVE FALSE
      BY <1>1, <2>2 DEF TypeOK
    <2>3. ASSUME NEW e \in Env, EnvClose(e) \/ EnvRemove(e) PROVE FALSE
      <3> DEFINE S == EnvCascade(e)
      <3>1. \A x \in S \cap Txn : Live(x)
        BY <1>1, <2>3, EnvCascadeTxns DEF EnvClose, EnvRemove, Calm
      <3>2. \E Y : native' = Release(Y, Resolved(S \cap Txn), Kept(S \cap Txn))
        BY <2>3 DEF EnvClose, EnvRemove, CloseAll
      <3> HIDE DEF S
      <3>3. QED
        BY <1>1, <3>1, <3>2, PreparedSpared
    <2>4. ASSUME NEW S, S \cap (Txn \cup Env) = {}, native' = Release(S, {}, {})
          PROVE  FALSE
      BY <1>1, <2>4 DEF Release, Taken
    <2>5. ASSUME NEW d \in DB, DBClose(d) PROVE FALSE
      BY <1>1, <2>4, <2>5, CascadeKinds DEF IInv, DBClose, Calm, CloseAll
    <2>6. ASSUME NEW o \in Cursor \cup DBSeq \cup Leaf, HandleClose(o) PROVE FALSE
      BY <2>4, <2>6 DEF HandleClose, CloseAll
    <2>7. ASSUME NEW e \in Env, NEW R \in SUBSET Txn, TxnRecover(e, R) PROVE FALSE
      BY <1>1, <2>7 DEF TxnRecover
    <2>8. ASSUME NEW x \in Txn, NEW ok \in BOOLEAN, TxnPrepare(x, ok) PROVE FALSE
      BY <1>1, <2>8 DEF TxnPrepare, Release, Taken
    <2>9. ASSUME NEW x \in Txn, TxnCommit(x) PROVE x = t
      BY <1>1, <2>9 DEF TxnCommit, Release, Taken, IInv, TreeInv, Shape
    <2>10. ASSUME NEW x \in Txn, TxnAbort(x) PROVE x = t
      <3>1. CASE Live(x)
        <4>1. native' = Release(TxnCascade({x}), TxnCascade({x}) \cap Txn, {})
          BY <2>10, <3>1 DEF TxnAbort, CloseAll
        <4>2. TxnCascade({x}) \cap Txn = {x}
          BY <1>1, <2>10, CascadeKinds DEF IInv, TxnAbort, Calm
        <4>3. QED
          BY <1>1, <4>1, <4>2 DEF Release, Taken
      <3>2. CASE ~Live(x)
        BY <1>1, <2>10, <3>2 DEF TxnAbort, CloseAll, Release, Taken
      <3>3. QED
        BY <3>1, <3>2
    <2>11. ASSUME NEW o \in Obj, Dealloc(o) PROVE FALSE
      <3> DEFINE C == IF Live(o) THEN OwnCascade(o) ELSE {}
      <3>1. \A x \in C \cap Txn : Live(x)
        BY <1>1, <2>11, OwnCascadeKinds DEF Dealloc, Garbage
      <3>2. native' = Release(C, Resolved(C \cap Txn), Kept(C \cap Txn))
        BY <2>11 DEF Dealloc
      <3> HIDE DEF C
      <3>3. QED
        BY <1>1, <3>1, <3>2, PreparedSpared
    <2>12. QED
      BY <1>1, <2>1, <2>2, <2>3, <2>5, <2>6, <2>7, <2>8, <2>9, <2>10, <2>11
      DEF Next, EnvNew, EnvOpen, DBNew, DBNewFails, DBOpen, CursorNew, CursorDup,
          SeqNew, SeqNewFails, SeqOpen, LeafNew, TxnBegin, DropRef
  <1>2. TypeOK /\ IInv /\ [Next]_vars => [\A t \in Txn : Safe(t)]_vars
    BY <1>1
  <1>3. QED
    BY <1>2, Inductive, PTL DEF PreparedResolvedExplicitly, Spec

-----------------------------------------------------------------------------
(* A commit hands DBs and sequences to the parent transaction and never past *)
(* it, for transactions nested to any depth.                                 *)
Up == TypeOK /\ IInv /\ AncestryInv /\ PassedInv

(* A step that revives nothing, moves no open handle to another transaction  *)
(* and begins at most some fresh transactions, in ones that exist.           *)
LEMMA StepKeepsLines ==
    ASSUME Up, TypeOK', openIn' = openIn,
           \A x \in Obj : /\ st'[x] = "fresh" => st[x] = "fresh"
                          /\ st'[x] = "live" => st[x] \in {"live", "fresh"}
                          /\ st[x] # "fresh" => anc'[x] = anc[x],
           \A x \in Obj : st[x] = "fresh" =>
               \A u \in anc'[x] : st'[u] # "fresh" /\ anc'[u] \subseteq anc'[x],
           \A x \in Obj : Live(x)' /\ owner'[x] \in Txn =>
               anc'[x] = {owner'[x]} \cup anc'[owner'[x]],
           \A o \in DB \cup DBSeq : Live(o) /\ Live(o)' => txnOf'[o] = txnOf[o]
    PROVE  AncestryInv' /\ PassedInv'
  <1> USE KindsDisjoint
  <1>1. \A t \in Obj : openIn[t] # NoObj => openIn[t] \in Txn /\ st[openIn[t]] # "fresh"
    BY DEF Up, TypeOK, AncestryInv
  <1>2. \A t \in Obj : \A u \in anc[t] : u \in Obj /\ st[u] # "fresh"
    BY DEF Up, TypeOK, AncestryInv
  <1>3. AncestryInv'
    <2> SUFFICES ASSUME NEW t \in Obj
                 PROVE  /\ st'[t] = "fresh" => openIn'[t] = NoObj
                        /\ openIn'[t] # NoObj => st'[openIn'[t]] # "fresh"
                        /\ \A u \in anc'[t] : st'[u] # "fresh" /\ anc'[u] \subseteq anc'[t]
                        /\ Live(t)' /\ owner'[t] \in Txn
                              => anc'[t] = {owner'[t]} \cup anc'[owner'[t]]
      BY DEF AncestryInv
    <2>1. st'[t] = "fresh" => openIn'[t] = NoObj
      BY DEF Up, AncestryInv
    <2>2. openIn'[t] # NoObj => st'[openIn'[t]] # "fresh"
      BY <1>1
    <2>3. \A u \in anc'[t] : st'[u] # "fresh" /\ anc'[u] \subseteq anc'[t]
      <3>1. CASE st[t] = "fresh"
        BY <3>1
      <3>2. CASE st[t] # "fresh"
        <4>1. \A u \in anc[t] : anc'[u] = anc[u] /\ anc[u] \subseteq anc[t] /\ st'[u] # "fresh"
          BY <1>2 DEF Up, AncestryInv
        <4>2. QED
          BY <3>2, <4>1
      <3>3. QED
        BY <3>1, <3>2
    <2>4. QED
      BY <2>1, <2>2, <2>3
  <1>4. PassedInv'
    <2> SUFFICES ASSUME NEW o \in DB \cup DBSeq, Live(o)', openIn'[o] # NoObj
                 PROVE  /\ txnOf'[o] \in Line(o)' \cup {NoObj}
                        /\ \A u \in Line(o)' : Live(u)' =>
                              txnOf'[o] # NoObj /\ u \in {txnOf'[o]} \cup anc'[txnOf'[o]]
      BY DEF PassedInv
    <2>1. Live(o) /\ openIn[o] # NoObj /\ openIn[o] \in Txn /\ st[openIn[o]] # "fresh"
      BY <1>1 DEF Up, AncestryInv, Live
    <2>2. Line(o)' = Line(o) /\ txnOf'[o] = txnOf[o]
      BY <2>1 DEF Line
    <2>3. \A u \in Line(o) : u \in Obj /\ st[u] # "fresh" /\ (Live(u)' => Live(u)) /\ anc'[u] = anc[u]
      BY <1>2, <2>1 DEF Line, Live
    <2>4. /\ txnOf[o] \in Line(o) \cup {NoObj}
          /\ \A u \in Line(o) : Live(u) =>
                txnOf[o] # NoObj /\ u \in {txnOf[o]} \cup anc[txnOf[o]]
      BY <2>1 DEF Up, PassedInv
    <2>5. QED
      BY <2>2, <2>3, <2>4
  <1>5. QED
    BY <1>3, <1>4

(* A close, a cascade or a deallocation.                                     *)
LEMMA CloseKeepsLines ==
    ASSUME Up, TypeOK', UNCHANGED <<anc, openIn>>, NEW S, Unlink(S),
           \A x \in Obj : /\ st'[x] = "fresh" => st[x] = "fresh"
                          /\ st'[x] = "live" => st[x] = "live" /\ x \notin S
                                                /\ owner'[x] = owner[x]
    PROVE  AncestryInv' /\ PassedInv'
  <1> USE KindsDisjoint
  <1>1. \A x \in Obj : Live(x)' /\ owner'[x] \in Txn =>
            anc'[x] = {owner'[x]} \cup anc'[owner'[x]]
    BY DEF Up, AncestryInv, Live
  <1>2. \A o \in DB \cup DBSeq : Live(o) /\ Live(o)' => txnOf'[o] = txnOf[o]
    BY DEF Unlink, Live
  <1>3. \A x \in Obj : st[x] = "fresh" =>
            \A u \in anc'[x] : st'[u] # "fresh" /\ anc'[u] \subseteq anc'[x]
    BY DEF Up, TypeOK, AncestryInv
  <1>4. QED
    BY <1>1, <1>2, <1>3, StepKeepsLines

(* A new wrapper, or one torn in its construction.                           *)
LEMMA WrapKeepsLines ==
    ASSUME Up, TypeOK', NEW o \in Obj, NEW p \in (Allocated \cap Obj) \cup {NoObj},
           NEW t, Wrap(o, p, t), openIn' = openIn,
           \/ anc' = anc /\ p \notin Txn
           \/ p # NoObj /\ anc' = [anc EXCEPT ![o] = {p} \cup anc[p]]
    PROVE  AncestryInv' /\ PassedInv'
  <1> USE KindsDisjoint
  <1>1. \A x \in Obj : /\ st'[x] = "fresh" => st[x] = "fresh"
                       /\ st'[x] = "live" => st[x] \in {"live", "fresh"}
                       /\ st[x] # "fresh" => anc'[x] = anc[x]
    BY DEF Wrap, Up, TypeOK
  <1>2. \A x \in Obj : x # o => anc'[x] = anc[x] /\ st'[x] = st[x] /\ owner'[x] = owner[x]
    BY DEF Wrap, Up, TypeOK
  <1>3. st[o] = "fresh" /\ st'[o] = "live" /\ owner'[o] = p /\ p # o
    BY DEF Wrap, Up, TypeOK, Allocated
  <1>4. \A x \in Obj : \A u \in anc[x] : u \in Obj /\ u # o /\ st[u] # "fresh"
                                         /\ anc[u] \subseteq anc[x]
    BY <1>3 DEF Up, TypeOK, AncestryInv
  <1>5. p # NoObj => p \in Obj /\ st[p] # "fresh" /\ anc'[p] = anc[p] /\ st'[p] = st[p]
    BY <1>2, <1>3 DEF Allocated
  <1>6. \/ anc'[o] = anc[o] /\ p \notin Txn
        \/ p # NoObj /\ anc'[o] = {p} \cup anc[p]
    BY DEF Up, TypeOK
  <1>7. \A x \in Obj : st[x] = "fresh" =>
            \A u \in anc'[x] : st'[u] # "fresh" /\ anc'[u] \subseteq anc'[x]
    BY <1>2, <1>3, <1>4, <1>5, <1>6
  <1>8. \A x \in Obj : Live(x)' /\ owner'[x] \in Txn =>
            anc'[x] = {owner'[x]} \cup anc'[owner'[x]]
    <2> SUFFICES ASSUME NEW x \in Obj, Live(x)', owner'[x] \in Txn
                 PROVE  anc'[x] = {owner'[x]} \cup anc'[owner'[x]]
      OBVIOUS
    <2>1. CASE x = o
      BY <2>1, <1>3, <1>5, <1>6
    <2>2. CASE x # o
      <3>1. Live(x) /\ owner'[x] = owner[x] /\ anc'[x] = {owner[x]} \cup anc[owner[x]]
        BY <2>2, <1>2 DEF Up, AncestryInv, Live
      <3>2. owner[x] \in anc[x]
        BY <3>1, <2>2, <1>2
      <3>3. QED
        BY <3>1, <3>2, <1>2, <1>4
    <2>3. QED
      BY <2>1, <2>2
  <1>9. \A y \in DB \cup DBSeq : Live(y) /\ Live(y)' => txnOf'[y] = txnOf[y]
    BY <1>3 DEF Wrap, Up, TypeOK, Live
  <1>10. QED
    BY <1>1, <1>7, <1>8, <1>9, StepKeepsLines

(* Nothing that the lines depend on changes.                                 *)
LEMMA StutterKeepsLines ==
    ASSUME Up, TypeOK', UNCHANGED <<owner, txnOf, anc, openIn>>,
           \A x \in Obj : /\ st'[x] = "fresh" => st[x] = "fresh"
                          /\ st'[x] = "live" => st[x] = "live"
    PROVE  AncestryInv' /\ PassedInv'
  <1>1. \A x \in Obj : Live(x)' /\ owner'[x] \in Txn =>
            anc'[x] = {owner'[x]} \cup anc'[owner'[x]]
    BY DEF Up, AncestryInv, Live
  <1>2. \A x \in Obj : st[x] = "fresh" =>
            \A u \in anc'[x] : st'[u] # "fresh" /\ anc'[u] \subseteq anc'[x]
    BY DEF Up, TypeOK, AncestryInv
  <1>3. QED
    BY <1>1, <1>2, StepKeepsLines

(* DB.open and DBSequence.open.                                              *)
LEMMA OpenKeepsLines ==
    ASSUME Up, NEW d \in DB \cup DBSeq, NEW t \in Txn \cup {NoObj}, Live(d),
           t # NoObj => Live(t),
           txnOf' = [txnOf EXCEPT ![d] = t], openIn' = [openIn EXCEPT ![d] = t],
           UNCHANGED <<st, owner, anc>>
    PROVE  AncestryInv' /\ PassedInv'
  <1> USE KindsDisjoint
  <1>1. AncestryInv'
    BY DEF Up, TypeOK, AncestryInv, Live
  <1>2. ASSUME NEW o \in DB \cup DBSeq, Live(o)', openIn'[o] # NoObj
        PROVE  /\ txnOf'[o] \in Line(o)' \cup {NoObj}
               /\ \A u \in Line(o)' : Live(u)' =>
                     txnOf'[o] # NoObj /\ u \in {txnOf'[o]} \cup anc'[txnOf'[o]]
    <2>1. CASE o = d
      BY <1>2, <2>1 DEF Line, Up, TypeOK
    <2>2. CASE o # d
      <3>1. Line(o)' = Line(o) /\ txnOf'[o] = txnOf[o] /\ openIn'[o] = openIn[o]
        BY <2>2 DEF Line, Up, TypeOK
      <3>2. QED
        BY <1>2, <3>1 DEF Up, PassedInv, Live
    <2>3. QED
      BY <2>1, <2>2
  <1>3. QED
    BY <1>1, <1>2 DEF PassedInv

(* DBTxn.commit: what t encloses goes to its parent, of which every          *)
(* transaction above t is an ancestor.                                       *)
LEMMA CommitKeepsLines ==
    ASSUME Up, NEW t \in Txn, TxnCommit(t)
    PROVE  AncestryInv' /\ PassedInv'
  <1> USE KindsDisjoint
  <1> DEFINE C == txnKids[t] \cap Cursor
             S == IF Live(t) THEN C \cup {t} ELSE C
             q == Parent(t)
  <1>1. st' = Forget(S) /\ UNCHANGED <<owner, anc, openIn>>
    BY DEF TxnCommit
  <1>2. \A x \in Obj : /\ st'[x] = "fresh" <=> st[x] = "fresh"
                       /\ Live(x)' <=> Live(x) /\ x \notin S
    BY <1>1 DEF Forget, Live
  <1>3. \A o \in DB \cup DBSeq : Live(o) =>
            txnOf'[o] = IF Live(t) /\ txnOf[o] = t THEN q ELSE txnOf[o]
    BY DEF TxnCommit, Up, TypeOK, IInv, TreeInv, TxnLists
  <1>4. AncestryInv'
    BY <1>1, <1>2 DEF Up, TypeOK, AncestryInv
  <1>5. ASSUME NEW o \in DB \cup DBSeq, Live(o)', openIn'[o] # NoObj
        PROVE  /\ txnOf'[o] \in Line(o)' \cup {NoObj}
               /\ \A u \in Line(o)' : Live(u)' =>
                     txnOf'[o] # NoObj /\ u \in {txnOf'[o]} \cup anc'[txnOf'[o]]
    <2>1. Live(o) /\ openIn[o] \in Txn /\ Line(o)' = Line(o)
      BY <1>1, <1>2, <1>5 DEF Line, Up, TypeOK
    <2>2. /\ txnOf[o] \in Line(o) \cup {NoObj}
          /\ \A u \in Line(o) : Live(u) =>
                txnOf[o] # NoObj /\ u \in {txnOf[o]} \cup anc[txnOf[o]]
      BY <2>1, <1>5, <1>1 DEF Up, PassedInv
    <2>3. \A u \in Line(o) : Live(u)' => Live(u) /\ (Live(t) => u # t)
      BY <1>2 DEF Line
    <2>4. CASE Live(t) /\ txnOf[o] = t
      <3>1. owner[t] \in Env \cup Txn
        BY <2>4 DEF Up, IInv, TreeInv, Shape
      <3>2. CASE owner[t] \in Txn
        <4>1. txnOf'[o] = owner[t] /\ owner[t] # NoObj
              /\ anc[t] = {owner[t]} \cup anc[owner[t]]
          BY <1>3, <2>1, <2>4, <3>2 DEF Parent, Up, AncestryInv
        <4>2. t = openIn[o] \/ t \in anc[openIn[o]]
          BY <2>2, <2>4 DEF Line
        <4>3. anc[t] \subseteq {openIn[o]} \cup anc[openIn[o]]
          BY <4>2, <2>1 DEF Up, AncestryInv
        <4>4. owner[t] \in Line(o)
          BY <4>1, <4>3, <3>2 DEF Line
        <4>5. QED
          BY <1>1, <2>1, <2>2, <2>3, <2>4, <4>1, <4>4
      <3>3. CASE owner[t] \in Env
        <4>1. txnOf'[o] = NoObj
          BY <1>3, <2>1, <2>4, <3>3 DEF Parent
        <4>2. anc[t] = {owner[t]}
          BY <2>4, <3>3 DEF Up, IInv, NativeInv
        <4>3. \A u \in Line(o) : ~Live(u)'
          BY <2>2, <2>3, <2>4, <3>3, <4>2 DEF Line
        <4>4. QED
          BY <2>1, <4>1, <4>3
      <3>4. QED
        BY <3>1, <3>2, <3>3
    <2>5. CASE ~(Live(t) /\ txnOf[o] = t)
      <3>1. txnOf'[o] = txnOf[o]
        BY <1>3, <2>1, <2>5
      <3>2. QED
        BY <1>1, <2>1, <2>2, <2>3, <3>1
    <2>6. QED
      BY <2>4, <2>5
  <1>6. QED
    BY <1>4, <1>5 DEF PassedInv

(* DBEnv.txn_recover: the new transactions are outermost ones.               *)
LEMMA RecoverKeepsLines ==
    ASSUME Up, TypeOK', NEW e \in Env, NEW R \in SUBSET Txn, TxnRecover(e, R)
    PROVE  AncestryInv' /\ PassedInv'
  <1> USE KindsDisjoint
  <1>1. /\ \A x \in R : st[x] = "fresh" /\ st'[x] = "live" /\ owner'[x] = e /\ anc'[x] = {e}
        /\ \A x \in Obj \ R : st'[x] = st[x] /\ owner'[x] = owner[x] /\ anc'[x] = anc[x]
        /\ openIn' = openIn /\ txnOf' = txnOf
        /\ st[e] = "live" /\ e \notin R /\ anc[e] = {}
    BY DEF TxnRecover, Live, Up, IInv, NativeInv
  <1>2. \A x \in Obj : \A u \in anc[x] : u \in Obj \ R /\ st[u] # "fresh" /\ anc[u] \subseteq anc[x]
    BY <1>1 DEF Up, TypeOK, AncestryInv
  <1>3. \A x \in Obj : st[x] = "fresh" =>
            \A u \in anc'[x] : st'[u] # "fresh" /\ anc'[u] \subseteq anc'[x]
    BY <1>1, <1>2
  <1>4. \A x \in Obj : Live(x)' /\ owner'[x] \in Txn =>
            anc'[x] = {owner'[x]} \cup anc'[owner'[x]]
    <2> SUFFICES ASSUME NEW x \in Obj, Live(x)', owner'[x] \in Txn
                 PROVE  anc'[x] = {owner'[x]} \cup anc'[owner'[x]]
      OBVIOUS
    <2>1. x \notin R /\ Live(x) /\ owner'[x] = owner[x]
      BY <1>1 DEF Live
    <2>2. anc[x] = {owner[x]} \cup anc[owner[x]]
      BY <2>1 DEF Up, AncestryInv
    <2>3. QED
      BY <1>1, <1>2, <2>1, <2>2
  <1>5. QED
    BY <1>1, <1>3, <1>4, StepKeepsLines

-----------------------------------------------------------------------------
LEMMA UpInit == Init => Up
  BY TypeInit, InitIInv, KindsDisjoint DEF Init, Up, AncestryInv, PassedInv, Live

LEMMA UpNext == Up /\ [Next]_vars => Up'
  <1> SUFFICES ASSUME Up, [Next]_vars PROVE Up'
    OBVIOUS
  <1> USE KindsDisjoint
  <1>1. TypeOK' /\ IInv'
    BY TypeNext, IInvNext DEF Up
  <1>2. \A o \in Obj : Usable(o) => o \in Allocated
    BY DEF Usable
  <1>3. ASSUME NEW e \in Env, EnvNew(e) PROVE AncestryInv' /\ PassedInv'
    BY <1>1, <1>3, WrapKeepsLines DEF EnvNew
  <1>4. ASSUME NEW e \in Env, EnvOpen(e) PROVE AncestryInv' /\ PassedInv'
    BY <1>1, <1>4, StutterKeepsLines DEF EnvOpen
  <1>5. ASSUME NEW e \in Env, EnvClose(e) \/ EnvRemove(e) PROVE AncestryInv' /\ PassedInv'
    BY <1>1, <1>5, CloseKeepsLines DEF EnvClose, EnvRemove, CloseAll, Forget, Live
  <1>6. ASSUME NEW d \in DB, NEW e \in Env \cup {NoObj}, DBNew(d, e)
        PROVE  AncestryInv' /\ PassedInv'
    BY <1>1, <1>2, <1>6, WrapKeepsLines DEF DBNew
  <1>7. ASSUME NEW d \in DB, NEW e \in Env, DBNewFails(d, e)
        PROVE  AncestryInv' /\ PassedInv'
    BY <1>1, <1>7, StutterKeepsLines DEF DBNewFails, Up, TypeOK
  <1>8. ASSUME NEW d \in DB, NEW t \in Txn \cup {NoObj}, DBOpen(d, t)
        PROVE  AncestryInv' /\ PassedInv'
    BY <1>8, OpenKeepsLines DEF DBOpen, Effective
  <1>9. ASSUME NEW d \in DB, DBClose(d) PROVE AncestryInv' /\ PassedInv'
    BY <1>1, <1>9, CloseKeepsLines DEF DBClose, CloseAll, Forget, Live
  <1>10. ASSUME NEW c \in Cursor, NEW d \in DB, NEW t \in Txn \cup {NoObj},
                CursorNew(c, d, t)
         PROVE  AncestryInv' /\ PassedInv'
    BY <1>1, <1>2, <1>10, WrapKeepsLines DEF CursorNew
  <1>11. ASSUME NEW c \in Cursor, NEW b \in Cursor, CursorDup(c, b)
         PROVE  AncestryInv' /\ PassedInv'
    <2>1. owner[b] \in DB \cap Allocated
      BY <1>11 DEF CursorDup, Up, IInv, TreeInv, Shape, ChildrenUnderOpenDB, Allocated, Live
    <2>2. QED
      BY <1>1, <1>11, <2>1, WrapKeepsLines DEF CursorDup
  <1>12. ASSUME NEW s \in DBSeq, NEW d \in DB, SeqNew(s, d)
         PROVE  AncestryInv' /\ PassedInv'
    BY <1>1, <1>2, <1>12, WrapKeepsLines DEF SeqNew
  <1>13. ASSUME NEW s \in DBSeq, NEW d \in DB, SeqNewFails(s, d)
         PROVE  AncestryInv' /\ PassedInv'
    BY <1>1, <1>13, StutterKeepsLines DEF SeqNewFails, Up, TypeOK
  <1>14. ASSUME NEW s \in DBSeq, NEW t \in Txn \cup {NoObj}, SeqOpen(s, t)
         PROVE  AncestryInv' /\ PassedInv'
    BY <1>14, OpenKeepsLines DEF SeqOpen, Effective
  <1>15. ASSUME NEW l \in Leaf, NEW e \in Env, LeafNew(l, e)
         PROVE  AncestryInv' /\ PassedInv'
    BY <1>1, <1>2, <1>15, WrapKeepsLines DEF LeafNew
  <1>16. ASSUME NEW o \in Cursor \cup DBSeq \cup Leaf, HandleClose(o)
         PROVE  AncestryInv' /\ PassedInv'
    BY <1>1, <1>16, CloseKeepsLines DEF HandleClose, CloseAll, Forget, Live
  <1>17. ASSUME NEW t \in Txn, NEW e \in Env, NEW p \in Txn \cup {NoObj},
                TxnBegin(t, e, p)
         PROVE  AncestryInv' /\ PassedInv'
    <2> DEFINE q == IF Effective(p) = NoObj THEN e ELSE p
    <2>1. q \in Allocated \cap Obj
      BY <1>2, <1>17 DEF TxnBegin, Effective, TxnArg
    <2>2. Wrap(t, q, NoObj) /\ anc' = [anc EXCEPT ![t] = {q} \cup anc[q]] /\ openIn' = openIn
      BY <1>17 DEF TxnBegin
    <2> HIDE DEF q
    <2>3. QED
      BY <1>1, <2>1, <2>2, WrapKeepsLines
  <1>18. ASSUME NEW e \in Env, NEW R \in SUBSET Txn, TxnRecover(e, R)
         PROVE  AncestryInv' /\ PassedInv'
    BY <1>1, <1>18, RecoverKeepsLines
  <1>19. ASSUME NEW t \in Txn, NEW ok \in BOOLEAN, TxnPrepare(t, ok)
         PROVE  AncestryInv' /\ PassedInv'
    BY <1>1, <1>19, StutterKeepsLines DEF TxnPrepare
  <1>20. ASSUME NEW t \in Txn, TxnCommit(t) PROVE AncestryInv' /\ PassedInv'
    BY <1>20, CommitKeepsLines
  <1>21. ASSUME NEW t \in Txn, TxnAbort(t) PROVE AncestryInv' /\ PassedInv'
    BY <1>1, <1>21, CloseKeepsLines DEF TxnAbort, CloseAll, Forget, Live
  <1>22. ASSUME NEW o \in Obj, DropRef(o) PROVE AncestryInv' /\ PassedInv'
    BY <1>1, <1>22, StutterKeepsLines DEF DropRef
  <1>23. ASSUME NEW o \in Obj, Dealloc(o) PROVE AncestryInv' /\ PassedInv'
    <2> DEFINE C == IF Live(o) THEN OwnCascade(o) ELSE {}
    <2>1. Unlink(C) /\ st' = Freed(o, C) /\ owner' = [owner EXCEPT ![o] = NoObj]
          /\ UNCHANGED <<anc, openIn>>
      BY <1>23 DEF Dealloc
    <2> HIDE DEF C
    <2>2. \A x \in Obj : /\ st'[x] = "fresh" => st[x] = "fresh"
                         /\ st'[x] = "live" => st[x] = "live" /\ x \notin C /\ x # o
      BY <2>1 DEF Freed, Forget, Live
    <2>3. \A x \in Obj : x # o => owner'[x] = owner[x]
      BY <2>1 DEF Up, TypeOK
    <2>4. QED
      BY <1>1, <2>1, <2>2, <2>3, CloseKeepsLines
  <1>24. ASSUME UNCHANGED vars PROVE AncestryInv' /\ PassedInv'
    BY <1>1, <1>24, StutterKeepsLines DEF vars
  <1>25. AncestryInv' /\ PassedInv'
    BY <1>3, <1>4, <1>5, <1>6, <1>7, <1>8, <1>9, <1>10, <1>11, <1>12, <1>13,
       <1>14, <1>15, <1>16, <1>17, <1>18, <1>19, <1>20, <1>21, <1>22, <1>23, <1>24
    DEF Next
  <1>26. QED
    BY <1>1, <1>25 DEF Up

(* However deep transactions nest, what was opened in one of them stays      *)
(* under it or one of its parents until all of them are over.                *)
THEOREM InheritanceIsStepwise == Spec => []InheritedStepByStep
  <1>1. Up => InheritedStepByStep
    <2> SUFFICES ASSUME Up, NEW o \in DB \cup DBSeq, Live(o), openIn[o] # NoObj
                 PROVE  \/ txnOf[o] \in Line(o)
                        \/ txnOf[o] = NoObj /\ \A t \in Line(o) : ~Live(t)
      BY DEF InheritedStepByStep
    <2>1. QED
      BY DEF Up, PassedInv
  <1>2. QED
    BY <1>1, UpInit, UpNext, PTL DEF Spec

-----------------------------------------------------------------------------
(* What a list holds is open, and so is what a cascade finds.                *)
LEMMA ListsLive ==
    ASSUME TypeOK, TreeInv, ~Undefined, NEW p \in Obj
    PROVE  /\ \A x \in kids[p] : x \in Obj /\ Live(x) /\ owner[x] = p
           /\ \A x \in txnKids[p] : x \in Obj /\ Live(x)
  BY KindsDisjoint DEF TreeInv, SiblingLists, TxnLists, Undefined, TypeOK

LEMMA DBCascadeLive ==
    ASSUME TypeOK, TreeInv, ~Undefined, NEW D \in SUBSET DB, \A d \in D : Live(d)
    PROVE  \A x \in DBCascade(D) : Live(x)
  BY ListsLive, KindsDisjoint DEF DBCascade

LEMMA TxnCascadeLive ==
    ASSUME TypeOK, TreeInv, ~Undefined, NEW T \in SUBSET Txn, \A t \in T : Live(t)
    PROVE  \A x \in TxnCascade(T) : Live(x)
  <1>1. \A x \in Enclosed(T) : Live(x)
    BY ListsLive, KindsDisjoint DEF Enclosed
  <1>2. \A x \in DBCascade(Enclosed(T) \cap DB) : Live(x)
    BY <1>1, DBCascadeLive
  <1>3. QED
    BY <1>1, <1>2 DEF TxnCascade

LEMMA EnvCascadeLive ==
    ASSUME TypeOK, TreeInv, ~Undefined, NEW e \in Env, Live(e)
    PROVE  \A x \in EnvCascade(e) : Live(x)
  <1>1. \A x \in kids[e] : Live(x)
    BY ListsLive, KindsDisjoint
  <1>2. \A x \in TxnCascade(kids[e] \cap Txn) : Live(x)
    BY <1>1, TxnCascadeLive
  <1>3. \A x \in DBCascade(kids[e] \cap DB) : Live(x)
    BY <1>1, DBCascadeLive
  <1>4. QED
    BY <1>1, <1>2, <1>3 DEF EnvCascade

-----------------------------------------------------------------------------
(* Nothing native belongs to a wrapper before it is made, and only a wrapper *)
(* that was closed leaves a prepared transaction behind.                     *)
Life ==
    \A o \in Obj : /\ st[o] = "fresh" => native[o] = "none"
                   /\ native[o] = "left" => o \in Txn /\ ~Live(o)

Final(o) ==
    /\ st[o] \in {"dead", "gone"} => st'[o] \in {"dead", "gone"}
    /\ native[o] \in {"down", "left"} => native'[o] = native[o]

GoodStep == Life' /\ \A o \in Obj : Final(o)

LEMMA CloseIsGood ==
    ASSUME TypeOK, Life, NEW Y, NEW R \in SUBSET Txn, NEW L \in SUBSET Txn,
           native' = Release(Y, R, L),
           \A x \in Y \cup R \cup L : Live(x),
           \A x \in L : native[x] # "down",
           \A o \in Obj : /\ st[o] \in {"dead", "gone"} => st'[o] \in {"dead", "gone"}
                          /\ st'[o] = "fresh" => st[o] = "fresh"
                          /\ st'[o] = "live" => st[o] = "live" /\ o \notin L
    PROVE  GoodStep
  <1> SUFFICES ASSUME NEW o \in Obj
               PROVE  /\ st'[o] = "fresh" => native'[o] = "none"
                      /\ native'[o] = "left" => o \in Txn /\ st'[o] # "live"
                      /\ Final(o)
    BY DEF GoodStep, Life, Live
  <1>1. native'[o] = IF o \in Taken(Y, R) THEN "down"
                     ELSE IF o \in L THEN "left" ELSE native[o]
    BY DEF Release
  <1>2. o \in Taken(Y, R) => Live(o) \/ native[o] = "up"
    BY DEF Taken
  <1>3. native[o] = "left" => ~Live(o) /\ o \in Txn
    BY DEF Life
  <1>4. st[o] = "fresh" => native[o] = "none" /\ ~Live(o)
    BY DEF Life, Live
  <1>5. o \in L => Live(o) /\ o \in Txn /\ native[o] # "down"
    OBVIOUS
  <1>6. Final(o)
    BY <1>1, <1>2, <1>3, <1>5 DEF Final
  <1>7. QED
    BY <1>1, <1>2, <1>3, <1>4, <1>5, <1>6 DEF Live

LEMMA NewIsGood ==
    ASSUME TypeOK, Life, NEW o \in Obj, NEW n \in {"up", "none"}, st[o] = "fresh",
           NEW s \in {"live", "torn"}, st' = [st EXCEPT ![o] = s],
           native' = [native EXCEPT ![o] = n]
    PROVE  GoodStep
  BY DEF GoodStep, Life, Final, Live, TypeOK

LEMMA QuietIsGood ==
    ASSUME Life, UNCHANGED <<st, native>>
    PROVE  GoodStep
  BY DEF GoodStep, Life, Final, Live

\* What the functions that close do to the wrappers.
LEMMA ForgetIsGood ==
    ASSUME TypeOK, NEW S, NEW L, L \subseteq S, NEW g \in Obj,
           st' = Forget(S) \/ (st' = Freed(g, S) /\ g \in Allocated)
    PROVE  \A o \in Obj : /\ st[o] \in {"dead", "gone"} => st'[o] \in {"dead", "gone"}
                          /\ st'[o] = "fresh" => st[o] = "fresh"
                          /\ st'[o] = "live" => st[o] = "live" /\ o \notin L
  BY DEF Forget, Freed, Allocated, Live, TypeOK

LEMMA WrapIsGood ==
    ASSUME TypeOK, Life, NEW o \in Obj, NEW p, NEW t, Wrap(o, p, t),
           native' = [native EXCEPT ![o] = "up"]
    PROVE  GoodStep
  BY NewIsGood DEF Wrap

LEMMA TornIsGood ==
    ASSUME TypeOK, Life, NEW o \in Obj, st[o] = "fresh",
           st' = [st EXCEPT ![o] = "torn"], UNCHANGED native
    PROVE  GoodStep
  BY DEF GoodStep, Life, Final, Live, TypeOK

(* The close of an environment, its removal, and the deallocation of one.    *)
LEMMA EnvCloseIsGood ==
    ASSUME TypeOK, IInv, Life, NEW e \in Env, EnvClose(e) \/ EnvRemove(e)
    PROVE  GoodStep
  <1> DEFINE S == EnvCascade(e)
             T == S \cap Txn
  <1>1. /\ Live(e) /\ ~Undefined /\ st' = Forget(S)
        /\ \E Y \in {S, S \cup {e}} : native' = Release(Y, Resolved(T), Kept(T))
    BY DEF EnvClose, EnvRemove, CloseAll, Calm
  <1>2. \A x \in S : Live(x)
    BY <1>1, EnvCascadeLive DEF IInv
  <1>3. \A t \in T : native[t] # "down"
    <2>1. \A t \in T : Live(t) /\ owner[t] = e
      BY <1>1, EnvCascadeTxns
    <2>2. QED
      BY <2>1, KindsDisjoint DEF IInv, NativeInv
  <1> HIDE DEF S
  <1>4. Resolved(T) \in SUBSET Txn /\ Kept(T) \in SUBSET Txn
        /\ Resolved(T) \subseteq T /\ Kept(T) \subseteq T
    BY DEF Resolved, Kept
  <1>5. \A o \in Obj : /\ st[o] \in {"dead", "gone"} => st'[o] \in {"dead", "gone"}
                       /\ st'[o] = "fresh" => st[o] = "fresh"
                       /\ st'[o] = "live" => st[o] = "live" /\ o \notin Kept(T)
    BY <1>1, <1>4, ForgetIsGood, KindsDisjoint
  <1>6. PICK Y \in {S, S \cup {e}} : native' = Release(Y, Resolved(T), Kept(T))
    BY <1>1
  <1>7. \A x \in Y \cup Resolved(T) \cup Kept(T) : Live(x)
    BY <1>1, <1>2, <1>4
  <1>8. \A x \in Kept(T) : native[x] # "down"
    BY <1>3, <1>4
  <1> HIDE DEF T
  <1>9. QED
    BY <1>4, <1>5, <1>6, <1>7, <1>8, CloseIsGood

LEMMA DeallocIsGood ==
    ASSUME TypeOK, IInv, Life, NEW o \in Obj, Dealloc(o)
    PROVE  GoodStep
  <1> DEFINE C == IF Live(o) THEN OwnCascade(o) ELSE {}
             T == C \cap Txn
  <1>1. /\ st' = Freed(o, C) /\ native' = Release(C, Resolved(T), Kept(T))
        /\ ~Undefined /\ ~Stale(o) /\ o \in Allocated
        /\ \A x \in Allocated : owner[x] # o
    BY DEF Dealloc, Garbage
  <1>2. \A x \in C : Live(x)
    <2>1. Live(o) /\ o \in Env => \A x \in EnvCascade(o) : Live(x)
      BY <1>1, EnvCascadeLive DEF IInv
    <2>2. Live(o) /\ o \in DB => \A x \in DBCascade({o}) : Live(x)
      BY <1>1, DBCascadeLive DEF IInv
    <2>3. Live(o) /\ o \in Txn => \A x \in TxnCascade({o}) : Live(x)
      BY <1>1, TxnCascadeLive DEF IInv
    <2>4. QED
      BY <2>1, <2>2, <2>3 DEF OwnCascade
  <1>3. T \subseteq {o}
    BY <1>1, OwnCascadeKinds
  <1>4. \A t \in T : native[t] # "down"
    BY <1>1, <1>2, <1>3 DEF Stale
  <1> HIDE DEF C
  <1>5. Resolved(T) \in SUBSET Txn /\ Kept(T) \in SUBSET Txn
        /\ Resolved(T) \subseteq T /\ Kept(T) \subseteq C /\ Kept(T) \subseteq T
    BY DEF Resolved, Kept
  <1>6. \A x \in Obj : /\ st[x] \in {"dead", "gone"} => st'[x] \in {"dead", "gone"}
                       /\ st'[x] = "fresh" => st[x] = "fresh"
                       /\ st'[x] = "live" => st[x] = "live" /\ x \notin Kept(T)
    BY <1>1, <1>5, ForgetIsGood
  <1>7. \A x \in C \cup Resolved(T) \cup Kept(T) : Live(x)
    BY <1>2, <1>5
  <1>8. \A x \in Kept(T) : native[x] # "down"
    BY <1>4, <1>5
  <1> HIDE DEF T
  <1>9. QED
    BY <1>1, <1>5, <1>6, <1>7, <1>8, CloseIsGood

(* Closes that leave no transaction alone.                                   *)
LEMMA PlainCloseIsGood ==
    ASSUME TypeOK, Life, NEW S, \A x \in S : Live(x),
           st' = Forget(S), native' = Release(S, S \cap Txn, {})
    PROVE  GoodStep
  <1>1. \A o \in Obj : /\ st[o] \in {"dead", "gone"} => st'[o] \in {"dead", "gone"}
                       /\ st'[o] = "fresh" => st[o] = "fresh"
                       /\ st'[o] = "live" => st[o] = "live" /\ o \notin {}
    BY ForgetIsGood
  <1>2. S \cap Txn \in SUBSET Txn /\ {} \in SUBSET Txn
        /\ \A x \in S \cup (S \cap Txn) \cup {} : Live(x)
    OBVIOUS
  <1>3. QED
    BY <1>1, <1>2, CloseIsGood

LEMMA StepIsGood ==
    ASSUME TypeOK, IInv, Life, [Next]_vars
    PROVE  GoodStep
  <1> USE KindsDisjoint
  <1>1. ASSUME NEW e \in Env, EnvNew(e) PROVE GoodStep
    BY <1>1, WrapIsGood DEF EnvNew
  <1>2. ASSUME NEW e \in Env, EnvOpen(e) PROVE GoodStep
    BY <1>2, QuietIsGood DEF EnvOpen
  <1>3. ASSUME NEW e \in Env, EnvClose(e) \/ EnvRemove(e) PROVE GoodStep
    BY <1>3, EnvCloseIsGood
  <1>4. ASSUME NEW d \in DB, NEW e \in Env \cup {NoObj}, DBNew(d, e) PROVE GoodStep
    BY <1>4, WrapIsGood DEF DBNew
  <1>5. ASSUME NEW d \in DB, NEW e \in Env, DBNewFails(d, e) PROVE GoodStep
    BY <1>5, TornIsGood DEF DBNewFails
  <1>6. ASSUME NEW d \in DB, NEW t \in Txn \cup {NoObj}, DBOpen(d, t) PROVE GoodStep
    BY <1>6, QuietIsGood DEF DBOpen
  <1>7. ASSUME NEW d \in DB, DBClose(d) PROVE GoodStep
    <2> DEFINE S == DBCascade({d})
    <2>1. \A x \in S : Live(x)
      BY <1>7, DBCascadeLive DEF DBClose, Calm, IInv
    <2>2. S \cap Txn = {}
      BY <1>7, CascadeKinds DEF DBClose, Calm, IInv
    <2>3. st' = Forget(S) /\ native' = Release(S, {}, {})
      BY <1>7 DEF DBClose, CloseAll
    <2> HIDE DEF S
    <2>4. QED
      BY <2>1, <2>2, <2>3, PlainCloseIsGood
  <1>8. ASSUME NEW c \in Cursor, NEW d \in DB, NEW t \in Txn \cup {NoObj},
               CursorNew(c, d, t)
        PROVE  GoodStep
    BY <1>8, WrapIsGood DEF CursorNew
  <1>9. ASSUME NEW c \in Cursor, NEW b \in Cursor, CursorDup(c, b) PROVE GoodStep
    BY <1>9, WrapIsGood DEF CursorDup
  <1>10. ASSUME NEW s \in DBSeq, NEW d \in DB, SeqNew(s, d) PROVE GoodStep
    BY <1>10, WrapIsGood DEF SeqNew
  <1>11. ASSUME NEW s \in DBSeq, NEW d \in DB, SeqNewFails(s, d) PROVE GoodStep
    BY <1>11, TornIsGood DEF SeqNewFails
  <1>12. ASSUME NEW s \in DBSeq, NEW t \in Txn \cup {NoObj}, SeqOpen(s, t)
         PROVE  GoodStep
    BY <1>12, QuietIsGood DEF SeqOpen
  <1>13. ASSUME NEW l \in Leaf, NEW e \in Env, LeafNew(l, e) PROVE GoodStep
    BY <1>13, WrapIsGood DEF LeafNew
  <1>14. ASSUME NEW o \in Cursor \cup DBSeq \cup Leaf, HandleClose(o) PROVE GoodStep
    <2>1. /\ Live(o) /\ o \in Obj /\ {o} \cap Txn = {}
          /\ st' = Forget({o}) /\ native' = Release({o}, {}, {})
      BY <1>14 DEF HandleClose, CloseAll
    <2>2. QED
      BY <2>1, PlainCloseIsGood
  <1>15. ASSUME NEW t \in Txn, NEW e \in Env, NEW p \in Txn \cup {NoObj},
                TxnBegin(t, e, p)
         PROVE  GoodStep
    BY <1>15, WrapIsGood DEF TxnBegin
  <1>16. ASSUME NEW e \in Env, NEW R \in SUBSET Txn, TxnRecover(e, R) PROVE GoodStep
    BY <1>16 DEF TxnRecover, GoodStep, Life, Final, Live, TypeOK
  <1>17. ASSUME NEW t \in Txn, NEW ok \in BOOLEAN, TxnPrepare(t, ok) PROVE GoodStep
    BY <1>17, QuietIsGood DEF TxnPrepare, GoodStep, Life, Final, Live, TypeOK, Release, Taken
  <1>18. ASSUME NEW t \in Txn, TxnCommit(t) PROVE GoodStep
    <2> DEFINE C == txnKids[t] \cap Cursor
               S == IF Live(t) THEN C \cup {t} ELSE C
    <2>1. \A x \in S : Live(x)
      BY <1>18, ListsLive DEF TxnCommit, Calm, IInv
    <2>2. st' = Forget(S) /\ native' = Release(S, S \cap Txn, {})
      BY <1>18 DEF TxnCommit
    <2> HIDE DEF S
    <2>3. QED
      BY <2>1, <2>2, PlainCloseIsGood
  <1>19. ASSUME NEW t \in Txn, TxnAbort(t) PROVE GoodStep
    <2> DEFINE S == IF Live(t) THEN TxnCascade({t}) ELSE txnKids[t] \cap Cursor
    <2>1. \A x \in S : Live(x)
      BY <1>19, ListsLive, TxnCascadeLive DEF TxnAbort, Calm, IInv
    <2>2. st' = Forget(S) /\ native' = Release(S, S \cap Txn, {})
      BY <1>19 DEF TxnAbort, CloseAll
    <2> HIDE DEF S
    <2>3. QED
      BY <2>1, <2>2, PlainCloseIsGood
  <1>20. ASSUME NEW o \in Obj, DropRef(o) PROVE GoodStep
    BY <1>20, QuietIsGood DEF DropRef
  <1>21. ASSUME NEW o \in Obj, Dealloc(o) PROVE GoodStep
    BY <1>21, DeallocIsGood
  <1>22. CASE UNCHANGED vars
    BY <1>22, QuietIsGood DEF vars
  <1>23. QED
    BY <1>1, <1>2, <1>3, <1>4, <1>5, <1>6, <1>7, <1>8, <1>9, <1>10, <1>11, <1>12,
       <1>13, <1>14, <1>15, <1>16, <1>17, <1>18, <1>19, <1>20, <1>21, <1>22
    DEF Next

(* A closed wrapper stays closed, and the native handle it gave up is never  *)
(* closed, resolved or prepared again.                                       *)
THEOREM ClosedStaysClosed == Spec => ClosedForGood
  <1>1. Init => Life
    BY DEF Init, Life
  <1>2. TypeOK /\ IInv /\ Life /\ [Next]_vars => Life'
    BY StepIsGood DEF GoodStep
  <1>3. TypeOK /\ IInv /\ Life /\ [Next]_vars =>
           [\A o \in Obj : /\ st[o] \in {"dead", "gone"} => st'[o] \in {"dead", "gone"}
                           /\ native[o] \in {"down", "left"} => native'[o] = native[o]]_vars
    BY StepIsGood DEF GoodStep, Final
  <1>4. QED
    BY <1>1, <1>2, <1>3, Inductive, PTL DEF Spec, ClosedForGood

-----------------------------------------------------------------------------
(* What hangs under an environment: its own children, the children of its    *)
(* DBs, and what its outermost transactions enclose.                         *)
Under(e) ==
    {o \in Obj : \/ owner[o] = e
                 \/ owner[o] # NoObj /\ owner[o] \in DB /\ owner[owner[o]] = e
                 \/ txnOf[o] # NoObj /\ Live(txnOf[o]) /\ owner[txnOf[o]] = e}

(* The cascade of an environment that was opened reaches all of it.          *)
LEMMA CascadeReaches ==
    ASSUME TypeOK, TreeInv, NEW e \in Env, e \in opened,
           NEW o \in Under(e), Live(o)
    PROVE  o \in EnvCascade(e)
  <1> USE KindsDisjoint
  <1>0. /\ o \in Obj
        /\ EnvCascade(e) = {e} \cup TxnCascade(kids[e] \cap Txn) \cup DBCascade(kids[e] \cap DB)
                              \cup (kids[e] \cap Leaf)
    BY DEF Under, EnvCascade
  <1>1. CASE owner[o] = e
    <2>1. o \in kids[e]
      BY <1>0, <1>1 DEF TreeInv, SiblingLists
    <2>2. o \in Txn \cup DB \cup Leaf
      BY <1>0, <1>1, ObjAssumption
      DEF TreeInv, Shape, Env, DB, Txn, Leaf, Cursor, DBSeq, Kinds
    <2>3. QED
      BY <1>0, <2>1, <2>2 DEF TxnCascade, DBCascade
  <1>2. CASE owner[o] \in DB /\ owner[owner[o]] = e
    <2>1. o \in Cursor \cup DBSeq
      BY <1>0, <1>2, ObjAssumption
      DEF TreeInv, Shape, Env, DB, Txn, Leaf, Cursor, DBSeq, Kinds
    <2>2. Live(owner[o])
      BY <2>1 DEF TreeInv, ChildrenUnderOpenDB
    <2>3. owner[o] \in kids[e] /\ o \in kids[owner[o]]
      BY <1>0, <1>2, <2>2 DEF TreeInv, SiblingLists
    <2>4. QED
      BY <1>0, <1>2, <2>3 DEF DBCascade
  <1>3. CASE txnOf[o] # NoObj /\ Live(txnOf[o]) /\ owner[txnOf[o]] = e
    <2>1. txnOf[o] \in Txn
      BY <1>0, <1>3 DEF TypeOK
    <2>2. txnOf[o] \in kids[e] /\ o \in txnKids[txnOf[o]]
      BY <1>0, <1>3, <2>1 DEF TreeInv, SiblingLists, TxnLists
    <2>3. QED
      BY <1>0, <2>1, <2>2 DEF TxnCascade, Enclosed
  <1>4. QED
    BY <1>1, <1>2, <1>3 DEF Under

(* An environment that nothing refers to has nothing open under it.          *)
LEMMA GarbageHasNone ==
    ASSUME TypeOK, TreeInv, NEW e \in Env, e \in Garbage, NEW o \in Under(e)
    PROVE  ~Live(o)
  <1> USE KindsDisjoint
  <1>0. /\ o \in Obj
        /\ \A x \in Obj : Live(x) => owner[x] # e
    BY DEF Under, Garbage, Allocated, Live
  <1>1. CASE owner[o] = e
    BY <1>0, <1>1
  <1>2. CASE owner[o] \in DB /\ owner[owner[o]] = e
    <2>1. Live(o) => o \in Cursor \cup DBSeq
      BY <1>0, <1>2, ObjAssumption
      DEF TreeInv, Shape, Env, DB, Txn, Leaf, Cursor, DBSeq, Kinds
    <2>2. Live(o) => Live(owner[o])
      BY <2>1 DEF TreeInv, ChildrenUnderOpenDB
    <2>3. QED
      BY <1>0, <1>2, <2>2
  <1>3. CASE txnOf[o] # NoObj /\ Live(txnOf[o]) /\ owner[txnOf[o]] = e
    BY <1>0, <1>3 DEF TypeOK
  <1>4. QED
    BY <1>1, <1>2, <1>3 DEF Under

(* Only its own close, removal or deallocation makes an environment give up  *)
(* its handle.                                                               *)
LEMMA WhoClosesEnv ==
    ASSUME TypeOK, IInv, [Next]_vars, NEW e \in Env, Live(e), st'[e] # "live"
    PROVE  EnvClose(e) \/ EnvRemove(e) \/ Dealloc(e)
  <1> USE KindsDisjoint
  <1> SUFFICES ASSUME ~Dealloc(e), ~EnvClose(e), ~EnvRemove(e) PROVE FALSE
    OBVIOUS
  <1>1. ASSUME NEW x \in Obj, NEW s, st[x] = "fresh", st' = [st EXCEPT ![x] = s] PROVE FALSE
    BY <1>1 DEF Live, TypeOK
  <1>2. ASSUME NEW S, e \notin S, st' = Forget(S) PROVE FALSE
    BY <1>2 DEF Forget, Live
  <1>3. ASSUME NEW f \in Env, EnvClose(f) \/ EnvRemove(f) PROVE FALSE
    <2>1. f # e /\ Live(f) /\ ~Undefined /\ st' = Forget(EnvCascade(f))
      BY <1>3 DEF EnvClose, EnvRemove, CloseAll, Calm
    <2>2. e \notin EnvCascade(f)
      BY <2>1, EnvCascadeTxns
    <2>3. QED
      BY <1>2, <2>1, <2>2
  <1>4. ASSUME NEW d \in DB, DBClose(d) PROVE FALSE
    <2>1. e \notin DBCascade({d}) /\ st' = Forget(DBCascade({d}))
      BY <1>4, CascadeKinds DEF IInv, DBClose, CloseAll, Calm
    <2>2. QED
      BY <1>2, <2>1
  <1>5. ASSUME NEW o \in Cursor \cup DBSeq \cup Leaf, HandleClose(o) PROVE FALSE
    BY <1>2, <1>5 DEF HandleClose, CloseAll
  <1>6. ASSUME NEW t \in Txn, TxnCommit(t) PROVE FALSE
    <2> DEFINE S == IF Live(t) THEN (txnKids[t] \cap Cursor) \cup {t} ELSE txnKids[t] \cap Cursor
    <2>1. e \notin S /\ st' = Forget(S)
      BY <1>6 DEF TxnCommit
    <2>2. QED
      BY <1>2, <2>1
  <1>7. ASSUME NEW t \in Txn, TxnAbort(t) PROVE FALSE
    <2> DEFINE S == IF Live(t) THEN TxnCascade({t}) ELSE txnKids[t] \cap Cursor
    <2>1. e \notin S /\ st' = Forget(S)
      BY <1>7, CascadeKinds DEF IInv, TxnAbort, CloseAll, Calm
    <2>2. QED
      BY <1>2, <2>1
  <1>8. ASSUME NEW o \in Obj, Dealloc(o) PROVE FALSE
    <2> DEFINE C == IF Live(o) THEN OwnCascade(o) ELSE {}
    <2>1. /\ o # e /\ st' = Freed(o, C) /\ ~Undefined
          /\ \A x \in Allocated : owner[x] # o
      BY <1>8 DEF Dealloc, Garbage
    <2>2. e \notin C
      BY <2>1, OwnCascadeKinds
    <2> HIDE DEF C
    <2>3. QED
      BY <2>1, <2>2 DEF Freed, Forget, Live
  <1>9. ASSUME NEW x \in Obj, NEW p, NEW t, Wrap(x, p, t) PROVE FALSE
    BY <1>1, <1>9 DEF Wrap
  <1>10. ASSUME UNCHANGED st PROVE FALSE
    BY <1>10 DEF Live
  <1>11. ASSUME NEW f \in Env, NEW R \in SUBSET Txn, TxnRecover(f, R) PROVE FALSE
    BY <1>11 DEF TxnRecover, Live
  <1>12. ~ \E f \in Env : EnvNew(f) \/ EnvOpen(f) \/ EnvClose(f) \/ EnvRemove(f)
    BY <1>3, <1>9, <1>10 DEF EnvNew, EnvOpen
  <1>13. ~ \E d \in DB, f \in Env \cup {NoObj} : DBNew(d, f)
    BY <1>9 DEF DBNew
  <1>14. ~ \E d \in DB, f \in Env : DBNewFails(d, f)
    BY <1>1 DEF DBNewFails
  <1>15. ~ \E d \in DB, t \in Txn \cup {NoObj} : DBOpen(d, t)
    BY <1>10 DEF DBOpen
  <1>16. ~ \E c \in Cursor, d \in DB, t \in Txn \cup {NoObj} : CursorNew(c, d, t)
    BY <1>9 DEF CursorNew
  <1>17. ~ \E c, b \in Cursor : CursorDup(c, b)
    BY <1>9 DEF CursorDup
  <1>18. ~ \E s \in DBSeq, d \in DB : SeqNew(s, d) \/ SeqNewFails(s, d)
    BY <1>1, <1>9 DEF SeqNew, SeqNewFails
  <1>19. ~ \E s \in DBSeq, t \in Txn \cup {NoObj} : SeqOpen(s, t)
    BY <1>10 DEF SeqOpen
  <1>20. ~ \E l \in Leaf, f \in Env : LeafNew(l, f)
    BY <1>9 DEF LeafNew
  <1>21. ~ \E t \in Txn, f \in Env, p \in Txn \cup {NoObj} : TxnBegin(t, f, p)
    BY <1>9 DEF TxnBegin
  <1>22. ~ \E t \in Txn, ok \in BOOLEAN : TxnPrepare(t, ok)
    BY <1>10 DEF TxnPrepare
  <1>23. ~ \E o \in Obj : DropRef(o) \/ Dealloc(o)
    BY <1>8, <1>10 DEF DropRef
  <1>24. QED
    BY <1>4, <1>5, <1>6, <1>7, <1>10, <1>11, <1>12, <1>13, <1>14, <1>15, <1>16, <1>17,
       <1>18, <1>19, <1>20, <1>21, <1>22, <1>23
    DEF Next, vars

(* When an environment gives up its handle, nothing stays open under it.     *)
THEOREM EnvTakesAllAlong == Spec => EnvCloseLeavesNothingOpen
  <1>1. ASSUME TypeOK, IInv, [Next]_vars, NEW e \in Env, Live(e), st'[e] # "live",
               NEW o \in Under(e)
        PROVE  st'[o] # "live"
    <2> USE KindsDisjoint
    <2>1. CASE EnvClose(e) \/ EnvRemove(e)
      <3>1. st' = Forget(EnvCascade(e))
        BY <2>1 DEF EnvClose, EnvRemove, CloseAll
      <3>2. e \in opened
        BY <1>1, <3>1 DEF EnvCascade, Forget, Live
      <3>3. Live(o) => o \in EnvCascade(e)
        BY <1>1, <3>2, CascadeReaches DEF IInv
      <3>4. QED
        BY <3>1, <3>3 DEF Forget, Live, Under
    <2>2. CASE Dealloc(e)
      <3>1. ~Live(o) /\ o \in Obj
        BY <1>1, <2>2, GarbageHasNone DEF Dealloc, IInv, Under
      <3>2. \E C : st' = Freed(e, C)
        BY <2>2 DEF Dealloc
      <3>3. QED
        BY <3>1, <3>2 DEF Freed, Forget, Live
    <2>3. QED
      BY <1>1, <2>1, <2>2, WhoClosesEnv
  <1>2. TypeOK /\ IInv /\ [Next]_vars =>
           [\A e \in Env : Live(e) /\ st'[e] # "live" =>
              \A o \in Obj :
                 \/ owner[o] = e
                 \/ owner[o] # NoObj /\ owner[o] \in DB /\ owner[owner[o]] = e
                 \/ txnOf[o] # NoObj /\ Live(txnOf[o]) /\ owner[txnOf[o]] = e
                 => st'[o] # "live"]_vars
    BY <1>1 DEF Under
  <1>3. QED
    BY <1>2, Inductive, PTL DEF Spec, EnvCloseLeavesNothingOpen
=============================================================================
