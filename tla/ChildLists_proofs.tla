------------------------- MODULE ChildLists_proofs --------------------------
(* Proofs about the list macros, for any number of DBs and transactions.     *)
EXTENDS ChildLists, FiniteSetTheorems, SequenceTheorems, TLAPS

Pointers == [mem : [Field -> Handle \cup {NULL}], prevp : [Handle -> Field \cup {NULL}]]

(* INSERT_IN_DOUBLE_LINKED_LIST_TXN on a DB that is in no list.              *)
LEMMA InsertKeepsLinks ==
    ASSUME NEW L \in Pointers, NEW tx \in [Handle -> Txn \cup {NULL}],
           NEW t \in Txn, NEW d \in Handle, tx[d] = NULL, WellLinkedIn(L, tx)
    PROVE  /\ Inserted(L, t, d) \in Pointers
           /\ WellLinkedIn(Inserted(L, t, d), [tx EXCEPT ![d] = t])
  <1> DEFINE K == Inserted(L, t, d)
             ty == [tx EXCEPT ![d] = t]
             h == L.mem[t]
  <1>1. t \in Field /\ d \in Field /\ t # d /\ NULL \notin Field /\ t # NULL
        /\ Handle \subseteq Field /\ h \in Handle \cup {NULL}
    BY ListAssumption DEF Field, Pointers
  <1>2. h # NULL => h \in Handle /\ tx[h] = t /\ L.prevp[h] = t /\ h # d
    BY <1>1 DEF WellLinkedIn, Linked, ListOf
  <1>3. K \in Pointers
    BY <1>1 DEF Inserted, Pointers
  <1>4. \A x \in Field : K.mem[x] = IF x = t THEN d ELSE IF x = d THEN h ELSE L.mem[x]
    BY <1>1 DEF Inserted, Pointers
  <1>5. \A x \in Handle : K.prevp[x] = IF x = h THEN d ELSE IF x = d THEN t ELSE L.prevp[x]
    BY <1>1, <1>2 DEF Inserted, Pointers
  <1>6. \A x \in Handle : ty[x] = IF x = d THEN t ELSE tx[x]
    OBVIOUS
  <1> HIDE DEF K, ty, h
  <1>7. ASSUME NEW x \in Field, Linked(ty, x), K.mem[x] # NULL
        PROVE  /\ ty[K.mem[x]] # NULL /\ ty[K.mem[x]] = ListOf(ty, x)
               /\ K.prevp[K.mem[x]] = x
    <2>1. CASE x = t
      BY <1>1, <1>2, <1>4, <1>5, <1>6, <2>1 DEF ListOf
    <2>2. CASE x = d
      <3>1. K.mem[x] = h /\ h # NULL
        BY <1>1, <1>4, <1>7, <2>2
      <3>2. x \notin Txn
        BY <2>2, ListAssumption
      <3>3. QED
        BY <1>1, <1>2, <1>5, <1>6, <2>2, <3>1, <3>2 DEF ListOf
    <2>3. CASE x # t /\ x # d
      <3>1. K.mem[x] = L.mem[x] /\ L.mem[x] \in Handle
        BY <1>4, <1>7, <2>3 DEF Pointers
      <3>2. Linked(tx, x) /\ ListOf(ty, x) = ListOf(tx, x)
        BY <1>6, <1>7, <2>3 DEF Linked, ListOf, Field
      <3>3. tx[L.mem[x]] # NULL /\ tx[L.mem[x]] = ListOf(tx, x) /\ L.prevp[L.mem[x]] = x
        BY <1>7, <3>1, <3>2 DEF WellLinkedIn
      <3>4. L.mem[x] # d /\ L.mem[x] # h
        BY <1>1, <1>2, <2>3, <3>1, <3>3
      <3>5. QED
        BY <1>5, <1>6, <3>1, <3>2, <3>3, <3>4
    <2>4. QED
      BY <2>1, <2>2, <2>3
  <1>8. ASSUME NEW y \in Handle, ty[y] # NULL
        PROVE  K.prevp[y] \in Field /\ Linked(ty, K.prevp[y]) /\ K.mem[K.prevp[y]] = y
    <2>1. CASE y = d
      BY <1>1, <1>2, <1>4, <1>5, <2>1 DEF Linked
    <2>2. CASE y = h
      BY <1>1, <1>2, <1>4, <1>5, <1>6, <2>2 DEF Linked
    <2>3. CASE y # d /\ y # h
      <3>1. tx[y] # NULL /\ K.prevp[y] = L.prevp[y]
        BY <1>5, <1>6, <1>8, <2>3
      <3>2. L.prevp[y] \in Field /\ Linked(tx, L.prevp[y]) /\ L.mem[L.prevp[y]] = y
        BY <3>1 DEF WellLinkedIn
      <3>3. L.prevp[y] # t
        BY <2>3, <3>2 DEF h
      <3>4. L.prevp[y] # d
        BY <3>2, ListAssumption DEF Linked
      <3>5. Linked(ty, L.prevp[y])
        BY <1>6, <3>2, <3>4 DEF Linked, Field
      <3>6. QED
        BY <1>4, <3>1, <3>2, <3>3, <3>4, <3>5
    <2>4. QED
      BY <2>1, <2>2, <2>3
  <1>9. QED
    BY <1>3, <1>7, <1>8 DEF WellLinkedIn, K, ty

(* EXTRACT_FROM_DOUBLE_LINKED_LIST_TXN on a DB that is in a list.            *)
LEMMA ExtractKeepsLinks ==
    ASSUME NEW L \in Pointers, NEW tx \in [Handle -> Txn \cup {NULL}],
           NEW d \in Handle, tx[d] # NULL, WellLinkedIn(L, tx)
    PROVE  /\ Extracted(L, d) \in Pointers
           /\ WellLinkedIn(Extracted(L, d), [tx EXCEPT ![d] = NULL])
  <1> DEFINE K == Extracted(L, d)
             ty == [tx EXCEPT ![d] = NULL]
             n == L.mem[d]
             p == L.prevp[d]
  <1>1. /\ NULL \notin Field /\ Handle \subseteq Field /\ Txn \cap Handle = {}
        /\ n \in Handle \cup {NULL}
    BY ListAssumption DEF Field, Pointers
  <1>2. p \in Field /\ Linked(tx, p) /\ L.mem[p] = d /\ tx[d] = ListOf(tx, p)
    BY <1>1 DEF WellLinkedIn
  <1>3. n # NULL => n \in Handle /\ tx[n] = tx[d] /\ L.prevp[n] = d
    BY <1>1 DEF WellLinkedIn, Linked, ListOf
  <1>4. \A x \in Handle : K.prevp[x] = IF x = n THEN p ELSE L.prevp[x]
    BY <1>1 DEF Extracted, Pointers
  <1>5. \A x \in Field : K.mem[x] = IF x = p THEN n ELSE L.mem[x]
    <2>1. n = d => p = d
      BY <1>1, <1>3
    <2>2. QED
      BY <1>1, <1>2, <2>1 DEF Extracted, Pointers
  <1>6. K \in Pointers
    BY <1>1, <1>2 DEF Extracted, Pointers
  <1>7. \A x \in Handle : ty[x] = IF x = d THEN NULL ELSE tx[x]
    OBVIOUS
  <1> HIDE DEF K, ty, n, p
  <1>8. ASSUME NEW x \in Field, Linked(ty, x), K.mem[x] # NULL
        PROVE  /\ ty[K.mem[x]] # NULL /\ ty[K.mem[x]] = ListOf(ty, x)
               /\ K.prevp[K.mem[x]] = x
    <2>1. x # d /\ Linked(tx, x) /\ ListOf(ty, x) = ListOf(tx, x)
      BY <1>1, <1>7, <1>8 DEF Linked, ListOf, Field
    <2>2. CASE x = p
      <3>1. K.mem[x] = n /\ n \in Handle /\ n # d
        BY <1>1, <1>2, <1>3, <1>5, <1>8, <2>1, <2>2 DEF p
      <3>2. tx[n] = ListOf(tx, x) /\ tx[n] # NULL
        BY <1>2, <1>3, <2>2, <3>1, <1>1
      <3>3. QED
        BY <1>4, <1>7, <2>1, <2>2, <3>1, <3>2
    <2>3. CASE x # p
      <3>1. K.mem[x] = L.mem[x] /\ L.mem[x] \in Handle
        BY <1>5, <1>8, <2>3 DEF Pointers
      <3>2. /\ tx[L.mem[x]] # NULL /\ tx[L.mem[x]] = ListOf(tx, x)
            /\ L.prevp[L.mem[x]] = x
        BY <1>8, <2>1, <3>1 DEF WellLinkedIn
      <3>3. L.mem[x] # d /\ L.mem[x] # n
        BY <1>1, <1>3, <2>1, <2>3, <3>1, <3>2 DEF p
      <3>4. QED
        BY <1>4, <1>7, <2>1, <3>1, <3>2, <3>3
    <2>4. QED
      BY <2>2, <2>3
  <1>9. ASSUME NEW y \in Handle, ty[y] # NULL
        PROVE  K.prevp[y] \in Field /\ Linked(ty, K.prevp[y]) /\ K.mem[K.prevp[y]] = y
    <2>1. y # d /\ tx[y] # NULL
      BY <1>7, <1>9
    <2>2. L.prevp[y] \in Field /\ Linked(tx, L.prevp[y]) /\ L.mem[L.prevp[y]] = y
      BY <2>1 DEF WellLinkedIn
    <2>3. CASE y = n
      <3>1. p # d
        BY <1>2, <1>3, <2>1, <2>3, <1>1, <2>2
      <3>2. Linked(ty, p)
        BY <1>2, <1>7, <3>1 DEF Linked, Field
      <3>3. QED
        BY <1>2, <1>4, <1>5, <2>3, <3>2
    <2>4. CASE y # n
      <3>1. L.prevp[y] # d /\ L.prevp[y] # p
        BY <1>2, <2>1, <2>2, <2>4 DEF n
      <3>2. Linked(ty, L.prevp[y])
        BY <1>7, <2>2, <3>1 DEF Linked, Field
      <3>3. QED
        BY <1>4, <1>5, <2>2, <2>4, <3>1, <3>2
    <2>5. QED
      BY <2>3, <2>4
  <1>10. QED
    BY <1>6, <1>8, <1>9 DEF WellLinkedIn, K, ty

-----------------------------------------------------------------------------
(* What the program and the loops keep, while no DB is opened twice: a DB    *)
(* that was not opened yet belongs to no transaction.                        *)
IInv ==
    /\ WellLinked
    /\ \A d \in Handle : opens[d] = 0 => txn[d] = NULL

LEMMA TypeInit == Init => TypeOK /\ IInv
  BY ListAssumption
  DEF Init, TypeOK, IInv, WellLinked, WellLinkedIn, Lists, Linked, Field, Loops, Idle

LEMMA ListsType == TypeOK => Lists \in Pointers
  BY DEF TypeOK, Lists, Pointers

(* DB_close_internal on a DB, linked or not.                                 *)
LEMMA CloseKeepsLinks ==
    ASSUME TypeOK, WellLinked, NEW L \in Pointers, NEW d \in Handle,
           NEW t \in Txn \cup {NULL},
           WellLinkedIn(L, [txn EXCEPT ![d] = t]), d \in db, Close(L, d, t)
    PROVE  /\ Lists' \in Pointers /\ WellLinked'
           /\ txn' = [txn EXCEPT ![d] = NULL] /\ db' \subseteq Handle
  <1> DEFINE tx == [txn EXCEPT ![d] = t]
  <1>1. tx \in [Handle -> Txn \cup {NULL}] /\ tx[d] = t
        /\ [tx EXCEPT ![d] = NULL] = [txn EXCEPT ![d] = NULL]
    BY DEF TypeOK
  <1>2. txn' = [txn EXCEPT ![d] = NULL] /\ db' = db \ {d} /\ db' \subseteq Handle
    BY DEF Close, TypeOK
  <1>3. CASE t # NULL
    <2>1. Extracted(L, d) \in Pointers /\ WellLinkedIn(Extracted(L, d), txn')
      BY <1>1, <1>2, <1>3, ExtractKeepsLinks
    <2>2. Lists' = Extracted(L, d)
      BY <1>3 DEF Close, Store, Lists, Extracted
    <2>3. QED
      BY <1>2, <2>1, <2>2 DEF WellLinked, TypeOK
  <1>4. CASE t = NULL
    <2>1. Lists' = L
      BY <1>4 DEF Close, Store, Lists, Pointers
    <2>2. txn' = tx
      BY <1>2, <1>4
    <2>3. QED
      BY <1>2, <2>1, <2>2 DEF WellLinked, TypeOK
  <1>5. QED
    BY <1>3, <1>4

LEMMA OpenKeeps ==
    ASSUME MaxOpens = 1, TypeOK, IInv, NEW d \in Handle, NEW t \in Txn \cup {NULL},
           NEW ok \in BOOLEAN, DBOpen(d, t, ok)
    PROVE  TypeOK' /\ IInv'
  <1> DEFINE L == IF t = NULL THEN Lists ELSE Inserted(Lists, t, d)
             tx == [txn EXCEPT ![d] = t]
  <1>1. /\ opens[d] = 0 /\ txn[d] = NULL /\ d \in db
        /\ opens' = [opens EXCEPT ![d] = 1] /\ UNCHANGED <<txns, loop>>
    <2>1. opens[d] \in Nat /\ opens[d] < 1
      BY DEF DBOpen, TypeOK
    <2>2. opens[d] = 0
      BY <2>1
    <2>3. QED
      BY <2>2 DEF DBOpen, IInv
  <1>2. L \in Pointers /\ WellLinkedIn(L, tx)
    <2>1. CASE t = NULL
      <3>1. tx = txn
        BY <1>1, <2>1 DEF TypeOK
      <3>2. QED
        BY <2>1, <3>1, ListsType DEF IInv, WellLinked
    <2>2. CASE t # NULL
      BY <1>1, <2>2, ListsType, InsertKeepsLinks DEF IInv, WellLinked, TypeOK
    <2>3. QED
      BY <2>1, <2>2
  <1> HIDE DEF L
  <1>3. \A x \in Handle : opens'[x] = 0 => x # d /\ opens[x] = 0 /\ txn[x] = NULL
    BY <1>1 DEF IInv, TypeOK
  <1>4. CASE ok
    <2>1. Store(L) /\ txn' = tx /\ UNCHANGED db
      BY <1>4 DEF DBOpen, L
    <2>2. Lists' = L
      BY <1>2, <2>1 DEF Store, Lists, Pointers
    <2>3. WellLinked'
      BY <1>1, <1>2, <2>1, <2>2 DEF WellLinked, IInv, TypeOK
    <2>4. TypeOK'
      BY <1>1, <1>2, <2>1 DEF TypeOK, Store, Pointers
    <2>5. QED
      BY <1>3, <2>1, <2>3, <2>4 DEF IInv, TypeOK
  <1>5. CASE ~ok
    <2>1. Close(L, d, t)
      BY <1>5 DEF DBOpen, L
    <2>2. /\ Lists' \in Pointers /\ WellLinked'
          /\ txn' = [txn EXCEPT ![d] = NULL] /\ db' \subseteq Handle
      BY <1>1, <1>2, <2>1, CloseKeepsLinks DEF IInv
    <2>3. TypeOK'
      BY <1>1, <2>2 DEF TypeOK, Lists, Pointers
    <2>4. QED
      BY <1>3, <2>2, <2>3 DEF IInv, TypeOK
  <1>6. QED
    BY <1>4, <1>5

LEMMA CloseKeeps ==
    ASSUME TypeOK, IInv, NEW d \in Handle, d \in db, Close(Lists, d, txn[d]),
           UNCHANGED <<opens, txns, loop>>
    PROVE  TypeOK' /\ IInv'
  <1>1. [txn EXCEPT ![d] = txn[d]] = txn /\ txn[d] \in Txn \cup {NULL}
    BY DEF TypeOK
  <1>2. /\ Lists' \in Pointers /\ WellLinked'
        /\ txn' = [txn EXCEPT ![d] = NULL] /\ db' \subseteq Handle
    BY <1>1, ListsType, CloseKeepsLinks DEF IInv, WellLinked
  <1>3. TypeOK'
    BY <1>2 DEF TypeOK, Lists, Pointers
  <1>4. QED
    BY <1>2, <1>3 DEF IInv, TypeOK

LEMMA PromoteKeeps ==
    ASSUME TypeOK, IInv, Promote
    PROVE  TypeOK' /\ IInv'
  <1> DEFINE t == loop.of
             d == mem[t]
             q == ParentOf[t]
             L == Extracted(Lists, d)
             ty == [txn EXCEPT ![d] = NULL]
  <1>1. t \in Txn /\ q \in Txn \cup {NULL} /\ d \in Handle
    BY ListAssumption DEF Promote, TypeOK, Loops, Idle, Field
  <1>2. txn[d] # NULL /\ d \in db /\ opens[d] # 0
    BY <1>1 DEF Promote, IInv, WellLinked, WellLinkedIn, Lists, Linked, Field
  <1>3. L \in Pointers /\ WellLinkedIn(L, ty)
    BY <1>1, <1>2, ListsType, ExtractKeepsLinks DEF IInv, WellLinked, TypeOK
  <1>4. /\ Store(IF q = NULL THEN L ELSE Inserted(L, q, d))
        /\ txn' = [txn EXCEPT ![d] = q] /\ UNCHANGED <<db, opens, txns, loop>>
    BY DEF Promote
  <1> HIDE DEF L, d, q, t
  <1>5. Lists' \in Pointers /\ WellLinkedIn(Lists', txn')
    <2>1. CASE q = NULL
      BY <1>3, <1>4, <2>1 DEF Store, Lists, Pointers
    <2>2. CASE q # NULL
      <3>1. ty \in [Handle -> Txn \cup {NULL}] /\ ty[d] = NULL /\ [ty EXCEPT ![d] = q] = txn'
        BY <1>1, <1>4 DEF TypeOK
      <3>2. /\ Inserted(L, q, d) \in Pointers
            /\ WellLinkedIn(Inserted(L, q, d), [ty EXCEPT ![d] = q])
        BY <1>1, <1>3, <2>2, <3>1, InsertKeepsLinks
      <3>3. Lists' = Inserted(L, q, d)
        BY <1>4, <2>2 DEF Store, Lists, Inserted
      <3>4. QED
        BY <3>1, <3>2, <3>3
    <2>3. QED
      BY <2>1, <2>2
  <1>6. TypeOK'
    BY <1>1, <1>4, <1>5 DEF TypeOK, Lists, Pointers
  <1>7. WellLinked'
    BY <1>1, <1>2, <1>4, <1>5 DEF WellLinked, IInv, TypeOK
  <1>8. QED
    BY <1>1, <1>2, <1>4, <1>6, <1>7 DEF IInv, TypeOK

LEMMA IInvNext == MaxOpens = 1 /\ TypeOK /\ IInv /\ [Next]_vars => TypeOK' /\ IInv'
  <1> SUFFICES ASSUME MaxOpens = 1, TypeOK, IInv, [Next]_vars PROVE TypeOK' /\ IInv'
    OBVIOUS
  <1>1. ASSUME NEW d \in Handle, NEW t \in Txn \cup {NULL}, NEW ok \in BOOLEAN,
               DBOpen(d, t, ok)
        PROVE  TypeOK' /\ IInv'
    BY <1>1, OpenKeeps
  <1>2. ASSUME NEW d \in Handle, DBClose(d) PROVE TypeOK' /\ IInv'
    BY <1>2, CloseKeeps DEF DBClose
  <1>3. ASSUME NEW t \in Txn, NEW call \in {"commit", "abort"}, Resolve(t, call)
        PROVE  TypeOK' /\ IInv'
    BY <1>3 DEF Resolve, TypeOK, IInv, WellLinked, WellLinkedIn, Lists, Loops
  <1>4. CASE Promote
    BY <1>4, PromoteKeeps
  <1>5. CASE CloseHead
    <2>1. loop.of \in Txn /\ mem[loop.of] \in Handle
      BY <1>5, ListAssumption DEF CloseHead, TypeOK, Loops, Idle, Field
    <2>2. mem[loop.of] \in db
      BY <2>1, <1>5 DEF CloseHead, IInv, WellLinked, WellLinkedIn, Lists, Linked, Field
    <2>3. QED
      BY <1>5, <2>1, <2>2, CloseKeeps DEF CloseHead
  <1>6. CASE LoopEnds
    BY <1>6 DEF LoopEnds, TypeOK, IInv, WellLinked, WellLinkedIn, Lists, Loops
  <1>7. CASE UNCHANGED vars
    BY <1>7 DEF vars, TypeOK, IInv, WellLinked, WellLinkedIn, Lists
  <1>8. QED
    BY <1>1, <1>2, <1>3, <1>4, <1>5, <1>6, <1>7 DEF Next, Turn

(* As long as no DB is opened twice, every pointer of the lists is answered, *)
(* for any number of DBs and transactions: leaving a list from the middle,   *)
(* from its head or in the turns of a commit or an abort is always possible  *)
(* and disturbs no other DB.                                                 *)
THEOREM ListsStayLinked == ASSUME MaxOpens = 1 PROVE Spec => []WellLinked
  <1>1. Init => TypeOK /\ IInv
    BY TypeInit
  <1>2. TypeOK /\ IInv /\ [Next]_vars => (TypeOK /\ IInv)'
    BY IInvNext
  <1>3. IInv => WellLinked
    BY DEF IInv
  <1>4. QED
    BY <1>1, <1>2, <1>3, PTL DEF Spec

-----------------------------------------------------------------------------
(* The refinement to TxnQueues.                                              *)

(* A set of numbers has a least one. *)
LEMMA LeastNumber ==
    ASSUME NEW S \in SUBSET Nat, S # {}
    PROVE  \E n \in S : \A k \in S : n <= k
<1>1. PICK n \in S : \A k \in S : <<k, n>> \notin OpToRel(<, Nat)
  BY NatLessThanWellFounded, WFMin
<1>2. \A k \in S : ~(k < n)
  BY <1>1 DEF OpToRel
<1> QED
  BY <1>2

(* Chain reads off the one sequence the pointers give. *)
LEMMA ChainIs ==
    ASSUME NEW t \in Txn, NEW s \in Seq(Handle), Gives(mem, t, s)
    PROVE  Chain(t) = s
<1> DEFINE N == Cardinality(Handle)
           Reads(f) == [n \in 0 .. N |->
                          IF n = 0 THEN mem[t]
                          ELSE IF f[n - 1] = NULL THEN NULL ELSE mem[f[n - 1]]]
           at == CHOOSE f : f = Reads(f)
           g == [n \in 0 .. N |-> IF n < Len(s) THEN s[n + 1] ELSE NULL]
           len == Cardinality({n \in DOMAIN at : at[n] # NULL})
<1>1. Chain(t) = [i \in 1 .. len |-> at[i - 1]]
  BY DEF Chain
<1>2. /\ Len(s) \in Nat /\ N \in Nat /\ Len(s) <= N
      /\ \A i \in 1 .. Len(s) : s[i] \in Handle /\ s[i] # NULL
  <2>1. Len(s) \in Nat /\ \A i \in 1 .. Len(s) : s[i] \in Handle /\ s[i] # NULL
    BY ListAssumption DEF Field
  <2>2. IsFiniteSet(1 .. Len(s)) /\ Cardinality(1 .. Len(s)) = Len(s)
    <3>1. 1 \in Int /\ Len(s) \in Int /\ (1 <= Len(s) => Len(s) - 1 + 1 = Len(s))
      BY <2>1
    <3>2. ~(1 <= Len(s)) => Len(s) = 0
      BY <2>1
    <3> QED
      BY <3>1, <3>2, FS_Interval
  <2>3. N \in Nat
    BY ListAssumption, FS_CardinalityType
  <2>4. [i \in 1 .. Len(s) |-> s[i]] \in Injection(1 .. Len(s), Handle)
    BY <2>1 DEF Gives, Injection, IsInjective
  <2>5. Len(s) <= N
    BY <2>2, <2>4, ListAssumption, FS_Injection
  <2> QED
    BY <2>1, <2>3, <2>5
<1> HIDE DEF N
<1>3. g = Reads(g)
  <2>1. ASSUME NEW n \in 0 .. N
        PROVE  g[n] = Reads(g)[n]
    <3>1. CASE n = 0
      BY <1>2, <3>1 DEF Gives
    <3>2. CASE n # 0 /\ n - 1 < Len(s)
      <4>1. n \in 1 .. Len(s) /\ n - 1 \in 0 .. N /\ g[n - 1] = s[n] /\ s[n] # NULL
        BY <1>2, <3>2
      <4>2. mem[s[n]] = IF n = Len(s) THEN NULL ELSE s[n + 1]
        BY <4>1 DEF Gives
      <4> QED
        BY <1>2, <3>2, <4>1, <4>2
    <3>3. CASE n # 0 /\ ~(n - 1 < Len(s))
      <4>1. n - 1 \in 0 .. N /\ g[n - 1] = NULL /\ ~(n < Len(s))
        BY <1>2, <3>3
      <4> QED
        BY <3>3, <4>1
    <3> QED
      BY <3>1, <3>2, <3>3
  <2> QED
    BY <2>1
<1>4. ASSUME NEW f, f = Reads(f)
      PROVE  f = g
  <2>1. ASSUME NEW n \in 0 .. N, f[n] # g[n], \A k \in 0 .. N : f[k] # g[k] => n <= k
        PROVE  FALSE
    <3>1. f[n] = Reads(f)[n] /\ g[n] = Reads(g)[n]
      BY <1>3, <1>4
    <3>2. n # 0
      BY <2>1, <3>1
    <3>3. n - 1 \in 0 .. N /\ f[n - 1] = g[n - 1]
      BY <1>2, <2>1, <3>2
    <3> QED
      BY <2>1, <3>1, <3>3
  <2> DEFINE D == {n \in 0 .. N : f[n] # g[n]}
  <2>2. D = {}
    <3> SUFFICES ASSUME D # {}
                 PROVE  FALSE
      OBVIOUS
    <3>1. D \in SUBSET Nat
      BY <1>2
    <3>2. PICK n \in D : \A k \in D : n <= k
      BY <3>1, LeastNumber
    <3> QED
      BY <2>1, <3>2
  <2>3. f = [n \in 0 .. N |-> f[n]] /\ g = [n \in 0 .. N |-> g[n]]
    BY <1>4
  <2> QED
    BY <2>2, <2>3
<1>5. at = g
  BY <1>3, <1>4
<1> HIDE DEF at, Reads
<1>6. {n \in DOMAIN at : at[n] # NULL} = 0 .. Len(s) - 1
  BY <1>2, <1>5
<1>7. len = Len(s)
  <2>1. len = Cardinality(0 .. Len(s) - 1)
    BY <1>6
  <2> HIDE DEF len
  <2>2. 0 \in Int /\ Len(s) - 1 \in Int
    BY <1>2
  <2>3. len = IF 0 <= Len(s) - 1 THEN Len(s) - 1 - 0 + 1 ELSE 0
    BY SMTT(20), <2>1, <2>2, FS_Interval
  <2> QED
    BY <1>2, <2>3
<1>8. \A i \in 1 .. Len(s) : at[i - 1] = s[i]
  BY <1>2, <1>5
<1> QED
  BY <1>1, <1>7, <1>8

LEMMA Pushed ==
    ASSUME NEW s \in Seq(Handle), NEW d \in Handle
    PROVE  /\ <<d>> \o s \in Seq(Handle) /\ Len(<<d>> \o s) = Len(s) + 1
           /\ (<<d>> \o s)[1] = d /\ \A i \in 1 .. Len(s) : (<<d>> \o s)[i + 1] = s[i]
  OBVIOUS

LEMMA Removed ==
    ASSUME NEW s \in Seq(Handle), NEW i \in 1 .. Len(s)
    PROVE  /\ Queues!RemoveAt(s, i) \in Seq(Handle)
           /\ Len(Queues!RemoveAt(s, i)) = Len(s) - 1
           /\ \A j \in 1 .. Len(s) - 1 :
                 Queues!RemoveAt(s, i)[j] = IF j < i THEN s[j] ELSE s[j + 1]
<1> DEFINE a == SubSeq(s, 1, i - 1)
           b == SubSeq(s, i + 1, Len(s))
<1>1. Len(s) \in Nat /\ \A j \in 1 .. Len(s) : s[j] \in Handle
  OBVIOUS
<1>2. /\ a \in Seq(Handle) /\ Len(a) = i - 1 /\ \A j \in 1 .. i - 1 : a[j] = s[j]
      /\ b \in Seq(Handle) /\ Len(b) = Len(s) - i /\ \A j \in 1 .. Len(s) - i : b[j] = s[i + j]
  BY <1>1
<1> HIDE DEF a, b
<1>3. /\ a \o b \in Seq(Handle) /\ Len(a \o b) = Len(a) + Len(b)
      /\ \A j \in 1 .. Len(a) + Len(b) :
            (a \o b)[j] = IF j <= Len(a) THEN a[j] ELSE b[j - Len(a)]
  BY <1>2, ConcatProperties
<1>4. \A j \in 1 .. Len(s) - 1 : (a \o b)[j] = IF j < i THEN s[j] ELSE s[j + 1]
  <2> SUFFICES ASSUME NEW j \in 1 .. Len(s) - 1
               PROVE  (a \o b)[j] = IF j < i THEN s[j] ELSE s[j + 1]
    OBVIOUS
  <2>1. (a \o b)[j] = IF j <= i - 1 THEN a[j] ELSE b[j - (i - 1)]
    BY <1>1, <1>2, <1>3
  <2>2. CASE j < i
    BY <1>2, <2>1, <2>2
  <2>3. CASE ~(j < i)
    <3>1. j - (i - 1) \in 1 .. Len(s) - i /\ i + (j - (i - 1)) = j + 1
      BY <1>1, <2>3
    <3>2. b[j - (i - 1)] = s[j + 1]
      BY <1>2, <3>1
    <3> QED
      BY <2>1, <2>3, <3>2
  <2> QED
    BY <2>2, <2>3
<1>5. Len(a) + Len(b) = Len(s) - 1
  BY <1>1, <1>2
<1> QED
  BY <1>3, <1>4, <1>5 DEF Queues!RemoveAt, a, b

(* INSERT_IN_DOUBLE_LINKED_LIST_TXN puts a DB in front. *)
LEMMA InsertGives ==
    ASSUME NEW L \in Pointers, NEW tx \in [Handle -> Txn \cup {NULL}],
           NEW t \in Txn, NEW d \in Handle, tx[d] = NULL,
           NEW l \in [Txn -> Seq(Handle)], GivesAll(L.mem, tx, l)
    PROVE  GivesAll(Inserted(L, t, d).mem, [tx EXCEPT ![d] = t],
                    [l EXCEPT ![t] = <<d>> \o @])
<1> DEFINE m == Inserted(L, t, d).mem
           ty == [tx EXCEPT ![d] = t]
           s == l[t]
           r == <<d>> \o s
           k == [l EXCEPT ![t] = <<d>> \o @]
<1>1. /\ NULL \notin Field /\ Handle \subseteq Field /\ Txn \subseteq Field
      /\ Txn \cap Handle = {}
  BY ListAssumption DEF Field
<1>2. \A x \in Field : m[x] = IF x = t THEN d ELSE IF x = d THEN L.mem[t] ELSE L.mem[x]
  BY <1>1 DEF Inserted, Pointers
<1>3. ASSUME NEW u \in Txn
      PROVE  /\ Len(l[u]) \in Nat /\ Gives(L.mem, u, l[u])
             /\ \A e \in Handle : tx[e] = u <=> \E i \in 1 .. Len(l[u]) : l[u][i] = e
             /\ \A i \in 1 .. Len(l[u]) : /\ l[u][i] \in Handle /\ l[u][i] # d
                                          /\ l[u][i] \in Field /\ l[u][i] # t
                                          /\ m[l[u][i]] = L.mem[l[u][i]]
  BY <1>1, <1>2 DEF GivesAll
<1> HIDE DEF m
<1>4. ASSUME NEW u \in Txn, u # t
      PROVE  /\ Gives(m, u, k[u])
             /\ \A e \in Handle : ty[e] = u <=> \E i \in 1 .. Len(k[u]) : k[u][i] = e
  <2>1. k[u] = l[u] /\ m[u] = L.mem[u]
    BY <1>1, <1>2, <1>4
  <2>2. Gives(m, u, l[u])
    BY <1>3, <2>1 DEF Gives
  <2> QED
    BY <1>1, <1>3, <1>4, <2>1, <2>2
<1>5. /\ Gives(m, t, r)
      /\ \A e \in Handle : ty[e] = t <=> \E i \in 1 .. Len(r) : r[i] = e
  <2>1. /\ Len(s) \in Nat /\ Len(r) = Len(s) + 1 /\ r[1] = d
        /\ \A i \in 1 .. Len(s) : r[i + 1] = s[i]
    BY Pushed
  <2> HIDE DEF r
  <2>2. \A i \in 1 .. Len(r) : i = 1 \/ (i - 1 \in 1 .. Len(s) /\ r[i] = s[i - 1])
    <3> SUFFICES ASSUME NEW i \in 1 .. Len(r), i # 1
                 PROVE  i - 1 \in 1 .. Len(s) /\ r[i] = s[i - 1]
      OBVIOUS
    <3>1. i - 1 \in 1 .. Len(s) /\ (i - 1) + 1 = i
      BY <2>1
    <3> QED
      BY <2>1, <3>1
  <2>3. ASSUME NEW i \in 1 .. Len(r), NEW j \in 1 .. Len(r), r[i] = r[j]
        PROVE  i = j
    <3>1. CASE i = 1 \/ j = 1
      <4>1. \A h \in 1 .. Len(r) : h # 1 => r[h] # d
        BY <1>3, <2>2
      <4> QED
        BY <2>1, <2>3, <3>1, <4>1
    <3>2. CASE i # 1 /\ j # 1
      <4>1. i - 1 = j - 1
        BY <1>3, <2>2, <2>3, <3>2 DEF Gives
      <4> QED
        BY <2>1, <4>1
    <3> QED
      BY <3>1, <3>2
  <2>4. m[t] = r[1] /\ Len(r) # 0
    BY <1>1, <1>2, <2>1
  <2>5. ASSUME NEW i \in 1 .. Len(r)
        PROVE  m[r[i]] = IF i = Len(r) THEN NULL ELSE r[i + 1]
    <3>1. CASE i = 1
      <4>1. m[r[i]] = L.mem[t]
        BY <1>1, <1>2, <2>1, <3>1
      <4>2. L.mem[t] = IF Len(s) = 0 THEN NULL ELSE s[1]
        BY <1>3 DEF Gives
      <4> QED
        BY <2>1, <3>1, <4>1, <4>2
    <3>2. CASE i # 1
      <4>1. i - 1 \in 1 .. Len(s) /\ r[i] = s[i - 1]
        BY <2>2, <3>2
      <4>2. m[r[i]] = IF i - 1 = Len(s) THEN NULL ELSE s[(i - 1) + 1]
        BY <1>3, <4>1 DEF Gives
      <4>3. i # Len(r) => i \in 1 .. Len(s) /\ r[i + 1] = s[i]
        BY <2>1
      <4> QED
        BY <2>1, <4>1, <4>2, <4>3
    <3> QED
      BY <3>1, <3>2
  <2>6. ASSUME NEW e \in Handle
        PROVE  ty[e] = t <=> \E i \in 1 .. Len(r) : r[i] = e
    <3>1. CASE e = d
      <4>1. ty[e] = t /\ 1 \in 1 .. Len(r) /\ r[1] = e
        BY <2>1, <3>1
      <4> QED
        BY <4>1
    <3>2. CASE e # d
      <4>1. ty[e] = t <=> \E i \in 1 .. Len(s) : s[i] = e
        BY <1>3, <3>2
      <4>2. \A i \in 1 .. Len(s) : i + 1 \in 1 .. Len(r)
        BY <2>1
      <4>3. ASSUME NEW i \in 1 .. Len(s), s[i] = e
            PROVE  \E j \in 1 .. Len(r) : r[j] = e
        BY <2>1, <4>2, <4>3
      <4>4. ASSUME NEW j \in 1 .. Len(r), r[j] = e
            PROVE  \E i \in 1 .. Len(s) : s[i] = e
        BY <2>1, <2>2, <3>2, <4>4
      <4> QED
        BY <4>1, <4>3, <4>4
    <3> QED
      BY <3>1, <3>2
  <2> QED
    BY <2>3, <2>4, <2>5, <2>6 DEF Gives
<1>6. k[t] = r
  OBVIOUS
<1> QED
  BY <1>4, <1>5, <1>6 DEF GivesAll, m

(* EXTRACT_FROM_DOUBLE_LINKED_LIST_TXN takes a DB out wherever it is. *)
LEMMA ExtractGives ==
    ASSUME NEW L \in Pointers, NEW tx \in [Handle -> Txn \cup {NULL}],
           NEW t \in Txn, NEW d \in Handle, tx[d] = t, WellLinkedIn(L, tx),
           NEW l \in [Txn -> Seq(Handle)], GivesAll(L.mem, tx, l),
           NEW i \in 1 .. Len(l[t]), l[t][i] = d
    PROVE  GivesAll(Extracted(L, d).mem, [tx EXCEPT ![d] = NULL],
                    [l EXCEPT ![t] = Queues!RemoveAt(@, i)])
<1> DEFINE m == Extracted(L, d).mem
           ty == [tx EXCEPT ![d] = NULL]
           s == l[t]
           r == Queues!RemoveAt(s, i)
           k == [l EXCEPT ![t] = Queues!RemoveAt(@, i)]
           p == L.prevp[d]
           n == L.mem[d]
<1>1. /\ NULL \notin Field /\ Handle \subseteq Field /\ Txn \subseteq Field
      /\ Txn \cap Handle = {}
  BY ListAssumption DEF Field
<1>2. p \in Field /\ Linked(tx, p) /\ L.mem[p] = d /\ n \in Handle \cup {NULL}
  BY <1>1 DEF WellLinkedIn, Pointers
<1>3. ASSUME NEW u \in Txn
      PROVE  /\ Len(l[u]) \in Nat /\ Gives(L.mem, u, l[u])
             /\ \A e \in Handle : tx[e] = u <=> \E j \in 1 .. Len(l[u]) : l[u][j] = e
             /\ \A j \in 1 .. Len(l[u]) : l[u][j] \in Handle /\ l[u][j] \in Field
                                          /\ tx[l[u][j]] = u
  BY <1>1 DEF GivesAll
<1>4. p = IF i = 1 THEN t ELSE s[i - 1]
  <2>1. CASE i = 1
    <3>1. L.mem[t] = d /\ Linked(tx, t)
      BY <1>3, <2>1 DEF Gives, Linked
    <3> QED
      BY <1>1, <2>1, <3>1 DEF WellLinkedIn
  <2>2. CASE i # 1
    <3>1. i - 1 \in 1 .. Len(s) /\ i - 1 # Len(s) /\ (i - 1) + 1 = i
      BY <1>3, <2>2
    <3>2. L.mem[s[i - 1]] = d /\ s[i - 1] \in Field /\ Linked(tx, s[i - 1])
      BY SMTT(30), <1>1, <1>3, <3>1 DEF Gives, Linked
    <3> QED
      BY <1>1, <2>2, <3>2 DEF WellLinkedIn
  <2> QED
    BY <2>1, <2>2
<1>5. n = IF i = Len(s) THEN NULL ELSE s[i + 1]
  BY <1>3 DEF Gives
<1>6. n # d
  <2>1. i # Len(s) => i + 1 \in 1 .. Len(s) /\ i + 1 # i
    BY <1>3
  <2> QED
    BY <1>1, <1>3, <1>5, <2>1 DEF Gives
<1>7. \A x \in Field : m[x] = IF x = p THEN n ELSE L.mem[x]
  BY <1>1, <1>2, <1>6 DEF Extracted, Pointers
<1> HIDE DEF m, p, n
<1>8. ASSUME NEW u \in Txn, u # t
      PROVE  /\ Gives(m, u, k[u])
             /\ \A e \in Handle : ty[e] = u <=> \E j \in 1 .. Len(k[u]) : k[u][j] = e
  <2>1. p # u /\ \A j \in 1 .. Len(l[u]) : p # l[u][j]
    <3>1. CASE i = 1
      BY <1>1, <1>3, <1>4, <1>8, <3>1
    <3>2. CASE i # 1
      <4>1. i - 1 \in 1 .. Len(s)
        BY <1>3, <3>2
      <4>2. p \in Handle /\ tx[p] = t
        BY <1>3, <1>4, <3>2, <4>1
      <4> QED
        BY <1>1, <1>3, <1>8, <4>2
    <3> QED
      BY <3>1, <3>2
  <2>2. k[u] = l[u] /\ m[u] = L.mem[u]
    BY <1>1, <1>7, <1>8, <2>1
  <2>3. Gives(m, u, l[u])
    <3>1. \A j \in 1 .. Len(l[u]) : m[l[u][j]] = L.mem[l[u][j]]
      BY <1>3, <1>7, <2>1
    <3> QED
      BY <1>3, <2>2, <3>1 DEF Gives
  <2>4. \A e \in Handle : ty[e] = u <=> tx[e] = u
    BY <1>1, <1>8
  <2> QED
    BY <1>3, <2>2, <2>3, <2>4
<1>9. /\ Gives(m, t, r)
      /\ \A e \in Handle : ty[e] = t <=> \E j \in 1 .. Len(r) : r[j] = e
  <2>1. /\ Len(s) \in Nat /\ Len(r) = Len(s) - 1
        /\ \A j \in 1 .. Len(s) - 1 : r[j] = IF j < i THEN s[j] ELSE s[j + 1]
    <3>1. s \in Seq(Handle) /\ i \in 1 .. Len(s) /\ Len(s) \in Nat
      OBVIOUS
    <3> HIDE DEF s
    <3> QED
      BY <3>1, Removed
  <2> HIDE DEF r
  <2> DEFINE Old(j) == IF j < i THEN j ELSE j + 1
  <2>2. \A j \in 1 .. Len(r) : Old(j) \in 1 .. Len(s) /\ Old(j) # i /\ r[j] = s[Old(j)]
    BY <2>1
  <2>3. \A j, h \in 1 .. Len(r) : Old(j) = Old(h) => j = h
    BY <2>1
  <2>4. \A h \in 1 .. Len(s) : h # i => \E j \in 1 .. Len(r) : Old(j) = h
    <3> SUFFICES ASSUME NEW h \in 1 .. Len(s), h # i
                 PROVE  \E j \in 1 .. Len(r) : Old(j) = h
      OBVIOUS
    <3>1. CASE h < i
      <4>1. h \in 1 .. Len(r) /\ Old(h) = h
        BY <2>1, <3>1
      <4> QED
        BY <4>1
    <3>2. CASE ~(h < i)
      <4>1. h - 1 \in 1 .. Len(r) /\ Old(h - 1) = h
        BY <2>1, <3>2
      <4> QED
        BY <4>1
    <3> QED
      BY <3>1, <3>2
  <2> HIDE DEF Old
  <2>5. \A j, h \in 1 .. Len(s) : s[j] = s[h] => j = h
    BY <1>3 DEF Gives
  <2>6. \A j, h \in 1 .. Len(r) : r[j] = r[h] => j = h
    BY <2>2, <2>3, <2>5
  <2>7. m[t] = IF Len(r) = 0 THEN NULL ELSE r[1]
    <3>1. CASE i = 1
      <4>1. m[t] = n
        BY <1>1, <1>4, <1>7, <3>1
      <4>2. Len(r) # 0 => 1 \in 1 .. Len(s) - 1
        BY <2>1
      <4> QED
        BY <1>5, <2>1, <3>1, <4>1, <4>2
    <3>2. CASE i # 1
      <4>1. i - 1 \in 1 .. Len(s) /\ Len(s) # 0 /\ Len(r) # 0 /\ 1 \in 1 .. Len(s) - 1 /\ 1 < i
        BY SMTT(30), <1>3, <2>1, <3>2
      <4>2. t # p
        BY <1>1, <1>3, <1>4, <3>2, <4>1
      <4>3. m[t] = s[1]
        BY <1>1, <1>3, <1>7, <4>1, <4>2 DEF Gives
      <4> QED
        BY <2>1, <4>1, <4>3
    <3> QED
      BY <3>1, <3>2
  <2>8. ASSUME NEW j \in 1 .. Len(r)
        PROVE  m[r[j]] = IF j = Len(r) THEN NULL ELSE r[j + 1]
    <3>1. CASE j = i - 1
      <4>1. j < i /\ j \in 1 .. Len(s) - 1 /\ i # 1
        BY <2>1, <3>1
      <4>2. r[j] = p
        BY <1>4, <2>1, <3>1, <4>1
      <4>3. m[r[j]] = n
        BY <1>2, <1>7, <4>2
      <4>4. CASE j = Len(r)
        BY <1>5, <2>1, <3>1, <4>3, <4>4
      <4>5. CASE j # Len(r)
        <5>1. j + 1 \in 1 .. Len(s) - 1 /\ j + 1 = i /\ i # Len(s)
          BY <2>1, <3>1, <4>5
        <5>2. r[j + 1] = s[i + 1]
          BY <2>1, <5>1
        <5> QED
          BY <1>5, <4>3, <4>5, <5>1, <5>2
      <4> QED
        BY <4>4, <4>5
    <3>2. CASE j # i - 1
      <4>1. /\ Old(j) \in 1 .. Len(s) /\ r[j] = s[Old(j)]
            /\ Old(j) = Len(s) <=> j = Len(r)
            /\ j # Len(r) => j + 1 \in 1 .. Len(r) /\ Old(j + 1) = Old(j) + 1
        BY <2>1, <2>2, <3>2 DEF Old
      <4>2. r[j] # p
        <5>1. CASE i = 1
          BY <1>1, <1>3, <1>4, <4>1, <5>1
        <5>2. CASE i # 1
          <6>1. i - 1 \in 1 .. Len(s) /\ Old(j) # i - 1
            BY <2>1, <3>2, <5>2 DEF Old
          <6> QED
            BY <1>4, <2>5, <4>1, <5>2, <6>1
        <5> QED
          BY <5>1, <5>2
      <4>3. m[r[j]] = L.mem[s[Old(j)]]
        BY <1>3, <1>7, <4>1, <4>2
      <4>4. L.mem[s[Old(j)]] = IF Old(j) = Len(s) THEN NULL ELSE s[Old(j) + 1]
        BY SMTT(30), <1>3, <4>1 DEF Gives
      <4> QED
        BY <2>2, <4>1, <4>3, <4>4
    <3> QED
      BY <3>1, <3>2
  <2>9. ASSUME NEW e \in Handle
        PROVE  ty[e] = t <=> \E j \in 1 .. Len(r) : r[j] = e
    <3>1. ty[e] = t <=> e # d /\ tx[e] = t
      BY <1>1
    <3>2. ASSUME NEW j \in 1 .. Len(r), r[j] = e
          PROVE  e # d /\ tx[e] = t
      BY <1>3, <2>2, <2>5, <3>2
    <3>3. ASSUME e # d, tx[e] = t
          PROVE  \E j \in 1 .. Len(r) : r[j] = e
      <4>1. PICK h \in 1 .. Len(s) : s[h] = e
        BY <1>3, <3>3
      <4>2. PICK j \in 1 .. Len(r) : Old(j) = h
        BY <2>4, <3>3, <4>1
      <4> QED
        BY <2>2, <4>1, <4>2
    <3> QED
      BY <3>1, <3>2, <3>3
  <2> QED
    BY <2>6, <2>7, <2>8, <2>9 DEF Gives
<1>10. k[t] = r
  OBVIOUS
<1> QED
  BY <1>8, <1>9, <1>10 DEF GivesAll, m

-----------------------------------------------------------------------------
(* Each step as one of TxnQueues.                                            *)

Sequences == [t \in Txn |-> Chain(t)]

(* The sequences are those the pointers give, in each state. *)
ReadOff == \A l \in [Txn -> Seq(Handle)] : GivesAll(mem, txn, l) => Sequences = l

LEMMA SequencesAre == ReadOff
<1> SUFFICES ASSUME NEW l \in [Txn -> Seq(Handle)], GivesAll(mem, txn, l)
             PROVE  Sequences = l
  BY DEF ReadOff
<1>1. \A t \in Txn : Chain(t) = l[t]
  BY ChainIs DEF GivesAll
<1> QED
  BY <1>1 DEF Sequences

LEMMA SequencesAreNext ==
    ASSUME NEW l \in [Txn -> Seq(Handle)], GivesAll(mem', txn', l)
    PROVE  Sequences' = l /\ GivesAll(mem, txn, Sequences)'
<1>1. ReadOff'
  BY SequencesAre, PTL
<1>2. GivesAll(mem, txn, l)'
  BY DEF GivesAll, Gives
<1>3. Sequences' = l
  BY <1>1, <1>2 DEF ReadOff
<1> QED
  BY <1>3 DEF GivesAll, Gives

ChainInv == Sequences \in [Txn -> Seq(Handle)] /\ GivesAll(mem, txn, Sequences)

(* What TxnQueues says of these sequences. *)
LEMMA QueueSteps ==
    /\ \A d \in Handle, t \in Txn :
          Queues!Join(d, t) <=>
             /\ \A u \in Txn : \A i \in DOMAIN Sequences[u] : Sequences[u][i] # d
             /\ Sequences' = [Sequences EXCEPT ![t] = <<d>> \o @]
    /\ \A d \in Handle, t \in Txn :
          Queues!Leave(d, t) <=>
             \E i \in DOMAIN Sequences[t] :
                /\ Sequences[t][i] = d
                /\ Sequences' = [Sequences EXCEPT ![t] = Queues!RemoveAt(@, i)]
    /\ \A t \in Txn :
          Queues!Inherit(t) <=>
             /\ Sequences[t] # << >> /\ ParentOf[t] # NULL
             /\ Sequences' = [Sequences EXCEPT ![t] = Tail(@),
                                ![ParentOf[t]] = <<Head(Sequences[t])>> \o @]
  BY DEF Queues!Join, Queues!Leave, Queues!Inherit, Queues!In, Sequences

QueueStep == Sequences' = Sequences \/ Queues!Next

(* A DB is in the sequence of its transaction. *)
LEMMA PlaceInChain ==
    ASSUME ChainInv
    PROVE  /\ \A t \in Txn : \A i \in 1 .. Len(Sequences[t]) : txn[Sequences[t][i]] = t
           /\ \A d \in Handle, t \in Txn : txn[d] = t =>
                 \E i \in 1 .. Len(Sequences[t]) : Sequences[t][i] = d
           /\ \A t \in Txn : DOMAIN Sequences[t] = 1 .. Len(Sequences[t])
                             /\ Len(Sequences[t]) \in Nat
<1>1. \A t \in Txn : Sequences[t] \in Seq(Handle)
  BY DEF ChainInv
<1>2. \A t \in Txn : \A i \in 1 .. Len(Sequences[t]) : Sequences[t][i] \in Handle
  BY <1>1
<1> QED
  BY <1>1, <1>2 DEF ChainInv, GivesAll

(* Nothing happens to the pointers. *)
LEMMA IdleRefines ==
    ASSUME ChainInv, UNCHANGED <<mem, txn>>
    PROVE  ChainInv' /\ QueueStep
<1>1. Sequences \in [Txn -> Seq(Handle)] /\ GivesAll(mem', txn', Sequences)
  BY DEF ChainInv
<1>2. Sequences' = Sequences
  BY DEF Sequences, Chain
<1> QED
  BY <1>1, <1>2 DEF ChainInv, QueueStep, GivesAll, Gives

LEMMA CloseRefines ==
    ASSUME TypeOK, IInv, ChainInv, NEW d \in Handle, d \in db, Close(Lists, d, txn[d])
    PROVE  ChainInv' /\ QueueStep
<1>1. CASE txn[d] = NULL
  <2>1. UNCHANGED <<mem, txn>>
    BY <1>1 DEF Close, Store, Lists, TypeOK
  <2> QED
    BY <2>1, IdleRefines
<1>2. CASE txn[d] # NULL
  <2> DEFINE t == txn[d]
             s == Sequences
  <2>1. t \in Txn
    BY <1>2 DEF TypeOK
  <2>2. PICK i \in 1 .. Len(s[t]) : s[t][i] = d
    BY <2>1, PlaceInChain
  <2> DEFINE k == [s EXCEPT ![t] = Queues!RemoveAt(@, i)]
  <2>3. mem' = Extracted(Lists, d).mem /\ txn' = [txn EXCEPT ![d] = NULL]
    BY <1>2 DEF Close, Store
  <2>4. s \in [Txn -> Seq(Handle)] /\ GivesAll(Lists.mem, txn, s) /\ WellLinkedIn(Lists, txn)
        /\ Lists \in Pointers /\ txn \in [Handle -> Txn \cup {NULL}]
    BY ListsType DEF ChainInv, Lists, IInv, WellLinked, TypeOK
  <2> HIDE DEF s
  <2>5. k \in [Txn -> Seq(Handle)]
    BY <2>1, <2>2, <2>4, Removed
  <2>6. GivesAll(mem', txn', k)
    BY <2>1, <2>2, <2>3, <2>4, ExtractGives
  <2> HIDE DEF k
  <2>7. Sequences' = k /\ GivesAll(mem, txn, Sequences)'
    BY <2>5, <2>6, SequencesAreNext
  <2>8. i \in DOMAIN Sequences[t]
    BY <2>1, <2>2, PlaceInChain DEF s
  <2>9. Queues!Leave(d, t)
    BY <2>1, <2>2, <2>7, <2>8, QueueSteps DEF k, s
  <2> QED
    BY <2>1, <2>5, <2>7, <2>9 DEF ChainInv, QueueStep, Queues!Next
<1> QED
  BY <1>1, <1>2

(* Taking out the first DB, and putting a DB in front and taking it out. *)
LEMMA FirstRemoved ==
    ASSUME NEW s \in Seq(Handle)
    PROVE  /\ s # << >> => Queues!RemoveAt(s, 1) = Tail(s) /\ Head(s) = s[1]
           /\ \A d \in Handle : Queues!RemoveAt(<<d>> \o s, 1) = s
<1>1. ASSUME s # << >>
      PROVE  Queues!RemoveAt(s, 1) = Tail(s) /\ Head(s) = s[1]
  <2>1. Len(s) \in Nat /\ 1 \in 1 .. Len(s)
    BY <1>1
  <2>2. /\ Queues!RemoveAt(s, 1) \in Seq(Handle) /\ Len(Queues!RemoveAt(s, 1)) = Len(s) - 1
        /\ \A j \in 1 .. Len(s) - 1 : Queues!RemoveAt(s, 1)[j] = s[j + 1]
    BY <2>1, Removed
  <2>3. /\ Tail(s) \in Seq(Handle) /\ Len(Tail(s)) = Len(s) - 1
        /\ \A j \in 1 .. Len(s) - 1 : Tail(s)[j] = s[j + 1]
    BY <1>1, HeadTailProperties
  <2> QED
    BY <2>2, <2>3, SeqEqual
<1>2. ASSUME NEW d \in Handle
      PROVE  Queues!RemoveAt(<<d>> \o s, 1) = s
  <2> DEFINE r == <<d>> \o s
  <2>1. r \in Seq(Handle) /\ Len(s) \in Nat /\ Len(r) = Len(s) + 1
        /\ \A i \in 1 .. Len(s) : r[i + 1] = s[i]
    BY Pushed
  <2> HIDE DEF r
  <2>2. 1 \in 1 .. Len(r) /\ Len(r) - 1 = Len(s)
    BY <2>1
  <2>3. /\ Queues!RemoveAt(r, 1) \in Seq(Handle) /\ Len(Queues!RemoveAt(r, 1)) = Len(s)
        /\ \A j \in 1 .. Len(s) : Queues!RemoveAt(r, 1)[j] = r[j + 1]
    <3> DEFINE q == Queues!RemoveAt(r, 1)
    <3>1. /\ q \in Seq(Handle) /\ Len(q) = Len(r) - 1
          /\ \A j \in 1 .. Len(r) - 1 : q[j] = IF j < 1 THEN r[j] ELSE r[j + 1]
      BY <2>1, <2>2, Removed
    <3> HIDE DEF q
    <3>2. \A j \in 1 .. Len(s) : q[j] = r[j + 1]
      BY <2>1, <2>2, <3>1
    <3> QED
      BY <2>2, <3>1, <3>2 DEF q
  <2>4. Queues!RemoveAt(r, 1) = s
    BY <2>1, <2>3, SeqEqual
  <2> QED
    BY <2>4 DEF r
<1> QED
  BY <1>1, <1>2

(* DB.open: the DB joins the sequence of its transaction, or leaves it again *)
(* when the native open fails.                                               *)
LEMMA OpenRefines ==
    ASSUME MaxOpens = 1, TypeOK, IInv, ChainInv, NEW d \in Handle,
           NEW t \in Txn \cup {NULL}, NEW ok \in BOOLEAN, DBOpen(d, t, ok)
    PROVE  ChainInv' /\ QueueStep
<1>1. txn[d] = NULL /\ d \in db
  <2>1. opens[d] \in Nat /\ opens[d] < 1
    BY DEF DBOpen, TypeOK
  <2> QED
    BY <2>1 DEF DBOpen, IInv
<1>2. CASE t = NULL
  <2>1. UNCHANGED <<mem, txn>>
    BY <1>1, <1>2 DEF DBOpen, Close, Store, Lists, TypeOK
  <2> QED
    BY <2>1, IdleRefines
<1>3. CASE t # NULL
  <2> DEFINE s == Sequences
             L == Inserted(Lists, t, d)
             tx == [txn EXCEPT ![d] = t]
             k == [s EXCEPT ![t] = <<d>> \o @]
  <2>1. /\ s \in [Txn -> Seq(Handle)] /\ GivesAll(Lists.mem, txn, s) /\ WellLinkedIn(Lists, txn)
        /\ Lists \in Pointers /\ txn \in [Handle -> Txn \cup {NULL}] /\ t \in Txn
    BY <1>3, ListsType DEF ChainInv, Lists, IInv, WellLinked, TypeOK
  <2>2. L \in Pointers /\ WellLinkedIn(L, tx)
    BY <1>1, <2>1, InsertKeepsLinks
  <2> HIDE DEF s
  <2>3. k \in [Txn -> Seq(Handle)]
    BY <2>1, Pushed
  <2>4. GivesAll(L.mem, tx, k)
    BY <1>1, <2>1, InsertGives
  <2>5. \A u \in Txn : \A i \in DOMAIN s[u] : s[u][i] # d
    BY <1>1, PlaceInChain, ListAssumption DEF s, Field
  <2> HIDE DEF k
  <2>6. CASE ok
    <3>1. mem' = L.mem /\ txn' = tx
      BY <1>3, <2>6 DEF DBOpen, Store
    <3>2. Sequences' = k /\ GivesAll(mem, txn, Sequences)'
      BY <2>3, <2>4, <3>1, SequencesAreNext
    <3>3. Queues!Join(d, t)
      BY <2>1, <2>5, <3>2, QueueSteps DEF k, s
    <3> QED
      BY <2>1, <2>3, <3>2, <3>3 DEF ChainInv, QueueStep, Queues!Next
  <2>7. CASE ~ok
    <3>1. mem' = Extracted(L, d).mem /\ txn' = [tx EXCEPT ![d] = NULL] /\ txn' = txn
      BY <1>1, <1>3, <2>1, <2>7 DEF DBOpen, Close, Store
    <3>2. /\ k[t] = <<d>> \o s[t] /\ Len(k[t]) = Len(s[t]) + 1 /\ k[t][1] = d
          /\ Len(s[t]) \in Nat
      BY <2>1, Pushed DEF k
    <3>3. 1 \in 1 .. Len(k[t]) /\ tx[d] = t /\ tx \in [Handle -> Txn \cup {NULL}]
      BY <2>1, <3>2
    <3> DEFINE j == [k EXCEPT ![t] = Queues!RemoveAt(@, 1)]
    <3>4. GivesAll(Extracted(L, d).mem, [tx EXCEPT ![d] = NULL], j)
      <4> HIDE DEF L, tx
      <4> QED
        BY <2>1, <2>2, <2>3, <2>4, <3>2, <3>3, ExtractGives
    <3>5. j = s
      <4>1. j[t] = s[t]
        BY <2>1, <2>3, <3>2, FirstRemoved
      <4>2. \A u \in Txn : j[u] = s[u]
        BY <2>1, <2>3, <4>1 DEF k
      <4> QED
        BY <2>1, <2>3, <4>2
    <3>6. Sequences' = s /\ GivesAll(mem, txn, Sequences)'
      BY <2>1, <3>1, <3>4, <3>5, SequencesAreNext
    <3> QED
      BY <2>1, <3>6 DEF ChainInv, QueueStep, s
  <2> QED
    BY <2>6, <2>7
<1> QED
  BY <1>2, <1>3

(* A turn of the loop of commit: the first DB leaves, or goes to the parent. *)
LEMMA PromoteRefines ==
    ASSUME TypeOK, IInv, ChainInv, Promote
    PROVE  ChainInv' /\ QueueStep
<1> DEFINE t == loop.of
           d == mem[t]
           q == ParentOf[t]
           L == Extracted(Lists, d)
           ty == [txn EXCEPT ![d] = NULL]
           s == Sequences
           k == [s EXCEPT ![t] = Queues!RemoveAt(@, 1)]
<1>1. t \in Txn /\ q \in Txn \cup {NULL} /\ q # t /\ d \in Handle
  BY ListAssumption DEF Promote, TypeOK, Loops, Idle, Field
<1>2. txn[d] = t
  BY <1>1 DEF Promote, IInv, WellLinked, WellLinkedIn, Lists, Linked, ListOf, Field
<1>3. /\ s \in [Txn -> Seq(Handle)] /\ GivesAll(Lists.mem, txn, s) /\ WellLinkedIn(Lists, txn)
      /\ Lists \in Pointers /\ txn \in [Handle -> Txn \cup {NULL}] /\ NULL \notin Txn
  BY ListsType, ListAssumption DEF ChainInv, Lists, IInv, WellLinked, TypeOK, Field
<1>4. /\ mem' = (IF q = NULL THEN L ELSE Inserted(L, q, d)).mem
      /\ txn' = [txn EXCEPT ![d] = q]
  BY DEF Promote, Store
<1>5. d # NULL /\ d = Lists.mem[t]
  BY DEF Promote, Lists
<1> HIDE DEF s, t, q, d
<1>6. 1 \in 1 .. Len(s[t]) /\ s[t][1] = d /\ s[t] \in Seq(Handle) /\ s[t] # << >>
  BY <1>1, <1>3, <1>5 DEF GivesAll, Gives
<1>7. L \in Pointers /\ GivesAll(L.mem, ty, k)
  BY <1>1, <1>2, <1>3, <1>6, ExtractKeepsLinks, ExtractGives
<1>8. k \in [Txn -> Seq(Handle)] /\ k[t] = Tail(s[t]) /\ d = Head(s[t])
  BY <1>1, <1>3, <1>6, Removed, FirstRemoved
<1>9. \A u \in Txn : u # t => k[u] = s[u]
  BY <1>3
<1>10. DOMAIN s[t] = 1 .. Len(s[t])
  BY <1>6
<1>11. CASE q = NULL
  <2>1. mem' = L.mem /\ txn' = ty
    BY <1>4, <1>11
  <2>2. Sequences' = k /\ GivesAll(mem, txn, Sequences)'
    BY <1>7, <1>8, <2>1, SequencesAreNext
  <2>3. Queues!Leave(d, t)
    BY <1>1, <1>6, <1>10, <2>2, QueueSteps DEF s
  <2> QED
    BY <1>1, <1>8, <2>2, <2>3 DEF ChainInv, QueueStep, Queues!Next
<1>12. CASE q # NULL
  <2> DEFINE j == [k EXCEPT ![q] = <<d>> \o @]
  <2>1. q \in Txn /\ ty \in [Handle -> Txn \cup {NULL}] /\ ty[d] = NULL
    BY <1>1, <1>3, <1>12
  <2>2. mem' = Inserted(L, q, d).mem /\ txn' = [ty EXCEPT ![d] = q]
    BY <1>1, <1>3, <1>4, <1>12
  <2>3. GivesAll(Inserted(L, q, d).mem, [ty EXCEPT ![d] = q], j)
    <3> HIDE DEF L, ty, k
    <3> QED
      BY <1>1, <1>7, <1>8, <2>1, InsertGives
  <2>4. j \in [Txn -> Seq(Handle)]
    BY <1>1, <1>8, <2>1, Pushed
  <2>5. Sequences' = j /\ GivesAll(mem, txn, Sequences)'
    BY <2>2, <2>3, <2>4, SequencesAreNext
  <2>6. j = [s EXCEPT ![t] = Tail(@), ![q] = <<Head(s[t])>> \o @]
    <3>1. \A u \in Txn : j[u] = [s EXCEPT ![t] = Tail(@), ![q] = <<Head(s[t])>> \o @][u]
      BY <1>1, <1>3, <1>8, <1>9, <2>1
    <3> HIDE DEF j
    <3> QED
      BY <1>3, <2>4, <3>1
  <2>7. Queues!Inherit(t)
    BY <1>1, <1>6, <1>12, <2>5, <2>6, QueueSteps DEF s, q
  <2> QED
    BY <1>1, <2>4, <2>5, <2>7 DEF ChainInv, QueueStep, Queues!Next
<1> QED
  BY <1>11, <1>12

LEMMA ChainInit == Init => ChainInv /\ Queues!Init
<1> SUFFICES ASSUME Init
             PROVE  ChainInv /\ Queues!Init
  OBVIOUS
<1> DEFINE l == [t \in Txn |-> << >>]
<1>1. l \in [Txn -> Seq(Handle)] /\ NULL \notin Txn
  BY ListAssumption DEF Field
<1>2. GivesAll(mem, txn, l)
  BY <1>1 DEF Init, GivesAll, Gives, Field
<1>3. Sequences = l
  BY <1>1, <1>2, SequencesAre DEF ReadOff
<1> QED
  BY <1>1, <1>2, <1>3 DEF ChainInv, Queues!Init, Sequences

LEMMA ChainNext ==
    ASSUME MaxOpens = 1, TypeOK, IInv, ChainInv, [Next]_vars
    PROVE  ChainInv' /\ QueueStep
<1>1. ASSUME NEW d \in Handle, NEW t \in Txn \cup {NULL}, NEW ok \in BOOLEAN,
             DBOpen(d, t, ok)
      PROVE  ChainInv' /\ QueueStep
  BY <1>1, OpenRefines
<1>2. ASSUME NEW d \in Handle, DBClose(d) PROVE ChainInv' /\ QueueStep
  BY <1>2, CloseRefines DEF DBClose
<1>3. CASE Promote
  BY <1>3, PromoteRefines
<1>4. CASE CloseHead
  <2>1. loop.of \in Txn /\ mem[loop.of] \in Handle
    BY <1>4, ListAssumption DEF CloseHead, TypeOK, Loops, Idle, Field
  <2>2. mem[loop.of] \in db
    BY <2>1, <1>4 DEF CloseHead, IInv, WellLinked, WellLinkedIn, Lists, Linked, Field
  <2> QED
    BY <1>4, <2>1, <2>2, CloseRefines DEF CloseHead
<1>5. ASSUME UNCHANGED <<mem, txn>> PROVE ChainInv' /\ QueueStep
  BY <1>5, IdleRefines
<1> QED
  BY <1>1, <1>2, <1>3, <1>4, <1>5 DEF Next, Turn, Resolve, LoopEnds, vars

(* The pointers implement the sequences of TxnQueues, read from the head of  *)
(* each transaction: opening puts a DB in front, closing takes it out        *)
(* wherever it is, and a commit hands the first one to the parent.           *)
THEOREM QueuesRefined == ASSUME MaxOpens = 1 PROVE Spec => ImplementsQueues
<1>1. Init => TypeOK /\ IInv /\ ChainInv /\ Queues!Init
  BY TypeInit, ChainInit
<1>2. TypeOK /\ IInv /\ ChainInv /\ [Next]_vars =>
         (TypeOK /\ IInv /\ ChainInv)' /\ [Queues!Next]_Sequences
  BY IInvNext, ChainNext DEF QueueStep
<1> QED
  BY <1>1, <1>2, PTL DEF Spec, ImplementsQueues, Queues!Spec, Sequences

=============================================================================
