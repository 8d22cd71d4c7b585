-------------------------- MODULE LockRetry_proofs --------------------------
(* Theorems about LockRetry, for any threads, objects, orders and limits.    *)
EXTENDS LockRetry, FiniteSetTheorems, TLAPS

(* How often an object is among the first of an order. *)
LEMMA AmongFirst ==
    ASSUME NEW order, NEW o, NEW n \in Nat
    PROVE  /\ Among(order, n, o) \in Nat
           /\ Among(order, 0, o) = 0
           /\ Among(order, n + 1, o) = Among(order, n, o) + (IF order[n + 1] = o THEN 1 ELSE 0)
<1> DEFINE S(k) == {i \in 1..k : order[i] = o}
<1>1. ASSUME NEW k \in Nat PROVE IsFiniteSet(S(k))
  <2>1. IsFiniteSet(1..k)
    BY FS_Interval
  <2> QED
    BY <2>1, FS_Subset
<1>2. Cardinality(S(n)) \in Nat
  BY <1>1, FS_CardinalityType
<1>3. S(0) = {}
  OBVIOUS
<1>4. S(n + 1) = IF order[n + 1] = o THEN S(n) \cup {n + 1} ELSE S(n)
  <2>1. 1..(n + 1) = (1..n) \cup {n + 1}
    OBVIOUS
  <2> QED
    BY <2>1
<1>5. n + 1 \notin S(n)
  OBVIOUS
<1>6. Cardinality(S(n) \cup {n + 1}) = Cardinality(S(n)) + 1
  <2> HIDE DEF S
  <2> QED
    BY <1>1, <1>5, FS_AddElement
<1>7. /\ Among(order, 0, o) = Cardinality(S(0))
      /\ Among(order, n, o) = Cardinality(S(n))
      /\ Among(order, n + 1, o) = Cardinality(S(n + 1))
  BY DEF Among
<1> HIDE DEF S
<1> QED
  BY <1>2, <1>3, <1>4, <1>6, <1>7, FS_EmptySet

(* What the choice of a program and its environment gives. *)
LEMMA SetupFacts ==
    ASSUME setup \in Setups, NEW t \in Thread
    PROVE  /\ Order(t) \in Seq(Object) /\ Len(Order(t)) > 0
           /\ Style(t) \in Styles /\ Limit(t) \in Int
           /\ Style(t) = "drop" => Limit(t) >= 0
<1>1. setup.order \in [Thread -> Orders] /\ setup.style \in [Thread -> Styles]
      /\ setup.limit \in [Thread -> Limits]
  BY DEF Setups
<1>2. Order(t) \in Orders /\ Style(t) \in Styles /\ Limit(t) \in Int
  BY <1>1, LocksAssumption DEF Order, Style, Limit
<1>3. Order(t) \in Seq(Object) /\ Order(t) # <<>>
  BY <1>2, LocksAssumption
<1>4. Len(Order(t)) > 0
  BY <1>3
<1>5. Style(t) = "drop" => Limit(t) >= 0
  BY DEF Setups, Style, Limit
<1> QED
  BY <1>2, <1>3, <1>4, <1>5

(* A step that changes no lock and returns none leaves them accounted for. *)
LEMMA SameLocks ==
    ASSUME IInv, UNCHANGED <<setup, got, dropped, owner, refs>>,
           \A t \in Thread : res'[t] = "granted" <=> res[t] = "granted"
    PROVE  /\ LocksAccounted'
           /\ (\A o \in Object : owner[o] = None <=> refs[o] = 0)'
<1>1. \A t \in Thread, o \in Object : InCall(t, o)' = InCall(t, o) /\ Has(t, o)' = Has(t, o)
  BY DEF InCall, Has, Want, Order
<1> QED
  BY <1>1 DEF IInv, LocksAccounted

(* What a thread wants to have or to put back is an object. *)
LEMMA WantsObject ==
    ASSUME IInv, NEW t \in Thread
    PROVE  /\ goal[t] = "get" => Want(t) \in Object
           /\ got[t] > 0 => Latest(t) \in Object
<1>1. Order(t) \in Seq(Object) /\ got[t] \in Nat /\ got[t] <= Len(Order(t))
  BY SetupFacts DEF IInv, TypeOK, CallInv
<1>2. goal[t] = "get" => got[t] + 1 \in 1..Len(Order(t))
  BY <1>1 DEF IInv, CallInv
<1>3. got[t] > 0 => got[t] \in 1..Len(Order(t))
  BY <1>1
<1>4. \A i \in 1..Len(Order(t)) : Order(t)[i] \in Object
  BY <1>1
<1> QED
  BY <1>2, <1>3, <1>4 DEF Want, Latest

LEMMA InitInv ==
    ASSUME Init
    PROVE  IInv
<1>1. \A t \in Thread : Order(t) \in Seq(Object) /\ Len(Order(t)) > 0 /\ Limit(t) \in Int
  BY SetupFacts DEF Init
<1>2. setup.limit \in [Thread -> Int]
  BY LocksAssumption DEF Init, Setups
<1>3. TypeOK
  BY <1>2 DEF Init, TypeOK, Goals, Places, Results
<1>4. LocksAccounted
  BY AmongFirst, LocksAssumption DEF Init, LocksAccounted, Has, InCall
<1>5. \A t \in Thread : CallInv(t)
  BY <1>1 DEF Init, CallInv
<1>6. \A t \in Thread : TriesInv(t)
  BY <1>1 DEF Init, TriesInv, Limit
<1>7. \A o \in Object : owner[o] = None <=> refs[o] = 0
  BY DEF Init
<1> QED
  BY <1>3, <1>4, <1>5, <1>6, <1>7 DEF IInv

-----------------------------------------------------------------------------
(* The lock table.                                                           *)

(* The waiting threads of D and E are answered, and those of B wait or fail. *)
LEMMA RefuseStep ==
    ASSUME IInv, NEW D \in SUBSET Thread, NEW E \in SUBSET Thread, NEW B \in SUBSET Thread,
           Refuse(D, E, B),
           \A u \in D \cup E \cup B : at[u] \in {"get", "waiting"},
           UNCHANGED <<setup, gil, goal, left, tries, got, dropped, owner, refs>>
    PROVE  IInv'
<1>1. TypeOK'
  BY DEF IInv, TypeOK, Refuse, Places, Results
<1>2. \A u \in Thread : res'[u] = "granted" <=> res[u] = "granted"
  BY DEF Refuse, IInv, CallInv
<1>3. ASSUME NEW u \in Thread PROVE CallInv(u)' /\ TriesInv(u)'
  BY DEF Refuse, IInv, CallInv, TriesInv, Order, Style, Limit
<1> QED
  BY <1>1, <1>2, <1>3, SameLocks DEF IInv

LEMMA BlockedStep ==
    ASSUME IInv, NEW t \in Thread, Blocked(t) \/ Fails(t)
    PROVE  IInv'
<1>1. CASE Blocked(t)
  <2>1. PICK V \in SUBSET (Waiting \cup {t}) : Refuse(V, {}, {t})
    BY <1>1 DEF Blocked
  <2> QED
    BY <1>1, <2>1, RefuseStep DEF Blocked, Waiting, locals, table
<1>2. CASE Fails(t)
  BY <1>2, RefuseStep DEF Fails, locals, table
<1> QED
  BY <1>1, <1>2

LEMMA DetectStep ==
    ASSUME IInv, Detect
    PROVE  IInv'
<1>1. PICK V \in SUBSET Waiting, D \in SUBSET Waiting, E \in SUBSET Waiting : Refuse(V \cup D, E, {})
  BY DEF Detect
<1>2. V \cup D \in SUBSET Thread /\ E \in SUBSET Thread
  BY DEF Waiting
<1> QED
  BY <1>1, <1>2, RefuseStep DEF Detect, Waiting, locals, table

LEMMA GrantedStep ==
    ASSUME IInv, NEW t \in Thread, Granted(t)
    PROVE  IInv'
<1> DEFINE w == Want(t)
<1>1. w \in Object
  BY WantsObject DEF Granted, IInv, CallInv
<1>2. /\ at' = [at EXCEPT ![t] = "back"] /\ res' = [res EXCEPT ![t] = "granted"]
      /\ owner' = [owner EXCEPT ![w] = t] /\ refs' = [refs EXCEPT ![w] = @ + 1]
      /\ UNCHANGED <<setup, gil, goal, left, tries, got, dropped>>
      /\ at[t] = "get" /\ owner[w] \in {None, t}
  BY DEF Granted, Free, locals
<1> HIDE DEF w
<1>3. TypeOK'
  BY <1>1, <1>2 DEF IInv, TypeOK, Places, Results
<1>4. ASSUME NEW u \in Thread PROVE CallInv(u)' /\ TriesInv(u)'
  BY <1>2 DEF IInv, TypeOK, CallInv, TriesInv, Order, Style, Limit
<1>5. (\A o \in Object : owner[o] = None <=> refs[o] = 0)'
  BY <1>1, <1>2, LocksAssumption DEF IInv, TypeOK
<1>6. LocksAccounted'
  <2> SUFFICES ASSUME NEW u \in Thread, NEW o \in Object
               PROVE (Has(u, o) + InCall(u, o) + dropped[u][o]
                         = IF owner[o] = u THEN refs[o] ELSE 0)'
    BY DEF LocksAccounted
  <2>1. Has(u, o)' = Has(u, o) /\ dropped'[u][o] = dropped[u][o] /\ Want(u)' = Want(u)
    BY <1>2 DEF Has, Order, Want
  <2>2. Has(u, o) + InCall(u, o) + dropped[u][o] = IF owner[o] = u THEN refs[o] ELSE 0
    BY DEF IInv, LocksAccounted
  <2>3. Has(u, o) \in Nat /\ dropped[u][o] \in Nat /\ refs[o] \in Nat
    BY AmongFirst DEF Has, IInv, TypeOK
  <2>4. CASE u = t /\ o = w
    <3>1. InCall(u, o) = 0 /\ InCall(u, o)' = 1
      BY <1>2, <2>1, <2>4 DEF InCall, w, IInv, TypeOK, CallInv
    <3>2. owner'[o] = u /\ refs'[o] = refs[o] + 1
      BY <1>2, <2>4 DEF IInv, TypeOK
    <3>3. (IF owner[o] = u THEN refs[o] ELSE 0) = refs[o]
      BY <1>2, <2>4 DEF IInv
    <3> QED
      BY <2>1, <2>2, <2>3, <3>1, <3>2, <3>3
  <2>5. CASE u = t /\ o # w
    <3>1. InCall(u, o) = 0 /\ InCall(u, o)' = 0
      BY <2>1, <2>5 DEF InCall, w
    <3>2. owner'[o] = owner[o] /\ refs'[o] = refs[o]
      BY <1>2, <2>5 DEF IInv, TypeOK
    <3> QED
      BY <2>1, <2>2, <3>1, <3>2
  <2>6. CASE u # t
    <3>1. InCall(u, o)' = InCall(u, o)
      BY <1>2, <2>1, <2>6 DEF InCall, IInv, TypeOK
    <3>2. (IF owner[o] = u THEN refs[o] ELSE 0)' = IF owner[o] = u THEN refs[o] ELSE 0
      BY <1>1, <1>2, <2>6, LocksAssumption DEF IInv, TypeOK
    <3> QED
      BY <2>1, <2>2, <3>1, <3>2
  <2> QED
    BY <2>4, <2>5, <2>6
<1> QED
  BY <1>3, <1>4, <1>5, <1>6 DEF IInv

(* A lock_put of the last lock, or of one that the locker has twice, with or
   without a thread that waits for it. *)
LEMMA PutDoneStep ==
    ASSUME IInv, NEW t \in Thread, PutDone(t)
    PROVE  IInv'
<1> DEFINE l == Latest(t)
<1>1. got[t] \in Nat /\ got[t] > 0 /\ l \in Object
  BY WantsObject DEF PutDone, IInv, CallInv, TypeOK
<1>2. /\ at[t] = "put" /\ got' = [got EXCEPT ![t] = @ - 1]
      /\ UNCHANGED <<setup, gil, goal, left, tries, dropped>>
  BY DEF PutDone
<1>3. \/ /\ refs[l] > 1 \/ ~ \E u \in Waiting : Want(u) = l
         /\ refs' = [refs EXCEPT ![l] = @ - 1]
         /\ owner' = IF refs[l] > 1 THEN owner ELSE [owner EXCEPT ![l] = None]
         /\ at' = [at EXCEPT ![t] = "back"]
         /\ res' = res
      \/ /\ refs[l] = 1
         /\ \E u \in Waiting :
              /\ Want(u) = l
              /\ owner' = [owner EXCEPT ![l] = u]
              /\ at' = [at EXCEPT ![t] = "back", ![u] = "back"]
              /\ res' = [res EXCEPT ![u] = "granted"]
         /\ refs' = refs
  BY DEF PutDone
<1> DEFINE before == got[t] - 1
<1>4. before \in Nat /\ before + 1 = got[t] /\ l = Order(t)[before + 1]
  BY <1>1 DEF Latest
<1>5. /\ Has(t, l) \in Nat /\ Has(t, l) > 0
      /\ \A o : Has(t, o)' = Has(t, o) - (IF o = l THEN 1 ELSE 0)
      /\ \A o : Has(t, o)' \in Nat
  <2>1. got'[t] = before /\ Order(t)' = Order(t)
    BY <1>2 DEF IInv, TypeOK, Order
  <2>2. \A o : /\ Among(Order(t), before, o) \in Nat
               /\ Among(Order(t), before + 1, o)
                     = Among(Order(t), before, o) + (IF l = o THEN 1 ELSE 0)
    BY <1>4, AmongFirst
  <2>3. \A o : Has(t, o) = Among(Order(t), before + 1, o) /\ Has(t, o)' = Among(Order(t), before, o)
    BY <1>4, <2>1 DEF Has
  <2> HIDE DEF before, l
  <2> QED
    BY <2>2, <2>3
<1> HIDE DEF l, before
<1>6. owner[l] = t /\ refs[l] > 0
  <2>1. Has(t, l) + InCall(t, l) + dropped[t][l] = IF owner[l] = t THEN refs[l] ELSE 0
    BY <1>1 DEF IInv, LocksAccounted
  <2>2. InCall(t, l) \in Nat /\ dropped[t][l] \in Nat /\ refs[l] \in Nat
    BY <1>1 DEF InCall, IInv, TypeOK
  <2> QED
    BY <1>5, <2>1, <2>2
<1>7. ASSUME NEW u \in Thread, NEW o \in Object
      PROVE  /\ Has(u, o) + InCall(u, o) + dropped[u][o] = IF owner[o] = u THEN refs[o] ELSE 0
             /\ u # t => Has(u, o)' = Has(u, o) /\ Want(u)' = Want(u)
             /\ Has(u, o) \in Nat /\ dropped[u][o] \in Nat /\ refs[o] \in Nat
             /\ dropped'[u][o] = dropped[u][o]
             /\ InCall(t, o) = 0
  <2>1. Has(u, o) + InCall(u, o) + dropped[u][o] = IF owner[o] = u THEN refs[o] ELSE 0
    BY DEF IInv, LocksAccounted
  <2>2. u # t => got'[u] = got[u]
    BY <1>2 DEF IInv, TypeOK
  <2>3. u # t => Has(u, o)' = Has(u, o) /\ Want(u)' = Want(u)
    BY <1>2, <2>2 DEF Has, Want, Order
  <2>4. got[u] \in Nat /\ dropped[u][o] \in Nat /\ refs[o] \in Nat
    BY DEF IInv, TypeOK
  <2>5. Has(u, o) \in Nat
    BY <2>4, AmongFirst DEF Has
  <2>6. InCall(t, o) = 0
    BY <1>2 DEF InCall, IInv, CallInv
  <2> QED
    BY <1>2, <2>1, <2>3, <2>4, <2>5, <2>6
<1>10. \A u \in Thread : /\ Order(u)' = Order(u) /\ Style(u)' = Style(u) /\ Limit(u)' = Limit(u)
                         /\ got[u] \in Nat /\ Len(Order(u)) \in Nat
                         /\ got'[u] = IF u = t THEN got[u] - 1 ELSE got[u]
  BY <1>2, SetupFacts DEF IInv, TypeOK, Order, Style, Limit
<1>11. \A u \in Thread : TriesInv(u)'
  BY <1>2, <1>10 DEF IInv, TriesInv
<1>8. CASE /\ refs' = [refs EXCEPT ![l] = @ - 1]
           /\ owner' = IF refs[l] > 1 THEN owner ELSE [owner EXCEPT ![l] = None]
           /\ at' = [at EXCEPT ![t] = "back"]
           /\ res' = res
  <2>1. TypeOK'
    BY <1>1, <1>2, <1>6, <1>8 DEF IInv, TypeOK, Places
  <2>2. ASSUME NEW u \in Thread PROVE CallInv(u)' /\ TriesInv(u)'
    <3>1. CallInv(u) /\ CallInv(t)
      BY DEF IInv
    <3>2. CASE u = t
      <4>1. at'[t] = "back" /\ res'[t] = "none"
        BY <1>1, <1>2, <1>8 DEF IInv, TypeOK, CallInv
      <4> QED
        BY <1>1, <1>2, <1>10, <1>11, <3>1, <3>2, <4>1 DEF CallInv
    <3>3. CASE u # t
      <4> QED
        BY <1>2, <1>8, <1>10, <1>11, <3>1, <3>3 DEF CallInv, IInv, TypeOK
    <3> QED
      BY <3>2, <3>3
  <2>3. (\A o \in Object : owner[o] = None <=> refs[o] = 0)'
    BY <1>1, <1>6, <1>8, LocksAssumption DEF IInv, TypeOK
  <2>4. ASSUME NEW u \in Thread, NEW o \in Object
        PROVE (Has(u, o) + InCall(u, o) + dropped[u][o] = IF owner[o] = u THEN refs[o] ELSE 0)'
    <3>1. CASE u = t
      <4>1. InCall(u, o) = 0 /\ InCall(u, o)' = 0
        BY <1>2, <1>8, <3>1 DEF InCall, IInv, CallInv
      <4>2. CASE o = l
        <5>1. (IF owner[o] = u THEN refs[o] ELSE 0)' = refs[l] - 1
          BY <1>1, <1>6, <1>7, <1>8, <3>1, <4>2, LocksAssumption DEF IInv, TypeOK
        <5> QED
          BY <1>5, <1>6, <1>7, <3>1, <4>1, <4>2, <5>1
      <4>3. CASE o # l
        <5>1. owner'[o] = owner[o] /\ refs'[o] = refs[o]
          BY <1>8, <4>3 DEF IInv, TypeOK
        <5>2. Has(u, o)' = Has(u, o)
          BY <1>5, <1>7, <3>1, <4>3
        <5> QED
          BY <1>7, <4>1, <5>1, <5>2
      <4> QED
        BY <4>2, <4>3
    <3>2. CASE u # t
      <4>1. InCall(u, o)' = InCall(u, o)
        BY <1>7, <1>8, <3>2 DEF InCall
      <4>2. (IF owner[o] = u THEN refs[o] ELSE 0)' = IF owner[o] = u THEN refs[o] ELSE 0
        BY <1>1, <1>6, <1>8, <3>2, LocksAssumption DEF IInv, TypeOK
      <4> QED
        BY <1>7, <3>2, <4>1, <4>2
    <3> QED
      BY <3>1, <3>2
  <2> QED
    BY <2>1, <2>2, <2>3, <2>4 DEF IInv, LocksAccounted
<1>9. CASE /\ refs[l] = 1
           /\ \E u \in Waiting :
                /\ Want(u) = l
                /\ owner' = [owner EXCEPT ![l] = u]
                /\ at' = [at EXCEPT ![t] = "back", ![u] = "back"]
                /\ res' = [res EXCEPT ![u] = "granted"]
           /\ refs' = refs
  <2>1. PICK v \in Waiting : /\ Want(v) = l
                             /\ owner' = [owner EXCEPT ![l] = v]
                             /\ at' = [at EXCEPT ![t] = "back", ![v] = "back"]
                             /\ res' = [res EXCEPT ![v] = "granted"]
    BY <1>9
  <2>2. v \in Thread /\ at[v] = "waiting" /\ v # t
    BY <1>2 DEF Waiting
  <2>3. TypeOK'
    <3>1. got' \in [Thread -> Nat]
      BY <1>1, <1>2 DEF IInv, TypeOK
    <3>2. at' \in [Thread -> Places] /\ res' \in [Thread -> Results]
      BY <2>1 DEF IInv, TypeOK, Places, Results
    <3>3. owner' \in [Object -> Thread \cup {None}]
      BY <2>1, <2>2 DEF IInv, TypeOK
    <3> QED
      BY <1>2, <1>9, <3>1, <3>2, <3>3 DEF IInv, TypeOK
  <2>4. ASSUME NEW u \in Thread PROVE CallInv(u)' /\ TriesInv(u)'
    <3>1. CallInv(u) /\ CallInv(t)
      BY DEF IInv
    <3>2. CASE u = t
      <4>1. at'[t] = "back" /\ res'[t] = "none"
        BY <1>1, <1>2, <2>1, <2>2 DEF IInv, TypeOK, CallInv
      <4> QED
        BY <1>1, <1>2, <1>10, <1>11, <3>1, <3>2, <4>1 DEF CallInv
    <3>3. CASE u # t
      <4>1. CASE u = v
        <5>1. at'[u] = "back" /\ got'[u] = got[u]
          BY <1>10, <2>1, <2>2, <3>3, <4>1 DEF IInv, TypeOK
        <5> QED
          BY <1>2, <1>10, <1>11, <2>2, <3>1, <4>1, <5>1 DEF CallInv
      <4>2. CASE u # v
        <5>1. at'[u] = at[u] /\ res'[u] = res[u] /\ got'[u] = got[u]
          BY <1>10, <2>1, <3>3, <4>2 DEF IInv, TypeOK
        <5> QED
          BY <1>2, <1>10, <1>11, <3>1, <5>1 DEF CallInv
      <4> QED
        BY <4>1, <4>2
    <3> QED
      BY <3>2, <3>3
  <2>5. (\A o \in Object : owner[o] = None <=> refs[o] = 0)'
    BY SMTT(30), <1>1, <1>9, <2>1, <2>2, LocksAssumption DEF IInv, TypeOK
  <2>6. ASSUME NEW u \in Thread, NEW o \in Object
        PROVE (Has(u, o) + InCall(u, o) + dropped[u][o] = IF owner[o] = u THEN refs[o] ELSE 0)'
    <3>1. CASE u = t
      <4>0. res'[u] = res[u]
        BY <2>1, <2>2, <3>1 DEF IInv, TypeOK
      <4>1. InCall(u, o) = 0 /\ InCall(u, o)' = 0
        BY <1>2, <3>1, <4>0 DEF InCall, IInv, CallInv
      <4>2. CASE o = l
        <5>1. (IF owner[o] = u THEN refs[o] ELSE 0)' = 0
          BY <1>1, <2>1, <2>2, <3>1, <4>2 DEF IInv, TypeOK
        <5> QED
          BY <1>5, <1>6, <1>7, <1>9, <3>1, <4>1, <4>2, <5>1
      <4>3. CASE o # l
        <5>1. owner'[o] = owner[o] /\ refs'[o] = refs[o]
          BY <1>9, <2>1, <4>3 DEF IInv, TypeOK
        <5>2. Has(u, o)' = Has(u, o)
          BY <1>5, <1>7, <3>1, <4>3
        <5> QED
          BY <1>7, <4>1, <5>1, <5>2
      <4> QED
        BY <4>2, <4>3
    <3>2. CASE u = v
      <4>1. CASE o = l
        <5>1. InCall(u, o) = 0 /\ InCall(u, o)' = 1
          BY <1>7, <2>1, <2>2, <3>2, <4>1 DEF InCall, IInv, CallInv, TypeOK
        <5>2. (IF owner[o] = u THEN refs[o] ELSE 0)' = 1 /\ owner[o] # u
          BY <1>1, <1>6, <1>9, <2>1, <2>2, <3>2, <4>1 DEF IInv, TypeOK
        <5> QED
          BY <1>7, <2>2, <3>2, <5>1, <5>2
      <4>2. CASE o # l
        <5>1. InCall(u, o) = 0 /\ InCall(u, o)' = 0
          BY <1>7, <2>1, <2>2, <3>2, <4>2 DEF InCall
        <5>2. owner'[o] = owner[o] /\ refs'[o] = refs[o]
          BY <1>9, <2>1, <4>2 DEF IInv, TypeOK
        <5> QED
          BY <1>7, <2>2, <3>2, <5>1, <5>2
      <4> QED
        BY <4>1, <4>2
    <3>3. CASE u # t /\ u # v
      <4>1. InCall(u, o)' = InCall(u, o)
        BY <1>7, <2>1, <3>3 DEF InCall, IInv, TypeOK
      <4>2. (IF owner[o] = u THEN refs[o] ELSE 0)' = IF owner[o] = u THEN refs[o] ELSE 0
        BY <1>1, <1>6, <1>9, <2>1, <3>3 DEF IInv, TypeOK
      <4> QED
        BY <1>7, <3>3, <4>1, <4>2
    <3> QED
      BY <3>1, <3>2, <3>3
  <2> QED
    BY <2>3, <2>4, <2>5, <2>6 DEF IInv, LocksAccounted
<1> QED
  BY <1>3, <1>8, <1>9

-----------------------------------------------------------------------------
(* Python.                                                                   *)

(* A step that changes neither locks nor results but where a thread is. *)
LEMMA WalkStep ==
    ASSUME IInv, NEW t \in Thread,
           Get(t) \/ Put(t) \/ Sleep(t) \/ FreeLocker(t) \/ Return(t)
    PROVE  IInv'
<1>1. res' = res /\ UNCHANGED <<setup, goal, left, tries, got, dropped, owner, refs>>
  BY DEF Get, Put, Sleep, FreeLocker, Return, Regain, Leaves, locals, table, IInv, TypeOK
<1>2. gil' \in {t, None, gil}
  BY DEF Get, Put, Sleep, FreeLocker, Return, Regain, Leaves, AllowThreads
<1>3. PICK p \in {"get", "put", "sleep", "freed", "python"} :
          /\ at' = [at EXCEPT ![t] = p] /\ res[t] = "none"
          /\ p = "get" => goal[t] = "get"
          /\ p = "put" => got[t] > 0
          /\ p = "sleep" => goal[t] = "sleep" /\ (Style(t) = "whole" => got[t] = 0)
  <2>1. CASE Get(t)
    BY <2>1 DEF Get, Leaves, Python, IInv, CallInv
  <2>2. CASE Put(t)
    BY <2>2 DEF Put, Leaves, Python, IInv, CallInv
  <2>3. CASE Sleep(t)
    BY <2>3 DEF Sleep, Unwound, Leaves, Python, IInv, CallInv
  <2>4. CASE FreeLocker(t)
    BY <2>4 DEF FreeLocker, IInv, CallInv
  <2>5. CASE Return(t)
    BY <2>5 DEF Return, Regain
  <2> QED
    BY <2>1, <2>2, <2>3, <2>4, <2>5
<1>4. TypeOK'
  BY <1>1, <1>2, <1>3 DEF IInv, TypeOK, Places
<1>5. ASSUME NEW u \in Thread PROVE CallInv(u)' /\ TriesInv(u)'
  BY <1>1, <1>3 DEF IInv, TypeOK, CallInv, TriesInv, Order, Style, Limit
<1> QED
  BY <1>1, <1>4, <1>5, SameLocks DEF IInv

LEMMA KeepStep ==
    ASSUME IInv, NEW t \in Thread, Keep(t)
    PROVE  IInv'
<1>1. /\ res[t] = "granted" /\ gil' = t /\ at[t] = "back" /\ goal[t] = "get"
      /\ at' = [at EXCEPT ![t] = "python"] /\ res' = [res EXCEPT ![t] = "none"]
      /\ got' = [got EXCEPT ![t] = @ + 1]
      /\ goal' = [goal EXCEPT ![t] = IF got[t] + 1 = Len(Order(t)) THEN "ok" ELSE "get"]
      /\ UNCHANGED <<setup, dropped, owner, refs>>
  BY DEF Keep, Regain, NewLock, table, IInv, CallInv
<1>2. \/ left' = [left EXCEPT ![t] = Limit(t)] /\ tries' = [tries EXCEPT ![t] = 1]
      \/ left' = left /\ tries' = tries
  BY Zenon DEF Keep
<1>3. \A u \in Thread : /\ Order(u)' = Order(u) /\ Style(u)' = Style(u) /\ Limit(u)' = Limit(u)
                        /\ Limit(u) \in Int /\ got[u] \in Nat /\ Len(Order(u)) \in Nat
                        /\ got'[u] = IF u = t THEN got[u] + 1 ELSE got[u]
  BY SMTT(30), <1>1, SetupFacts DEF IInv, TypeOK, Order, Style, Limit
<1>4. TypeOK'
  BY <1>1, <1>2, <1>3 DEF IInv, TypeOK, Places, Goals, Results
<1>5. ASSUME NEW u \in Thread PROVE CallInv(u)'
  <2>1. CASE u = t
    <3>1. at'[t] = "python" /\ res'[t] = "none"
          /\ goal'[t] = IF got[t] + 1 = Len(Order(t)) THEN "ok" ELSE "get"
      BY <1>1 DEF IInv, TypeOK
    <3>2. got[t] < Len(Order(t)) /\ (Style(t) # "drop" => \A o \in Object : dropped[t][o] = 0)
      BY <1>1 DEF IInv, CallInv
    <3> QED
      BY <1>1, <1>3, <2>1, <3>1, <3>2 DEF CallInv
  <2>2. CASE u # t
    <3>1. at'[u] = at[u] /\ res'[u] = res[u] /\ goal'[u] = goal[u]
      BY <1>1, <2>2 DEF IInv, TypeOK
    <3> QED
      BY <1>1, <1>3, <2>2, <3>1 DEF CallInv, IInv
  <2> QED
    BY <2>1, <2>2
<1>6. ASSUME NEW u \in Thread PROVE TriesInv(u)'
  <2>1. CASE u = t
    <3>1. goal'[t] # "deadlock"
      BY <1>1 DEF IInv, TypeOK
    <3>2. CASE left' = [left EXCEPT ![t] = Limit(t)] /\ tries' = [tries EXCEPT ![t] = 1]
      <4>1. left'[t] = Limit(t) /\ tries'[t] = 1
        BY <3>2 DEF IInv, TypeOK
      <4> QED
        BY <1>3, <2>1, <3>1, <4>1 DEF TriesInv, IInv
    <3>3. CASE left' = left /\ tries' = tries
      BY <1>3, <2>1, <3>1, <3>3 DEF TriesInv, IInv
    <3> QED
      BY <1>2, <3>2, <3>3
  <2>2. CASE u # t
    <3>1. left'[u] = left[u] /\ tries'[u] = tries[u] /\ goal'[u] = goal[u]
      BY <1>1, <1>2, <2>2 DEF IInv, TypeOK
    <3> QED
      BY <1>3, <3>1 DEF TriesInv, IInv
  <2> QED
    BY <2>1, <2>2
<1>7. ASSUME NEW u \in Thread, NEW o \in Object
      PROVE  Has(u, o)' + InCall(u, o)' = Has(u, o) + InCall(u, o)
  <2>1. CASE u = t
    <3>1. /\ Has(t, o) \in Nat
          /\ Has(t, o)' = Has(t, o) + IF Want(t) = o THEN 1 ELSE 0
      <4>1. Has(t, o)' = Among(Order(t), got[t] + 1, o)
        BY <1>3 DEF Has
      <4>2. got[t] \in Nat
        BY <1>3
      <4>3. /\ Among(Order(t), got[t], o) \in Nat
            /\ Among(Order(t), got[t] + 1, o)
                  = Among(Order(t), got[t], o) + (IF Order(t)[got[t] + 1] = o THEN 1 ELSE 0)
        BY <4>2, AmongFirst
      <4> QED
        BY <4>1, <4>3 DEF Has, Want
    <3>2. InCall(t, o)' = 0 /\ InCall(t, o) = IF Want(t) = o THEN 1 ELSE 0
      BY <1>1 DEF InCall, IInv, TypeOK
    <3> QED
      BY <2>1, <3>1, <3>2
  <2>2. CASE u # t
    BY <1>1, <1>3, <2>2 DEF Has, InCall, Want, Order, IInv, TypeOK
  <2> QED
    BY <2>1, <2>2
<1>8. LocksAccounted'
  BY <1>1, <1>7 DEF IInv, LocksAccounted
<1> QED
  BY <1>1, <1>4, <1>5, <1>6, <1>8 DEF IInv

LEMMA RetryStep ==
    ASSUME IInv, NEW t \in Thread, Retry(t)
    PROVE  IInv'
<1>1. /\ at' = [at EXCEPT ![t] = "python"] /\ res[t] = "none" /\ res' = res /\ gil' = t
      /\ at[t] = "sleep" /\ goal[t] = "sleep"
      /\ UNCHANGED <<setup, got, dropped, owner, refs>>
  BY DEF Retry, Regain, locals, table, IInv, TypeOK, CallInv
<1>2. \/ left[t] - 1 = -1 /\ goal' = [goal EXCEPT ![t] = "deadlock"] /\ left' = left /\ tries' = tries
      \/ /\ left[t] - 1 # -1 /\ goal' = [goal EXCEPT ![t] = "get"]
         /\ left'  = [left  EXCEPT ![t] = IF Limit(t) < 0 THEN @ ELSE @ - 1]
         /\ tries' = [tries EXCEPT ![t] = IF Limit(t) < 0 THEN @ ELSE @ + 1]
  BY DEF Retry, GivesUp
<1>3. \A u \in Thread : /\ Order(u)' = Order(u) /\ Style(u)' = Style(u) /\ Limit(u)' = Limit(u)
                        /\ Limit(u) \in Int /\ left[u] \in Int /\ tries[u] \in Int
  BY <1>1, SetupFacts DEF IInv, TypeOK, Order, Style, Limit
<1>4. TypeOK'
  <2>1. goal' \in [Thread -> Goals]
    BY <1>2 DEF IInv, TypeOK, Goals
  <2>2. left' \in [Thread -> Int] /\ tries' \in [Thread -> Int]
    BY <1>2, <1>3 DEF IInv, TypeOK
  <2> QED
    BY <1>1, <2>1, <2>2 DEF IInv, TypeOK, Places
<1>5. ASSUME NEW u \in Thread PROVE CallInv(u)'
  <2>1. at'[u] = (IF u = t THEN "python" ELSE at[u]) /\ res'[u] = res[u] /\ got'[u] = got[u]
    BY <1>1 DEF IInv, TypeOK
  <2>2. PICK g \in {"get", "deadlock"} : goal' = [goal EXCEPT ![t] = g]
    BY <1>2
  <2>3. goal'[u] = IF u = t THEN g ELSE goal[u]
    BY <2>2 DEF IInv, TypeOK
  <2>4. goal[t] = "sleep" /\ got[t] < Len(Order(t))
    BY <1>1 DEF IInv, CallInv
  <2> QED
    BY <1>1, <1>3, <2>1, <2>4, <2>3 DEF CallInv, IInv
<1>6. ASSUME NEW u \in Thread PROVE TriesInv(u)'
  <2>1. CASE u = t
    <3>1. CASE left[t] - 1 = -1 /\ goal' = [goal EXCEPT ![t] = "deadlock"] /\ left' = left /\ tries' = tries
      <4>1. left[t] = 0
        BY <1>3, <3>1
      <4> QED
        BY <1>3, <2>1, <3>1, <4>1 DEF TriesInv, IInv
    <3>2. CASE /\ left[t] - 1 # -1 /\ goal' = [goal EXCEPT ![t] = "get"]
               /\ left'  = [left  EXCEPT ![t] = IF Limit(t) < 0 THEN @ ELSE @ - 1]
               /\ tries' = [tries EXCEPT ![t] = IF Limit(t) < 0 THEN @ ELSE @ + 1]
      <4>1. /\ left'[t] = (IF Limit(t) < 0 THEN left[t] ELSE left[t] - 1)
            /\ tries'[t] = (IF Limit(t) < 0 THEN tries[t] ELSE tries[t] + 1)
            /\ goal'[t] = "get" /\ left[t] # 0
        BY <1>3, <3>2 DEF IInv, TypeOK
      <4> QED
        BY <1>3, <2>1, <4>1 DEF TriesInv, IInv
    <3> QED
      BY <1>2, <3>1, <3>2
  <2>2. CASE u # t
    <3>1. left'[u] = left[u] /\ tries'[u] = tries[u] /\ goal'[u] = goal[u]
      BY <1>2, <2>2 DEF IInv, TypeOK
    <3> QED
      BY <1>3, <3>1 DEF TriesInv, IInv
  <2> QED
    BY <2>1, <2>2
<1> QED
  BY <1>1, <1>4, <1>5, <1>6, SameLocks DEF IInv

(* An exception and the end, where a thread may drop its DBLocks. *)
LEMMA DeallocateStep ==
    ASSUME IInv, NEW t \in Thread, Deallocate(t),
           res[t] # "granted",
           NEW p \in {"python", "ended"}, at' = [at EXCEPT ![t] = p],
           NEW r \in {"none"}, res' = [res EXCEPT ![t] = r],
           NEW g \in Goals, goal' = [goal EXCEPT ![t] = g],
           g # "get", g = "sleep" => goal[t] = "get", g = "deadlock" => goal[t] = "deadlock",
           gil' \in {t, None},
           UNCHANGED <<setup, left, tries, owner, refs>>
    PROVE  IInv'
<1>1. \A u \in Thread : /\ Order(u)' = Order(u) /\ Style(u)' = Style(u) /\ Limit(u)' = Limit(u)
                        /\ got[u] \in Nat /\ Len(Order(u)) \in Nat
                        /\ CallInv(u) /\ TriesInv(u)
  BY SetupFacts DEF IInv, TypeOK, Order, Style, Limit
<1>2. \A u \in Thread : u # t => at'[u] = at[u] /\ res'[u] = res[u] /\ goal'[u] = goal[u]
  BY DEF IInv, TypeOK
<1>3. at'[t] = p /\ res'[t] = "none" /\ goal'[t] = g
  BY DEF IInv, TypeOK
<1>4. \A u \in Thread : TriesInv(u)'
  BY <1>1, <1>2, <1>3 DEF TriesInv
<1>5. CASE Style(t) # "drop"
  <2>1. got' = got /\ dropped' = dropped
    BY <1>5 DEF Deallocate, locals
  <2>2. TypeOK'
    BY <2>1 DEF IInv, TypeOK, Places, Results
  <2>3. \A u \in Thread : CallInv(u)'
    BY <1>1, <1>2, <1>3, <1>5, <2>1 DEF CallInv
  <2>4. \A u \in Thread : res'[u] = "granted" <=> res[u] = "granted"
    BY <1>2, <1>3
  <2> QED
    BY <1>4, <2>1, <2>2, <2>3, <2>4, SameLocks DEF IInv
<1>6. CASE Style(t) = "drop"
  <2>1. /\ got' = [got EXCEPT ![t] = 0]
        /\ dropped' = [dropped EXCEPT ![t] = [o \in Object |-> dropped[t][o] + Has(t, o)]]
    BY <1>6 DEF Deallocate, IInv, TypeOK
  <2>2. \A u \in Thread, o \in Object : Has(u, o) \in Nat /\ dropped[u][o] \in Nat
    BY SMTT(30), <1>1, AmongFirst DEF Has, IInv, TypeOK
  <2>3. TypeOK'
    BY <2>1, <2>2 DEF IInv, TypeOK, Places, Results
  <2>4. /\ got'[t] = 0 /\ \A u \in Thread : u # t => got'[u] = got[u] /\ dropped'[u] = dropped[u]
        /\ \A o \in Object : dropped'[t][o] = dropped[t][o] + Has(t, o)
    BY <2>1 DEF IInv, TypeOK
  <2>5. ASSUME NEW u \in Thread PROVE CallInv(u)'
    <3>1. CASE u = t
      <4>1. Len(Order(t)) > 0
        BY SetupFacts DEF IInv, TypeOK
      <4> QED
        BY <1>1, <1>3, <1>6, <2>4, <3>1, <4>1 DEF CallInv
    <3>2. CASE u # t
      BY <1>1, <1>2, <2>4, <3>2 DEF CallInv
    <3> QED
      BY <3>1, <3>2
  <2>6. ASSUME NEW u \in Thread, NEW o \in Object
        PROVE  (Has(u, o) + InCall(u, o) + dropped[u][o] = IF owner[o] = u THEN refs[o] ELSE 0)'
    <3>1. Has(u, o) + InCall(u, o) + dropped[u][o] = IF owner[o] = u THEN refs[o] ELSE 0
      BY DEF IInv, LocksAccounted
    <3>2. CASE u = t
      <4>1. InCall(u, o) = 0 /\ InCall(u, o)' = 0
        BY <1>3, <3>2 DEF InCall
      <4>2. Has(u, o)' = 0
        BY <1>1, <2>4, <3>2, AmongFirst DEF Has
      <4> QED
        BY <2>2, <2>4, <3>1, <3>2, <4>1, <4>2
    <3>3. CASE u # t
      <4>1. Has(u, o)' = Has(u, o) /\ InCall(u, o)' = InCall(u, o)
        BY <1>1, <1>2, <2>4, <3>3 DEF Has, InCall, Want
      <4> QED
        BY <2>4, <3>1, <3>3, <4>1
    <3> QED
      BY <3>2, <3>3
  <2> QED
    BY <1>4, <2>3, <2>5, <2>6 DEF IInv, LocksAccounted
<1> QED
  BY <1>5, <1>6

LEMMA RaiseStep ==
    ASSUME IInv, NEW t \in Thread, Raise(t, "deadlock") \/ Raise(t, "error")
    PROVE  IInv'
<1>1. PICK r \in {"deadlock", "error"} : Raise(t, r)
  OBVIOUS
<1>2. goal[t] = "get" /\ res[t] = r
  BY <1>1 DEF Raise, Regain, IInv, CallInv
<1>3. (IF r = "deadlock" THEN "sleep" ELSE "error") \in Goals
  BY DEF Goals
<1> QED
  BY <1>1, <1>2, <1>3, DeallocateStep DEF Raise, Regain, table

LEMMA EndStep ==
    ASSUME IInv, NEW t \in Thread, End(t)
    PROVE  IInv'
<1>1. /\ goal[t] \in {"ok", "deadlock", "error"} /\ goal[t] \in Goals
      /\ goal' = [goal EXCEPT ![t] = goal[t]]
  BY DEF End, Goals, IInv, TypeOK
<1>2. res[t] = "none" /\ res' = [res EXCEPT ![t] = "none"]
  BY DEF End, Python, IInv, CallInv, TypeOK
<1>3. /\ Deallocate(t) /\ gil' = None /\ at' = [at EXCEPT ![t] = "ended"]
      /\ UNCHANGED <<setup, left, tries, owner, refs>>
  BY DEF End, Leaves, AllowThreads, table
<1> HIDE DEF End
<1> QED
  BY <1>1, <1>2, <1>3, DeallocateStep

-----------------------------------------------------------------------------
(* Theorems.                                                                 *)

(* The inductive invariant holds. *)
THEOREM InvariantHolds == Spec => []IInv
<1>1. Init => IInv
  BY InitInv
<1>2. IInv /\ [Next]_vars => IInv'
  <2> SUFFICES ASSUME IInv, [Next]_vars PROVE IInv'
    OBVIOUS
  <2>1. CASE \E t \in Thread : Native(t)
    BY <2>1, GrantedStep, BlockedStep, PutDoneStep DEF Native
  <2>2. CASE \E t \in Thread : Resume(t)
    BY <2>2, WalkStep, KeepStep, RaiseStep, RetryStep DEF Resume
  <2>3. CASE \E t \in Thread : Leave(t)
    BY <2>3, WalkStep, EndStep DEF Leave
  <2>4. CASE \E t \in Thread : FreeLocker(t)
    BY <2>4, WalkStep
  <2>5. CASE Detect
    BY <2>5, DetectStep
  <2>6. CASE UNCHANGED vars
    BY <2>6 DEF vars, IInv, TypeOK, CallInv, TriesInv, LocksAccounted, Has, InCall, Want, Order,
                Style, Limit
  <2> QED
    BY <2>1, <2>2, <2>3, <2>4, <2>5, <2>6 DEF Next
<1> QED
  BY <1>1, <1>2, PTL DEF Spec

(* Every count of the library's locks is that of DBLocks that live, are being
   made or were deallocated with their lock. *)
THEOREM NothingElseIsLost == Spec => []LocksAccounted
<1>1. IInv => LocksAccounted
  BY DEF IInv
<1> QED
  BY <1>1, InvariantHolds, PTL

(* A thread that wraps a function which puts its locks back sleeps without any. *)
THEOREM AsleepWithoutLocks == Spec => []SleepsWithoutLocks
<1>1. IInv => SleepsWithoutLocks
  <2> SUFFICES ASSUME IInv, NEW t \in Thread, at[t] = "sleep", Style(t) = "whole", NEW o \in Object
               PROVE  owner[o] # t
    BY DEF SleepsWithoutLocks
  <2>1. got[t] = 0 /\ dropped[t][o] = 0 /\ res[t] = "none"
    BY DEF IInv, CallInv
  <2>2. Has(t, o) = 0 /\ InCall(t, o) = 0
    BY <2>1, AmongFirst DEF Has, InCall
  <2>3. owner[o] = t => refs[o] = 0
    BY <2>1, <2>2 DEF IInv, LocksAccounted
  <2> QED
    BY <2>3, LocksAssumption DEF IInv
<1> QED
  BY <1>1, InvariantHolds, PTL

(* DeadlockWrap calls its function max_retries + 1 times before it gives up. *)
THEOREM RetriesAreCounted == Spec => []TriesExact
<1>1. IInv => TriesExact
  <2> SUFFICES ASSUME IInv, NEW t \in Thread
               PROVE  /\ Limit(t) >= 0 => tries[t] <= Limit(t) + 1
                      /\ goal[t] = "deadlock" => Limit(t) >= 0 /\ tries[t] = Limit(t) + 1
    BY DEF TriesExact
  <2>1. TriesInv(t) /\ Limit(t) \in Int /\ left[t] \in Int
    BY SetupFacts DEF IInv, TypeOK
  <2> QED
    BY <2>1 DEF TriesInv
<1> QED
  BY <1>1, InvariantHolds, PTL
=============================================================================
