------------------------ MODULE RecordNumbers_proofs ------------------------
(* Theorems about RecordNumbers, for record numbers of any width and any     *)
(* number of threads.                                                        *)
EXTENDS RecordNumbers, TLAPS

(* A record number, as a C long or as a C int, is converted to itself. *)
LEMMA RoundTrip ==
    ASSUME NEW n \in Recno
    PROVE  /\ Number(AsLong(n)) = n /\ Number(Signed(n)) = n
           /\ {AsLong(n), Signed(n)} \subseteq -Half..(Size - 1)
<1> USE NumbersAssumption DEF Recno
<1>1. n % Size = n
  OBVIOUS
<1>2. (n - Size) % Size = n
  OBVIOUS
<1>3. Half \in Nat /\ Size = 2 * Half /\ Long \in Nat /\ (Long = Half \/ Long >= Size)
  BY DEF Half
<1> HIDE DEF Recno
<1>4. n \in Nat /\ n < Size /\ n > 0
  BY DEF Recno
<1>5. AsLong(n) \in -Long..(Long - 1) /\ Signed(n) \in -Long..(Long - 1)
  BY <1>3, <1>4 DEF Signed, AsLong
<1>6. {AsLong(n), Signed(n)} \subseteq -Half..(Size - 1)
  BY <1>3, <1>4 DEF Signed, AsLong
<1>7. AsLong(n) \in {n, n - Size} /\ Signed(n) \in {n, n - Size}
  BY DEF Signed, AsLong
<1> QED
  BY <1>1, <1>2, <1>5, <1>6, <1>7 DEF Number

(* What a call's DBTs are before the native call. *)
LEMMA Before ==
    ASSUME NEW op \in Methods, threaded \in BOOLEAN
    PROVE  /\ KeyDbt(op) \in Dbts /\ DataDbt(op) \in Dbts /\ PKeyDbt(op) \in Dbts
           /\ ~Wild(KeyDbt(op))
           /\ DataDbt(op).at # "malloc" /\ PKeyDbt(op).at # "malloc"
BY DEF KeyDbt, DataDbt, PKeyDbt, Dbts, Flags, Places, Dbt, Cleared, ResultFlag, Wild,
       Keyed, Reads, Methods

(* Leaving with the key freed, when nothing else was allocated. *)
LEMMA DropKey ==
    ASSUME NEW c, ~Wild(c.key), c.data.at # "malloc", c.pkey.at # "malloc"
    PROVE  Dropped(c, {"key"}) = {}
BY DEF Dropped

(* Leaving with all three freed. *)
LEMMA DropAll ==
    ASSUME NEW c, ~Wild(c.key), ~Wild(c.data), ~Wild(c.pkey)
    PROVE  Dropped(c, {"key", "data", "pkey"}) = {}
BY DEF Dropped

LEMMA InitInv ==
    ASSUME Init
    PROVE  IInv
<1> USE NumbersAssumption DEF Init
<1>1. TypeOK
  BY DEF TypeOK, Calls, Idle, Dbts, Dbt, Cleared, Flags, Places, Recno
<1> QED
  BY <1>1 DEF IInv, MemoryExact, CallInv, Idle, Recno

LEMMA BeginStep ==
    ASSUME IInv, NEW t \in Thread, NEW op \in Methods, NEW k \in Int, Begin(t, op, k)
    PROVE  IInv'
<1>1. Number(k) \in 0..(Size - 1)
  BY NumbersAssumption DEF Number, Half
<1>2. Begun(op, k).num \in 0..(Size - 1)
  BY <1>1, NumbersAssumption DEF Begun, Half
<1>3. /\ call' = [call EXCEPT ![t] = Begun(op, k)]
      /\ UNCHANGED <<dbtype, threaded, recs, stores, last, handle, told, memory>>
      /\ call[t].pc = "idle"
      /\ threaded \/ \A u \in Thread : call[u].pc = "idle"
  BY DEF Begin
<1>4. TypeOK'
  BY <1>2, <1>3, Before DEF IInv, TypeOK, Calls, Begun
<1>5. \A u \in Thread : u # t => call'[u] = call[u]
  BY <1>3 DEF IInv, TypeOK
<1>6. call'[t] = Begun(op, k)
  BY <1>3 DEF IInv, TypeOK
<1>7. ASSUME NEW u \in Thread PROVE CallInv(u)'
  <2>1. CASE u = t
    BY <1>3, <1>6, <2>1 DEF CallInv, Begun, KeyDbt, DataDbt, PKeyDbt, ResultFlag
  <2>2. CASE u # t
    BY <1>3, <1>5, <2>2 DEF IInv, CallInv, KeyDbt, DataDbt, PKeyDbt, ResultFlag
  <2> QED
    BY <2>1, <2>2
<1>8. (~threaded => \A u, v \in Thread : call[u].pc # "idle" /\ call[v].pc # "idle" => u = v)'
  BY <1>3, <1>5 DEF IInv
<1> QED
  BY <1>3, <1>4, <1>7, <1>8 DEF IInv, MemoryExact

(* A call that is over leaves the others as they were. *)
LEMMA BackStep ==
    ASSUME IInv, NEW t \in Thread, NEW frees, Back(t, frees), Dropped(call[t], frees) = {},
           UNCHANGED <<dbtype, threaded, recs, stores, last, handle>>,
           told' \in SUBSET [name : Int, rec : 1..stores],
           \A p \in told', n \in Recno : recs[n] = p.rec => p.name \in {AsLong(n), Signed(n)}
    PROVE  IInv'
<1>1. call' = [call EXCEPT ![t] = Idle] /\ memory' = {}
  BY DEF Back, IInv, MemoryExact
<1>2. Size \in Nat /\ Size > 0
  BY NumbersAssumption DEF Half
<1>3. TypeOK'
  BY <1>1, <1>2 DEF IInv, TypeOK, Calls, Idle, Dbts, Dbt, Cleared, Flags, Places
<1>4. \A u \in Thread : u # t => call'[u] = call[u]
  BY <1>1 DEF IInv, TypeOK
<1>5. call'[t].pc = "idle"
  BY <1>1 DEF IInv, TypeOK, Idle
<1>6. ASSUME NEW u \in Thread PROVE CallInv(u)'
  <2>1. CASE u = t
    BY <1>5, <2>1 DEF CallInv
  <2>2. CASE u # t
    BY <1>4, <2>2 DEF IInv, CallInv, KeyDbt, DataDbt, PKeyDbt, ResultFlag
  <2> QED
    BY <2>1, <2>2
<1>7. (~threaded => \A u, v \in Thread : call[u].pc # "idle" /\ call[v].pc # "idle" => u = v)'
  BY <1>4, <1>5 DEF IInv
<1> QED
  BY <1>1, <1>3, <1>6, <1>7 DEF IInv, MemoryExact, TypeOK

LEMMA RefuseStep ==
    ASSUME IInv, NEW t \in Thread, Refuse(t) \/ NativeFails(t)
    PROVE  IInv'
<1>1. /\ call[t].pc = "native" /\ Back(t, {"key"})
      /\ UNCHANGED <<dbtype, threaded, recs, stores, last, handle, told>>
  BY DEF Refuse, NativeFails
<1>2. /\ call[t].op \in Methods /\ threaded \in BOOLEAN
      /\ call[t].key = KeyDbt(call[t].op) /\ call[t].data = DataDbt(call[t].op)
      /\ call[t].pkey = PKeyDbt(call[t].op)
  BY <1>1 DEF IInv, TypeOK, CallInv
<1>3. Dropped(call[t], {"key"}) = {}
  BY <1>2, Before, DropKey
<1> QED
  BY <1>1, <1>3, BackStep DEF IInv, TypeOK

(* What the native call leaves in the DBTs. *)
LEMMA Filling ==
    ASSUME NEW op \in Methods, threaded \in BOOLEAN, NEW d \in Returns(op, DataDbt(op), Memory(op))
    PROVE  LET key == Filled(KeyDbt(op), Memory(op))
               pkey == Filled(PKeyDbt(op), "null") IN
           /\ key \in Dbts /\ pkey \in Dbts /\ d \in Dbts
           /\ Plain(key) /\ Plain(pkey)
           /\ Plain(d) \/ (op = "get_both" /\ d.at = "python")
           /\ op = "get_both" => pkey.at # "malloc"
           /\ d.at = "handle" => ~threaded
<1> USE DEF KeyDbt, DataDbt, PKeyDbt, Dbts, Flags, Places, Dbt, Cleared, ResultFlag, Wild, Plain,
            Keyed, Reads, Methods, Filled, Memory, Returns
<1>1. CASE op = "get_both"
  BY <1>1
<1>2. CASE op # "get_both"
  BY <1>2
<1> QED
  BY <1>1, <1>2

(* What the native call changes: a new record has a new stamp, the others keep
   theirs or go. *)
LEMMA Changing ==
    ASSUME IInv, NEW op \in Methods, NEW n \in Recno,
           recs[n] # 0 \/ op \in {"put", "append"}, Changes(op, n)
    PROVE  /\ recs' \in [Recno -> 0..stores'] /\ stores' \in Nat /\ last' \in 0..(Size - 1)
           /\ stores' >= stores
           /\ \A k, m \in Recno : recs'[k] = recs'[m] /\ recs'[k] # 0 => k = m
           /\ LET stamp == IF op \in {"put", "append"} THEN stores' ELSE recs[n] IN
              stamp \in 1..stores' /\ \A m \in Recno : recs'[m] = stamp => m = n
           /\ \A m \in Recno : recs'[m] # recs[m] => recs'[m] = 0 \/ recs'[m] > stores
<1> USE DEF IInv, TypeOK, Recno
<1>0. Size \in Nat /\ Size > 0
  BY NumbersAssumption DEF Half
<1>1. CASE op \in {"put", "append"}
  <2>1. stores' = stores + 1 /\ recs' = [recs EXCEPT ![n] = stores + 1] /\ last' \in {last, n}
    BY <1>1 DEF Changes, Stored
  <2> QED
    BY <1>0, <1>1, <2>1
<1>2. CASE op \in {"delete", "consume"}
  <2>1. recs' = [recs EXCEPT ![n] = 0] /\ UNCHANGED <<stores, last>> /\ recs[n] # 0
    BY <1>2 DEF Changes
  <2> QED
    BY <1>0, <1>2, <2>1
<1>3. CASE op \notin {"put", "append", "delete", "consume"}
  <2>1. UNCHANGED <<recs, stores, last>> /\ recs[n] # 0
    BY <1>3 DEF Changes
  <2> QED
    BY <1>0, <1>3, <2>1
<1> QED
  BY <1>1, <1>2, <1>3

LEMMA NativeStep ==
    ASSUME IInv, NEW t \in Thread, NativeDone(t)
    PROVE  IInv'
<1> DEFINE c == call[t]
<1>1. PICK n \in Recno :
        /\ Finds(c, n)
        /\ Changes(c.op, n)
        /\ LET stamp == IF c.op \in {"put", "append"} THEN stores' ELSE recs[n] IN
           \E d \in Returns(c.op, c.data, Memory(c.op)) :
              /\ call' = [call EXCEPT ![t] =
                    [c EXCEPT !.pc = "back", !.num = n, !.found = stamp, !.data = d,
                              !.key = Filled(@, Memory(c.op)), !.pkey = Filled(@, "null")]]
              /\ handle' = IF d.at = "handle" THEN stamp ELSE handle
  BY DEF NativeDone
<1> DEFINE stamp == IF c.op \in {"put", "append"} THEN stores' ELSE recs[n]
<1>2. PICK d \in Returns(c.op, c.data, Memory(c.op)) :
        /\ call' = [call EXCEPT ![t] =
              [c EXCEPT !.pc = "back", !.num = n, !.found = stamp, !.data = d,
                        !.key = Filled(@, Memory(c.op)), !.pkey = Filled(@, "null")]]
        /\ handle' = IF d.at = "handle" THEN stamp ELSE handle
  BY <1>1
<1>3. /\ c.pc = "native" /\ c.op \in Methods
      /\ c.key = KeyDbt(c.op) /\ c.data = DataDbt(c.op) /\ c.pkey = PKeyDbt(c.op)
      /\ UNCHANGED <<dbtype, threaded, told, memory>>
  BY DEF NativeDone, IInv, CallInv
<1>4. recs[n] # 0 \/ c.op \in {"put", "append"}
  BY <1>1, <1>3 DEF Finds, Methods, Reads, Keyed
<1>5. /\ recs' \in [Recno -> 0..stores'] /\ stores' \in Nat /\ last' \in 0..(Size - 1)
      /\ stores' >= stores
      /\ \A k, m \in Recno : recs'[k] = recs'[m] /\ recs'[k] # 0 => k = m
      /\ stamp \in 1..stores' /\ \A m \in Recno : recs'[m] = stamp => m = n
      /\ \A m \in Recno : recs'[m] # recs[m] => recs'[m] = 0 \/ recs'[m] > stores
  BY <1>1, <1>3, <1>4, Changing
<1>6. /\ Filled(c.key, Memory(c.op)) \in Dbts /\ Filled(c.pkey, "null") \in Dbts /\ d \in Dbts
      /\ Plain(Filled(c.key, Memory(c.op))) /\ Plain(Filled(c.pkey, "null"))
      /\ Plain(d) \/ (c.op = "get_both" /\ d.at = "python")
      /\ c.op = "get_both" => Filled(c.pkey, "null").at # "malloc"
      /\ d.at = "handle" => ~threaded
  BY <1>3, Filling DEF IInv, TypeOK
<1> DEFINE new == [c EXCEPT !.pc = "back", !.num = n, !.found = stamp, !.data = d,
                            !.key = Filled(@, Memory(c.op)), !.pkey = Filled(@, "null")]
<1>7. call'[t] = new /\ \A u \in Thread : u # t => call'[u] = call[u]
  BY <1>2 DEF IInv, TypeOK
<1>8. /\ new.pc = "back" /\ new.op = c.op /\ new.num = n /\ new.found = stamp /\ new.data = d
      /\ new.key = Filled(c.key, Memory(c.op)) /\ new.pkey = Filled(c.pkey, "null")
  BY DEF IInv, TypeOK
<1>13. c.op = "consume" => \A m \in Recno : recs'[m] # stamp
  <2> SUFFICES ASSUME c.op = "consume", NEW m \in Recno
               PROVE  recs'[m] # stamp
    OBVIOUS
  <2>1. recs' = [recs EXCEPT ![n] = 0] /\ stamp = recs[n] /\ recs[n] # 0
    BY <1>1, <1>4 DEF Changes
  <2> QED
    BY <2>1 DEF IInv, TypeOK
<1> HIDE DEF new, stamp, c
<1>9. TypeOK'
  <2>1. c \in Calls
    BY DEF c, IInv, TypeOK
  <2>2. new \in Calls'
    <3>1. stamp \in 0..stores' /\ n \in 0..(Size - 1)
      BY <1>5 DEF Recno
    <3>2. ASSUME NEW k \in Dbts, NEW p \in Dbts
          PROVE  [c EXCEPT !.pc = "back", !.num = n, !.found = stamp, !.data = d,
                           !.key = k, !.pkey = p] \in Calls'
      BY <1>6, <2>1, <3>1 DEF Calls
    <3> QED
      BY <1>6, <3>2 DEF new
  <2>3. \A u \in Thread : call[u] \in Calls'
    BY <1>5 DEF IInv, TypeOK, Calls
  <2>4. call' \in [Thread -> Calls']
    BY <1>2, <1>7, <2>2, <2>3 DEF IInv, TypeOK, c
  <2>5. handle' \in Nat
    BY <1>2, <1>5 DEF IInv, TypeOK
  <2>6. told \in SUBSET [name : Int, rec : 1..stores']
    BY <1>5 DEF IInv, TypeOK
  <2> QED
    BY <1>3, <1>5, <2>4, <2>5, <2>6 DEF IInv, TypeOK
<1>10. ASSUME NEW u \in Thread PROVE CallInv(u)'
  <2>1. CASE u = t
    BY <1>2, <1>5, <1>6, <1>7, <1>8, <1>3, <1>13, <2>1 DEF CallInv, Plain, Wild
  <2>2. CASE u # t
    <3>1. call'[u] = call[u] /\ CallInv(u) /\ call[u].found \in 0..stores
      BY <1>7, <2>2 DEF IInv, TypeOK, Calls
    <3>2. call[u].pc # "idle" => threaded
      BY <1>3, <2>2 DEF IInv, TypeOK, c
    <3>3. CASE call[u].pc = "native"
      BY <1>3, <3>1, <3>3 DEF CallInv, KeyDbt, DataDbt, PKeyDbt, ResultFlag
    <3>4. CASE call[u].pc = "back"
      <4>1. \A m \in Recno : recs'[m] = call[u].found => recs[m] = call[u].found
        BY <1>5, <3>1, <3>4 DEF CallInv, IInv, TypeOK
      <4> QED
        BY <1>3, <3>1, <3>2, <3>4, <4>1 DEF CallInv
    <3>5. CASE call[u].pc \notin {"native", "back"}
      BY <3>1, <3>5 DEF CallInv
    <3> QED
      BY <3>3, <3>4, <3>5
  <2> QED
    BY <2>1, <2>2
<1>11. (~threaded => \A u, v \in Thread : call[u].pc # "idle" /\ call[v].pc # "idle" => u = v)'
  BY <1>3, <1>7 DEF IInv, c
<1>12. (\A p \in told, m \in Recno : recs[m] = p.rec => p.name \in {AsLong(m), Signed(m)})'
  <2>1. \A p \in told : p.rec \in 1..stores
    BY DEF IInv, TypeOK
  <2>2. \A p \in told, m \in Recno : recs'[m] = p.rec => recs[m] = p.rec
    BY <1>5, <2>1 DEF IInv, TypeOK
  <2> QED
    BY <1>3, <2>2 DEF IInv
<1> QED
  BY <1>3, <1>5, <1>9, <1>10, <1>11, <1>12 DEF IInv, MemoryExact

(* The number that is told names the record that is told. *)
LEMMA ResultStep ==
    ASSUME IInv, NEW t \in Thread, Result(t)
    PROVE  IInv'
<1> DEFINE c == call[t]
           new == IF c.op \in Tells THEN {[name |-> Name(c.op, c.num), rec |-> Answer(c)]} ELSE told
<1>1. /\ c.pc = "back" /\ Back(t, Frees(c)) /\ told' = new
      /\ UNCHANGED <<dbtype, threaded, recs, stores, last, handle>>
  BY DEF Result
<1>2. CallInv(t) /\ c \in Calls
  BY DEF IInv, TypeOK
<1>3. Dropped(c, Frees(c)) = {}
  <2>1. CASE c.op = "get_both" /\ c.data.at = "python"
    BY <1>1, <1>2, <2>1, DropKey DEF CallInv, Plain, Frees
  <2>2. CASE ~(c.op = "get_both" /\ c.data.at = "python")
    BY <1>1, <1>2, <2>2, DropAll DEF CallInv, Plain, Frees
  <2> QED
    BY <2>1, <2>2
<1>4. Answer(c) = c.found /\ c.found \in 1..stores
  BY <1>1, <1>2 DEF CallInv, Answer, Calls, IInv, TypeOK
<1>5. /\ c.num \in Int /\ Name(c.op, c.num) \in Int
      /\ c.op # "consume" => Name(c.op, c.num) \in {AsLong(c.num), Signed(c.num)}
  BY <1>2, NumbersAssumption DEF Calls, Name, Signed, AsLong, Half
<1>6. new \in SUBSET [name : Int, rec : 1..stores]
  BY <1>4, <1>5 DEF IInv, TypeOK
<1>7. \A n \in Recno : recs[n] = c.found => n = c.num /\ c.op # "consume"
  BY <1>1, <1>2 DEF CallInv
<1>8. \A p \in new, n \in Recno : recs[n] = p.rec => p.name \in {AsLong(n), Signed(n)}
  BY <1>4, <1>5, <1>7 DEF IInv
<1> QED
  BY <1>1, <1>3, <1>6, <1>8, BackStep

LEMMA StepInv ==
    ASSUME IInv, [Next]_vars
    PROVE  IInv'
<1>1. CASE UNCHANGED vars
  BY <1>1 DEF vars, IInv, TypeOK, Calls, MemoryExact, CallInv, KeyDbt, DataDbt, PKeyDbt, ResultFlag
<1>2. ASSUME NEW t \in Thread, NEW op \in Methods, NEW k \in -MaxInt..MaxInt, Begin(t, op, k)
      PROVE  IInv'
  BY <1>2, BeginStep, NumbersAssumption
<1>3. ASSUME NEW t \in Thread, Refuse(t) \/ NativeDone(t) \/ NativeFails(t) \/ Result(t)
      PROVE  IInv'
  BY <1>3, RefuseStep, NativeStep, ResultStep
<1> QED
  BY <1>1, <1>2, <1>3 DEF Next

(* The invariant holds of every behaviour: it is inductive. *)
THEOREM InvariantHolds == Spec => []IInv
<1>1. Init => IInv
  BY InitInv
<1>2. IInv /\ [Next]_vars => IInv'
  BY StepInv
<1> QED
  BY <1>1, <1>2, PTL DEF Spec

(* Whatever number the program was told, used as a key it is that record's. *)
THEOREM NamesAlwaysHold == Spec => []NamesHold
<1>1. IInv => NamesHold
  BY RoundTrip DEF IInv, NamesHold
<1> QED
  BY <1>1, InvariantHolds, PTL

(* A call answers with what it found itself. *)
THEOREM AnswersAreOwn == Spec => []AnswersOwn
<1>1. IInv => AnswersOwn
  BY DEF IInv, CallInv, AnswersOwn, Answer
<1> QED
  BY <1>1, InvariantHolds, PTL

(* Every way out of every method frees what it must and no more. *)
THEOREM MemoryIsExact == Spec => []MemoryExact
<1>1. IInv => MemoryExact
  BY DEF IInv
<1> QED
  BY <1>1, InvariantHolds, PTL
=============================================================================
