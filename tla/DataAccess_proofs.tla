------------------------- MODULE DataAccess_proofs -------------------------
(* Theorems about DataAccess, for any number of threads, keys and records,   *)
(* and about LegacyDB, for any number of generators and records.             *)
EXTENDS DataAccess, LegacyDB, FiniteSetTheorems, TLAPS

(* What a call must be for the invariant to hold once its thread has gone on
   to it. *)
FitsAssign(c) ==
    /\ c.op \in {"assign", "deleted"} => c.key \in Key
    /\ c.op = "deleted" /\ c.key \in Present' => c.raced
    /\ c.op = "assigned" /\ c.err = "KEYEXIST" => c.raced

FitsList(c) ==
    /\ c.op = "list" => /\ c.kept \subseteq Present' /\ Present' \subseteq c.met
                        /\ c.got \subseteq c.met
                        /\ \A k \in c.kept : k <= c.key => k \in c.got
    /\ c.op = "listed" /\ c.err \in {"ok", "NOTFOUND"} =>
          c.kept \subseteq c.got /\ c.got \subseteq c.met

FitsRead(c) == c.op \in Reads => FlagAt(c.op, level') \in c.asked /\ c.early \in c.asked

Fits(c) == c \in Calls /\ FitsAssign(c) /\ FitsList(c) /\ FitsRead(c)

(* What an assignment and a list answer. *)
LEMMA Answers ==
    ASSUME NEW c \in Calls
    PROVE  /\ Outcome(c) = "DBKeyExistError" <=> c.err = "KEYEXIST"
           /\ c.op = "listed" => (Outcome(c) = "value" <=> c.err \notin {"KEYEXIST", "other"})
           /\ Outcome(c) = "None" \/ Outcome(c) = "DBNotFoundError" => c.err = "NOTFOUND"
<1>1. Missing(c) \notin {"DBKeyExistError", "value", "DBError"}
  BY DEF Missing, DictMissing, LateMissing, EarlyMissing
<1>2. c.err \in Err
  BY DEF Calls
<1>3. CASE c.err = "other"
  BY <1>3 DEF Outcome
<1>4. CASE c.err = "KEYEXIST"
  BY <1>4 DEF Outcome
<1>5. CASE c.err = "ok" \/ (c.err = "NOTFOUND" /\ c.op = "listed")
  BY <1>5 DEF Outcome
<1>6. CASE c.err = "NOTFOUND" /\ c.op # "listed"
  <2>1. Outcome(c) = Missing(c)
    BY <1>6 DEF Outcome
  <2> QED
    BY <2>1, <1>1, <1>6
<1> QED
  BY <1>2, <1>3, <1>4, <1>5, <1>6 DEF Err

(* A read of either flag is one of what the flag was. *)
LEMMA FlagsBoolean == \A op \in Ops, n \in 0 .. 2 : FlagAt(op, n) \in BOOLEAN
BY DEF FlagAt

LEMMA InitInv == Init => IInv
<1> SUFFICES ASSUME Init PROVE IInv
  OBVIOUS
<1>1. Idle \in Calls
  BY DataAssumption DEF Idle, Calls, Ops, Err
<1>2. TypeOK
  BY <1>1 DEF Init, TypeOK, Present
<1>3. NoDuplicates /\ StoredIsKept
  BY DEF Init, NoDuplicates, StoredIsKept
<1>4. \A t \in Thread : CallInv(call[t])
  BY DEF Init, Idle, CallInv, AssignInv, ListInv, ReadInv, Reads
<1> QED
  BY <1>2, <1>3, <1>4 DEF IInv

(* A thread goes on to c, and what its native call stored are keys of S: the
   invariant needs to be looked at for c, for the records and for what the
   thread was at before. *)
LEMMA GoStep ==
    ASSUME IInv, NEW t \in Thread, NEW c, NEW S,
           Go(t, c, S), Fits(c),
           UNCHANGED <<dup, level>>, rec' \in [Key -> Nat], owed' \subseteq Key,
           multi' \subseteq Key, NoDuplicates',
           \A k \in Present' : k \in Present \/ k \in S,
           \A k \in owed' \ Present' :
              \/ c.op = "deleted" /\ c.key = k
              \/ k \in owed \ Present /\ (call[t].op = "deleted" => call[t].key # k)
    PROVE  IInv'
<1>1. Present' \subseteq Key /\ c \in Calls /\ call \in [Thread -> Calls]
  BY DEF Present, Fits, IInv, TypeOK
<1>2. \A u \in Thread : u # t => call'[u] = Observe(call[u], S)
  BY DEF Go
<1>3. call'[t] = c
  BY DEF Go
<1>4. \A u \in Thread : u # t =>
         /\ call'[u] \in Calls /\ call[u] \in Calls
         /\ call'[u].op = call[u].op /\ call'[u].key = call[u].key
         /\ call'[u].err = call[u].err /\ call'[u].early = call[u].early
         /\ call'[u].got = call[u].got /\ call'[u].asked = call[u].asked
         /\ call'[u].raced <=> call[u].raced \/ (call[u].op = "deleted" /\ call[u].key \in S)
         /\ call'[u].kept = IF call[u].op = "list" THEN call[u].kept \cap Present' ELSE call[u].kept
         /\ call'[u].met = IF call[u].op = "list" THEN call[u].met \cup Present' ELSE call[u].met
  <2> SUFFICES ASSUME NEW u \in Thread, u # t
               PROVE  /\ call'[u] \in Calls /\ call[u] \in Calls
                      /\ call'[u].op = call[u].op /\ call'[u].key = call[u].key
                      /\ call'[u].err = call[u].err /\ call'[u].early = call[u].early
                      /\ call'[u].got = call[u].got /\ call'[u].asked = call[u].asked
                      /\ call'[u].raced <=>
                            call[u].raced \/ (call[u].op = "deleted" /\ call[u].key \in S)
                      /\ call'[u].kept =
                            IF call[u].op = "list" THEN call[u].kept \cap Present' ELSE call[u].kept
                      /\ call'[u].met =
                            IF call[u].op = "list" THEN call[u].met \cup Present' ELSE call[u].met
    OBVIOUS
  <2>1. call[u] \in Calls
    BY <1>1
  <2>2. call'[u] = Observe(call[u], S)
    BY <1>2
  <2>3. call'[u].raced = (call[u].raced \/ (call[u].op = "deleted" /\ call[u].key \in S))
    BY <2>1, <2>2 DEF Observe, Calls
  <2>4. /\ call'[u].op = call[u].op /\ call'[u].key = call[u].key
        /\ call'[u].err = call[u].err /\ call'[u].early = call[u].early
        /\ call'[u].got = call[u].got /\ call'[u].asked = call[u].asked
    BY <2>1, <2>2 DEF Observe, Calls
  <2>5. call'[u].kept = IF call[u].op = "list" THEN call[u].kept \cap Present' ELSE call[u].kept
    BY <2>1, <2>2 DEF Observe, Calls
  <2>6. call'[u].met = IF call[u].op = "list" THEN call[u].met \cup Present' ELSE call[u].met
    BY <2>1, <2>2 DEF Observe, Calls
  <2>7. call'[u] \in Calls
    <3> DEFINE r == call[u].raced \/ (call[u].op = "deleted" /\ call[u].key \in S)
               kept == IF call[u].op = "list" THEN call[u].kept \cap Present' ELSE call[u].kept
               met == IF call[u].op = "list" THEN call[u].met \cup Present' ELSE call[u].met
    <3>1. call'[u] = [call[u] EXCEPT !.raced = r, !.kept = kept, !.met = met]
      BY <2>2 DEF Observe
    <3>2. r \in BOOLEAN
      BY <2>1 DEF Calls
    <3>3. kept \subseteq Key /\ met \subseteq Key
      BY <1>1, <2>1 DEF Calls
    <3> HIDE DEF r, kept, met
    <3> QED
      BY ZenonT(30), <2>1, <3>1, <3>2, <3>3 DEF Calls
  <2> QED
    BY <2>1, <2>3, <2>4, <2>5, <2>6, <2>7
<1>5. call' \in [Thread -> Calls]
  BY <1>1, <1>3, <1>4 DEF Go
<1>6. TypeOK'
  BY <1>5 DEF IInv, TypeOK
<1>7. StoredIsKept'
  <2> SUFFICES ASSUME NEW k \in owed' \ Present'
               PROVE  \E u \in Thread : call'[u].op = "deleted" /\ call'[u].key = k
    BY DEF StoredIsKept
  <2>1. CASE c.op = "deleted" /\ c.key = k
    BY <2>1, <1>3
  <2>2. CASE k \in owed \ Present /\ (call[t].op = "deleted" => call[t].key # k)
    <3>1. PICK u \in Thread : call[u].op = "deleted" /\ call[u].key = k
      BY <2>2 DEF IInv, StoredIsKept
    <3> QED
      BY <2>2, <3>1, <1>4
  <2> QED
    BY <2>1, <2>2
<1>8. ASSUME NEW u \in Thread, u # t PROVE CallInv(call[u])'
  <2>1. CallInv(call[u])
    BY DEF IInv
  <2>2. AssignInv(call[u])'
    BY <2>1, <1>4, <1>8 DEF CallInv, AssignInv
  <2>3. ListInv(call[u])'
    BY ZenonT(40), <2>1, <1>4, <1>8 DEF CallInv, ListInv
  <2>4. FlagAt(call'[u].op, level') = FlagAt(call[u].op, level)
    BY <1>4, <1>8
  <2>5. ReadInv(call[u])'
    BY <2>1, <2>4, <1>4, <1>8 DEF CallInv, ReadInv
  <2> QED
    BY <2>2, <2>3, <2>5 DEF CallInv
<1>9. CallInv(call[t])'
  BY <1>3 DEF Fits, FitsAssign, FitsList, FitsRead, CallInv, AssignInv, ListInv, ReadInv
<1> QED
  BY <1>6, <1>7, <1>8, <1>9 DEF IInv

(* Every call of one native call begins here. *)
LEMMA IdleCall ==
    /\ Idle \in Calls /\ Idle.op = "idle"
    /\ \A op \in Writes : [Idle EXCEPT !.op = op] \in Calls
    /\ \A op \in Writes, k \in Key : [Idle EXCEPT !.op = op, !.key = k] \in Calls
<1>1. Idle \in Calls
  BY DataAssumption DEF Idle, Calls, Ops, Err
<1>2. \A op \in Writes : op \in Ops
  BY DEF Ops
<1>3. \A k \in Key : k \in 0 .. MaxKey
  BY DataAssumption DEF Key
<1>4. Idle.op = "idle"
  BY DEF Idle
<1>5. \A op \in Writes : [Idle EXCEPT !.op = op] \in Calls
  BY <1>1, <1>2 DEF Calls
<1>6. \A op \in Writes, k \in Key : [Idle EXCEPT !.op = op, !.key = k] \in Calls
  BY <1>1, <1>2, <1>3 DEF Calls
<1> QED
  BY <1>1, <1>4, <1>5, <1>6

(* A put, of whichever method, succeeds or fails. *)
LEMMA StoreStep ==
    ASSUME IInv, NEW t \in Thread, NEW k \in Key, NEW noOverwrite \in BOOLEAN, NEW next \in Calls,
           Store(t, k, noOverwrite, next), UNCHANGED <<dup, level>>,
           multi' \subseteq Key, NoDuplicates',
           next.op \in {"put", "assign", "assigned"},
           next.op = "assign" => next.key \in Key,
           next.op = "assigned" /\ k \in Present => next.raced,
           call[t].op = "deleted" => call[t].key = k /\ next.op = "assigned"
    PROVE  IInv'
<1> DEFINE done(e) == [next EXCEPT !.err = e]
<1>1. ASSUME NEW e \in Err
      PROVE  /\ done(e) \in Calls /\ done(e).err = e
             /\ done(e).op = next.op /\ done(e).key = next.key /\ done(e).raced = next.raced
  BY DEF Calls
<1>2. ASSUME NEW e \in Err, e = "KEYEXIST" => k \in Present PROVE Fits(done(e))
  <2> HIDE DEF done
  <2>1. FitsAssign(done(e))
    BY <1>1, <1>2 DEF FitsAssign
  <2>2. FitsList(done(e)) /\ FitsRead(done(e))
    BY <1>1 DEF FitsList, FitsRead, Reads
  <2> QED
    BY <1>1, <2>1, <2>2 DEF Fits
<1>3. rec \in [Key -> Nat] /\ owed \subseteq Key /\ dup \in BOOLEAN
  BY DEF IInv, TypeOK
<1>4. CASE /\ rec' = [rec EXCEPT ![k] = Added(k)]
           /\ owed' = owed \cup {k}
           /\ Go(t, done("ok"), {k})
  <2>1. Added(k) \in Nat /\ Added(k) > 0
    BY <1>3 DEF Added
  <2>2. rec' \in [Key -> Nat] /\ owed' \subseteq Key
    BY <1>3, <1>4, <2>1
  <2>3. Present' = Present \cup {k}
    BY <1>3, <1>4, <2>1 DEF Present
  <2>4. \A j \in owed' \ Present' : j \in owed \ Present /\ j # k
    BY <1>4, <2>3
  <2>5. Fits(done("ok"))
    BY <1>2 DEF Err
  <2> HIDE DEF done
  <2> QED
    BY <1>4, <2>2, <2>3, <2>4, <2>5, GoStep
<1>5. ASSUME NEW e \in {"KEYEXIST", "other"},
             e = "KEYEXIST" => k \in Present,
             UNCHANGED rec,
             owed' = IF next.op = "assigned" /\ e = "other" THEN owed \ {k} ELSE owed,
             Go(t, done(e), {})
      PROVE  IInv'
  <2>1. rec' \in [Key -> Nat] /\ owed' \subseteq Key /\ Present' = Present
    BY <1>3, <1>5 DEF Present
  <2>2. \A j \in owed' \ Present' :
           j \in owed \ Present /\ (call[t].op = "deleted" => call[t].key # j)
    BY <1>5, <2>1
  <2>3. Fits(done(e))
    BY <1>2, <1>5 DEF Err
  <2> HIDE DEF done
  <2> QED
    BY <1>5, <2>1, <2>2, <2>3, GoStep
<1>6. CASE \E e \in {"KEYEXIST", "other"} :
             /\ e = "KEYEXIST" => noOverwrite /\ k \in Present
             /\ UNCHANGED rec
             /\ owed' = IF next.op = "assigned" /\ e = "other" THEN owed \ {k} ELSE owed
             /\ Go(t, [next EXCEPT !.err = e], {})
  BY <1>5, <1>6
<1> QED
  BY <1>4, <1>6 DEF Store

(* A delete of all the records of the keys of S. *)
LEMMA EraseStep ==
    ASSUME IInv, NEW t \in Thread, NEW S \in SUBSET Key, NEW next,
           Erase(t, S, next), UNCHANGED <<dup, level>>, Fits([next EXCEPT !.err = "ok"]),
           owed' \subseteq owed, call[t].op # "deleted",
           \/ owed' \cap S = {}
           \/ next.op = "deleted" /\ S = {next.key}
    PROVE  IInv'
<1>1. /\ rec \in [Key -> Nat] /\ owed \subseteq Key /\ multi \subseteq Key
      /\ \A k \in Key : rec[k] > 1 => k \in multi
  BY DEF IInv, TypeOK, NoDuplicates
<1>2. rec' \in [Key -> Nat] /\ owed' \subseteq Key /\ multi' \subseteq Key /\ NoDuplicates'
  BY <1>1 DEF Erase, NoDuplicates
<1>3. Present' = Present \ S
  BY <1>1 DEF Erase, Present
<1>4. \A k \in owed' \ Present' : k \in S => next.op = "deleted" /\ next.key = k
  OBVIOUS
<1>5. Go(t, [next EXCEPT !.err = "ok"], {})
  BY DEF Erase
<1>6. [next EXCEPT !.err = "ok"].op = next.op /\ [next EXCEPT !.err = "ok"].key = next.key
  BY DEF Fits, FitsAssign, FitsList, FitsRead
<1> QED
  BY <1>2, <1>3, <1>4, <1>5, <1>6, GoStep

(* A method of one native call, when that call has returned e. *)
LEMMA Entered ==
    ASSUME IInv, UNCHANGED level, NEW op \in Reads, NEW e \in Err
    PROVE  Fits([Enter(op) EXCEPT !.err = e]) /\ Enter(op).op = op
<1> DEFINE f == FlagAt(op, level)
           c == [Idle EXCEPT !.op = op, !.early = f, !.asked = {f}, !.err = e]
<1>1. op \in Ops /\ level \in 0 .. 2
  BY DEF Ops, IInv, TypeOK
<1>2. f \in BOOLEAN
  BY <1>1, FlagsBoolean
<1>3. FlagAt(op, level') = f
  OBVIOUS
<1>4. [Enter(op) EXCEPT !.err = e] = c /\ Enter(op).op = op
  BY DEF Enter, Flag, Idle
<1> HIDE DEF f
<1>5. c \in Calls /\ c.op = op /\ c.early = f /\ c.asked = {f}
  BY <1>1, <1>2, IdleCall DEF Calls
<1> HIDE DEF c
<1>6. FitsAssign(c) /\ FitsList(c) /\ FitsRead(c)
  BY <1>3, <1>5 DEF FitsAssign, FitsList, FitsRead, Reads
<1> QED
  BY <1>4, <1>5, <1>6 DEF Fits

LEMMA Written ==
    ASSUME NEW op \in {"put", "delete", "truncate"}, NEW e \in Err
    PROVE  /\ Fits([[Idle EXCEPT !.op = op] EXCEPT !.err = e])
           /\ Fits([Idle EXCEPT !.op = op])
           /\ [Idle EXCEPT !.op = op] \in Calls /\ [Idle EXCEPT !.op = op].op = op
<1> DEFINE d == [Idle EXCEPT !.op = op]
           c == [d EXCEPT !.err = e]
<1>1. d \in Calls
  BY IdleCall DEF Writes
<1>2. d.op = op
  BY IdleCall DEF Calls
<1> HIDE DEF d
<1>3. c \in Calls /\ c.op = op
  BY <1>1, <1>2 DEF Calls
<1> HIDE DEF c
<1>4. Fits(c) /\ Fits(d)
  BY <1>1, <1>2, <1>3 DEF Fits, FitsAssign, FitsList, FitsRead, Reads
<1> QED
  BY <1>1, <1>2, <1>4 DEF c, d

(* A native call that changes no record. *)
LEMMA FailStep ==
    ASSUME IInv, NEW t \in Thread, NEW c, Go(t, c, {}), Fits(c),
           UNCHANGED <<dup, level, rec, owed, multi>>, call[t].op # "deleted"
    PROVE  IInv'
<1>1. Present' = Present /\ rec' \in [Key -> Nat] /\ owed' \subseteq Key /\ multi' \subseteq Key
  BY DEF Present, IInv, TypeOK
<1>2. NoDuplicates'
  BY DEF IInv, NoDuplicates
<1>3. \A k \in owed' \ Present' : k \in owed \ Present
  BY <1>1
<1> QED
  BY <1>1, <1>2, <1>3, GoStep

LEMMA IdleThread ==
    ASSUME NEW t \in Thread, call[t] = Idle
    PROVE  call[t].op # "deleted"
BY DEF Idle

LEMMA ReadInvariant ==
    ASSUME IInv, NEW t \in Thread, NEW op \in Reads, NEW k \in Key, Read(t, op, k) PROVE IInv'
<1>1. PICK e \in {IF k \in Present THEN "ok" ELSE "NOTFOUND", "other"} :
          Go(t, [Enter(op) EXCEPT !.err = e], {})
  BY DEF Read
<1>2. e \in Err /\ call[t].op # "deleted" /\ UNCHANGED <<dup, level, rec, owed, multi>>
  BY IdleThread DEF Err, Read
<1>3. Fits([Enter(op) EXCEPT !.err = e])
  BY <1>2, Entered
<1> QED
  BY <1>1, <1>2, <1>3, FailStep

LEMMA ConsumeInvariant ==
    ASSUME IInv, NEW t \in Thread, Consume(t) PROVE IInv'
<1>1. call[t].op # "deleted" /\ UNCHANGED <<dup, level>> /\ "get" \in Reads
  BY IdleThread DEF Consume, Reads
<1>2. \A e \in Err : Fits([Enter("get") EXCEPT !.err = e])
  BY <1>1, Entered
<1>3. ASSUME NEW k \in Key, Erase(t, {k}, Enter("get")), owed' = owed \ {k} PROVE IInv'
  <2>1. Fits([Enter("get") EXCEPT !.err = "ok"])
    BY <1>2 DEF Err
  <2> QED
    BY <1>1, <1>3, <2>1, EraseStep
<1>4. ASSUME NEW e \in {"NOTFOUND", "other"}, Fail(t, Enter("get"), e), UNCHANGED owed PROVE IInv'
  <2>1. Fits([Enter("get") EXCEPT !.err = e])
    BY <1>2 DEF Err
  <2> QED
    BY <1>1, <1>4, <2>1, FailStep DEF Fail
<1> QED
  BY <1>3, <1>4 DEF Consume, Present

LEMMA PutInvariant ==
    ASSUME IInv, NEW t \in Thread, NEW k \in Key, NEW noOverwrite \in BOOLEAN,
           Put(t, k, noOverwrite)
    PROVE  IInv'
<1> DEFINE next == [Idle EXCEPT !.op = "put"]
<1>1. /\ call[t].op # "deleted" /\ UNCHANGED <<dup, level>>
      /\ Store(t, k, noOverwrite, next)
      /\ multi' = IF rec'[k] > 1 THEN multi \cup {k} ELSE multi
  BY IdleThread DEF Put
<1>2. next \in Calls /\ next.op = "put"
  BY Written DEF Err
<1> HIDE DEF next
<1>3. rec \in [Key -> Nat] /\ multi \subseteq Key /\ \A j \in Key : rec[j] > 1 => j \in multi
  BY DEF IInv, TypeOK, NoDuplicates
<1>4. \A j \in Key : j # k => rec'[j] = rec[j]
  BY <1>1, <1>3 DEF Store
<1>5. multi' \subseteq Key /\ NoDuplicates'
  BY <1>1, <1>3, <1>4 DEF NoDuplicates
<1> QED
  BY <1>1, <1>2, <1>5, StoreStep

LEMMA DeleteInvariant ==
    ASSUME IInv, NEW t \in Thread, NEW k \in Key, Delete(t, k) PROVE IInv'
<1> DEFINE next == [Idle EXCEPT !.op = "delete"]
<1>1. call[t].op # "deleted" /\ UNCHANGED <<dup, level>>
  BY IdleThread DEF Delete
<1>2. \A e \in Err : Fits([next EXCEPT !.err = e])
  BY Written
<1>3. next.op = "delete"
  BY Written DEF Err
<1>4. \/ Erase(t, {k}, next) /\ owed' = owed \ {k}
      \/ \E e \in {"NOTFOUND", "other"} : Fail(t, next, e) /\ UNCHANGED owed
  BY DEF Delete
<1> HIDE DEF next
<1>5. CASE Erase(t, {k}, next) /\ owed' = owed \ {k}
  <2>1. Fits([next EXCEPT !.err = "ok"])
    BY <1>2 DEF Err
  <2> QED
    BY <1>1, <1>5, <2>1, EraseStep
<1>6. ASSUME NEW e \in {"NOTFOUND", "other"}, Fail(t, next, e), UNCHANGED owed PROVE IInv'
  <2>1. Fits([next EXCEPT !.err = e])
    BY <1>2 DEF Err
  <2> QED
    BY <1>1, <1>6, <2>1, FailStep DEF Fail
<1> QED
  BY <1>4, <1>5, <1>6

LEMMA TruncateInvariant ==
    ASSUME IInv, NEW t \in Thread, Truncate(t) PROVE IInv'
<1> DEFINE next == [Idle EXCEPT !.op = "truncate"]
<1>1. call[t].op # "deleted" /\ UNCHANGED <<dup, level>>
  BY IdleThread DEF Truncate
<1>2. \A e \in Err : Fits([next EXCEPT !.err = e])
  BY Written
<1>3. \/ Erase(t, Key, next) /\ owed' = {}
      \/ \E e \in {"ok", "other"} : Fail(t, next, e) /\ UNCHANGED owed
  BY DEF Truncate
<1> HIDE DEF next
<1>4. CASE Erase(t, Key, next) /\ owed' = {}
  <2>1. Fits([next EXCEPT !.err = "ok"])
    BY <1>2 DEF Err
  <2> QED
    BY <1>1, <1>4, <2>1, EraseStep
<1>5. ASSUME NEW e \in {"ok", "other"}, Fail(t, next, e), UNCHANGED owed PROVE IInv'
  <2>1. Fits([next EXCEPT !.err = e])
    BY <1>2 DEF Err
  <2> QED
    BY <1>1, <1>5, <2>1, FailStep DEF Fail
<1> QED
  BY <1>3, <1>4, <1>5

LEMMA CursorDeleteInvariant ==
    ASSUME IInv, NEW t \in Thread, NEW k \in Key, CursorDelete(t, k) PROVE IInv'
<1>1. /\ call[t].op # "deleted" /\ UNCHANGED <<dup, level>>
      /\ k \in Present /\ Go(t, [Idle EXCEPT !.op = "delete"], {})
      /\ rec' = [rec EXCEPT ![k] = rec[k] - 1]
      /\ multi' = IF rec'[k] > 1 THEN multi ELSE multi \ {k}
      /\ owed' = IF rec'[k] > 0 THEN owed ELSE owed \ {k}
  BY IdleThread DEF CursorDelete
<1>2. /\ rec \in [Key -> Nat] /\ multi \subseteq Key /\ owed \subseteq Key
      /\ \A j \in Key : rec[j] > 1 => j \in multi
  BY DEF IInv, TypeOK, NoDuplicates
<1>3. rec[k] > 0
  BY <1>1 DEF Present
<1>4. rec' \in [Key -> Nat] /\ owed' \subseteq Key /\ multi' \subseteq Key /\ NoDuplicates'
  BY <1>1, <1>2, <1>3 DEF NoDuplicates
<1>5. \A j \in Present' : j \in Present
  BY <1>1, <1>2, <1>3 DEF Present
<1>6. \A j \in owed' \ Present' : j \in owed \ Present
  BY <1>1, <1>2, <1>3 DEF Present
<1>7. Fits([Idle EXCEPT !.op = "delete"])
  BY Written DEF Err
<1> QED
  BY <1>1, <1>4, <1>5, <1>6, <1>7, GoStep

LEMMA AssignInvariant ==
    ASSUME IInv, NEW t \in Thread, NEW k \in Key, Assign(t, k) PROVE IInv'
<1> DEFINE next == [Idle EXCEPT !.op = "assign", !.key = k]
<1>1. /\ call[t].op # "deleted" /\ UNCHANGED <<dup, level, multi>> /\ dup \in BOOLEAN
      /\ Store(t, k, dup, next)
  BY IdleThread DEF Assign, IInv, TypeOK
<1>2. next \in Calls
  BY IdleCall DEF Writes
<1>3. next.op = "assign" /\ next.key = k
  BY IdleCall DEF Calls
<1> HIDE DEF next
<1>4. rec \in [Key -> Nat] /\ multi \subseteq Key /\ \A j \in Key : rec[j] > 1 => j \in multi
  BY DEF IInv, TypeOK, NoDuplicates
<1>5. multi' \subseteq Key /\ NoDuplicates'
  <2> SUFFICES ASSUME NEW j \in Key, rec'[j] > 1 PROVE j \in multi
    BY <1>1, <1>4 DEF NoDuplicates
  <2>1. rec'[j] = rec[j] \/ (j = k /\ rec'[k] = Added(k) /\ ~(dup /\ k \in Present))
    BY <1>1, <1>4 DEF Store
  <2>2. CASE rec'[j] = rec[j]
    BY <2>2, <1>4
  <2>3. CASE j = k /\ rec'[k] = Added(k) /\ ~(dup /\ k \in Present)
    BY <2>3, <1>4 DEF Added, Present
  <2> QED
    BY <2>1, <2>2, <2>3
<1> QED
  BY <1>1, <1>2, <1>3, <1>5, StoreStep

(* The second put of an assignment stores the only record of the key. *)
LEMMA AssignAgainInvariant ==
    ASSUME IInv, NEW t \in Thread, AssignAgain(t) PROVE IInv'
<1> DEFINE next == [call[t] EXCEPT !.op = "assigned"]
           k == call[t].key
<1>1. /\ call[t].op = "deleted" /\ UNCHANGED <<dup, level, multi>>
      /\ Store(t, k, TRUE, next)
  BY DEF AssignAgain
<1>2. call[t] \in Calls /\ AssignInv(call[t])
  BY DEF IInv, TypeOK, CallInv
<1>3. k \in Key /\ (k \in Present => call[t].raced)
  BY <1>1, <1>2 DEF AssignInv
<1>4. next \in Calls
  BY <1>2 DEF Calls, Ops, Writes
<1>5. next.op = "assigned" /\ (k \in Present => next.raced)
  BY <1>2, <1>3 DEF Calls
<1> HIDE DEF next
<1>6. rec \in [Key -> Nat] /\ multi \subseteq Key /\ \A j \in Key : rec[j] > 1 => j \in multi
  BY DEF IInv, TypeOK, NoDuplicates
<1>7. multi' \subseteq Key /\ NoDuplicates'
  <2> SUFFICES ASSUME NEW j \in Key, rec'[j] > 1 PROVE j \in multi
    BY <1>1, <1>6 DEF NoDuplicates
  <2>1. rec'[j] = rec[j] \/ (j = k /\ rec'[k] = Added(k) /\ k \notin Present)
    BY <1>1, <1>3, <1>6 DEF Store
  <2>2. CASE rec'[j] = rec[j]
    BY <2>2, <1>6
  <2>3. CASE j = k /\ rec'[k] = Added(k) /\ k \notin Present
    BY <2>3, <1>3, <1>6 DEF Added, Present
  <2> QED
    BY <2>1, <2>2, <2>3
<1> QED
  BY <1>1, <1>3, <1>4, <1>5, <1>7, StoreStep

(* The delete of an assignment. *)
LEMMA AssignDeleteInvariant ==
    ASSUME IInv, NEW t \in Thread, AssignDelete(t) PROVE IInv'
<1> DEFINE k == call[t].key
           next == [Idle EXCEPT !.op = "deleted", !.key = k]
<1>1. call[t].op = "assign" /\ UNCHANGED <<dup, level, owed>>
  BY DEF AssignDelete
<1>2. /\ k \in Key /\ rec \in [Key -> Nat] /\ owed \subseteq Key /\ multi \subseteq Key
      /\ NoDuplicates /\ dup \in BOOLEAN
  BY <1>1 DEF IInv, TypeOK, CallInv, AssignInv
<1>3. next \in Calls
  BY <1>2, IdleCall DEF Writes
<1>4. next.op = "deleted" /\ next.key = k
  BY IdleCall DEF Calls
<1>5. \/ Erase(t, {k}, next)
      \/ k \notin Present /\ Fail(t, next, "ok")
      \/ Fail(t, [next EXCEPT !.raced = TRUE], "ok")
  BY DEF AssignDelete
<1> HIDE DEF next
<1>6. \A j \in owed : j = k => next.op = "deleted" /\ next.key = j
  BY <1>4
<1>7. CASE Erase(t, {k}, next)
  <2>1. k \notin Present'
    BY <1>2, <1>7 DEF Erase, Present
  <2> DEFINE c == [next EXCEPT !.err = "ok"]
  <2>2. c \in Calls /\ c.op = "deleted" /\ c.key = k
    BY <1>3, <1>4 DEF Calls, Err
  <2> HIDE DEF c
  <2>3. Fits(c)
    BY <1>2, <2>1, <2>2 DEF Fits, FitsAssign, FitsList, FitsRead, Reads
  <2>4. owed' \subseteq owed /\ call[t].op # "deleted"
    BY <1>1
  <2> QED
    BY <1>1, <1>2, <1>4, <1>7, <2>3, <2>4, EraseStep DEF c
<1>8. CASE k \notin Present /\ Fail(t, next, "ok")
  <2>1. k \notin Present' /\ UNCHANGED <<rec, multi>>
    BY <1>8 DEF Fail, Present
  <2> DEFINE c == [next EXCEPT !.err = "ok"]
  <2>2. c \in Calls /\ c.op = "deleted" /\ c.key = k
    BY <1>3, <1>4 DEF Calls, Err
  <2>3. Go(t, c, {})
    BY <1>8 DEF Fail
  <2> HIDE DEF c
  <2>4. Fits(c)
    BY <1>2, <2>1, <2>2 DEF Fits, FitsAssign, FitsList, FitsRead, Reads
  <2> QED
    BY <1>1, <2>1, <2>3, <2>4, FailStep
<1>9. CASE Fail(t, [next EXCEPT !.raced = TRUE], "ok")
  <2> DEFINE c == [[next EXCEPT !.raced = TRUE] EXCEPT !.err = "ok"]
  <2>1. c \in Calls /\ c.op = "deleted" /\ c.key = k
    BY <1>3, <1>4 DEF Calls, Err
  <2>2. c.raced = TRUE
    BY <1>3 DEF Calls
  <2>3. Go(t, c, {}) /\ UNCHANGED <<rec, multi>>
    BY <1>9 DEF Fail
  <2> HIDE DEF c
  <2>4. Fits(c)
    BY <1>2, <2>1, <2>2 DEF Fits, FitsAssign, FitsList, FitsRead, Reads
  <2> QED
    BY <1>1, <2>3, <2>4, FailStep
<1> QED
  BY <1>5, <1>7, <1>8, <1>9

LEMMA ListStartInvariant ==
    ASSUME IInv, NEW t \in Thread, ListStart(t) PROVE IInv'
<1> DEFINE c == [Idle EXCEPT !.op = "list", !.kept = Present, !.met = Present]
           d == [Idle EXCEPT !.op = "listed", !.err = "other"]
<1>1. /\ call[t].op # "deleted" /\ UNCHANGED <<dup, level, rec, owed, multi>>
      /\ Go(t, c, {}) \/ Go(t, d, {})
  BY IdleThread DEF ListStart
<1>2. Present' = Present /\ Present \subseteq Key
  BY <1>1 DEF Present
<1>3. c \in Calls /\ d \in Calls
  BY <1>2, IdleCall DEF Calls, Ops, Err
<1>4. c.op = "list" /\ c.kept = Present /\ c.met = Present /\ c.key = 0 /\ c.got = {}
  BY IdleCall DEF Calls, Idle
<1>5. d.op = "listed" /\ d.err = "other"
  BY IdleCall DEF Calls
<1> HIDE DEF c, d
<1>6. Fits(c)
  <2>1. \A k \in Present : ~(k <= 0)
    BY <1>2 DEF Key
  <2> QED
    BY <1>2, <1>3, <1>4, <2>1 DEF Fits, FitsAssign, FitsList, FitsRead, Reads
<1>7. Fits(d)
  BY <1>3, <1>5 DEF Fits, FitsAssign, FitsList, FitsRead, Reads
<1> QED
  BY <1>1, <1>6, <1>7, FailStep

(* A list goes on with the next record: what it has so far, up to there, is
   still all that stayed. *)
LEMMA ListNextInvariant ==
    ASSUME IInv, NEW t \in Thread, ListNext(t) PROVE IInv'
<1>1. call[t].op = "list" /\ UNCHANGED <<dup, level, rec, owed, multi>>
  BY DEF ListNext
<1>2. /\ Present' = Present /\ Present \subseteq Key
      /\ call[t] \in Calls /\ ListInv(call[t]) /\ call[t].key \in Nat
  BY <1>1 DEF Present, IInv, TypeOK, CallInv, Calls
<1>3. ASSUME NEW k \in Present,
             k > call[t].key, \A l \in Present : l > call[t].key => l >= k,
             Go(t, [call[t] EXCEPT !.key = k, !.got = @ \cup {k}], {})
      PROVE  IInv'
  <2> DEFINE c == [call[t] EXCEPT !.key = k, !.got = @ \cup {k}]
  <2>1. k \in Key /\ k \in 0 .. MaxKey
    BY <1>2 DEF Key
  <2>2. c \in Calls /\ c.op = "list" /\ c.key = k /\ c.got = call[t].got \cup {k}
    BY <1>1, <1>2, <2>1 DEF Calls
  <2>3. c.kept = call[t].kept /\ c.met = call[t].met
    BY <1>2 DEF Calls
  <2>4. \A l \in c.kept : l <= k => l <= call[t].key \/ l = k
    BY <1>1, <1>2, <1>3, <2>1, <2>3 DEF ListInv, Key
  <2> HIDE DEF c
  <2>5. FitsList(c)
    BY <1>1, <1>2, <2>2, <2>3, <2>4 DEF ListInv, FitsList
  <2>6. Fits(c)
    BY <2>2, <2>5 DEF Fits, FitsAssign, FitsRead, Reads
  <2> QED
    BY <1>1, <1>3, <2>6, FailStep DEF c
<1>4. ASSUME NEW e \in {"NOTFOUND", "other"},
             e = "NOTFOUND" => \A l \in Present : l <= call[t].key,
             Go(t, [call[t] EXCEPT !.op = "listed", !.err = e], {})
      PROVE  IInv'
  <2> DEFINE c == [call[t] EXCEPT !.op = "listed", !.err = e]
  <2>1. c \in Calls /\ c.op = "listed" /\ c.err = e
    BY <1>2 DEF Calls, Ops, Err
  <2>2. c.got = call[t].got /\ c.kept = call[t].kept /\ c.met = call[t].met
    BY <1>2 DEF Calls
  <2> HIDE DEF c
  <2>3. FitsList(c)
    BY <1>1, <1>2, <1>4, <2>1, <2>2 DEF ListInv, FitsList
  <2>4. Fits(c)
    BY <2>1, <2>3 DEF Fits, FitsAssign, FitsRead, Reads
  <2> QED
    BY <1>1, <1>4, <2>4, FailStep DEF c
<1> QED
  BY <1>3, <1>4 DEF ListNext

(* A return takes nothing that another thread's call, or a lost record,
   depends on: a deleted key has been stored again, or is not owed. *)
LEMMA ReturnInvariant ==
    ASSUME IInv, NEW t \in Thread, Return(t) PROVE IInv'
<1>1. /\ Done(call[t]) /\ UNCHANGED <<dup, rec, level, owed, multi>>
      /\ call' = [call EXCEPT ![t] = Idle] /\ call \in [Thread -> Calls]
  BY DEF Return, IInv, TypeOK
<1>2. call[t].op # "deleted" /\ Present' = Present
  BY <1>1 DEF Done, Reads, Present
<1>3. TypeOK' /\ NoDuplicates'
  BY <1>1, IdleCall DEF IInv, TypeOK, NoDuplicates
<1>4. StoredIsKept'
  BY <1>1, <1>2 DEF IInv, StoredIsKept
<1>5. CallInv(Idle)'
  BY DEF Idle, CallInv, AssignInv, ListInv, ReadInv, Reads
<1>6. ASSUME NEW u \in Thread PROVE CallInv(call[u])'
  <2>1. CASE u = t
    BY <1>1, <1>5, <2>1
  <2>2. CASE u # t
    <3>1. call'[u] = call[u] /\ CallInv(call[u])
      BY <1>1, <2>2 DEF IInv
    <3> QED
      BY <1>1, <1>2, <3>1 DEF CallInv, AssignInv, ListInv, ReadInv
  <2> QED
    BY <2>1, <2>2
<1> QED
  BY <1>3, <1>4, <1>6 DEF IInv

(* A change of the level is added to what every call that reads it has met. *)
LEMMA LevelInvariant ==
    ASSUME IInv, NEW t \in Thread, NEW n \in 0 .. 2, SetGetReturnsNone(t, n) PROVE IInv'
<1>1. UNCHANGED <<dup, rec, owed, multi>> /\ level' = n /\ call \in [Thread -> Calls]
  BY DEF SetGetReturnsNone, IInv, TypeOK
<1>2. Present' = Present
  BY <1>1 DEF Present
<1>3. ASSUME NEW u \in Thread
      PROVE  /\ call'[u] \in Calls
             /\ call'[u].op = call[u].op /\ call'[u].key = call[u].key
             /\ call'[u].err = call[u].err /\ call'[u].early = call[u].early
             /\ call'[u].got = call[u].got /\ call'[u].raced = call[u].raced
             /\ call'[u].kept = call[u].kept /\ call'[u].met = call[u].met
             /\ call[u].asked # {} => /\ FlagAt(call[u].op, n) \in call'[u].asked
                                      /\ call[u].asked \subseteq call'[u].asked
  <2> DEFINE f == FlagAt(call[u].op, n)
  <2>1. call[u] \in Calls
    BY <1>1
  <2>2. f \in BOOLEAN
    BY <2>1, FlagsBoolean DEF Calls
  <2>3. call'[u] = IF call[u].asked = {} THEN call[u]
                   ELSE [call[u] EXCEPT !.asked = @ \cup {f}]
    BY DEF SetGetReturnsNone
  <2> HIDE DEF f
  <2>4. CASE call[u].asked = {}
    BY <2>1, <2>3, <2>4
  <2>5. CASE call[u].asked # {}
    <3>1. call[u].asked \cup {f} \in SUBSET BOOLEAN
      BY <2>1, <2>2 DEF Calls
    <3>2. call'[u] = [call[u] EXCEPT !.asked = call[u].asked \cup {f}]
      BY <2>3, <2>5
    <3> DEFINE a == call[u].asked \cup {f}
    <3>3. f \in a /\ call[u].asked \subseteq a
      OBVIOUS
    <3> HIDE DEF a
    <3>4. call'[u] \in Calls /\ call'[u].asked = a
      BY <2>1, <3>1, <3>2 DEF Calls, a
    <3>5. /\ call'[u].op = call[u].op /\ call'[u].key = call[u].key
          /\ call'[u].err = call[u].err /\ call'[u].early = call[u].early
          /\ call'[u].got = call[u].got /\ call'[u].raced = call[u].raced
          /\ call'[u].kept = call[u].kept /\ call'[u].met = call[u].met
      BY <2>1, <3>2 DEF Calls
    <3> QED
      BY <3>3, <3>4, <3>5 DEF f
  <2> QED
    BY <2>4, <2>5
<1>4. call' \in [Thread -> Calls]
  BY <1>3 DEF SetGetReturnsNone
<1>5. TypeOK' /\ NoDuplicates'
  BY <1>1, <1>4 DEF IInv, TypeOK, NoDuplicates
<1>6. StoredIsKept'
  BY <1>1, <1>2, <1>3 DEF IInv, StoredIsKept
<1>7. ASSUME NEW u \in Thread PROVE CallInv(call[u])'
  <2>1. CallInv(call[u])
    BY DEF IInv
  <2>2. AssignInv(call[u])'
    BY <1>2, <1>3, <2>1 DEF CallInv, AssignInv
  <2>3. ListInv(call[u])'
    BY <1>2, <1>3, <2>1 DEF CallInv, ListInv
  <2>4. ReadInv(call[u])'
    BY <1>1, <1>3, <2>1 DEF CallInv, ReadInv
  <2> QED
    BY <2>2, <2>3, <2>4 DEF CallInv
<1> QED
  BY <1>5, <1>6, <1>7 DEF IInv

LEMMA StepInv ==
    ASSUME IInv, [Next]_vars PROVE IInv'
<1>1. CASE UNCHANGED vars
  <2>1. Present' = Present
    BY <1>1 DEF vars, Present
  <2> QED
    BY <1>1, <2>1 DEF vars, IInv, TypeOK, NoDuplicates, StoredIsKept, CallInv, AssignInv,
                      ListInv, ReadInv
<1>2. ASSUME NEW t \in Thread, NEW op \in Reads, NEW k \in Key, Read(t, op, k) PROVE IInv'
  BY <1>2, ReadInvariant
<1>3. ASSUME NEW t \in Thread, NEW k \in Key, Delete(t, k) PROVE IInv'
  BY <1>3, DeleteInvariant
<1>4. ASSUME NEW t \in Thread, NEW k \in Key, CursorDelete(t, k) PROVE IInv'
  BY <1>4, CursorDeleteInvariant
<1>5. ASSUME NEW t \in Thread, NEW k \in Key, Assign(t, k) PROVE IInv'
  BY <1>5, AssignInvariant
<1>6. ASSUME NEW t \in Thread, NEW k \in Key, NEW noOverwrite \in BOOLEAN,
             Put(t, k, noOverwrite)
      PROVE  IInv'
  BY <1>6, PutInvariant
<1>7. ASSUME NEW t \in Thread, Truncate(t) \/ Consume(t) PROVE IInv'
  BY <1>7, TruncateInvariant, ConsumeInvariant
<1>8. ASSUME NEW t \in Thread, AssignDelete(t) \/ AssignAgain(t) PROVE IInv'
  BY <1>8, AssignDeleteInvariant, AssignAgainInvariant
<1>9. ASSUME NEW t \in Thread, ListStart(t) \/ ListNext(t) PROVE IInv'
  BY <1>9, ListStartInvariant, ListNextInvariant
<1>10. ASSUME NEW t \in Thread, Return(t) PROVE IInv'
  BY <1>10, ReturnInvariant
<1>11. ASSUME NEW t \in Thread, NEW n \in 0 .. 2, SetGetReturnsNone(t, n) PROVE IInv'
  BY <1>11, LevelInvariant
<1> QED
  BY <1>1, <1>2, <1>3, <1>4, <1>5, <1>6, <1>7, <1>8, <1>9, <1>10, <1>11 DEF Next

(* The inductive invariant: what each call has noted agrees with the records,
   and a key that lost its records has an assignment at work on it. *)
THEOREM InvariantHolds == Spec => []IInv
<1>1. Init => IInv
  BY InitInv
<1>2. IInv /\ [Next]_vars => IInv'
  BY StepInv
<1> QED
  BY <1>1, <1>2, PTL DEF Spec

(* However assignments of several threads overlap, only DB.put and
   DBCursor.put give a key a second record. *)
THEOREM NoDuplicatesHolds == Spec => []NoDuplicates
<1>1. IInv => NoDuplicates
  BY DEF IInv
<1> QED
  BY <1>1, InvariantHolds, PTL

(* A key that was stored, and that no thread meant to remove, has a record, or
   an assignment between its delete and its second put is about to store it. *)
THEOREM StoredIsKeptHolds == Spec => []StoredIsKept
<1>1. IInv => StoredIsKept
  BY DEF IInv
<1> QED
  BY <1>1, InvariantHolds, PTL

(* DB_ass_sub raises DBKeyExistError only when another thread stored the key
   between its delete and its second put, or when its delete failed. *)
THEOREM RefusedOnlyByRaceHolds == Spec => []RefusedOnlyByRace
<1>1. ASSUME IInv PROVE RefusedOnlyByRace
  <2> SUFFICES ASSUME NEW t \in Thread,
                      call[t].op = "assigned", Outcome(call[t]) = "DBKeyExistError"
               PROVE  call[t].raced
    BY DEF RefusedOnlyByRace
  <2>1. call[t] \in Calls /\ AssignInv(call[t])
    BY <1>1 DEF IInv, TypeOK, CallInv
  <2> QED
    BY <2>1, Answers DEF AssignInv
<1> QED
  BY <1>1, InvariantHolds, PTL

(* The lists of DB.keys, items and values, which walk the DB with the
   interpreter lock released at every record, miss no key that stayed. *)
THEOREM ListsAreCompleteHolds == Spec => []ListsAreComplete
<1>1. ASSUME IInv PROVE ListsAreComplete
  <2> SUFFICES ASSUME NEW t \in Thread, call[t].op = "listed", Outcome(call[t]) = "value"
               PROVE  call[t].kept \subseteq call[t].got /\ call[t].got \subseteq call[t].met
    BY DEF ListsAreComplete
  <2>1. call[t] \in Calls /\ ListInv(call[t])
    BY <1>1 DEF IInv, TypeOK, CallInv
  <2>2. call[t].err \in {"ok", "NOTFOUND"}
    BY <2>1, Answers DEF Calls, Err
  <2> QED
    BY <2>1, <2>2 DEF ListInv
<1> QED
  BY <1>1, InvariantHolds, PTL

(* Whether a method reads its flag before the window or after it, the answer
   is one that set_get_returns_none asked for during the call. *)
THEOREM NoneOnlyWhenAskedHolds == Spec => []NoneOnlyWhenAsked
<1>1. ASSUME IInv PROVE NoneOnlyWhenAsked
  <2> SUFFICES ASSUME NEW t \in Thread, Done(call[t])
               PROVE  /\ Outcome(call[t]) = "None" => TRUE \in call[t].asked
                      /\ call[t].op \in {"get", "set", "get_both", "set_both"}
                            /\ Outcome(call[t]) = "DBNotFoundError" => FALSE \in call[t].asked
    BY DEF NoneOnlyWhenAsked
  <2> DEFINE c == call[t]
  <2>1. c \in Calls /\ ReadInv(c) /\ level \in 0 .. 2
    BY <1>1 DEF IInv, TypeOK, CallInv
  <2>2. c.early \in BOOLEAN /\ FlagAt(c.op, level) \in BOOLEAN
    BY <2>1, FlagsBoolean DEF Calls
  <2>3. ASSUME Outcome(c) = "None" PROVE TRUE \in c.asked
    <3>1. c.err = "NOTFOUND" /\ c.op # "listed"
      BY <2>1, <2>3, Answers
    <3>2. Missing(c) = "None"
      BY <2>3, <3>1 DEF Outcome
    <3>3. \/ c.op \in {"get", "set"} /\ FlagAt(c.op, level) = TRUE
          \/ c.op \in {"get_both", "set_both"} /\ c.early = TRUE
      BY <2>2, <3>2 DEF Missing, DictMissing, LateMissing, EarlyMissing, Flag
    <3> QED
      BY <2>1, <3>3 DEF ReadInv, Reads
  <2>4. ASSUME Outcome(c) = "DBNotFoundError", c.op \in {"get", "set", "get_both", "set_both"}
        PROVE  FALSE \in c.asked
    <3>1. c.err = "NOTFOUND" /\ c.op # "listed"
      BY <2>1, <2>4, Answers
    <3>2. Missing(c) = "DBNotFoundError"
      BY <2>4, <3>1 DEF Outcome
    <3>3. \/ c.op \in {"get", "set"} /\ FlagAt(c.op, level) = FALSE
          \/ c.op \in {"get_both", "set_both"} /\ c.early = FALSE
      BY <2>2, <2>4, <3>2 DEF Missing, DictMissing, LateMissing, EarlyMissing, Flag
    <3> QED
      BY <2>1, <3>3 DEF ReadInv, Reads
  <2> QED
    BY <2>3, <2>4
<1> QED
  BY <1>1, InvariantHolds, PTL

-----------------------------------------------------------------------------
(* LegacyDB.                                                                 *)

(* A set of records, if there are any, has a first and a last. *)
LEMMA Extremes ==
    ASSUME NEW S, S \subseteq Records, S # {}
    PROVE  /\ Least(S) \in S /\ \A k \in S : Least(S) <= k
           /\ Greatest(S) \in S /\ \A k \in S : Greatest(S) >= k
<1> DEFINE Ends(T) == /\ \E k \in T : \A l \in T : k <= l
                      /\ \E k \in T : \A l \in T : k >= l
           Bad == {T \in SUBSET Records : T # {} /\ ~Ends(T)}
           R == StrictSubsetOrdering(Records)
<1>1. IsWellFoundedOn(R, SUBSET Records)
  <2>1. IsFiniteSet(Records)
    BY LegacyAssumption, FS_Interval DEF Records
  <2> QED
    BY <2>1, FS_StrictSubsetOrderingWellFounded, FS_FiniteSubsetsOfFinite
<1>2. \A T \in SUBSET Records :
         T # {} /\ (\A U \in SUBSET Records : U \subseteq T /\ U # T /\ U # {} => Ends(U))
            => Ends(T)
  <2> SUFFICES ASSUME NEW T \in SUBSET Records, NEW x \in T,
                      \A U \in SUBSET Records : U \subseteq T /\ U # T /\ U # {} => Ends(U)
               PROVE  Ends(T)
    OBVIOUS
  <2>1. \A k, l \in T : k \in Int /\ l \in Int
    BY LegacyAssumption DEF Records
  <2>2. CASE T = {x}
    BY <2>1, <2>2
  <2>3. CASE T # {x}
    <3>1. Ends(T \ {x})
      BY <2>3
    <3>2. PICK a \in T \ {x} : \A l \in T \ {x} : a <= l
      BY <3>1
    <3>3. PICK b \in T \ {x} : \A l \in T \ {x} : b >= l
      BY <3>1
    <3>4. \E k \in T : \A l \in T : k <= l
      BY <2>1, <3>2
    <3>5. \E k \in T : \A l \in T : k >= l
      BY <2>1, <3>3
    <3> QED
      BY <3>4, <3>5
  <2> QED
    BY <2>2, <2>3
<1> HIDE DEF Ends, R
<1>3. Bad = {}
  <2> SUFFICES ASSUME Bad # {}
               PROVE  FALSE
    OBVIOUS
  <2>1. PICK T \in Bad : \A U \in Bad : <<U, T>> \notin R
    BY <1>1, WFMin
  <2>2. \A U \in Bad : U \subseteq T => U = T
    BY <2>1 DEF R, StrictSubsetOrdering
  <2> QED
    BY <1>2, <2>2
<1>4. Ends(S)
  BY <1>3
<1> QED
  BY <1>4 DEF Ends, Least, Greatest

LEMMA LegacyInitInv == LegacyInit => LegacyInv
<1> SUFFICES ASSUME LegacyInit
             PROVE  LegacyInv
  OBVIOUS
<1> USE DEF LegacyInit
<1>1. LegacyTypeOK
  BY DEF LegacyTypeOK, Cursors
<1>2. InIterExact
  <2>1. Suspended = {}
    BY DEF Suspended
  <2> QED
    BY <2>1, FS_EmptySet DEF InIterExact
<1>3. CursorsKnown /\ PlaceKept /\ PlaceInv /\ \A g \in Gen : GeneratorInv(g)
  BY DEF CursorsKnown, PlaceKept, PlaceInv, GeneratorInv
<1> QED
  BY <1>1, <1>2, <1>3 DEF LegacyInv

(* A call that closes all cursors and starts and ends no generator. *)
LEMMA ClosingKeeps ==
    ASSUME LegacyInv, open' = open \ ClosedBy, refs' = refs \ ClosedBy,
           saved' = SavedKey \/ (saved' = saved /\ place' = Unset),
           at' = [at EXCEPT ![Own] = Unset],
           keys' \subseteq Records,
           place' \in keys' \cup {Unset}, UNCHANGED <<inIter, gen, seen>>,
           written' \subseteq written \cup Suspended,
           place' # Unset => place' = place
    PROVE  LegacyInv'
<1> USE DEF LegacyInv, LegacyTypeOK, ClosedBy, Cursors
<1>1. SavedKey \in Records \cup {Unset}
  BY DEF SavedKey
<1>2. LegacyTypeOK'
  BY <1>1 DEF Suspended
<1>3. CursorsKnown' /\ refs' = {}
  BY LegacyAssumption DEF CursorsKnown
<1>4. InIterExact'
  BY DEF InIterExact, Suspended
<1>5. PlaceInv'
  BY DEF PlaceInv
<1>6. PlaceKept'
  BY DEF PlaceKept, PlaceInv, SavedKey
<1>7. \A g \in Gen : GeneratorInv(g)'
  <2> SUFFICES ASSUME NEW g \in Gen
               PROVE  GeneratorInv(g)'
    OBVIOUS
  <2>1. at'[g] = at[g]
    BY LegacyAssumption
  <2> QED
    BY <1>3, <2>1 DEF GeneratorInv, Suspended
<1> QED
  BY <1>2, <1>3, <1>4, <1>5, <1>6, <1>7

LEMMA WriteInv ==
    ASSUME LegacyInv, NEW S, S \subseteq Records, Write(S)
    PROVE  LegacyInv'
<1>1. keys' \subseteq Records /\ written' \subseteq written \cup Suspended
      /\ UNCHANGED <<inIter, gen, seen>>
  BY DEF Write
<1>2. place' \in keys' \cup {Unset} /\ (place' # Unset => place' = place)
  BY DEF Write
<1>3. /\ open' = open \ ClosedBy /\ refs' = refs \ ClosedBy
      /\ saved' = SavedKey /\ at' = [at EXCEPT ![Own] = Unset]
  BY DEF Write, CloseCursors
<1> QED
  BY <1>1, <1>2, <1>3, ClosingKeeps

LEMMA CloseInv == LegacyInv /\ Close => LegacyInv'
<1> SUFFICES ASSUME LegacyInv, Close
             PROVE  LegacyInv'
  OBVIOUS
<1>1. /\ UNCHANGED <<keys, inIter, gen, seen, written>> /\ place' = Unset
      /\ open' = open \ ClosedBy /\ refs' = refs \ ClosedBy
      /\ saved' = saved /\ at' = [at EXCEPT ![Own] = Unset]
  BY DEF Close, CloseCursors
<1>2. keys \subseteq Records
  BY DEF LegacyInv, LegacyTypeOK
<1> QED
  BY <1>1, <1>2, ClosingKeeps

(* A generator at a yield counts one more, one that is over one less. *)
LEMMA Counted ==
    ASSUME LegacyInv, NEW g \in Gen
    PROVE  /\ gen' = [gen EXCEPT ![g] = "suspended"]
              /\ inIter' = (IF gen[g] = "suspended" THEN inIter ELSE inIter + 1)
                 => InIterExact' /\ inIter' \in Int
           /\ gen' = [gen EXCEPT ![g] = "over"]
              /\ inIter' = (IF gen[g] = "suspended" THEN inIter - 1 ELSE inIter)
                 => InIterExact' /\ inIter' \in Int
<1> USE DEF LegacyInv, LegacyTypeOK
<1>1. IsFiniteSet(Suspended)
  BY LegacyAssumption, FS_Subset DEF Suspended
<1>2. g \in Suspended <=> gen[g] = "suspended"
  BY DEF Suspended
<1>3. Cardinality(Suspended) \in Nat /\ inIter = Cardinality(Suspended)
  BY <1>1, FS_CardinalityType DEF InIterExact
<1>4. Cardinality(Suspended \cup {g}) = IF g \in Suspended THEN Cardinality(Suspended)
                                                           ELSE Cardinality(Suspended) + 1
  BY <1>1, FS_AddElement
<1>5. Cardinality(Suspended \ {g}) = IF g \in Suspended THEN Cardinality(Suspended) - 1
                                                        ELSE Cardinality(Suspended)
  BY <1>1, FS_RemoveElement
<1>6. ASSUME gen' = [gen EXCEPT ![g] = "suspended"],
             inIter' = (IF gen[g] = "suspended" THEN inIter ELSE inIter + 1)
      PROVE  InIterExact' /\ inIter' \in Int
  <2>1. Suspended' = Suspended \cup {g}
    BY <1>6 DEF Suspended
  <2> QED
    BY <1>2, <1>3, <1>4, <1>6, <2>1 DEF InIterExact
<1>7. ASSUME gen' = [gen EXCEPT ![g] = "over"],
             inIter' = (IF gen[g] = "suspended" THEN inIter - 1 ELSE inIter)
      PROVE  InIterExact' /\ inIter' \in Int
  <2>1. Suspended' = Suspended \ {g}
    BY <1>7 DEF Suspended
  <2> QED
    BY <1>2, <1>3, <1>5, <1>7, <2>1 DEF InIterExact
<1> QED
  BY <1>6, <1>7

(* What a call on one generator keeps, given how it leaves the cursors. *)
LEMMA GeneratorKeeps ==
    ASSUME LegacyInv, NEW g \in Gen, NEW p \in {"suspended", "over"},
           gen' = [gen EXCEPT ![g] = p], InIterExact', inIter' \in Int,
           UNCHANGED <<keys, saved, written, place>>,
           \/ /\ open' = open \cup {g} /\ refs' = refs \cup {g}
           \/ /\ open' = open \ {g} /\ refs' = refs \ {g},
           at' \in [Cursors -> Records \cup {Unset}],
           \A c \in Cursors \ {g} : at'[c] = at[c],
           seen' \in [Gen -> SUBSET Records],
           \A h \in Gen \ {g} : seen'[h] = seen[h],
           GeneratorInv(g)'
    PROVE  LegacyInv'
<1> USE DEF LegacyInv, LegacyTypeOK
<1>1. g # Own /\ Own \in Cursors /\ g \in Cursors
  BY LegacyAssumption DEF Cursors
<1>2. LegacyTypeOK'
  BY <1>1
<1>3. CursorsKnown'
  BY <1>1 DEF CursorsKnown
<1>4. PlaceInv' /\ PlaceKept'
  BY <1>1 DEF PlaceInv, PlaceKept
<1>5. ASSUME NEW h \in Gen, h # g
      PROVE  GeneratorInv(h)'
  <2>1. at'[h] = at[h] /\ seen'[h] = seen[h] /\ gen'[h] = gen[h] /\ (h \in refs' <=> h \in refs)
    BY <1>5 DEF Cursors
  <2> QED
    BY <2>1 DEF GeneratorInv
<1> QED
  BY <1>2, <1>3, <1>4, <1>5

(* A yield gives the record after those given so far. *)
LEMMA YieldInv ==
    ASSUME LegacyInv, NEW g \in Gen, NEW k \in keys, Yield(g, k),
           UNCHANGED <<keys, saved, written, place>>,
           InIterExact', inIter' \in Int, g \notin written,
           seen[g] = {l \in keys : l < k}
    PROVE  LegacyInv'
<1> USE DEF LegacyInv, LegacyTypeOK
<1>1. /\ gen' = [gen EXCEPT ![g] = "suspended"]
      /\ open' = open \cup {g} /\ refs' = refs \cup {g}
      /\ at' = [at EXCEPT ![g] = k] /\ seen' = [seen EXCEPT ![g] = @ \cup {k}]
  BY DEF Yield
<1>2. k \in Records /\ \A l \in Records : l \in Int
  BY LegacyAssumption DEF Records
<1>3. at' \in [Cursors -> Records \cup {Unset}] /\ seen' \in [Gen -> SUBSET Records]
  BY <1>1, <1>2
<1>4. at'[g] = k /\ seen'[g] = {l \in keys : l <= k}
  BY <1>1, <1>2 DEF Cursors
<1>5. GeneratorInv(g)'
  <2>1. gen'[g] = "suspended" /\ g \notin written' /\ at'[g] \in keys' /\ keys' = keys
    BY <1>1, <1>4
  <2> QED
    BY <1>2, <1>4, <2>1 DEF GeneratorInv
<1> QED
  BY <1>1, <1>3, <1>5, GeneratorKeeps

LEMMA FinishInv ==
    ASSUME LegacyInv, NEW g \in Gen, NEW n, NEW outcome, Finish(g, n, outcome),
           UNCHANGED <<keys, saved, written, place>>,
           InIterExact', inIter' \in Int
    PROVE  LegacyInv'
<1> USE DEF LegacyInv, LegacyTypeOK
<1>1. /\ gen' = [gen EXCEPT ![g] = "over"] /\ UNCHANGED <<at, seen>>
      /\ open' = open \ {g} /\ refs' = refs \ {g}
  BY DEF Finish
<1>2. GeneratorInv(g)'
  BY <1>1 DEF GeneratorInv
<1> QED
  BY <1>1, <1>2, GeneratorKeeps

LEMMA StartInv ==
    ASSUME LegacyInv, NEW g \in Gen, Start(g)
    PROVE  LegacyInv'
<1> USE DEF LegacyInv, LegacyTypeOK
<1>1. gen[g] = "new" /\ seen[g] = {} /\ g \notin written
      /\ UNCHANGED <<keys, saved, written, place>>
  BY DEF Start, GeneratorInv
<1>2. CASE up /\ keys # {}
  <2>1. Yield(g, Least(keys)) /\ inIter' = inIter + 1
    BY <1>2 DEF Start
  <2>2. InIterExact' /\ inIter' \in Int
    <3>1. gen' = [gen EXCEPT ![g] = "suspended"]
      BY <2>1 DEF Yield
    <3> QED
      BY <1>1, <2>1, <3>1, Counted
  <2>3. Least(keys) \in keys /\ \A l \in keys : l \in Int /\ Least(keys) <= l
    <3>1. Least(keys) \in keys /\ \A l \in keys : Least(keys) <= l
      BY <1>2, Extremes
    <3>2. \A l \in keys : l \in Int
      BY LegacyAssumption DEF Records
    <3> QED
      BY <3>1, <3>2
  <2>4. seen[g] = {l \in keys : l < Least(keys)}
    BY <1>1, <2>3
  <2> QED
    BY <1>1, <2>1, <2>2, <2>3, <2>4, YieldInv
<1>3. CASE ~(up /\ keys # {})
  <2>1. PICK o : Finish(g, 1, o)
    BY <1>3 DEF Start
  <2>2. InIterExact' /\ inIter' \in Int
    <3>1. gen' = [gen EXCEPT ![g] = "over"] /\ inIter' = inIter
      BY <2>1 DEF Finish
    <3> QED
      BY <1>1, <3>1, Counted
  <2> QED
    BY <1>1, <2>1, <2>2, FinishInv
<1> QED
  BY <1>2, <1>3

LEMMA ItemsReturnInv ==
    ASSUME LegacyInv, NEW g \in Gen, ItemsReturn(g)
    PROVE  LegacyInv'
<1> USE DEF LegacyInv, LegacyTypeOK
<1>1. /\ gen[g] = "new" /\ gen' = [gen EXCEPT ![g] = "over"]
      /\ UNCHANGED <<keys, open, at, saved, refs, inIter, seen, written, place>>
  BY DEF ItemsReturn
<1>2. g \notin refs /\ g \notin open
  <2>1. g \notin refs
    BY <1>1 DEF GeneratorInv
  <2> QED
    BY <2>1, LegacyAssumption DEF CursorsKnown
<1>3. open' = open \ {g} /\ refs' = refs \ {g}
  BY <1>1, <1>2
<1>4. InIterExact' /\ inIter' \in Int
  BY <1>1, Counted
<1>5. GeneratorInv(g)'
  BY <1>1, <1>2 DEF GeneratorInv
<1> QED
  BY <1>1, <1>3, <1>4, <1>5, GeneratorKeeps

(* A generator goes on only with its cursor. *)
LEMMA MovesWithCursor ==
    ASSUME LegacyInv, NEW g \in Gen
    PROVE  g \in open <=> g \in refs
BY LegacyAssumption DEF LegacyInv, CursorsKnown

LEMMA ResumeInv ==
    ASSUME LegacyInv, NEW g \in Gen, Resume(g)
    PROVE  LegacyInv'
<1> USE DEF LegacyInv, LegacyTypeOK
<1>1. gen[g] = "suspended" /\ UNCHANGED <<keys, saved, written, place>>
  BY DEF Resume
<1>2. CASE g \in refs /\ After(at[g]) # {}
  <2> DEFINE k == Least(After(at[g]))
  <2>1. Yield(g, k) /\ UNCHANGED inIter
    BY <1>2, MovesWithCursor DEF Resume
  <2>2. InIterExact' /\ inIter' \in Int
    <3>1. gen' = [gen EXCEPT ![g] = "suspended"]
      BY <2>1 DEF Yield
    <3> QED
      BY <1>1, <2>1, <3>1, Counted
  <2>3. k \in After(at[g]) /\ \A l \in After(at[g]) : k <= l
    BY <1>2, Extremes DEF After
  <2>4. at[g] \in keys /\ seen[g] = {l \in keys : l <= at[g]} /\ g \notin written
    BY <1>2 DEF GeneratorInv
  <2>5. \A l \in keys : l \in Int
    BY LegacyAssumption DEF Records
  <2> HIDE DEF k
  <2>6. k \in keys /\ k > at[g] /\ \A l \in keys : l > at[g] => k <= l
    BY <2>3 DEF After
  <2>7. \A l \in keys : l <= at[g] <=> l < k
    BY <2>4, <2>5, <2>6
  <2>8. seen[g] = {l \in keys : l < k}
    BY <2>4, <2>7
  <2> QED
    BY <1>1, <2>1, <2>2, <2>4, <2>6, <2>8, YieldInv
<1>3. CASE ~(g \in refs /\ After(at[g]) # {})
  <2>1. PICK o : Finish(g, 0, o)
    BY <1>3, MovesWithCursor DEF Resume
  <2>2. InIterExact' /\ inIter' \in Int
    <3>1. gen' = [gen EXCEPT ![g] = "over"] /\ inIter' = inIter - 1
      BY <2>1 DEF Finish
    <3> QED
      BY <1>1, <3>1, Counted
  <2> QED
    BY <1>1, <2>1, <2>2, FinishInv
<1> QED
  BY <1>2, <1>3

LEMMA DropInv ==
    ASSUME LegacyInv, NEW g \in Gen, Drop(g)
    PROVE  LegacyInv'
<1>1. gen[g] = "suspended" /\ UNCHANGED <<keys, saved, written, place>>
      /\ Finish(g, 0, "none")
  BY DEF Drop
<1>2. InIterExact' /\ inIter' \in Int
  <2>1. gen' = [gen EXCEPT ![g] = "over"] /\ inIter' = inIter - 1
    BY <1>1 DEF Finish, LegacyInv, LegacyTypeOK
  <2> QED
    BY <1>1, <2>1, Counted
<1> QED
  BY <1>1, <1>2, FinishInv

(* A call that moves the own cursor; s is the saved key unless the call asks *)
(* for an end of the records.                                                *)
LEMMA RepositionInv ==
    ASSUME LegacyInv, NEW s, NEW k \in keys \cup {Unset}, Reposition(s, k),
           s = saved \/ (s = Unset /\ (k = Unset => keys = {}))
    PROVE  LegacyInv'
<1> USE DEF LegacyInv, LegacyTypeOK, Reposition
<1>1. Own \in Cursors /\ Cursors = Gen \cup {Own}
  BY DEF Cursors
<1>2. s \in Records \cup {Unset} /\ Origin(s) \in Records \cup {Unset}
  BY <1>1 DEF Origin
<1>3. LegacyTypeOK'
  BY <1>1, <1>2
<1>4. CursorsKnown' /\ InIterExact'
  BY DEF CursorsKnown, InIterExact, Suspended
<1>5. PlaceInv'
  BY DEF PlaceInv
<1>6. PlaceKept'
  BY <1>1 DEF PlaceKept, PlaceInv, Origin
<1>7. \A g \in Gen : GeneratorInv(g)'
  <2> SUFFICES ASSUME NEW g \in Gen
               PROVE  GeneratorInv(g)'
    OBVIOUS
  <2>1. at'[g] = at[g]
    BY <1>1, LegacyAssumption
  <2> QED
    BY <2>1 DEF GeneratorInv
<1> QED
  BY <1>3, <1>4, <1>5, <1>6, <1>7

LEMMA OwnCursorInv ==
    ASSUME LegacyInv,
           First \/ Last \/ NextRecord \/ Previous \/ \E k \in Records : SetLocation(k)
    PROVE  LegacyInv'
<1>1. \A S \in SUBSET keys : /\ LeastOf(S) \in keys \cup {Unset}
                             /\ GreatestOf(S) \in keys \cup {Unset}
                             /\ LeastOf(S) = Unset => S = {}
                             /\ GreatestOf(S) = Unset => S = {}
  <2> SUFFICES ASSUME NEW S \in SUBSET keys
               PROVE  /\ LeastOf(S) \in keys \cup {Unset} /\ (LeastOf(S) = Unset => S = {})
                      /\ GreatestOf(S) \in keys \cup {Unset} /\ (GreatestOf(S) = Unset => S = {})
    OBVIOUS
  <2>1. keys \subseteq Records /\ Unset \notin Records
    BY LegacyAssumption DEF LegacyInv, LegacyTypeOK, Records, Unset
  <2>2. CASE S = {}
    BY <2>2 DEF LeastOf, GreatestOf
  <2>3. CASE S # {}
    <3>1. Least(S) \in S /\ Greatest(S) \in S
      BY <2>1, <2>3, Extremes
    <3> QED
      BY <2>1, <2>3, <3>1 DEF LeastOf, GreatestOf
  <2> QED
    BY <2>2, <2>3
<1>2. \A p : After(p) \in SUBSET keys /\ Before(p) \in SUBSET keys
  BY DEF After, Before
<1>3. CASE First
  BY <1>1, <1>3, RepositionInv DEF First
<1>4. CASE Last
  BY <1>1, <1>4, RepositionInv DEF Last
<1>5. CASE NextRecord
  BY <1>1, <1>2, <1>5, RepositionInv DEF NextRecord
<1>6. CASE Previous
  <2>1. PICK S \in SUBSET keys : Reposition(saved, GreatestOf(S))
    BY <1>2, <1>6 DEF Previous
  <2> QED
    BY <1>1, <2>1, RepositionInv
<1>7. CASE \E k \in Records : SetLocation(k)
  <2>1. PICK S \in SUBSET keys : Reposition(saved, LeastOf(S))
    <3>1. \A k : (IF btree THEN After(k - 1) ELSE keys \cap {k}) \in SUBSET keys
      BY <1>2
    <3> QED
      BY <1>7, <3>1 DEF SetLocation
  <2> QED
    BY <1>1, <2>1, RepositionInv
<1> QED
  BY <1>3, <1>4, <1>5, <1>6, <1>7

LEMMA LegacyNextInv == LegacyInv /\ [LegacyNext]_legacyVars => LegacyInv'
<1> SUFFICES ASSUME LegacyInv, [LegacyNext]_legacyVars
             PROVE  LegacyInv'
  OBVIOUS
<1>1. ASSUME NEW k \in Records, SetItem(k) \/ DelItem(k)
      PROVE  LegacyInv'
  <2>1. PICK S \in SUBSET Records : Write(S)
    <3>1. keys \cup {k} \subseteq Records /\ keys \ {k} \subseteq Records
      BY DEF LegacyInv, LegacyTypeOK
    <3> QED
      BY <1>1, <3>1 DEF SetItem, DelItem
  <2> QED
    BY <2>1, WriteInv
<1>2. CASE Close
  BY <1>2, CloseInv
<1>3. CASE First \/ Last \/ NextRecord \/ Previous \/ \E k \in Records : SetLocation(k)
  BY <1>3, OwnCursorInv
<1>4. ASSUME NEW g \in Gen, Start(g) \/ ItemsReturn(g) \/ Resume(g) \/ Drop(g)
      PROVE  LegacyInv'
  BY <1>4, StartInv, ItemsReturnInv, ResumeInv, DropInv
<1>5. CASE UNCHANGED legacyVars
  BY <1>5 DEF legacyVars, LegacyInv, LegacyTypeOK, CursorsKnown, InIterExact, Suspended,
              PlaceKept, PlaceInv, GeneratorInv
<1> QED
  BY <1>1, <1>2, <1>3, <1>4, <1>5 DEF LegacyNext

(* The inductive invariant of the legacy dictionary. *)
THEOREM LegacyInvariantHolds == LegacySpec => []LegacyInv
  BY LegacyInitInv, LegacyNextInv, PTL DEF LegacySpec

(* _closeCursors finds every open cursor of the dictionary, so that no write *)
(* waits for a lock of its own thread.                                       *)
THEOREM CursorsAreKnown == LegacySpec => []CursorsKnown
<1>1. LegacyInv => CursorsKnown
  BY DEF LegacyInv
<1> QED
  BY <1>1, LegacyInvariantHolds, PTL

(* _in_iter counts the generators at a yield, however each of them ends. *)
THEOREM InIterIsExact == LegacySpec => []InIterExact
<1>1. LegacyInv => InIterExact
  BY DEF LegacyInv
<1> QED
  BY <1>1, LegacyInvariantHolds, PTL

(* The own cursor goes on from the record the program moved to, whatever was *)
(* written meanwhile, while that record exists.                              *)
THEOREM PlaceIsKept == LegacySpec => []PlaceKept
<1>1. LegacyInv => PlaceKept
  BY DEF LegacyInv
<1> QED
  BY <1>1, LegacyInvariantHolds, PTL

(* A generator gives the keys in order, and one that stops normally gave all *)
(* of a dictionary nobody wrote to.                                          *)
THEOREM IterationIsComplete == LegacySpec => IterationComplete
<1> DEFINE Gives(g) ==
      /\ seen'[g] # seen[g] => \A k \in seen[g] : at'[g] > k
      /\ gen[g] = "suspended" /\ gen'[g] = "over" /\ result' = "stop"
            => seen[g] = keys /\ g \notin written
<1>1. LegacyInv /\ [LegacyNext]_legacyVars => [\A g \in Gen : Gives(g)]_legacyVars
  <2> SUFFICES ASSUME LegacyInv, LegacyNext, NEW g \in Gen
               PROVE  Gives(g)
    OBVIOUS
  <2> USE DEF LegacyInv, LegacyTypeOK
  <2>1. CASE UNCHANGED <<gen, seen>>
    BY <2>1
  <2>2. ASSUME NEW h \in Gen, Drop(h)
        PROVE  Gives(g)
    BY <2>2 DEF Drop, Finish
  <2>3. ASSUME NEW h \in Gen, Start(h)
        PROVE  Gives(g)
    <3>1. /\ gen[h] = "new" /\ seen[h] = {}
          /\ \A f \in Gen \ {h} : gen'[f] = gen[f] /\ seen'[f] = seen[f]
      BY <2>3 DEF Start, Yield, Finish, GeneratorInv
    <3> QED
      BY <3>1
  <2>5. ASSUME NEW h \in Gen, ItemsReturn(h)
        PROVE  Gives(g)
    <3>1. gen[h] = "new" /\ gen' = [gen EXCEPT ![h] = "over"] /\ seen' = seen
      BY <2>5 DEF ItemsReturn
    <3> QED
      BY <3>1
  <2>4. ASSUME NEW h \in Gen, Resume(h)
        PROVE  Gives(g)
    <3>1. CASE g # h
      <4>1. gen'[g] = gen[g] /\ seen'[g] = seen[g]
        BY <2>4, <3>1 DEF Resume, Yield, Finish
      <4> QED
        BY <4>1
    <3>2. CASE g = h /\ g \in refs /\ After(at[g]) # {}
      <4> DEFINE k == Least(After(at[g]))
      <4>1. Yield(g, k)
        BY <2>4, <3>2, MovesWithCursor DEF Resume
      <4>2. k \in After(at[g])
        BY <3>2, Extremes DEF After
      <4> HIDE DEF k
      <4>3. k > at[g] /\ at[g] \in Int /\ k \in Int /\ \A l \in seen[g] : l \in Int /\ l <= at[g]
        <5>1. \A l \in Records : l \in Int
          BY LegacyAssumption DEF Records
        <5>2. GeneratorInv(g)
          OBVIOUS
        <5>3. at[g] \in keys /\ k \in keys /\ k > at[g] /\ seen[g] \subseteq keys
              /\ \A l \in seen[g] : l <= at[g]
          BY <3>2, <4>2, <5>2 DEF After, GeneratorInv
        <5> QED
          BY <5>1, <5>3
      <4>4. at'[g] = k /\ gen'[g] = "suspended"
        BY <4>1 DEF Yield, Cursors
      <4> QED
        BY <4>3, <4>4
    <3>3. CASE g = h /\ ~(g \in refs /\ After(at[g]) # {})
      <4>1. /\ UNCHANGED seen
            /\ result' = "stop" => g \in refs /\ After(at[g]) = {}
        BY <2>4, <3>3, MovesWithCursor DEF Resume, Finish
      <4>2. g \in refs /\ After(at[g]) = {} => seen[g] = keys /\ g \notin written
        <5>1. \A l \in keys : l \in Int
          BY LegacyAssumption DEF Records
        <5>2. GeneratorInv(g)
          OBVIOUS
        <5> SUFFICES ASSUME g \in refs, After(at[g]) = {}
                     PROVE  seen[g] = keys /\ g \notin written
          OBVIOUS
        <5>3. at[g] \in keys /\ seen[g] = {l \in keys : l <= at[g]} /\ g \notin written
          BY <5>2 DEF GeneratorInv
        <5>4. \A l \in keys : l <= at[g]
          BY <5>1, <5>3 DEF After
        <5> QED
          BY <5>3, <5>4
      <4> QED
        BY <4>1, <4>2
    <3> QED
      BY <3>1, <3>2, <3>3
  <2> QED
    BY <2>1, <2>2, <2>3, <2>4, <2>5
       DEF LegacyNext, SetItem, DelItem, SetLocation, Write, Close, First, Last, NextRecord,
           Previous, Reposition
<1> QED
  BY <1>1, LegacyInvariantHolds, PTL DEF LegacySpec, IterationComplete

=============================================================================
