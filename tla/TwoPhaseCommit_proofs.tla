----------------------- MODULE TwoPhaseCommit_proofs -----------------------
(* Theorems about TwoPhaseCommit, for every set of environments and          *)
(* transactions.                                                             *)
EXTENDS TwoPhaseCommit, FiniteSetTheorems, SequenceTheorems, TLAPS

(* The wrappers that one call of txn_recover has made for a branch can be
   counted. *)
LEMMA CountNat ==
    ASSUME NEW s \in Seq(Gid), NEW g
    PROVE  Cardinality({i \in 1 .. Len(s) : s[i] = g}) \in Nat
<1>1. IsFiniteSet(1 .. Len(s))
  BY FS_Interval
<1>2. IsFiniteSet({i \in 1 .. Len(s) : s[i] = g})
  BY <1>1, FS_Subset
<1> QED
  BY <1>2, FS_CardinalityType

(* A call takes the handle of one wrapper. *)
LEMMA TakeType ==
    ASSUME TypeOK, NEW e \in Env, NEW g \in Gid, TakeOwn(e, g) \/ TakeRec(e, g)
    PROVE  /\ own' \in [Env -> [Gid -> {"none", "plain", "flagged"}]]
           /\ rec' \in [Env -> [Gid -> Nat]]
<1>1. CASE TakeOwn(e, g)
  BY <1>1 DEF TakeOwn, TypeOK
<1>2. CASE TakeRec(e, g)
  <2>1. rec[e][g] - 1 \in Nat
    BY <1>2 DEF TakeRec, TypeOK
  <2> QED
    BY <1>2, <2>1 DEF TakeRec, TypeOK
<1> QED
  BY <1>1, <1>2

LEMMA SetType ==
    ASSUME TypeOK, NEW e \in Env, NEW g \in Gid, NEW s \in Native, SetNative(e, g, s)
    PROVE  nat' \in [Env -> [Gid -> Native]]
BY DEF SetNative, TypeOK

(* Every variable keeps its type. *)
LEMMA TypeStep ==
    ASSUME TypeOK, [Next]_vars
    PROVE  TypeOK'
<1> USE PartsAssumption DEF TypeOK
<1>1. ASSUME NEW g \in Gid, NEW d \in {"commit", "abort"}, Decide(g, d) PROVE TypeOK'
  BY <1>1 DEF Decide, program, recovery
<1>2. ASSUME NEW e \in Env, NEW g \in Gid, Begin(e, g) PROVE TypeOK'
  BY <1>2 DEF Begin, SetNative, Native, recovery
<1>3. ASSUME NEW e \in Env, NEW g \in Gid, NEW ok \in BOOLEAN, Prepare(e, g, ok) PROVE TypeOK'
  <2>1. own' \in [Env -> [Gid -> {"none", "plain", "flagged"}]]
    BY <1>3 DEF Prepare
  <2>2. voted' \in [Gid -> SUBSET Env] /\ failed' \in [Env -> SUBSET Gid]
    <3>1. \/ voted' = [voted EXCEPT ![g] = @ \cup {e}] /\ UNCHANGED failed
          \/ failed' = [failed EXCEPT ![e] = @ \cup {g}] /\ UNCHANGED voted
      BY <1>3, Zenon DEF Prepare
    <3>2. CASE voted' = [voted EXCEPT ![g] = @ \cup {e}] /\ UNCHANGED failed
      BY <3>2
    <3>3. CASE failed' = [failed EXCEPT ![e] = @ \cup {g}] /\ UNCHANGED voted
      BY <3>3
    <3> QED
      BY <3>1, <3>2, <3>3
  <2>3. nat' \in [Env -> [Gid -> Native]]
    BY <1>3, SetType DEF Prepare, Native
  <2>4. mishaps' \in Nat
    BY <1>3 DEF Prepare, Mishap
  <2> QED
    BY <1>3, <2>1, <2>2, <2>3, <2>4 DEF Prepare, recovery
<1>4. ASSUME NEW e \in Env, NEW g \in Gid, Resolve(e, g) PROVE TypeOK'
  <2>1. nat' \in [Env -> [Gid -> Native]]
    BY <1>4, SetType DEF Resolve, Outcome, Native
  <2> QED
    BY <1>4, <2>1, TakeType DEF Resolve, Take, recovery
<1>5. ASSUME NEW e \in Env, NEW g \in Gid, Abort(e, g) PROVE TypeOK'
  <2>1. nat' \in [Env -> [Gid -> Native]]
    BY <1>5, SetType DEF Abort, Native
  <2> QED
    BY <1>5, <2>1, TakeType DEF Abort, recovery
<1>6. ASSUME NEW e \in Env, NEW g \in Gid, Discard(e, g) PROVE TypeOK'
  BY <1>6, TakeType DEF Discard, Mishap, recovery
<1>7. ASSUME NEW e \in Env, NEW g \in Gid, Drop(e, g) PROVE TypeOK'
  <2>1. Left(e, g) \in Native
    BY DEF Left, Native
  <2>2. nat' \in [Env -> [Gid -> Native]]
    BY <1>7, <2>1, SetType DEF Drop
  <2> QED
    BY <1>7, <2>2, TakeType DEF Drop, Mishap, recovery
<1>8. ASSUME NEW e \in Env, RecoverBegin(e) PROVE TypeOK'
  BY <1>8 DEF RecoverBegin, Prepared, Mishap, program
<1>9. ASSUME NEW e \in Env, Batch(e) PROVE TypeOK'
  <2>1. PICK q \in UNION {[1 .. n -> Gid] : n \in 1 .. PREPLIST_LEN} : RecoverBatch(e, q)
    BY <1>9 DEF Batch
  <2>2. q \in Seq(Gid)
    <3>1. PICK n \in 1 .. PREPLIST_LEN : q \in [1 .. n -> Gid]
      OBVIOUS
    <3>2. n \in Nat
      OBVIOUS
    <3> QED
      BY <3>1, <3>2, SeqDef
  <2>3. list[e] \o q \in Seq(Gid)
    BY <2>2
  <2>4. {q[i] : i \in 1 .. Len(q)} \subseteq Gid
    BY <2>2
  <2>5. {q[i] : i \in {k \in 1 .. Len(q) : HasWrapper(e, q[k])}} \subseteq Gid
    BY <2>4
  <2>6. list' \in [Env -> Seq(Gid)]
    BY <2>1, <2>3 DEF RecoverBatch
  <2>7. collected' \in [Env -> SUBSET Gid]
    BY <2>1, <2>4 DEF RecoverBatch, Seen
  <2>8. twins' \in [Env -> SUBSET Gid]
    BY <2>1, <2>5 DEF RecoverBatch
  <2> QED
    BY <2>1, <2>6, <2>7, <2>8 DEF RecoverBatch, NextFlags
<1>10. ASSUME NEW e \in Env, RecoverReturn(e) PROVE TypeOK'
  <2>1. \A g \in Gid : Cardinality({i \in 1 .. Len(list[e]) : list[e][i] = g}) \in Nat
    <3>1. list[e] \in Seq(Gid)
      OBVIOUS
    <3> QED
      BY <3>1, CountNat
  <2> DEFINE found(g) == Cardinality({i \in 1 .. Len(list[e]) : list[e][i] = g})
             row == [g \in Gid |-> rec[e][g] + found(g)]
  <2>2. rec' = [rec EXCEPT ![e] = row]
    BY <1>10 DEF RecoverReturn
  <2>3. \A g \in Gid : found(g) \in Nat
    BY <2>1
  <2>4. row \in [Gid -> Nat]
    <3> HIDE DEF found
    <3> QED
      BY <2>3
  <2>5. rec' \in [Env -> [Gid -> Nat]]
    <3> HIDE DEF row
    <3> QED
      BY <2>2, <2>4
  <2> QED
    BY <1>10, <2>5 DEF RecoverReturn, EndLoop
<1>11. ASSUME NEW e \in Env, RecoverFails(e) PROVE TypeOK'
  BY <1>11 DEF RecoverFails, EndLoop, Mishap, program
<1>12. ASSUME NEW e \in Env, Flush(e) PROVE TypeOK'
  BY <1>12 DEF Flush, program, recovery
<1>13. ASSUME NEW e \in Env, Close(e) PROVE TypeOK'
  <2>1. \A g \in Gid : Ended(Left(e, g)) \in Native
    BY DEF Left, Ended, Native
  <2>2. nat' \in [Env -> [Gid -> Native]]
    BY <1>13, <2>1 DEF Close
  <2> QED
    BY <1>13, <2>2 DEF Close, Vanish, EndLoop, Mishap
<1>14. ASSUME NEW e \in Env, NEW undone \in SUBSET Gid, Crash(e, undone) PROVE TypeOK'
  <2>1. \A g \in Gid : Ended(nat[e][g]) \in Native
    BY DEF Ended, Native
  <2>2. nat' \in [Env -> [Gid -> Native]]
    BY <1>14, <2>1 DEF Crash, Native
  <2> QED
    BY <1>14, <2>2 DEF Crash, Vanish, EndLoop, Mishap
<1>15. ASSUME NEW e \in Env, Open(e) PROVE TypeOK'
  BY <1>15 DEF Open, program, recovery
<1>16. CASE UNCHANGED vars
  BY <1>16 DEF vars, program, recovery
<1> HIDE DEF TypeOK
<1> QED
  BY <1>1, <1>2, <1>3, <1>4, <1>5, <1>6, <1>7, <1>8, <1>9, <1>10, <1>11, <1>12,
     <1>13, <1>14, <1>15, <1>16 DEF Next

(* The invariant holds at the start and every step keeps it. *)
LEMMA InitInv ==
    ASSUME Init
    PROVE  IInv
<1>1. TypeOK
  BY PartsAssumption DEF Init, TypeOK, Native
<1> QED
  BY <1>1, PartsAssumption DEF Init, IInv, NoOrphan, Sound

LEMMA SoundStep ==
    ASSUME IInv, TypeOK', [Next]_vars
    PROVE  /\ NoOrphan'
           /\ \A e \in Env, g \in Gid : Sound(e, g)'
<1> DEFINE P == NoOrphan' /\ \A e \in Env, g \in Gid : Sound(e, g)'
<1> SUFFICES P
  OBVIOUS
<1> USE PartsAssumption DEF IInv, TypeOK, NoOrphan, Sound
<1>1. ASSUME NEW g \in Gid, NEW d \in {"commit", "abort"}, Decide(g, d) PROVE P
  BY <1>1 DEF Decide, program
<1>2. ASSUME NEW e \in Env, NEW g \in Gid, Begin(e, g) PROVE P
  BY <1>2 DEF Begin, SetNative, Branches
<1>3. ASSUME NEW e \in Env, NEW g \in Gid, NEW ok \in BOOLEAN, Prepare(e, g, ok) PROVE P
  BY SMTT(20), <1>3 DEF Prepare, SetNative
<1>4. ASSUME NEW e \in Env, NEW g \in Gid, Resolve(e, g) PROVE P
  BY SMTT(30), <1>4 DEF Resolve, Outcome, Take, TakeOwn, TakeRec, SetNative
<1>5. ASSUME NEW e \in Env, NEW g \in Gid, Abort(e, g) PROVE P
  BY <1>5 DEF Abort, TakeOwn, SetNative
<1>6. ASSUME NEW e \in Env, NEW g \in Gid, Discard(e, g) PROVE P
  BY <1>6 DEF Discard, TakeRec
<1>7. ASSUME NEW e \in Env, NEW g \in Gid, Drop(e, g) PROVE P
  <2>1. CASE TakeRec(e, g) /\ UNCHANGED nat
    BY <1>7, <2>1 DEF Drop, TakeRec
  <2>2. CASE TakeOwn(e, g) /\ SetNative(e, g, Left(e, g))
    <3>1. CASE own[e][g] = "plain"
      BY <1>7, <2>2, <3>1 DEF Drop, Left, TakeOwn, SetNative
    <3>2. CASE own[e][g] # "plain"
      BY <1>7, <2>2, <3>2 DEF Drop, Left, TakeOwn, SetNative
    <3> QED
      BY <3>1, <3>2
  <2> QED
    BY <1>7, <2>1, <2>2 DEF Drop
<1>8. ASSUME NEW e \in Env, RecoverBegin(e) PROVE P
  BY <1>8 DEF RecoverBegin, program
<1>9. ASSUME NEW e \in Env, Batch(e) PROVE P
  BY <1>9 DEF Batch, RecoverBatch
<1>10. ASSUME NEW e \in Env, RecoverReturn(e) PROVE P
  BY <1>10 DEF RecoverReturn
<1>11. ASSUME NEW e \in Env, RecoverFails(e) PROVE P
  BY <1>11 DEF RecoverFails, program
<1>12. ASSUME NEW e \in Env, Flush(e) PROVE P
  BY <1>12 DEF Flush, program
<1>13. ASSUME NEW e \in Env, Close(e) PROVE P
  BY <1>13 DEF Close, Vanish, Left, Ended
<1>14. ASSUME NEW e \in Env, NEW undone \in SUBSET Gid, Crash(e, undone) PROVE P
  BY <1>14 DEF Crash, Vanish, Ended
<1>15. ASSUME NEW e \in Env, Open(e) PROVE P
  BY <1>15 DEF Open, program
<1>16. CASE UNCHANGED vars
  BY <1>16 DEF vars, program
<1> HIDE DEF P, IInv, TypeOK, NoOrphan, Sound
<1> QED
  BY <1>1, <1>2, <1>3, <1>4, <1>5, <1>6, <1>7, <1>8, <1>9, <1>10, <1>11, <1>12,
     <1>13, <1>14, <1>15, <1>16 DEF Next

(* The wrappers, native transactions, votes and decisions always agree in the
   way that Sound says, and every variable has its type. *)
THEOREM InvariantHolds == Spec => []IInv
<1>1. Init => IInv
  BY InitInv
<1>2. IInv /\ [Next]_vars => IInv'
  <2> SUFFICES ASSUME IInv, [Next]_vars PROVE IInv'
    OBVIOUS
  <2>1. TypeOK'
    BY TypeStep DEF IInv
  <2>2. NoOrphan' /\ \A e \in Env, g \in Gid : Sound(e, g)'
    BY <2>1, SoundStep
  <2> QED
    BY <2>1, <2>2 DEF IInv
<1> QED
  BY <1>1, <1>2, PTL DEF Spec

(* No transaction that is not prepared is left without a wrapper, unless its
   prepare failed. *)
THEOREM NeverOrphan == Spec => []NoOrphan
BY InvariantHolds, PTL DEF IInv

(* Whoever moves only the branches of one environment, each where it may go,
   makes a step of the abstract specification. *)
LEMMA OneMoves ==
    ASSUME TypeOK, TypeOK', NEW e \in Env, UNCHANGED decision,
           \A f \in Env : f # e => nat'[f] = nat[f],
           \A g \in Gid : e \in Parts[g] => Working(nat'[e][g]) \in Atomic!Moves(g, e)
    PROVE  [Atomic!Next]_<<decision, Branch>>
<1>1. \A g \in Gid : \A f \in Parts[g] : f \in Env
  BY PartsAssumption
<1>2. \A g \in Gid : \A f \in Parts[g] : f # e => Working(nat'[f][g]) = Working(nat[f][g])
  BY <1>1 DEF Working
<1>3. \A f \in Env, g \in Gid : Working(nat'[f][g]) \in Atomic!BranchState
  BY DEF TypeOK, Native, Working, Atomic!BranchState
<1>4. /\ Branch = [g \in Gid |-> [f \in Parts[g] |-> Working(nat[f][g])]]
      /\ Branch' = [g \in Gid |-> [f \in Parts[g] |-> Working(nat'[f][g])]]
  BY DEF Branch, Working
<1>5. CASE \E g \in Gid : e \in Parts[g]
  <2>1. e \in UNION {Parts[g] : g \in Gid}
    BY <1>5
  <2>2. \A g \in Gid : Branch'[g] \in [Parts[g] -> Atomic!BranchState]
    BY <1>1, <1>3, <1>4
  <2>3. ASSUME NEW g \in Gid, NEW f \in Parts[g]
        PROVE  Branch'[g][f] \in IF f = e THEN Atomic!Moves(g, f) ELSE {Branch[g][f]}
    <3>1. Branch'[g][f] = Working(nat'[f][g]) /\ Branch[g][f] = Working(nat[f][g])
      BY <1>4
    <3> QED
      BY <3>1, <1>2
  <2>4. Atomic!Move(e)
    BY <2>2, <2>3, <1>4 DEF Atomic!Move
  <2> QED
    BY <2>1, <2>4 DEF Atomic!Next
<1>6. CASE \A g \in Gid : e \notin Parts[g]
  <2>1. \A g \in Gid : \A f \in Parts[g] : Working(nat'[f][g]) = Working(nat[f][g])
    BY <1>2, <1>6
  <2>2. \A g \in Gid : [f \in Parts[g] |-> Working(nat'[f][g])] = [f \in Parts[g] |-> Working(nat[f][g])]
    BY <2>1
  <2>3. UNCHANGED Branch
    BY <2>2, <1>4
  <2> QED
    BY <2>3
<1> QED
  BY <1>5, <1>6

(* Where a branch may go. *)
LEMMA MayGo ==
    ASSUME NEW e \in Env, NEW g \in Gid, e \in Parts[g], NEW s,
           \/ s = nat[e][g]
           \/ nat[e][g] \in {"idle", "active"} /\ s \in {"idle", "active", "prepared", "aborted"}
           \/ nat[e][g] = "prepared" /\ decision[g] = "commit" /\ s = "committed"
           \/ nat[e][g] = "prepared" /\ decision[g] = "abort" /\ s = "aborted"
           \/ nat[e][g] = "committed" /\ s = "prepared"
           \/ nat[e][g] = "aborted" /\ decision[g] = "abort" /\ s = "prepared",
           nat[e][g] \in Native
    PROVE  Working(s) \in Atomic!Moves(g, e)
<1>1. Branch[g][e] = Working(nat[e][g])
  BY DEF Branch
<1> QED
  BY <1>1 DEF Working, Native, Atomic!Moves

(* What one environment does to the transaction of one branch. *)
LEMMA OneBranch ==
    ASSUME TypeOK, TypeOK', NEW e \in Env, NEW g \in Gid, NEW s, UNCHANGED decision,
           SetNative(e, g, s), e \in Parts[g] => Working(s) \in Atomic!Moves(g, e)
    PROVE  [Atomic!Next]_<<decision, Branch>>
<1>1. \A f \in Env : f # e => nat'[f] = nat[f]
  BY DEF SetNative, TypeOK
<1>2. nat'[e][g] = s /\ \A h \in Gid : h # g => nat'[e][h] = nat[e][h]
  BY DEF SetNative, TypeOK
<1>3. ASSUME NEW h \in Gid, e \in Parts[h] PROVE Working(nat'[e][h]) \in Atomic!Moves(h, e)
  <2>1. CASE h = g
    BY <1>2, <1>3, <2>1
  <2>2. CASE h # g
    BY <1>2, <1>3, <2>2, MayGo DEF TypeOK
  <2> QED
    BY <2>1, <2>2
<1> QED
  BY <1>1, <1>3, OneMoves

LEMMA RefineInit ==
    ASSUME Init
    PROVE  Atomic!Init
<1>1. \A g \in Gid : \A e \in Parts[g] : nat[e][g] = "idle"
  BY PartsAssumption DEF Init
<1> QED
  BY <1>1 DEF Init, Branch, Working, Atomic!Init

(* Every step is a step of the abstract specification, or changes nothing that
   it sees. *)
LEMMA RefineStep ==
    ASSUME IInv, TypeOK', [Next]_vars
    PROVE  [Atomic!Next]_<<decision, Branch>>
<1> DEFINE P == [Atomic!Next]_<<decision, Branch>>
<1> SUFFICES P
  OBVIOUS
<1>0. TypeOK /\ \A e \in Env, g \in Gid : Sound(e, g)
  BY DEF IInv
<1>1. ASSUME NEW g \in Gid, NEW d \in {"commit", "abort"}, Decide(g, d) PROVE P
  <2>1. UNCHANGED Branch
    BY <1>1 DEF Decide, Branch, Working
  <2>2. ASSUME d = "commit", NEW e \in Parts[g] PROVE Branch[g][e] = "prepared"
    <3>1. e \in Env /\ e \in voted[g] /\ decision[g] = "none"
      BY <1>1, <2>2, PartsAssumption DEF Decide
    <3>2. nat[e][g] = "prepared"
      BY <3>1, <1>0 DEF Sound
    <3> QED
      BY <3>2 DEF Branch, Working
  <2> QED
    BY <1>1, <2>1, <2>2 DEF Decide, Atomic!Next, Atomic!Settle
<1>2. ASSUME NEW e \in Env, NEW g \in Gid, Begin(e, g) PROVE P
  <2>1. e \in Parts[g] => Working("active") \in Atomic!Moves(g, e)
    BY <1>0, <1>2, MayGo DEF Begin, TypeOK
  <2> QED
    BY <1>0, <1>2, <2>1, OneBranch DEF Begin
<1>3. ASSUME NEW e \in Env, NEW g \in Gid, NEW ok \in BOOLEAN, Prepare(e, g, ok) PROVE P
  <2>1. CASE SetNative(e, g, "prepared")
    <3>1. e \in Parts[g] => Working("prepared") \in Atomic!Moves(g, e)
      BY <1>0, <1>3, MayGo DEF Prepare, TypeOK
    <3> QED
      BY <1>0, <1>3, <2>1, <3>1, OneBranch DEF Prepare
  <2>2. CASE UNCHANGED nat
    BY <1>3, <2>2 DEF Prepare, Branch, Working
  <2> QED
    BY <1>3, <2>1, <2>2 DEF Prepare
<1>4. ASSUME NEW e \in Env, NEW g \in Gid, Resolve(e, g) PROVE P
  <2>1. e \in Parts[g] => Working(Outcome(e, g)) \in Atomic!Moves(g, e)
    BY <1>0, <1>4, MayGo DEF Resolve, Outcome, TypeOK
  <2> QED
    BY <1>0, <1>4, <2>1, OneBranch DEF Resolve, Outcome
<1>5. ASSUME NEW e \in Env, NEW g \in Gid, Abort(e, g) PROVE P
  <2>1. e \in Parts[g] => Working("aborted") \in Atomic!Moves(g, e)
    BY <1>0, <1>5, MayGo DEF Abort, TypeOK
  <2> QED
    BY <1>0, <1>5, <2>1, OneBranch DEF Abort
<1>6. ASSUME NEW e \in Env, NEW g \in Gid, Drop(e, g) PROVE P
  <2>1. CASE UNCHANGED nat
    BY <1>6, <2>1 DEF Drop, Branch, Working
  <2>2. CASE SetNative(e, g, Left(e, g))
    <3>1. Left(e, g) = nat[e][g] \/ (nat[e][g] = "active" /\ Left(e, g) = "aborted")
      BY <1>0 DEF Left, Sound
    <3>2. e \in Parts[g] => Working(Left(e, g)) \in Atomic!Moves(g, e)
      BY <1>0, <3>1, MayGo DEF TypeOK
    <3> QED
      BY <1>0, <1>6, <2>2, <3>2, OneBranch DEF Drop
  <2> QED
    BY <1>6, <2>1, <2>2 DEF Drop
<1>7. ASSUME NEW e \in Env, Close(e) PROVE P
  <2>1. \A f \in Env : f # e => nat'[f] = nat[f]
    BY <1>0, <1>7 DEF Close, TypeOK
  <2>2. ASSUME NEW g \in Gid, e \in Parts[g]
        PROVE  Working(nat'[e][g]) \in Atomic!Moves(g, e)
    <3>1. nat'[e][g] = Ended(Left(e, g))
      BY <1>0, <1>7 DEF Close, TypeOK
    <3>2. nat'[e][g] = nat[e][g] \/ (nat[e][g] = "active" /\ nat'[e][g] = "aborted")
      BY <1>0, <3>1 DEF Ended, Left, Sound
    <3> QED
      BY <1>0, <2>2, <3>2, MayGo DEF TypeOK
  <2> QED
    BY <1>0, <1>7, <2>1, <2>2, OneMoves DEF Close, Vanish
<1>8. ASSUME NEW e \in Env, NEW undone \in SUBSET Gid, Crash(e, undone) PROVE P
  <2>1. \A f \in Env : f # e => nat'[f] = nat[f]
    BY <1>0, <1>8 DEF Crash, TypeOK
  <2>2. ASSUME NEW g \in Gid, e \in Parts[g]
        PROVE  Working(nat'[e][g]) \in Atomic!Moves(g, e)
    <3>1. CASE g \in undone
      <4>1. nat'[e][g] = "prepared" /\ g \in unflushed[e]
        BY <1>0, <1>8, <3>1 DEF Crash, TypeOK
      <4>2. nat[e][g] = "committed" \/ (nat[e][g] = "aborted" /\ decision[g] = "abort")
        BY <1>0, <4>1 DEF Sound
      <4> QED
        BY <1>0, <2>2, <4>1, <4>2, MayGo DEF TypeOK
    <3>2. CASE g \notin undone
      <4>1. nat'[e][g] = Ended(nat[e][g])
        BY <1>0, <1>8, <3>2 DEF Crash, TypeOK
      <4>2. nat'[e][g] = nat[e][g] \/ (nat[e][g] = "active" /\ nat'[e][g] = "aborted")
        BY <4>1 DEF Ended
      <4> QED
        BY <1>0, <2>2, <4>2, MayGo DEF TypeOK
    <3> QED
      BY <3>1, <3>2
  <2> QED
    BY <1>0, <1>8, <2>1, <2>2, OneMoves DEF Crash, Vanish
<1>9. CASE UNCHANGED <<decision, nat>>
  BY <1>9 DEF Branch, Working
<1>10. ASSUME NEW e \in Env, NEW g \in Gid, Discard(e, g) PROVE P
  BY <1>9, <1>10 DEF Discard
<1>11. ASSUME NEW e \in Env, RecoverBegin(e) \/ Batch(e) \/ RecoverReturn(e) \/ RecoverFails(e)
       PROVE  P
  BY <1>9, <1>11 DEF RecoverBegin, Batch, RecoverBatch, RecoverReturn, RecoverFails
<1>12. ASSUME NEW e \in Env, Flush(e) \/ Open(e) PROVE P
  BY <1>9, <1>12 DEF Flush, Open
<1>13. CASE UNCHANGED vars
  BY <1>9, <1>13 DEF vars
<1> HIDE DEF P
<1> QED
  BY <1>1, <1>2, <1>3, <1>4, <1>5, <1>6, <1>7, <1>8, <1>10, <1>11, <1>12, <1>13 DEF Next

(* The environments, their wrappers and txn_recover implement AtomicCommit:
   whatever is dropped, closed or crashes, a prepared branch follows the
   decision on its transaction. *)
THEOREM Refinement == Spec => ImplementsAtomicCommit
<1>1. Init => Atomic!Init
  BY RefineInit
<1>2. IInv /\ IInv' /\ [Next]_vars => [Atomic!Next]_<<decision, Branch>>
  BY RefineStep DEF IInv
<1> QED
  BY <1>1, <1>2, InvariantHolds, PTL DEF Spec, ImplementsAtomicCommit, Atomic!Spec

(* No transaction is committed in one environment and aborted in another. *)
THEOREM AllOrNothing == Spec => []Atomic!Consistent
<1>1. ASSUME IInv PROVE Atomic!Consistent
  <2> SUFFICES ASSUME NEW g \in Gid, NEW e \in Parts[g], NEW f \in Parts[g],
                      nat[e][g] = "committed", nat[f][g] = "aborted"
               PROVE  FALSE
    BY DEF Atomic!Consistent, Branch, Working
  <2>1. e \in Env /\ f \in Env
    BY PartsAssumption
  <2>2. Sound(e, g) /\ Sound(f, g)
    BY <1>1, <2>1 DEF IInv
  <2>3. decision[g] = "commit" /\ f \in voted[g]
    BY <2>2 DEF Sound
  <2> QED
    BY <2>2, <2>3 DEF Sound
<1> QED
  BY <1>1, InvariantHolds, PTL

-----------------------------------------------------------------------------
(* txn_recover and the wrappers it makes.                                    *)

(* A list as long as its set of elements has each of them once. *)
LEMMA OnceEach ==
    ASSUME NEW s \in Seq(Gid)
    PROVE  Len(s) = Cardinality({s[i] : i \in 1 .. Len(s)})
              <=> \A i, j \in 1 .. Len(s) : s[i] = s[j] => i = j
<1> DEFINE S == 1 .. Len(s)
           T == {s[i] : i \in S}
<1>1. IsFiniteSet(S) /\ Cardinality(S) = Len(s)
  <2>1. Len(s) \in Nat
    OBVIOUS
  <2>2. IsFiniteSet(1 .. Len(s)) /\ Cardinality(1 .. Len(s)) = IF 1 > Len(s) THEN 0 ELSE Len(s) - 1 + 1
    BY <2>1, FS_Interval
  <2> QED
    BY <2>1, <2>2
<1>2. s \in [S -> T] /\ \A x \in T : \E i \in S : s[i] = x
  OBVIOUS
<1> HIDE DEF S, T
<1>3. s \in Surjection(S, T)
  BY <1>2 DEF Surjection
<1>4. Cardinality(T) = Cardinality(S) <=> s \in Injection(S, T)
  BY <1>1, <1>3, FS_Surjection
<1>5. s \in Injection(S, T) <=> \A i, j \in S : s[i] = s[j] => i = j
  <2>1. DOMAIN s = S
    BY <1>2
  <2>2. IsInjective(s) <=> \A i, j \in S : s[i] = s[j] => i = j
    BY <2>1 DEF IsInjective
  <2> QED
    BY <1>2, <2>2 DEF Injection
<1> QED
  BY <1>1, <1>4, <1>5 DEF S, T

(* How often a branch is in a list that has each branch once. *)
LEMMA CountOnce ==
    ASSUME NEW s \in Seq(Gid), NEW g, \A i, j \in 1 .. Len(s) : s[i] = s[j] => i = j
    PROVE  Cardinality({i \in 1 .. Len(s) : s[i] = g}) =
              IF g \in {s[i] : i \in 1 .. Len(s)} THEN 1 ELSE 0
<1>1. CASE \E i \in 1 .. Len(s) : s[i] = g
  <2>1. PICK i \in 1 .. Len(s) : s[i] = g
    BY <1>1
  <2>2. {j \in 1 .. Len(s) : s[j] = g} = {i}
    BY <2>1
  <2> QED
    BY <2>1, <2>2, FS_Singleton
<1>2. CASE \A i \in 1 .. Len(s) : s[i] # g
  <2>1. {j \in 1 .. Len(s) : s[j] = g} = {}
    BY <1>2
  <2>2. g \notin {s[i] : i \in 1 .. Len(s)}
    BY <1>2
  <2> QED
    BY <2>1, <2>2, FS_EmptySet
<1> QED
  BY <1>1, <1>2

(* A call of txn_recover that other threads' calls leave alone. *)
LEMMA ListKept ==
    ASSUME RInv, UNCHANGED <<flags, list, collected>>
    PROVE  \A e \in Env : ListInv(e)' /\ Listed(e)' = Listed(e)
BY DEF RInv, ListInv, Listed

LEMMA InitRInv ==
    ASSUME Init
    PROVE  RInv
BY DEF Init, RInv, ListInv, WrapperInv, HasWrapper, Listed

(* A call of the program on one branch. *)
LEMMA OneWrapper ==
    ASSUME IInv, RInv, UNCHANGED <<flags, list, collected, twins>>, NEW e \in Env, NEW g \in Gid,
           \A f \in Env, h \in Gid : f # e \/ h # g => /\ nat'[f][h] = nat[f][h]
                                                       /\ own'[f][h] = own[f][h]
                                                    /\ rec'[f][h] = rec[f][h],
           nat'[e][g] = "idle" => nat[e][g] = "idle" /\ own'[e][g] = own[e][g],
           \/ nat'[e][g] = nat[e][g] \/ nat'[e][g] \notin {"committed", "aborted"}
           \/ own'[e][g] = "none" /\ own[e][g] # "none" /\ rec'[e][g] = rec[e][g]
           \/ own'[e][g] = own[e][g] /\ rec[e][g] > 0 /\ rec'[e][g] = rec[e][g] - 1,
           \/ own'[e][g] = "none" /\ rec'[e][g] = rec[e][g]
           \/ own[e][g] # "none" /\ rec'[e][g] = rec[e][g]
           \/ own'[e][g] = own[e][g] /\ rec[e][g] > 0 /\ rec'[e][g] = rec[e][g] - 1
           \/ nat[e][g] = "idle" /\ rec'[e][g] = rec[e][g]
    PROVE  RInv'
<1>1. \A f \in Env : ListInv(f)' /\ Listed(f)' = Listed(f)
  BY ListKept
<1>2. ASSUME NEW f \in Env, NEW h \in Gid, f # e \/ h # g PROVE WrapperInv(f, h)'
  BY <1>1, <1>2 DEF RInv, WrapperInv, HasWrapper
<1>3. rec[e][g] \in Nat /\ WrapperInv(e, g) /\ Listed(e)' = Listed(e) /\ twins' = twins
  BY <1>1 DEF IInv, TypeOK, RInv
<1>4. WrapperInv(e, g)'
  BY <1>3 DEF WrapperInv, HasWrapper
<1> QED
  BY <1>1, <1>2, <1>4 DEF RInv

LEMMA ProgramStep ==
    ASSUME IInv, RInv, NEW e \in Env, NEW g \in Gid,
           Begin(e, g) \/ (\E ok \in BOOLEAN : Prepare(e, g, ok)) \/ Resolve(e, g)
              \/ Abort(e, g) \/ Discard(e, g) \/ Drop(e, g)
    PROVE  RInv'
<1>1. /\ nat \in [Env -> [Gid -> Native]] /\ rec \in [Env -> [Gid -> Nat]]
      /\ own \in [Env -> [Gid -> {"none", "plain", "flagged"}]] /\ Sound(e, g)
  BY DEF IInv, TypeOK
<1>2. UNCHANGED <<flags, list, collected, twins>>
  BY DEF Begin, Prepare, Resolve, Abort, Discard, Drop, recovery
<1>3. ASSUME NEW s, SetNative(e, g, s)
      PROVE  nat'[e][g] = s /\ \A f \in Env, h \in Gid : f # e \/ h # g => nat'[f][h] = nat[f][h]
  BY <1>1, <1>3 DEF SetNative
<1>4. ASSUME NEW s, own' = [own EXCEPT ![e][g] = s]
      PROVE  own'[e][g] = s /\ \A f \in Env, h \in Gid : f # e \/ h # g => own'[f][h] = own[f][h]
  BY <1>1, <1>4
<1>5. ASSUME TakeOwn(e, g)
      PROVE  /\ own[e][g] # "none" /\ own'[e][g] = "none" /\ UNCHANGED rec
             /\ \A f \in Env, h \in Gid : f # e \/ h # g => own'[f][h] = own[f][h]
  BY <1>4, <1>5 DEF TakeOwn
<1>6. ASSUME TakeRec(e, g)
      PROVE  /\ UNCHANGED own /\ rec[e][g] > 0 /\ rec'[e][g] = rec[e][g] - 1
             /\ \A f \in Env, h \in Gid : f # e \/ h # g => rec'[f][h] = rec[f][h]
  BY <1>1, <1>6 DEF TakeRec
<1>7. CASE Begin(e, g)
  BY <1>2, <1>3, <1>4, <1>7, OneWrapper DEF Begin
<1>8. ASSUME NEW ok \in BOOLEAN, Prepare(e, g, ok) PROVE RInv'
  <2>1. nat[e][g] = "active" /\ own[e][g] # "none" /\ UNCHANGED rec
    BY <1>8 DEF Prepare
  <2>2. own'[e][g] = "flagged" /\ \A f \in Env, h \in Gid : f # e \/ h # g => own'[f][h] = own[f][h]
    BY <1>4, <1>8 DEF Prepare
  <2>3. /\ nat'[e][g] = "prepared" \/ nat'[e][g] = nat[e][g]
        /\ \A f \in Env, h \in Gid : f # e \/ h # g => nat'[f][h] = nat[f][h]
    BY <1>3, <1>8 DEF Prepare
  <2> QED
    BY <1>2, <2>1, <2>2, <2>3, OneWrapper
<1>9. CASE Resolve(e, g)
  <2>1. nat'[e][g] \in {"committed", "aborted"}
    BY <1>3, <1>9 DEF Resolve, Outcome
  <2>2. \A f \in Env, h \in Gid : f # e \/ h # g => nat'[f][h] = nat[f][h]
    BY <1>3, <1>9 DEF Resolve
  <2>3. TakeOwn(e, g) \/ TakeRec(e, g)
    BY <1>9 DEF Resolve, Take
  <2> QED
    BY <1>2, <1>5, <1>6, <2>1, <2>2, <2>3, OneWrapper
<1>10. CASE Abort(e, g)
  <2>1. /\ nat'[e][g] = "aborted" /\ TakeOwn(e, g)
        /\ \A f \in Env, h \in Gid : f # e \/ h # g => nat'[f][h] = nat[f][h]
    BY <1>3, <1>10 DEF Abort
  <2> QED
    BY <1>2, <1>5, <2>1, OneWrapper
<1>11. CASE Discard(e, g)
  <2>1. TakeRec(e, g) /\ UNCHANGED nat /\ nat[e][g] = "prepared"
    BY <1>11 DEF Discard
  <2> QED
    BY <1>2, <1>6, <2>1, OneWrapper
<1>12. CASE Drop(e, g)
  <2>0. WrapperInv(e, g)
    BY DEF RInv
  <2>1. CASE TakeRec(e, g) /\ UNCHANGED nat
    <3>1. nat[e][g] # "idle"
      BY <2>0, <2>1, <1>6 DEF WrapperInv, HasWrapper
    <3> QED
      BY <1>2, <1>6, <2>1, <3>1, OneWrapper
  <2>2. CASE TakeOwn(e, g) /\ SetNative(e, g, Left(e, g))
    <3>1. Left(e, g) = "aborted" \/ Left(e, g) = nat[e][g]
      BY DEF Left
    <3>2. nat[e][g] # "idle"
      BY <2>0, <2>2, <1>5 DEF WrapperInv, HasWrapper
    <3> QED
      BY <1>2, <1>3, <1>5, <2>2, <3>1, <3>2, OneWrapper
  <2> QED
    BY <1>12, <2>1, <2>2 DEF Drop
<1> QED
  BY <1>7, <1>8, <1>9, <1>10, <1>11, <1>12

(* What is appended to a list of which none was listed before. *)
LEMMA Appended ==
    ASSUME NEW s \in Seq(Gid), NEW q \in Seq(Gid),
           \A i, j \in 1 .. Len(s) : s[i] = s[j] => i = j,
           \A i, j \in 1 .. Len(q) : q[i] = q[j] => i = j,
           \A i \in 1 .. Len(s), j \in 1 .. Len(q) : s[i] # q[j]
    PROVE  /\ \A i, j \in 1 .. Len(s \o q) : (s \o q)[i] = (s \o q)[j] => i = j
           /\ {(s \o q)[i] : i \in 1 .. Len(s \o q)} =
                 {s[i] : i \in 1 .. Len(s)} \cup {q[i] : i \in 1 .. Len(q)}
<1> DEFINE r == s \o q
<1>1. Len(s) \in Nat /\ Len(q) \in Nat /\ Len(r) = Len(s) + Len(q)
  OBVIOUS
<1>2. \A i \in 1 .. Len(r) : r[i] = IF i <= Len(s) THEN s[i] ELSE q[i - Len(s)]
  OBVIOUS
<1> HIDE DEF r
<1>3. \A i \in 1 .. Len(r) : (i <= Len(s) /\ i \in 1 .. Len(s)) \/ i - Len(s) \in 1 .. Len(q)
  BY <1>1
<1>4. ASSUME NEW i \in 1 .. Len(r), NEW j \in 1 .. Len(r), r[i] = r[j] PROVE i = j
  <2>1. CASE i <= Len(s) /\ j <= Len(s)
    BY <1>1, <1>2, <1>3, <1>4, <2>1
  <2>2. CASE ~(i <= Len(s)) /\ ~(j <= Len(s))
    <3>1. i - Len(s) \in 1 .. Len(q) /\ j - Len(s) \in 1 .. Len(q)
      BY <1>1, <1>3, <2>2
    <3>2. i - Len(s) = j - Len(s)
      BY <1>2, <1>4, <2>2, <3>1
    <3> QED
      BY <1>1, <3>2
  <2>3. CASE i <= Len(s) /\ ~(j <= Len(s))
    BY <1>1, <1>2, <1>3, <1>4, <2>3
  <2>4. CASE ~(i <= Len(s)) /\ j <= Len(s)
    BY <1>1, <1>2, <1>3, <1>4, <2>4
  <2> QED
    BY <2>1, <2>2, <2>3, <2>4
<1>5. {r[i] : i \in 1 .. Len(r)} \subseteq {s[i] : i \in 1 .. Len(s)} \cup {q[i] : i \in 1 .. Len(q)}
  BY <1>1, <1>2, <1>3
<1>6. ASSUME NEW i \in 1 .. Len(s) PROVE s[i] \in {r[j] : j \in 1 .. Len(r)}
  BY <1>1, <1>2
<1>7. ASSUME NEW i \in 1 .. Len(q) PROVE q[i] \in {r[j] : j \in 1 .. Len(r)}
  <2>1. Len(s) + i \in 1 .. Len(r) /\ ~(Len(s) + i <= Len(s)) /\ (Len(s) + i) - Len(s) = i
    BY <1>1
  <2>2. r[Len(s) + i] = q[i]
    BY <1>2, <2>1
  <2> QED
    BY <2>1, <2>2
<1> QED
  BY <1>4, <1>5, <1>6, <1>7 DEF r

(* A native call of txn_recover, and the wrappers for what it returned. *)
LEMMA BatchStep ==
    ASSUME IInv, RInv, NEW e \in Env, Batch(e)
    PROVE  RInv'
<1>1. PICK q \in UNION {[1 .. n -> Gid] : n \in 1 .. PREPLIST_LEN} : RecoverBatch(e, q)
  BY DEF Batch
<1>2. q \in Seq(Gid)
  <2>1. PICK n \in 1 .. PREPLIST_LEN : q \in [1 .. n -> Gid]
    OBVIOUS
  <2>2. n \in Nat
    BY PartsAssumption
  <2> QED
    BY <2>1, <2>2, SeqDef
<1> DEFINE Q == {q[i] : i \in 1 .. Len(q)}
<1>3. /\ Q \subseteq Prepared(e) \ Seen(e)
      /\ \A i, j \in 1 .. Len(q) : q[i] = q[j] => i = j
  BY <1>1, <1>2, OnceEach DEF RecoverBatch
<1>4. /\ flags[e] # "none" /\ flags' = [flags EXCEPT ![e] = "next"]
      /\ list' = [list EXCEPT ![e] = list[e] \o q]
      /\ collected' = [collected EXCEPT ![e] = Seen(e) \cup Q]
      /\ twins' = [twins EXCEPT ![e] =
                     twins[e] \cup {q[i] : i \in {k \in 1 .. Len(q) : HasWrapper(e, q[k])}}]
      /\ UNCHANGED <<nat, own, rec>>
  BY <1>1 DEF RecoverBatch, NextFlags
<1>5. /\ flags \in [Env -> {"none", "first", "next"}] /\ list \in [Env -> Seq(Gid)]
      /\ collected \in [Env -> SUBSET Gid] /\ twins \in [Env -> SUBSET Gid]
  BY DEF IInv, TypeOK
<1>6. ListInv(e) /\ Listed(e) = Seen(e)
  <2>1. ListInv(e)
    BY DEF RInv
  <2>2. CASE flags[e] = "next"
    BY <2>1, <2>2 DEF ListInv, Seen
  <2>3. CASE flags[e] = "first"
    BY <2>1, <2>3 DEF ListInv, Seen, Listed
  <2> QED
    BY <2>1, <2>2, <2>3, <1>4, <1>5
<1>7. \A i \in 1 .. Len(list[e]), j \in 1 .. Len(q) : list[e][i] # q[j]
  BY SMTT(30), <1>3, <1>6 DEF Listed
<1>8. /\ \A i, j \in 1 .. Len(list'[e]) : list'[e][i] = list'[e][j] => i = j
      /\ Listed(e)' = Listed(e) \cup Q
  <2>1. list'[e] = list[e] \o q /\ list[e] \in Seq(Gid)
    BY <1>4, <1>5
  <2>2. \A i, j \in 1 .. Len(list[e]) : list[e][i] = list[e][j] => i = j
    BY <1>6 DEF ListInv
  <2>3. /\ \A i, j \in 1 .. Len(list[e] \o q) : (list[e] \o q)[i] = (list[e] \o q)[j] => i = j
        /\ {(list[e] \o q)[i] : i \in 1 .. Len(list[e] \o q)} =
              {list[e][i] : i \in 1 .. Len(list[e])} \cup Q
    BY <1>2, <1>3, <1>7, <2>1, <2>2, Appended
  <2> QED
    BY <2>1, <2>3 DEF Listed
<1>9. \A f \in Env : f # e => Listed(f)' = Listed(f)
  BY <1>4, <1>5 DEF Listed
<1>10. \A f \in Env : ListInv(f)'
  BY SMTT(30), <1>4, <1>5, <1>6, <1>8, <1>9 DEF RInv, ListInv
<1>11. \A g \in Q : ~HasWrapper(e, g) \/ g \in twins'[e]
  BY <1>4, <1>5
<1>12. \A g \in Gid : g \in Q => nat[e][g] = "prepared"
  BY <1>3 DEF Prepared
<1> HIDE DEF Q
<1>13. ASSUME NEW f \in Env, NEW g \in Gid PROVE WrapperInv(f, g)'
  <2>1. WrapperInv(f, g) /\ twins[f] \subseteq twins'[f]
    BY <1>4, <1>5 DEF RInv
  <2>2. CASE f = e /\ g \in Q
    BY <1>4, <1>11, <1>12, <2>1, <2>2 DEF WrapperInv, HasWrapper
  <2>3. CASE f # e \/ g \notin Q
    <3>1. g \in Listed(f)' <=> g \in Listed(f)
      BY <1>8, <1>9, <2>3
    <3> QED
      BY <1>4, <2>1, <3>1 DEF WrapperInv, HasWrapper
  <2> QED
    BY <2>2, <2>3
<1> QED
  BY <1>10, <1>13 DEF RInv

(* The list becomes the program's, or is deallocated; the environment goes. *)
LEMMA LoopEnds ==
    ASSUME IInv, RInv, NEW e \in Env, EndLoop(e)
    PROVE  /\ \A f \in Env : ListInv(f)'
           /\ Listed(e)' = {} /\ \A f \in Env : f # e => Listed(f)' = Listed(f)
<1>1. flags \in [Env -> {"none", "first", "next"}] /\ list \in [Env -> Seq(Gid)]
  BY DEF IInv, TypeOK
<1>2. \A f \in Env : f # e => /\ flags'[f] = flags[f] /\ list'[f] = list[f]
                              /\ collected'[f] = collected[f]
  BY <1>1 DEF EndLoop, IInv, TypeOK
<1>3. flags'[e] = "none" /\ list'[e] = <<>>
  BY <1>1 DEF EndLoop
<1> QED
  BY <1>2, <1>3 DEF RInv, ListInv, Listed

LEMMA ReturnStep ==
    ASSUME IInv, RInv, NEW e \in Env, RecoverReturn(e)
    PROVE  RInv'
<1> DEFINE found(g) == Cardinality({i \in 1 .. Len(list[e]) : list[e][i] = g})
<1>1. EndLoop(e) /\ UNCHANGED <<nat, own, twins>>
  BY DEF RecoverReturn
<1>2. rec \in [Env -> [Gid -> Nat]] /\ list \in [Env -> Seq(Gid)]
  BY DEF IInv, TypeOK
<1>3. /\ \A f \in Env : ListInv(f)'
      /\ Listed(e)' = {} /\ \A f \in Env : f # e => Listed(f)' = Listed(f)
  BY <1>1, LoopEnds
<1>4. \A g \in Gid : rec'[e][g] = rec[e][g] + found(g)
  BY <1>2 DEF RecoverReturn
<1>5. \A f \in Env : f # e => rec'[f] = rec[f]
  BY <1>2 DEF RecoverReturn
<1>6. \A g \in Gid : found(g) = IF g \in Listed(e) THEN 1 ELSE 0
  BY ZenonT(40), <1>2, CountOnce DEF RInv, ListInv, Listed
<1> HIDE DEF found
<1>7. ASSUME NEW f \in Env, NEW g \in Gid PROVE WrapperInv(f, g)'
  <2>1. WrapperInv(f, g)
    BY DEF RInv
  <2>2. CASE f = e
    <3>1. rec'[e][g] = rec[e][g] + (IF g \in Listed(e) THEN 1 ELSE 0) /\ rec[e][g] \in Nat
      BY <1>2, <1>4, <1>6
    <3> QED
      BY <1>1, <1>3, <2>1, <2>2, <3>1 DEF WrapperInv, HasWrapper
  <2>3. CASE f # e
    BY <1>1, <1>3, <1>5, <2>1, <2>3 DEF WrapperInv, HasWrapper
  <2> QED
    BY <2>2, <2>3
<1> QED
  BY <1>3, <1>7 DEF RInv

LEMMA FailsStep ==
    ASSUME IInv, RInv, NEW e \in Env, RecoverFails(e)
    PROVE  RInv'
<1>1. EndLoop(e) /\ UNCHANGED <<nat, own, rec, twins>>
  BY DEF RecoverFails, program
<1>2. /\ \A f \in Env : ListInv(f)'
      /\ Listed(e)' = {} /\ \A f \in Env : f # e => Listed(f)' = Listed(f)
  BY <1>1, LoopEnds
<1>3. \A f \in Env, g \in Gid : WrapperInv(f, g)'
  BY <1>1, <1>2 DEF RInv, WrapperInv, HasWrapper
<1> QED
  BY <1>2, <1>3 DEF RInv

(* No wrapper of an environment outlives it. *)
LEMMA VanishStep ==
    ASSUME IInv, RInv, NEW e \in Env, Vanish(e), \A f \in Env : f # e => nat'[f] = nat[f]
    PROVE  RInv'
<1>1. /\ rec \in [Env -> [Gid -> Nat]] /\ own \in [Env -> [Gid -> {"none", "plain", "flagged"}]]
      /\ twins \in [Env -> SUBSET Gid]
  BY DEF IInv, TypeOK
<1>2. /\ \A f \in Env : ListInv(f)'
      /\ Listed(e)' = {} /\ \A f \in Env : f # e => Listed(f)' = Listed(f)
  BY LoopEnds DEF Vanish
<1>3. \A g \in Gid : own'[e][g] = "none" /\ rec'[e][g] = 0
  BY <1>1 DEF Vanish
<1>4. \A f \in Env : f # e => own'[f] = own[f] /\ rec'[f] = rec[f] /\ twins'[f] = twins[f]
  BY <1>1 DEF Vanish
<1>5. ASSUME NEW f \in Env, NEW g \in Gid PROVE WrapperInv(f, g)'
  <2>1. CASE f = e
    BY <1>2, <1>3, <2>1 DEF WrapperInv, HasWrapper
  <2>2. CASE f # e
    BY <1>2, <1>4, <2>2 DEF RInv, WrapperInv, HasWrapper
  <2> QED
    BY <2>1, <2>2
<1> QED
  BY <1>2, <1>5 DEF RInv

LEMMA RecoverStep ==
    ASSUME IInv, RInv, [Next]_vars
    PROVE  RInv'
<1>1. ASSUME NEW e \in Env, NEW g \in Gid,
             Begin(e, g) \/ (\E ok \in BOOLEAN : Prepare(e, g, ok)) \/ Resolve(e, g)
                \/ Abort(e, g) \/ Discard(e, g) \/ Drop(e, g)
      PROVE  RInv'
  BY <1>1, ProgramStep
<1>2. ASSUME NEW e \in Env, RecoverBegin(e) PROVE RInv'
  <2>1. /\ flags[e] = "none" /\ flags' = [flags EXCEPT ![e] = "first"]
        /\ UNCHANGED <<nat, own, rec, twins, list, collected>>
        /\ flags \in [Env -> {"none", "first", "next"}]
    BY <1>2 DEF RecoverBegin, program, IInv, TypeOK
  <2>2. \A f \in Env : flags'[f] # "next" <=> flags[f] # "next"
    BY <2>1
  <2> QED
    BY <2>1, <2>2 DEF RInv, ListInv, Listed, WrapperInv, HasWrapper
<1>3. ASSUME NEW e \in Env, Batch(e) \/ RecoverReturn(e) \/ RecoverFails(e) PROVE RInv'
  BY <1>3, BatchStep, ReturnStep, FailsStep
<1>4. ASSUME NEW e \in Env, Close(e) PROVE RInv'
  <2>1. Vanish(e) /\ \A f \in Env : f # e => nat'[f] = nat[f]
    BY <1>4 DEF Close, IInv, TypeOK
  <2> QED
    BY <2>1, VanishStep
<1>5. ASSUME NEW e \in Env, NEW undone \in SUBSET Gid, Crash(e, undone) PROVE RInv'
  <2>1. Vanish(e) /\ \A f \in Env : f # e => nat'[f] = nat[f]
    BY <1>5 DEF Crash, IInv, TypeOK
  <2> QED
    BY <2>1, VanishStep
<1>6. ASSUME UNCHANGED <<nat, own, rec, twins, flags, list, collected>> PROVE RInv'
  BY <1>6 DEF RInv, ListInv, Listed, WrapperInv, HasWrapper
<1>7. ASSUME NEW e \in Env, Flush(e) \/ Open(e) PROVE RInv'
  BY <1>6, <1>7 DEF Flush, Open, program, recovery
<1>8. ASSUME NEW g \in Gid, NEW d \in {"commit", "abort"}, Decide(g, d) PROVE RInv'
  BY <1>6, <1>8 DEF Decide, program, recovery
<1>9. CASE UNCHANGED vars
  BY <1>6, <1>9 DEF vars, program, recovery
<1> QED
  BY <1>1, <1>2, <1>3, <1>4, <1>5, <1>7, <1>8, <1>9 DEF Next

LEMMA RecoverInvariant == Spec => [](IInv /\ RInv)
<1>1. Init => RInv
  BY InitRInv
<1>2. IInv /\ RInv /\ [Next]_vars => RInv'
  BY RecoverStep
<1> QED
  BY <1>1, <1>2, InvariantHolds, PTL DEF Spec

(* DBEnv.txn_recover, whose native calls other threads interrupt, lists no
   branch twice and none that was there all along is missing. *)
THEOREM RecoverIsExact == Spec => []RecoverExact
<1>1. ASSUME IInv, RInv PROVE RecoverExact
  <2> SUFFICES ASSUME NEW e \in Env
               PROVE  /\ Len(list[e]) = Cardinality(Listed(e))
                      /\ flags[e] = "next" /\ Prepared(e) \subseteq collected[e] =>
                            before[e] \cap Prepared(e) \subseteq Listed(e)
    BY DEF RecoverExact
  <2>1. ListInv(e) /\ list[e] \in Seq(Gid)
    BY <1>1 DEF IInv, TypeOK, RInv
  <2>2. Len(list[e]) = Cardinality(Listed(e))
    BY <2>1, OnceEach DEF ListInv, Listed
  <2> QED
    BY <2>1, <2>2 DEF ListInv
<1> QED
  BY <1>1, RecoverInvariant, PTL

(* A wrapper that can be used stands for a transaction that is not resolved,
   unless the program recovered what it still had. *)
THEOREM WrappersAreFresh == Spec => []NoStaleWrapper
<1>1. RInv => NoStaleWrapper
  BY DEF RInv, WrapperInv, NoStaleWrapper
<1> QED
  BY <1>1, RecoverInvariant, PTL
=============================================================================
