--------------------------- MODULE TwoPhaseCommit ---------------------------
(***************************************************************************)
(* Distributed transactions through DBTxn.prepare, DBEnv.txn_recover and   *)
(* DBTxn.commit, abort and discard (Module/berkeleydb.c).                  *)
(*                                                                         *)
(* A transaction has one branch in each environment that takes part.  The  *)
(* process that has an environment open may lose its wrappers, close the   *)
(* environment or crash at any moment; txn_recover gives back wrappers for *)
(* the branches that are still prepared, some at a time, with the          *)
(* interpreter lock released in each native call.  The coordinator, which  *)
(* decides on the outcome, is the application.                             *)
(***************************************************************************)
EXTENDS Naturals, Sequences, FiniteSets

CONSTANTS
    Gid,            \* distributed transactions
    Env,            \* environments, each opened by a process of its own
    Parts,          \* the environments in which each transaction has a branch
    PREPLIST_LEN,   \* how many branches one native call of txn_recover returns
    MaxMishaps      \* bound: crashes, closes, lost wrappers, discards, failures
                    \* and calls of txn_recover that were not called for

ASSUME PartsAssumption ==
    /\ Parts \in [Gid -> SUBSET Env]
    /\ PREPLIST_LEN \in Nat \ {0}

VARIABLES
    decision,   \* what the coordinator decided
    voted,      \* the environments in which prepare has succeeded
    up,         \* the environments that are open
    nat,        \* the native transaction of each branch
    unflushed,  \* the branches whose resolution is not in the log on disk
    own,        \* the wrapper the branch was begun with, and its flag_prepare
    rec,        \* how many wrappers of txn_recover the program holds for it
    flags,      \* DBEnv_txn_recover: not running, DB_FIRST or DB_NEXT
    list,       \* its result so far
    collected,  \* the branches the library has listed since DB_FIRST
    before,     \* history: the branches prepared when the call began
    twins,      \* history: the branches recovered while a wrapper was held
    failed,     \* history: the branches whose preparation failed
    mishaps

program  == <<own, rec, twins, failed>>
recovery == <<flags, list, collected, before>>
vars == <<decision, voted, up, nat, unflushed, program, recovery, mishaps>>

Native == {"idle", "active", "prepared", "committed", "aborted"}
Branches(e) == {g \in Gid : e \in Parts[g]}
Prepared(e) == {g \in Gid : nat[e][g] = "prepared"}
HasWrapper(e, g) == own[e][g] # "none" \/ rec[e][g] > 0
Listed(e)   == {list[e][i] : i \in 1 .. Len(list[e])}

TypeOK ==
    /\ decision \in [Gid -> {"none", "commit", "abort"}]
    /\ voted \in [Gid -> SUBSET Env]
    /\ up \subseteq Env
    /\ nat \in [Env -> [Gid -> Native]]
    /\ unflushed \in [Env -> SUBSET Gid]
    /\ own \in [Env -> [Gid -> {"none", "plain", "flagged"}]]
    /\ rec \in [Env -> [Gid -> Nat]]
    /\ flags \in [Env -> {"none", "first", "next"}]
    /\ list \in [Env -> Seq(Gid)]
    /\ collected \in [Env -> SUBSET Gid]
    /\ before \in [Env -> SUBSET Gid]
    /\ twins \in [Env -> SUBSET Gid]
    /\ failed \in [Env -> SUBSET Gid]
    /\ mishaps \in Nat

Init ==
    /\ decision = [g \in Gid |-> "none"]
    /\ voted = [g \in Gid |-> {}]
    /\ up = Env
    /\ nat = [e \in Env |-> [g \in Gid |-> "idle"]]
    /\ unflushed = [e \in Env |-> {}]
    /\ own = [e \in Env |-> [g \in Gid |-> "none"]]
    /\ rec = [e \in Env |-> [g \in Gid |-> 0]]
    /\ flags = [e \in Env |-> "none"]
    /\ list = [e \in Env |-> <<>>]
    /\ collected = [e \in Env |-> {}]
    /\ before = [e \in Env |-> {}]
    /\ twins = [e \in Env |-> {}]
    /\ failed = [e \in Env |-> {}]
    /\ mishaps = 0

Mishap == mishaps < MaxMishaps /\ mishaps' = mishaps + 1

-----------------------------------------------------------------------------
(* The coordinator.                                                          *)

\* It may give up at any time, and commits only when every branch is prepared.
Decide(g, d) ==
    /\ decision[g] = "none"
    /\ d = "commit" => voted[g] = Parts[g]
    /\ decision' = [decision EXCEPT ![g] = d]
    /\ UNCHANGED <<voted, up, nat, unflushed, program, recovery, mishaps>>

-----------------------------------------------------------------------------
(* The calls of the program on a branch.                                     *)

SetNative(e, g, s) == nat' = [nat EXCEPT ![e][g] = s]

Begin(e, g) ==
    /\ e \in up /\ g \in Branches(e)
    /\ nat[e][g] = "idle"
    /\ SetNative(e, g, "active")
    /\ own' = [own EXCEPT ![e][g] = "plain"]
    /\ UNCHANGED <<decision, voted, up, unflushed, rec, twins, failed, recovery, mishaps>>

\* flag_prepare is set first, and stays when the native call fails.
Prepare(e, g, ok) ==
    /\ e \in up
    /\ nat[e][g] = "active"
    /\ own[e][g] # "none"
    /\ own' = [own EXCEPT ![e][g] = "flagged"]
    /\ \/ /\ ok
          /\ SetNative(e, g, "prepared")
          /\ voted' = [voted EXCEPT ![g] = @ \cup {e}]
          /\ UNCHANGED <<failed, mishaps>>
       \/ /\ ~ok /\ Mishap
          /\ failed' = [failed EXCEPT ![e] = @ \cup {g}]
          /\ UNCHANGED <<nat, voted>>
    /\ UNCHANGED <<decision, up, unflushed, rec, twins, recovery>>

\* The wrapper whose handle pointer a call takes.
TakeOwn(e, g) == /\ own[e][g] # "none"
                 /\ own' = [own EXCEPT ![e][g] = "none"]
                 /\ UNCHANGED rec
TakeRec(e, g) == /\ rec[e][g] > 0
                 /\ rec' = [rec EXCEPT ![e][g] = @ - 1]
                 /\ UNCHANGED own
TakeNothing(e, g) == HasWrapper(e, g) /\ UNCHANGED <<own, rec>>   \* self->txn left
Take(e, g)        == TakeOwn(e, g) \/ TakeRec(e, g)

\* What commit or abort makes of the native transaction.
OutcomeFlagged(e, g) == IF decision[g] = "commit" THEN "committed" ELSE nat[e][g]  \* flag_prepare left
Outcome(e, g)        == IF decision[g] = "commit" THEN "committed" ELSE "aborted"

\* commit or abort of a prepared branch, once the outcome is known.  The
\* resolution is durable when the log is flushed.
Resolve(e, g) ==
    /\ e \in up
    /\ decision[g] # "none"
    /\ nat[e][g] = "prepared"
    /\ Take(e, g)
    /\ SetNative(e, g, Outcome(e, g))
    /\ unflushed' = [unflushed EXCEPT ![e] = @ \cup {g}]
    /\ UNCHANGED <<decision, voted, up, twins, failed, recovery, mishaps>>

\* A branch that was not prepared may be aborted without asking anybody.
Abort(e, g) ==
    /\ e \in up
    /\ nat[e][g] = "active"
    /\ TakeOwn(e, g)
    /\ SetNative(e, g, "aborted")
    /\ UNCHANGED <<decision, voted, up, unflushed, twins, failed, recovery, mishaps>>

\* The library permits it for recovered transactions.
Discard(e, g) ==
    /\ e \in up
    /\ nat[e][g] = "prepared"
    /\ TakeRec(e, g)
    /\ Mishap
    /\ UNCHANGED <<decision, voted, up, nat, unflushed, twins, failed, recovery>>

\* DBTxn_abort_discard_internal, called for a wrapper that is deallocated or
\* whose environment is closed: only a plain transaction is aborted.
LeftAborted(e, g) == IF own[e][g] = "none" THEN nat[e][g] ELSE "aborted"  \* no flag_prepare
LeftAlone(e, g)   == nat[e][g]                                            \* no abort
Left(e, g)        == IF own[e][g] = "plain" THEN "aborted" ELSE nat[e][g]

Drop(e, g) ==
    /\ e \in up
    /\ \/ TakeOwn(e, g) /\ SetNative(e, g, Left(e, g))
       \/ TakeRec(e, g) /\ UNCHANGED nat
    /\ Mishap
    /\ UNCHANGED <<decision, voted, up, unflushed, twins, failed, recovery>>

-----------------------------------------------------------------------------
(* DBEnv_txn_recover.                                                        *)

\* The program calls it for the wrappers it has lost; it may at any time.
Lost(e) == {g \in Prepared(e) : ~HasWrapper(e, g)}

RecoverBegin(e) ==
    /\ e \in up
    /\ flags[e] = "none"
    /\ \/ Lost(e) # {} /\ UNCHANGED mishaps
       \/ Lost(e) = {} /\ Mishap
    /\ flags' = [flags EXCEPT ![e] = "first"]
    /\ before' = [before EXCEPT ![e] = Prepared(e)]
    /\ UNCHANGED <<decision, voted, up, nat, unflushed, program, list, collected>>

\* DB_FIRST starts the library's listing again, DB_NEXT goes on with it.
Seen(e) == IF flags[e] = "first" THEN {} ELSE collected[e]

NextFlagsFirst(e) == "first"                                 \* DB_FIRST again
NextFlags(e)      == "next"

\* One native call, and the wrappers for what it returned.
RecoverBatch(e, q) ==
    /\ flags[e] # "none"
    /\ LET todo == Prepared(e) \ Seen(e)
       IN  /\ todo # {}
           /\ {q[i] : i \in 1 .. Len(q)} \subseteq todo
           /\ Len(q) = Cardinality({q[i] : i \in 1 .. Len(q)})
           /\ Len(q) = IF Cardinality(todo) < PREPLIST_LEN
                       THEN Cardinality(todo) ELSE PREPLIST_LEN
    /\ flags' = [flags EXCEPT ![e] = NextFlags(e)]
    /\ list' = [list EXCEPT ![e] = @ \o q]
    /\ collected' = [collected EXCEPT ![e] = Seen(e) \cup {q[i] : i \in 1 .. Len(q)}]
    /\ twins' = [twins EXCEPT ![e] =
                    @ \cup {q[i] : i \in {k \in 1 .. Len(q) : HasWrapper(e, q[k])}}]
    /\ UNCHANGED <<decision, voted, up, nat, unflushed, own, rec, failed, before, mishaps>>

Batch(e) == \E q \in UNION {[1 .. n -> Gid] : n \in 1 .. PREPLIST_LEN} : RecoverBatch(e, q)

EndLoop(e) ==
    /\ flags' = [flags EXCEPT ![e] = "none"]
    /\ list' = [list EXCEPT ![e] = <<>>]
    /\ collected' = [collected EXCEPT ![e] = {}]
    /\ before' = [before EXCEPT ![e] = {}]

\* A native call returned no more: the list becomes the program's.
RecoverReturn(e) ==
    /\ flags[e] # "none"
    /\ Prepared(e) \ Seen(e) = {}
    /\ EndLoop(e)
    /\ rec' = [rec EXCEPT ![e] =
                  [g \in Gid |-> @[g] + Cardinality({i \in 1 .. Len(list[e]) : list[e][i] = g})]]
    /\ UNCHANGED <<decision, voted, up, nat, unflushed, own, twins, failed, mishaps>>

\* A native call failed: the list is deallocated, its wrappers with it.
RecoverFails(e) ==
    /\ flags[e] # "none"
    /\ Mishap
    /\ EndLoop(e)
    /\ UNCHANGED <<decision, voted, up, nat, unflushed, program>>

-----------------------------------------------------------------------------
(* The environment.                                                          *)

\* log_flush, txn_checkpoint: what was resolved is durable.
Flush(e) ==
    /\ e \in up
    /\ unflushed' = [unflushed EXCEPT ![e] = {}]
    /\ UNCHANGED <<decision, voted, up, nat, program, recovery, mishaps>>

\* No wrapper of the environment is of use any more.
Vanish(e) ==
    /\ up' = up \ {e}
    /\ own' = [own EXCEPT ![e] = [g \in Gid |-> "none"]]
    /\ rec' = [rec EXCEPT ![e] = [g \in Gid |-> 0]]
    /\ twins' = [twins EXCEPT ![e] = {}]
    /\ failed' = [failed EXCEPT ![e] = {}]
    /\ EndLoop(e)
    /\ UNCHANGED <<decision, voted>>

\* Library: what is still active does not survive the environment.
Ended(s) == IF s = "active" THEN "aborted" ELSE s

\* DBEnv_close_internal gives up every wrapper, then the library closes the
\* environment and aborts what is not prepared.
Close(e) ==
    /\ e \in up
    /\ flags[e] = "none"
    /\ Mishap
    /\ nat' = [nat EXCEPT ![e] = [g \in Gid |-> Ended(Left(e, g))]]
    /\ unflushed' = [unflushed EXCEPT ![e] = {}]
    /\ Vanish(e)

\* The process ends; of what was not flushed, the resolutions of some branches
\* are lost.
Crash(e, undone) ==
    /\ e \in up
    /\ undone \subseteq unflushed[e]
    /\ Mishap
    /\ nat' = [nat EXCEPT ![e] = [g \in Gid |->
                  IF g \in undone THEN "prepared" ELSE Ended(nat[e][g])]]
    /\ unflushed' = [unflushed EXCEPT ![e] = {}]
    /\ Vanish(e)

\* DBEnv_open with DB_RECOVER keeps what is prepared.
Open(e) ==
    /\ e \notin up
    /\ up' = up \cup {e}
    /\ UNCHANGED <<decision, voted, nat, unflushed, program, recovery, mishaps>>

-----------------------------------------------------------------------------
Next ==
    \/ \E g \in Gid, d \in {"commit", "abort"} : Decide(g, d)
    \/ \E e \in Env, g \in Gid :
          \/ Begin(e, g) \/ Resolve(e, g) \/ Abort(e, g)
          \/ Discard(e, g) \/ Drop(e, g)
          \/ \E ok \in BOOLEAN : Prepare(e, g, ok)
    \/ \E e \in Env :
          \/ RecoverBegin(e) \/ RecoverReturn(e) \/ RecoverFails(e)
          \/ Batch(e)
          \/ Flush(e) \/ Close(e) \/ Open(e)
          \/ \E undone \in SUBSET Gid : Crash(e, undone)

Spec == Init /\ [][Next]_vars

\* The environment is opened again, a call of txn_recover that has begun goes
\* on, the program recovers what it has lost and applies what it is told.
Fairness ==
    \A e \in Env :
        /\ WF_vars(Open(e))
        /\ WF_vars(Lost(e) # {} /\ RecoverBegin(e))
        /\ WF_vars(Batch(e))
        /\ WF_vars(RecoverReturn(e))
        /\ \A g \in Gid : WF_vars(Resolve(e, g))

FairSpec == Spec /\ Fairness

-----------------------------------------------------------------------------
(* Properties.                                                               *)

Working(s) == IF s \in {"idle", "active"} THEN "working" ELSE s

Branch == [g \in Gid |-> [e \in Parts[g] |-> Working(nat[e][g])]]

Atomic == INSTANCE AtomicCommit WITH outcome <- decision, branch <- Branch

(* Whatever wrappers are dropped, closed or lost, a prepared branch waits for
   the decision on its transaction and follows it: the environments behave as
   AtomicCommit promises. *)
ImplementsAtomicCommit == Atomic!Spec

(* txn_recover lists no branch twice, and when it returns it has listed every
   branch that was prepared when it was called and still is, though it takes
   several native calls and other threads go on between them. *)
RecoverExact ==
    \A e \in Env :
        /\ Len(list[e]) = Cardinality(Listed(e))
        /\ flags[e] = "next" /\ Prepared(e) \subseteq collected[e] =>
              before[e] \cap Prepared(e) \subseteq Listed(e)

(* A wrapper that can still be used stands for a transaction that is not
   resolved, unless txn_recover was called while the program had a wrapper for
   it and made a second one. *)
NoStaleWrapper ==
    \A e \in Env, g \in Gid :
        (HasWrapper(e, g) \/ g \in Listed(e)) /\ nat[e][g] \in {"committed", "aborted"}
            => g \in twins[e]

(* A transaction that is not prepared, and so holds locks that nobody can
   recover, has a wrapper, unless its prepare failed: such a wrapper gives its
   transaction up without aborting it. *)
NoOrphan ==
    \A e \in up, g \in Gid :
        nat[e][g] = "active" /\ own[e][g] = "none" => g \in failed[e]

(* What relates wrappers, native transactions, votes and the decision: the
   invariant that the theorems of TwoPhaseCommit_proofs rest on. *)
Sound(e, g) ==
    /\ e \notin Parts[g] => nat[e][g] = "idle"
    /\ e \notin up => nat[e][g] # "active"
    /\ own[e][g] = "plain" => nat[e][g] = "active"
    /\ own[e][g] = "flagged" /\ nat[e][g] = "active" => g \in failed[e]
    /\ e \in voted[g] => nat[e][g] \in {"prepared", "committed", "aborted"}
    /\ nat[e][g] = "prepared" => e \in voted[g]
    /\ nat[e][g] = "committed" => decision[g] = "commit"
    /\ nat[e][g] = "aborted" /\ e \in voted[g] => decision[g] = "abort"
    /\ g \in unflushed[e] => e \in voted[g] /\ nat[e][g] # "prepared"
    /\ decision[g] = "commit" /\ e \in Parts[g] => e \in voted[g]

IInv ==
    /\ TypeOK
    /\ NoOrphan
    /\ \A e \in Env, g \in Gid : Sound(e, g)

(* The list so far is what the library has listed, and each branch once.     *)
ListInv(e) ==
    /\ \A i, j \in 1 .. Len(list[e]) : list[e][i] = list[e][j] => i = j
    /\ flags[e] = "next" => collected[e] = Listed(e)
    /\ flags[e] # "next" => list[e] = <<>>

(* A branch has no wrapper before it begins, and one at a time, in the hands
   of the program or in the list, unless a second one was recovered. *)
WrapperInv(e, g) ==
    /\ nat[e][g] = "idle" => ~HasWrapper(e, g) /\ g \notin Listed(e)
    /\ g \notin twins[e] =>
          /\ HasWrapper(e, g) \/ g \in Listed(e) => nat[e][g] \notin {"committed", "aborted"}
          /\ rec[e][g] <= 1
          /\ own[e][g] # "none" => rec[e][g] = 0
          /\ g \in Listed(e) => ~HasWrapper(e, g)

RInv == \A e \in Env : ListInv(e) /\ \A g \in Gid : WrapperInv(e, g)

(* However often environments crash or wrappers are lost, in the end no
   prepared branch waits for a decision that was made. *)
DecisionsReachBranches ==
    \A e \in Env, g \in Gid : <>[](nat[e][g] = "prepared" => decision[g] = "none")
=============================================================================
