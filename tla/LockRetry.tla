------------------------------ MODULE LockRetry ------------------------------
(***************************************************************************)
(* Locks of an environment and DeadlockWrap: DBEnv.lock_get, lock_put,     *)
(* lock_id_free, lock_detect and the DBLock wrapper of Module/berkeleydb.c, *)
(* called by threads that share the interpreter lock and that retry what a *)
(* deadlock refused, with dbutils.DeadlockWrap.                            *)
(*                                                                         *)
(* Every thread has a locker and takes the locks of some objects in an     *)
(* order of its own, then puts them back, in one of three ways.            *)
(*   whole: it wraps all of that in one DeadlockWrap, and the function     *)
(*          that it wraps puts its locks back when it fails;               *)
(*   each:  it wraps every lock_get, and keeps its locks in between;       *)
(*   drop:  as whole, but it leaves the DBLocks to be deallocated.         *)
(* Locks exclude each other; the library keeps one count per object and    *)
(* locker.                                                                 *)
(***************************************************************************)
EXTENDS Integers, FiniteSets, Sequences

CONSTANTS
    Thread,
    Object,
    Orders,     \* the orders in which threads take locks
    Limits,     \* the values of max_retries; below 0 there is no limit
    None

ASSUME LocksAssumption ==
    /\ None \notin Thread
    /\ Orders \subseteq Seq(Object)
    /\ \A order \in Orders : order # <<>>
    /\ Limits \subseteq Int

VARIABLES
    setup,      \* what the program is and how the environment is configured
    gil,        \* the thread that holds the interpreter lock, or None
    at,         \* where each thread is
    goal,       \* what it is about to do in Python
    res,        \* what its lock_get returned, until Python has it
    left,       \* max_retries as DeadlockWrap counts it down
    tries,      \* history: how often DeadlockWrap called the function
    got,        \* how many locks it has the DBLocks of: the first of its order
    owner,      \* the locker of each object's lock, or None
    refs,       \* how often that locker has the lock
    dropped     \* history: the DBLocks that were deallocated with their lock

locals == <<got, dropped>>
table  == <<owner, refs>>
vars   == <<setup, gil, at, goal, res, left, tries, got, owner, refs, dropped>>

Styles == {"whole", "each", "drop"}

\* Bound: who drops locks does so a limited number of times.
Setups ==
    {s \in [order : [Thread -> Orders], style : [Thread -> Styles], limit : [Thread -> Limits],
            timeout : BOOLEAN, auto : BOOLEAN] :
        \A t \in Thread : s.style[t] = "drop" => s.limit[t] >= 0}

Order(t) == setup.order[t]
Style(t) == setup.style[t]
Limit(t) == setup.limit[t]
Want(t)  == Order(t)[got[t] + 1]
Latest(t) == Order(t)[got[t]]

Init ==
    /\ setup \in Setups
    /\ gil = None
    /\ at = [t \in Thread |-> "back"]
    /\ goal = [t \in Thread |-> "get"]
    /\ res = [t \in Thread |-> "none"]
    /\ left = setup.limit
    /\ tries = [t \in Thread |-> 1]
    /\ got = [t \in Thread |-> 0]
    /\ owner = [o \in Object |-> None]
    /\ refs = [o \in Object |-> 0]
    /\ dropped = [t \in Thread |-> [o \in Object |-> 0]]

-----------------------------------------------------------------------------
(* The lock table of the library.                                            *)

Waiting == {t \in Thread : at[t] = "waiting"}

\* S is a deadlock of the waiting threads W: each waits for the next.
Round(W, S) ==
    /\ S # {} /\ S \subseteq W
    /\ {owner[Want(u)] : u \in S} = S
Deadlock(W, S) == Round(W, S) /\ \A R \in SUBSET S : Round(W, R) => R = S

Deadlocked(W) == UNION {S \in SUBSET W : Deadlock(W, S)}

\* V are the requests that a run of the detector refuses: one of each deadlock.
Victims(W, V) ==
    /\ V \subseteq Deadlocked(W)
    /\ \A S \in SUBSET W : Deadlock(W, S) => Cardinality(S \cap V) = 1

\* The waiting requests D and E are answered, and those of blocks wait.
Refuse(D, E, blocks) ==
    /\ at' = [t \in Thread |->
          IF t \in D \cup E THEN "back" ELSE IF t \in blocks THEN "waiting" ELSE at[t]]
    /\ res' = [t \in Thread |->
          IF t \in D THEN "deadlock" ELSE IF t \in E THEN "error" ELSE res[t]]

Free(t) == owner[Want(t)] \in {None, t}

Granted(t) ==
    /\ at[t] = "get" /\ Free(t)
    /\ at' = [at EXCEPT ![t] = "back"]
    /\ res' = [res EXCEPT ![t] = "granted"]
    /\ owner' = [owner EXCEPT ![Want(t)] = t]
    /\ refs' = [refs EXCEPT ![Want(t)] = @ + 1]
    /\ UNCHANGED <<setup, gil, goal, left, tries, locals>>

\* The request waits; with set_lk_detect the detector runs at once.
Blocked(t) ==
    LET W == Waiting \cup {t} IN
    /\ at[t] = "get" /\ ~Free(t)
    /\ \E V \in SUBSET W :
          /\ IF setup.auto THEN Victims(W, V) ELSE V = {}
          /\ Refuse(V, {}, {t})
    /\ UNCHANGED <<setup, gil, goal, left, tries, locals, table>>

\* DB_LOCK_NOWAIT and no lock, or any other error.
Fails(t) ==
    /\ at[t] = "get"
    /\ Refuse({}, {t}, {})
    /\ UNCHANGED <<setup, gil, goal, left, tries, locals, table>>

\* The native lock_put: when the locker has the lock no more, a waiting request
\* gets it.
PutDone(t) ==
    LET o == Latest(t)
        next == {u \in Waiting : Want(u) = o} IN
    /\ at[t] = "put"
    /\ got' = [got EXCEPT ![t] = @ - 1]
    /\ \/ /\ refs[o] > 1 \/ next = {}
          /\ refs' = [refs EXCEPT ![o] = @ - 1]
          /\ owner' = IF refs[o] > 1 THEN owner ELSE [owner EXCEPT ![o] = None]
          /\ at' = [at EXCEPT ![t] = "back"]
          /\ res' = res
       \/ /\ refs[o] = 1
          /\ \E u \in next :
                /\ owner' = [owner EXCEPT ![o] = u]
                /\ at' = [at EXCEPT ![t] = "back", ![u] = "back"]
                /\ res' = [res EXCEPT ![u] = "granted"]
          /\ refs' = refs
    /\ UNCHANGED <<setup, gil, goal, left, tries, dropped>>

\* Another thread calls lock_detect over and over, which takes the interpreter
\* lock; requests whose time is over are refused too, with or without
\* DB_TIME_NOTGRANTED.
Detect ==
    /\ gil = None
    /\ \E V, D, E \in SUBSET Waiting :
          /\ Victims(Waiting, V)
          /\ ~setup.timeout => D \cup E = {}
          /\ Refuse(V \cup D, E, {})
    /\ UNCHANGED <<setup, gil, goal, left, tries, locals, table>>

\* lock_id_free is refused while the locker has locks.
FreeLocker(t) ==
    /\ at[t] = "ended" /\ gil = None
    /\ \A o \in Object : owner[o] # t
    /\ at' = [at EXCEPT ![t] = "freed"]
    /\ UNCHANGED <<setup, gil, goal, res, left, tries, locals, table>>

-----------------------------------------------------------------------------
(* Back in Python.                                                           *)

Python(t) == gil = t /\ at[t] = "python"

\* MYDB_END_ALLOW_THREADS, with what the native call returned.
Regain(t, result) ==
    /\ at[t] \in {"back", "sleep"} /\ gil \in {None, t} /\ res[t] = result
    /\ gil' = t
    /\ at' = [at EXCEPT ![t] = "python"]
    /\ res' = [res EXCEPT ![t] = "none"]

\* The beginning, and lock_put.
Return(t) ==
    /\ at[t] = "back" /\ Regain(t, "none")
    /\ UNCHANGED <<setup, goal, left, tries, locals, table>>

\* newDBLockObject returns the DBLock; each lock_get has a DeadlockWrap of its
\* own if the program is of that style.
KeepNothing(t) == got' = got
NewLock(t) == got' = [got EXCEPT ![t] = @ + 1]

Keep(t) ==
    /\ Regain(t, "granted")
    /\ NewLock(t)
    /\ goal' = [goal EXCEPT ![t] = IF got[t] + 1 = Len(Order(t)) THEN "ok" ELSE "get"]
    /\ IF Style(t) = "each"
       THEN left' = [left EXCEPT ![t] = Limit(t)] /\ tries' = [tries EXCEPT ![t] = 1]
       ELSE UNCHANGED <<left, tries>>
    /\ UNCHANGED <<setup, dropped, table>>

Among(order, n, o) == Cardinality({i \in 1..n : order[i] = o})
Has(t, o) == Among(Order(t), got[t], o)

\* DBLock_dealloc does not put the lock back.
Deallocate(t) ==
    IF Style(t) = "drop"
    THEN /\ got' = [got EXCEPT ![t] = 0]
         /\ dropped' = [dropped EXCEPT ![t] = [o \in Object |-> @[o] + Has(t, o)]]
    ELSE UNCHANGED locals

\* The function fails, with DBLockDeadlockError or with another exception, that
\* DeadlockWrap lets pass.
Raise(t, result) ==
    /\ Regain(t, result)
    /\ goal' = [goal EXCEPT ![t] = IF result = "deadlock" THEN "sleep" ELSE "error"]
    /\ Deallocate(t)
    /\ UNCHANGED <<setup, left, tries, table>>

\* max_retries is compared once it is one less.
GivesUpLate(t) == left[t] = -1
GivesUp(t) == left[t] - 1 = -1

\* Bound: without a limit, neither max_retries nor the tries are counted.
Retry(t) ==
    /\ at[t] = "sleep" /\ Regain(t, "none")
    /\ IF GivesUp(t)
       THEN goal' = [goal EXCEPT ![t] = "deadlock"] /\ UNCHANGED <<left, tries>>
       ELSE /\ goal' = [goal EXCEPT ![t] = "get"]
            /\ left'  = [left  EXCEPT ![t] = IF Limit(t) < 0 THEN @ ELSE @ - 1]
            /\ tries' = [tries EXCEPT ![t] = IF Limit(t) < 0 THEN @ ELSE @ + 1]
    /\ UNCHANGED <<setup, locals, table>>

-----------------------------------------------------------------------------
(* From Python to the next call.                                             *)

\* MYDB_BEGIN_ALLOW_THREADS.
KeepLock(t) == gil' = t
AllowThreads(t) == gil' = None

Leaves(t, where) ==
    /\ AllowThreads(t)
    /\ at' = [at EXCEPT ![t] = where]

Get(t) ==
    /\ Python(t) /\ goal[t] = "get"
    /\ Leaves(t, "get")
    /\ UNCHANGED <<setup, goal, res, left, tries, locals, table>>

Unwinding(t) == goal[t] \in {"ok", "error", "deadlock"} \/ (goal[t] = "sleep" /\ Style(t) = "whole")

\* The next of the lock_puts in the program's cleaning up.
Put(t) ==
    /\ Python(t) /\ Unwinding(t) /\ Style(t) # "drop" /\ got[t] > 0
    /\ Leaves(t, "put")
    /\ UNCHANGED <<setup, goal, res, left, tries, locals, table>>

Unwound(t) == Python(t) /\ goal[t] = "sleep" /\ (Style(t) = "each" \/ got[t] = 0)

Sleep(t) ==
    /\ Unwound(t)
    /\ Leaves(t, "sleep")
    /\ UNCHANGED <<setup, goal, res, left, tries, locals, table>>

End(t) ==
    /\ Python(t) /\ goal[t] \in {"ok", "deadlock", "error"}
    /\ got[t] = 0 \/ Style(t) = "drop"
    /\ Leaves(t, "ended")
    /\ Deallocate(t)
    /\ UNCHANGED <<setup, goal, res, left, tries, table>>

Native(t) == Granted(t) \/ Blocked(t) \/ Fails(t) \/ PutDone(t)
Resume(t) == Return(t) \/ Keep(t) \/ Raise(t, "deadlock") \/ Raise(t, "error") \/ Retry(t)
Leave(t)  == Get(t) \/ Put(t) \/ Sleep(t) \/ End(t)

Next ==
    \/ \E t \in Thread : Native(t) \/ Resume(t) \/ Leave(t) \/ FreeLocker(t)
    \/ Detect

Fairness ==
    /\ \A t \in Thread : SF_vars(Resume(t)) /\ WF_vars(Native(t)) /\ WF_vars(Leave(t))
    /\ SF_vars(Detect)

Spec == Init /\ [][Next]_vars /\ Fairness

-----------------------------------------------------------------------------
(* Properties.                                                               *)

(* Every lock that the library counts is one of a DBLock that its thread has,
   one that a lock_get in progress returns, or one that was deallocated with its
   DBLock: nothing else is lost, and a locker that dropped none can be freed. *)
InCall(t, o) == IF res[t] = "granted" /\ Want(t) = o THEN 1 ELSE 0

LocksAccounted ==
    \A o \in Object, t \in Thread :
        Has(t, o) + InCall(t, o) + dropped[t][o] = IF owner[o] = t THEN refs[o] ELSE 0

(* A function that puts its locks back when it fails has none while DeadlockWrap
   sleeps, so that nobody waits for a thread that sleeps. *)
SleepsWithoutLocks ==
    \A t \in Thread : at[t] = "sleep" /\ Style(t) = "whole" => \A o \in Object : owner[o] # t

(* DeadlockWrap gives up after max_retries retries, neither earlier nor later,
   and never without a limit. *)
TriesExact ==
    \A t \in Thread :
        /\ Limit(t) >= 0 => tries[t] <= Limit(t) + 1
        /\ goal[t] = "deadlock" => Limit(t) >= 0 /\ tries[t] = Limit(t) + 1

(* All calls of DeadlockWrap end if nobody drops locks and all who have no limit
   wrap functions that put their locks back, without timeouts: no thread waits
   for a lock, or sleeps, with the interpreter lock. *)
Ends(t) ==
    /\ Style(t) # "drop"
    /\ Limit(t) >= 0 \/ (Style(t) = "whole" /\ ~setup.timeout)
WrapEnds ==
    (\A t \in Thread : Ends(t)) => <>(\A t \in Thread : at[t] \in {"ended", "freed"})

-----------------------------------------------------------------------------
(* The inductive invariant of LockRetry_proofs.                              *)

Goals   == {"get", "sleep", "ok", "error", "deadlock"}
Places  == {"back", "python", "get", "waiting", "put", "sleep", "ended", "freed"}
Results == {"none", "granted", "deadlock", "error"}

TypeOK ==
    /\ setup \in Setups
    /\ gil \in Thread \cup {None}
    /\ at \in [Thread -> Places]
    /\ goal \in [Thread -> Goals]
    /\ res \in [Thread -> Results]
    /\ left \in [Thread -> Int] /\ tries \in [Thread -> Int]
    /\ got \in [Thread -> Nat]
    /\ owner \in [Object -> Thread \cup {None}]
    /\ refs \in [Object -> Nat]
    /\ dropped \in [Thread -> [Object -> Nat]]

CallInv(t) ==
    /\ got[t] <= Len(Order(t))
    /\ goal[t] \in {"get", "sleep"} => got[t] < Len(Order(t))
    /\ at[t] \in {"get", "waiting"} \/ res[t] # "none" => goal[t] = "get"
    /\ res[t] # "none" => at[t] = "back"
    /\ at[t] = "put" => got[t] > 0
    /\ at[t] = "sleep" => goal[t] = "sleep" /\ (Style(t) = "whole" => got[t] = 0)
    /\ goal[t] = "sleep" /\ Style(t) = "drop" => got[t] = 0
    /\ Style(t) # "drop" => \A o \in Object : dropped[t][o] = 0

TriesInv(t) ==
    /\ Limit(t) < 0 => left[t] = Limit(t)
    /\ Limit(t) >= 0 => left[t] \in 0..Limit(t) /\ tries[t] = Limit(t) - left[t] + 1
    /\ goal[t] = "deadlock" => Limit(t) >= 0 /\ left[t] = 0

IInv ==
    /\ TypeOK
    /\ \A o \in Object : owner[o] = None <=> refs[o] = 0
    /\ LocksAccounted
    /\ \A t \in Thread : CallInv(t) /\ TriesInv(t)
=============================================================================
