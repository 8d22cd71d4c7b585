----------------------------- MODULE Callbacks -----------------------------
(***************************************************************************)
(* The Python callables that Berkeley DB calls back: the comparisons and   *)
(* the index callable of a DB, the event and transport callables of an     *)
(* environment (Module/berkeleydb.c).                                      *)
(*                                                                         *)
(* A callable lives in one slot of its DB or environment, and is called    *)
(* through the C function registered with the library, from any thread and *)
(* also while another thread is replacing it.  Slots do not interfere, so  *)
(* a behaviour is about one of them.  An action runs from one place where  *)
(* the interpreter lock may change hands to the next: a native call,       *)
(* Python code that is called, or a callable that is deallocated.          *)
(***************************************************************************)
EXTENDS Naturals, FiniteSets

CONSTANTS
    Thread,
    Fn,         \* callables
    Null,       \* the empty slot: NULL, or None for the transport
    Kinds,      \* the kinds of slots to look at
    MaxCalls    \* bound: calls of the program that set the slot

\* set_dup_compare and its C callback repeat set_bt_compare and its own.
Once == {"bt_compare", "dup_compare"}

ASSUME CallbacksAssumption ==
    /\ Null \notin Fn
    /\ Kinds \subseteq Once \cup {"index", "event", "transport"}

VARIABLES
    kind,       \* which slot this is
    slot,       \* the callable it points to
    status,     \* open, registered (the library calls our C function) or gone
    refs,       \* the reference count of each callable
    held,       \* the callables to which the program has a reference
    pc,         \* where each thread is
    fn,         \* the callable that a thread got, as argument or from the slot
    failed,     \* the threads whose native call returned an error
    calls,
    trouble,    \* history: overlap, a call set the slot while another was doing
                \* so; spoilt, a call that set the slot failed or set None
    replaced,   \* history: the callables that a call took out of the slot
    dead        \* history: the callables called without any reference left

hist == <<trouble, replaced, dead>>
vars == <<kind, slot, status, refs, held, pc, fn, failed, calls, hist>>

Places == {"idle", "testing", "store", "native", "back", "clear", "peeked", "running"}
Setting(t) == pc[t] \in {"testing", "store", "native", "back", "clear"}

TypeOK ==
    /\ kind \in Kinds
    /\ slot \in Fn \cup {Null}
    /\ status \in {"open", "registered", "gone"}
    /\ refs \in [Fn -> Nat]
    /\ held \in SUBSET Fn
    /\ pc \in [Thread -> Places]
    /\ fn \in [Thread -> Fn \cup {Null}]
    /\ failed \in SUBSET Thread
    /\ calls \in Nat
    /\ trouble \in SUBSET {"overlap", "spoilt"}
    /\ replaced \in SUBSET Fn /\ dead \in SUBSET Fn

Init ==
    /\ kind \in Kinds
    /\ slot = Null /\ status = "open"
    /\ refs = [f \in Fn |-> 1] /\ held = Fn
    /\ pc = [t \in Thread |-> "idle"]
    /\ fn = [t \in Thread |-> Null]
    /\ failed = {}
    /\ calls = 0
    /\ trouble = {}
    /\ replaced = {} /\ dead = {}

Overlap    == "overlap" \in trouble
Spoilt     == "spoilt" \in trouble
Registered == status = "registered"
Note(ws)   == trouble' = trouble \cup ws

Goto(t, p) == pc' = [pc EXCEPT ![t] = p]
Less(r, f) == IF f = Null \/ r[f] = 0 THEN r ELSE [r EXCEPT ![f] = @ - 1]
MoreSkipped(r, f) == r                                      \* no Py_INCREF
More(r, f) == IF f = Null THEN r ELSE [r EXCEPT ![f] = @ + 1]
Dies(f)    == f # Null /\ refs[f] = 1

-----------------------------------------------------------------------------
(* The calls that set the slot.                                              *)

\* The program calls with a callable that it has a reference to, or None to
\* associate; the reference stays as long as the call is in progress.
Call(t, f) ==
    /\ status # "gone"
    /\ pc[t] = "idle"
    /\ f \in held \/ (f = Null /\ kind = "index")
    /\ calls < MaxCalls
    /\ calls' = calls + 1
    /\ fn' = [fn EXCEPT ![t] = f]
    /\ failed' = failed \ {t}
    /\ Note((IF \E u \in Thread : Setting(u) THEN {"overlap"} ELSE {})
            \cup (IF f = Null THEN {"spoilt"} ELSE {}))
    /\ UNCHANGED <<kind, status, held, dead>>

\* The last lines of a replacement: the reference, the slot, and what follows.
Store(t, r, f, next) ==
    /\ refs' = More(r, f)
    /\ slot' = f
    /\ Goto(t, next)

\* The old callable loses a reference.  When that was the last one it is
\* deallocated, which may run Python code, with the slot still pointing to it.
Replace(t, f, next) ==
    /\ \/ ~Dies(slot) /\ Store(t, Less(refs, slot), f, next)
       \/ Dies(slot) /\ refs' = Less(refs, slot) /\ Goto(t, "store") /\ UNCHANGED slot
    /\ replaced' = replaced \cup ({slot} \ {Null})

\* Which slot is set after the library is told.
TellsEvent == kind \in {"transport", "event"}
Tells == kind = "transport"

After == IF Tells THEN "idle" ELSE "native"

\* associate, set_event_notify: the callable is in the slot before the library
\* is told.
SetFirst(t, f) ==
    /\ kind \notin Once /\ ~Tells
    /\ Call(t, f)
    /\ Replace(t, f, After)

\* rep_set_transport: the library is told first.
TellFirst(t, f) ==
    /\ kind \notin Once /\ Tells
    /\ Call(t, f)
    /\ Goto(t, "native")
    /\ UNCHANGED <<slot, refs, replaced>>

StoreLater(t) ==
    /\ pc[t] = "store"
    /\ Store(t, refs, fn[t], After)
    /\ UNCHANGED <<kind, status, held, fn, failed, calls, hist>>

\* The native call, without the interpreter lock.  The library refuses to
\* associate a DB that is a secondary already.
NativeSet(t, ok) ==
    /\ pc[t] = "native"
    /\ \/ /\ ok
          /\ ~(kind = "index" /\ Registered)
          /\ status' = "registered"
          /\ UNCHANGED <<failed, trouble>>
       \/ /\ ~ok
          /\ failed' = failed \cup {t}
          /\ Note({"spoilt"})
          /\ UNCHANGED status
    /\ Goto(t, "back")
    /\ UNCHANGED <<kind, slot, refs, held, fn, calls, replaced, dead>>

Succeeded(t) ==
    /\ pc[t] = "back" /\ t \notin failed
    /\ \/ ~Tells /\ Goto(t, "idle") /\ UNCHANGED <<slot, refs, replaced>>
       \/ Tells /\ Replace(t, fn[t], After)
    /\ UNCHANGED <<kind, status, held, fn, failed, calls, trouble, dead>>

\* On an error associate drops what it finds in the slot, set_event_notify
\* drops its own argument, and both clear the slot.
GivenNothing(t) == Null                                     \* no Py_DECREF
Given(t) == IF kind = "index" THEN slot ELSE fn[t]

Failed(t) ==
    /\ pc[t] = "back" /\ t \in failed
    /\ \/ Tells /\ Goto(t, "idle") /\ UNCHANGED <<slot, refs, replaced>>
       \/ /\ ~Tells
          /\ refs' = Less(refs, Given(t))
          /\ replaced' = replaced \cup ({slot} \ {Null})
          /\ \/ Dies(Given(t)) /\ Goto(t, "clear") /\ UNCHANGED slot
             \/ ~Dies(Given(t)) /\ Goto(t, "idle") /\ slot' = Null
    /\ UNCHANGED <<kind, status, held, fn, failed, calls, trouble, dead>>

Clear(t) ==
    /\ pc[t] = "clear"
    /\ slot' = Null
    /\ Goto(t, "idle")
    /\ UNCHANGED <<kind, status, refs, held, fn, failed, calls, hist>>

\* set_bt_compare, set_dup_compare: the comparator is called on two empty
\* strings, and it may do anything.
TestCall(t, f) ==
    /\ kind \in Once
    /\ Call(t, f)
    /\ Goto(t, "testing")
    /\ UNCHANGED <<slot, refs, replaced>>

NotSet == slot = Null

\* The result is good, no comparator is set and the library accepts.
Tested(t) ==
    /\ pc[t] = "testing"
    /\ NotSet
    /\ Store(t, refs, fn[t], "idle")
    /\ status' = "registered"
    /\ UNCHANGED <<kind, held, fn, failed, calls, hist>>

\* Otherwise the call raises, and what the library refuses is undone.
TestRefused(t) ==
    /\ pc[t] = "testing"
    /\ Goto(t, "idle")
    /\ UNCHANGED <<kind, slot, status, refs, held, fn, failed, calls, hist>>

-----------------------------------------------------------------------------
(* The library calls back, from a thread without the lock.                   *)

\* _db_associateCallback reads the callable here, before it has the lock; the
\* comparisons only look whether there is one.
Peek(t) == fn' = [fn EXCEPT ![t] = slot]

CallBack(t) ==
    /\ pc[t] = "idle"
    /\ Registered
    /\ \/ kind \in {"event", "transport"} /\ Goto(t, "peeked")
       \/ slot # Null /\ Goto(t, "peeked")
    /\ Peek(t)
    /\ UNCHANGED <<kind, slot, status, refs, held, failed, calls, hist>>

\* What is called once the thread has the lock.
Target(t) == IF kind = "index" THEN fn[t] ELSE slot

Ensure(t) ==
    /\ pc[t] = "peeked"
    /\ Target(t) # Null
    /\ fn' = [fn EXCEPT ![t] = Target(t)]
    /\ dead' = IF refs[Target(t)] = 0 THEN dead \cup {Target(t)} ELSE dead
    /\ Goto(t, "running")
    /\ UNCHANGED <<kind, slot, status, refs, held, failed, calls, trouble, replaced>>

\* No callable: the event is not told, the message is not sent.
Unanswered(t) ==
    /\ pc[t] = "peeked"
    /\ Target(t) = Null
    /\ Goto(t, "idle")
    /\ UNCHANGED <<kind, slot, status, refs, held, fn, failed, calls, hist>>

\* The callable returns or raises; the C function holds no reference to it.
Finish(t) ==
    /\ pc[t] = "running"
    /\ Goto(t, "idle")
    /\ UNCHANGED <<kind, slot, status, refs, held, fn, failed, calls, hist>>

-----------------------------------------------------------------------------
\* The program drops its reference to a callable.
Forget(f) ==
    /\ f \in held
    /\ \A t \in Thread : Setting(t) => fn[t] # f
    /\ held' = held \ {f}
    /\ refs' = Less(refs, f)
    /\ UNCHANGED <<kind, slot, status, pc, fn, failed, calls, hist>>

\* DB_dealloc, DBEnv_dealloc, after the native close.
Dealloc ==
    /\ status # "gone"
    /\ \A t \in Thread : pc[t] = "idle"
    /\ status' = "gone"
    /\ refs' = Less(refs, slot)
    /\ slot' = Null
    /\ UNCHANGED <<kind, held, pc, fn, failed, calls, hist>>

Next ==
    \/ \E t \in Thread :
          \/ \E f \in Fn \cup {Null} : SetFirst(t, f) \/ TellFirst(t, f) \/ TestCall(t, f)
          \/ StoreLater(t) \/ \E ok \in BOOLEAN : NativeSet(t, ok)
          \/ Succeeded(t) \/ Failed(t) \/ Clear(t)
          \/ Tested(t) \/ TestRefused(t)
          \/ CallBack(t) \/ Ensure(t) \/ Unanswered(t) \/ Finish(t)
    \/ \E f \in Fn : Forget(f)
    \/ Dealloc

Spec == Init /\ [][Next]_vars

-----------------------------------------------------------------------------
(* Properties.                                                               *)

(* Unless two calls that set the slot overlap, each callable has exactly the
   references that the program and the slot make: it is neither freed under
   the slot nor kept for ever, whichever native calls fail. *)
CountsExact ==
    Overlap \/
    \A f \in Fn : refs[f] =
        (IF f \in held THEN 1 ELSE 0)
      + (IF slot = f /\ \A t \in Thread : pc[t] \notin {"store", "clear"} THEN 1 ELSE 0)

(* No callback runs a callable that was freed, nor is the callable freed while
   it runs, but for one that a call took out of the slot while the library
   could call back: the program's own reference does not matter. *)
CalledAlive ==
    Overlap \/
    \A f \in Fn :
        (f \in dead \/ \E t \in Thread : pc[t] = "running" /\ fn[t] = f /\ refs[f] = 0)
            => f \in replaced

(* The library finds a callable whenever it calls back, unless a call that set
   the slot failed or set None, or the first transport is registered and not
   yet stored. *)
Served ==
    Registered /\ slot = Null =>
        \/ Spoilt
        \/ kind = "transport" /\ \E t \in Thread : pc[t] \in {"back", "store"}

(* What relates frames, slot and counts: the invariant of Callbacks_proofs.  *)
Frame(t) ==
    /\ Setting(t) => fn[t] \in held \cup {Null}
    /\ Setting(t) /\ kind # "index" => fn[t] # Null
    /\ Setting(t) /\ fn[t] = Null => Spoilt
    /\ pc[t] \in {"store", "clear"} => slot # Null \/ Overlap
    /\ pc[t] \in {"store", "clear"} /\ ~Overlap => refs[slot] = 0 /\ slot \in replaced
    /\ pc[t] = "clear" => Spoilt
    /\ pc[t] = "testing" <=> Setting(t) /\ kind \in Once
    /\ pc[t] \in {"native", "back"} /\ ~Tells /\ ~Overlap => slot = fn[t]
    /\ pc[t] \in {"native", "back"} /\ ~Tells /\ slot = Null => Spoilt
    /\ t \in failed => Spoilt
    /\ pc[t] = "back" /\ t \notin failed => Registered
    /\ pc[t] = "peeked" /\ kind = "index" => fn[t] # Null
    /\ pc[t] = "peeked" /\ kind = "index" => fn[t] = slot \/ fn[t] \in replaced \/ Overlap
    /\ pc[t] = "running" => fn[t] # Null
    /\ pc[t] = "running" => fn[t] = slot \/ fn[t] \in replaced \/ Overlap

IInv ==
    /\ TypeOK
    /\ \A t \in Thread : Frame(t)
    /\ Overlap \/ \A t, u \in Thread : Setting(t) /\ Setting(u) => t = u
    /\ CountsExact
    /\ Served
    /\ dead \subseteq replaced \/ Overlap

(* A comparator orders the keys of its DB for good: no later call, and no call
   that overlaps, puts another in its place. *)
SetForGood == [][(kind \in Once /\ slot # Null /\ status' # "gone") => slot' = slot]_vars
=============================================================================
