-------------------------- MODULE Callbacks_proofs --------------------------
(* Theorems about Callbacks, for any number of threads, callables and calls. *)
EXTENDS Callbacks, TLAPS

(* What the helpers on counts and places return. *)
LEMMA Counts ==
    ASSUME NEW r \in [Fn -> Nat], NEW f \in Fn \cup {Null}
    PROVE  /\ Less(r, f) \in [Fn -> Nat]
           /\ More(r, f) \in [Fn -> Nat]
           /\ \A g \in Fn : Less(r, f)[g] = IF g = f /\ r[g] # 0 THEN r[g] - 1 ELSE r[g]
           /\ \A g \in Fn : More(r, f)[g] = IF g = f THEN r[g] + 1 ELSE r[g]
BY CallbacksAssumption DEF Less, More

LEMMA Gone ==
    ASSUME TypeOK, NEW t \in Thread, NEW p \in Places, Goto(t, p)
    PROVE  /\ pc' \in [Thread -> Places]
           /\ pc'[t] = p
           /\ \A u \in Thread : u # t => pc'[u] = pc[u]
BY DEF Goto, TypeOK

LEMMA InitInv ==
    ASSUME Init
    PROVE  IInv
<1> USE CallbacksAssumption DEF Init
<1>1. TypeOK
  BY DEF TypeOK, Places
<1>2. CountsExact
  BY DEF CountsExact
<1> QED
  BY <1>1, <1>2 DEF IInv, Frame, Setting, Served, Registered

(* What the beginning of a call that sets the slot does to everything else. *)
LEMMA CallStep ==
    ASSUME IInv, NEW t \in Thread, NEW f \in Fn \cup {Null}, Call(t, f)
    PROVE  /\ fn' \in [Thread -> Fn \cup {Null}] /\ failed' \in SUBSET Thread
           /\ calls' \in Nat /\ trouble' \in SUBSET {"overlap", "spoilt"}
           /\ fn'[t] = f /\ t \notin failed'
           /\ f = Null => Spoilt' /\ kind = "index"
           /\ f # Null => f \in held
           /\ \A u \in Thread : u # t => fn'[u] = fn[u] /\ (u \in failed' <=> u \in failed)
           /\ Overlap => Overlap'
           /\ Spoilt => Spoilt'
           /\ ~Overlap' => \A u \in Thread : ~Setting(u)
           /\ UNCHANGED <<kind, status, held, dead>>
<1> USE CallbacksAssumption DEF Call, Note, IInv, TypeOK, Overlap, Spoilt
<1>1. fn' \in [Thread -> Fn \cup {Null}] /\ failed' \in SUBSET Thread /\ calls' \in Nat
  OBVIOUS
<1>2. trouble' \in SUBSET {"overlap", "spoilt"}
  OBVIOUS
<1>3. ~Overlap' => \A u \in Thread : ~Setting(u)
  OBVIOUS
<1>4. f = Null => Spoilt' /\ kind = "index"
  OBVIOUS
<1>5. \A u \in Thread : u # t => fn'[u] = fn[u] /\ (u \in failed' <=> u \in failed)
  OBVIOUS
<1> QED
  BY <1>1, <1>2, <1>3, <1>4, <1>5

(* The simple actions. *)
LEMMA QuietStep ==
    ASSUME IInv, NEW t \in Thread,
           TestRefused(t) \/ CallBack(t) \/ Unanswered(t) \/ Finish(t) \/ Ensure(t)
    PROVE  IInv'
<1> USE CallbacksAssumption DEF IInv, TypeOK, Places, Goto, Overlap, Spoilt, Registered,
                                Setting, Once, Tells, hist
<1>1. CASE TestRefused(t) \/ Unanswered(t) \/ Finish(t)
  <2>0. pc' = [pc EXCEPT ![t] = "idle"] /\ pc[t] \in {"testing", "peeked", "running"}
        /\ UNCHANGED <<kind, slot, status, refs, held, fn, failed, calls, trouble, replaced, dead>>
    BY <1>1 DEF TestRefused, Unanswered, Finish
  <2>1. \A u \in Thread : Frame(u)'
    BY <2>0 DEF Frame
  <2>2. CountsExact' /\ Served'
    BY <2>0 DEF CountsExact, Served
  <2> QED
    BY <2>0, <2>1, <2>2
<1>2. CASE CallBack(t)
  <2>1. TypeOK'
    BY <1>2 DEF CallBack, Peek
  <2>2. \A u \in Thread : Frame(u)'
    BY <1>2 DEF CallBack, Peek, Frame
  <2>3. CountsExact'
    BY <1>2 DEF CallBack, Peek, CountsExact
  <2>4. Served'
    BY <1>2 DEF CallBack, Peek, Served
  <2> QED
    BY <1>2, <2>1, <2>2, <2>3, <2>4 DEF CallBack, Peek
<1>3. CASE Ensure(t)
  <2>1. TypeOK'
    BY <1>3 DEF Ensure, Target
  <2>2. \A u \in Thread : Frame(u)'
    BY <1>3 DEF Ensure, Target, Frame
  <2>3. CountsExact' /\ Served'
    BY <1>3 DEF Ensure, CountsExact, Served
  <2>4. (dead \subseteq replaced \/ Overlap)'
    BY <1>3 DEF Ensure, Target, CountsExact, Frame
  <2> QED
    BY <1>3, <2>1, <2>2, <2>3, <2>4 DEF Ensure
<1> QED
  BY <1>1, <1>2, <1>3

LEMMA NativeStep ==
    ASSUME IInv, NEW t \in Thread, NEW ok \in BOOLEAN, NativeSet(t, ok)
    PROVE  IInv'
<1> USE CallbacksAssumption DEF IInv, TypeOK, Places, Goto, Overlap, Spoilt, Registered,
                                Setting, Once, Tells
<1>1. \/ status' = "registered" /\ UNCHANGED <<failed, trouble>>
      \/ failed' = failed \cup {t} /\ trouble' = trouble \cup {"spoilt"} /\ UNCHANGED status
  BY Zenon DEF NativeSet, Note
<1>2. pc[t] = "native" /\ pc' = [pc EXCEPT ![t] = "back"]
      /\ UNCHANGED <<kind, slot, refs, held, fn, calls, replaced, dead>>
  BY DEF NativeSet
<1>3. CASE status' = "registered" /\ UNCHANGED <<failed, trouble>>
  <2>1. \A u \in Thread : Frame(u)'
    BY <1>2, <1>3 DEF Frame
  <2>2. CountsExact'
    BY <1>2, <1>3 DEF CountsExact
  <2>3. Served'
    <3>1. CASE kind = "transport"
      BY <1>2, <3>1 DEF Served
    <3>2. CASE kind # "transport"
      <4>1. slot = Null => Spoilt
        BY <1>2, <3>2 DEF Frame
      <4> QED
        BY <1>2, <1>3, <4>1 DEF Served
    <3> QED
      BY <3>1, <3>2
  <2> QED
    BY <1>2, <1>3, <2>1, <2>2, <2>3
<1>4. CASE failed' = failed \cup {t} /\ trouble' = trouble \cup {"spoilt"} /\ UNCHANGED status
  <2>1. \A u \in Thread : Frame(u)'
    BY <1>2, <1>4 DEF Frame
  <2>2. CountsExact'
    BY <1>2, <1>4 DEF CountsExact
  <2>3. Served'
    BY <1>2, <1>4 DEF Served
  <2> QED
    BY <1>2, <1>4, <2>1, <2>2, <2>3
<1> QED
  BY <1>1, <1>3, <1>4

LEMMA TestStep ==
    ASSUME IInv, NEW t \in Thread, NEW f \in Fn \cup {Null}, TestCall(t, f)
    PROVE  IInv'
<1> USE CallbacksAssumption DEF IInv, TypeOK, Places, Goto, Overlap, Spoilt, Registered,
                                Setting, Once, Tells
<1>0. pc[t] = "idle" /\ pc' = [pc EXCEPT ![t] = "testing"] /\ kind \in Once
      /\ UNCHANGED <<slot, refs, replaced, kind, status, held, dead>>
  BY CallStep DEF TestCall, Call
<1>1. TypeOK'
  BY <1>0, CallStep DEF TestCall
<1>2. \A u \in Thread : Frame(u)'
  BY <1>0, CallStep DEF TestCall, Frame
<1>3. Overlap' \/ \A u, v \in Thread : Setting(u)' /\ Setting(v)' => u = v
  BY <1>0, CallStep DEF TestCall
<1>4. CountsExact' /\ Served'
  BY <1>0, CallStep DEF TestCall, CountsExact, Served
<1> QED
  BY <1>0, <1>1, <1>2, <1>3, <1>4, CallStep DEF TestCall

LEMMA TellStep ==
    ASSUME IInv, NEW t \in Thread, NEW f \in Fn \cup {Null}, TellFirst(t, f)
    PROVE  IInv'
<1> USE CallbacksAssumption DEF IInv, TypeOK, Places, Goto, Overlap, Spoilt, Registered,
                                Setting, Once, Tells
<1>0. pc[t] = "idle" /\ pc' = [pc EXCEPT ![t] = "native"] /\ kind = "transport"
      /\ UNCHANGED <<slot, refs, replaced, kind, status, held, dead>>
  BY CallStep DEF TellFirst, Call
<1>1. TypeOK'
  BY <1>0, CallStep DEF TellFirst
<1>2. \A u \in Thread : Frame(u)'
  BY <1>0, CallStep DEF TellFirst, Frame
<1>3. Overlap' \/ \A u, v \in Thread : Setting(u)' /\ Setting(v)' => u = v
  BY <1>0, CallStep DEF TellFirst
<1>4. CountsExact' /\ Served'
  BY <1>0, CallStep DEF TellFirst, CountsExact, Served
<1> QED
  BY <1>0, <1>1, <1>2, <1>3, <1>4, CallStep DEF TellFirst

(* Forget takes the program's reference, Dealloc the slot's. *)
LEMMA EndStep ==
    ASSUME IInv, (\E f \in Fn : Forget(f)) \/ Dealloc
    PROVE  IInv'
<1> USE CallbacksAssumption DEF IInv, TypeOK, Places, Overlap, Spoilt, Registered,
                                Setting, Once, Tells, hist
<1>1. ASSUME NEW f \in Fn, Forget(f) PROVE IInv'
  <2>0. f \in held /\ held' = held \ {f} /\ refs' = Less(refs, f)
        /\ (\A t \in Thread : Setting(t) => fn[t] # f)
        /\ UNCHANGED <<kind, slot, status, pc, fn, failed, calls, trouble, replaced, dead>>
    BY <1>1 DEF Forget
  <2>1. /\ refs' \in [Fn -> Nat]
        /\ \A g \in Fn : refs'[g] = IF g = f /\ refs[g] # 0 THEN refs[g] - 1 ELSE refs[g]
    BY <2>0, Counts
  <2>2. CountsExact'
    BY <2>0, <2>1 DEF CountsExact
  <2>3. ASSUME NEW u \in Thread PROVE Frame(u)'
    BY <2>0, <2>1 DEF Frame
  <2>4. Served'
    BY <2>0 DEF Served
  <2> QED
    BY <2>0, <2>1, <2>2, <2>3, <2>4
<1>2. CASE Dealloc
  <2>0. status' = "gone" /\ refs' = Less(refs, slot) /\ slot' = Null
        /\ (\A t \in Thread : pc[t] = "idle")
        /\ UNCHANGED <<kind, held, pc, fn, failed, calls, trouble, replaced, dead>>
    BY <1>2 DEF Dealloc
  <2>1. /\ refs' \in [Fn -> Nat]
        /\ \A g \in Fn : refs'[g] = IF g = slot /\ refs[g] # 0 THEN refs[g] - 1 ELSE refs[g]
    BY <2>0, Counts
  <2>2. CountsExact'
    BY <2>0, <2>1 DEF CountsExact
  <2>3. ASSUME NEW u \in Thread PROVE Frame(u)'
    BY <2>0 DEF Frame
  <2>4. Served'
    BY <2>0 DEF Served
  <2> QED
    BY <2>0, <2>1, <2>2, <2>3, <2>4
<1> QED
  BY <1>1, <1>2

LEMMA TestedStep ==
    ASSUME IInv, NEW t \in Thread, Tested(t)
    PROVE  IInv'
<1> USE CallbacksAssumption DEF IInv, TypeOK, Places, Goto, Overlap, Spoilt, Registered,
                                Setting, Once, Tells, hist
<1>0. pc[t] = "testing" /\ slot = Null /\ refs' = More(refs, fn[t]) /\ slot' = fn[t]
      /\ pc' = [pc EXCEPT ![t] = "idle"] /\ status' = "registered"
      /\ UNCHANGED <<kind, held, fn, failed, calls, trouble, replaced, dead>>
  BY DEF Tested, NotSet, Store
<1>1. /\ refs' \in [Fn -> Nat]
      /\ \A g \in Fn : refs'[g] = IF g = fn[t] THEN refs[g] + 1 ELSE refs[g]
  BY <1>0, Counts
<1>2. kind \in Once /\ fn[t] # Null
  BY <1>0 DEF Frame
<1>3. \A u \in Thread : pc[u] \notin {"store", "clear", "native", "back"}
  BY <1>2 DEF Frame
<1>4. CountsExact'
  BY <1>0, <1>1, <1>3 DEF CountsExact
<1>5. ASSUME NEW u \in Thread PROVE Frame(u)'
  <2>1. pc[u] = "running" => u # t /\ (fn[u] \in replaced \/ Overlap)
    BY <1>0 DEF Frame
  <2> QED
    BY <1>0, <1>2, <1>3, <2>1 DEF Frame
<1>6. Served'
  BY <1>0, <1>2 DEF Served
<1> QED
  BY <1>0, <1>1, <1>4, <1>5, <1>6

(* A call that is in progress: no other is, unless calls overlap. *)
LEMMA Alone ==
    ASSUME IInv, NEW t \in Thread, Setting(t), ~Overlap
    PROVE  \A u \in Thread : u # t => pc[u] \in {"idle", "peeked", "running"}
BY DEF IInv, TypeOK, Places, Setting

LEMMA StoreStep ==
    ASSUME IInv, NEW t \in Thread, StoreLater(t)
    PROVE  IInv'
<1> USE CallbacksAssumption DEF IInv, TypeOK, Places, Goto, Overlap, Spoilt, Registered,
                                Setting, Once, Tells, hist
<1>0. pc[t] = "store" /\ refs' = More(refs, fn[t]) /\ slot' = fn[t]
      /\ pc' = [pc EXCEPT ![t] = After]
      /\ UNCHANGED <<kind, status, held, fn, failed, calls, trouble, replaced, dead>>
  BY DEF StoreLater, Store
<1>1. /\ refs' \in [Fn -> Nat]
      /\ \A g \in Fn : refs'[g] = IF g = fn[t] THEN refs[g] + 1 ELSE refs[g]
  BY <1>0, Counts
<1>2. kind \notin Once /\ (fn[t] = Null => Spoilt) /\ (~Overlap => slot \in replaced)
  BY <1>0 DEF Frame
<1>3. After \in {"idle", "native"} /\ (After = "native" <=> ~Tells)
  BY DEF After
<1>4. ~Overlap => \A u \in Thread : u # t => pc[u] \in {"idle", "peeked", "running"}
  BY <1>0, Alone
<1>5. CountsExact'
  <2>1. ASSUME ~Overlap, NEW g \in Fn
        PROVE  refs'[g] = (IF g \in held THEN 1 ELSE 0) + (IF fn[t] = g THEN 1 ELSE 0)
    <3>1. refs[g] = IF g \in held THEN 1 ELSE 0
      BY <1>0, <2>1 DEF CountsExact
    <3> QED
      BY <1>1, <3>1
  <2>2. ~Overlap => \A u \in Thread : pc'[u] \notin {"store", "clear"}
    BY <1>0, <1>3, <1>4
  <2> QED
    BY <1>0, <2>1, <2>2 DEF CountsExact
<1>6. ASSUME NEW u \in Thread PROVE Frame(u)'
  <2>1. CASE u = t
    BY <1>0, <1>1, <1>2, <1>3, <2>1 DEF Frame
  <2>2. CASE u # t /\ Overlap
    BY <1>0, <1>1, <1>2, <2>2 DEF Frame
  <2>3. CASE u # t /\ ~Overlap
    BY <1>0, <1>2, <1>4, <2>3 DEF Frame
  <2> QED
    BY <2>1, <2>2, <2>3
<1>7. Served'
  BY <1>0, <1>2 DEF Served
<1> QED
  BY <1>0, <1>1, <1>3, <1>5, <1>6, <1>7

(* One callable takes the place of another. *)
LEMMA ReplaceStep ==
    ASSUME IInv, NEW t \in Thread, NEW f \in Fn \cup {Null}, NEW next \in Places,
           Replace(t, f, next), next \notin {"store", "clear"},
           \A u \in Thread : Setting(u) /\ ~Overlap' => u = t
    PROVE  /\ slot' \in Fn \cup {Null} /\ refs' \in [Fn -> Nat]
           /\ replaced' = replaced \cup ({slot} \ {Null})
           /\ \/ pc' = [pc EXCEPT ![t] = next] /\ slot' = f
              \/ /\ pc' = [pc EXCEPT ![t] = "store"] /\ slot' = slot /\ slot # Null
                 /\ refs'[slot] = 0
           /\ ~Overlap' /\ ~Overlap /\ pc[t] \notin {"store", "clear"}
              /\ (f # Null => f \in held) /\ held' = held => CountsExact'
<1> USE CallbacksAssumption DEF IInv, TypeOK, Places, Goto, Setting
<1>1. CASE Dies(slot)
  <2>0. refs' = Less(refs, slot) /\ pc' = [pc EXCEPT ![t] = "store"] /\ slot' = slot
        /\ slot \in Fn /\ refs[slot] = 1 /\ replaced' = replaced \cup ({slot} \ {Null})
    BY <1>1 DEF Replace, Dies
  <2>1. /\ refs' \in [Fn -> Nat]
        /\ \A g \in Fn : refs'[g] = IF g = slot /\ refs[g] # 0 THEN refs[g] - 1 ELSE refs[g]
    BY <2>0, Counts
  <2>2. ASSUME ~Overlap', ~Overlap, pc[t] \notin {"store", "clear"}, held' = held
        PROVE  CountsExact'
    <3>1. \A u \in Thread : pc[u] \notin {"store", "clear"}
      BY <2>2
    <3>2. slot \notin held
      BY <2>0, <2>2, <3>1 DEF CountsExact
    <3>3. ASSUME NEW g \in Fn PROVE refs'[g] = IF g \in held THEN 1 ELSE 0
      BY <2>0, <2>1, <2>2, <3>1, <3>2 DEF CountsExact
    <3>4. pc'[t] = "store"
      BY <2>0
    <3> QED
      BY <2>2, <3>3, <3>4 DEF CountsExact
  <2> QED
    BY <2>0, <2>1, <2>2
<1>2. CASE ~Dies(slot)
  <2> DEFINE r == Less(refs, slot)
  <2>0. refs' = More(r, f) /\ pc' = [pc EXCEPT ![t] = next] /\ slot' = f
        /\ replaced' = replaced \cup ({slot} \ {Null})
    BY <1>2 DEF Replace, Store
  <2>1. /\ r \in [Fn -> Nat]
        /\ \A g \in Fn : r[g] = IF g = slot /\ refs[g] # 0 THEN refs[g] - 1 ELSE refs[g]
    BY Counts
  <2>2. /\ refs' \in [Fn -> Nat]
        /\ \A g \in Fn : refs'[g] = IF g = f THEN r[g] + 1 ELSE r[g]
    <3> HIDE DEF r
    <3> QED
      BY <2>0, <2>1, Counts
  <2>3. ASSUME ~Overlap', ~Overlap, pc[t] \notin {"store", "clear"}, held' = held
        PROVE  CountsExact'
    <3>1. \A u \in Thread : pc[u] \notin {"store", "clear"} /\ pc'[u] \notin {"store", "clear"}
      BY <2>0, <2>3
    <3>2. ASSUME NEW g \in Fn PROVE r[g] = IF g \in held THEN 1 ELSE 0
      BY <2>1, <2>3, <3>1 DEF CountsExact
    <3>3. \A g \in Fn : refs'[g] = (IF g \in held THEN 1 ELSE 0) + (IF f = g THEN 1 ELSE 0)
      <4> HIDE DEF r
      <4> QED
        BY <2>2, <3>2
    <3> QED
      BY <2>0, <2>3, <3>1, <3>3 DEF CountsExact
  <2> QED
    BY <2>0, <2>2, <2>3
<1> QED
  BY <1>1, <1>2

(* What a replacement leaves of the frames of the other threads. *)
LEMMA OthersStep ==
    ASSUME IInv, TypeOK', NEW t \in Thread, NEW u \in Thread, u # t,
           UNCHANGED <<kind, status, held>>, Overlap => Overlap', Spoilt => Spoilt',
           pc'[u] = pc[u], fn'[u] = fn[u], u \in failed' <=> u \in failed,
           slot' = Null /\ ~Tells => Spoilt',
           slot' # slot => slot = Null \/ slot \in replaced' \/ Overlap',
           replaced \subseteq replaced',
           Setting(u) => Overlap'
    PROVE  Frame(u)'
<1> USE CallbacksAssumption DEF Setting, Registered, Tells
<1>1. Frame(u)
  BY DEF IInv
<1>2. CASE Setting(u)
  BY <1>1, <1>2 DEF Frame
<1>3. CASE ~Setting(u)
  <2>1. fn[u] = slot /\ slot' # slot /\ fn[u] # Null => fn[u] \in replaced' \/ Overlap'
    OBVIOUS
  <2> QED
    BY <1>1, <1>3, <2>1 DEF Frame
<1> QED
  BY <1>2, <1>3

LEMMA FirstStep ==
    ASSUME IInv, NEW t \in Thread, NEW f \in Fn \cup {Null}, SetFirst(t, f)
    PROVE  IInv'
<1> USE CallbacksAssumption DEF Places
<1>0. /\ pc[t] = "idle" /\ Call(t, f) /\ Replace(t, f, After) /\ After = "native"
      /\ kind \notin Once /\ ~Tells
  BY DEF SetFirst, Call, After
<1>1. \A u \in Thread : Setting(u) /\ ~Overlap' => u = t
  BY <1>0, CallStep
<1>2. /\ slot' \in Fn \cup {Null} /\ refs' \in [Fn -> Nat]
      /\ replaced' = replaced \cup ({slot} \ {Null})
      /\ \/ pc' = [pc EXCEPT ![t] = "native"] /\ slot' = f
         \/ /\ pc' = [pc EXCEPT ![t] = "store"] /\ slot' = slot /\ slot # Null
            /\ refs'[slot] = 0
      /\ ~Overlap' /\ ~Overlap => CountsExact'
  BY <1>0, <1>1, ReplaceStep, CallStep
<1>3. TypeOK'
  BY <1>0, <1>2, CallStep DEF IInv, TypeOK
<1>4. slot' = Null => Spoilt'
  BY <1>0, <1>2, CallStep
<1>5. ASSUME NEW u \in Thread PROVE Frame(u)'
  <2>1. CASE u = t
    <3>1. pc'[t] \in {"native", "store"} /\ fn'[t] = f /\ t \notin failed' /\ kind' = kind
          /\ held' = held
      BY <1>0, <1>2, CallStep DEF IInv, TypeOK
    <3>2. pc'[t] = "native" => slot' = f
      BY <1>2 DEF IInv, TypeOK
    <3>3. pc'[t] = "store" => slot' # Null /\ refs'[slot'] = 0 /\ slot' \in replaced'
      BY <1>2 DEF IInv, TypeOK
    <3> QED
      BY <1>0, <1>4, <2>1, <3>1, <3>2, <3>3, CallStep DEF Frame, Setting, Tells, Once
  <2>2. CASE u # t
    <3>1. pc'[u] = pc[u]
      BY <1>2, <2>2 DEF IInv, TypeOK
    <3> QED
      BY <1>0, <1>1, <1>2, <1>3, <1>4, <2>2, <3>1, CallStep, OthersStep
  <2> QED
    BY <2>1, <2>2
<1>6. Overlap' \/ \A u, v \in Thread : Setting(u)' /\ Setting(v)' => u = v
  <2>1. ASSUME ~Overlap', NEW u \in Thread, u # t PROVE ~Setting(u)'
    BY <1>1, <1>2, <2>1 DEF Setting, IInv, TypeOK
  <2> QED
    BY <2>1
<1>7. CountsExact'
  <2>1. CASE Overlap'
    BY <2>1 DEF CountsExact
  <2>2. CASE ~Overlap'
    BY <1>0, <1>2, <2>2, CallStep
  <2> QED
    BY <2>1, <2>2
<1>8. Served'
  BY <1>4 DEF Served
<1>9. (dead \subseteq replaced \/ Overlap)'
  BY <1>0, <1>2, CallStep DEF IInv
<1> QED
  BY <1>3, <1>5, <1>6, <1>7, <1>8, <1>9 DEF IInv

LEMMA SucceededStep ==
    ASSUME IInv, NEW t \in Thread, Succeeded(t)
    PROVE  IInv'
<1> USE CallbacksAssumption DEF Places, hist
<1>0. pc[t] = "back" /\ t \notin failed
      /\ UNCHANGED <<kind, status, held, fn, failed, calls, trouble, dead>>
  BY DEF Succeeded
<1>1. \A u \in Thread : Setting(u) /\ ~Overlap => u = t
  BY <1>0 DEF IInv, Setting
<1>2. UNCHANGED <<Overlap, Spoilt>>
  BY <1>0 DEF Overlap, Spoilt
<1>3. CASE ~Tells
  <2>0. pc' = [pc EXCEPT ![t] = "idle"] /\ UNCHANGED <<slot, refs, replaced>>
    BY <1>3 DEF Succeeded, Goto
  <2>1. TypeOK'
    BY <1>0, <2>0 DEF IInv, TypeOK
  <2>2. ASSUME NEW u \in Thread PROVE Frame(u)'
    BY <1>0, <1>2, <2>0 DEF IInv, TypeOK, Frame, Setting, Tells, Registered
  <2>3. CountsExact'
    BY <1>0, <1>2, <2>0 DEF IInv, TypeOK, CountsExact
  <2>4. Served'
    BY <1>0, <1>2, <1>3, <2>0 DEF IInv, TypeOK, Served, Tells, Registered
  <2>5. Overlap' \/ \A u, v \in Thread : Setting(u)' /\ Setting(v)' => u = v
    BY <1>1, <1>2, <2>0 DEF Setting, IInv, TypeOK
  <2> QED
    BY <1>0, <1>2, <2>0, <2>1, <2>2, <2>3, <2>4, <2>5 DEF IInv
<1>4. CASE Tells
  <2>0. Replace(t, fn[t], After) /\ After = "idle" /\ fn[t] \in held /\ fn[t] # Null
        /\ fn[t] \in Fn /\ kind = "transport" /\ kind \notin Once
    BY <1>0, <1>4 DEF Succeeded, After, IInv, TypeOK, Frame, Setting, Tells, Once
  <2>1. /\ slot' \in Fn \cup {Null} /\ refs' \in [Fn -> Nat]
        /\ replaced' = replaced \cup ({slot} \ {Null})
        /\ \/ pc' = [pc EXCEPT ![t] = "idle"] /\ slot' = fn[t]
           \/ /\ pc' = [pc EXCEPT ![t] = "store"] /\ slot' = slot /\ slot # Null
              /\ refs'[slot] = 0
        /\ ~Overlap => CountsExact'
    BY <1>0, <1>1, <1>2, <2>0, ReplaceStep
  <2>2. TypeOK'
    BY <1>0, <2>1 DEF IInv, TypeOK
  <2>3. slot' # Null
    BY <2>0, <2>1
  <2>4. ASSUME NEW u \in Thread PROVE Frame(u)'
    <3>1. CASE u = t
      <4>1. pc'[t] \in {"idle", "store"}
        BY <2>1 DEF IInv, TypeOK
      <4>2. pc'[t] = "store" => slot' # Null /\ refs'[slot'] = 0 /\ slot' \in replaced'
        BY <2>1 DEF IInv, TypeOK
      <4> QED
        BY <1>0, <2>0, <3>1, <4>1, <4>2 DEF Frame, Setting, Tells, Once
    <3>2. CASE u # t
      <4>1. pc'[u] = pc[u]
        BY <2>1, <3>2 DEF IInv, TypeOK
      <4> QED
        BY <1>0, <1>1, <1>2, <2>1, <2>2, <2>3, <3>2, <4>1, OthersStep
    <3> QED
      BY <3>1, <3>2
  <2>5. Overlap' \/ \A u, v \in Thread : Setting(u)' /\ Setting(v)' => u = v
    <3>1. ASSUME ~Overlap', NEW u \in Thread, u # t PROVE ~Setting(u)'
      BY <1>1, <1>2, <2>1, <3>1 DEF Setting, IInv, TypeOK
    <3> QED
      BY <3>1
  <2>6. CountsExact'
    BY <1>2, <2>1 DEF CountsExact
  <2>7. Served' /\ (dead \subseteq replaced \/ Overlap)'
    BY <1>0, <1>2, <2>1, <2>3 DEF Served, IInv
  <2> QED
    BY <2>2, <2>4, <2>5, <2>6, <2>7 DEF IInv
<1> QED
  BY <1>3, <1>4

LEMMA FailedStep ==
    ASSUME IInv, NEW t \in Thread, Failed(t)
    PROVE  IInv'
<1> USE CallbacksAssumption DEF Places, hist
<1>0. pc[t] = "back" /\ t \in failed
      /\ UNCHANGED <<kind, status, held, fn, failed, calls, trouble, dead>>
  BY DEF Failed
<1>1. \A u \in Thread : Setting(u) /\ ~Overlap => u = t
  BY <1>0 DEF IInv, Setting
<1>2. UNCHANGED <<Overlap, Spoilt>> /\ Spoilt
  BY <1>0 DEF Overlap, Spoilt, IInv, Frame
<1>3. CASE Tells
  <2>0. pc' = [pc EXCEPT ![t] = "idle"] /\ UNCHANGED <<slot, refs, replaced>>
    BY <1>3 DEF Failed, Goto
  <2>1. TypeOK'
    BY <1>0, <2>0 DEF IInv, TypeOK
  <2>2. ASSUME NEW u \in Thread PROVE Frame(u)'
    BY <1>0, <1>2, <2>0 DEF IInv, TypeOK, Frame, Setting, Tells, Registered
  <2>3. CountsExact'
    BY <1>0, <1>2, <2>0 DEF IInv, TypeOK, CountsExact
  <2>4. Served'
    BY <1>2 DEF Served
  <2>5. Overlap' \/ \A u, v \in Thread : Setting(u)' /\ Setting(v)' => u = v
    BY <1>1, <1>2, <2>0 DEF Setting, IInv, TypeOK
  <2> QED
    BY <1>0, <1>2, <2>0, <2>1, <2>2, <2>3, <2>4, <2>5 DEF IInv
<1>4. CASE ~Tells
  <2> DEFINE g == Given(t)
  <2>0. /\ refs' = Less(refs, g)
        /\ replaced' = replaced \cup ({slot} \ {Null})
        /\ \/ /\ pc' = [pc EXCEPT ![t] = "clear"] /\ slot' = slot
              /\ g \in Fn /\ refs[g] = 1
           \/ /\ pc' = [pc EXCEPT ![t] = "idle"] /\ slot' = Null
              /\ (g = Null \/ refs[g] # 1)
        /\ g \in Fn \cup {Null} /\ (~Overlap => slot = g)
    BY <1>0, <1>4 DEF Failed, Goto, Dies, Given, IInv, TypeOK, Frame, Tells
  <2>1. /\ refs' \in [Fn -> Nat]
        /\ \A h \in Fn : refs'[h] = IF h = g /\ refs[h] # 0 THEN refs[h] - 1 ELSE refs[h]
    <3> HIDE DEF g
    <3> QED
      BY <2>0, Counts DEF IInv, TypeOK
  <2> HIDE DEF g
  <2>2. TypeOK'
    BY <1>0, <2>0, <2>1 DEF IInv, TypeOK
  <2>3. ASSUME NEW u \in Thread PROVE Frame(u)'
    <3>1. CASE u = t
      <4>1. pc'[t] \in {"idle", "clear"}
        BY <2>0 DEF IInv, TypeOK
      <4>2. pc'[t] = "clear" => /\ slot' = slot
                                /\ ~Overlap => slot # Null /\ refs'[slot] = 0 /\ slot \in replaced'
        BY <2>0, <2>1 DEF IInv, TypeOK
      <4> QED
        BY <1>0, <1>2, <3>1, <4>1, <4>2 DEF IInv, Frame, Setting, Tells, Once
    <3>2. CASE u # t
      <4>1. pc'[u] = pc[u]
        BY <2>0, <3>2 DEF IInv, TypeOK
      <4>2. slot' # slot => slot = Null \/ slot \in replaced'
        BY <2>0
      <4> QED
        BY <1>0, <1>1, <1>2, <2>0, <2>2, <3>2, <4>1, <4>2, OthersStep
    <3> QED
      BY <3>1, <3>2
  <2>4. CountsExact'
    <3>1. CASE Overlap
      BY <1>2, <3>1 DEF CountsExact
    <3>2. CASE ~Overlap
      <4>1. \A u \in Thread : pc[u] \notin {"store", "clear"}
        BY <1>0, <1>1, <3>2 DEF Setting
      <4>2. ASSUME NEW h \in Fn PROVE refs'[h] = IF h \in held THEN 1 ELSE 0
        BY <2>0, <2>1, <3>2, <4>1 DEF CountsExact, IInv, TypeOK
      <4>3. slot' = Null \/ pc'[t] = "clear"
        BY <2>0 DEF IInv, TypeOK
      <4> QED
        BY <1>0, <4>2, <4>3 DEF CountsExact
    <3> QED
      BY <3>1, <3>2
  <2>5. Served' /\ (dead \subseteq replaced \/ Overlap)'
    BY <1>0, <1>2, <2>0 DEF Served, IInv
  <2>6. Overlap' \/ \A u, v \in Thread : Setting(u)' /\ Setting(v)' => u = v
    <3>1. ASSUME ~Overlap', NEW u \in Thread, u # t PROVE ~Setting(u)'
      BY <1>1, <1>2, <2>0, <3>1 DEF Setting, IInv, TypeOK
    <3> QED
      BY <3>1
  <2> QED
    BY <2>2, <2>3, <2>4, <2>5, <2>6 DEF IInv
<1> QED
  BY <1>3, <1>4

LEMMA ClearStep ==
    ASSUME IInv, NEW t \in Thread, Clear(t)
    PROVE  IInv'
<1> USE CallbacksAssumption DEF Places, hist
<1>0. /\ pc[t] = "clear" /\ pc' = [pc EXCEPT ![t] = "idle"] /\ slot' = Null
      /\ UNCHANGED <<kind, status, refs, held, fn, failed, calls, trouble, replaced, dead>>
  BY DEF Clear, Goto
<1>1. UNCHANGED <<Overlap, Spoilt>> /\ Spoilt
  BY <1>0 DEF Overlap, Spoilt, IInv, Frame
<1>2. ~Overlap => slot \in replaced /\ \A u \in Thread : Setting(u) => u = t
  BY <1>0 DEF IInv, Frame, Setting
<1>3. TypeOK'
  BY <1>0 DEF IInv, TypeOK
<1>4. ASSUME NEW u \in Thread PROVE Frame(u)'
  <2>1. CASE u = t
    BY <1>0, <1>1, <2>1 DEF IInv, TypeOK, Frame, Setting, Tells, Once
  <2>2. CASE u # t
    <3>1. pc'[u] = pc[u]
      BY <1>0, <2>2 DEF IInv, TypeOK
    <3> QED
      BY <1>0, <1>1, <1>2, <1>3, <2>2, <3>1, OthersStep
  <2> QED
    BY <2>1, <2>2
<1>5. CountsExact'
  <2>1. CASE Overlap
    BY <1>1, <2>1 DEF CountsExact
  <2>2. CASE ~Overlap
    BY <1>0, <2>2 DEF CountsExact, IInv
  <2> QED
    BY <2>1, <2>2
<1>6. Served' /\ (dead \subseteq replaced \/ Overlap)'
  BY <1>0, <1>1 DEF Served, IInv
<1>7. Overlap' \/ \A u, v \in Thread : Setting(u)' /\ Setting(v)' => u = v
  <2>1. ASSUME ~Overlap', NEW u \in Thread, u # t PROVE ~Setting(u)'
    BY <1>0, <1>1, <1>2, <2>1 DEF Setting, IInv, TypeOK
  <2> QED
    BY <2>1
<1> QED
  BY <1>3, <1>4, <1>5, <1>6, <1>7 DEF IInv

LEMMA StepInv ==
    ASSUME IInv, [Next]_vars
    PROVE  IInv'
<1>1. CASE UNCHANGED vars
  BY <1>1 DEF IInv, TypeOK, Frame, CountsExact, Served, Setting, Overlap, Spoilt, Registered,
              Tells, Once, vars, hist
<1>2. ASSUME NEW t \in Thread, NEW f \in Fn \cup {Null},
             SetFirst(t, f) \/ TellFirst(t, f) \/ TestCall(t, f)
      PROVE  IInv'
  BY <1>2, FirstStep, TellStep, TestStep
<1>3. ASSUME NEW t \in Thread, NEW ok \in BOOLEAN, NativeSet(t, ok) PROVE IInv'
  BY <1>3, NativeStep
<1>4. ASSUME NEW t \in Thread,
             StoreLater(t) \/ Succeeded(t) \/ Failed(t) \/ Clear(t) \/ Tested(t)
      PROVE  IInv'
  BY <1>4, StoreStep, SucceededStep, FailedStep, ClearStep, TestedStep
<1>5. ASSUME NEW t \in Thread,
             TestRefused(t) \/ CallBack(t) \/ Ensure(t) \/ Unanswered(t) \/ Finish(t)
      PROVE  IInv'
  BY <1>5, QuietStep
<1>6. CASE (\E f \in Fn : Forget(f)) \/ Dealloc
  BY <1>6, EndStep
<1> QED
  BY <1>1, <1>2, <1>3, <1>4, <1>5, <1>6 DEF Next

(* The invariant holds of every behaviour: it is inductive. *)
THEOREM InvariantHolds == Spec => []IInv
<1>1. Init => IInv
  BY InitInv
<1>2. IInv /\ [Next]_vars => IInv'
  BY StepInv
<1> QED
  BY <1>1, <1>2, PTL DEF Spec

(* While calls that set the slot do not overlap, a callable is referred to by
   the program and by the slot, and by nothing else. *)
THEOREM CountsAreExact == Spec => []CountsExact
<1>1. IInv => CountsExact
  BY DEF IInv
<1> QED
  BY <1>1, InvariantHolds, PTL

(* Where the library calls back, a callable is there to be called. *)
THEOREM CallbacksServed == Spec => []Served
<1>1. IInv => Served
  BY DEF IInv
<1> QED
  BY <1>1, InvariantHolds, PTL

(* A callback runs a callable that is alive, or one that was replaced. *)
THEOREM NeverFreedUnderCall == Spec => []CalledAlive
<1>1. IInv => CalledAlive
  <2> SUFFICES ASSUME IInv, ~Overlap, NEW f \in Fn,
                      f \in dead \/ \E t \in Thread : pc[t] = "running" /\ fn[t] = f /\ refs[f] = 0
               PROVE  f \in replaced
    BY DEF CalledAlive
  <2>1. CASE f \in dead
    BY <2>1 DEF IInv
  <2>2. ASSUME NEW t \in Thread, pc[t] = "running", fn[t] = f, refs[f] = 0 PROVE f \in replaced
    <3>1. CASE f = slot /\ \A u \in Thread : pc[u] \notin {"store", "clear"}
      BY <2>2, <3>1 DEF IInv, CountsExact
    <3>2. ASSUME f = slot, NEW u \in Thread, pc[u] \in {"store", "clear"} PROVE f \in replaced
      BY <3>2 DEF IInv, Frame
    <3>3. CASE f # slot
      BY <2>2, <3>3 DEF IInv, Frame
    <3> QED
      BY <3>1, <3>2, <3>3
  <2> QED
    BY <2>1, <2>2
<1> QED
  BY <1>1, InvariantHolds, PTL

(* Once a comparator is set it stays for as long as the DB does. *)
THEOREM ComparatorStays == Spec => SetForGood
<1> DEFINE Stays == kind \in Once /\ slot # Null /\ status' # "gone" => slot' = slot
<1>1. IInv /\ [Next]_vars => [Stays]_vars
  <2> SUFFICES ASSUME IInv, Next, kind \in Once, slot # Null, status' # "gone"
               PROVE  slot' = slot
    OBVIOUS
  <2>1. \A t \in Thread : pc[t] \notin {"store", "native", "back", "clear"}
    BY DEF IInv, Frame, Setting
  <2>2. ASSUME NEW t \in Thread, NEW f \in Fn \cup {Null},
               SetFirst(t, f) \/ TellFirst(t, f) \/ TestCall(t, f)
        PROVE  slot' = slot
    BY <2>2 DEF SetFirst, TellFirst, TestCall
  <2>3. ASSUME NEW t \in Thread, NEW ok \in BOOLEAN, NativeSet(t, ok) PROVE slot' = slot
    BY <2>3 DEF NativeSet
  <2>4. ASSUME NEW t \in Thread,
               StoreLater(t) \/ Succeeded(t) \/ Failed(t) \/ Clear(t) \/ Tested(t)
        PROVE  slot' = slot
    BY <2>1, <2>4 DEF StoreLater, Succeeded, Failed, Clear, Tested, NotSet
  <2>5. ASSUME NEW t \in Thread,
               TestRefused(t) \/ CallBack(t) \/ Ensure(t) \/ Unanswered(t) \/ Finish(t)
        PROVE  slot' = slot
    BY <2>5 DEF TestRefused, CallBack, Ensure, Unanswered, Finish
  <2>6. ASSUME NEW f \in Fn, Forget(f) PROVE slot' = slot
    BY <2>6 DEF Forget
  <2>7. ~Dealloc
    BY DEF Dealloc
  <2> QED
    BY <2>2, <2>3, <2>4, <2>5, <2>6, <2>7 DEF Next
<1> QED
  BY <1>1, InvariantHolds, PTL DEF Spec, SetForGood
=============================================================================
