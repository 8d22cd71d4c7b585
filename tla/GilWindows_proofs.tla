------------------------- MODULE GilWindows_proofs -------------------------
(* Theorems about GilWindows, for any number of threads and handles, when    *)
(* the program is Orderly.                                                   *)
EXTENDS GilWindows, TLAPS

(***************************************************************************)
(* What the calls of an orderly program reach.                             *)
(***************************************************************************)

Fits(fn, h) ==
    \/ fn = "env" /\ h = Env
    \/ fn \in {"commit", "abort", "cursors"} /\ h \in Txn
    \/ fn = "db" /\ h \in DB
    \/ fn \in {"cursor", "newcursor"} /\ h \in Cursor

(* The functions work on handles of their kind. *)
LEMMA FrameKinds ==
    \A f \in Frame : /\ Fits(f.call.fn, f.call.h)
                     /\ f.at \in {"start", "test", "cursors", "dbs", "native", "back"}
BY DEF Frame, Call, CallOf, Fits

LEMMA CallKinds ==
    \A a \in Call : /\ Fits(a.fn, a.h) /\ a.fn # "cursors"
                    /\ a.db \in DB \cup {None} /\ a.txn \in Txn \cup {None}
                    /\ a.fn = "newcursor" => a.db \in DB
                    /\ a.fn # "newcursor" => a = CallOf(a.fn, a.h)
BY DEF Call, CallOf, Fits

(* What reaches a transaction reaches what was opened or begun in it. *)
LEMMA ReachTxn ==
    ASSUME NEW a \in Call, NEW t \in Txn, t \in Reach(a)
    PROVE  /\ Using({t}) \subseteq Reach(a)
           /\ \A d \in DB : OpenedIn[d] = t => d \in Reach(a)
<1> USE CallAssumption
<1>1. CASE a.fn = "env"
  BY <1>1 DEF Reach, Handle, Using
<1>2. CASE a.fn # "env"
  <2> DEFINE S == {a.h} \cup {d \in DB : OpenedIn[d] = a.h}
  <2>1. Reach(a) = S \cup Using(S)
    BY <1>2 DEF Reach
  <2>2. t = a.h
    BY <2>1 DEF Using
  <2>3. Using({t}) \subseteq Using(S)
    BY <2>2 DEF Using
  <2> QED
    BY <2>1, <2>2, <2>3
<1> QED
  BY <1>1, <1>2

LEMMA ReachDB ==
    ASSUME NEW a \in Call, NEW d \in DB, d \in Reach(a)
    PROVE  Using({d}) \subseteq Reach(a)
<1> USE CallAssumption
<1>1. CASE a.fn = "env"
  BY <1>1 DEF Reach, Handle, Using
<1>2. CASE a.fn # "env"
  <2> DEFINE S == {a.h} \cup {e \in DB : OpenedIn[e] = a.h}
  <2>1. Reach(a) = S \cup Using(S)
    BY <1>2 DEF Reach
  <2>2. d \in S
    BY <2>1 DEF Using
  <2>3. Using({d}) \subseteq Using(S)
    BY <2>2 DEF Using
  <2> QED
    BY <2>1, <2>3
<1> QED
  BY <1>1, <1>2

LEMMA ReachSelf == \A a \in Call : a.h \in Reach(a)
BY CallKinds DEF Reach, Fits, Handle

LEMMA ReachOfNew ==
    ASSUME NEW n \in Call, n.fn = "newcursor" PROVE Reach(n) = {n.h}
<1> USE CallAssumption
<1>1. n.h \in Cursor
  BY CallKinds DEF Fits
<1>2. {d \in DB : OpenedIn[d] = n.h} = {}
  BY <1>1 DEF Handle
<1>3. Using({n.h}) = {}
  <2> SUFFICES ASSUME NEW c \in Using({n.h}) PROVE FALSE
    OBVIOUS
  <2>1. PICK th \in Thread : \E m \in May[th] : {m.db, m.txn} \cap {n.h} # {}
    BY DEF Using
  <2>2. PICK m \in May[th] : n.h \in {m.db, m.txn}
    BY <2>1
  <2>3. m \in Call
    OBVIOUS
  <2> QED
    BY <1>1, <2>2, <2>3, CallKinds DEF Handle
<1>4. {n.h} \cup {d \in DB : OpenedIn[d] = n.h} = {n.h}
  BY <1>2
<1> QED
  BY <1>3, <1>4 DEF Reach, Handle

LEMMA UsingIs ==
    ASSUME NEW th \in Thread, NEW n \in May[th], n.fn = "newcursor", NEW x \in {n.db, n.txn}
    PROVE  n.h \in Using({x})
<1>1. n \in Call
  BY CallAssumption
<1> QED
  BY <1>1, CallKinds DEF Using, Fits

(***************************************************************************)
(* The stack of one thread.                                                *)
(***************************************************************************)

LEMMA PosSome ==
    ASSUME NEW s \in Seq(Frame), Ordered(s), NEW i \in 1 .. Len(s)
    PROVE  PosIn(s, s[i].call.fn, s[i].call.h) = s[i].at
<1> DEFINE I == {j \in 1 .. Len(s) : s[j].call.fn = s[i].call.fn /\ s[j].call.h = s[i].call.h}
<1>1. \A j \in I : j = i
  <2> SUFFICES ASSUME NEW j \in I, j # i PROVE FALSE
    OBVIOUS
  <2>1. j < i \/ i < j
    OBVIOUS
  <2>2. \A f : ~(Rank(f) < Rank(f))
    BY DEF Rank
  <2> QED
    BY <2>1, <2>2 DEF Ordered
<1>2. (CHOOSE j \in I : TRUE) = i
  BY <1>1
<1>3. I # {}
  OBVIOUS
<1> HIDE DEF I
<1> QED
  BY <1>2, <1>3 DEF PosIn, I

LEMMA PosNone ==
    ASSUME NEW s, NEW fn, NEW h,
           \A i \in 1 .. Len(s) : ~(s[i].call.fn = fn /\ s[i].call.h = h)
    PROVE  PosIn(s, fn, h) = "none"
BY DEF PosIn

LEMMA PosIs ==
    ASSUME NEW s \in Seq(Frame), Ordered(s), NEW fn, NEW h, PosIn(s, fn, h) # "none"
    PROVE  \E i \in 1 .. Len(s) : s[i].call.fn = fn /\ s[i].call.h = h /\ s[i].at = PosIn(s, fn, h)
<1>1. PICK i \in 1 .. Len(s) : s[i].call.fn = fn /\ s[i].call.h = h
  BY PosNone
<1> QED
  BY <1>1, PosSome

LEMMA NotThere ==
    ASSUME NEW s \in Seq(Frame), Ordered(s), NEW fn, NEW h, PosIn(s, fn, h) = "none"
    PROVE  \A i \in 1 .. Len(s) : ~(s[i].call.fn = fn /\ s[i].call.h = h)
<1> SUFFICES ASSUME NEW i \in 1 .. Len(s), s[i].call.fn = fn, s[i].call.h = h PROVE FALSE
  OBVIOUS
<1>1. PosIn(s, fn, h) = s[i].at
  BY PosSome
<1> QED
  BY <1>1, FrameKinds

LEMMA RanksAre == \A fn : Rank(fn) \in 1 .. 4
BY DEF Rank

(* The innermost frame moves on, returns, or calls. *)
Moved(s, at) == <<[s[1] EXCEPT !.at = at]>> \o Tail(s)
Pushed(s, call, at, next) == <<[call |-> call, at |-> at], [s[1] EXCEPT !.at = next]>> \o Tail(s)
OuterOf(s) == s[Len(s)].call
Places == {"start", "test", "cursors", "dbs", "native", "back"}

LEMMA MovedStack ==
    ASSUME NEW s \in Seq(Frame), s # << >>, Ordered(s), NEW at \in Places
    PROVE  /\ Moved(s, at) \in Seq(Frame) /\ Moved(s, at) # << >> /\ Ordered(Moved(s, at))
           /\ Len(Moved(s, at)) = Len(s)
           /\ \A i \in 1 .. Len(s) : Moved(s, at)[i].call = s[i].call
           /\ OuterOf(Moved(s, at)) = OuterOf(s)
           /\ \A g, x : PosIn(Moved(s, at), g, x) =
                 IF g = s[1].call.fn /\ x = s[1].call.h THEN at ELSE PosIn(s, g, x)
<1> DEFINE f == [s[1] EXCEPT !.at = at]
           r == Moved(s, at)
<1>1. s[1] \in Frame /\ Tail(s) \in Seq(Frame) /\ Len(Tail(s)) = Len(s) - 1 /\ Len(s) \in Nat \ {0}
  OBVIOUS
<1>2. f \in Frame /\ f.call = s[1].call /\ f.at = at
  BY <1>1 DEF Frame, Places
<1>3. /\ r \in Seq(Frame) /\ Len(r) = Len(s) /\ r[1] = f
      /\ \A i \in 2 .. Len(s) : r[i] = s[i]
  BY <1>1, <1>2 DEF Moved
<1> HIDE DEF f, r
<1>4. \A i \in 1 .. Len(s) : r[i].call = s[i].call /\ (i # 1 => r[i] = s[i])
  BY <1>2, <1>3
<1>5. Ordered(r)
  BY <1>3, <1>4 DEF Ordered
<1>6. ASSUME NEW g, NEW x
      PROVE  PosIn(r, g, x) = IF g = s[1].call.fn /\ x = s[1].call.h THEN at ELSE PosIn(s, g, x)
  <2>1. CASE g = s[1].call.fn /\ x = s[1].call.h
    <3>1. 1 \in 1 .. Len(r) /\ r[1].call = s[1].call /\ r[1].at = at
      BY <1>1, <1>2, <1>3
    <3> QED
      BY <2>1, <3>1, <1>3, <1>5, PosSome
  <2>2. CASE ~(g = s[1].call.fn /\ x = s[1].call.h) /\ PosIn(s, g, x) # "none"
    <3>1. PICK i \in 1 .. Len(s) : s[i].call.fn = g /\ s[i].call.h = x /\ s[i].at = PosIn(s, g, x)
      BY <2>2, PosIs
    <3>2. i # 1 /\ i \in 1 .. Len(r)
      BY <3>1, <2>2, <1>3
    <3> QED
      BY <3>1, <3>2, <2>2, <1>3, <1>4, <1>5, PosSome
  <2>3. CASE ~(g = s[1].call.fn /\ x = s[1].call.h) /\ PosIn(s, g, x) = "none"
    <3>1. \A i \in 1 .. Len(s) : ~(s[i].call.fn = g /\ s[i].call.h = x)
      BY <2>3, NotThere
    <3>2. \A i \in 1 .. Len(r) : ~(r[i].call.fn = g /\ r[i].call.h = x)
      BY <3>1, <1>3, <1>4
    <3> QED
      BY <3>2, <2>3, PosNone
  <2> QED
    BY <2>1, <2>2, <2>3
<1>7. r # << >> /\ OuterOf(r) = OuterOf(s)
  BY <1>1, <1>3, <1>4 DEF OuterOf
<1> QED
  BY <1>3, <1>4, <1>5, <1>6, <1>7 DEF r

LEMMA ReturnedStack ==
    ASSUME NEW s \in Seq(Frame), s # << >>, Ordered(s)
    PROVE  /\ Tail(s) \in Seq(Frame) /\ Ordered(Tail(s))
           /\ Len(Tail(s)) = Len(s) - 1
           /\ \A i \in 1 .. Len(Tail(s)) : Tail(s)[i] = s[i + 1]
           /\ Tail(s) # << >> => OuterOf(Tail(s)) = OuterOf(s)
           /\ \A g, x : PosIn(Tail(s), g, x) =
                 IF g = s[1].call.fn /\ x = s[1].call.h THEN "none" ELSE PosIn(s, g, x)
<1> DEFINE r == Tail(s)
<1>1. /\ r \in Seq(Frame) /\ Len(r) = Len(s) - 1 /\ Len(s) \in Nat \ {0}
      /\ \A i \in 1 .. Len(r) : r[i] = s[i + 1] /\ i + 1 \in 2 .. Len(s)
      /\ \A i \in 2 .. Len(s) : i - 1 \in 1 .. Len(r) /\ s[i] = r[i - 1]
  OBVIOUS
<1>2. r # << >> => OuterOf(r) = OuterOf(s)
  BY DEF OuterOf
<1> HIDE DEF r
<1>3. Ordered(r)
  <2> SUFFICES ASSUME NEW i \in 1 .. Len(r), NEW j \in 1 .. Len(r), i < j
               PROVE  /\ Rank(r[i].call.fn) < Rank(r[j].call.fn)
                      /\ "newcursor" \notin {r[i].call.fn, r[j].call.fn}
    BY DEF Ordered
  <2>1. i + 1 \in 1 .. Len(s) /\ j + 1 \in 1 .. Len(s) /\ i + 1 < j + 1
    BY <1>1
  <2>2. r[i] = s[i + 1] /\ r[j] = s[j + 1]
    BY <1>1
  <2> QED
    BY <2>1, <2>2 DEF Ordered
<1>4. ASSUME NEW g, NEW x
      PROVE  PosIn(r, g, x) = IF g = s[1].call.fn /\ x = s[1].call.h THEN "none" ELSE PosIn(s, g, x)
  <2>1. CASE g = s[1].call.fn /\ x = s[1].call.h
    <3>1. \A i \in 1 .. Len(r) : ~(r[i].call.fn = g /\ r[i].call.h = x)
      <4> SUFFICES ASSUME NEW i \in 1 .. Len(r), r[i].call.fn = g PROVE FALSE
        OBVIOUS
      <4>1. 1 \in 1 .. Len(s) /\ i + 1 \in 1 .. Len(s) /\ 1 < i + 1 /\ r[i] = s[i + 1]
        BY <1>1
      <4>2. Rank(g) < Rank(g)
        BY <4>1, <2>1 DEF Ordered
      <4> QED
        BY <4>2, RanksAre
    <3> QED
      BY <3>1, <2>1, PosNone
  <2>2. CASE ~(g = s[1].call.fn /\ x = s[1].call.h) /\ PosIn(s, g, x) # "none"
    <3>1. PICK i \in 1 .. Len(s) : s[i].call.fn = g /\ s[i].call.h = x /\ s[i].at = PosIn(s, g, x)
      BY <2>2, PosIs
    <3>2. i \in 2 .. Len(s)
      BY <3>1, <2>2, <1>1
    <3>3. i - 1 \in 1 .. Len(r) /\ r[i - 1] = s[i]
      BY <3>2, <1>1
    <3> QED
      BY <3>1, <3>3, <2>2, <1>1, <1>3, PosSome
  <2>3. CASE ~(g = s[1].call.fn /\ x = s[1].call.h) /\ PosIn(s, g, x) = "none"
    <3>1. \A i \in 1 .. Len(s) : ~(s[i].call.fn = g /\ s[i].call.h = x)
      BY <2>3, NotThere
    <3>2. \A i \in 1 .. Len(r) : ~(r[i].call.fn = g /\ r[i].call.h = x)
      BY <3>1, <1>1
    <3> QED
      BY <3>2, <2>3, PosNone
  <2> QED
    BY <2>1, <2>2, <2>3
<1> QED
  BY <1>1, <1>2, <1>3, <1>4 DEF r

LEMMA PushedStack ==
    ASSUME NEW s \in Seq(Frame), s # << >>, Ordered(s), NEW call, NEW at \in Places, NEW next \in Places,
           [call |-> call, at |-> at] \in Frame,
           Rank(call.fn) < Rank(s[1].call.fn), "newcursor" \notin {call.fn, s[1].call.fn}
    PROVE  LET r == Pushed(s, call, at, next)
           IN  /\ r \in Seq(Frame) /\ r # << >> /\ Ordered(r) /\ Len(r) = Len(s) + 1
               /\ r[1].call = call
               /\ \A i \in 2 .. Len(r) : r[i].call = s[i - 1].call
               /\ OuterOf(r) = OuterOf(s)
               /\ \A g, x : PosIn(r, g, x) =
                     IF g = call.fn /\ x = call.h THEN at
                     ELSE IF g = s[1].call.fn /\ x = s[1].call.h THEN next ELSE PosIn(s, g, x)
<1> DEFINE f == [call |-> call, at |-> at]
           m == Moved(s, next)
           r == Pushed(s, call, at, next)
<1>1. /\ m \in Seq(Frame) /\ m # << >> /\ Ordered(m) /\ Len(m) = Len(s)
      /\ \A i \in 1 .. Len(s) : m[i].call = s[i].call
      /\ OuterOf(m) = OuterOf(s)
      /\ \A g, x : PosIn(m, g, x) = IF g = s[1].call.fn /\ x = s[1].call.h THEN next ELSE PosIn(s, g, x)
  BY MovedStack
<1>2. f \in Frame /\ f.call = call /\ f.at = at /\ Len(m) \in Nat \ {0}
  BY <1>1
<1>3. /\ r \in Seq(Frame) /\ Len(r) = Len(m) + 1 /\ r[1] = f
      /\ \A i \in 1 .. Len(m) : r[i + 1] = m[i]
  <2> DEFINE e == [s[1] EXCEPT !.at = next]
  <2>1. s[1] \in Frame /\ Tail(s) \in Seq(Frame) /\ Len(Tail(s)) = Len(s) - 1 /\ Len(s) \in Nat \ {0}
    OBVIOUS
  <2>2. e \in Frame
    BY <2>1 DEF Frame, Places
  <2>3. r = <<f, e>> \o Tail(s) /\ m = <<e>> \o Tail(s)
    BY DEF Pushed, Moved
  <2> HIDE DEF f, m, r, e
  <2> QED
    BY <1>2, <2>1, <2>2, <2>3
<1> HIDE DEF f, m, r
<1>4. /\ r # << >> /\ \A i \in 1 .. Len(m) : i + 1 \in 2 .. Len(r)
      /\ \A i \in 2 .. Len(r) : i - 1 \in 1 .. Len(m) /\ r[i] = m[i - 1]
  <2>1. \A i \in 2 .. Len(r) : i - 1 \in 1 .. Len(m) /\ i = (i - 1) + 1
    BY <1>2, <1>3
  <2> QED
    BY <1>2, <1>3, <2>1
<1>5. \A i \in 1 .. Len(m) : Rank(call.fn) < Rank(m[i].call.fn) /\ m[i].call.fn # "newcursor"
  <2> SUFFICES ASSUME NEW i \in 1 .. Len(m)
               PROVE  Rank(call.fn) < Rank(m[i].call.fn) /\ m[i].call.fn # "newcursor"
    OBVIOUS
  <2>1. CASE i = 1
    BY <2>1, <1>1, <1>2
  <2>2. CASE i # 1
    <3>1. 1 < i /\ 1 \in 1 .. Len(m) /\ m[1].call.fn = s[1].call.fn
      BY <2>2, <1>1, <1>2
    <3>2. Rank(m[1].call.fn) < Rank(m[i].call.fn) /\ m[i].call.fn # "newcursor"
      BY <3>1, <1>1 DEF Ordered
    <3> QED
      BY <3>1, <3>2, RanksAre
  <2> QED
    BY <2>1, <2>2
<1>6. Ordered(r)
  <2> SUFFICES ASSUME NEW i \in 1 .. Len(r), NEW j \in 1 .. Len(r), i < j
               PROVE  /\ Rank(r[i].call.fn) < Rank(r[j].call.fn)
                      /\ "newcursor" \notin {r[i].call.fn, r[j].call.fn}
    BY DEF Ordered
  <2>1. j \in 2 .. Len(r) /\ j - 1 \in 1 .. Len(m) /\ r[j] = m[j - 1]
    BY <1>2, <1>3, <1>4
  <2>2. CASE i = 1
    BY <2>1, <2>2, <1>2, <1>3, <1>5
  <2>3. CASE i # 1
    <3>1. i \in 2 .. Len(r) /\ i - 1 < j - 1
      BY <2>3, <1>2, <1>3
    <3> QED
      BY SMTT(30), <3>1, <2>1, <1>1, <1>4 DEF Ordered
  <2> QED
    BY <2>2, <2>3
<1>7. OuterOf(r) = OuterOf(s)
  BY <1>1, <1>2, <1>3 DEF OuterOf
<1>8. ASSUME NEW g, NEW x
      PROVE  PosIn(r, g, x) = IF g = call.fn /\ x = call.h THEN at ELSE PosIn(m, g, x)
  <2>1. CASE g = call.fn /\ x = call.h
    <3>1. 1 \in 1 .. Len(r)
      BY <1>2, <1>3
    <3> QED
      BY <2>1, <3>1, <1>2, <1>3, <1>6, PosSome
  <2>2. CASE ~(g = call.fn /\ x = call.h) /\ PosIn(m, g, x) # "none"
    <3>1. PICK i \in 1 .. Len(m) : m[i].call.fn = g /\ m[i].call.h = x /\ m[i].at = PosIn(m, g, x)
      BY <2>2, <1>1, PosIs
    <3>2. i + 1 \in 1 .. Len(r) /\ r[i + 1] = m[i]
      BY <1>2, <1>3
    <3> QED
      BY <3>1, <3>2, <2>2, <1>3, <1>6, PosSome
  <2>3. CASE ~(g = call.fn /\ x = call.h) /\ PosIn(m, g, x) = "none"
    <3>1. \A i \in 1 .. Len(m) : ~(m[i].call.fn = g /\ m[i].call.h = x)
      BY <2>3, <1>1, NotThere
    <3>2. \A i \in 1 .. Len(r) : ~(r[i].call.fn = g /\ r[i].call.h = x)
      <4> SUFFICES ASSUME NEW i \in 1 .. Len(r) PROVE ~(r[i].call.fn = g /\ r[i].call.h = x)
        OBVIOUS
      <4>1. CASE i = 1
        BY <4>1, <2>3, <1>2, <1>3
      <4>2. CASE i # 1
        <5>1. i \in 2 .. Len(r)
          BY <4>2, <1>2, <1>3
        <5> QED
          BY <5>1, <3>1, <1>4
      <4> QED
        BY <4>1, <4>2
    <3> QED
      BY <3>2, <2>3, PosNone
  <2> QED
    BY <2>1, <2>2, <2>3
<1>9. \A i \in 2 .. Len(r) : r[i].call = s[i - 1].call
  BY <1>1, <1>4
<1> QED
  BY <1>1, <1>2, <1>3, <1>4, <1>6, <1>7, <1>8, <1>9 DEF r

(***************************************************************************)
(* The steps of the stack, as places of functions.                         *)
(***************************************************************************)

Base == TypeOK /\ StackInv /\ AloneInv

(* What every step of th leaves alone, and how one place changes. *)
Steps(th) ==
    /\ stack' \in [Thread -> Seq(Frame)] /\ StackInv' /\ AloneInv'
    /\ \A u \in Thread : u # th => \A g, x : At(u, g, x)' = At(u, g, x)
    /\ \A u \in Thread : Running(u) /\ Running(u)' => Outer(u)' = Outer(u)
Shifts(th, fn, h, a) == \A g, x : At(th, g, x)' = IF g = fn /\ x = h THEN a ELSE At(th, g, x)
Calls(th, fn, h, next, g0, x0, a) ==
    \A g, x : At(th, g, x)' = IF g = g0 /\ x = x0 THEN a
                             ELSE IF g = fn /\ x = h THEN next ELSE At(th, g, x)

(* The function at the top, and that all others in the stack are callers. *)
Atop(th, fn, h) ==
    /\ Running(th) /\ Top(th).call.fn = fn /\ Top(th).call.h = h
    /\ Fits(fn, h) /\ h \in Reach(Outer(th))
    /\ At(th, fn, h) = Top(th).at /\ Top(th).at \in Places
    /\ \A g, x : At(th, g, x) # "none" =>
          \/ g = fn /\ x = h
          \/ Rank(g) > Rank(fn) /\ "newcursor" \notin {g, fn}

LEMMA TopIs ==
    ASSUME Base, NEW th \in Thread, Running(th)
    PROVE  /\ Atop(th, Top(th).call.fn, Top(th).call.h)
           /\ Top(th).call \in Call \cup {CallOf("cursors", t) : t \in Txn}
<1> DEFINE s == stack[th]
<1>1. s \in Seq(Frame) /\ s # << >> /\ Ordered(s)
  BY DEF Base, TypeOK, StackInv, Running
<1>2. 1 \in 1 .. Len(s) /\ Top(th) = s[1] /\ s[1] \in Frame
  BY <1>1 DEF Top
<1>3. At(th, s[1].call.fn, s[1].call.h) = s[1].at
  BY <1>1, <1>2, PosSome DEF At
<1>4. ASSUME NEW g, NEW x, At(th, g, x) # "none", ~(g = s[1].call.fn /\ x = s[1].call.h)
      PROVE  Rank(g) > Rank(s[1].call.fn) /\ "newcursor" \notin {g, s[1].call.fn}
  <2>1. PICK i \in 1 .. Len(s) : s[i].call.fn = g /\ s[i].call.h = x
    BY <1>1, <1>4, PosIs DEF At
  <2>2. 1 < i
    BY <2>1, <1>4, <1>2
  <2> QED
    BY <2>1, <2>2, <1>1, <1>2 DEF Ordered
<1>5. s[1].call.h \in Reach(Outer(th))
  BY <1>2 DEF Base, StackInv
<1> QED
  BY <1>1, <1>2, <1>3, <1>4, <1>5, FrameKinds DEF Atop, Running, Places, Frame

LEMMA AtKinds ==
    ASSUME Base, NEW th \in Thread, NEW fn, NEW h, At(th, fn, h) # "none"
    PROVE  /\ Fits(fn, h) /\ At(th, fn, h) \in Places
           /\ Running(th) /\ h \in Reach(Outer(th)) /\ Outer(th) \in made[th]
           /\ Outer(th) \in May[th] /\ Outer(th) \in Call
           /\ fn = "env" => Outer(th).fn = "env"
           /\ fn = "newcursor" => Outer(th).fn = "newcursor" /\ Outer(th).h = h
<1> DEFINE s == stack[th]
<1>1. s \in Seq(Frame) /\ Ordered(s)
  BY DEF Base, TypeOK, StackInv
<1>2. PICK i \in 1 .. Len(s) : s[i].call.fn = fn /\ s[i].call.h = h /\ s[i].at = At(th, fn, h)
  BY <1>1, PosIs DEF At
<1>3. s[i] \in Frame /\ Len(s) \in Nat \ {0} /\ Len(s) \in 1 .. Len(s)
  BY <1>1
<1>4. Running(th) /\ s[Len(s)].call = Outer(th) /\ s[Len(s)] \in Frame
  BY <1>1, <1>3 DEF Running, Outer
<1>5. Outer(th) \in made[th] /\ made[th] \subseteq May[th] /\ made[th] \subseteq Call
  BY <1>4 DEF Base, StackInv, TypeOK
<1>6. fn \in {"env", "newcursor"} => i = Len(s)
  <2> SUFFICES ASSUME fn \in {"env", "newcursor"}, i < Len(s) PROVE FALSE
    BY <1>3
  <2>1. Rank(fn) < Rank(Outer(th).fn) /\ fn # "newcursor"
    BY <1>1, <1>2, <1>3, <1>4 DEF Ordered
  <2>2. Rank("env") = 4
    BY DEF Rank
  <2> QED
    BY <2>1, <2>2, RanksAre
<1> QED
  BY <1>2, <1>3, <1>4, <1>5, <1>6, FrameKinds DEF Places, Base, StackInv

LEMMA MoveSteps ==
    ASSUME Base, NEW th \in Thread, NEW fn, NEW h, Atop(th, fn, h),
           NEW at \in Places, Move(th, at), made' = made
    PROVE  Steps(th) /\ Shifts(th, fn, h, at)
<1> DEFINE s == stack[th]
           r == Moved(stack[th], at)
<1>1. s \in Seq(Frame) /\ s # << >> /\ Ordered(s) /\ s[1].call.fn = fn /\ s[1].call.h = h
  BY DEF Base, TypeOK, StackInv, Atop, Running, Top
<1>2. stack' = [stack EXCEPT ![th] = r]
  BY DEF Move, Moved
<1>3. /\ r \in Seq(Frame) /\ r # << >> /\ Ordered(r) /\ Len(r) = Len(s)
      /\ \A i \in 1 .. Len(s) : r[i].call = s[i].call
      /\ OuterOf(r) = OuterOf(s)
      /\ \A g, x : PosIn(r, g, x) = IF g = fn /\ x = h THEN at ELSE PosIn(s, g, x)
  BY <1>1, MovedStack
<1> HIDE DEF r
<1>4. stack \in [Thread -> Seq(Frame)] /\ stack'[th] = r /\ \A u \in Thread : u # th => stack'[u] = stack[u]
  BY <1>2 DEF Base, TypeOK
<1>5. \A u \in Thread : /\ Running(u)' = Running(u) /\ Outer(u)' = Outer(u)
                        /\ Ordered(stack'[u]) /\ Len(stack'[u]) = Len(stack[u])
                        /\ \A i \in 1 .. Len(stack[u]) : stack'[u][i].call = stack[u][i].call
  BY <1>1, <1>3, <1>4 DEF Running, Outer, OuterOf, Base, StackInv
<1>6. StackInv' /\ AloneInv'
  BY <1>5 DEF Base, StackInv, AloneInv
<1>7. \A u \in Thread : u # th => \A g, x : At(u, g, x)' = At(u, g, x)
  BY <1>4 DEF At
<1>8. Shifts(th, fn, h, at)
  BY <1>3, <1>4 DEF At, Shifts
<1> QED
  BY <1>2, <1>3, <1>4, <1>5, <1>6, <1>7, <1>8 DEF Steps

LEMMA ReturnSteps ==
    ASSUME Base, NEW th \in Thread, NEW fn, NEW h, Atop(th, fn, h), Return(th), made' = made
    PROVE  Steps(th) /\ Shifts(th, fn, h, "none")
<1> DEFINE s == stack[th]
           r == Tail(stack[th])
<1>1. s \in Seq(Frame) /\ s # << >> /\ Ordered(s) /\ s[1].call.fn = fn /\ s[1].call.h = h
  BY DEF Base, TypeOK, StackInv, Atop, Running, Top
<1>2. stack' = [stack EXCEPT ![th] = r]
  BY DEF Return
<1>3. /\ r \in Seq(Frame) /\ Ordered(r) /\ Len(r) = Len(s) - 1
      /\ \A i \in 1 .. Len(r) : r[i] = s[i + 1]
      /\ r # << >> => OuterOf(r) = OuterOf(s)
      /\ \A g, x : PosIn(r, g, x) = IF g = fn /\ x = h THEN "none" ELSE PosIn(s, g, x)
  BY <1>1, ReturnedStack
<1>0. Len(s) \in Nat \ {0} /\ Len(r) \in Nat
  BY <1>1
<1> HIDE DEF r
<1>4. stack \in [Thread -> Seq(Frame)] /\ stack'[th] = r /\ \A u \in Thread : u # th => stack'[u] = stack[u]
  BY <1>2 DEF Base, TypeOK
<1>5. \A u \in Thread : Running(u)' => Running(u) /\ Outer(u)' = Outer(u)
  BY <1>1, <1>3, <1>4 DEF Running, Outer, OuterOf
<1>6. ASSUME NEW u \in Thread, NEW i \in 1 .. Len(stack'[u])
      PROVE  stack'[u][i].call.h \in Reach(Outer(u)')
  <2>1. Running(u)' /\ Outer(u)' = Outer(u)
    BY <1>3, <1>4, <1>5 DEF Running, Base, StackInv
  <2>2. CASE u = th
    <3>1. i + 1 \in 1 .. Len(s) /\ stack'[u][i] = s[i + 1]
      BY <2>2, <1>3, <1>4, <1>0
    <3> QED
      BY <2>1, <2>2, <3>1 DEF Base, StackInv
  <2>3. CASE u # th
    BY <2>1, <2>3, <1>4 DEF Base, StackInv
  <2> QED
    BY <2>2, <2>3
<1>7. \A u \in Thread : Ordered(stack'[u])
  BY <1>3, <1>4 DEF Base, StackInv
<1>8. StackInv' /\ AloneInv'
  BY <1>5, <1>6, <1>7 DEF Base, StackInv, AloneInv
<1>9. \A u \in Thread : u # th => \A g, x : At(u, g, x)' = At(u, g, x)
  BY <1>4 DEF At
<1>10. Shifts(th, fn, h, "none")
  BY <1>3, <1>4 DEF At, Shifts
<1> QED
  BY <1>2, <1>3, <1>4, <1>5, <1>8, <1>9, <1>10 DEF Steps

LEMMA InvokeSteps ==
    ASSUME Base, NEW th \in Thread, NEW fn, NEW h, Atop(th, fn, h),
           NEW g0, NEW x0, NEW at \in Places, NEW next \in Places,
           Invoke(th, g0, x0, at, next), made' = made,
           CallOf(g0, x0) \in Call \cup {CallOf("cursors", t) : t \in Txn},
           x0 \in Reach(Outer(th)), Rank(g0) < Rank(fn), "newcursor" \notin {g0, fn}
    PROVE  Steps(th) /\ Calls(th, fn, h, next, g0, x0, at)
<1> DEFINE s == stack[th]
           n == CallOf(g0, x0)
           r == Pushed(stack[th], CallOf(g0, x0), at, next)
<1>1. s \in Seq(Frame) /\ s # << >> /\ Ordered(s) /\ s[1].call.fn = fn /\ s[1].call.h = h
  BY DEF Base, TypeOK, StackInv, Atop, Running, Top
<1>2. stack' = [stack EXCEPT ![th] = r]
  BY DEF Invoke, Pushed
<1>3. n.fn = g0 /\ n.h = x0 /\ [call |-> n, at |-> at] \in Frame
  BY DEF CallOf, Frame, Places
<1>4. /\ r \in Seq(Frame) /\ r # << >> /\ Ordered(r) /\ Len(r) = Len(s) + 1
      /\ r[1].call = n
      /\ \A i \in 2 .. Len(r) : r[i].call = s[i - 1].call
      /\ OuterOf(r) = OuterOf(s)
      /\ \A g, x : PosIn(r, g, x) = IF g = g0 /\ x = x0 THEN at
                                   ELSE IF g = fn /\ x = h THEN next ELSE PosIn(s, g, x)
  <2> HIDE DEF n, s
  <2>1. s \in Seq(Frame) /\ s # << >> /\ Ordered(s) /\ at \in Places /\ next \in Places
        /\ [call |-> n, at |-> at] \in Frame
        /\ Rank(n.fn) < Rank(s[1].call.fn) /\ "newcursor" \notin {n.fn, s[1].call.fn}
    BY <1>1, <1>3
  <2>2. r = Pushed(s, n, at, next)
    BY DEF s, n
  <2> HIDE DEF r
  <2> QED
    BY <2>1, <2>2, <1>1, <1>3, PushedStack
<1>0. Len(s) \in Nat \ {0}
  BY <1>1
<1> HIDE DEF r, n
<1>5. stack \in [Thread -> Seq(Frame)] /\ stack'[th] = r /\ \A u \in Thread : u # th => stack'[u] = stack[u]
  BY <1>2 DEF Base, TypeOK
<1>6. \A u \in Thread : Running(u)' = Running(u) /\ Outer(u)' = Outer(u)
  BY <1>1, <1>4, <1>5 DEF Running, Outer, OuterOf
<1>7. ASSUME NEW u \in Thread, NEW i \in 1 .. Len(stack'[u])
      PROVE  stack'[u][i].call.h \in Reach(Outer(u)')
  <2>1. CASE u = th /\ i = 1
    BY <2>1, <1>3, <1>4, <1>5, <1>6
  <2>2. CASE u = th /\ i # 1
    <3>1. i \in 2 .. Len(r) /\ i - 1 \in 1 .. Len(s)
      BY <2>2, <1>0, <1>4, <1>5
    <3> QED
      BY <2>2, <3>1, <1>4, <1>5, <1>6 DEF Base, StackInv
  <2>3. CASE u # th
    BY <2>3, <1>5, <1>6 DEF Base, StackInv
  <2> QED
    BY <2>1, <2>2, <2>3
<1>8. \A u \in Thread : Ordered(stack'[u])
  BY <1>4, <1>5 DEF Base, StackInv
<1>9. StackInv' /\ AloneInv'
  BY <1>6, <1>7, <1>8 DEF Base, StackInv, AloneInv
<1>10. \A u \in Thread : u # th => \A g, x : At(u, g, x)' = At(u, g, x)
  BY <1>5 DEF At
<1>11. Calls(th, fn, h, next, g0, x0, at)
  BY <1>4, <1>5 DEF At, Calls
<1> QED
  BY <1>2, <1>4, <1>5, <1>6, <1>9, <1>10, <1>11 DEF Steps

LEMMA EnterSteps ==
    ASSUME Base, NEW th \in Thread, NEW call \in May[th], Enter(th, call)
    PROVE  /\ Steps(th)
           /\ \A g, x : /\ At(th, g, x) = "none"
                        /\ At(th, g, x)' = IF g = call.fn /\ x = call.h THEN "start" ELSE "none"
<1> DEFINE f == [call |-> call, at |-> "start"]
           r == <<f>>
<1>1. call \in Call /\ f \in Frame
  BY CallAssumption DEF Frame
<1>2. stack[th] = << >> /\ stack' = [stack EXCEPT ![th] = r] /\ made' = [made EXCEPT ![th] = @ \cup {call}]
  BY DEF Enter
<1>3. r \in Seq(Frame) /\ Len(r) = 1 /\ r[1] = f /\ f.call = call /\ f.at = "start"
  BY <1>1
<1> HIDE DEF f, r
<1>4. /\ stack \in [Thread -> Seq(Frame)] /\ stack'[th] = r /\ \A u \in Thread : u # th => stack'[u] = stack[u]
      /\ made'[th] = made[th] \cup {call} /\ \A u \in Thread : u # th => made'[u] = made[u]
  BY <1>2 DEF Base, TypeOK
<1>5. \A u \in Thread : u # th => Running(u)' = Running(u) /\ Outer(u)' = Outer(u)
  BY <1>4 DEF Running, Outer
<1>6. Running(th)' /\ Outer(th)' = call /\ Ordered(r)
  <2>1. r # << >> /\ r[Len(r)].call = call
    BY <1>3
  <2>2. \A i, j \in 1 .. Len(r) : ~(i < j)
    BY <1>3
  <2> QED
    BY <2>1, <2>2, <1>4 DEF Running, Outer, Ordered
<1>7. StackInv'
  <2> SUFFICES ASSUME NEW u \in Thread
               PROVE  /\ Ordered(stack'[u])
                      /\ Running(u)' => Outer(u)' \in made'[u]
                      /\ \A i \in 1 .. Len(stack'[u]) : stack'[u][i].call.h \in Reach(Outer(u)')
                      /\ made'[u] \subseteq May[u]
    BY DEF StackInv
  <2>1. CASE u = th
    <3>1. \A i \in 1 .. Len(r) : r[i].call.h \in Reach(call)
      BY <1>1, <1>3, ReachSelf
    <3>2. call \in made'[th] /\ made'[th] \subseteq May[th]
      BY <1>4 DEF Base, StackInv
    <3> QED
      BY <2>1, <3>1, <3>2, <1>4, <1>6
  <2>2. CASE u # th
    BY <2>2, <1>4, <1>5 DEF Base, StackInv
  <2> QED
    BY <2>1, <2>2
<1>8. AloneInv'
  <2>1. \A o \in Thread : Running(o) => call \notin Alone /\ Outer(o) \notin Alone
    BY DEF Enter, Running
  <2> QED
    BY <2>1, <1>5, <1>6 DEF Base, AloneInv
<1>9. \A u \in Thread : u # th => \A g, x : At(u, g, x)' = At(u, g, x)
  BY <1>4 DEF At
<1>10. ASSUME NEW g, NEW x
       PROVE  /\ At(th, g, x) = "none"
              /\ At(th, g, x)' = IF g = call.fn /\ x = call.h THEN "start" ELSE "none"
  <2>1. At(th, g, x) = "none"
    BY <1>2, PosNone DEF At
  <2>2. CASE g = call.fn /\ x = call.h
    <3>1. 1 \in 1 .. Len(r)
      BY <1>3
    <3>2. PosIn(r, r[1].call.fn, r[1].call.h) = "start"
      BY <3>1, <1>3, <1>6, PosSome
    <3> QED
      BY <2>1, <2>2, <3>2, <1>3, <1>4 DEF At
  <2>3. CASE ~(g = call.fn /\ x = call.h)
    BY <2>1, <2>3, <1>3, <1>4, PosNone DEF At
  <2> QED
    BY <2>1, <2>2, <2>3
<1> QED
  BY <1>2, <1>3, <1>4, <1>5, <1>7, <1>8, <1>9, <1>10 DEF Steps, Running

LEMMA SameOuter ==
    ASSUME NEW th \in Thread, Steps(th), NEW u \in Thread, NEW g, NEW x,
           At(u, g, x) # "none", At(u, g, x)' # "none"
    PROVE  Outer(u)' = Outer(u)
<1>1. ASSUME NEW s, PosIn(s, g, x) # "none" PROVE s # << >>
  BY <1>1, PosNone
<1>2. stack[u] # << >> /\ stack'[u] # << >>
  BY <1>1 DEF At
<1> QED
  BY <1>2 DEF Steps, Running

(***************************************************************************)
(* What two threads work on.                                               *)
(***************************************************************************)

(* Two threads work on different handles, bare transactions apart, neither
   closes an environment, and neither needs what the other closes. *)
LEMMA Apart ==
    ASSUME Orderly, Base, NEW th \in Thread, NEW u \in Thread, th # u,
           NEW f, NEW x, NEW g, NEW y, At(th, f, x) # "none", At(u, g, y) # "none"
    PROVE  /\ f # "env" /\ g # "env"
           /\ x = y => x \in Txn
           /\ x \in DB \cup Txn => y \notin Using({x})
           /\ g = "newcursor" => Outer(u).db # x /\ Outer(u).txn # x
<1> DEFINE a == Outer(th)
           b == Outer(u)
<1>1. /\ a \in May[th] /\ a \in Call /\ x \in Reach(a) /\ Fits(f, x) /\ (f = "env" => a.fn = "env")
      /\ b \in May[u] /\ b \in Call /\ y \in Reach(b) /\ Fits(g, y) /\ (g = "env" => b.fn = "env")
      /\ Running(th) /\ Running(u)
  BY AtKinds
<1>2. a \notin Alone /\ b \notin Alone
  BY <1>1 DEF Base, AloneInv
<1> HIDE DEF a, b
<1>3. a.fn # "env" /\ b.fn # "env"
  BY <1>1, <1>2 DEF Orderly
<1>4. Reach(a) \cap Reach(b) \subseteq Bare /\ Needs(b) \cap Reach(a) = {}
  BY <1>1, <1>2 DEF Orderly
<1>5. x \in DB \cup Txn => y \notin Using({x})
  <2> SUFFICES ASSUME x \in DB \cup Txn, y \in Using({x}) PROVE FALSE
    OBVIOUS
  <2>1. y \in Reach(a)
    BY <1>1, ReachTxn, ReachDB
  <2>2. y \in Txn /\ y \in Cursor
    BY <2>1, <1>1, <1>4 DEF Bare, Using
  <2> QED
    BY <2>2, CallAssumption
<1>6. x # None
  BY <1>1, CallAssumption DEF Fits, Handle
<1>7. b.db # x /\ b.txn # x
  BY <1>1, <1>4, <1>6 DEF Needs
<1> QED
  BY <1>1, <1>3, <1>4, <1>5, <1>7 DEF Bare, b

(* A cursor is used by the handles that it was made with. *)
LEMMA UsedBy ==
    ASSUME Base, CursorInv, NEW c \in Cursor, c \in lives \cup ptr,
           NEW x, x # None, x = begunIn[c][1] \/ x = begunIn[c][2] \/ x = txnOf[c]
    PROVE  c \in Using({x})
<1>1. PICK n \in Call : /\ MadeBy(c, n) /\ begunIn[c][1] = n.db /\ begunIn[c][2] \in {None, n.txn}
                        /\ txnOf[c] \in {None, n.txn}
  BY DEF CursorInv
<1>2. PICK th \in Thread : n \in May[th]
  BY <1>1 DEF MadeBy, Base, StackInv
<1>3. n.fn = "newcursor" /\ n.h = c /\ x \in {n.db, n.txn}
  BY <1>1 DEF MadeBy
<1> QED
  BY <1>2, <1>3, UsingIs

LEMMA CursorApart ==
    ASSUME Orderly, Base, CursorInv, NEW c \in Cursor, c \in lives \cup ptr,
           NEW x \in DB \cup Txn, x = begunIn[c][1] \/ x = begunIn[c][2] \/ x = txnOf[c],
           NEW th \in Thread, NEW f, At(th, f, x) # "none",
           NEW u \in Thread, NEW g, At(u, g, c) # "none"
    PROVE  u = th
<1>1. x # None
  BY CallAssumption DEF Handle
<1>2. c \in Using({x})
  BY <1>1, UsedBy
<1> QED
  BY <1>2, Apart

(* A list without cursors means that none of its cursors is open, once the
   functions that closed them have returned. *)
LEMMA NoCursorLeft ==
    ASSUME Orderly, IInv, NEW th \in Thread, NEW fn, NEW h \in DB \cup Txn, Atop(th, fn, h),
           h \in DB => dbKids[h] = {}, h \in Txn => txnKids[h] \cap Cursor = {}
    PROVE  NoCursorIn(h)
<1> SUFFICES ASSUME NEW c \in Cursor, h \in {begunIn[c][1], begunIn[c][2]}, Open(c) PROVE FALSE
  BY DEF NoCursorIn
<1> USE CallAssumption
<1>1. Base /\ CursorInv /\ EndsInv /\ ListInv /\ \A u \in Thread : CloseInv(u)
  BY DEF IInv, Base
<1>2. /\ c \in lives /\ ends[c] = 0 /\ h # None /\ ~(h \in DB /\ h \in Txn)
      /\ begunIn[c][1] \in DB \cup {None} /\ begunIn[c][2] \in Txn \cup {None}
  BY <1>1 DEF Open, Handle, Base, TypeOK
<1>3. At(th, fn, h) # "none" /\ Rank(fn) >= 2 /\ fn # "newcursor"
  BY DEF Atop, Places, Fits, Rank
<1>4. ASSUME NEW u \in Thread, NEW g \in {"cursor", "newcursor"}, At(u, g, c) # "none"
      PROVE  u = th
  <2>1. (h = begunIn[c][1] \/ h = begunIn[c][2]) /\ c \in lives \cup ptr
    BY <1>2
  <2>2. Base /\ CursorInv /\ At(th, fn, h) # "none" /\ At(u, g, c) # "none"
    BY <1>1, <1>3, <1>4
  <2> HIDE CallAssumption
  <2> QED
    BY <2>1, <2>2, CursorApart
<1>5. At(th, "cursor", c) = "none" /\ At(th, "newcursor", c) = "none"
  <2>1. Rank("cursor") = 1
    BY DEF Rank
  <2>2. ~(Rank("cursor") > Rank(fn)) /\ h # c
    BY <2>1, <1>3, RanksAre
  <2> QED
    BY <2>2, <1>3 DEF Atop
<1>6. ~Leaving(c) /\ ~Linking(c) /\ c \notin DB
  BY <1>4, <1>5 DEF Leaving, Linking, CloserOf
<1>7. c \in ptr
  BY <1>1, <1>2, <1>6 DEF EndsInv
<1>8. CASE h \in DB
  BY <1>1, <1>2, <1>6, <1>7, <1>8 DEF CursorInv, ListInv
<1>9. CASE h \in Txn
  <2>1. begunIn[c][2] = h
    BY <1>2, <1>9
  <2>2. txnOf[c] = h
    BY <2>1, <1>1, <1>2, <1>6, <1>7 DEF CursorInv
  <2> QED
    BY <2>2, <1>1, <1>9 DEF ListInv
<1> QED
  BY <1>8, <1>9

(***************************************************************************)
(* Steps that change only what does not matter to the data.                *)
(***************************************************************************)

(* Places that mean the same for pointers, lists and natives. *)
CalmPlace(fn, a, b) ==
    /\ fn \in {"cursor", "db"} =>
          /\ a \in {"cursors", "native", "back"} <=> b \in {"cursors", "native", "back"}
          /\ a = "back" <=> b = "back"
    /\ fn = "abort" => /\ a \in {"dbs", "native"} <=> b \in {"dbs", "native"}
                       /\ a = "dbs" <=> b = "dbs"
    /\ fn = "commit" => (a = "native" <=> b = "native")
    /\ fn = "newcursor" => (a = "back" <=> b = "back")
Calm(th) == \A g, x : CalmPlace(g, At(th, g, x), At(th, g, x)')

LEMMA CalmFacts ==
    ASSUME NEW th \in Thread, Steps(th), Calm(th)
    PROVE  /\ \A o : Leaving(o)' <=> Leaving(o)
           /\ \A o : Ended(o)' <=> Ended(o)
           /\ \A u \in Thread : \A t : TakenBy(u, t)' <=> TakenBy(u, t)
           /\ \A t : Taken(t)' <=> Taken(t)
           /\ \A t : Aborting(t)' <=> Aborting(t)
           /\ \A c : Linking(c)' <=> Linking(c)
<1>1. \A u \in Thread : \A g, x : CalmPlace(g, At(u, g, x), At(u, g, x)')
  <2> SUFFICES ASSUME NEW u \in Thread, NEW g, NEW x PROVE CalmPlace(g, At(u, g, x), At(u, g, x)')
    OBVIOUS
  <2>1. CASE u = th
    BY <2>1 DEF Calm
  <2>2. CASE u # th
    <3>1. At(u, g, x)' = At(u, g, x)
      BY <2>2 DEF Steps
    <3> QED
      BY <3>1 DEF CalmPlace
  <2> QED
    BY <2>1, <2>2
<1>2. \A o : CloserOf(o) \in {"cursor", "db"}
  BY DEF CloserOf
<1>3. ASSUME NEW o PROVE (Leaving(o)' <=> Leaving(o)) /\ (Ended(o)' <=> Ended(o))
  <2>1. \A u \in Thread : CalmPlace(CloserOf(o), At(u, CloserOf(o), o), At(u, CloserOf(o), o)')
    BY <1>1
  <2> QED
    BY <2>1, <1>2 DEF CalmPlace, Leaving, Ended, CloserOf
<1>4. ASSUME NEW u \in Thread, NEW t PROVE TakenBy(u, t)' <=> TakenBy(u, t)
  BY <1>1 DEF CalmPlace, TakenBy
<1>5. \A t : Taken(t)' <=> Taken(t)
  BY <1>4 DEF Taken
<1>6. ASSUME NEW t PROVE Aborting(t)' <=> Aborting(t)
  BY <1>1 DEF CalmPlace, Aborting
<1>7. ASSUME NEW c PROVE Linking(c)' <=> Linking(c)
  BY <1>1 DEF CalmPlace, Linking
<1> QED
  BY <1>3, <1>4, <1>5, <1>6, <1>7

DataInv == ListInv /\ CursorInv /\ EndsInv /\ OrderInv

LEMMA CalmData ==
    ASSUME NEW th \in Thread, Steps(th), Calm(th), DataInv, UNCHANGED <<wrappers, natives>>,
           \A u \in Thread : made[u] \subseteq made'[u]
    PROVE  DataInv'
<1> USE DEF wrappers, natives
<1>1. ListInv'
  BY CalmFacts DEF DataInv, ListInv
<1>2. CursorInv'
  BY CalmFacts DEF DataInv, CursorInv, MadeBy
<1>3. EndsInv'
  BY CalmFacts DEF DataInv, EndsInv
<1>4. OrderInv'
  BY DEF DataInv, OrderInv, Open
<1> QED
  BY <1>1, <1>2, <1>3, <1>4 DEF DataInv

(***************************************************************************)
(* The claims of a thread, when its places or those of others change.      *)
(***************************************************************************)

(* What a step must respect for the claims of u to stay true. *)
KeepsData(u) ==
    /\ \A t \in Txn : t \in ptr' => t \in ptr
    /\ \A t \in Txn, v \in Thread : TakenBy(u, t) /\ TakenBy(v, t)' => v = u
    /\ \A d \in DB : txnOf'[d] \in {txnOf[d], None}
    /\ \A t \in Txn : At(u, "cursors", t) \in {"native", "back"} /\ (\E c \in Cursor : txnOf[c] = t)
          => \E c \in Cursor : txnOf'[c] = t
    /\ \A c \in Cursor : At(u, "newcursor", c) # "none" =>
          c \notin ptr' /\ txnOf'[c] = None
    /\ At(u, "env", Env) # "none" => closed' = closed
KeepsNatives(u) ==
    /\ \A x \in Txn \cup DB : Open(x)' => Open(x)
    /\ \A x \in Txn \cup DB : (\E fn : At(u, fn, x) # "none") /\ NoCursorIn(x) => NoCursorIn(x)'
    /\ \A c \in Cursor : At(u, "newcursor", c) # "none" =>
          begunIn'[c] = begunIn[c] /\ (c \in lives' <=> c \in lives)
    /\ \A c \in Cursor : At(u, "newcursor", c) \in {"native", "back"} =>
          /\ Open(begunIn[c][1]) => Open(begunIn[c][1])'
          /\ Open(begunIn[c][2]) => Open(begunIn[c][2])'
    /\ At(u, "env", Env) # "none" => ends'[Env] = ends[Env]
SameOn(u, K) == \A g, x : g \notin K => At(u, g, x)' = At(u, g, x)

(* The claims of u that are about none of the functions of K. *)
Claims(u, K) ==
    /\ "db" \notin K => \A d \in DB : At(u, "db", d)' = "native" => NoCursorIn(d)'
    /\ {"commit", "abort", "cursors"} \cap K = {} => \A t \in Txn : TxnInv(u, t)'
    /\ {"cursors", "cursor"} \cap K = {} => \A t \in Txn : CursorsInv(u, t)'
    /\ "newcursor" \notin K => \A c \in Cursor : NewInv(u, c)'
    /\ "env" \notin K => EnvInv(u)'

LEMMA ClaimsKept ==
    ASSUME NEW th \in Thread, Steps(th), NEW u \in Thread, CloseInv(u), KeepsData(u), KeepsNatives(u),
           NEW K, SameOn(u, K)
    PROVE  Claims(u, K)
<1>1. ASSUME "db" \notin K, NEW d \in DB, At(u, "db", d)' = "native" PROVE NoCursorIn(d)'
  <2>1. At(u, "db", d) = "native"
    BY <1>1 DEF SameOn
  <2> QED
    BY <2>1 DEF CloseInv, KeepsNatives
<1>2. ASSUME {"commit", "abort", "cursors"} \cap K = {}, NEW t \in Txn PROVE TxnInv(u, t)'
  <2>1. /\ At(u, "commit", t)' = At(u, "commit", t) /\ At(u, "abort", t)' = At(u, "abort", t)
        /\ At(u, "cursors", t)' = At(u, "cursors", t)
    BY <1>2 DEF SameOn
  <2>2. TxnInv(u, t)
    BY DEF CloseInv
  <2>3. TakenBy(u, t)' <=> TakenBy(u, t)
    BY <2>1 DEF TakenBy
  <2>4. TakenBy(u, t) => t \notin ptr' /\ \A v \in Thread : TakenBy(v, t)' => v = u
    BY <2>2 DEF TxnInv, KeepsData
  <2>5. At(u, "abort", t) # "none" \/ At(u, "commit", t) # "none" => (NoCursorIn(t) => NoCursorIn(t)')
    BY DEF KeepsNatives
  <2>6. At(u, "abort", t) = "native" => \A d \in DB : txnOf'[d] # t
    BY <2>2, CallAssumption DEF TxnInv, KeepsData, Handle
  <2> QED
    BY <2>1, <2>2, <2>3, <2>4, <2>5, <2>6 DEF TxnInv
<1>3. ASSUME {"cursors", "cursor"} \cap K = {}, NEW t \in Txn PROVE CursorsInv(u, t)'
  <2>1. /\ At(u, "cursors", t)' = At(u, "cursors", t)
        /\ \A c \in Cursor : At(u, "cursor", c)' = At(u, "cursor", c)
    BY <1>3 DEF SameOn
  <2>2. CursorsInv(u, t)
    BY DEF CloseInv
  <2> QED
    BY <2>1, <2>2 DEF CursorsInv, KeepsData
<1>4. ASSUME "newcursor" \notin K, NEW c \in Cursor PROVE NewInv(u, c)'
  <2>1. At(u, "newcursor", c)' = At(u, "newcursor", c)
    BY <1>4 DEF SameOn
  <2>2. NewInv(u, c)
    BY DEF CloseInv
  <2>3. At(u, "newcursor", c) # "none" => Outer(u)' = Outer(u)
    BY <2>1, SameOuter
  <2>4. At(u, "newcursor", c) # "none" =>
          /\ c \notin ptr' /\ txnOf'[c] = None
          /\ begunIn'[c] = begunIn[c] /\ (c \in lives' <=> c \in lives)
          /\ At(u, "newcursor", c) \in {"native", "back"} =>
                /\ Open(begunIn[c][1]) => Open(begunIn[c][1])'
                /\ Open(begunIn[c][2]) => Open(begunIn[c][2])'
    BY DEF KeepsData, KeepsNatives
  <2> QED
    BY <2>1, <2>2, <2>3, <2>4 DEF NewInv
<1>5. ASSUME "env" \notin K PROVE EnvInv(u)'
  <2>1. At(u, "env", Env)' = At(u, "env", Env)
    BY <1>5 DEF SameOn
  <2>2. EnvInv(u)
    BY DEF CloseInv
  <2> QED
    BY <2>1, <2>2 DEF EnvInv, KeepsData, KeepsNatives
<1> QED
  BY <1>1, <1>2, <1>3, <1>4, <1>5 DEF Claims

(***************************************************************************)
(* The steps that change no data.                                          *)
(***************************************************************************)

LEMMA Parts ==
    ASSUME IInv
    PROVE  /\ ~corrupt /\ Base /\ TypeOK /\ DataInv /\ ListInv /\ CursorInv /\ EndsInv /\ OrderInv
           /\ \A u \in Thread : CloseInv(u)
BY DEF IInv, Base, DataInv

LEMMA Whole ==
    ASSUME ~corrupt', TypeOK', NEW th \in Thread, Steps(th), DataInv', \A u \in Thread : CloseInv(u)'
    PROVE  IInv'
BY DEF IInv, DataInv, Steps

LEMMA RunsAtop ==
    ASSUME IInv, NEW th \in Thread, NEW F, NEW at, Runs(th, F, at)
    PROVE  \E fn \in F : \E h : Atop(th, fn, h) /\ At(th, fn, h) = at
<1>1. Atop(th, Top(th).call.fn, Top(th).call.h) /\ Top(th).call.fn \in F
  BY Parts, TopIs DEF Runs, Running
<1> QED
  BY <1>1 DEF Atop, Runs

(* Steps that leave the natives alone, for the threads that see them. *)
LEMMA QuietNatives ==
    ASSUME UNCHANGED natives, NEW u \in Thread PROVE KeepsNatives(u)
<1>1. \A x : Open(x)' <=> Open(x)
  BY DEF Open, natives
<1>2. \A x : NoCursorIn(x)' <=> NoCursorIn(x)
  BY <1>1 DEF NoCursorIn, natives
<1> QED
  BY <1>1, <1>2 DEF KeepsNatives, natives

LEMMA QuietData ==
    ASSUME IInv, UNCHANGED wrappers, NEW u \in Thread,
           \A v \in Thread : \A t : TakenBy(v, t)' => TakenBy(v, t)
    PROVE  KeepsData(u)
<1>1. \A t \in Txn : TakenBy(u, t) => \A v \in Thread : TakenBy(v, t) => v = u
  BY Parts DEF CloseInv, TxnInv
<1>2. \A c \in Cursor : At(u, "newcursor", c) # "none" => c \notin ptr /\ txnOf[c] = None
  BY Parts DEF CloseInv, NewInv
<1> QED
  BY <1>1, <1>2 DEF KeepsData, wrappers

LEMMA OthersKept ==
    ASSUME NEW th \in Thread, Steps(th), NEW u \in Thread, u # th, CloseInv(u), KeepsData(u), KeepsNatives(u)
    PROVE  CloseInv(u)'
<1>1. SameOn(u, {})
  BY DEF Steps, SameOn
<1>2. Claims(u, {})
  BY <1>1, ClaimsKept
<1> QED
  BY <1>2 DEF CloseInv, Claims

LEMMA CalmStep ==
    ASSUME IInv, NEW th \in Thread, Steps(th), Calm(th), UNCHANGED <<wrappers, natives, corrupt>>,
           gil' \in Thread \cup {None}, made' \in [Thread -> SUBSET Call],
           \A u \in Thread : made[u] \subseteq made'[u]
    PROVE  /\ KeepsData(th) /\ KeepsNatives(th)
           /\ CloseInv(th)' => IInv'
<1>1. DataInv'
  BY Parts, CalmData
<1>2. TypeOK'
  BY Parts DEF TypeOK, Steps, wrappers, natives
<1>3. \A u \in Thread : KeepsData(u) /\ KeepsNatives(u)
  BY CalmFacts, QuietData, QuietNatives
<1>4. \A u \in Thread : u # th => CloseInv(u)'
  BY <1>3, Parts, OthersKept
<1> QED
  BY <1>1, <1>2, <1>3, <1>4, Parts, Whole

LEMMA StillInv == IInv /\ UNCHANGED <<stack, made, wrappers, natives, corrupt>> /\ gil' \in Thread \cup {None} => IInv'
BY DEF IInv, TypeOK, StackInv, AloneInv, ListInv, CursorInv, EndsInv, OrderInv, CloseInv, Open, wrappers, natives,
       At, Running, Outer, Leaving, Ended, Taken, TakenBy, Aborting, Linking, MadeBy, NoCursorIn,
       TxnInv, CursorsInv, NewInv, EnvInv

(* One place of the thread changes, or it calls a function. *)
LEMMA ShiftSame ==
    ASSUME NEW th \in Thread, NEW fn, NEW h, NEW a, Shifts(th, fn, h, a)
    PROVE  SameOn(th, {fn})
BY DEF Shifts, SameOn

LEMMA CallSame ==
    ASSUME NEW th \in Thread, NEW fn, NEW h, NEW a, NEW g0, NEW x0, NEW b, Calls(th, fn, h, a, g0, x0, b)
    PROVE  SameOn(th, {fn, g0})
BY DEF Calls, SameOn

LEMMA CalmShift ==
    ASSUME IInv, NEW th \in Thread, NEW fn, NEW h, NEW a, Steps(th), Shifts(th, fn, h, a),
           CalmPlace(fn, At(th, fn, h), a),
           UNCHANGED <<made, wrappers, natives, corrupt>>, gil' \in Thread \cup {None}
    PROVE  Calm(th) /\ Claims(th, {fn}) /\ (CloseInv(th)' => IInv')
<1>1. Calm(th)
  BY DEF Calm, Shifts, CalmPlace
<1>2. made' \in [Thread -> SUBSET Call] /\ \A u \in Thread : made[u] \subseteq made'[u]
  BY Parts DEF TypeOK
<1>3. KeepsData(th) /\ KeepsNatives(th) /\ (CloseInv(th)' => IInv')
  BY <1>1, <1>2, CalmStep
<1> QED
  BY <1>1, <1>3, Parts, ShiftSame, ClaimsKept

LEMMA CalmCall ==
    ASSUME IInv, NEW th \in Thread, NEW fn, NEW h, Atop(th, fn, h),
           NEW g0, NEW x0, NEW at \in Places, NEW next \in Places,
           Invoke(th, g0, x0, at, next),
           CallOf(g0, x0) \in Call \cup {CallOf("cursors", t) : t \in Txn},
           x0 \in Reach(Outer(th)), Rank(g0) < Rank(fn), "newcursor" \notin {g0, fn},
           CalmPlace(fn, At(th, fn, h), next), CalmPlace(g0, "none", at),
           UNCHANGED <<made, wrappers, natives, corrupt>>, gil' \in Thread \cup {None}
    PROVE  /\ Steps(th) /\ Calls(th, fn, h, next, g0, x0, at) /\ Calm(th)
           /\ Claims(th, {fn, g0}) /\ (CloseInv(th)' => IInv')
<1>1. Steps(th) /\ Calls(th, fn, h, next, g0, x0, at)
  BY Parts, InvokeSteps
<1>2. At(th, g0, x0) = "none" /\ g0 # fn
  BY RanksAre DEF Atop
<1>3. Calm(th)
  BY <1>1, <1>2 DEF Calm, Calls, CalmPlace
<1>4. made' \in [Thread -> SUBSET Call] /\ \A u \in Thread : made[u] \subseteq made'[u]
  BY Parts DEF TypeOK
<1>5. KeepsData(th) /\ KeepsNatives(th) /\ (CloseInv(th)' => IInv')
  BY <1>1, <1>3, <1>4, CalmStep
<1> QED
  BY <1>1, <1>3, <1>5, Parts, CallSame, ClaimsKept

LEMMA CalmTxn ==
    ASSUME IInv, NEW th \in Thread, Steps(th), Calm(th), UNCHANGED <<wrappers, natives>>, NEW t \in Txn,
           At(th, "abort", t)' = "dbs" \/ At(th, "commit", t)' = "test"
              => At(th, "cursors", t)' # "none" \/ NoCursorIn(t)
    PROVE  TxnInv(th, t)'
<1>1. TxnInv(th, t)
  BY Parts DEF CloseInv
<1>2. \A u \in Thread : TakenBy(u, t)' <=> TakenBy(u, t)
  BY CalmFacts
<1>3. NoCursorIn(t)' <=> NoCursorIn(t)
  BY DEF NoCursorIn, Open, natives
<1>4. /\ At(th, "abort", t)' = "native" => At(th, "abort", t) = "native"
      /\ At(th, "commit", t)' = "native" => At(th, "commit", t) = "native"
  BY DEF Calm, CalmPlace
<1> QED
  BY <1>1, <1>2, <1>3, <1>4 DEF TxnInv, wrappers

(* The functions above the top of a stack call those of a lower rank. *)
LEMMA NotBelow ==
    ASSUME NEW th \in Thread, NEW fn, NEW h, Atop(th, fn, h)
    PROVE  /\ \A g, x : Rank(g) <= Rank(fn) /\ ~(g = fn /\ x = h) => At(th, g, x) = "none"
           /\ \A x : "newcursor" # fn => At(th, "newcursor", x) = "none"
BY RanksAre DEF Atop

LEMMA RanksOf ==
    /\ Rank("cursor") = 1 /\ Rank("db") = 2 /\ Rank("cursors") = 2
    /\ Rank("commit") = 3 /\ Rank("abort") = 3 /\ Rank("newcursor") = 3 /\ Rank("env") = 4
BY DEF Rank

(* A function calls another one on what it works on. *)
LEMMA CursorOfDB ==
    ASSUME IInv, NEW th \in Thread, NEW d \in DB, d \in Reach(Outer(th)), Outer(th) \in Call, NEW c \in dbKids[d]
    PROVE  c \in Cursor /\ c \in Reach(Outer(th))
<1>1. c \in Cursor
  BY Parts DEF TypeOK
<1>2. c \in ptr /\ begunIn[c][1] = d
  BY <1>1, Parts DEF ListInv, CursorInv
<1>3. c \in Using({d})
  BY <1>1, <1>2, Parts, UsedBy, CallAssumption DEF Handle
<1> QED
  BY <1>1, <1>3, ReachDB

LEMMA CursorOfTxn ==
    ASSUME IInv, NEW th \in Thread, NEW t \in Txn, t \in Reach(Outer(th)), Outer(th) \in Call,
           NEW c \in txnKids[t] \cap Cursor
    PROVE  c \in Cursor /\ c \in Reach(Outer(th)) /\ txnOf[c] = t
<1>1. txnOf[c] = t /\ t # None
  BY Parts, CallAssumption DEF ListInv, Handle
<1>2. c \in ptr
  BY <1>1, Parts DEF ListInv
<1>3. c \in Using({t})
  BY <1>1, <1>2, Parts, UsedBy
<1> QED
  BY <1>1, <1>3, ReachTxn

LEMMA DBCursorsInv == ASSUME Orderly, IInv, NEW th \in Thread, DBCursors(th) PROVE IInv'
<1>1. PICK d : Atop(th, "db", d) /\ At(th, "db", d) = "cursors"
  BY RunsAtop DEF DBCursors
<1>2. /\ d \in DB /\ d = Top(th).call.h /\ d \in Reach(Outer(th)) /\ Outer(th) \in Call
      /\ UNCHANGED <<made, wrappers, natives, corrupt>> /\ gil \in Thread \cup {None}
  BY <1>1, Parts, AtKinds DEF Atop, Fits, DBCursors, TypeOK
<1>3. /\ \A t \in Txn : At(th, "cursors", t) = "none"
      /\ \A e : e # d => At(th, "db", e) = "none"
  BY <1>1, RanksOf, RanksAre, NotBelow
<1>4. ASSUME NEW c \in dbKids[d], Invoke(th, "cursor", c, "start", "cursors") PROVE IInv'
  <2>1. c \in Cursor /\ c \in Reach(Outer(th))
    BY <1>2, CursorOfDB
  <2>2. /\ CallOf("cursor", c) \in Call /\ Rank("cursor") < Rank("db")
        /\ CalmPlace("db", "cursors", "cursors") /\ CalmPlace("cursor", "none", "start")
        /\ "start" \in Places /\ "cursors" \in Places /\ gil' \in Thread \cup {None}
    BY <1>2, <1>4, <2>1, RanksOf DEF Call, CallOf, CalmPlace, Places, Invoke
  <2>3. /\ Calls(th, "db", d, "cursors", "cursor", c, "start") /\ Claims(th, {"db", "cursor"})
        /\ (CloseInv(th)' => IInv')
    BY <1>1, <1>2, <1>4, <2>1, <2>2, CalmCall
  <2>4. \A e \in DB : At(th, "db", e)' # "native"
    BY <2>3, <1>3 DEF Calls
  <2>5. \A t \in Txn : CursorsInv(th, t)'
    BY <2>3, <1>3 DEF Calls, CursorsInv
  <2> QED
    BY <2>3, <2>4, <2>5 DEF CloseInv, Claims
<1>5. ASSUME dbKids[d] = {}, Window(th) PROVE IInv'
  <2>1. NoCursorIn(d) /\ (NoCursorIn(d)' <=> NoCursorIn(d))
    BY <1>1, <1>2, <1>5, NoCursorLeft, CallAssumption DEF NoCursorIn, Open, natives
  <2>2. Steps(th) /\ Shifts(th, "db", d, "native")
    BY <1>1, <1>2, <1>5, Parts, MoveSteps DEF Window, Places
  <2>3. Claims(th, {"db"}) /\ (CloseInv(th)' => IInv')
    BY <1>1, <1>2, <1>5, <2>2, CalmShift DEF CalmPlace, Window
  <2>4. \A e \in DB : At(th, "db", e)' = "native" => NoCursorIn(e)'
    BY <2>1, <2>2, <1>3 DEF Shifts
  <2> QED
    BY <2>3, <2>4 DEF CloseInv, Claims
<1> QED
  BY <1>2, <1>4, <1>5 DEF DBCursors

LEMMA WarnCursorsInv == ASSUME Orderly, IInv, NEW th \in Thread, WarnCursors(th) PROVE IInv'
<1>1. PICK t : Atop(th, "cursors", t) /\ At(th, "cursors", t) = "start"
  BY RunsAtop DEF WarnCursors
<1>2. /\ t \in Txn /\ t = Top(th).call.h
      /\ UNCHANGED <<made, wrappers, natives, corrupt>> /\ gil \in Thread \cup {None}
  BY <1>1, Parts DEF Atop, Fits, WarnCursors, TypeOK
<1>3. /\ \A x : x # t => At(th, "cursors", x) = "none"
      /\ \A c : At(th, "cursor", c) = "none"
  BY <1>1, RanksOf, RanksAre, NotBelow
<1>4. \A x \in Txn : TxnInv(th, x)
  BY Parts DEF CloseInv
<1>5. ASSUME txnKids[t] \cap Cursor = {}, Return(th) PROVE IInv'
  <2>1. NoCursorIn(t)
    BY <1>1, <1>2, <1>5, NoCursorLeft, CallAssumption
  <2>2. Steps(th) /\ Shifts(th, "cursors", t, "none")
    BY <1>1, <1>2, <1>5, Parts, ReturnSteps
  <2>3. Calm(th) /\ Claims(th, {"cursors"}) /\ (CloseInv(th)' => IInv')
    BY <1>1, <1>2, <1>5, <2>2, CalmShift DEF CalmPlace, Return
  <2>4. ASSUME NEW x \in Txn PROVE TxnInv(th, x)'
    <3>1. At(th, "abort", x)' = At(th, "abort", x) /\ At(th, "commit", x)' = At(th, "commit", x)
      BY <2>2 DEF Shifts
    <3>2. x # t => At(th, "cursors", x)' = At(th, "cursors", x)
      BY <2>2 DEF Shifts
    <3> QED
      BY <3>1, <3>2, <2>1, <2>2, <2>3, <1>2, <1>4, CalmTxn DEF TxnInv
  <2>5. \A x \in Txn : CursorsInv(th, x)'
    BY <2>2, <1>3 DEF Shifts, CursorsInv
  <2> QED
    BY <2>3, <2>4, <2>5 DEF CloseInv, Claims
<1>6. ASSUME txnKids[t] \cap Cursor # {}, Window(th) PROVE IInv'
  <2>1. PICK c \in Cursor : txnOf[c] = t
    BY <1>2, <1>6, Parts DEF ListInv
  <2>2. Steps(th) /\ Shifts(th, "cursors", t, "native")
    BY <1>1, <1>2, <1>6, Parts, MoveSteps DEF Window, Places
  <2>3. Calm(th) /\ Claims(th, {"cursors"}) /\ (CloseInv(th)' => IInv')
    BY <1>1, <1>2, <1>6, <2>2, CalmShift DEF CalmPlace, Window
  <2>4. ASSUME NEW x \in Txn PROVE TxnInv(th, x)'
    <3>1. At(th, "abort", x)' = At(th, "abort", x) /\ At(th, "commit", x)' = At(th, "commit", x)
      BY <2>2 DEF Shifts
    <3>2. At(th, "cursors", x)' = "none" => At(th, "cursors", x) = "none"
      BY <2>2 DEF Shifts
    <3> QED
      BY <3>1, <3>2, <2>2, <2>3, <1>2, <1>4, CalmTxn DEF TxnInv
  <2>5. \A x \in Txn : CursorsInv(th, x)'
    BY <2>1, <2>2, <1>2, <1>3 DEF Shifts, CursorsInv, wrappers
  <2> QED
    BY <2>3, <2>4, <2>5 DEF CloseInv, Claims
<1> QED
  BY <1>2, <1>5, <1>6 DEF WarnCursors

LEMMA CloseFirstInv == ASSUME Orderly, IInv, NEW th \in Thread, CloseFirst(th) PROVE IInv'
<1>1. PICK t : Atop(th, "cursors", t) /\ At(th, "cursors", t) = "back"
  BY RunsAtop DEF CloseFirst
<1>2. /\ t \in Txn /\ t = Top(th).call.h /\ t \in Reach(Outer(th)) /\ Outer(th) \in Call
      /\ UNCHANGED <<made, wrappers, natives>> /\ gil \in Thread \cup {None}
  BY <1>1, Parts, AtKinds DEF Atop, Fits, CloseFirst, TypeOK
<1>3. \A x : x # t => At(th, "cursors", x) = "none"
  BY <1>1, RanksOf, RanksAre, NotBelow
<1>4. txnKids[t] \cap Cursor # {}
  <2>1. CursorsInv(th, t)
    BY <1>2, Parts DEF CloseInv
  <2>2. PICK c \in Cursor : txnOf[c] = t
    BY <1>1, <2>1 DEF CursorsInv
  <2> QED
    BY <1>2, <2>2, Parts DEF ListInv
<1>5. ~corrupt' /\ ~corrupt
  BY <1>2, <1>4, Parts DEF CloseFirst
<1>6. PICK c \in txnKids[t] \cap Cursor : Invoke(th, "cursor", c, "start", "start")
  BY <1>2, <1>4 DEF CloseFirst
<1>7. c \in Cursor /\ c \in Reach(Outer(th))
  BY <1>2, CursorOfTxn
<1>8. /\ CallOf("cursor", c) \in Call /\ Rank("cursor") < Rank("cursors")
      /\ CalmPlace("cursors", "back", "start") /\ CalmPlace("cursor", "none", "start")
      /\ "start" \in Places /\ gil' \in Thread \cup {None}
  BY <1>2, <1>6, <1>7, RanksOf DEF Call, CallOf, CalmPlace, Places, Invoke
<1>9. UNCHANGED <<made, wrappers, natives, corrupt>> /\ CalmPlace("cursors", At(th, "cursors", t), "start")
  BY Parts, <1>1, <1>2, <1>5, <1>8 DEF TypeOK, CloseFirst
<1>10. /\ Steps(th) /\ Calls(th, "cursors", t, "start", "cursor", c, "start") /\ Calm(th)
       /\ Claims(th, {"cursors", "cursor"}) /\ (CloseInv(th)' => IInv')
  BY <1>1, <1>6, <1>7, <1>8, <1>9, CalmCall, SMTT(60)
<1>11. ASSUME NEW x \in Txn PROVE TxnInv(th, x)'
  <2>1. At(th, "abort", x)' = At(th, "abort", x) /\ At(th, "commit", x)' = At(th, "commit", x)
    BY <1>10 DEF Calls
  <2>2. At(th, "cursors", x)' = "none" => At(th, "cursors", x) = "none"
    BY <1>10 DEF Calls
  <2>3. TxnInv(th, x)
    BY Parts DEF CloseInv
  <2> QED
    BY <2>1, <2>2, <2>3, <1>2, <1>10, CalmTxn DEF TxnInv
<1>12. \A x \in Txn : CursorsInv(th, x)'
  BY <1>10, <1>3 DEF Calls, CursorsInv
<1> QED
  BY <1>10, <1>11, <1>12 DEF CloseInv, Claims

LEMMA TxnCursorsInv == ASSUME Orderly, IInv, NEW th \in Thread, TxnCursors(th) PROVE IInv'
<1>1. PICK fn, t : fn \in {"commit", "abort"} /\ Atop(th, fn, t) /\ At(th, fn, t) = "start"
  BY RunsAtop DEF TxnCursors
<1>2. /\ t \in Txn /\ t \in Reach(Outer(th))
      /\ UNCHANGED <<made, wrappers, natives, corrupt>> /\ gil \in Thread \cup {None}
  BY <1>1, Parts DEF Atop, Fits, TxnCursors, TypeOK
<1>3. \A x : x # t => At(th, "commit", x) = "none" /\ At(th, "abort", x) = "none"
  BY <1>1, RanksOf, RanksAre, NotBelow
<1>4. Invoke(th, "cursors", t, "start", "test")
  BY <1>1 DEF TxnCursors, Atop
<1>5. /\ Rank("cursors") < Rank(fn) /\ "newcursor" \notin {"cursors", fn}
      /\ CalmPlace(fn, "start", "test") /\ CalmPlace("cursors", "none", "start")
      /\ "start" \in Places /\ "test" \in Places /\ gil' \in Thread \cup {None}
  BY <1>1, <1>2, <1>4, RanksOf DEF CalmPlace, Places, Invoke
<1>6. /\ Steps(th) /\ Calls(th, fn, t, "test", "cursors", t, "start") /\ Calm(th)
      /\ Claims(th, {fn, "cursors"}) /\ (CloseInv(th)' => IInv')
  BY <1>1, <1>2, <1>4, <1>5, CalmCall
<1>7. ASSUME NEW x \in Txn PROVE TxnInv(th, x)'
  <2>1. CASE x = t
    <3>1. At(th, "cursors", x)' # "none"
      BY <1>6, <2>1 DEF Calls
    <3> QED
      BY <3>1, <1>2, <1>6, CalmTxn
  <2>2. CASE x # t
    <3>1. At(th, "commit", x)' = "none" /\ At(th, "abort", x)' = "none"
      BY <1>3, <1>6, <2>2 DEF Calls
    <3> QED
      BY <3>1, <1>2, <1>6, CalmTxn
  <2> QED
    BY <2>1, <2>2
<1>8. \A x \in Txn : At(th, "cursors", x)' \notin {"native", "back"}
  BY <1>1, <1>6, RanksOf, RanksAre, NotBelow DEF Calls
<1> QED
  BY <1>1, <1>6, <1>7, <1>8 DEF CloseInv, Claims, CursorsInv

LEMMA AbortBackInv == ASSUME Orderly, IInv, NEW th \in Thread, AbortBack(th) PROVE IInv'
<1>1. PICK t : Atop(th, "abort", t) /\ At(th, "abort", t) = "back"
  BY RunsAtop DEF AbortBack
<1>2. /\ UNCHANGED <<made, wrappers, natives, corrupt>> /\ gil' \in Thread \cup {None}
  BY Parts DEF AbortBack, TypeOK, Return
<1>3. Steps(th) /\ Shifts(th, "abort", t, "none")
  BY <1>1, <1>2, Parts, ReturnSteps DEF AbortBack
<1>4. Calm(th) /\ Claims(th, {"abort"}) /\ (CloseInv(th)' => IInv')
  BY <1>1, <1>2, <1>3, CalmShift DEF CalmPlace
<1>5. ASSUME NEW x \in Txn PROVE TxnInv(th, x)'
  <2>1. At(th, "abort", x)' = "none" /\ At(th, "commit", x)' = "none"
    BY <1>1, <1>3, RanksOf, RanksAre, NotBelow DEF Shifts
  <2> QED
    BY <2>1, <1>2, <1>3, <1>4, CalmTxn
<1> QED
  BY <1>4, <1>5 DEF CloseInv, Claims

LEMMA EnvStartInv == ASSUME Orderly, IInv, NEW th \in Thread, EnvStart(th) PROVE IInv'
<1>1. PICK e : Atop(th, "env", e) /\ At(th, "env", e) = "start"
  BY RunsAtop DEF EnvStart
<1>2. /\ UNCHANGED <<made, wrappers, natives, corrupt>> /\ gil' \in Thread \cup {None} /\ e = Env
  BY <1>1, Parts DEF EnvStart, TypeOK, Return, Goto, Atop, Fits
<1>3. PICK a \in {"none", "test"} : Steps(th) /\ Shifts(th, "env", Env, a) /\ (a = "test" => ~closed)
  <2>1. CASE closed
    BY <1>1, <1>2, <2>1, Parts, ReturnSteps DEF EnvStart
  <2>2. CASE ~closed
    BY <1>1, <1>2, <2>2, Parts, MoveSteps DEF EnvStart, Goto, Places
  <2> QED
    BY <2>1, <2>2
<1>4. Claims(th, {"env"}) /\ (CloseInv(th)' => IInv')
  BY <1>1, <1>2, <1>3, CalmShift DEF CalmPlace
<1>5. EnvInv(th)'
  BY <1>2, <1>3 DEF Shifts, EnvInv, wrappers
<1> QED
  BY <1>4, <1>5 DEF CloseInv, Claims

(* When no transaction is left in the list of the environment, all are
   resolved: no other thread runs. *)
LEMMA EnvAlone ==
    ASSUME Orderly, IInv, NEW th \in Thread, Atop(th, "env", Env)
    PROVE  \A u \in Thread : \A g, x : At(u, g, x) # "none" => u = th /\ g = "env" /\ x = Env
<1>1. At(th, "env", Env) # "none"
  BY DEF Atop, Places
<1> SUFFICES ASSUME NEW u \in Thread, NEW g, NEW x, At(u, g, x) # "none" PROVE u = th /\ g = "env" /\ x = Env
  OBVIOUS
<1>2. u = th
  BY <1>1, Parts, Apart
<1> QED
  BY <1>2, RanksOf, RanksAre, NotBelow

LEMMA EnvTxnsInv == ASSUME Orderly, IInv, NEW th \in Thread, EnvTxns(th) PROVE IInv'
<1>1. PICK e : Atop(th, "env", e) /\ At(th, "env", e) = "test"
  BY RunsAtop DEF EnvTxns
<1>2. /\ e = Env /\ Outer(th).fn = "env"
      /\ UNCHANGED <<made, wrappers, natives, corrupt>> /\ gil \in Thread \cup {None}
  BY <1>1, Parts, AtKinds DEF Atop, Fits, EnvTxns, TypeOK
<1>3. \A g, x : At(th, g, x) # "none" => g = "env" /\ x = Env
  BY <1>1, <1>2, EnvAlone
<1>4. EnvInv(th)
  BY Parts DEF CloseInv
<1>5. ASSUME NEW t \in envKids \cap Txn, Invoke(th, "abort", t, "test", "test") PROVE IInv'
  <2>1. t \in Reach(Outer(th)) /\ CallOf("abort", t) \in Call /\ gil' \in Thread \cup {None}
    BY <1>2, <1>5 DEF Reach, Handle, Call, CallOf, Invoke
  <2>2. /\ Rank("abort") < Rank("env") /\ "test" \in Places
        /\ CalmPlace("env", "test", "test") /\ CalmPlace("abort", "none", "test")
    BY RanksOf DEF CalmPlace, Places
  <2>3. /\ Steps(th) /\ Calls(th, "env", Env, "test", "abort", t, "test") /\ Calm(th)
        /\ Claims(th, {"env", "abort"}) /\ (CloseInv(th)' => IInv')
    BY <1>1, <1>2, <1>5, <2>1, <2>2, CalmCall
  <2>4. ASSUME NEW x \in Txn PROVE TxnInv(th, x)'
    <3>1. At(th, "abort", x)' # "dbs" /\ At(th, "commit", x)' = "none"
      BY <2>3, <1>3 DEF Calls
    <3> QED
      BY <3>1, <1>2, <2>3, CalmTxn
  <2>5. EnvInv(th)'
    <3>1. At(th, "env", Env)' = "test"
      BY <2>3 DEF Calls
    <3> QED
      BY <3>1, <1>1, <1>2, <1>4 DEF EnvInv, wrappers
  <2> QED
    BY <2>3, <2>4, <2>5 DEF CloseInv, Claims
<1>6. ASSUME envKids \cap Txn = {}, Goto(th, "dbs") PROVE IInv'
  <2>1. Steps(th) /\ Shifts(th, "env", Env, "dbs") /\ gil' \in Thread \cup {None}
    BY <1>1, <1>2, <1>6, Parts, MoveSteps DEF Goto, Places
  <2>2. Claims(th, {"env"}) /\ (CloseInv(th)' => IInv')
    BY <1>1, <1>2, <2>1, CalmShift DEF CalmPlace
  <2>3. ASSUME NEW t \in Txn PROVE ~Open(t)'
    <3>1. t \notin ptr /\ ~Taken(t)
      <4>1. \A u \in Thread : At(u, "abort", t) = "none" /\ At(u, "commit", t) = "none"
        BY <1>1, <1>2, EnvAlone
      <4> QED
        BY <4>1, <1>6, Parts DEF ListInv, Taken, TakenBy
    <3> QED
      BY <3>1, <1>2, Parts DEF EndsInv, Open, natives
  <2>4. EnvInv(th)'
    <3>1. At(th, "env", Env)' = "dbs"
      BY <2>1 DEF Shifts
    <3> QED
      BY <3>1, <2>3, <1>1, <1>2, <1>4 DEF EnvInv, wrappers
  <2> QED
    BY <2>2, <2>4 DEF CloseInv, Claims
<1> QED
  BY <1>2, <1>5, <1>6 DEF EnvTxns

(***************************************************************************)
(* A wrapper leaves its lists, closes its handle and clears its pointer.   *)
(***************************************************************************)

LEMMA OneCloser ==
    ASSUME Orderly, IInv, NEW th \in Thread, NEW o \in DB \cup Cursor, At(th, CloserOf(o), o) # "none"
    PROVE  /\ Leaving(o) <=> At(th, CloserOf(o), o) \in {"cursors", "native", "back"}
           /\ Ended(o) <=> At(th, CloserOf(o), o) = "back"
           /\ \A u \in Thread : At(u, CloserOf(o), o) # "none" => u = th
<1>1. \A u \in Thread : At(u, CloserOf(o), o) # "none" => u = th
  BY Parts, Apart, CallAssumption
<1>2. \A u \in Thread : At(u, CloserOf(o), o) \in {"cursors", "native", "back"} => u = th
  BY <1>1
<1> QED
  BY <1>1, <1>2 DEF Leaving, Ended

LEMMA CloserShift ==
    ASSUME Orderly, IInv, NEW th \in Thread, NEW o \in DB \cup Cursor, NEW fn, fn = CloserOf(o),
           At(th, fn, o) # "none", NEW a, Steps(th), Shifts(th, fn, o, a)
    PROVE  /\ Leaving(o)' <=> a \in {"cursors", "native", "back"}
           /\ Ended(o)' <=> a = "back"
           /\ \A x : x # o => (Leaving(x)' <=> Leaving(x)) /\ (Ended(x)' <=> Ended(x))
           /\ \A u \in Thread : \A t : TakenBy(u, t)' <=> TakenBy(u, t)
           /\ \A t : (Taken(t)' <=> Taken(t)) /\ (Aborting(t)' <=> Aborting(t))
           /\ \A c : Linking(c)' <=> Linking(c)
<1>1. fn \in {"db", "cursor"}
  BY DEF CloserOf
<1>2. \A u \in Thread : \A g, x : (g # fn \/ x # o) => At(u, g, x)' = At(u, g, x)
  BY DEF Steps, Shifts
<1>3. At(th, fn, o)' = a /\ \A u \in Thread : u # th => At(u, fn, o)' = "none"
  BY OneCloser DEF Steps, Shifts
<1>4. (Leaving(o)' <=> a \in {"cursors", "native", "back"}) /\ (Ended(o)' <=> a = "back")
  BY <1>3 DEF Leaving, Ended, CloserOf
<1>5. ASSUME NEW x, x # o PROVE (Leaving(x)' <=> Leaving(x)) /\ (Ended(x)' <=> Ended(x))
  <2>1. \A u \in Thread : At(u, CloserOf(x), x)' = At(u, CloserOf(x), x)
    BY <1>2, <1>5
  <2> QED
    BY <2>1 DEF Leaving, Ended, CloserOf
<1>6. ASSUME NEW u \in Thread, NEW t PROVE TakenBy(u, t)' <=> TakenBy(u, t)
  BY <1>1, <1>2 DEF TakenBy
<1>7. \A t : (Taken(t)' <=> Taken(t)) /\ (Aborting(t)' <=> Aborting(t))
  <2>1. \A u \in Thread : \A t : At(u, "abort", t)' = At(u, "abort", t)
    BY <1>1, <1>2
  <2> QED
    BY <2>1, <1>6 DEF Taken, Aborting
<1>8. \A c : Linking(c)' <=> Linking(c)
  <2>1. \A u \in Thread : \A c : At(u, "newcursor", c)' = At(u, "newcursor", c)
    BY <1>1, <1>2
  <2> QED
    BY <2>1 DEF Linking
<1> QED
  BY <1>4, <1>5, <1>6, <1>7, <1>8

LEMMA ExtractFacts ==
    ASSUME IInv, NEW o \in DB \cup Cursor, o \in ptr, ~Leaving(o), Extract(o)
    PROVE  /\ corrupt' = FALSE
           /\ envKids' = envKids \ {o}
           /\ dbKids' \in [DB -> SUBSET Cursor]
           /\ \A d \in DB, c \in Cursor : c \in dbKids'[d] <=> c \in dbKids[d] /\ c # o
           /\ txnOf' \in [DB \cup Cursor -> Txn \cup {None}]
           /\ \A x \in DB \cup Cursor : txnOf'[x] = IF x = o THEN None ELSE txnOf[x]
           /\ txnKids' \in [Txn -> SUBSET (DB \cup Cursor)]
           /\ \A t \in Txn, x \in DB \cup Cursor : x \in txnKids'[t] <=> txnOf'[x] = t
<1> USE CallAssumption
<1> DEFINE t == txnOf[o]
<1>1. /\ TypeOK /\ ListInv /\ CursorInv
  BY Parts
<1>2. t \in Txn \cup {None} /\ None \notin Txn /\ None \notin DB
  BY <1>1 DEF TypeOK, Handle
<1>3. o \in Cursor => dbOf[o] \in DB /\ o \in dbKids[dbOf[o]]
  <2> SUFFICES ASSUME o \in Cursor PROVE dbOf[o] \in DB /\ o \in dbKids[dbOf[o]]
    OBVIOUS
  <2>1. PICK n \in Call : n.fn = "newcursor" /\ begunIn[o][1] = n.db
    BY <1>1 DEF CursorInv, MadeBy
  <2>2. dbOf[o] \in DB
    BY <2>1, <1>1, CallKinds DEF CursorInv
  <2> QED
    BY <2>2, <1>1 DEF ListInv
<1>4. (o \in DB => o \in envKids) /\ (t # None => o \in txnKids[t])
  BY <1>1, <1>2 DEF ListInv
<1>5. corrupt' = FALSE
  BY <1>3, <1>4 DEF Extract
<1>6. /\ envKids' = envKids \ {o}
      /\ dbKids' \in [DB -> SUBSET Cursor]
      /\ \A d \in DB, c \in Cursor : c \in dbKids'[d] <=> c \in dbKids[d] /\ c # o
  <2>1. CASE o \in DB
    BY <2>1, <1>1 DEF Extract, TypeOK
  <2>2. CASE o \in Cursor
    <3>1. /\ o \notin DB /\ envKids' = envKids /\ dbKids' = [dbKids EXCEPT ![dbOf[o]] = @ \ {o}]
      BY <2>2 DEF Extract
    <3>2. o \notin envKids
      BY <2>2, <1>1 DEF TypeOK
    <3>3. \A d \in DB : d # dbOf[o] => o \notin dbKids[d]
      BY <2>2, <1>1 DEF ListInv
    <3>4. \A d \in DB : dbKids'[d] = dbKids[d] \ {o}
      BY <3>1, <3>3, <1>1, <1>3, <2>2 DEF TypeOK
    <3> QED
      BY <3>1, <3>2, <3>4, <1>1, <1>3, <2>2 DEF TypeOK
  <2> QED
    BY <2>1, <2>2
<1>7. /\ txnOf' \in [DB \cup Cursor -> Txn \cup {None}]
      /\ \A x \in DB \cup Cursor : txnOf'[x] = IF x = o THEN None ELSE txnOf[x]
  BY <1>1 DEF Extract, TypeOK
<1>8. /\ txnKids' \in [Txn -> SUBSET (DB \cup Cursor)]
      /\ \A x \in Txn : txnKids'[x] = txnKids[x] \ {o}
  <2>1. \A x \in Txn : x # t => o \notin txnKids[x]
    BY <1>1 DEF ListInv
  <2>2. CASE t = None
    BY <2>1, <2>2, <1>1, <1>2 DEF Extract, TypeOK
  <2>3. CASE t # None
    <3>1. txnKids' = [txnKids EXCEPT ![t] = @ \ {o}] /\ t \in Txn
      BY <2>3, <1>2 DEF Extract
    <3> QED
      BY <3>1, <2>1, <1>1 DEF TypeOK
  <2> QED
    BY <2>2, <2>3
<1>9. \A x \in Txn, y \in DB \cup Cursor : y \in txnKids'[x] <=> txnOf'[y] = x
  BY <1>1, <1>2, <1>7, <1>8 DEF ListInv
<1> QED
  BY <1>5, <1>6, <1>7, <1>8, <1>9

LEMMA LeaveStep ==
    ASSUME Orderly, IInv, NEW th \in Thread, NEW o \in DB \cup Cursor, NEW fn, fn = CloserOf(o),
           Atop(th, fn, o), At(th, fn, o) = "start", o \in ptr, Extract(o),
           NEW a \in {"native", "cursors"}, Steps(th), Shifts(th, fn, o, a),
           UNCHANGED <<made, ptr, closed, dbOf, natives>>, gil' \in Thread \cup {None}
    PROVE  Claims(th, {fn}) /\ (CloseInv(th)' => IInv')
<1> USE CallAssumption
<1>1. /\ TypeOK /\ ListInv /\ CursorInv /\ EndsInv /\ OrderInv /\ None \notin Txn /\ None \notin DB
  BY Parts DEF Handle
<1>2. ~Leaving(o) /\ ~Ended(o)
  BY OneCloser
<1>3. /\ corrupt' = FALSE
      /\ envKids' = envKids \ {o}
      /\ dbKids' \in [DB -> SUBSET Cursor]
      /\ \A d \in DB, c \in Cursor : c \in dbKids'[d] <=> c \in dbKids[d] /\ c # o
      /\ txnOf' \in [DB \cup Cursor -> Txn \cup {None}]
      /\ \A x \in DB \cup Cursor : txnOf'[x] = IF x = o THEN None ELSE txnOf[x]
      /\ txnKids' \in [Txn -> SUBSET (DB \cup Cursor)]
      /\ \A t \in Txn, x \in DB \cup Cursor : x \in txnKids'[t] <=> txnOf'[x] = t
  BY <1>2, ExtractFacts
<1>4. /\ Leaving(o)' /\ ~Ended(o)'
      /\ \A x : x # o => (Leaving(x)' <=> Leaving(x)) /\ (Ended(x)' <=> Ended(x))
      /\ \A u \in Thread : \A t : TakenBy(u, t)' <=> TakenBy(u, t)
      /\ \A t : (Taken(t)' <=> Taken(t)) /\ (Aborting(t)' <=> Aborting(t))
      /\ \A c : Linking(c)' <=> Linking(c)
  <2> HIDE CallAssumption
  <2>1. At(th, fn, o) # "none"
    OBVIOUS
  <2>2. /\ Leaving(o)' <=> a \in {"cursors", "native", "back"}
        /\ Ended(o)' <=> a = "back"
        /\ \A x : x # o => (Leaving(x)' <=> Leaving(x)) /\ (Ended(x)' <=> Ended(x))
        /\ \A u \in Thread : \A t : TakenBy(u, t)' <=> TakenBy(u, t)
        /\ \A t : (Taken(t)' <=> Taken(t)) /\ (Aborting(t)' <=> Aborting(t))
        /\ \A c : Linking(c)' <=> Linking(c)
    BY <2>1, CloserShift
  <2> QED
    BY <2>2
<1>5. TypeOK'
  <2>1. corrupt' \in BOOLEAN /\ stack' \in [Thread -> Seq(Frame)] /\ envKids' \subseteq Txn \cup DB
    BY <1>1, <1>3 DEF TypeOK, Steps
  <2> QED
    BY <2>1, <1>1, <1>3 DEF TypeOK, natives
<1>6. ListInv'
  <2>1. \A d \in DB : d \in envKids' <=> d \in ptr' /\ ~Leaving(d)'
    BY <1>1, <1>3, <1>4 DEF ListInv
  <2>2. \A t \in Txn : t \in envKids' <=> t \in ptr' \/ Aborting(t)'
    BY <1>1, <1>3, <1>4 DEF ListInv
  <2>3. \A d \in DB, c \in Cursor : c \in dbKids'[d] <=> c \in ptr' /\ dbOf'[c] = d /\ ~Leaving(c)'
    BY <1>1, <1>3, <1>4 DEF ListInv
  <2>4. \A x \in DB \cup Cursor : (txnOf'[x] # None => x \in ptr' /\ ~Leaving(x)') /\ (Leaving(x)' => x \in ptr')
    BY <1>1, <1>3, <1>4 DEF ListInv
  <2> QED
    BY <2>1, <2>2, <2>3, <2>4, <1>3 DEF ListInv
<1>7. CursorInv'
  <2>1. \A d \in DB : txnOf'[d] \in {None, OpenedIn[d]}
    BY <1>1, <1>3 DEF CursorInv
  <2>2. ASSUME NEW c \in Cursor, c \in lives' \cup ptr'
        PROVE  \E n \in Call : /\ MadeBy(c, n)' /\ begunIn'[c][1] = n.db /\ begunIn'[c][2] \in {None, n.txn}
                               /\ txnOf'[c] \in {None, n.txn}
    <3>1. PICK n \in Call : /\ MadeBy(c, n) /\ begunIn[c][1] = n.db /\ begunIn[c][2] \in {None, n.txn}
                            /\ txnOf[c] \in {None, n.txn}
      BY <1>1, <2>2 DEF CursorInv, natives
    <3>2. MadeBy(c, n)'
      BY <3>1 DEF MadeBy
    <3> QED
      BY <3>1, <3>2, <1>3 DEF natives
  <2>3. \A c \in Cursor : c \in ptr' => dbOf'[c] = begunIn'[c][1]
    BY <1>1 DEF CursorInv, natives
  <2>4. \A c \in Cursor : c \in ptr' /\ ~Leaving(c)' /\ begunIn'[c][2] # None => txnOf'[c] = begunIn'[c][2]
    BY <1>1, <1>3, <1>4 DEF CursorInv, natives
  <2> QED
    BY <2>1, <2>2, <2>3, <2>4 DEF CursorInv
<1>8. EndsInv'
  <2>1. \A x : Ended(x)' <=> Ended(x)
    BY <1>2, <1>4
  <2> QED
    BY <2>1, <1>1, <1>4 DEF EndsInv, natives
<1>9. OrderInv'
  BY <1>1 DEF OrderInv, Open, natives
<1>10. ASSUME NEW u \in Thread, u # th \/ fn = "db" \/ \A t \in Txn : At(u, "cursors", t) \notin {"native", "back"}
       PROVE  KeepsData(u)
  <2>1. \A t \in Txn, v \in Thread : TakenBy(u, t) /\ TakenBy(v, t)' => v = u
    BY <1>4, Parts DEF CloseInv, TxnInv
  <2>2. ASSUME NEW t \in Txn, At(u, "cursors", t) \in {"native", "back"}, NEW c \in Cursor, txnOf[c] = t
        PROVE  txnOf'[c] = t
    <3>1. CASE c = o
      <4>1. c \in ptr /\ u # th
        BY <1>10, <2>2, <3>1 DEF CloserOf
      <4>2. At(u, "cursors", t) # "none" /\ At(th, "cursor", c) # "none"
        BY <2>2, <3>1 DEF CloserOf
      <4> QED
        BY <4>1, <4>2, <2>2, Parts, CursorApart
    <3>2. CASE c # o
      BY <2>2, <3>2, <1>3
    <3> QED
      BY <3>1, <3>2
  <2>3. \A c \in Cursor : At(u, "newcursor", c) # "none" => c \notin ptr' /\ txnOf'[c] = None
    <3>1. \A c \in Cursor : NewInv(u, c)
      BY Parts DEF CloseInv
    <3> QED
      BY <3>1, <1>3 DEF NewInv
  <2> QED
    BY <2>1, <2>2, <2>3, <1>3 DEF KeepsData
<1>11. \A u \in Thread : KeepsNatives(u)
  BY QuietNatives
<1>12. \A u \in Thread : u # th => CloseInv(u)'
  BY <1>10, <1>11, Parts, OthersKept
<1>13. KeepsData(th)
  <2>1. ASSUME fn = "cursor", NEW t \in Txn PROVE At(th, "cursors", t) \notin {"native", "back"}
    <3>1. CursorsInv(th, t)
      BY Parts DEF CloseInv
    <3>2. o \in Cursor /\ At(th, "cursor", o) # "none"
      BY <2>1 DEF CloserOf
    <3> QED
      BY <3>1, <3>2 DEF CursorsInv
  <2>2. fn \in {"cursor", "db"}
    BY DEF CloserOf
  <2> QED
    BY <2>1, <2>2, <1>10
<1>14. Claims(th, {fn})
  BY <1>11, <1>13, Parts, ShiftSame, ClaimsKept
<1>15. DataInv'
  BY <1>6, <1>7, <1>8, <1>9 DEF DataInv
<1> QED
  BY <1>3, <1>5, <1>12, <1>14, <1>15, Whole

LEMMA CursorStartInv == ASSUME Orderly, IInv, NEW th \in Thread, CursorStart(th) PROVE IInv'
<1>1. PICK c : Atop(th, "cursor", c) /\ At(th, "cursor", c) = "start"
  BY RunsAtop DEF CursorStart
<1>2. /\ c \in Cursor /\ c = Top(th).call.h /\ "cursor" = CloserOf(c) /\ gil' \in Thread \cup {None}
      /\ UNCHANGED <<made, ptr, closed, dbOf, natives>>
  BY <1>1, Parts, CallAssumption DEF Atop, Fits, CursorStart, CloserOf, TypeOK, Window, Return
<1>3. \A t \in Txn : At(th, "cursors", t) \notin {"native", "back"}
  <2>1. \A t \in Txn : CursorsInv(th, t)
    BY Parts DEF CloseInv
  <2> QED
    BY <2>1, <1>1, <1>2 DEF CursorsInv
<1>4. CASE c \in ptr
  <2>1. Extract(c) /\ Steps(th) /\ Shifts(th, "cursor", c, "native")
    BY <1>1, <1>2, <1>4, Parts, MoveSteps DEF CursorStart, Window, Places
  <2>2. Claims(th, {"cursor"}) /\ (CloseInv(th)' => IInv')
    BY <1>1, <1>2, <1>4, <2>1, LeaveStep
  <2>3. \A t \in Txn : CursorsInv(th, t)'
    BY <1>3, <2>1 DEF Shifts, CursorsInv
  <2> QED
    BY <2>2, <2>3 DEF CloseInv, Claims
<1>5. CASE c \notin ptr
  <2>1. UNCHANGED <<wrappers, natives, corrupt>> /\ Return(th)
    BY <1>2, <1>5 DEF CursorStart, wrappers
  <2>2. Steps(th) /\ Shifts(th, "cursor", c, "none")
    BY <1>1, <1>2, <2>1, Parts, ReturnSteps
  <2>3. Claims(th, {"cursor"}) /\ (CloseInv(th)' => IInv')
    BY <1>1, <1>2, <2>1, <2>2, CalmShift DEF CalmPlace
  <2>4. \A t \in Txn : CursorsInv(th, t)'
    BY <1>3, <2>2 DEF Shifts, CursorsInv
  <2> QED
    BY <2>3, <2>4 DEF CloseInv, Claims
<1> QED
  BY <1>4, <1>5

LEMMA DBStartInv == ASSUME Orderly, IInv, NEW th \in Thread, DBStart(th) PROVE IInv'
<1>1. PICK d : Atop(th, "db", d) /\ At(th, "db", d) = "start"
  BY RunsAtop DEF DBStart
<1>2. /\ d \in DB /\ d = Top(th).call.h /\ "db" = CloserOf(d) /\ gil' \in Thread \cup {None}
      /\ UNCHANGED <<made, ptr, closed, dbOf, natives>>
  BY <1>1, Parts DEF Atop, Fits, DBStart, CloserOf, TypeOK, Goto, Return
<1>3. \A e : e # d => At(th, "db", e) = "none"
  BY <1>1, RanksOf, RanksAre, NotBelow
<1>4. CASE d \in ptr
  <2>1. Extract(d) /\ Steps(th) /\ Shifts(th, "db", d, "cursors")
    BY <1>1, <1>2, <1>4, Parts, MoveSteps DEF DBStart, Goto, Places
  <2>2. Claims(th, {"db"}) /\ (CloseInv(th)' => IInv')
    BY <1>1, <1>2, <1>4, <2>1, LeaveStep
  <2>3. \A e \in DB : At(th, "db", e)' # "native"
    BY <1>3, <2>1 DEF Shifts
  <2> QED
    BY <2>2, <2>3 DEF CloseInv, Claims
<1>5. CASE d \notin ptr
  <2>1. UNCHANGED <<wrappers, natives, corrupt>> /\ Return(th)
    BY <1>2, <1>5 DEF DBStart, wrappers
  <2>2. Steps(th) /\ Shifts(th, "db", d, "none")
    BY <1>1, <1>2, <2>1, Parts, ReturnSteps
  <2>3. Claims(th, {"db"}) /\ (CloseInv(th)' => IInv')
    BY <1>1, <1>2, <2>1, <2>2, CalmShift DEF CalmPlace
  <2>4. \A e \in DB : At(th, "db", e)' # "native"
    BY <1>3, <2>2 DEF Shifts
  <2> QED
    BY <2>3, <2>4 DEF CloseInv, Claims
<1> QED
  BY <1>4, <1>5

(* What a step that changes only pointers and places does to other claims. *)
LEMMA PointerData ==
    ASSUME IInv, NEW u \in Thread, UNCHANGED <<txnOf, closed>>,
           \A x \in Txn \cup Cursor : x \in ptr' => x \in ptr,
           \A v \in Thread, t \in Txn : TakenBy(v, t)' => TakenBy(v, t)
    PROVE  KeepsData(u)
<1>1. \A t \in Txn : TakenBy(u, t) => \A v \in Thread : TakenBy(v, t) => v = u
  BY Parts DEF CloseInv, TxnInv
<1>2. \A c \in Cursor : At(u, "newcursor", c) # "none" => c \notin ptr /\ txnOf[c] = None
  BY Parts DEF CloseInv, NewInv
<1> QED
  BY <1>1, <1>2 DEF KeepsData

LEMMA ClearWrapper ==
    ASSUME Orderly, IInv, NEW th \in Thread, NEW o \in DB \cup Cursor, NEW fn, fn = CloserOf(o),
           Atop(th, fn, o), At(th, fn, o) = "back", Steps(th), Shifts(th, fn, o, "none"),
           ptr' = ptr \ {o},
           UNCHANGED <<made, closed, envKids, dbKids, txnKids, txnOf, dbOf, natives, corrupt>>,
           gil' \in Thread \cup {None}
    PROVE  Claims(th, {fn}) /\ (CloseInv(th)' => IInv')
<1>1. /\ TypeOK /\ ListInv /\ CursorInv /\ EndsInv /\ OrderInv /\ None \notin Txn /\ None \notin DB /\ ~corrupt
      /\ Txn \cap DB = {} /\ Txn \cap Cursor = {} /\ DB \cap Cursor = {} /\ Env \notin Cursor
  BY Parts, CallAssumption DEF Handle
<1>2. Leaving(o) /\ Ended(o)
  BY OneCloser
<1>3. o \in ptr /\ txnOf[o] = None
  BY <1>1, <1>2 DEF ListInv
<1>4. /\ ~Leaving(o)' /\ ~Ended(o)'
      /\ \A x : x # o => (Leaving(x)' <=> Leaving(x)) /\ (Ended(x)' <=> Ended(x))
      /\ \A u \in Thread : \A t : TakenBy(u, t)' <=> TakenBy(u, t)
      /\ \A t : (Taken(t)' <=> Taken(t)) /\ (Aborting(t)' <=> Aborting(t))
      /\ \A c : Linking(c)' <=> Linking(c)
  <2>1. At(th, fn, o) # "none"
    OBVIOUS
  <2>2. /\ Leaving(o)' <=> "none" \in {"cursors", "native", "back"}
        /\ Ended(o)' <=> "none" = "back"
        /\ \A x : x # o => (Leaving(x)' <=> Leaving(x)) /\ (Ended(x)' <=> Ended(x))
        /\ \A u \in Thread : \A t : TakenBy(u, t)' <=> TakenBy(u, t)
        /\ \A t : (Taken(t)' <=> Taken(t)) /\ (Aborting(t)' <=> Aborting(t))
        /\ \A c : Linking(c)' <=> Linking(c)
    BY <2>1, CloserShift
  <2> QED
    BY <2>2
<1>5. TypeOK'
  BY <1>1 DEF TypeOK, Steps, natives
<1>6. ListInv'
  <2>1. \A d \in DB : d \in envKids' <=> d \in ptr' /\ ~Leaving(d)'
    BY <1>1, <1>2, <1>4 DEF ListInv
  <2>2. \A t \in Txn : t \in envKids' <=> t \in ptr' \/ Aborting(t)'
    BY <1>1, <1>4 DEF ListInv
  <2>3. \A d \in DB, c \in Cursor : c \in dbKids'[d] <=> c \in ptr' /\ dbOf'[c] = d /\ ~Leaving(c)'
    BY <1>1, <1>2, <1>4 DEF ListInv
  <2>4. \A x \in DB \cup Cursor : (txnOf'[x] # None => x \in ptr' /\ ~Leaving(x)') /\ (Leaving(x)' => x \in ptr')
    BY <1>1, <1>3, <1>4 DEF ListInv
  <2> QED
    BY <2>1, <2>2, <2>3, <2>4, <1>1 DEF ListInv
<1>7. CursorInv'
  <2>1. \A c, n : MadeBy(c, n)' <=> MadeBy(c, n)
    BY DEF MadeBy
  <2> QED
    BY <2>1, <1>1, <1>4 DEF CursorInv, natives
<1>8. EndsInv'
  <2>1. \A d \in DB : ends'[d] = IF d \in ptr' /\ ~Ended(d)' THEN 0 ELSE 1
    BY <1>1, <1>2, <1>4 DEF EndsInv, natives
  <2>2. \A t \in Txn : ends'[t] = IF t \in ptr' \/ Taken(t)' THEN 0 ELSE 1
    BY <1>1, <1>4 DEF EndsInv, natives
  <2>3. ASSUME NEW c \in Cursor
        PROVE  /\ c \notin lives' => c \notin ptr' /\ ends'[c] = 0
               /\ c \in ptr' => ends'[c] = IF Ended(c)' THEN 1 ELSE 0
               /\ c \in lives' \ ptr' => ends'[c] = IF Linking(c)' THEN 0 ELSE 1
    <3>1. CASE c = o
      <4>1. ~Linking(c)
        <5>1. \A u \in Thread : NewInv(u, c)
          BY Parts DEF CloseInv
        <5> QED
          BY <5>1, <3>1, <1>3 DEF NewInv, Linking
      <4>2. ends[c] = 1 /\ c \in lives
        BY <3>1, <1>1, <1>2, <1>3 DEF EndsInv
      <4> QED
        BY <4>1, <4>2, <3>1, <1>4 DEF natives
    <3>2. CASE c # o
      BY <3>2, <1>1, <1>4 DEF EndsInv, natives
    <3> QED
      BY <3>1, <3>2
  <2> QED
    BY <2>1, <2>2, <2>3, <1>1 DEF EndsInv, natives
<1>9. OrderInv'
  BY <1>1 DEF OrderInv, Open, natives
<1>10. \A u \in Thread : KeepsData(u) /\ KeepsNatives(u)
  BY <1>4, PointerData, QuietNatives
<1>11. \A u \in Thread : u # th => CloseInv(u)'
  BY <1>10, Parts, OthersKept
<1>12. Claims(th, {fn})
  BY <1>10, Parts, ShiftSame, ClaimsKept
<1>13. DataInv' /\ ~corrupt'
  BY <1>1, <1>6, <1>7, <1>8, <1>9 DEF DataInv
<1> QED
  BY <1>5, <1>11, <1>12, <1>13, Whole

LEMMA ClearEnv ==
    ASSUME Orderly, IInv, NEW th \in Thread, Steps(th), Shifts(th, "env", Env, "none"),
           ptr' = ptr \ {Env},
           UNCHANGED <<made, closed, envKids, dbKids, txnKids, txnOf, dbOf, natives, corrupt>>,
           gil' \in Thread \cup {None}
    PROVE  IInv'
<1>1. Calm(th)
  BY DEF Calm, CalmPlace, Shifts
<1>2. \A x \in Txn \cup DB \cup Cursor : x \in ptr' <=> x \in ptr
  BY CallAssumption
<1>3. TypeOK' /\ ~corrupt'
  BY Parts DEF TypeOK, Steps, natives
<1>4. ListInv'
  BY <1>1, <1>2, Parts, CalmFacts DEF ListInv
<1>5. CursorInv'
  <2>1. \A c, n : MadeBy(c, n)' <=> MadeBy(c, n)
    BY DEF MadeBy
  <2> QED
    BY <2>1, <1>1, <1>2, Parts, CalmFacts DEF CursorInv, natives
<1>6. EndsInv'
  BY <1>1, <1>2, Parts, CalmFacts DEF EndsInv, natives
<1>7. OrderInv'
  BY Parts DEF OrderInv, Open, natives
<1>8. \A u \in Thread : KeepsData(u) /\ KeepsNatives(u)
  BY <1>1, <1>2, CalmFacts, PointerData, QuietNatives
<1>9. \A u \in Thread : u # th => CloseInv(u)'
  BY <1>8, Parts, OthersKept
<1>10. Claims(th, {"env"})
  BY <1>8, Parts, ShiftSame, ClaimsKept
<1>11. EnvInv(th)'
  BY DEF Shifts, EnvInv
<1>12. CloseInv(th)'
  BY <1>10, <1>11 DEF CloseInv, Claims
<1> QED
  BY <1>3, <1>4, <1>5, <1>6, <1>7, <1>9, <1>12, Whole DEF DataInv

LEMMA ClearPointerInv == ASSUME Orderly, IInv, NEW th \in Thread, ClearPointer(th) PROVE IInv'
<1>1. PICK fn, o : fn \in {"cursor", "db", "env"} /\ Atop(th, fn, o) /\ At(th, fn, o) = "back"
  BY RunsAtop DEF ClearPointer
<1>2. /\ UNCHANGED <<made, closed, envKids, dbKids, txnKids, txnOf, dbOf, natives, corrupt>>
      /\ ptr' = ptr \ {o} /\ gil' \in Thread \cup {None} /\ Return(th)
  BY <1>1, Parts DEF Atop, ClearPointer, TypeOK, Return
<1>3. Steps(th) /\ Shifts(th, fn, o, "none")
  BY <1>1, <1>2, Parts, ReturnSteps
<1>4. CASE fn = "env"
  <2>1. o = Env
    BY <1>1, <1>4 DEF Atop, Fits
  <2> QED
    BY <1>2, <1>3, <1>4, <2>1, ClearEnv
<1>5. CASE fn = "db"
  <2>1. o \in DB /\ fn = CloserOf(o)
    BY <1>1, <1>5 DEF Atop, Fits, CloserOf
  <2>2. Claims(th, {"db"}) /\ (CloseInv(th)' => IInv')
    BY <1>1, <1>2, <1>3, <1>5, <2>1, ClearWrapper
  <2>3. \A e \in DB : At(th, "db", e)' # "native"
    BY <1>1, <1>3, <1>5, RanksOf, RanksAre, NotBelow DEF Shifts
  <2> QED
    BY <2>2, <2>3 DEF CloseInv, Claims
<1>6. CASE fn = "cursor"
  <2>1. o \in Cursor /\ fn = CloserOf(o)
    BY <1>1, <1>6, CallAssumption DEF Atop, Fits, CloserOf
  <2>2. Claims(th, {"cursor"}) /\ (CloseInv(th)' => IInv')
    BY <1>1, <1>2, <1>3, <1>6, <2>1, ClearWrapper
  <2>3. \A t \in Txn : CursorsInv(th, t)'
    <3>1. \A t \in Txn : CursorsInv(th, t)
      BY Parts DEF CloseInv
    <3> QED
      BY <3>1, <2>1, <1>1, <1>3, <1>6 DEF CursorsInv, Shifts
  <2> QED
    BY <2>2, <2>3 DEF CloseInv, Claims
<1> QED
  BY <1>1, <1>4, <1>5, <1>6

(***************************************************************************)
(* A transaction is taken, its lists are left.                             *)
(***************************************************************************)

LEMMA TakeData ==
    ASSUME IInv, NEW th \in Thread, Steps(th), NEW t \in Txn, t \in ptr, ptr' = ptr \ {t},
           NEW aborts \in BOOLEAN,
           envKids' = IF aborts THEN envKids ELSE envKids \ {t},
           \A o : (Leaving(o)' <=> Leaving(o)) /\ (Ended(o)' <=> Ended(o)) /\ (Linking(o)' <=> Linking(o)),
           \A u \in Thread : \A x : TakenBy(u, x)' <=> TakenBy(u, x) \/ (u = th /\ x = t),
           \A x : Aborting(x)' <=> Aborting(x) \/ (aborts /\ x = t),
           UNCHANGED <<made, closed, dbKids, txnKids, txnOf, dbOf, natives, corrupt>>,
           gil' \in Thread \cup {None}
    PROVE  /\ \A u \in Thread : KeepsData(u) /\ KeepsNatives(u) /\ ~TakenBy(u, t)
           /\ CloseInv(th)' => IInv'
<1>1. /\ TypeOK /\ ListInv /\ CursorInv /\ EndsInv /\ OrderInv /\ ~corrupt
      /\ \A x \in DB \cup Cursor \cup {Env} : x # t
  BY Parts, CallAssumption
<1>2. ASSUME NEW u \in Thread PROVE ~TakenBy(u, t)
  BY Parts DEF CloseInv, TxnInv
<1>3. ~Taken(t) /\ ~Aborting(t) /\ Taken(t)' /\ \A x : x # t => (Taken(x)' <=> Taken(x))
  BY <1>2 DEF Taken, Aborting, TakenBy
<1>4. TypeOK'
  BY <1>1 DEF TypeOK, Steps, natives
<1>5. ListInv'
  <2>1. \A d \in DB : d \in envKids' <=> d \in ptr' /\ ~Leaving(d)'
    BY <1>1 DEF ListInv
  <2>2. \A x \in Txn : x \in envKids' <=> x \in ptr' \/ Aborting(x)'
    BY <1>1, <1>3 DEF ListInv
  <2>3. \A d \in DB, c \in Cursor : c \in dbKids'[d] <=> c \in ptr' /\ dbOf'[c] = d /\ ~Leaving(c)'
    BY <1>1 DEF ListInv
  <2>4. \A x \in DB \cup Cursor : (txnOf'[x] # None => x \in ptr' /\ ~Leaving(x)') /\ (Leaving(x)' => x \in ptr')
    BY <1>1 DEF ListInv
  <2> QED
    BY <2>1, <2>2, <2>3, <2>4, <1>1 DEF ListInv
<1>6. CursorInv'
  <2>1. \A c, n : MadeBy(c, n)' <=> MadeBy(c, n)
    BY DEF MadeBy
  <2> QED
    BY <2>1, <1>1 DEF CursorInv, natives
<1>7. EndsInv'
  <2>1. \A x \in Txn : ends'[x] = IF x \in ptr' \/ Taken(x)' THEN 0 ELSE 1
    BY <1>1, <1>3 DEF EndsInv, natives
  <2> QED
    BY <2>1, <1>1 DEF EndsInv, natives
<1>8. OrderInv'
  BY <1>1 DEF OrderInv, Open, natives
<1>9. ASSUME NEW u \in Thread PROVE KeepsData(u) /\ KeepsNatives(u)
  <2>1. \A x \in Txn, v \in Thread : TakenBy(u, x) /\ TakenBy(v, x)' => v = u
    <3>1. \A x \in Txn, v \in Thread : TakenBy(u, x) /\ TakenBy(v, x) => v = u
      BY Parts DEF CloseInv, TxnInv
    <3> QED
      BY <3>1, <1>2
  <2>2. \A c \in Cursor : At(u, "newcursor", c) # "none" => c \notin ptr /\ txnOf[c] = None
    BY Parts DEF CloseInv, NewInv
  <2> QED
    BY <2>1, <2>2, QuietNatives DEF KeepsData
<1>10. \A u \in Thread : u # th => CloseInv(u)'
  BY <1>9, Parts, OthersKept
<1>11. DataInv' /\ ~corrupt'
  BY <1>1, <1>5, <1>6, <1>7, <1>8 DEF DataInv
<1> QED
  BY <1>2, <1>4, <1>9, <1>10, <1>11, Whole

LEMMA TakeTxnInv == ASSUME Orderly, IInv, NEW th \in Thread, TakeTxn(th) PROVE IInv'
<1>1. PICK fn, t : fn \in {"commit", "abort"} /\ Atop(th, fn, t) /\ At(th, fn, t) = "test"
  BY RunsAtop DEF TakeTxn
<1>2. /\ t \in Txn /\ t = Top(th).call.h /\ Top(th).call.fn = fn /\ t \in Reach(Outer(th))
      /\ UNCHANGED <<made, closed, dbKids, txnKids, txnOf, dbOf, natives, corrupt>>
      /\ gil \in Thread \cup {None}
  BY <1>1, Parts DEF Atop, Fits, TakeTxn, TypeOK
<1>3. /\ \A g \in {"commit", "abort"} : \A x : ~(g = fn /\ x = t) => At(th, g, x) = "none"
      /\ \A x : At(th, "cursors", x) = "none"
  BY <1>1, RanksOf, RanksAre, NotBelow
<1>4. ASSUME t \notin ptr PROVE IInv'
  <2>1. UNCHANGED <<wrappers, natives, corrupt>> /\ Return(th) /\ gil' \in Thread \cup {None}
    BY <1>2, <1>4 DEF TakeTxn, wrappers, Return
  <2>2. Steps(th) /\ Shifts(th, fn, t, "none")
    BY <1>1, <1>2, <2>1, Parts, ReturnSteps
  <2>3. Calm(th) /\ Claims(th, {fn}) /\ (CloseInv(th)' => IInv')
    BY <1>1, <1>2, <2>1, <2>2, CalmShift DEF CalmPlace
  <2>4. ASSUME NEW x \in Txn PROVE TxnInv(th, x)'
    <3>1. At(th, "abort", x)' = "none" /\ At(th, "commit", x)' = "none"
      BY <2>2, <1>1, <1>3 DEF Shifts
    <3> QED
      BY <3>1, <2>1, <2>2, <2>3, CalmTxn
  <2> QED
    BY <1>1, <2>3, <2>4 DEF CloseInv, Claims
<1>5. ASSUME t \in ptr, fn = "commit" PROVE IInv'
  <2>1. Window(th) /\ ptr' = ptr \ {t} /\ envKids' = envKids \ {t} /\ gil' \in Thread \cup {None}
    BY <1>2, <1>5 DEF TakeTxn, Window
  <2>2. Steps(th) /\ Shifts(th, "commit", t, "native")
    BY <1>1, <1>2, <1>5, <2>1, Parts, MoveSteps DEF Window, Places
  <2>3. \A u \in Thread : \A g, x : ~(u = th /\ g = "commit" /\ x = t) => At(u, g, x)' = At(u, g, x)
    BY <2>2 DEF Steps, Shifts
  <2>4. /\ \A o : (Leaving(o)' <=> Leaving(o)) /\ (Ended(o)' <=> Ended(o)) /\ (Linking(o)' <=> Linking(o))
        /\ \A x : Aborting(x)' <=> Aborting(x)
    BY <2>3 DEF Leaving, Ended, Linking, Aborting, CloserOf
  <2>5. \A u \in Thread : \A x : TakenBy(u, x)' <=> TakenBy(u, x) \/ (u = th /\ x = t)
    BY <2>2, <2>3 DEF TakenBy, Shifts
  <2>6. /\ \A u \in Thread : KeepsData(u) /\ KeepsNatives(u) /\ ~TakenBy(u, t)
        /\ CloseInv(th)' => IInv'
    BY <1>2, <1>5, <2>1, <2>2, <2>4, <2>5, TakeData
  <2>7. Claims(th, {"commit"})
    BY <2>2, <2>6, Parts, ShiftSame, ClaimsKept
  <2>8. ASSUME NEW x \in Txn PROVE TxnInv(th, x)'
    <3>1. CASE x = t
      <4>1. NoCursorIn(t)'
        <5>1. TxnInv(th, t)
          BY <1>2, Parts DEF CloseInv
        <5>2. NoCursorIn(t)
          BY <5>1, <1>1, <1>3, <1>5 DEF TxnInv
        <5> QED
          BY <5>2, <1>2 DEF NoCursorIn, Open, natives
      <4>2. At(th, "abort", t)' = "none" /\ At(th, "commit", t)' = "native"
        BY <1>3, <1>5, <2>2 DEF Shifts
      <4>3. t \notin ptr' /\ \A u \in Thread : TakenBy(u, t)' => u = th
        BY <2>1, <2>5, <2>6
      <4> QED
        BY <3>1, <4>1, <4>2, <4>3 DEF TxnInv
    <3>2. CASE x # t
      <4>1. At(th, "abort", x)' = "none" /\ At(th, "commit", x)' = "none"
        BY <1>3, <3>2, <2>2 DEF Shifts
      <4> QED
        BY <4>1 DEF TxnInv, TakenBy
    <3> QED
      BY <3>1, <3>2
  <2> QED
    BY <2>6, <2>7, <2>8 DEF CloseInv, Claims
<1>6. ASSUME t \in ptr, fn = "abort" PROVE IInv'
  <2>1. /\ Invoke(th, "cursors", t, "start", "dbs") /\ ptr' = ptr \ {t} /\ envKids' = envKids
        /\ gil' \in Thread \cup {None}
    BY <1>2, <1>6 DEF TakeTxn, Invoke
  <2>2. /\ CallOf("cursors", t) \in {CallOf("cursors", x) : x \in Txn} /\ Rank("cursors") < Rank("abort")
        /\ "start" \in Places /\ "dbs" \in Places
    BY <1>2, RanksOf DEF Places
  <2>3. Steps(th) /\ Calls(th, "abort", t, "dbs", "cursors", t, "start")
    BY <1>1, <1>2, <1>6, <2>1, <2>2, Parts, InvokeSteps
  <2>4. \A u \in Thread : \A g, x : ~(u = th /\ g \in {"abort", "cursors"} /\ x = t) => At(u, g, x)' = At(u, g, x)
    BY <2>3 DEF Steps, Calls
  <2>5. \A o : (Leaving(o)' <=> Leaving(o)) /\ (Ended(o)' <=> Ended(o)) /\ (Linking(o)' <=> Linking(o))
    BY <2>4 DEF Leaving, Ended, Linking, CloserOf
  <2>6. At(th, "abort", t)' = "dbs" /\ At(th, "cursors", t)' = "start"
    BY <2>3 DEF Calls
  <2>7. /\ \A u \in Thread : \A x : TakenBy(u, x)' <=> TakenBy(u, x) \/ (u = th /\ x = t)
        /\ \A x : Aborting(x)' <=> Aborting(x) \/ x = t
    BY <2>4, <2>6, <1>1, <1>6 DEF TakenBy, Aborting
  <2>8. /\ \A u \in Thread : KeepsData(u) /\ KeepsNatives(u) /\ ~TakenBy(u, t)
        /\ CloseInv(th)' => IInv'
    BY <1>2, <1>6, <2>1, <2>3, <2>5, <2>7, TakeData
  <2>9. Claims(th, {"abort", "cursors"})
    BY <2>3, <2>8, Parts, CallSame, ClaimsKept
  <2>10. ASSUME NEW x \in Txn PROVE TxnInv(th, x)'
    <3>1. CASE x = t
      <4>1. At(th, "commit", t)' = "none"
        BY <1>3, <1>6, <2>3 DEF Calls
      <4>2. t \notin ptr' /\ \A u \in Thread : TakenBy(u, t)' => u = th
        BY <2>1, <2>7, <2>8
      <4> QED
        BY <3>1, <4>1, <4>2, <2>6 DEF TxnInv
    <3>2. CASE x # t
      <4>1. At(th, "abort", x)' = "none" /\ At(th, "commit", x)' = "none"
        BY <1>3, <3>2, <2>3 DEF Calls
      <4> QED
        BY <4>1 DEF TxnInv, TakenBy
    <3> QED
      BY <3>1, <3>2
  <2>11. \A x \in Txn : CursorsInv(th, x)'
    BY <2>3, <1>3 DEF Calls, CursorsInv
  <2> QED
    BY <2>8, <2>9, <2>10, <2>11 DEF CloseInv, Claims
<1> QED
  BY <1>1, <1>4, <1>5, <1>6

LEMMA AbortLast ==
    ASSUME Orderly, IInv, NEW th \in Thread, NEW t \in Txn, Atop(th, "abort", t), At(th, "abort", t) = "dbs",
           txnKids[t] \cap DB = {}, envKids' = envKids \ {t}, Window(th),
           UNCHANGED <<made, ptr, closed, dbKids, txnKids, txnOf, dbOf, natives, corrupt>>
    PROVE  IInv'
<1>1. /\ TypeOK /\ ListInv /\ CursorInv /\ EndsInv /\ OrderInv /\ ~corrupt /\ corrupt' = corrupt
      /\ \A x \in DB \cup Cursor \cup {Env} : x # t
  BY Parts, CallAssumption
<1>2. /\ \A x : x # t => At(th, "abort", x) = "none"
      /\ \A x : At(th, "commit", x) = "none" /\ At(th, "cursors", x) = "none"
  BY RanksOf, RanksAre, NotBelow
<1>3. Steps(th) /\ Shifts(th, "abort", t, "native") /\ gil' \in Thread \cup {None}
  BY Parts, MoveSteps DEF Window, Places
<1>4. \A u \in Thread : \A g, x : ~(u = th /\ g = "abort" /\ x = t) => At(u, g, x)' = At(u, g, x)
  BY <1>3 DEF Steps, Shifts
<1>5. At(th, "abort", t)' = "native"
  BY <1>3 DEF Shifts
<1>6. \A o : (Leaving(o)' <=> Leaving(o)) /\ (Ended(o)' <=> Ended(o)) /\ (Linking(o)' <=> Linking(o))
  BY <1>4 DEF Leaving, Ended, Linking, CloserOf
<1>7. \A u \in Thread : \A x : TakenBy(u, x)' <=> TakenBy(u, x)
  BY <1>4, <1>5 DEF TakenBy
<1>8. TxnInv(th, t)
  BY Parts DEF CloseInv
<1>9. \A x : Aborting(x)' <=> Aborting(x) /\ x # t
  <2>1. \A u \in Thread : At(u, "abort", t) = "dbs" => u = th
    BY <1>8 DEF TxnInv, TakenBy
  <2>2. \A u \in Thread : At(u, "abort", t)' # "dbs"
    BY <2>1, <1>4, <1>5
  <2> QED
    BY <2>2, <1>4 DEF Aborting
<1>10. \A x : Taken(x)' <=> Taken(x)
  BY <1>7 DEF Taken
<1>11. TypeOK'
  BY <1>1, <1>3 DEF TypeOK, Steps, natives
<1>12. ListInv'
  <2>1. \A d \in DB : d \in envKids' <=> d \in ptr' /\ ~Leaving(d)'
    BY <1>1, <1>6 DEF ListInv
  <2>2. \A x \in Txn : x \in envKids' <=> x \in ptr' \/ Aborting(x)'
    BY <1>1, <1>8, <1>9 DEF ListInv, TxnInv, TakenBy
  <2>3. \A d \in DB, c \in Cursor : c \in dbKids'[d] <=> c \in ptr' /\ dbOf'[c] = d /\ ~Leaving(c)'
    BY <1>1, <1>6 DEF ListInv
  <2>4. \A x \in DB \cup Cursor : (txnOf'[x] # None => x \in ptr' /\ ~Leaving(x)') /\ (Leaving(x)' => x \in ptr')
    BY <1>1, <1>6 DEF ListInv
  <2> QED
    BY <2>1, <2>2, <2>3, <2>4, <1>1 DEF ListInv
<1>13. CursorInv'
  <2>1. \A c, n : MadeBy(c, n)' <=> MadeBy(c, n)
    BY DEF MadeBy
  <2> QED
    BY <2>1, <1>1, <1>6 DEF CursorInv, natives
<1>14. EndsInv'
  BY <1>1, <1>6, <1>10 DEF EndsInv, natives
<1>15. OrderInv'
  BY <1>1 DEF OrderInv, Open, natives
<1>16. \A u \in Thread : KeepsData(u) /\ KeepsNatives(u)
  BY <1>7, PointerData, QuietNatives
<1>17. \A u \in Thread : u # th => CloseInv(u)'
  BY <1>3, <1>16, Parts, OthersKept
<1>18. Claims(th, {"abort"})
  BY <1>3, <1>16, Parts, ShiftSame, ClaimsKept
<1>19. ASSUME NEW x \in Txn PROVE TxnInv(th, x)'
  <2>1. CASE x = t
    <3>1. NoCursorIn(t)'
      <4>1. NoCursorIn(t)
        BY <1>2, <1>8 DEF TxnInv
      <4> QED
        BY <4>1 DEF NoCursorIn, Open, natives
    <3>2. \A d \in DB : txnOf'[d] # t
      BY <1>1 DEF ListInv
    <3>3. t \notin ptr' /\ \A u \in Thread : TakenBy(u, t)' => u = th
      BY <1>7, <1>8 DEF TxnInv, TakenBy
    <3>4. At(th, "commit", t)' = "none"
      BY <1>2, <1>3 DEF Shifts
    <3> QED
      BY <2>1, <3>1, <3>2, <3>3, <3>4, <1>5 DEF TxnInv
  <2>2. CASE x # t
    <3>1. At(th, "abort", x)' = "none" /\ At(th, "commit", x)' = "none"
      BY <2>2, <1>2, <1>4
    <3> QED
      BY <3>1 DEF TxnInv, TakenBy
  <2> QED
    BY <2>1, <2>2
<1>20. DataInv' /\ ~corrupt' /\ CloseInv(th)'
  BY <1>1, <1>12, <1>13, <1>14, <1>15, <1>18, <1>19 DEF DataInv, CloseInv, Claims
<1> QED
  BY <1>3, <1>11, <1>17, <1>20, Whole

LEMMA AbortListsInv == ASSUME Orderly, IInv, NEW th \in Thread, AbortLists(th) PROVE IInv'
<1>1. PICK t : Atop(th, "abort", t) /\ At(th, "abort", t) = "dbs"
  BY RunsAtop DEF AbortLists
<1>2. /\ t \in Txn /\ t = Top(th).call.h /\ t \in Reach(Outer(th)) /\ Outer(th) \in Call
      /\ UNCHANGED <<made, ptr, closed, dbKids, txnKids, txnOf, dbOf, natives, corrupt>>
      /\ gil \in Thread \cup {None}
  BY <1>1, Parts, AtKinds DEF Atop, Fits, AbortLists, TypeOK
<1>3. /\ \A x : x # t => At(th, "abort", x) = "none"
      /\ \A x : At(th, "commit", x) = "none" /\ At(th, "db", x) = "none"
  BY <1>1, RanksOf, RanksAre, NotBelow
<1>4. ASSUME NEW d \in txnKids[t] \cap DB, Invoke(th, "db", d, "start", "dbs"), UNCHANGED envKids PROVE IInv'
  <2>1. d \in Reach(Outer(th))
    <3>1. txnOf[d] = t /\ t # None
      BY <1>2, Parts, CallAssumption DEF ListInv, Handle
    <3>2. OpenedIn[d] = t
      BY <3>1, Parts DEF CursorInv
    <3> QED
      BY <3>2, <1>2, ReachTxn
  <2>2. UNCHANGED <<made, wrappers, natives, corrupt>> /\ gil' \in Thread \cup {None}
    BY <1>2, <1>4 DEF wrappers, Invoke
  <2>3. /\ CallOf("db", d) \in Call /\ Rank("db") < Rank("abort") /\ "start" \in Places /\ "dbs" \in Places
        /\ CalmPlace("abort", "dbs", "dbs") /\ CalmPlace("db", "none", "start")
    BY RanksOf DEF Call, CallOf, CalmPlace, Places
  <2>4. /\ Steps(th) /\ Calls(th, "abort", t, "dbs", "db", d, "start") /\ Calm(th)
        /\ Claims(th, {"abort", "db"}) /\ (CloseInv(th)' => IInv')
    BY <1>1, <1>4, <2>1, <2>2, <2>3, CalmCall
  <2>5. ASSUME NEW x \in Txn PROVE TxnInv(th, x)'
    <3>1. TxnInv(th, x)
      BY Parts DEF CloseInv
    <3>2. \A g \in {"abort", "commit", "cursors"} : At(th, g, x)' = At(th, g, x)
      BY <2>4, <1>1 DEF Calls
    <3> QED
      BY <3>1, <3>2, <2>2, <2>4, CalmTxn DEF TxnInv
  <2>6. \A e \in DB : At(th, "db", e)' # "native"
    BY <2>4, <1>3 DEF Calls
  <2> QED
    BY <2>4, <2>5, <2>6 DEF CloseInv, Claims
<1>5. ASSUME txnKids[t] \cap DB = {}, envKids' = envKids \ {t}, Window(th) PROVE IInv'
  BY <1>1, <1>2, <1>5, AbortLast
<1> QED
  BY <1>2, <1>4, <1>5 DEF AbortLists

LEMMA PromoteInv == ASSUME Orderly, IInv, NEW th \in Thread, Promote(th) PROVE IInv'
<1>1. PICK t : Atop(th, "commit", t) /\ At(th, "commit", t) = "back"
  BY RunsAtop DEF Promote
<1>2. /\ t \in Txn /\ t = Top(th).call.h
      /\ UNCHANGED <<made, ptr, closed, envKids, dbKids, dbOf, natives, corrupt>>
      /\ gil' \in Thread \cup {None} /\ Return(th)
  BY <1>1, Parts DEF Atop, Fits, Promote, TypeOK, Return
<1>3. Steps(th) /\ Shifts(th, "commit", t, "none")
  BY <1>1, <1>2, Parts, ReturnSteps
<1>4. Calm(th)
  BY <1>1, <1>3 DEF Calm, CalmPlace, Shifts
<1>5. /\ TypeOK /\ ListInv /\ CursorInv /\ EndsInv /\ OrderInv /\ ~corrupt /\ corrupt' = corrupt
      /\ Txn \cap DB = {} /\ Txn \cap Cursor = {} /\ DB \cap Cursor = {} /\ None \notin Txn
  BY <1>2, Parts, CallAssumption DEF Handle
<1>6. /\ txnOf' \in [DB \cup Cursor -> Txn \cup {None}]
      /\ \A x \in DB \cup Cursor : txnOf'[x] = IF x \in DB /\ txnOf[x] = t THEN None ELSE txnOf[x]
  <2>1. txnOf' = [o \in DB \cup Cursor |-> IF o \in txnKids[t] \cap DB THEN None ELSE txnOf[o]]
    BY <1>2, <1>5 DEF Promote, TypeOK
  <2>2. \A o \in DB \cup Cursor : o \in txnKids[t] <=> txnOf[o] = t
    BY <1>2, <1>5 DEF ListInv
  <2> QED
    BY <2>1, <2>2, <1>5 DEF TypeOK
<1>7. /\ txnKids' \in [Txn -> SUBSET (DB \cup Cursor)]
      /\ \A x \in Txn : txnKids'[x] = IF x = t THEN txnKids[t] \ DB ELSE txnKids[x]
  <2>1. txnKids' = [txnKids EXCEPT ![t] = @ \ (txnKids[t] \cap DB)]
    BY <1>2 DEF Promote
  <2> QED
    BY <2>1, <1>2, <1>5 DEF TypeOK
<1>8. TypeOK'
  BY <1>2, <1>3, <1>5, <1>6, <1>7 DEF TypeOK, Steps, natives
<1>9. ListInv'
  <2>1. \A d \in DB : d \in envKids' <=> d \in ptr' /\ ~Leaving(d)'
    BY <1>2, <1>3, <1>4, <1>5, CalmFacts DEF ListInv
  <2>2. \A x \in Txn : x \in envKids' <=> x \in ptr' \/ Aborting(x)'
    BY <1>2, <1>3, <1>4, <1>5, CalmFacts DEF ListInv
  <2>3. \A d \in DB, c \in Cursor : c \in dbKids'[d] <=> c \in ptr' /\ dbOf'[c] = d /\ ~Leaving(c)'
    BY <1>2, <1>3, <1>4, <1>5, CalmFacts DEF ListInv
  <2>4. \A x \in DB \cup Cursor : (txnOf'[x] # None => x \in ptr' /\ ~Leaving(x)') /\ (Leaving(x)' => x \in ptr')
    BY <1>2, <1>3, <1>4, <1>5, <1>6, CalmFacts DEF ListInv
  <2>5. ASSUME NEW x \in Txn, NEW o \in DB \cup Cursor PROVE o \in txnKids'[x] <=> txnOf'[o] = x
    <3>1. (o \in txnKids[x] <=> txnOf[o] = x) /\ (o \in txnKids[t] <=> txnOf[o] = t)
      BY <1>2, <1>5 DEF ListInv
    <3> QED
      BY <3>1, <1>5, <1>6, <1>7
  <2> QED
    BY <2>1, <2>2, <2>3, <2>4, <2>5 DEF ListInv
<1>10. CursorInv'
  <2>1. \A c, n : MadeBy(c, n)' <=> MadeBy(c, n)
    BY <1>2 DEF MadeBy
  <2>2. \A c \in Cursor : txnOf'[c] = txnOf[c]
    BY <1>5, <1>6
  <2>3. \A d \in DB : txnOf'[d] \in {None, OpenedIn[d]}
    BY <1>5, <1>6 DEF CursorInv
  <2>4. \A c \in Cursor : Leaving(c)' <=> Leaving(c)
    BY <1>3, <1>4, CalmFacts
  <2> QED
    BY <2>1, <2>2, <2>3, <2>4, <1>2, <1>5 DEF CursorInv, natives
<1>11. EndsInv'
  BY <1>2, <1>3, <1>4, <1>5, CalmFacts DEF EndsInv, natives
<1>12. OrderInv'
  BY <1>2, <1>5 DEF OrderInv, Open, natives
<1>13. ASSUME NEW u \in Thread PROVE KeepsData(u) /\ KeepsNatives(u)
  <2>1. \A c \in Cursor : txnOf'[c] = txnOf[c]
    BY <1>5, <1>6
  <2>2. \A d \in DB : txnOf'[d] \in {txnOf[d], None}
    BY <1>6
  <2>3. \A x \in Txn, v \in Thread : TakenBy(u, x) /\ TakenBy(v, x)' => v = u
    BY <1>3, <1>4, CalmFacts, Parts DEF CloseInv, TxnInv
  <2>4. \A c \in Cursor : At(u, "newcursor", c) # "none" => c \notin ptr /\ txnOf[c] = None
    BY Parts DEF CloseInv, NewInv
  <2> QED
    BY <2>1, <2>2, <2>3, <2>4, <1>2, QuietNatives DEF KeepsData
<1>14. \A u \in Thread : u # th => CloseInv(u)'
  BY <1>3, <1>13, Parts, OthersKept
<1>15. Claims(th, {"commit"})
  BY <1>3, <1>13, Parts, ShiftSame, ClaimsKept
<1>16. \A x \in Txn : At(th, "commit", x)' = "none" /\ At(th, "abort", x)' = "none"
  BY <1>1, <1>3, RanksOf, RanksAre, NotBelow DEF Shifts
<1>17. \A x \in Txn : TxnInv(th, x)'
  BY <1>16 DEF TxnInv, TakenBy
<1>18. DataInv' /\ ~corrupt' /\ CloseInv(th)'
  BY <1>5, <1>9, <1>10, <1>11, <1>12, <1>15, <1>17 DEF DataInv, CloseInv, Claims
<1> QED
  BY <1>3, <1>8, <1>14, <1>18, Whole

(* A thread that runs only a close of the environment, or only DB.cursor. *)
LEMMA Lone ==
    ASSUME NEW th \in Thread, NEW fn, fn = "env" \/ fn = "newcursor",
           \A g, x : g # fn => At(th, g, x)' = "none"
    PROVE  Claims(th, {fn})
<1>1. \A x : At(th, "db", x)' = "none"
  OBVIOUS
<1>2. \A x : At(th, "commit", x)' = "none" /\ At(th, "abort", x)' = "none" /\ At(th, "cursors", x)' = "none"
  OBVIOUS
<1>3. fn # "newcursor" => \A x : At(th, "newcursor", x)' = "none"
  OBVIOUS
<1>4. fn # "env" => At(th, "env", Env)' = "none"
  OBVIOUS
<1>5. \A t \in Txn : TxnInv(th, t)' /\ CursorsInv(th, t)'
  BY <1>2 DEF TxnInv, TakenBy, CursorsInv
<1>6. fn # "newcursor" => \A c \in Cursor : NewInv(th, c)'
  BY <1>3 DEF NewInv
<1>7. fn # "env" => EnvInv(th)'
  BY <1>4 DEF EnvInv
<1> QED
  BY <1>1, <1>5, <1>6, <1>7 DEF Claims

LEMMA EnvLast ==
    ASSUME Orderly, IInv, NEW th \in Thread, Atop(th, "env", Env), At(th, "env", Env) = "dbs",
           envKids \cap DB = {}, closed' = TRUE, IF Env \in ptr THEN Window(th) ELSE Return(th),
           UNCHANGED <<made, ptr, envKids, dbKids, txnKids, txnOf, dbOf, natives, corrupt>>
    PROVE  IInv'
<1>1. /\ TypeOK /\ ListInv /\ CursorInv /\ EndsInv /\ OrderInv /\ ~corrupt /\ EnvInv(th)
  BY Parts DEF CloseInv
<1>2. \A u \in Thread : \A g, x : At(u, g, x) # "none" => u = th /\ g = "env" /\ x = Env
  BY EnvAlone
<1>3. PICK a \in {"native", "none"} : Steps(th) /\ Shifts(th, "env", Env, a) /\ gil' \in Thread \cup {None}
  <2>1. CASE Env \in ptr
    BY <2>1, Parts, MoveSteps DEF Window, Places
  <2>2. CASE Env \notin ptr
    <3>1. gil' \in Thread \cup {None}
      BY <2>2, <1>1 DEF Return, TypeOK
    <3> QED
      BY <2>2, <3>1, Parts, ReturnSteps
  <2> QED
    BY <2>1, <2>2
<1>4. Calm(th)
  BY <1>3 DEF Calm, CalmPlace, Shifts
<1>5. TypeOK'
  BY <1>1, <1>3 DEF TypeOK, Steps, natives
<1>6. ListInv'
  BY <1>1, <1>3, <1>4, CalmFacts DEF ListInv
<1>7. CursorInv'
  <2>1. \A c, n : MadeBy(c, n)' <=> MadeBy(c, n)
    BY DEF MadeBy
  <2> QED
    BY <2>1, <1>1, <1>3, <1>4, CalmFacts DEF CursorInv, natives
<1>8. EndsInv'
  BY <1>1, <1>3, <1>4, CalmFacts DEF EndsInv, natives
<1>9. OrderInv'
  BY <1>1 DEF OrderInv, Open, natives
<1>10. ASSUME NEW u \in Thread, u # th PROVE CloseInv(u)'
  <2>1. KeepsData(u)
    <3>1. \A g, x : At(u, g, x) = "none"
      BY <1>2, <1>10
    <3>2. \A x \in Txn : ~TakenBy(u, x)
      BY <3>1 DEF TakenBy
    <3> QED
      BY <3>1, <3>2 DEF KeepsData
  <2> QED
    BY <1>3, <1>10, <2>1, Parts, QuietNatives, OthersKept
<1>11. Claims(th, {"env"})
  BY <1>2, <1>3, Lone DEF Shifts
<1>12. EnvInv(th)'
  <2>1. \A t \in Txn : ~Open(t)
    BY <1>1 DEF EnvInv
  <2>2. ASSUME NEW d \in DB PROVE ~Open(d)
    <3>1. ~Leaving(d)
      BY <1>2 DEF Leaving
    <3>2. d \notin ptr
      BY <3>1, <1>1 DEF ListInv
    <3> QED
      BY <3>2, <1>1 DEF EndsInv, Open
  <2>3. ends[Env] = 0
    BY <1>1 DEF EnvInv, EndsInv
  <2>4. At(th, "env", Env)' = a
    BY <1>3 DEF Shifts
  <2> QED
    BY <2>1, <2>2, <2>3, <2>4 DEF EnvInv, Open, natives
<1>13. DataInv' /\ ~corrupt' /\ CloseInv(th)'
  BY <1>1, <1>6, <1>7, <1>8, <1>9, <1>11, <1>12 DEF DataInv, CloseInv, Claims
<1> QED
  BY <1>3, <1>5, <1>10, <1>13, Whole

LEMMA EnvDBsInv == ASSUME Orderly, IInv, NEW th \in Thread, EnvDBs(th) PROVE IInv'
<1>1. PICK e : Atop(th, "env", e) /\ At(th, "env", e) = "dbs"
  BY RunsAtop DEF EnvDBs
<1>2. /\ e = Env /\ Outer(th).fn = "env"
      /\ UNCHANGED <<made, ptr, envKids, dbKids, txnKids, txnOf, dbOf, natives, corrupt>>
      /\ gil \in Thread \cup {None}
  BY <1>1, Parts, AtKinds DEF Atop, Fits, EnvDBs, TypeOK
<1>3. \A g, x : At(th, g, x) # "none" => g = "env" /\ x = Env
  BY <1>1, <1>2, EnvAlone
<1>4. ASSUME NEW d \in envKids \cap DB, Invoke(th, "db", d, "start", "dbs"), UNCHANGED closed PROVE IInv'
  <2>1. /\ d \in Reach(Outer(th)) /\ CallOf("db", d) \in Call /\ gil' \in Thread \cup {None}
        /\ UNCHANGED <<made, wrappers, natives, corrupt>>
    BY <1>2, <1>4 DEF Reach, Handle, Call, CallOf, Invoke, wrappers
  <2>2. /\ Rank("db") < Rank("env") /\ "start" \in Places /\ "dbs" \in Places
        /\ CalmPlace("env", "dbs", "dbs") /\ CalmPlace("db", "none", "start")
    BY RanksOf DEF CalmPlace, Places
  <2>3. /\ Steps(th) /\ Calls(th, "env", Env, "dbs", "db", d, "start") /\ Calm(th)
        /\ Claims(th, {"env", "db"}) /\ (CloseInv(th)' => IInv')
    BY <1>1, <1>2, <1>4, <2>1, <2>2, CalmCall
  <2>4. \A x \in DB : At(th, "db", x)' # "native"
    BY <2>3, <1>3 DEF Calls
  <2>5. EnvInv(th)'
    <3>1. At(th, "env", Env)' = "dbs" /\ EnvInv(th)
      BY <2>3, Parts DEF Calls, CloseInv
    <3> QED
      BY <3>1, <1>1, <1>2, <2>1 DEF EnvInv, wrappers, natives, Open
  <2> QED
    BY <2>3, <2>4, <2>5 DEF CloseInv, Claims
<1>5. ASSUME envKids \cap DB = {}, closed' = TRUE, IF Env \in ptr THEN Window(th) ELSE Return(th) PROVE IInv'
  BY <1>1, <1>2, <1>5, EnvLast
<1> QED
  BY <1>2, <1>4, <1>5 DEF EnvDBs

(***************************************************************************)
(* A cursor is made.                                                       *)
(***************************************************************************)

LEMMA NewTop ==
    ASSUME Base, NEW th \in Thread, NEW c, Atop(th, "newcursor", c)
    PROVE  /\ \A g, x : At(th, g, x) # "none" => g = "newcursor" /\ x = c
           /\ c \in Cursor /\ Top(th).call = Outer(th) /\ Outer(th) \in made[th] /\ Outer(th) \in Call
           /\ Outer(th).h = c /\ Outer(th).fn = "newcursor"
           /\ Outer(th).db \in DB /\ Outer(th).txn \in Txn \cup {None}
<1> DEFINE s == stack[th]
<1>1. s \in Seq(Frame) /\ s # << >> /\ Ordered(s) /\ s[1].call.fn = "newcursor" /\ s[1].call.h = c
  BY DEF Base, TypeOK, StackInv, Atop, Running, Top
<1>2. Len(s) = 1
  <2>1. 1 \in 1 .. Len(s) /\ Len(s) \in 1 .. Len(s) /\ Len(s) \in Nat /\ 1 <= Len(s)
    BY <1>1
  <2>2. ~(1 < Len(s))
    BY <1>1, <2>1 DEF Ordered
  <2> HIDE DEF s
  <2> QED
    BY <2>1, <2>2
<1>3. Top(th).call = Outer(th)
  BY <1>1, <1>2 DEF Top, Outer
<1>4. Outer(th) \in made[th] /\ Outer(th) \in Call
  BY DEF Base, StackInv, TypeOK, Atop
<1>5. \A g, x : At(th, g, x) # "none" => g = "newcursor" /\ x = c
  BY DEF Atop
<1> QED
  BY <1>3, <1>4, <1>5, CallKinds DEF Atop, Fits

(* A new cursor is the work of one thread only. *)
LEMMA OneMaker ==
    ASSUME Orderly, IInv, NEW th \in Thread, NEW c \in Cursor, At(th, "newcursor", c) # "none",
           NEW u \in Thread, NEW g, At(u, g, c) # "none"
    PROVE  u = th
BY Parts, Apart, CallAssumption

(* The DB and the transaction that DB.cursor found open are open. *)
LEMMA UsedOpen ==
    ASSUME Orderly, IInv, NEW th \in Thread, NEW c, Atop(th, "newcursor", c)
    PROVE  /\ Outer(th).db \in ptr => Open(Outer(th).db)
           /\ Outer(th).txn \in ptr => Open(Outer(th).txn)
<1> DEFINE d == Outer(th).db
           t == Outer(th).txn
<1>1. /\ \A g, x : At(th, g, x) # "none" => g = "newcursor" /\ x = c
      /\ d \in DB /\ t \in Txn \cup {None} /\ At(th, "newcursor", c) # "none"
  BY Parts, NewTop DEF Atop, Places
<1>2. ~Ended(d)
  <2> SUFFICES ASSUME NEW u \in Thread, At(u, "db", d) = "back" PROVE FALSE
    BY <1>1 DEF Ended, CloserOf
  <2>1. u # th /\ At(u, "db", d) # "none" /\ Base
    BY <1>1, Parts
  <2>2. ASSUME NEW x, At(u, "db", x) # "none" PROVE Outer(th).db # x
    <3>1. At(th, "newcursor", c) # "none" /\ u # th /\ Base
      BY <1>1, <2>1
    <3> HIDE DEF d, t
    <3> QED
      BY <2>2, <3>1, Apart
  <2> QED
    BY <2>1, <2>2
<1>3. t \in ptr => t \in Txn
  BY <1>1, Parts, CallAssumption DEF TypeOK
<1> QED
  BY <1>1, <1>2, <1>3, Parts DEF EndsInv, Open

LEMMA BeginNative ==
    ASSUME Orderly, IInv, NEW th \in Thread, NEW c, Atop(th, "newcursor", c), At(th, "newcursor", c) = "start",
           NEW d, d = Outer(th).db, d \in ptr,
           NEW t, t = IF Outer(th).txn \in ptr THEN Outer(th).txn ELSE None,
           Window(th), begunIn' = [begunIn EXCEPT ![c] = <<d, t>>],
           UNCHANGED <<made, wrappers, lives, ends, corrupt>>
    PROVE  IInv'
<1>1. /\ TypeOK /\ ListInv /\ CursorInv /\ EndsInv /\ OrderInv /\ ~corrupt /\ corrupt' = corrupt
      /\ \A g, x : At(th, g, x) # "none" => g = "newcursor" /\ x = c
      /\ c \in Cursor /\ d \in DB /\ t \in Txn \cup {None} /\ None \notin Handle
  BY Parts, NewTop, CallAssumption
<1>2. Steps(th) /\ Shifts(th, "newcursor", c, "native") /\ gil' \in Thread \cup {None}
  BY Parts, MoveSteps DEF Window, Places
<1>3. Calm(th)
  BY <1>2 DEF Calm, CalmPlace, Shifts
<1>4. NewInv(th, c) /\ c \notin ptr /\ txnOf[c] = None /\ c \notin lives
  <2>1. NewInv(th, c)
    BY <1>1, Parts DEF CloseInv
  <2> QED
    BY <2>1 DEF NewInv
<1>5. /\ begunIn' \in [Cursor -> (DB \cup {None}) \X (Txn \cup {None})]
      /\ begunIn'[c] = <<d, t>> /\ \A x \in Cursor : x # c => begunIn'[x] = begunIn[x]
  BY <1>1 DEF TypeOK
<1>6. TypeOK'
  BY <1>1, <1>2, <1>5 DEF TypeOK, Steps, wrappers
<1>7. \A x : Open(x)' <=> Open(x)
  BY DEF Open
<1>8. ListInv'
  BY <1>1, <1>2, <1>3, CalmFacts DEF ListInv, wrappers
<1>9. CursorInv'
  <2>1. \A x, n : MadeBy(x, n)' <=> MadeBy(x, n)
    BY DEF MadeBy
  <2> QED
    BY <2>1, <1>1, <1>2, <1>3, <1>4, <1>5, CalmFacts DEF CursorInv, wrappers
<1>10. EndsInv'
  BY <1>1, <1>2, <1>3, CalmFacts DEF EndsInv, wrappers
<1>11. OrderInv'
  <2>1. \A x \in Cursor : Open(x) => x # c
    BY <1>4 DEF Open
  <2> QED
    BY <2>1, <1>1, <1>5, <1>7 DEF OrderInv
<1>12. ASSUME NEW u \in Thread, u # th PROVE KeepsData(u) /\ KeepsNatives(u)
  <2>1. KeepsData(u)
    BY <1>2, <1>3, CalmFacts, QuietData
  <2>2. \A x : NoCursorIn(x) => NoCursorIn(x)'
    <3>1. ~Open(c)
      BY <1>4 DEF Open
    <3> QED
      BY <3>1, <1>5, <1>7 DEF NoCursorIn
  <2>3. \A x \in Cursor : At(u, "newcursor", x) # "none" => x # c
    BY <1>1, <1>12, OneMaker
  <2> QED
    BY <2>1, <2>2, <2>3, <1>5, <1>7 DEF KeepsNatives
<1>13. \A u \in Thread : u # th => CloseInv(u)'
  BY <1>2, <1>12, Parts, OthersKept
<1>14. Claims(th, {"newcursor"})
  BY <1>1, <1>2, Lone DEF Shifts
<1>15. NewInv(th, c)'
  <2>1. Outer(th)' = Outer(th)
    <3>1. At(th, "newcursor", c)' # "none"
      BY <1>2 DEF Shifts
    <3> QED
      BY <3>1, <1>2, SameOuter
  <2>2. At(th, "newcursor", c)' = "native"
    BY <1>2 DEF Shifts
  <2>3. Open(d) /\ (t # None => Open(t))
    BY UsedOpen
  <2>4. begunIn'[c][1] = d /\ begunIn'[c][2] = t
    BY <1>5
  <2>5. t \in {None, Outer(th).txn}
    OBVIOUS
  <2> QED
    BY <2>1, <2>2, <2>3, <2>4, <2>5, <1>4, <1>7 DEF NewInv, wrappers
<1>16. \A x \in Cursor : x # c => NewInv(th, x)'
  <2>1. \A x \in Cursor : x # c => At(th, "newcursor", x)' = "none"
    BY <1>1, <1>2 DEF Shifts
  <2> QED
    BY <2>1 DEF NewInv
<1>17. DataInv' /\ ~corrupt' /\ CloseInv(th)'
  BY <1>1, <1>8, <1>9, <1>10, <1>11, <1>14, <1>15, <1>16 DEF DataInv, CloseInv, Claims
<1> QED
  BY <1>2, <1>6, <1>13, <1>17, Whole

LEMMA CursorBeginInv == ASSUME Orderly, IInv, NEW th \in Thread, CursorBegin(th) PROVE IInv'
<1>1. PICK c : Atop(th, "newcursor", c) /\ At(th, "newcursor", c) = "start"
  BY RunsAtop DEF CursorBegin
<1>2. /\ Top(th).call = Outer(th) /\ Outer(th).h = c
      /\ \A g, x : At(th, g, x) # "none" => g = "newcursor" /\ x = c
      /\ UNCHANGED <<made, wrappers, lives, ends, corrupt>> /\ gil \in Thread \cup {None}
  BY <1>1, Parts, NewTop DEF CursorBegin, TypeOK
<1>3. CASE Outer(th).db \in ptr
  <2>1. /\ Window(th)
        /\ begunIn' = [begunIn EXCEPT ![c] =
              <<Outer(th).db, IF Outer(th).txn \in ptr THEN Outer(th).txn ELSE None>>]
    BY <1>2, <1>3 DEF CursorBegin
  <2> QED
    BY <1>1, <1>2, <1>3, <2>1, BeginNative
<1>4. CASE Outer(th).db \notin ptr
  <2>1. UNCHANGED <<made, wrappers, natives, corrupt>> /\ Return(th) /\ gil' \in Thread \cup {None}
    BY <1>2, <1>4 DEF CursorBegin, natives, Return
  <2>2. Steps(th) /\ Shifts(th, "newcursor", c, "none")
    BY <1>1, <2>1, Parts, ReturnSteps
  <2>3. Claims(th, {"newcursor"}) /\ (CloseInv(th)' => IInv')
    BY <1>1, <2>1, <2>2, CalmShift DEF CalmPlace
  <2>4. \A x \in Cursor : NewInv(th, x)'
    <3>1. \A x : At(th, "newcursor", x)' = "none"
      BY <2>2, <1>2 DEF Shifts
    <3> QED
      BY <3>1 DEF NewInv
  <2> QED
    BY <2>3, <2>4 DEF CloseInv, Claims
<1> QED
  BY <1>3, <1>4

LEMMA CursorLinkInv == ASSUME Orderly, IInv, NEW th \in Thread, CursorLink(th) PROVE IInv'
<1>1. PICK c : Atop(th, "newcursor", c) /\ At(th, "newcursor", c) = "back"
  BY RunsAtop DEF CursorLink
<1> DEFINE n == Outer(th)
<1>2. /\ Top(th).call = n /\ n.h = c /\ n.fn = "newcursor" /\ c \in Cursor
      /\ n \in made[th] /\ n \in Call /\ n.db \in DB /\ n.txn \in Txn \cup {None}
      /\ \A g, x : At(th, g, x) # "none" => g = "newcursor" /\ x = c
  BY <1>1, Parts, NewTop
<1> HIDE DEF n
<1>3. /\ ptr' = ptr \cup {c} /\ dbOf' = [dbOf EXCEPT ![c] = n.db]
      /\ dbKids' = [dbKids EXCEPT ![n.db] = @ \cup {c}]
      /\ txnOf' = [txnOf EXCEPT ![c] = n.txn]
      /\ txnKids' = IF n.txn = None THEN txnKids ELSE [txnKids EXCEPT ![n.txn] = @ \cup {c}]
      /\ Return(th) /\ UNCHANGED <<made, closed, envKids, natives, corrupt>>
  BY <1>2 DEF CursorLink
<1>4. /\ TypeOK /\ ListInv /\ CursorInv /\ EndsInv /\ OrderInv /\ ~corrupt /\ corrupt' = corrupt
      /\ gil \in Thread \cup {None}
      /\ Txn \cap Cursor = {} /\ DB \cap Cursor = {} /\ None \notin Txn /\ None \notin DB
  BY <1>3, Parts, CallAssumption DEF Handle, TypeOK
<1>5. Steps(th) /\ Shifts(th, "newcursor", c, "none") /\ gil' \in Thread \cup {None}
  BY <1>1, <1>3, <1>4, Parts, ReturnSteps DEF Return
<1>6. \A u \in Thread : \A g, x : ~(u = th /\ g = "newcursor" /\ x = c) => At(u, g, x)' = At(u, g, x)
  BY <1>5 DEF Steps, Shifts
<1>7. /\ \A o : (Leaving(o)' <=> Leaving(o)) /\ (Ended(o)' <=> Ended(o))
      /\ \A u \in Thread : \A x : TakenBy(u, x)' <=> TakenBy(u, x)
      /\ \A x : Aborting(x)' <=> Aborting(x)
      /\ \A x : x # c => (Linking(x)' <=> Linking(x))
  BY <1>6 DEF Leaving, Ended, TakenBy, Aborting, Linking, CloserOf
<1>8. \A x : Taken(x)' <=> Taken(x)
  BY <1>7 DEF Taken
<1>9. \A u \in Thread : \A g : At(u, g, c) # "none" => u = th /\ g = "newcursor"
  BY <1>1, <1>2, OneMaker
<1>10. ~Leaving(c) /\ ~Ended(c) /\ Linking(c)
  BY <1>1, <1>2, <1>4, <1>9 DEF Leaving, Ended, Linking, CloserOf
<1>11. /\ c \notin ptr /\ txnOf[c] = None /\ c \in lives
       /\ begunIn[c][1] = n.db /\ begunIn[c][2] \in {None, n.txn}
  <2>1. NewInv(th, c)
    BY <1>2, Parts DEF CloseInv
  <2> QED
    BY <2>1, <1>1 DEF NewInv, n
<1>12. /\ dbOf' \in [Cursor -> DB \cup {None}]
       /\ \A x \in Cursor : dbOf'[x] = IF x = c THEN n.db ELSE dbOf[x]
       /\ dbKids' \in [DB -> SUBSET Cursor]
       /\ \A e \in DB : dbKids'[e] = IF e = n.db THEN dbKids[e] \cup {c} ELSE dbKids[e]
       /\ txnOf' \in [DB \cup Cursor -> Txn \cup {None}]
       /\ \A x \in DB \cup Cursor : txnOf'[x] = IF x = c THEN n.txn ELSE txnOf[x]
  <2>1. /\ dbOf \in [Cursor -> DB \cup {None}] /\ dbKids \in [DB -> SUBSET Cursor]
        /\ txnOf \in [DB \cup Cursor -> Txn \cup {None}]
    BY <1>4 DEF TypeOK
  <2>2. /\ dbOf' \in [Cursor -> DB \cup {None}]
        /\ \A x \in Cursor : dbOf'[x] = IF x = c THEN n.db ELSE dbOf[x]
    BY <2>1, <1>2, <1>3
  <2>3. /\ dbKids' \in [DB -> SUBSET Cursor]
        /\ \A e \in DB : dbKids'[e] = IF e = n.db THEN dbKids[e] \cup {c} ELSE dbKids[e]
    BY <2>1, <1>2, <1>3
  <2>4. /\ txnOf' \in [DB \cup Cursor -> Txn \cup {None}]
        /\ \A x \in DB \cup Cursor : txnOf'[x] = IF x = c THEN n.txn ELSE txnOf[x]
    BY <2>1, <1>2, <1>3
  <2> QED
    BY <2>2, <2>3, <2>4
<1>13. /\ txnKids' \in [Txn -> SUBSET (DB \cup Cursor)]
       /\ \A t \in Txn : txnKids'[t] = IF t = n.txn THEN txnKids[t] \cup {c} ELSE txnKids[t]
  <2>1. txnKids \in [Txn -> SUBSET (DB \cup Cursor)] /\ None \notin Txn
    BY <1>4 DEF TypeOK
  <2>2. CASE n.txn = None
    <3>1. txnKids' = txnKids
      BY <2>2, <1>3
    <3> QED
      BY <2>1, <2>2, <3>1
  <2>3. CASE n.txn # None
    <3>1. n.txn \in Txn /\ txnKids' = [txnKids EXCEPT ![n.txn] = txnKids[n.txn] \cup {c}]
      BY <2>3, <1>2, <1>3
    <3>2. c \in Cursor
      BY <1>2
    <3> QED
      BY <2>1, <3>1, <3>2
  <2> QED
    BY <2>2, <2>3
<1>14. TypeOK'
  <2>1. ptr' \subseteq Handle
    BY <1>2, <1>3, <1>4 DEF TypeOK, Handle
  <2> QED
    BY <2>1, <1>3, <1>4, <1>5, <1>12, <1>13 DEF TypeOK, Steps, natives
<1>15. ListInv'
  <2>1. \A d \in DB : d \in envKids' <=> d \in ptr' /\ ~Leaving(d)'
    BY <1>2, <1>3, <1>4, <1>7 DEF ListInv
  <2>2. \A t \in Txn : t \in envKids' <=> t \in ptr' \/ Aborting(t)'
    BY <1>2, <1>3, <1>4, <1>7 DEF ListInv
  <2>3. ASSUME NEW e \in DB, NEW x \in Cursor
        PROVE  x \in dbKids'[e] <=> x \in ptr' /\ dbOf'[x] = e /\ ~Leaving(x)'
    <3>1. x \in dbKids[e] <=> x \in ptr /\ dbOf[x] = e /\ ~Leaving(x)
      BY <1>4 DEF ListInv
    <3> QED
      BY <3>1, <1>3, <1>7, <1>10, <1>11, <1>12
  <2>4. ASSUME NEW t \in Txn, NEW x \in DB \cup Cursor PROVE x \in txnKids'[t] <=> txnOf'[x] = t
    <3>1. x \in txnKids[t] <=> txnOf[x] = t
      BY <1>4 DEF ListInv
    <3> QED
      BY <3>1, <1>4, <1>11, <1>12, <1>13
  <2>5. \A x \in DB \cup Cursor : (txnOf'[x] # None => x \in ptr' /\ ~Leaving(x)') /\ (Leaving(x)' => x \in ptr')
    BY <1>3, <1>4, <1>7, <1>10, <1>12 DEF ListInv
  <2> QED
    BY <2>1, <2>2, <2>3, <2>4, <2>5 DEF ListInv
<1>16. CursorInv'
  <2>1. \A x, m : MadeBy(x, m)' <=> MadeBy(x, m)
    BY <1>3 DEF MadeBy
  <2>2. \A d \in DB : txnOf'[d] \in {None, OpenedIn[d]}
    BY <1>2, <1>4, <1>12 DEF CursorInv
  <2>3. ASSUME NEW x \in Cursor, x \in lives' \cup ptr'
        PROVE  \E m \in Call : /\ MadeBy(x, m)' /\ begunIn'[x][1] = m.db /\ begunIn'[x][2] \in {None, m.txn}
                               /\ txnOf'[x] \in {None, m.txn}
    <3>1. CASE x = c
      <4>1. MadeBy(c, n)
        BY <1>2 DEF MadeBy
      <4> QED
        BY <3>1, <4>1, <2>1, <1>2, <1>3, <1>11, <1>12 DEF natives
    <3>2. CASE x # c
      <4>1. x \in lives \cup ptr
        BY <3>2, <2>3, <1>3 DEF natives
      <4>2. PICK m \in Call : /\ MadeBy(x, m) /\ begunIn[x][1] = m.db /\ begunIn[x][2] \in {None, m.txn}
                              /\ txnOf[x] \in {None, m.txn}
        BY <4>1, <1>4 DEF CursorInv
      <4> QED
        BY <3>2, <4>2, <2>1, <1>3, <1>12 DEF natives
    <3> QED
      BY <3>1, <3>2
  <2>4. \A x \in Cursor : x \in ptr' => dbOf'[x] = begunIn'[x][1]
    BY <1>3, <1>4, <1>11, <1>12 DEF CursorInv, natives
  <2>5. \A x \in Cursor : x \in ptr' /\ ~Leaving(x)' /\ begunIn'[x][2] # None => txnOf'[x] = begunIn'[x][2]
    BY <1>3, <1>4, <1>7, <1>11, <1>12 DEF CursorInv, natives
  <2> QED
    BY <2>2, <2>3, <2>4, <2>5 DEF CursorInv
<1>17. EndsInv'
  <2>1. /\ \A d \in DB : ends'[d] = IF d \in ptr' /\ ~Ended(d)' THEN 0 ELSE 1
        /\ \A t \in Txn : ends'[t] = IF t \in ptr' \/ Taken(t)' THEN 0 ELSE 1
    BY <1>2, <1>3, <1>4, <1>7, <1>8 DEF EndsInv, natives
  <2>2. ASSUME NEW x \in Cursor
        PROVE  /\ x \notin lives' => x \notin ptr' /\ ends'[x] = 0
               /\ x \in ptr' => ends'[x] = IF Ended(x)' THEN 1 ELSE 0
               /\ x \in lives' \ ptr' => ends'[x] = IF Linking(x)' THEN 0 ELSE 1
    <3>1. CASE x = c
      BY <3>1, <1>3, <1>4, <1>7, <1>10, <1>11 DEF EndsInv, natives
    <3>2. CASE x # c
      BY <3>2, <1>3, <1>4, <1>7 DEF EndsInv, natives
    <3> QED
      BY <3>1, <3>2
  <2> QED
    BY <2>1, <2>2, <1>3, <1>4 DEF EndsInv, natives
<1>18. OrderInv'
  BY <1>3, <1>4 DEF OrderInv, Open, natives
<1>19. ASSUME NEW u \in Thread, u # th PROVE KeepsData(u) /\ KeepsNatives(u)
  <2>1. \A x \in Cursor : At(u, "newcursor", x) # "none" => x # c /\ x \notin ptr /\ txnOf[x] = None
    BY <1>9, <1>19, Parts DEF CloseInv, NewInv
  <2>2. \A t \in Txn, v \in Thread : TakenBy(u, t) /\ TakenBy(v, t)' => v = u
    BY <1>7, Parts DEF CloseInv, TxnInv
  <2>3. \A x \in Cursor : txnOf[x] # None => txnOf'[x] = txnOf[x]
    BY <1>11, <1>12
  <2>4. \A d \in DB : txnOf'[d] = txnOf[d]
    BY <1>2, <1>4, <1>12
  <2>5. KeepsNatives(u)
    BY <1>3, QuietNatives
  <2>6. \A t \in Txn : t \in ptr' => t \in ptr
    BY <1>2, <1>3, <1>4
  <2> QED
    BY <2>1, <2>2, <2>3, <2>4, <2>5, <2>6, <1>3, <1>4, <1>12 DEF KeepsData
<1>20. \A u \in Thread : u # th => CloseInv(u)'
  BY <1>5, <1>19, Parts, OthersKept
<1>21. \A g, x : At(th, g, x)' = "none"
  BY <1>2, <1>5 DEF Shifts
<1>22. Claims(th, {"newcursor"}) /\ \A x \in Cursor : NewInv(th, x)'
  BY <1>21, Lone DEF NewInv
<1>23. DataInv' /\ ~corrupt' /\ CloseInv(th)'
  BY <1>4, <1>15, <1>16, <1>17, <1>18, <1>22 DEF DataInv, CloseInv, Claims
<1> QED
  BY <1>5, <1>14, <1>20, <1>23, Whole

(***************************************************************************)
(* A native call is made.                                                  *)
(***************************************************************************)

(* A native handle that no open cursor needs ends. *)
LEMMA EndOpen ==
    ASSUME Orderly, IInv, NEW th \in Thread, NEW o \in Txn \cup DB \cup Cursor, NEW fn, fn # "newcursor",
           Atop(th, fn, o), o \in Txn \cup DB => NoCursorIn(o), ends[o] = 0,
           ends' = [ends EXCEPT ![o] = @ + 1], UNCHANGED <<lives, begunIn>>
    PROVE  /\ ends' \in [Handle -> Nat] /\ \A x \in Handle : ends'[x] = IF x = o THEN 1 ELSE ends[x]
           /\ OrderInv' /\ \A u \in Thread : KeepsNatives(u)
<1>1. /\ TypeOK /\ OrderInv /\ o \in Handle /\ o # Env /\ o # None /\ At(th, fn, o) # "none"
      /\ Txn \cap DB = {} /\ Txn \cap Cursor = {} /\ DB \cap Cursor = {}
  BY Parts, CallAssumption DEF Handle, Atop, Places
<1>2. ends' \in [Handle -> Nat] /\ \A x \in Handle : ends'[x] = IF x = o THEN 1 ELSE ends[x]
  BY <1>1 DEF TypeOK
<1>3. \A x : Open(x)' <=> Open(x) /\ x # o
  BY <1>1, <1>2 DEF Open, TypeOK
<1>4. \A x : NoCursorIn(x) => NoCursorIn(x)'
  BY <1>3 DEF NoCursorIn
<1>5. \A c \in Cursor : begunIn[c][1] \in DB \cup {None} /\ begunIn[c][2] \in Txn \cup {None}
  BY <1>1 DEF TypeOK
<1>6. OrderInv'
  <2>1. ASSUME NEW c \in Cursor, Open(c)
        PROVE  begunIn[c][1] # o /\ begunIn[c][2] # o
    BY <2>1, <1>1, <1>5 DEF NoCursorIn
  <2>2. ASSUME NEW x \in Txn \cup DB, Open(x)' PROVE Open(Env)'
    BY <2>2, <1>1, <1>3 DEF OrderInv
  <2>3. ASSUME NEW c \in Cursor, Open(c)'
        PROVE  (Open(begunIn[c][1]) /\ (begunIn[c][2] # None => Open(begunIn[c][2])))'
    <3>1. /\ begunIn[c][1] # o /\ begunIn[c][2] # o /\ begunIn'[c] = begunIn[c]
          /\ Open(begunIn[c][1]) /\ (begunIn[c][2] # None => Open(begunIn[c][2]))
      BY <2>1, <2>3, <1>1, <1>3 DEF OrderInv
    <3> QED
      BY <3>1, <1>3
  <2> QED
    BY <2>2, <2>3 DEF OrderInv
<1>7. ASSUME NEW u \in Thread, NEW c \in Cursor, At(u, "newcursor", c) \in {"native", "back"}
      PROVE  begunIn[c][1] # o /\ begunIn[c][2] # o
  <2>1. u # th
    BY <1>7, NotBelow
  <2>2. Outer(u).db # o /\ Outer(u).txn # o
    <3>1. At(u, "newcursor", c) # "none" /\ Base
      BY <1>7, Parts
    <3> QED
      BY <3>1, <2>1, <1>1, Apart
  <2>3. NewInv(u, c)
    BY Parts DEF CloseInv
  <2> QED
    BY <2>2, <2>3, <1>1, <1>7 DEF NewInv
<1>8. ASSUME NEW u \in Thread PROVE KeepsNatives(u)
  <2>1. \A c \in Cursor : At(u, "newcursor", c) \in {"native", "back"} =>
          /\ Open(begunIn[c][1]) => Open(begunIn[c][1])'
          /\ Open(begunIn[c][2]) => Open(begunIn[c][2])'
    BY <1>3, <1>7
  <2>2. ends'[Env] = ends[Env]
    BY <1>1, <1>2 DEF Handle
  <2> QED
    BY <2>1, <2>2, <1>3, <1>4 DEF KeepsNatives
<1> QED
  BY <1>2, <1>6, <1>8

LEMMA NativeWrapper ==
    ASSUME Orderly, IInv, NEW th \in Thread, NEW o \in DB \cup Cursor, NEW fn, fn = CloserOf(o),
           Atop(th, fn, o), At(th, fn, o) = "native", Steps(th), Shifts(th, fn, o, "back"),
           ends' = [ends EXCEPT ![o] = @ + 1],
           UNCHANGED <<gil, made, wrappers, lives, begunIn, corrupt>>
    PROVE  IInv'
<1>1. /\ TypeOK /\ ListInv /\ CursorInv /\ EndsInv /\ ~corrupt /\ corrupt' = corrupt
      /\ o \in Handle /\ Txn \cap DB = {} /\ Txn \cap Cursor = {} /\ DB \cap Cursor = {} /\ Env \notin DB \cup Cursor
  BY Parts, CallAssumption DEF Handle
<1>2. Leaving(o) /\ ~Ended(o) /\ o \in ptr
  BY <1>1, OneCloser DEF ListInv
<1>3. ends[o] = 0 /\ (o \in Cursor => o \in lives)
  BY <1>1, <1>2 DEF EndsInv
<1>4. o \in DB => NoCursorIn(o)
  BY Parts DEF CloseInv, CloserOf
<1>5. /\ Leaving(o)' /\ Ended(o)'
      /\ \A x : x # o => (Leaving(x)' <=> Leaving(x)) /\ (Ended(x)' <=> Ended(x))
      /\ \A u \in Thread : \A t : TakenBy(u, t)' <=> TakenBy(u, t)
      /\ \A t : (Taken(t)' <=> Taken(t)) /\ (Aborting(t)' <=> Aborting(t))
      /\ \A c : Linking(c)' <=> Linking(c)
  <2>1. At(th, fn, o) # "none"
    OBVIOUS
  <2>2. /\ Leaving(o)' <=> "back" \in {"cursors", "native", "back"}
        /\ Ended(o)' <=> "back" = "back"
        /\ \A x : x # o => (Leaving(x)' <=> Leaving(x)) /\ (Ended(x)' <=> Ended(x))
        /\ \A u \in Thread : \A t : TakenBy(u, t)' <=> TakenBy(u, t)
        /\ \A t : (Taken(t)' <=> Taken(t)) /\ (Aborting(t)' <=> Aborting(t))
        /\ \A c : Linking(c)' <=> Linking(c)
    BY <2>1, CloserShift
  <2> QED
    BY <2>2
<1>6. /\ ends' \in [Handle -> Nat] /\ \A x \in Handle : ends'[x] = IF x = o THEN 1 ELSE ends[x]
      /\ OrderInv' /\ \A u \in Thread : KeepsNatives(u)
  <2>1. o \in Txn \cup DB \cup Cursor /\ fn # "newcursor" /\ (o \in Txn \cup DB => NoCursorIn(o))
    BY <1>1, <1>4 DEF CloserOf
  <2> QED
    BY <2>1, <1>3, EndOpen
<1>7. \A x : Leaving(x)' <=> Leaving(x)
  BY <1>2, <1>5
<1>8. TypeOK'
  BY <1>1, <1>6 DEF TypeOK, Steps, wrappers
<1>9. ListInv'
  BY <1>1, <1>5, <1>7 DEF ListInv, wrappers
<1>10. CursorInv'
  <2>1. \A c, n : MadeBy(c, n)' <=> MadeBy(c, n)
    BY DEF MadeBy
  <2> QED
    BY <2>1, <1>1, <1>7 DEF CursorInv, wrappers
<1>11. EndsInv'
  <2>1. \A d \in DB : ends'[d] = IF d \in ptr' /\ ~Ended(d)' THEN 0 ELSE 1
    BY <1>1, <1>2, <1>5, <1>6 DEF EndsInv, wrappers, Handle
  <2>2. \A t \in Txn : ends'[t] = IF t \in ptr' \/ Taken(t)' THEN 0 ELSE 1
    BY <1>1, <1>5, <1>6 DEF EndsInv, wrappers, Handle
  <2>3. ASSUME NEW c \in Cursor
        PROVE  /\ c \notin lives' => c \notin ptr' /\ ends'[c] = 0
               /\ c \in ptr' => ends'[c] = IF Ended(c)' THEN 1 ELSE 0
               /\ c \in lives' \ ptr' => ends'[c] = IF Linking(c)' THEN 0 ELSE 1
    <3>1. CASE c = o
      BY <3>1, <1>1, <1>2, <1>3, <1>5, <1>6 DEF wrappers
    <3>2. CASE c # o
      BY <3>2, <1>1, <1>5, <1>6 DEF EndsInv, wrappers, Handle
    <3> QED
      BY <3>1, <3>2
  <2>4. ends'[Env] = ends[Env]
    BY <1>1, <1>6 DEF Handle
  <2> QED
    BY <2>1, <2>2, <2>3, <2>4, <1>1 DEF EndsInv, wrappers
<1>12. \A u \in Thread : KeepsData(u)
  BY <1>5, QuietData
<1>13. \A u \in Thread : u # th => CloseInv(u)'
  BY <1>6, <1>12, Parts, OthersKept
<1>14. Claims(th, {fn})
  BY <1>6, <1>12, Parts, ShiftSame, ClaimsKept
<1>15. CloseInv(th)'
  <2>1. CASE fn = "db"
    <3>1. \A e \in DB : At(th, "db", e)' # "native"
      BY <2>1, RanksOf, RanksAre, NotBelow DEF Shifts
    <3> QED
      BY <2>1, <3>1, <1>14 DEF CloseInv, Claims
  <2>2. CASE fn = "cursor"
    <3>1. \A t \in Txn : CursorsInv(th, t)
      BY Parts DEF CloseInv
    <3>2. o \in Cursor
      BY <2>2 DEF CloserOf
    <3>3. \A t \in Txn : CursorsInv(th, t)'
      BY <2>2, <3>1, <3>2 DEF CursorsInv, Shifts
    <3> QED
      BY <2>2, <3>3, <1>14 DEF CloseInv, Claims
  <2> QED
    BY <2>1, <2>2 DEF CloserOf
<1>16. DataInv' /\ ~corrupt'
  BY <1>1, <1>6, <1>9, <1>10, <1>11 DEF DataInv
<1> QED
  BY <1>8, <1>13, <1>15, <1>16, Whole

LEMMA NativeTxn ==
    ASSUME Orderly, IInv, NEW th \in Thread, NEW t \in Txn, NEW fn, fn = "commit" \/ fn = "abort",
           Atop(th, fn, t), At(th, fn, t) = "native", Steps(th), Shifts(th, fn, t, "back"),
           ends' = [ends EXCEPT ![t] = @ + 1],
           UNCHANGED <<gil, made, wrappers, lives, begunIn, corrupt>>
    PROVE  IInv'
<1>1. /\ TypeOK /\ ListInv /\ CursorInv /\ EndsInv /\ ~corrupt /\ corrupt' = corrupt
      /\ t \in Handle /\ \A x \in DB \cup Cursor \cup {Env} : x # t
  BY Parts, CallAssumption DEF Handle
<1>2. /\ \A g, x : (g = "commit" \/ g = "abort") /\ ~(g = fn /\ x = t) => At(th, g, x) = "none"
  BY RanksOf, RanksAre, NotBelow
<1>3. TxnInv(th, t) /\ TakenBy(th, t)
  BY Parts DEF CloseInv, TakenBy
<1>4. NoCursorIn(t) /\ t \notin ptr /\ ends[t] = 0
  BY <1>1, <1>3 DEF TxnInv, EndsInv, Taken
<1>5. \A u \in Thread : \A g, x : ~(u = th /\ g = fn /\ x = t) => At(u, g, x)' = At(u, g, x)
  BY DEF Steps, Shifts
<1>6. At(th, fn, t)' = "back"
  BY DEF Shifts
<1>7. \A o : (Leaving(o)' <=> Leaving(o)) /\ (Ended(o)' <=> Ended(o)) /\ (Linking(o)' <=> Linking(o))
  BY <1>5 DEF Leaving, Ended, Linking, CloserOf
<1>8. /\ ~TakenBy(th, t)'
      /\ \A u \in Thread : \A x : u # th \/ x # t => (TakenBy(u, x)' <=> TakenBy(u, x))
  BY <1>2, <1>5, <1>6 DEF TakenBy
<1>9. ~Taken(t)' /\ \A x : x # t => (Taken(x)' <=> Taken(x))
  BY <1>3, <1>8 DEF Taken, TxnInv
<1>10. \A x : Aborting(x)' <=> Aborting(x)
  <2>1. \A u \in Thread : \A x : At(u, "abort", x)' = "dbs" <=> At(u, "abort", x) = "dbs"
    BY <1>5, <1>6
  <2> QED
    BY <2>1 DEF Aborting
<1>11. /\ ends' \in [Handle -> Nat] /\ \A x \in Handle : ends'[x] = IF x = t THEN 1 ELSE ends[x]
       /\ OrderInv' /\ \A u \in Thread : KeepsNatives(u)
  <2>1. t \in Txn \cup DB \cup Cursor /\ fn # "newcursor"
    OBVIOUS
  <2> QED
    BY <2>1, <1>4, EndOpen
<1>12. TypeOK'
  BY <1>1, <1>11 DEF TypeOK, Steps, wrappers
<1>13. ListInv'
  BY <1>1, <1>7, <1>10 DEF ListInv, wrappers
<1>14. CursorInv'
  <2>1. \A c, n : MadeBy(c, n)' <=> MadeBy(c, n)
    BY DEF MadeBy
  <2> QED
    BY <2>1, <1>1, <1>7 DEF CursorInv, wrappers
<1>15. EndsInv'
  <2>1. \A x \in Txn : ends'[x] = IF x \in ptr' \/ Taken(x)' THEN 0 ELSE 1
    BY <1>1, <1>4, <1>9, <1>11 DEF EndsInv, wrappers, Handle
  <2>2. \A x \in DB \cup Cursor \cup {Env} : ends'[x] = ends[x]
    BY <1>1, <1>11 DEF Handle
  <2> QED
    BY <2>1, <2>2, <1>1, <1>7 DEF EndsInv, wrappers
<1>16. \A u \in Thread : KeepsData(u)
  BY <1>8, QuietData
<1>17. \A u \in Thread : u # th => CloseInv(u)'
  BY <1>11, <1>16, Parts, OthersKept
<1>18. Claims(th, {fn})
  BY <1>11, <1>16, Parts, ShiftSame, ClaimsKept
<1>19. ASSUME NEW x \in Txn PROVE TxnInv(th, x)'
  <2>1. At(th, "commit", x)' \in {"none", "back"} /\ At(th, "abort", x)' \in {"none", "back"}
    BY <1>2, <1>5, <1>6
  <2> QED
    BY <2>1 DEF TxnInv, TakenBy
<1>20. DataInv' /\ ~corrupt' /\ CloseInv(th)'
  BY <1>1, <1>11, <1>13, <1>14, <1>15, <1>18, <1>19 DEF DataInv, CloseInv, Claims
<1> QED
  BY <1>12, <1>17, <1>20, Whole

LEMMA NativeEnv ==
    ASSUME Orderly, IInv, NEW th \in Thread, Atop(th, "env", Env), At(th, "env", Env) = "native",
           Steps(th), Shifts(th, "env", Env, "back"), ends' = [ends EXCEPT ![Env] = @ + 1],
           UNCHANGED <<gil, made, wrappers, lives, begunIn, corrupt>>
    PROVE  IInv'
<1>1. /\ TypeOK /\ ListInv /\ CursorInv /\ EndsInv /\ OrderInv /\ ~corrupt /\ corrupt' = corrupt /\ EnvInv(th)
      /\ Env \in Handle /\ Env \notin Txn \cup DB \cup Cursor /\ Env # None
  BY Parts, CallAssumption DEF Handle, CloseInv
<1>2. \A u \in Thread : \A g, x : At(u, g, x) # "none" => u = th /\ g = "env" /\ x = Env
  BY EnvAlone
<1>3. /\ \A x \in Txn \cup DB : ~Open(x)
      /\ closed /\ ends[Env] = 0
  BY <1>1 DEF EnvInv
<1>4. ends' \in [Handle -> Nat] /\ \A x \in Handle : ends'[x] = IF x = Env THEN 1 ELSE ends[x]
  BY <1>1, <1>3 DEF TypeOK
<1>5. \A x : x # Env => (Open(x)' <=> Open(x))
  BY <1>1, <1>4 DEF Open, TypeOK
<1>6. Calm(th)
  BY DEF Calm, CalmPlace, Shifts
<1>7. TypeOK'
  BY <1>1, <1>4 DEF TypeOK, Steps, wrappers
<1>8. ListInv'
  BY <1>1, <1>6, CalmFacts DEF ListInv, wrappers
<1>9. CursorInv'
  <2>1. \A c, n : MadeBy(c, n)' <=> MadeBy(c, n)
    BY DEF MadeBy
  <2> QED
    BY <2>1, <1>1, <1>6, CalmFacts DEF CursorInv, wrappers
<1>10. EndsInv'
  <2>1. \A x \in Txn \cup DB \cup Cursor : ends'[x] = ends[x]
    BY <1>1, <1>4 DEF Handle
  <2>2. ends'[Env] = 1
    BY <1>1, <1>4
  <2> QED
    BY <2>1, <2>2, <1>1, <1>3, <1>6, CalmFacts DEF EndsInv, wrappers
<1>11. OrderInv'
  <2>1. \A c \in Cursor : ~Open(c)
    <3>1. \A c \in Cursor : Open(c) => Open(begunIn[c][1]) /\ begunIn[c][1] \in DB \cup {None}
      BY <1>1 DEF OrderInv, TypeOK
    <3>2. ~Open(None)
      BY <1>1, CallAssumption DEF Open, TypeOK
    <3> QED
      BY <3>1, <3>2, <1>3
  <2> QED
    BY <2>1, <1>1, <1>3, <1>5 DEF OrderInv
<1>12. ASSUME NEW u \in Thread, u # th PROVE CloseInv(u)'
  <2>1. KeepsData(u)
    BY <1>6, CalmFacts, QuietData
  <2>2. \A g, x : At(u, g, x) = "none"
    BY <1>2, <1>12
  <2>3. KeepsNatives(u)
    BY <1>1, <1>5, <2>2 DEF KeepsNatives
  <2> QED
    BY <1>12, <2>1, <2>3, Parts, OthersKept
<1>13. Claims(th, {"env"})
  BY <1>2, Lone DEF Shifts
<1>14. EnvInv(th)'
  <2>1. At(th, "env", Env)' = "back"
    BY DEF Shifts
  <2> QED
    BY <2>1, <1>1, <1>3, <1>5 DEF EnvInv
<1>15. DataInv' /\ ~corrupt' /\ CloseInv(th)'
  BY <1>1, <1>8, <1>9, <1>10, <1>11, <1>13, <1>14 DEF DataInv, CloseInv, Claims
<1> QED
  BY <1>7, <1>12, <1>15, Whole

LEMMA NativeNew ==
    ASSUME Orderly, IInv, NEW th \in Thread, NEW c, Atop(th, "newcursor", c), At(th, "newcursor", c) = "native",
           Steps(th), Shifts(th, "newcursor", c, "back"), lives' = lives \cup {c},
           UNCHANGED <<gil, made, wrappers, ends, begunIn, corrupt>>
    PROVE  IInv'
<1> DEFINE n == Outer(th)
<1>1. /\ TypeOK /\ ListInv /\ CursorInv /\ EndsInv /\ OrderInv /\ ~corrupt /\ corrupt' = corrupt
      /\ \A g, x : At(th, g, x) # "none" => g = "newcursor" /\ x = c
      /\ c \in Cursor /\ n.h = c /\ n.fn = "newcursor" /\ n \in made[th] /\ n \in Call
      /\ c \notin Txn \cup DB /\ None \notin Txn \cup DB
  BY Parts, NewTop, CallAssumption DEF Handle
<1>2. /\ c \notin ptr /\ txnOf[c] = None /\ c \notin lives
      /\ begunIn[c][1] = n.db /\ begunIn[c][2] \in {None, n.txn}
      /\ Open(begunIn[c][1]) /\ (begunIn[c][2] # None => Open(begunIn[c][2]))
  <2>1. NewInv(th, c)
    BY <1>1, Parts DEF CloseInv
  <2> QED
    BY <2>1 DEF NewInv
<1>3. ends[c] = 0
  BY <1>1, <1>2 DEF EndsInv
<1>4. \A x : Open(x)' <=> Open(x) \/ x = c
  BY <1>3 DEF Open
<1>5. \A u \in Thread : \A g, x : ~(u = th /\ g = "newcursor" /\ x = c) => At(u, g, x)' = At(u, g, x)
  BY DEF Steps, Shifts
<1>6. At(th, "newcursor", c)' = "back"
  BY DEF Shifts
<1>7. /\ \A o : (Leaving(o)' <=> Leaving(o)) /\ (Ended(o)' <=> Ended(o))
      /\ \A u \in Thread : \A x : TakenBy(u, x)' <=> TakenBy(u, x)
      /\ \A x : Aborting(x)' <=> Aborting(x)
      /\ \A x : x # c => (Linking(x)' <=> Linking(x))
      /\ Linking(c)'
  BY <1>5, <1>6 DEF Leaving, Ended, TakenBy, Aborting, Linking, CloserOf
<1>8. \A x : Taken(x)' <=> Taken(x)
  BY <1>7 DEF Taken
<1>9. TypeOK'
  <2>1. lives' \subseteq Handle
    BY <1>1 DEF TypeOK, Handle
  <2> QED
    BY <2>1, <1>1 DEF TypeOK, Steps, wrappers
<1>10. ListInv'
  BY <1>1, <1>7 DEF ListInv, wrappers
<1>11. CursorInv'
  <2>1. \A x, m : MadeBy(x, m)' <=> MadeBy(x, m)
    BY DEF MadeBy
  <2>2. MadeBy(c, n)
    BY <1>1 DEF MadeBy
  <2>3. ASSUME NEW x \in Cursor, x \in lives' \cup ptr'
        PROVE  \E m \in Call : /\ MadeBy(x, m)' /\ begunIn'[x][1] = m.db /\ begunIn'[x][2] \in {None, m.txn}
                               /\ txnOf'[x] \in {None, m.txn}
    <3>1. CASE x = c
      <4> HIDE DEF n
      <4> QED
        BY <3>1, <2>1, <2>2, <1>1, <1>2 DEF wrappers
    <3>2. CASE x # c
      <4>1. x \in lives \cup ptr
        BY <3>2, <2>3 DEF wrappers
      <4>2. PICK m \in Call : /\ MadeBy(x, m) /\ begunIn[x][1] = m.db /\ begunIn[x][2] \in {None, m.txn}
                              /\ txnOf[x] \in {None, m.txn}
        BY <4>1, <1>1 DEF CursorInv
      <4> QED
        BY <4>2, <2>1 DEF wrappers
    <3> QED
      BY <3>1, <3>2
  <2> QED
    BY <2>3, <1>1, <1>7 DEF CursorInv, wrappers
<1>12. EndsInv'
  BY <1>1, <1>2, <1>3, <1>7, <1>8 DEF EndsInv, wrappers
<1>13. OrderInv'
  BY <1>1, <1>2, <1>4 DEF OrderInv
<1>14. ASSUME NEW u \in Thread, u # th PROVE CloseInv(u)'
  <2>1. KeepsData(u)
    BY <1>7, QuietData
  <2>2. ASSUME NEW x \in Txn \cup DB, NEW g, At(u, g, x) # "none", NoCursorIn(x) PROVE NoCursorIn(x)'
    <3>1. n.db # x /\ n.txn # x
      <4>1. At(th, "newcursor", c) # "none" /\ Base
        BY Parts
      <4> QED
        BY <4>1, <1>14, <2>2, Apart
    <3>2. begunIn[c][1] # x /\ begunIn[c][2] # x
      BY <3>1, <1>1, <1>2
    <3> QED
      BY <2>2, <3>2, <1>4 DEF NoCursorIn
  <2>3. \A x \in Cursor : At(u, "newcursor", x) # "none" => x # c
    <3>1. At(th, "newcursor", c) # "none"
      OBVIOUS
    <3> QED
      BY <3>1, <1>1, <1>14, OneMaker
  <2>4. KeepsNatives(u)
    BY <1>1, <1>4, <2>2, <2>3 DEF KeepsNatives
  <2> QED
    BY <1>14, <2>1, <2>4, Parts, OthersKept
<1>15. Claims(th, {"newcursor"})
  BY <1>1, Lone DEF Shifts
<1>16. NewInv(th, c)'
  <2>1. Outer(th)' = Outer(th)
    <3>1. At(th, "newcursor", c)' # "none" /\ At(th, "newcursor", c) # "none"
      BY <1>6
    <3> QED
      BY <3>1, SameOuter
  <2>2. (Open(begunIn[c][1]) /\ (begunIn[c][2] # None => Open(begunIn[c][2])))'
    BY <1>2, <1>4
  <2> QED
    BY <2>1, <2>2, <1>2, <1>6 DEF NewInv, wrappers
<1>17. \A x \in Cursor : x # c => NewInv(th, x)'
  <2>1. \A x \in Cursor : x # c => At(th, "newcursor", x)' = "none"
    BY <1>1 DEF Shifts
  <2> QED
    BY <2>1 DEF NewInv
<1>18. DataInv' /\ ~corrupt' /\ CloseInv(th)'
  BY <1>1, <1>10, <1>11, <1>12, <1>13, <1>15, <1>16, <1>17 DEF DataInv, CloseInv, Claims
<1> QED
  BY <1>9, <1>14, <1>18, Whole

LEMMA NativeCursors ==
    ASSUME Orderly, IInv, NEW th \in Thread, NEW t \in Txn, Atop(th, "cursors", t), At(th, "cursors", t) = "native",
           Steps(th), Shifts(th, "cursors", t, "back"), UNCHANGED <<gil, made, wrappers, natives, corrupt>>
    PROVE  IInv'
<1>1. gil' \in Thread \cup {None}
  BY Parts DEF TypeOK
<1>2. Calm(th) /\ Claims(th, {"cursors"}) /\ (CloseInv(th)' => IInv')
  BY <1>1, CalmShift DEF CalmPlace
<1>3. ASSUME NEW x \in Txn PROVE TxnInv(th, x)'
  <2>1. TxnInv(th, x)
    BY Parts DEF CloseInv
  <2>2. At(th, "abort", x)' = At(th, "abort", x) /\ At(th, "commit", x)' = At(th, "commit", x)
    BY DEF Shifts
  <2>3. At(th, "cursors", x)' = "none" => At(th, "cursors", x) = "none"
    BY DEF Shifts
  <2> QED
    BY <2>1, <2>2, <2>3, <1>2, CalmTxn DEF TxnInv
<1>4. ASSUME NEW x \in Txn PROVE CursorsInv(th, x)'
  <2>1. CursorsInv(th, x)
    BY Parts DEF CloseInv
  <2>2. At(th, "cursors", x)' \in {"native", "back"} => At(th, "cursors", x) \in {"native", "back"}
    BY DEF Shifts
  <2>3. \A c : At(th, "cursor", c)' = At(th, "cursor", c)
    BY DEF Shifts
  <2> QED
    BY <2>1, <2>2, <2>3 DEF CursorsInv, wrappers
<1> QED
  BY <1>2, <1>3, <1>4 DEF CloseInv, Claims

LEMMA NativeInv == ASSUME Orderly, IInv, NEW th \in Thread, Native(th) PROVE IInv'
<1>1. PICK fn, h : Atop(th, fn, h) /\ At(th, fn, h) = "native" /\ fn = Top(th).call.fn /\ h = Top(th).call.h
  <2>1. Atop(th, Top(th).call.fn, Top(th).call.h) /\ Top(th).at = "native"
    BY Parts, TopIs DEF Native, Running
  <2> QED
    BY <2>1 DEF Atop
<1>2. Move(th, "back") /\ UNCHANGED <<gil, made, wrappers, begunIn, corrupt>>
  BY DEF Native
<1>3. Steps(th) /\ Shifts(th, fn, h, "back")
  BY <1>1, <1>2, Parts, MoveSteps DEF Places
<1>4. Fits(fn, h)
  BY <1>1 DEF Atop
<1>5. CASE fn = "newcursor"
  <2>1. lives' = lives \cup {h} /\ ends' = ends
    BY <1>1, <1>5 DEF Native
  <2> QED
    BY <1>1, <1>2, <1>3, <1>5, <2>1, NativeNew
<1>6. CASE fn = "cursors"
  <2>1. h \in Txn /\ UNCHANGED natives
    BY <1>1, <1>2, <1>4, <1>6 DEF Native, Fits, natives
  <2> QED
    BY <1>1, <1>2, <1>3, <1>6, <2>1, NativeCursors
<1>7. CASE fn # "newcursor" /\ fn # "cursors"
  <2>1. ends' = [ends EXCEPT ![h] = @ + 1] /\ lives' = lives
    BY <1>1, <1>7 DEF Native
  <2>2. CASE fn = "env"
    <3>1. h = Env
      BY <1>4, <2>2 DEF Fits
    <3> QED
      BY <1>1, <1>2, <1>3, <2>1, <2>2, <3>1, NativeEnv
  <2>3. CASE fn = "commit" \/ fn = "abort"
    <3>1. h \in Txn
      BY <1>4, <2>3 DEF Fits
    <3> QED
      BY <1>1, <1>2, <1>3, <2>1, <2>3, <3>1, NativeTxn
  <2>4. CASE fn = "db" \/ fn = "cursor"
    <3>1. h \in DB \cup Cursor /\ fn = CloserOf(h)
      BY <1>4, <2>4, CallAssumption DEF Fits, CloserOf
    <3> QED
      BY <1>1, <1>2, <1>3, <2>1, <3>1, NativeWrapper
  <2> QED
    BY <1>4, <1>7, <2>2, <2>3, <2>4 DEF Fits
<1> QED
  BY <1>5, <1>6, <1>7

(***************************************************************************)
(* The program begins a call; the first state; the theorems.               *)
(***************************************************************************)

LEMMA EnterInv ==
    ASSUME Orderly, IInv, NEW th \in Thread, NEW call \in May[th], Enter(th, call) PROVE IInv'
<1>1. /\ Steps(th)
      /\ \A g, x : /\ At(th, g, x) = "none"
                   /\ At(th, g, x)' = IF g = call.fn /\ x = call.h THEN "start" ELSE "none"
  BY Parts, EnterSteps
<1>2. /\ call \in Call /\ call \notin made[th] /\ made' = [made EXCEPT ![th] = @ \cup {call}]
      /\ gil' = th /\ UNCHANGED <<wrappers, natives, corrupt>>
  BY CallAssumption DEF Enter
<1>3. Calm(th)
  BY <1>1 DEF Calm, CalmPlace
<1>4. made' \in [Thread -> SUBSET Call] /\ \A u \in Thread : made[u] \subseteq made'[u]
  BY <1>2, Parts DEF TypeOK
<1>5. CloseInv(th)' => IInv'
  BY <1>1, <1>2, <1>3, <1>4, CalmStep
<1>6. \A g, x : At(th, g, x)' \in {"none", "start"}
  BY <1>1
<1>7. \A t \in Txn : TxnInv(th, t)' /\ CursorsInv(th, t)'
  BY <1>6 DEF TxnInv, TakenBy, CursorsInv
<1>8. EnvInv(th)' /\ \A d \in DB : At(th, "db", d)' # "native"
  BY <1>6 DEF EnvInv
<1>9. ASSUME NEW c \in Cursor PROVE NewInv(th, c)'
  <2>1. CASE At(th, "newcursor", c)' = "none"
    BY <2>1 DEF NewInv
  <2>2. CASE At(th, "newcursor", c)' # "none"
    <3>1. call.fn = "newcursor" /\ call.h = c /\ At(th, "newcursor", c)' = "start"
      BY <2>2, <1>1
    <3>2. c \notin lives \cup ptr
      <4> SUFFICES ASSUME c \in lives \cup ptr PROVE FALSE
        OBVIOUS
      <4>1. PICK n \in Call : MadeBy(c, n)
        BY Parts DEF CursorInv
      <4>2. PICK u \in Thread : n \in made[u] /\ n \in May[u] /\ n.fn = "newcursor" /\ n.h = c
        BY <4>1, Parts DEF MadeBy, Base, StackInv
      <4>3. th = u /\ call = n
        BY <3>1, <4>2 DEF Orderly
      <4> QED
        BY <4>2, <4>3, <1>2
    <3>3. txnOf[c] = None
      BY <3>2, Parts DEF ListInv
    <3> QED
      BY <3>1, <3>2, <3>3, <1>2 DEF NewInv, wrappers, natives
  <2> QED
    BY <2>1, <2>2
<1> QED
  BY <1>5, <1>7, <1>8, <1>9 DEF CloseInv

LEMMA InitInv == Init => IInv
<1> SUFFICES ASSUME Init PROVE IInv
  OBVIOUS
<1>1. /\ OpenedIn \in [DB -> Txn \cup {None}] /\ None \notin Handle
      /\ Env \notin Txn \cup DB \cup Cursor
      /\ Txn \cap DB = {} /\ Txn \cap Cursor = {} /\ DB \cap Cursor = {}
  BY CallAssumption
<1>2. \A th \in Thread : stack[th] = << >>
  BY DEF Init
<1>3. \A th \in Thread : \A g, x : At(th, g, x) = "none"
  BY <1>2, PosNone DEF At
<1>4. /\ \A o : ~Leaving(o) /\ ~Ended(o) /\ ~Linking(o) /\ ~Taken(o) /\ ~Aborting(o)
      /\ \A th \in Thread : \A t : ~TakenBy(th, t)
  BY <1>3 DEF Leaving, Ended, Linking, Taken, TakenBy, Aborting
<1>5. TypeOK
  <2>1. stack \in [Thread -> Seq(Frame)] /\ made \in [Thread -> SUBSET Call] /\ gil \in Thread \cup {None}
    BY DEF Init
  <2>2. ptr \subseteq Handle /\ lives \subseteq Handle /\ envKids \subseteq Txn \cup DB
        /\ closed \in BOOLEAN /\ corrupt \in BOOLEAN
    BY DEF Init, Handle
  <2>3. /\ dbKids \in [DB -> SUBSET Cursor] /\ txnKids \in [Txn -> SUBSET (DB \cup Cursor)]
        /\ dbOf \in [Cursor -> DB \cup {None}] /\ ends \in [Handle -> Nat]
    BY DEF Init
  <2>4. txnOf \in [DB \cup Cursor -> Txn \cup {None}]
    BY <1>1 DEF Init
  <2>5. begunIn \in [Cursor -> (DB \cup {None}) \X (Txn \cup {None})]
    BY DEF Init
  <2> QED
    BY <2>1, <2>2, <2>3, <2>4, <2>5 DEF TypeOK
<1>6. StackInv /\ AloneInv
  BY <1>2 DEF StackInv, AloneInv, Running, Ordered, Init
<1>7. /\ \A x \in Txn \cup DB : x \in ptr /\ x \in lives /\ ends[x] = 0
      /\ \A c \in Cursor : c \notin ptr /\ c \notin lives /\ ends[c] = 0 /\ txnOf[c] = None
      /\ \A d \in DB : txnOf[d] = OpenedIn[d]
      /\ ends[Env] = 0 /\ Env \in lives
  BY <1>1 DEF Init, Handle
<1>8. ListInv
  <2>1. /\ \A d \in DB : d \in envKids <=> d \in ptr /\ ~Leaving(d)
        /\ \A t \in Txn : t \in envKids <=> t \in ptr \/ Aborting(t)
    BY <1>4, <1>7 DEF Init
  <2>2. \A d \in DB, c \in Cursor : c \in dbKids[d] <=> c \in ptr /\ dbOf[c] = d /\ ~Leaving(c)
    BY <1>7 DEF Init
  <2>3. \A t \in Txn, o \in DB \cup Cursor : o \in txnKids[t] <=> txnOf[o] = t
    BY <1>1, <1>7 DEF Init, Handle
  <2>4. \A o \in DB \cup Cursor : (txnOf[o] # None => o \in ptr /\ ~Leaving(o)) /\ (Leaving(o) => o \in ptr)
    BY <1>4, <1>7
  <2> QED
    BY <2>1, <2>2, <2>3, <2>4 DEF ListInv
<1>9. CursorInv
  BY <1>7 DEF CursorInv
<1>10. EndsInv
  BY <1>4, <1>7 DEF EndsInv, Init
<1>11. OrderInv
  BY <1>7 DEF OrderInv, Open
<1>12. \A th \in Thread : CloseInv(th)
  BY <1>3, <1>4 DEF CloseInv, TxnInv, CursorsInv, NewInv, EnvInv
<1>13. ~corrupt
  BY DEF Init
<1> QED
  BY <1>5, <1>6, <1>8, <1>9, <1>10, <1>11, <1>12, <1>13 DEF IInv

LEMMA NextInv == ASSUME Orderly, IInv, [Next]_vars PROVE IInv'
<1>1. ASSUME UNCHANGED vars PROVE IInv'
  <2>1. gil' \in Thread \cup {None} /\ UNCHANGED <<stack, made, wrappers, natives, corrupt>>
    BY <1>1, Parts DEF vars, TypeOK
  <2> QED
    BY <2>1, StillInv
<1>2. ASSUME NEW th \in Thread, Step(th) PROVE IInv'
  <2>1. CASE Regain(th)
    BY <2>1, StillInv DEF Regain
  <2> QED
    BY <1>2, <2>1, NativeInv, CursorStartInv, ClearPointerInv, DBStartInv, DBCursorsInv, WarnCursorsInv,
       CloseFirstInv, TxnCursorsInv, TakeTxnInv, AbortListsInv, PromoteInv, AbortBackInv,
       EnvStartInv, EnvTxnsInv, EnvDBsInv, CursorBeginInv, CursorLinkInv DEF Step
<1>3. ASSUME NEW th \in Thread, NEW call \in May[th], Enter(th, call) PROVE IInv'
  BY <1>3, EnterInv
<1> QED
  BY <1>1, <1>2, <1>3 DEF Next

(* The inductive invariant: where each thread is in its cascade of closes
   says which pointers, lists and native handles may disagree. *)
THEOREM InvariantHolds == ASSUME Orderly PROVE Spec => []IInv
<1>1. IInv /\ [Next]_vars => IInv'
  BY NextInv
<1> QED
  BY <1>1, InitInv, PTL DEF Spec

(* No wrapper leaves a list it is not in and no native handle is closed or
   resolved twice, however the cascades of the threads interleave in the
   windows (commit and abort clear self->txn, the close functions leave
   their lists before MYDB_BEGIN_ALLOW_THREADS). *)
THEOREM ClosedOnceHolds == ASSUME Orderly PROVE Spec => []ClosedOnce
<1>1. IInv => ClosedOnce
  <2> SUFFICES ASSUME IInv PROVE ClosedOnce
    OBVIOUS
  <2>1. EndsInv /\ TypeOK /\ ~corrupt
    BY Parts
  <2>2. ASSUME NEW h \in Handle PROVE ends[h] \in {0, 1}
    BY <2>1 DEF EndsInv, Handle
  <2>3. \A h \in Handle : ends[h] <= 1
    BY <2>2
  <2> QED
    BY <2>1, <2>3 DEF ClosedOnce
<1> QED
  BY <1>1, InvariantHolds, PTL

(* The natives end in the order of Berkeley DB: no DB or transaction with an
   open cursor, no environment with anything open, no abort under a DB. *)
THEOREM NativeOrderHolds == ASSUME Orderly PROVE Spec => []NativeOrder
<1>1. IInv => NativeOrder
  <2> SUFFICES ASSUME IInv PROVE NativeOrder
    OBVIOUS
  <2>1. OrderInv /\ Base
    BY Parts
  <2>2. ASSUME NEW th \in Thread, stack[th] # << >>, Top(th).at = "native", Top(th).call.fn = "abort",
               NEW d \in DB
        PROVE  txnOf[d] # Top(th).call.h
    <3>1. Atop(th, "abort", Top(th).call.h) /\ At(th, "abort", Top(th).call.h) = "native"
      BY <2>1, <2>2, TopIs DEF Running, Atop
    <3>2. Top(th).call.h \in Txn
      BY <3>1 DEF Atop, Fits
    <3> QED
      BY <3>1, <3>2, Parts DEF CloseInv, TxnInv
  <2> QED
    BY <2>1, <2>2 DEF NativeOrder, OrderInv
<1> QED
  BY <1>1, InvariantHolds, PTL

(* When no call runs every list is exact: what the calls found out of date
   after their windows is repaired by the time the last of them returns. *)
THEOREM QuietListsHold == ASSUME Orderly PROVE Spec => []QuietLists
<1>1. IInv => QuietLists
  <2> SUFFICES ASSUME IInv, \A th \in Thread : stack[th] = << >>
               PROVE  /\ envKids = (Txn \cup DB) \cap ptr
                      /\ \A d \in DB : dbKids[d] = {c \in Cursor \cap ptr : dbOf[c] = d}
                      /\ \A t \in Txn : txnKids[t] = {o \in (DB \cup Cursor) \cap ptr : txnOf[o] = t}
    BY DEF QuietLists
  <2>1. TypeOK /\ ListInv /\ None \notin Txn
    BY Parts, CallAssumption DEF Handle
  <2>2. \A th \in Thread : \A g, x : At(th, g, x) = "none"
    BY PosNone DEF At
  <2>3. \A o : ~Leaving(o) /\ ~Aborting(o)
    BY <2>2 DEF Leaving, Aborting
  <2>4. envKids = (Txn \cup DB) \cap ptr
    BY <2>1, <2>3 DEF ListInv, TypeOK
  <2>5. ASSUME NEW d \in DB PROVE dbKids[d] = {c \in Cursor \cap ptr : dbOf[c] = d}
    BY <2>1, <2>3 DEF ListInv, TypeOK
  <2>6. ASSUME NEW t \in Txn PROVE txnKids[t] = {o \in (DB \cup Cursor) \cap ptr : txnOf[o] = t}
    BY <2>1 DEF ListInv, TypeOK
  <2> QED
    BY <2>4, <2>5, <2>6
<1> QED
  BY <1>1, InvariantHolds, PTL
=============================================================================
