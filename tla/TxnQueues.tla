----------------------------- MODULE TxnQueues ------------------------------
(***************************************************************************)
(* What the lists of a transaction promise: a sequence of the DBs opened   *)
(* in it, the last one first.  A DB is in one sequence at most; it may     *)
(* leave from any place, and a commit moves the first one to the parent.   *)
(***************************************************************************)
EXTENDS SequencesExt

CONSTANTS Txn, Handle, ParentOf, NULL

VARIABLE list

In(d, t) == \E i \in DOMAIN list[t] : list[t][i] = d

Init == list = [t \in Txn |-> << >>]

Join(d, t) ==
    /\ \A u \in Txn : ~In(d, u)
    /\ list' = [list EXCEPT ![t] = <<d>> \o @]

Leave(d, t) ==
    \E i \in DOMAIN list[t] : list[t][i] = d /\ list' = [list EXCEPT ![t] = RemoveAt(@, i)]

Inherit(t) ==
    /\ list[t] # << >> /\ ParentOf[t] # NULL
    /\ list' = [list EXCEPT ![t] = Tail(@),
                            ![ParentOf[t]] = <<Head(list[t])>> \o @]

Next == \/ \E d \in Handle, t \in Txn : Join(d, t) \/ Leave(d, t)
        \/ \E t \in Txn : Inherit(t)

Spec == Init /\ [][Next]_list
=============================================================================
