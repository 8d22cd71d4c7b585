---------------------------- MODULE AtomicCommit ----------------------------
(* What the environments that take part in distributed transactions promise  *)
(* their coordinator: a branch that was prepared stays so until the outcome  *)
(* of its transaction is applied to it, whatever becomes of the process.     *)
CONSTANTS
    Gid,        \* distributed transactions
    Parts       \* the environments in which each has a branch

VARIABLES
    outcome,    \* the coordinator's decision on each transaction
    branch      \* where the branches are: a function of transaction, environment

BranchState == {"working", "prepared", "committed", "aborted"}

TypeOK ==
    /\ outcome \in [Gid -> {"none", "commit", "abort"}]
    /\ DOMAIN branch = Gid
    /\ \A g \in Gid : branch[g] \in [Parts[g] -> BranchState]

Init ==
    /\ outcome = [g \in Gid |-> "none"]
    /\ branch = [g \in Gid |-> [e \in Parts[g] |-> "working"]]

Settle(g, d) ==
    /\ outcome[g] = "none"
    /\ d = "commit" => \A e \in Parts[g] : branch[g][e] = "prepared"
    /\ outcome' = [outcome EXCEPT ![g] = d]
    /\ UNCHANGED branch

\* The states a branch may move to.  A resolution that was not flushed to the
\* log is undone by a crash: the branch is prepared again.
Moves(g, e) ==
    CASE branch[g][e] = "working" -> {"working", "prepared", "aborted"}
      [] branch[g][e] = "prepared" ->
            {"prepared"} \cup (IF outcome[g] = "commit" THEN {"committed"} ELSE {})
                         \cup (IF outcome[g] = "abort" THEN {"aborted"} ELSE {})
      [] branch[g][e] = "committed" -> {"committed", "prepared"}
      [] branch[g][e] = "aborted" ->
            {"aborted"} \cup (IF outcome[g] = "abort" THEN {"prepared"} ELSE {})

\* One environment moves; losing it moves all of its branches.
Move(e) ==
    /\ DOMAIN branch' = Gid
    /\ \A g \in Gid : branch'[g] \in [Parts[g] -> BranchState]
    /\ \A g \in Gid : \A f \in Parts[g] :
          branch'[g][f] \in IF f = e THEN Moves(g, f) ELSE {branch[g][f]}
    /\ UNCHANGED outcome

Next ==
    \/ \E g \in Gid, d \in {"commit", "abort"} : Settle(g, d)
    \/ \E e \in UNION {Parts[g] : g \in Gid} : Move(e)

Spec == Init /\ [][Next]_<<outcome, branch>>

(* No transaction is committed in one environment and aborted in another.    *)
Consistent ==
    \A g \in Gid : \A e, f \in Parts[g] :
        ~(branch[g][e] = "committed" /\ branch[g][f] = "aborted")
=============================================================================
