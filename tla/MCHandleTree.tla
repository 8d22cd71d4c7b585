---------------------------- MODULE MCHandleTree ----------------------------
(* Small sets of handles for TLC; handles of one type are interchangeable.   *)
EXTENDS HandleTree, TLC

CONSTANTS Envs, DBs, Cursors, Seqs, Txns, LogCs, Sites

MCObj == Envs \cup DBs \cup Cursors \cup Seqs \cup Txns \cup LogCs \cup Sites

MCKindOf ==
    [o \in MCObj |-> CASE o \in Envs -> "env" [] o \in DBs -> "db"
                       [] o \in Cursors -> "cursor" [] o \in Seqs -> "seq"
                       [] o \in Txns -> "txn" [] o \in LogCs -> "logc"
                       [] o \in Sites -> "site"]

Interchangeable ==
    UNION {Permutations(S) : S \in {Envs, DBs, Cursors, Seqs, Txns, LogCs, Sites}}
=============================================================================
