---------------------------- MODULE MCGilWindows ----------------------------
(* One environment, two threads, two transactions, two DBs, three cursors.   *)
EXTENDS GilWindows, TLC

CONSTANTS th1, th2, t1, t2, d1, d2, c1, c2, c3

MCThread == {th1, th2}
MCTxn == {t1, t2}
MCDB == {d1, d2}
MCCursor == {c1, c2, c3}

\* d1 is shared, d2 was opened in t1.
MCOpenedIn == (d1 :> None) @@ (d2 :> t1)

NewCursor(c, d, t) == [fn |-> "newcursor", h |-> c, db |-> d, txn |-> t]

\* Each thread keeps to its own cursors, th1 resolves t1 and closes d2, and
\* both try to commit and to abort t2; the environment is closed last.
Shared ==
    (th1 :> {NewCursor(c1, d1, t1), NewCursor(c3, d2, None), CallOf("db", d2),
             CallOf("commit", t1), CallOf("abort", t1), CallOf("abort", t2), CallOf("env", Env)})
    @@ (th2 :> {NewCursor(c2, d1, None), CallOf("cursor", c2),
                CallOf("commit", t2)})
EnvAlone == {CallOf("env", Env)}
ASSUME SharedIsOrderly == May = Shared /\ Alone = EnvAlone => Orderly

\* Two threads that close the environment.
Closing == [th \in MCThread |-> {CallOf("env", Env)}]
=============================================================================
