-------------------------- MODULE ConversationLog --------------------------
(***************************************************************************)
(* What a thread promises its clients: a conversation per thread, to which *)
(* turns are added at the end, one at a time and each at most once, and    *)
(* from which none is ever lost.                                           *)
(***************************************************************************)
EXTENDS Sequences

CONSTANTS ThreadIds, Turns

VARIABLE log    \* log[t]: the turns of thread t, oldest first

TypeOK == log \in [ThreadIds -> Seq(Turns)]

Init == log = [t \in ThreadIds |-> <<>>]

Committed(m) == \E t \in ThreadIds : \E i \in DOMAIN log[t] : log[t][i] = m

Commit(t, m) ==
    /\ ~Committed(m)
    /\ log' = [log EXCEPT ![t] = Append(@, m)]

Next == \E t \in ThreadIds, m \in Turns : Commit(t, m)

Spec == Init /\ [][Next]_log
=============================================================================
