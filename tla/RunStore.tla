------------------------------ MODULE RunStore ------------------------------
(***************************************************************************)
(* What the runs storage promises its callers                              *)
(* (src/src/storage/interfaces.ts, IRunStorage): a run record is created   *)
(* once, every update is merged into the record as it is at that moment,   *)
(* and a deleted record stays deleted.  RunLifecycle relies on exactly     *)
(* these atomic steps.                                                     *)
(***************************************************************************)
CONSTANTS RunIds, Requests

VARIABLE rec    \* rec[r]: the record of run r and the updates merged into it

Fresh == [state |-> "new", merged |-> {}]

Init == rec = [r \in RunIds |-> Fresh]

Create(r) ==
    /\ rec[r] = Fresh
    /\ rec' = [rec EXCEPT ![r] = [state |-> "stored", merged |-> {}]]

Update(r, q) ==
    /\ rec[r].state = "stored" /\ q \notin rec[r].merged
    /\ rec' = [rec EXCEPT ![r] = [state |-> "stored", merged |-> rec[r].merged \union {q}]]

Delete(r) ==
    /\ rec[r].state = "stored"
    /\ rec' = [rec EXCEPT ![r] = [state |-> "deleted", merged |-> {}]]

Next == \E r \in RunIds : Create(r) \/ Delete(r) \/ \E q \in Requests : Update(r, q)

Spec == Init /\ [][Next]_rec
=============================================================================
