----------------------------- MODULE MCCronJobs -----------------------------
(* Model-checking instance of CronJobs.                                    *)
EXTENDS CronJobs, TLC

MCContents == [input : Jobs \union {None}, config : Jobs \union {None}]

(* Searches with and without a filter, for the first page, a later page,   *)
(* and all rows; counts; and threads by their ids.                         *)
Search(wanted, order, offset, limit, state) ==
    [op |-> "search", wanted |-> wanted, ids |-> {}, order |-> order,
     offset |-> offset, limit |-> limit, state |-> state]

MCAsks ==
    {Search("any", "desc", 0, 2, TRUE), Search("any", "asc", 1, 1, FALSE),
     Search("text", "asc", 0, 1, TRUE), Search("text", "none", 0, 2, TRUE),
     Search("number", "none", 0, 2, TRUE), Search("object", "desc", 0, 2, FALSE)}
    \union {[Search(w, "none", 0, 1, TRUE) EXCEPT !.op = "count"] : w \in {"any", "text"}}
    \union {[a EXCEPT !.op = "ids", !.ids = Ids] :
                a \in {Search("text", "asc", 0, 2, TRUE), Search("any", "none", 0, 1, FALSE)}}

Symmetry == Permutations(Ids) \union Permutations(Jobs)
=============================================================================
