------------------------------ MODULE Ordering ------------------------------
(***************************************************************************)
(* ORDER BY specifications and the order PostgreSQL gives rows under them. *)
(* A row is known here by the fields it can be ordered by: its primary key *)
(* and one nullable column, val.                                           *)
(***************************************************************************)
EXTENDS Naturals, Sequences

CONSTANTS Null,
          Orders      \* orders that are asked for: sequences of OrderSpec

Asc(field)  == [col |-> field, desc |-> FALSE]
Desc(field) == [col |-> field, desc |-> TRUE]

OrderSpec == [col : {"pk", "val"}, desc : BOOLEAN]

(* A total order: the user's, and the primary key when it is not there.    *)
EffectiveOrder(order) ==
    IF \E i \in DOMAIN order : order[i].col = "pk"
    THEN order ELSE Append(order, Asc("pk"))

ReverseOrder(order) ==
    [i \in DOMAIN order |-> [col |-> order[i].col, desc |-> ~order[i].desc]]

(* NULLs sort as if they were larger than every value. *)
Smaller(x, y) ==
    /\ x # Null
    /\ y # Null => x < y

Sorts(x, y, desc) == IF desc THEN Smaller(y, x) ELSE Smaller(x, y)

Precedes(order, a, b) ==
    \E i \in DOMAIN order :
        /\ \A j \in DOMAIN order : j < i => a[order[j].col] = b[order[j].col]
        /\ Sorts(a[order[i].col], b[order[i].col], order[i].desc)

(* The rows of S come before the other rows of T. *)
Leading(order, S, T) ==
    \A a \in S, b \in T \ S : Precedes(order, a, b)

IsFirst(order, a, S) == a \in S /\ \A b \in S \ {a} : Precedes(order, a, b)
IsLast(order, a, S)  == a \in S /\ \A b \in S \ {a} : Precedes(order, b, a)
=============================================================================
