------------------------- MODULE MCPostgresRegistry -------------------------
(***************************************************************************)
(* Instances of PostgresRegistry for TLC: a process with two tasks and one *)
(* with one.                                                               *)
(***************************************************************************)
EXTENDS PostgresRegistry, TLC

CONSTANTS a, b, ia, ib, g1, g2, read, write, t1, t2, t3, p1, p2

TwoAndOne == (t1 :> p1) @@ (t2 :> p1) @@ (t3 :> p2)

Grant1 == [id |-> g1, pairs |-> {read}]
Grant2 == [id |-> g2, pairs |-> {write}]

Request(name, id, parent, trust, ceiling, grants) ==
    [name |-> name, id |-> id, parent |-> parent, trust |-> trust,
     ceiling |-> ceiling, grants |-> grants, key |-> "k1"]

Register(request) == [kind |-> "register", request |-> request]

\* A root, its child, and the root again with the id the child has.
RegisterRoot  == Register(Request(a, ia, NoParent, 2, 4, <<Grant2>>))
RegisterChild == Register(Request(b, ib, ia, 2, 4, <<Grant2>>))
RegisterAnew  == Register(Request(a, ib, NoParent, 2, 4, <<>>))

CallsOfThree ==
    (t1 :> { RegisterRoot, RegisterChild,
             [kind |-> "remove_grant", name |-> b, id |-> g2] })
    @@ (t2 :> { [kind |-> "add_grant", name |-> b, grant |-> Grant2],
                [kind |-> "set_trust", name |-> a, value |-> 4] })
    @@ (t3 :> { RegisterAnew,
                [kind |-> "deregister", name |-> a],
                [kind |-> "update_status", name |-> b, status |-> "suspended"],
                [kind |-> "list_by_tier"] })

TwoStatuses == {"registered", "suspended"}
TwoKeys == {"k1", "k2"}
=============================================================================
