-------------------------- MODULE MCSqliteRegistry --------------------------
(***************************************************************************)
(* Instances of SqliteRegistry for TLC.                                    *)
(***************************************************************************)
EXTENDS SqliteRegistry

CONSTANTS a, b, ia, ib, g1, g2, read, write, run, t1, t2

Grant1 == [id |-> g1, pairs |-> {read}]
Grant2 == [id |-> g2, pairs |-> {write}]
Foreign == [id |-> g1, pairs |-> {run}]

Request(name, id, parent, trust, ceiling, grants) ==
    [name |-> name, id |-> id, parent |-> parent, trust |-> trust,
     ceiling |-> ceiling, grants |-> grants, key |-> "k1"]

Register(request) == [kind |-> "register", request |-> request]

\* A root that may read and write, its child that may write, and the root anew,
\* under the child's id and with no grants.  No one may run.
RegisterRoot  == Register(Request(a, ia, NoParent, 2, 4, <<Grant1, Grant2>>))
RegisterChild == Register(Request(b, ib, ia, 2, 4, <<Grant2>>))
RegisterSameId == Register(Request(a, ib, NoParent, 2, 4, <<>>))

GrantCalls ==
    { RegisterRoot, RegisterChild, RegisterSameId,
      [kind |-> "deregister", name |-> a],
      [kind |-> "add_grant", name |-> b, grant |-> Grant1],
      [kind |-> "add_grant", name |-> b, grant |-> Foreign],
      [kind |-> "remove_grant", name |-> a, id |-> g1],
      [kind |-> "update_status", name |-> a, status |-> "suspended"],
      [kind |-> "update_identity", name |-> a, key |-> "k2"] }

TrustCalls ==
    { RegisterRoot, RegisterChild,
      [kind |-> "deregister", name |-> b],
      [kind |-> "trust_event", name |-> a, event |-> "failure"],
      [kind |-> "set_trust", name |-> b, value |-> 4],
      [kind |-> "list_by_tier"] }

TwoStatuses == {"registered", "suspended"}
TwoKeys == {"k1", "k2"}
=============================================================================
