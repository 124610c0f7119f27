-------------------------- MODULE MCMemoryRegistry --------------------------
(***************************************************************************)
(* Instances of MemoryRegistry for TLC.  Trust is in hundredths, with the  *)
(* code's own deltas, decay rate and thresholds (see the .cfg files).      *)
(***************************************************************************)
EXTENDS MemoryRegistry

CONSTANTS a, b, c, ia, ib, ic, g1, g2, read, write

Grant1 == [id |-> g1, pairs |-> {read}]
Grant2 == [id |-> g2, pairs |-> {read, write}]

Request(name, id, parent, trust, ceiling, grants) ==
    [name |-> name, id |-> id, parent |-> parent, trust |-> trust,
     ceiling |-> ceiling, grants |-> grants, key |-> "k1"]

Root(name, id, trust, ceiling, grants)  == Request(name, id, NoParent, trust, ceiling, grants)
Child(name, id, parent, trust, ceiling) == Request(name, id, parent, trust, ceiling, <<>>)

\* A root, a child and a grandchild, the root again with less trust, and the
\* root again as a child of its own grandchild.
LineageRequests ==
    { Root(a, ia, 50, 100, <<>>),
      Child(b, ib, ia, 50, 100),
      Child(c, ic, ib, 50, 40),
      Child(a, ia, ic, 50, 100) }

\* The same shape with grants, and a second name that carries the root's id.
GrantRequests ==
    { Root(a, ia, 50, 100, <<Grant2>>),
      Root(a, ia, 50, 100, <<>>),
      Child(b, ib, ia, 50, 100),
      Request(b, ib, ia, 50, 100, <<Grant1>>),
      Request(c, ic, ib, 50, 100, <<Grant1>>),
      Root(c, ia, 50, 60, <<>>) }

OverridesHigh == {100}
NoOverrides == {}
NoGrants == {}
SomeGrants == {Grant1, Grant2}
OneStatus == {"registered"}
TwoStatuses == {"registered", "suspended"}
OneKey == {"k1"}
TwoKeys == {"k1", "k2"}
=============================================================================
