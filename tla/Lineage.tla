------------------------------ MODULE Lineage ------------------------------
(***************************************************************************)
(* Agent records and the delegation rules of presidium/lineage.py: what a  *)
(* child agent may inherit from the parent it names.  The three registry   *)
(* backends share these rules.                                             *)
(*                                                                         *)
(* A (resource, action) pair is one element of Pairs.  A grant's scope,    *)
(* condition and expiry are not compared by the narrowing rule and are     *)
(* left out, as are the descriptive fields of a record.                    *)
(***************************************************************************)
EXTENDS Trust, Sequences

CONSTANTS
    Names,       \* agent names, the key of every registry
    Ids,         \* agent_id values; distinct names may carry the same one
    NoParent,    \* parent_agent_id = None
    Pairs,       \* (resource, action) pairs a grant can hold
    GrantIds,    \* Grant.id values
    Statuses,    \* AgentStatus values the runs use
    FirstStatus, \* AgentStatus.REGISTERED
    Keys,        \* public keys
    MaxDepth     \* max_delegation_depth

ASSUME LineageAssumption ==
    /\ NoParent \notin Ids
    /\ MaxDepth \in Nat
    /\ FirstStatus \in Statuses

Grants == [id : GrantIds, pairs : SUBSET Pairs]

Records == [id : Ids, parent : Ids \cup {NoParent}, grants : Seq(Grants),
            trust : TrustValues, ceiling : TrustValues, depth : Nat,
            status : Statuses, key : Keys, revision : Nat]

\* What a caller hands to register(): a record at its default depth, status
\* and revision.
RequestType == [name : Names, id : Ids, parent : Ids \cup {NoParent},
                grants : Seq(Grants), trust : TrustValues,
                ceiling : TrustValues, key : Keys]

PairsOf(grants) == UNION {grants[i].pairs : i \in DOMAIN grants}

\* compute_child_ceiling.  Faulty variant: the parent's own ceiling only.
ChildCeilingIgnoringTrust(parent, requested) == Lower(requested, parent.ceiling)

ChildCeiling(parent, requested) ==
    Lower(requested, Lower(parent.ceiling, parent.trust))

\* validate_grant_narrowing.  Faulty variant: each grant overlaps the parent's.
NarrowsGrantsOverlapping(parent, grants) ==
    \A i \in DOMAIN grants : grants[i].pairs \cap PairsOf(parent.grants) # {}

NarrowsGrants(parent, grants) == PairsOf(grants) \subseteq PairsOf(parent.grants)

\* compute_child_depth: the depth, and when it is refused
ChildDepth(parent) == parent.depth + 1

DepthAllowed(parent) == ChildDepth(parent) <= MaxDepth

\* The record register() stores for a request.
NewRecord(r, trust, ceiling, depth) ==
    [id |-> r.id, parent |-> r.parent, grants |-> r.grants, trust |-> trust,
     ceiling |-> ceiling, depth |-> depth, status |-> FirstStatus,
     key |-> r.key, revision |-> 1]

\* With no parent nothing is clamped: trust_value may exceed trust_ceiling
\* until it is next read.
RootRecord(r) == NewRecord(r, r.trust, r.ceiling, 0)

\* With a parent that resolves to the record parent.
ChildRecord(r, parent) ==
    LET ceiling == ChildCeiling(parent, r.ceiling)
    IN  NewRecord(r, Lower(r.trust, ceiling), ceiling, ChildDepth(parent))

\* grants.append, and dropping the i-th grant (remove_grant pops the first
\* one that carries the id)
WithGrant(record, g) == [record EXCEPT !.grants = Append(@, g)]

WithoutGrant(record, i) ==
    [record EXCEPT !.grants = SubSeq(@, 1, i - 1) \o SubSeq(@, i + 1, Len(@))]

FirstWithItsId(grants, i) ==
    i \in DOMAIN grants /\ \A j \in 1 .. i - 1 : grants[j].id # grants[i].id

\* Python dictionaries: d[k] = v, and del d[k].
Put(d, k, v) == [x \in DOMAIN d \cup {k} |-> IF x = k THEN v ELSE d[x]]

Drop(d, k) == [x \in DOMAIN d \ {k} |-> d[x]]
=============================================================================
