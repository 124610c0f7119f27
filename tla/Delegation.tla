----------------------------- MODULE Delegation -----------------------------
(***************************************************************************)
(* What an agent registry promises about delegation, whatever stores the   *)
(* records (docs: CHANGELOG.md, "Trust ceiling propagation and monotonic   *)
(* capability narrowing"; presidium/lineage.py).  Nothing here mentions    *)
(* storage, scorers or clocks: only who holds which pairs, how far an      *)
(* agent's trust can reach, and who was set up by an operator (a root).    *)
(*                                                                         *)
(* A delegated agent gains a pair only from an agent that holds it at that *)
(* moment, and its reach is never above that agent's.                      *)
(***************************************************************************)
EXTENDS Integers

CONSTANTS Names, Pairs, One

VARIABLES
    holds,   \* holds[n]: the pairs agent n holds
    reach,   \* reach[n]: the most trust agent n can show; 0 when unregistered
    roots    \* the registered agents that name no parent

vars == <<holds, reach, roots>>

Init ==
    /\ holds = [n \in Names |-> {}]
    /\ reach = [n \in Names |-> 0]
    /\ roots = {}

OnlyChanges(n) ==
    /\ holds' \in [Names -> SUBSET Pairs]
    /\ reach' \in [Names -> 0 .. One]
    /\ \A m \in Names \ {n} : holds'[m] = holds[m] /\ reach'[m] = reach[m]

\* An operator registers a root agent, or grants to one.
Endow(n) == OnlyChanges(n) /\ roots' = roots \cup {n}

\* Agent n is registered under p, or granted something p holds.
Delegate(n, p) ==
    /\ OnlyChanges(n)
    /\ holds'[n] \ holds[n] \subseteq holds[p]
    /\ reach'[n] <= reach[p] \/ (n \notin roots /\ reach'[n] = reach[n])
    /\ roots' = roots \ {n}

\* A grant is removed, or the agent is.
Diminish(n) ==
    /\ OnlyChanges(n)
    /\ holds'[n] \subseteq holds[n]
    /\ reach'[n] <= reach[n]
    /\ roots' \in {roots, roots \ {n}}

Next == \E n \in Names : Endow(n) \/ Diminish(n) \/ \E p \in Names : Delegate(n, p)

Spec == Init /\ [][Next]_vars
=============================================================================
