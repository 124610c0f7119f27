---------------------------- MODULE MCRuntimeLife ----------------------------
(* Two configured agents, one of them bound; three SVIDs, the last with a   *)
(* key type that _extract_public_key() does not know.                       *)
EXTENDS RuntimeLife, TLC

MCConfigured == <<"a", "b">>
MCAlgorithmOf == <<"ec_p256", "ed25519", "rsa">>

\* Where only start() matters, SPIRE has one SVID, which binds the agent.
OneSvid == <<"ec_p256">>

MCEmits == Permutations(Emits)

\* The binding, the enricher and start() share nothing but the records, of
\* which they use different fields.  A process uses the binding, with three
\* changes of contents; or, before its first failure, the clock and the
\* enricher for events about one agent or none, with two; or neither the
\* enricher nor a second SVID, with as many as there may be, and no SVID at all
\* once it failed or crashed.  Trust is reported in the last two only.
NoAudit == now = 0 /\ \A e \in Emits : emits[e].at = "idle"
NoSvid  == svid = 1 /\ source = "new"

OneOfThree ==
    \/ NoAudit /\ Len(ended) <= 3 /\ moved = {}
    \/ /\ NoSvid /\ crashes = 0 /\ failures = 0 /\ ~durable
       /\ Len(ended) <= 2
       /\ \A e \in Emits : emits[e].agent \in {Bound, NoAgent}
    \/ NoAudit /\ svid = 1 /\ (NoSvid \/ crashes + failures = 0)
=============================================================================
