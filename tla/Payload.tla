------------------------------ MODULE Payload ------------------------------
(***************************************************************************)
(* What the MCP pipeline does to the arguments and the result of a tool    *)
(* call (presidium_contrib/mcp_gateway/redaction.py and pii.py).  A        *)
(* payload is the set of its leaves: what a leaf holds, and where it is.   *)
(*                                                                         *)
(*   "plain"      a string, in a dictionary or a list at any depth         *)
(*   "sensitive"  under a key that looks like a credential's name          *)
(*   "nested"     in a list that is itself an item of a list               *)
(***************************************************************************)
Contents == {"words", "credential", "personal", "redacted", "masked"}

Spots == {"plain", "sensitive", "nested"}

Payloads == SUBSET [holds : Contents, spot : Spots]

\* What agents send and tools answer.  Only what the pipeline itself put in a
\* leaf's place is "redacted" or "masked"; a text that reads like it is words.
Unprocessed == SUBSET [holds : {"words", "credential", "personal"}, spot : Spots]

\* redact_dict: a list inside a list is passed on as it is.
RedactedLeaf(leaf) ==
    IF leaf.spot = "sensitive" \/ (leaf.spot = "plain" /\ leaf.holds = "credential")
    THEN [leaf EXCEPT !.holds = "redacted"]
    ELSE leaf

Redacted(payload) == {RedactedLeaf(leaf) : leaf \in payload}

\* scan_dict looks into every list ...
HoldsPersonal(payload) == \E leaf \in payload : leaf.holds = "personal"

\* ... mask_dict, like redact_dict, does not.
MaskedLeaf(leaf) ==
    IF leaf.spot # "nested" /\ leaf.holds = "personal"
    THEN [leaf EXCEPT !.holds = "masked"]
    ELSE leaf

Masked(payload) == {MaskedLeaf(leaf) : leaf \in payload}
=============================================================================
