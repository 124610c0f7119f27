--------------------------- MODULE MCToolGateway ---------------------------
(***************************************************************************)
(* Instances of ToolGateway for TLC: one call of each kind, two            *)
(* definitions of the tool besides the blank one, four documents.          *)
(***************************************************************************)
EXTENDS ToolGateway, TLC

CONSTANTS c1, before, after

AnyKind == c1 :> Kinds

Leaf(holds, spot) == [holds |-> holds, spot |-> spot]

SomeArguments == { {Leaf("words", "plain")},
                   {Leaf("credential", "plain"), Leaf("words", "sensitive")},
                   {Leaf("credential", "nested")} }

SomeResults == { {Leaf("words", "plain")},
                 {Leaf("personal", "plain"), Leaf("words", "plain")},
                 {Leaf("personal", "nested")} }

\* "open" has no rules; "careful" refuses arguments with a credential, asks an
\* approver for the others and withholds what holds personal data; "reviewing"
\* wants results that hold some reviewed, as mcp-gateway.md has it; "odd"
\* answers with a decision presidium does not know, or with none.
SaysOf(document, question) ==
    CASE document = "open" -> NoAnswer
      [] document = "careful" ->
            IF question.stage \in {"pre_tool", "pre_llm"}
            THEN [decision |-> IF \E leaf \in question.parameters : leaf.holds = "credential"
                               THEN "deny" ELSE "require_approval", mode |-> "hard"]
            ELSE [decision |-> IF question.contains THEN "deny" ELSE "allow", mode |-> "hard"]
      [] document = "reviewing" ->
            [decision |-> IF question.contains THEN "require_approval" ELSE "allow",
             mode |-> "hard"]
      [] document = "odd" ->
            [decision |-> IF question.contains THEN "missing" ELSE "block", mode |-> "soon"]
=============================================================================
