--------------------------- MODULE MCEnforcement ---------------------------
(***************************************************************************)
(* Instances of Enforcement for TLC.                                       *)
(***************************************************************************)
EXTENDS Enforcement, TLC

CONSTANTS c1, c2, i1, read

OneId == c1 :> i1 @@ c2 :> i1
BothRead == c1 :> read @@ c2 :> read

\* The second call is one of each kind.
ToolAndAny == c1 :> {"execute"} @@ c2 :> Kinds

OneMessage == c1 :> {"message"}
OneTool == c1 :> {"execute", "chat"}
IdOfOne == c1 :> i1
OneReads == c1 :> read

TruthValue(b) == IF b THEN "true" ELSE "false"

\* "raises" reads the first active grant without asking whether there is one.
TruthOf(e, activation) ==
    CASE e = "ungranted" -> TruthValue(activation.resource \notin activation.active)
      [] e = "trusted"   -> TruthValue(activation.trusted)
      [] e = "untrusted" -> TruthValue(~activation.trusted)
      [] e = "flagged"   -> TruthValue(activation.result = "flagged")
      [] e = "always"    -> "true"
      [] e = "raises"    -> IF activation.active = {} THEN "error" ELSE "false"

Rule(stages, expression, decision, enforcement, priority) ==
    [stages |-> stages, expression |-> expression, decision |-> decision,
     mode |-> enforcement, priority |-> priority, enabled |-> TRUE]

After == {"post_tool", "post_llm"}
Ahead == EvaluationStages \ After

AllowAll == Rule(EvaluationStages, "always", "allow", "hard", 0)
EnforceGrants == Rule(EvaluationStages, "ungranted", "deny", "hard", 100)

\* Grants are enforced, and an untrusted agent has to ask.
AskPolicy ==
    << AllowAll, EnforceGrants,
       Rule(Ahead, "untrusted", "require_approval", "hard", 50),
       Rule(After, "flagged", "deny", "hard", 50) >>

\* The same with an expression that raises, and an untrusted agent is refused,
\* which is tried out first.
RefusePolicy ==
    << Rule(EvaluationStages, "raises", "allow", "advisory", 100),
       Rule(Ahead, "untrusted", "deny", "advisory", 50), AllowAll >>

\* One rule does not compile.
BrokenPolicy == << AllowAll, Rule(Ahead, "broken", "deny", "hard", 100) >>

Grant(condition, until) == [resource |-> read, condition |-> condition, until |-> until]
Agent(trusted, grants) == [trusted |-> trusted, grants |-> grants]

\* A grant that ends at 0, one that depends on trust, one for good.
Temporary == Agent(TRUE, {Grant(NoCondition, 0)})
Conditional == Agent(FALSE, {Grant("trusted", Never)})
Untrusted == Agent(FALSE, {Grant(NoCondition, Never)})

AllRecords == {Temporary, Conditional, Untrusted}
AllFiles == {AskPolicy, RefusePolicy, BrokenPolicy}

\* What NothingWithoutGrant supposes of the files; a file that does not compile
\* is never in force.
ASSUME FilesEnforceGrants == \A f \in AllFiles : Compiles(f) => EnforcesGrants(f)
=============================================================================
