----------------------------- MODULE MCApproval -----------------------------
(***************************************************************************)
(* Instances of Approval for TLC: r1 and r2 carry the same id.             *)
(***************************************************************************)
EXTENDS Approval, TLC

CONSTANTS r1, r2, r3, i1, i2

TwoShareAnId == r1 :> i1 @@ r2 :> i1 @@ r3 :> i2
OneRequest == r3 :> i2
AllModes == {"auto_approve", "auto_deny", "callback", "manual", "posted"}
PostedOnly == {"posted"}
=============================================================================
