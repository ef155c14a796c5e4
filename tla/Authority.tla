----------------------------- MODULE Authority ------------------------------
(***************************************************************************)
(* LUFITGuard.evaluate (src/migi/authority.py): a pure function of the     *)
(* intent's action and consent scope and of what its target is. Of a       *)
(* target only what the guard asks is kept: whether it names a state or a  *)
(* claim, and whether it resolves to a file, inside an allowed root or     *)
(* outside of all of them.                                                 *)
(***************************************************************************)

TreLogic == {"+1", "0", "-1"}

ALLOWED_ACTIONS == {"artifact.inspect", "state.patch", "claim.qualify"}
ARTIFACT_SCOPES == {"local.read", "private.local.read"}
STATE_SCOPES == {"local.state.write", "private.local.state.write"}
CLAIM_SCOPES == {"local.reason", "private.local.reason"}

Target == {"state_ref", "claim_ref", "no_file", "file_outside", "file_inside"}

ReasonCode ==
    {"authority.explicit_consent_required", "target.file_not_available",
     "policy.target_outside_allowed_root", "authority.explicit_local_read",
     "authority.explicit_state_write_required", "policy.invalid_state_target",
     "authority.explicit_local_state_write", "authority.explicit_reasoning_required",
     "policy.invalid_claim_target", "authority.explicit_local_reasoning",
     "policy.action_not_allowlisted"}

Decisions == [tre_logic : TreLogic, reason_code : ReasonCode]

Decision(state, reason) == [tre_logic |-> state, reason_code |-> reason]

EvaluateArtifactInspect(scope, target) ==
    IF scope \notin ARTIFACT_SCOPES
      THEN Decision("0", "authority.explicit_consent_required")
    ELSE IF target \notin {"file_outside", "file_inside"}
      THEN Decision("0", "target.file_not_available")
    ELSE IF target = "file_outside"
      THEN Decision("-1", "policy.target_outside_allowed_root")
    ELSE Decision("+1", "authority.explicit_local_read")

EvaluateStatePatch(scope, target) ==
    IF scope \notin STATE_SCOPES
      THEN Decision("0", "authority.explicit_state_write_required")
    ELSE IF target # "state_ref"
      THEN Decision("-1", "policy.invalid_state_target")
    ELSE Decision("+1", "authority.explicit_local_state_write")

EvaluateClaimQualify(scope, target) ==
    IF scope \notin CLAIM_SCOPES
      THEN Decision("0", "authority.explicit_reasoning_required")
    ELSE IF target # "claim_ref"
      THEN Decision("-1", "policy.invalid_claim_target")
    ELSE Decision("+1", "authority.explicit_local_reasoning")

Evaluate(action, scope, target) ==
    CASE action = "artifact.inspect" -> EvaluateArtifactInspect(scope, target)
      [] action = "state.patch" -> EvaluateStatePatch(scope, target)
      [] action = "claim.qualify" -> EvaluateClaimQualify(scope, target)
      [] OTHER -> Decision("-1", "policy.action_not_allowlisted")

Allowed(decision) == decision.tre_logic = "+1"
=============================================================================
