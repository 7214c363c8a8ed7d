-------------------------- MODULE BundleInstallMC --------------------------
(* Bundles for TLC: two revisions of one workflow whose spec changes under *)
(* one key, with two role assets that spell one InstalledAsset; and        *)
(* bundles the device must refuse.                                         *)
EXTENDS BundleInstall

CONSTANTS specKey, coreKey, roleKey, toolKey, v1, v2, model

MCKeys == {specKey, coreKey, roleKey, toolKey}

MCAssetOf == [k \in MCKeys |-> IF k \in {roleKey, toolKey} THEN model ELSE None]

Whole(b) == [body |-> b, len |-> 2]

Short(b) == [body |-> b, len |-> 1]

MCDecayed == {Short(v1), Whole(v1)}

Spec(b) == [kind |-> "workflow_spec", key |-> specKey, pin |-> Whole(b), size |-> 2]
Core    == [kind |-> "trusted_core", key |-> coreKey, pin |-> Short(v1), size |-> 1]
Role    == [kind |-> "role_asset", key |-> roleKey, pin |-> None, size |-> 2]
Tool    == [kind |-> "tool_asset", key |-> toolKey, pin |-> None, size |-> 1]

MCPayloads == {
  <<Role, Spec(v1), Role>>,
  <<Spec(v2), Tool>>,
  <<Core, Spec(v1), [Tool EXCEPT !.kind = "role_v2"]>>,
  <<Spec(v1), [Core EXCEPT !.pin = None]>>,
  <<[Tool EXCEPT !.kind = "runtime"]>>,
  <<Spec(v1), [Tool EXCEPT !.pin = Malformed]>>,
  <<Spec(v1), [Tool EXCEPT !.key = coreKey]>> }
=============================================================================
