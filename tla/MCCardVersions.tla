---------------------------- MODULE MCCardVersions ----------------------------
(* Three versions: 2 and 3 share a schema, 1 has another; each step of the   *)
(* history adds, keeps or removes a capability.                              *)
EXTENDS CardVersions

MCSchemaOf == <<1, 2, 2>>
MCDeclared == <<{"storage"}, {"storage", "network"}, {"network"}>>

=============================================================================
