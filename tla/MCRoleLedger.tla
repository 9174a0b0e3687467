---------------------------- MODULE MCRoleLedger ----------------------------
(***************************************************************************)
(* RoleLedger for TLC, with the values of MCRoleService.                   *)
(***************************************************************************)
EXTENDS MCRoleService, RoleLedger
=============================================================================
