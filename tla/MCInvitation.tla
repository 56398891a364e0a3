---------------------------- MODULE MCInvitation ----------------------------
(* One address, an administrator role that includes the member role, an     *)
(* inviter of either rank, and two calls at a time.                         *)
EXTENDS Invitation, TLC

CONSTANTS admin, member, lead, aide

MCIncludes == (admin :> {member}) @@ (member :> {})
MCStaffRole == (lead :> admin) @@ (aide :> member)

Symmetry == Permutations(Token) \cup Permutations(Call)
=============================================================================
