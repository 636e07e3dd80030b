---------------------------- MODULE MCAdminService ----------------------------
(* TLC instances of AdminService.                                          *)
EXTENDS AdminService

CONSTANTS a1, a2, a3

(* One HEAD, one ADMIN, and a person who has not launched yet.             *)
MCFirstRoles == [a \in Admins |-> CASE a = a1 -> "head"
                                    [] a = a2 -> "admin"
                                    [] OTHER -> None]

=============================================================================
