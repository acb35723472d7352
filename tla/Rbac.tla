-------------------------------- MODULE Rbac --------------------------------
(* The system roles and the permissions seed.py gives them, and the lookup   *)
(* every guarded route makes (app/services/rbac_service.py).                 *)

Roles == {"owner", "admin", "member", "viewer"}

RolePermissions ==
    LET viewer == {"users.read", "projects.read"}
        member == viewer \cup {"projects.write"}
        admin  == member \cup {"users.remove", "invite", "roles.manage",
                               "audit.read", "billing.read"}
    IN  [owner  |-> admin \cup {"org.manage"},
         admin  |-> admin,
         member |-> member,
         viewer |-> viewer]

\* ensure_permission's test, once the membership is found.
Grants(role, permission) == permission \in RolePermissions[role]
=============================================================================
