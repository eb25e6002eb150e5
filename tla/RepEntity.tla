------------------------------ MODULE RepEntity ------------------------------
(***************************************************************************)
(* The Rep aggregate of src/src/domain/entities/rep.entity.ts as pure      *)
(* operators: the record a Rep holds, one operator per entity method, and  *)
(* beside every method that can throw its guard (Can...).  The operators   *)
(* are shared by the request-level specification (RepDirectory) and by     *)
(* the abstract one (RepLifecycle).                                        *)
(*                                                                         *)
(* Data is reduced to what the properties tell apart.  Personal and        *)
(* business info are the value objects a request brings, members of small  *)
(* sets of records: the e-mail has a unique index, events carry the names  *)
(* and the e-mail of the one and the business name of the other, and what  *)
(* else they hold (phones, SSN, birth date; tax id, business e-mail) no    *)
(* event carries.  Of that the sets have as many further fields as an      *)
(* instance gives them.  bio, repType and isEliteBlue, which no handler    *)
(* changes, are left out.                                                  *)
(***************************************************************************)
EXTENDS Naturals

CONSTANTS
    Tenants,        \* values of the x-tenant-id header
    RepIds,         \* the uuids a Rep can have
    PersonalInfos,  \* RepPersonalInfo: records with names, email, ...
    BusinessInfos,  \* RepBusinessInfo: records with businessName, ...
    Subs,           \* Keycloak `sub` claims
    Platforms,      \* RepPlatform
    Null            \* SQL NULL / TypeScript null

RepStatus == {"PENDING_APPROVAL", "ACTIVE", "SUSPENDED", "SOFT_DELETED"}

(* A platform of which rep_platform_access has no row is ABSENT: the       *)
(* update replaces the whole list, so entries left out of it disappear.    *)
AccessLevel == {"ENABLED", "DISABLED", "ABSENT"}

AccessControl == [Platforms -> AccessLevel]

(* Mutant: a new Rep gets no access rows at all.                           *)
NoAccessRows == [p \in {} |-> "DISABLED"]

(* defaultForNewRep(): every platform has a row, and it says DISABLED.     *)
DefaultForNewRep == [p \in Platforms |-> "DISABLED"]

(* What events carry of the two value objects.                             *)
PersonalPayload(info) == [names |-> info.names, email |-> info.email]

BusinessPayload(info) == IF info = Null THEN Null ELSE info.businessName

Payloads == {PersonalPayload(info) : info \in PersonalInfos}
    \cup {BusinessPayload(info) : info \in BusinessInfos}
    \cup Subs \cup {Null}

(* A row of `reps` with its access rows, and equally the entity in memory. *)
(* saves stands for updatedAt: the database sets it on every write of the  *)
(* row, findById loads it, and no code compares it.                        *)
Rep == [tenant       : Tenants,
        personalInfo : PersonalInfos,
        businessInfo : BusinessInfos \cup {Null},
        access       : AccessControl,
        status       : RepStatus,
        upline       : RepIds \cup {Null},
        sub          : Subs \cup {Null},
        saves        : Nat]

ASSUME NullAssumption ==
    Null \notin Rep \cup Tenants \cup RepIds \cup BusinessInfos \cup Subs

(***************************************************************************)
(* The methods.                                                            *)
(***************************************************************************)
NewRep(tenant, personalInfo, businessInfo, upline) ==
    [tenant       |-> tenant,
     personalInfo |-> personalInfo,
     businessInfo |-> businessInfo,
     access       |-> DefaultForNewRep,
     status       |-> "PENDING_APPROVAL",
     upline       |-> upline,
     sub          |-> Null,
     saves        |-> 0]

CanApprove(rep) == rep.status \in {"PENDING_APPROVAL", "SUSPENDED"}
Approve(rep) == [rep EXCEPT !.status = "ACTIVE"]

CanSuspend(rep) == rep.status = "ACTIVE"
Suspend(rep) == [rep EXCEPT !.status = "SUSPENDED"]

(* Mutant: softDelete() forgets the pending case.                          *)
CanSoftDeletePending(rep) == rep.status # "SOFT_DELETED"

CanSoftDelete(rep) == rep.status \notin {"SOFT_DELETED", "PENDING_APPROVAL"}
SoftDelete(rep) == [rep EXCEPT !.status = "SOFT_DELETED"]

CanRestore(rep) == rep.status = "SOFT_DELETED"
Restore(rep) == [rep EXCEPT !.status = "ACTIVE"]

WithPersonalInfo(rep, info) == [rep EXCEPT !.personalInfo = info]
WithBusinessInfo(rep, info) == [rep EXCEPT !.businessInfo = info]
WithAccessControl(rep, access) == [rep EXCEPT !.access = access]
WithKeycloakAccount(rep, sub) == [rep EXCEPT !.sub = sub]

=============================================================================
