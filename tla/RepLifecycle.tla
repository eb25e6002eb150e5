---------------------------- MODULE RepLifecycle ----------------------------
(***************************************************************************)
(* What the directory promises about its Reps, with no requests, no        *)
(* transactions and no failures in sight: every Rep moves by one of the    *)
(* entity's methods at a time, and consumers are told of each move by one  *)
(* event in the order of the moves.  It is the state machine that          *)
(* docs/rep-domain-model.md draws together with the events that            *)
(* NATS_EVENT_CONTRACT.md lists, over the entity of RepEntity.             *)
(***************************************************************************)
EXTENDS RepEntity, Sequences

VARIABLES
    rep,    \* the Reps there are
    told    \* per Rep, what its consumers are told

lifecycleVars == <<rep, told>>

Init ==
    /\ rep \in [RepIds -> Rep \cup {Null}]
    /\ told = [r \in RepIds |-> <<>>]

Tell(r, type, value) ==
    told' = [told EXCEPT ![r] = Append(@, [type |-> type, value |-> value])]

Becomes(r, new) ==
    /\ rep[r] # Null
    /\ rep' = [rep EXCEPT ![r] = new]

(* A Rep is born pending, with an e-mail nobody has, below an existing Rep *)
(* of its tenant or below nobody.                                          *)
Create(r, tenant, personalInfo, businessInfo, upline) ==
    /\ rep[r] = Null
    /\ \A s \in RepIds : rep[s] # Null =>
            rep[s].personalInfo.email # personalInfo.email
    /\ \/ upline = Null
       \/ rep[upline] # Null /\ rep[upline].tenant = tenant
    /\ rep' = [rep EXCEPT
            ![r] = NewRep(tenant, personalInfo, businessInfo, upline)]
    /\ Tell(r, "RepCreated", PersonalPayload(personalInfo))

(* Told is what consumers may know of the change, and told it is even if   *)
(* that is nothing new.                                                    *)
ChangePersonalInfo(r, info) ==
    /\ Becomes(r, WithPersonalInfo(rep[r], info))
    /\ \A s \in RepIds \ {r} : rep[s] # Null =>
            rep[s].personalInfo.email # info.email
    /\ Tell(r, "RepPersonalInfoUpdated", PersonalPayload(info))

ChangeBusinessInfo(r, info) ==
    /\ Becomes(r, WithBusinessInfo(rep[r], info))
    /\ Tell(r, "RepBusinessInfoUpdated", BusinessPayload(info))

ChangeAccess(r, access) ==
    /\ Becomes(r, WithAccessControl(rep[r], access))
    /\ UNCHANGED told

ApproveRep(r) ==
    /\ Becomes(r, Approve(rep[r]))
    /\ CanApprove(rep[r])
    /\ Tell(r, "RepApproved", Null)

SuspendRep(r) ==
    /\ Becomes(r, Suspend(rep[r]))
    /\ CanSuspend(rep[r])
    /\ Tell(r, "RepSuspended", Null)

Delete(r) ==
    /\ Becomes(r, SoftDelete(rep[r]))
    /\ CanSoftDelete(rep[r])
    /\ Tell(r, "RepSoftDeleted", Null)

Undelete(r) ==
    /\ Becomes(r, Restore(rep[r]))
    /\ CanRestore(rep[r])
    /\ Tell(r, "RepRestored", Null)

(* A change of sub is told; a sub no other Rep of the tenant has.          *)
LinkAccount(r, sub) ==
    /\ Becomes(r, WithKeycloakAccount(rep[r], sub))
    /\ rep[r].sub # sub
    /\ \A s \in RepIds \ {r} :
        rep[s] # Null /\ rep[s].tenant = rep[r].tenant => rep[s].sub # sub
    /\ Tell(r, "RepKeycloakAccountLinked", sub)

LinkGroup(r) ==
    /\ rep[r] # Null
    /\ Tell(r, "RepGroupLinked", Null)
    /\ UNCHANGED rep

Next == \E r \in RepIds :
    \/ \E t \in Tenants, i \in PersonalInfos, b \in BusinessInfos \cup {Null},
          u \in RepIds \cup {Null} : Create(r, t, i, b, u)
    \/ \E i \in PersonalInfos : ChangePersonalInfo(r, i)
    \/ \E b \in BusinessInfos \cup {Null} : ChangeBusinessInfo(r, b)
    \/ \E a \in AccessControl : ChangeAccess(r, a)
    \/ ApproveRep(r)
    \/ SuspendRep(r)
    \/ Delete(r)
    \/ Undelete(r)
    \/ \E s \in Subs : LinkAccount(r, s)
    \/ LinkGroup(r)

Spec == Init /\ [][Next]_lifecycleVars

=============================================================================
