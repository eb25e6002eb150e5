---------------------- MODULE RepDirectorySafetyProofs ----------------------
(***************************************************************************)
(* What overlapping requests can never do to the directory, proved for     *)
(* every value of the constants on top of Control (RepDirectoryProofs).    *)
(*                                                                         *)
(* Safe is the inductive invariant.  Its parts hold each other up: a       *)
(* created Rep stays pending because no handler holds a copy of it that is *)
(* not (PendingCopies), which a new Rep starts with because nothing was    *)
(* ever told of a row that does not exist (TenantIsolation).               *)
(***************************************************************************)
EXTENDS RepDirectoryProofs

(* Whoever has loaded a created Rep has loaded a pending one. *)
PendingCopies ==
    \A q \in Requests :
        /\ req[q].pc \in {"found", "saving"}
        /\ req[q].copy # Null
        /\ IsCreated(req[q].rep)
        => req[q].copy.status = "PENDING_APPROVAL"

Safe ==
    /\ Control
    /\ KeysStayUnique
    /\ Hierarchy
    /\ TenantIsolation
    /\ CreatedComesFirst
    /\ CreatedStaysPending
    /\ PendingCopies

-----------------------------------------------------------------------------
(***************************************************************************)
(* The shape of a step.                                                    *)
(***************************************************************************)

(* Until the last transaction of a request the tables stay as they are.    *)
LEMMA OnlySavesWrite ==
    ASSUME [Next]_vars
    PROVE  \/ UNCHANGED <<reps, outbox>>
           \/ \E q \in Requests : Save(q)
           \/ UNCHANGED reps /\ \E q \in Requests : SaveRelationship(q)
<1>1. CASE UNCHANGED vars
  BY <1>1 DEF vars
<1>2. ASSUME NEW q \in Requests,
             \/ \E t \in Tenants, r \in RepIds : FindById(q, t, r)
             \/ \E t \in Tenants, i \in PersonalInfos, b \in BusinessInfos \cup {Null},
                   u \in RepIds \cup {Null} : CreateRep(q, t, i, b, u)
      PROVE  UNCHANGED <<reps, outbox>>
  BY <1>2 DEF FindById, CreateRep
<1>3. ASSUME NEW q \in Requests,
             \/ \E i \in PersonalInfos : UpdatePersonalInfo(q, i)
             \/ \E b \in BusinessInfos \cup {Null} : UpdateBusinessInfo(q, b)
             \/ \E a \in AccessControl : UpdateAccessControl(q, a)
             \/ SoftDeleteRep(q)
             \/ RestoreRep(q)
             \/ \E s \in Subs : LinkKeycloakAccount(q, s)
             \/ LinkRepToGroup(q)
      PROVE  UNCHANGED <<reps, outbox>>
  BY <1>3 DEF UpdatePersonalInfo, UpdateBusinessInfo, UpdateAccessControl,
              SoftDeleteRep, RestoreRep, LinkKeycloakAccount,
              LinkRepToGroup, Mutated
<1>4. ASSUME NEW q \in Requests, HandlerThrows(q) \/ SaveConflicts(q) \/ Fail(q)
      PROVE  UNCHANGED <<reps, outbox>>
  BY <1>4 DEF HandlerThrows, SaveConflicts, Fail
<1>5. ASSUME NEW q \in Requests, SaveRelationship(q) PROVE UNCHANGED reps
  BY <1>5 DEF SaveRelationship
<1> QED
  BY <1>1, <1>2, <1>3, <1>4, <1>5 DEF Next, HandlerStep

(* The transaction that writes events adds at most its own, at the end.    *)
LEMMA AddsItsEvent ==
    ASSUME Control, NEW q \in Requests, Save(q) \/ SaveRelationship(q)
    PROVE  /\ req[q].rep \in RepIds
           /\ \A r \in RepIds \ {req[q].rep} : outbox'[r] = outbox[r]
           /\ \/ UNCHANGED outbox
              \/ /\ req[q].event \in Event
                 /\ req[q].event.tenant = req[q].tenant
                 /\ req[q].event.type = "RepCreated" <=> req[q].op = "CreateRep"
                 /\ outbox[req[q].rep] \in Seq(Event)
                 /\ outbox'[req[q].rep] =
                        Append(outbox[req[q].rep], req[q].event)
<1>1. req[q].pc = "saving" /\ WriteAll(q)
  BY DEF Save, SaveRelationship
<1>2. /\ req[q].rep \in RepIds
      /\ HoldsEvent(q)
      /\ req[q].event \in Event \cup {Null}
      /\ outbox \in [RepIds -> Seq(Event)]
  BY <1>1 DEF Control, Phase, TypeOK, Request
<1>3. CASE req[q].event = Null
  BY <1>1, <1>2, <1>3 DEF WriteAll
<1>4. CASE req[q].event # Null
  <2>1. outbox' = [outbox EXCEPT ![req[q].rep] = Append(@, req[q].event)]
    BY <1>1, <1>4 DEF WriteAll
  <2>2. /\ outbox'[req[q].rep] = Append(outbox[req[q].rep], req[q].event)
        /\ \A r \in RepIds \ {req[q].rep} : outbox'[r] = outbox[r]
    BY <1>2, <2>1
  <2> QED
    BY <1>2, <1>4, <2>2 DEF HoldsEvent
<1> QED
  BY <1>3, <1>4

-----------------------------------------------------------------------------
(***************************************************************************)
(* The rows.                                                               *)
(***************************************************************************)

(* The unique indexes are checked against the rows as they are at commit,  *)
(* with the tenant the row really has.                                     *)
LEMMA KeysStep ==
    ASSUME Control, KeysStayUnique, [Next]_vars
    PROVE  KeysStayUnique'
<1>1. CASE UNCHANGED reps
  BY <1>1 DEF KeysStayUnique, UniqueKeys
<1>2. ASSUME NEW q \in Requests, Save(q) PROVE KeysStayUnique'
  <2> DEFINE new == req[q].rep
  <2>1. /\ req[q].pc = "saving" /\ req[q].op # "LinkRepToGroup"
        /\ ~EmailTaken(q) /\ ~SubTaken(q)
    BY <1>2 DEF Save
  <2>2. /\ new \in RepIds
        /\ Stored(q).personalInfo = req[q].copy.personalInfo
        /\ Stored(q).sub = req[q].copy.sub
        /\ Stored(q).tenant = req[q].tenant
    BY <2>1, StoredType
  <2>3. /\ reps'[new] = Stored(q)
        /\ \A r \in RepIds \ {new} : reps'[r] = reps[r]
    BY <1>2, SaveKeepsIdentity
  <2>4. ASSUME NEW s \in RepIds \ {new}, reps'[s] # Null
        PROVE  /\ reps'[s].personalInfo.email # reps'[new].personalInfo.email
               /\ \/ reps'[s].tenant # reps'[new].tenant
                  \/ reps'[new].sub = Null
                  \/ reps'[s].sub # reps'[new].sub
    BY <2>1, <2>2, <2>3, <2>4 DEF EmailTaken, SubTaken
  <2>5. ASSUME NEW r \in RepIds, NEW s \in RepIds, r # s,
               reps'[r] # Null, reps'[s] # Null
        PROVE  /\ reps'[r].personalInfo.email # reps'[s].personalInfo.email
               /\ \/ reps'[r].tenant # reps'[s].tenant
                  \/ reps'[r].sub = Null
                  \/ reps'[r].sub # reps'[s].sub
    <3>1. CASE r = new
      BY <2>4, <2>5, <3>1
    <3>2. CASE s = new
      BY <2>4, <2>5, <3>2
    <3>3. CASE r # new /\ s # new
      BY <2>3, <2>5, <3>3 DEF KeysStayUnique, UniqueKeys
    <3> QED
      BY <3>1, <3>2, <3>3
  <2> QED
    BY <2>5 DEF KeysStayUnique, UniqueKeys
<1> QED
  BY <1>1, <1>2, OnlySavesWrite

(* A Rep that is created is below a Rep that still is there, and nobody is *)
(* below the new one yet; nothing else touches the hierarchy.              *)
LEMMA HierarchyStep ==
    ASSUME Control, Hierarchy, [Next]_vars
    PROVE  Hierarchy'
<1>1. CASE UNCHANGED reps
  BY <1>1 DEF Hierarchy, UplineInTenant, NoUplineCycle
<1>2. ASSUME NEW q \in Requests, Save(q) PROVE Hierarchy'
  <2> DEFINE new == req[q].rep
  <2>1. req[q].pc = "saving" /\ req[q].op # "LinkRepToGroup"
    BY <1>2 DEF Save
  <2>2. /\ new \in RepIds /\ Stored(q) # Null /\ Stored(q) \in Rep
        /\ Stored(q).tenant = req[q].tenant
        /\ Stored(q).upline = req[q].copy.upline
    BY <2>1, StoredType
  <2>3. /\ reps'[new] = Stored(q)
        /\ \A r \in RepIds \ {new} : reps'[r] = reps[r]
        /\ IdentityKept
    BY <1>2, SaveKeepsIdentity
  <2>4. reps \in [RepIds -> Rep \cup {Null}]
    BY DEF Control, TypeOK
  <2>5. ASSUME NEW r \in RepIds, reps[r] # Null, reps[r].upline # Null
        PROVE  reps[r].upline \in RepIds /\ reps[reps[r].upline] # Null
    BY <2>4, <2>5 DEF Hierarchy, UplineInTenant, Rep
  <2>6. CASE reps[new] # Null
    <3>1. \A r \in RepIds : (reps'[r] = Null) <=> (reps[r] = Null)
      BY <2>2, <2>3, <2>6
    <3>2. \A r \in RepIds : reps[r] # Null =>
            /\ reps'[r].tenant = reps[r].tenant
            /\ reps'[r].upline = reps[r].upline
      BY <2>3 DEF IdentityKept
    <3>3. UplineInTenant(reps')
      BY <2>5, <3>1, <3>2 DEF Hierarchy, UplineInTenant
    <3>4. NoUplineCycle(reps')
      BY <3>1, <3>2 DEF Hierarchy, NoUplineCycle
    <3> QED
      BY <3>3, <3>4 DEF Hierarchy
  <2>7. CASE reps[new] = Null
    <3>1. \/ req[q].copy.upline = Null
          \/ Visible(req[q].tenant, req[q].copy.upline)
      BY <2>1, <2>7, StoredType DEF HoldsNewRep
    <3>2. Stored(q).upline \in RepIds \cup {Null}
      BY <2>2 DEF Rep
    <3>3. ASSUME NEW r \in RepIds, reps'[r] # Null, reps'[r].upline # Null
          PROVE  /\ reps'[r].upline \in RepIds \ {new}
                 /\ reps[reps'[r].upline] # Null
                 /\ reps[reps'[r].upline].tenant = reps'[r].tenant
      <4>1. CASE r = new
        BY <2>2, <2>3, <2>7, <3>1, <3>2, <3>3, <4>1 DEF Visible
      <4>2. CASE r # new
        BY <2>3, <2>5, <2>7, <3>3, <4>2 DEF Hierarchy, UplineInTenant
      <4> QED
        BY <4>1, <4>2
    <3>4. UplineInTenant(reps')
      BY <2>3, <3>3 DEF UplineInTenant
    <3>5. ASSUME NEW S \in SUBSET RepIds, S # {},
                 \A r \in S : reps'[r] # Null /\ reps'[r].upline \in S
          PROVE  FALSE
      <4>1. Null \notin RepIds
        BY NullAssumption
      <4>2. \A r \in S : reps'[r].upline \in S \ {new}
        BY <3>3, <3>5, <4>1
      <4>3. S \ {new} # {}
        BY <3>5, <4>2
      <4>4. \A r \in S \ {new} : reps[r] # Null /\ reps[r].upline \in S \ {new}
        BY <2>3, <3>5, <4>2
      <4> QED
        BY <4>3, <4>4 DEF Hierarchy, NoUplineCycle
    <3>6. NoUplineCycle(reps')
      BY <3>5 DEF NoUplineCycle
    <3> QED
      BY <3>4, <3>6 DEF Hierarchy
  <2> QED
    BY <2>6, <2>7
<1> QED
  BY <1>1, <1>2, OnlySavesWrite

-----------------------------------------------------------------------------
(***************************************************************************)
(* The requests and the outbox.                                            *)
(***************************************************************************)

(* A 2xx is only ever given by the transaction that saved, and a request   *)
(* that was given one does nothing more.                                   *)
LEMMA SuccessFollowsSave ==
    ASSUME Control, [Next]_vars, NEW q \in Requests, req'[q].resp = "2xx"
    PROVE  /\ req'[q].tenant = req[q].tenant
           /\ req'[q].rep = req[q].rep
           /\ \/ req[q].resp = "2xx"
              \/ Save(q)
              \/ SaveRelationship(q)
<1>1. req[q] \in Request /\ req \in [Requests -> Request]
  BY DEF Control, TypeOK
<1>2. CASE UNCHANGED vars
  BY <1>2 DEF vars
<1>3. Null # "2xx"
  BY NullIsApartAssumption DEF Resp
<1>4. ASSUME NEW p \in Requests, NEW t \in Tenants, NEW r \in RepIds,
             FindById(p, t, r)
      PROVE  req'[q] = req[q]
  BY <1>1, <1>3, <1>4 DEF FindById, Idle
<1>5. ASSUME NEW p \in Requests, NEW t \in Tenants, NEW i \in PersonalInfos,
             NEW b \in BusinessInfos \cup {Null}, NEW u \in RepIds \cup {Null},
             CreateRep(p, t, i, b, u)
      PROVE  req'[q] = req[q]
  BY <1>1, <1>3, <1>5 DEF CreateRep, Idle
<1>6. ASSUME NEW p \in Requests, NEW op, NEW rep, NEW event,
             Mutated(p, op, rep, event)
      PROVE  /\ req'[q].tenant = req[q].tenant
             /\ req'[q].rep = req[q].rep
             /\ req'[q].resp = req[q].resp
  BY <1>1, <1>6 DEF Mutated, Request
<1>7. ASSUME NEW p \in Requests, NEW resp, Answer(p, resp)
      PROVE  /\ req'[q].tenant = req[q].tenant
             /\ req'[q].rep = req[q].rep
             /\ req'[q].resp = IF p = q THEN resp ELSE req[q].resp
  BY <1>1, <1>7 DEF Answer, Request
<1>8. ASSUME NEW p \in Requests,
             \/ \E i \in PersonalInfos : UpdatePersonalInfo(p, i)
             \/ \E b \in BusinessInfos \cup {Null} : UpdateBusinessInfo(p, b)
             \/ \E a \in AccessControl : UpdateAccessControl(p, a)
             \/ SoftDeleteRep(p)
             \/ RestoreRep(p)
             \/ \E s \in Subs : LinkKeycloakAccount(p, s)
             \/ LinkRepToGroup(p)
      PROVE  /\ req'[q].tenant = req[q].tenant
             /\ req'[q].rep = req[q].rep
             /\ req'[q].resp = req[q].resp
  BY <1>6, <1>8
  DEF UpdatePersonalInfo, UpdateBusinessInfo, UpdateAccessControl,
      SoftDeleteRep, RestoreRep, LinkKeycloakAccount, LinkRepToGroup
<1>9. ASSUME NEW p \in Requests, HandlerThrows(p) \/ SaveConflicts(p) \/ Fail(p)
       PROVE  /\ req'[q].tenant = req[q].tenant
              /\ req'[q].rep = req[q].rep
              /\ req'[q].resp = req[q].resp
  <2>1. \E resp \in {"5xx", "409"} : Answer(p, resp)
    BY <1>9 DEF HandlerThrows, SaveConflicts, Fail
  <2> QED
    BY <1>7, <2>1
<1>10. ASSUME NEW p \in Requests, Save(p) \/ SaveRelationship(p)
       PROVE  /\ req'[q].tenant = req[q].tenant
              /\ req'[q].rep = req[q].rep
              /\ p = q \/ req'[q].resp = req[q].resp
  <2>1. \E resp \in {"2xx", "5xx"} : Answer(p, resp)
    BY <1>10 DEF Save, SaveRelationship
  <2> QED
    BY <1>7, <2>1
<1> QED
  BY <1>2, <1>4, <1>5, <1>8, <1>9, <1>10 DEF Next, HandlerStep

(* What a step does to the outbox of one Rep.                              *)
LEMMA NewEvents ==
    ASSUME Control, [Next]_vars, NEW r \in RepIds
    PROVE  /\ outbox[r] \in Seq(Event)
           /\ \/ outbox'[r] = outbox[r]
              \/ \E q \in Requests :
                    /\ Save(q) \/ SaveRelationship(q)
                    /\ req[q].rep = r
                    /\ req[q].event \in Event
                    /\ req[q].event.tenant = req[q].tenant
                    /\ (req[q].event.type = "RepCreated")
                            <=> (req[q].op = "CreateRep")
                    /\ outbox'[r] = Append(outbox[r], req[q].event)
<1>1. outbox[r] \in Seq(Event)
  BY DEF Control, TypeOK
<1>2. ASSUME NEW q \in Requests, Save(q) \/ SaveRelationship(q),
             outbox'[r] # outbox[r]
      PROVE  /\ req[q].rep = r
             /\ req[q].event \in Event
             /\ req[q].event.tenant = req[q].tenant
             /\ (req[q].event.type = "RepCreated")
                    <=> (req[q].op = "CreateRep")
             /\ outbox'[r] = Append(outbox[r], req[q].event)
  BY <1>2, AddsItsEvent
<1> QED
  BY <1>1, <1>2, OnlySavesWrite

(* The Rep of a transaction that saves is its tenant's when it commits.    *)
LEMMA SavedIsVisible ==
    ASSUME Control, NEW q \in Requests, Save(q) \/ SaveRelationship(q)
    PROVE  /\ reps'[req[q].rep] # Null
           /\ reps'[req[q].rep].tenant = req[q].tenant
<1>1. CASE Save(q)
  <2>1. req[q].pc = "saving" /\ req[q].op # "LinkRepToGroup"
    BY <1>1 DEF Save
  <2> QED
    BY <1>1, <2>1, SaveKeepsIdentity, StoredType
<1>2. CASE SaveRelationship(q)
  <2>1. req[q].pc = "saving" /\ req[q].op = "LinkRepToGroup" /\ UNCHANGED reps
    BY <1>2 DEF SaveRelationship
  <2> QED
    BY <2>1 DEF Control, Phase, Visible
<1> QED
  BY <1>1, <1>2

(* Only the tenant of a Rep's row is ever told, or tells, of that Rep.     *)
LEMMA TenantStep ==
    ASSUME Control, TenantIsolation, [Next]_vars
    PROVE  TenantIsolation'
<1>1. Control' /\ IdentityKept
  BY ControlStep
<1>2. ASSUME NEW q \in Requests
      PROVE  /\ req'[q].copy # Null => req'[q].copy.tenant = req'[q].tenant
             /\ req'[q].event # Null => req'[q].event.tenant = req'[q].tenant
  BY <1>1 DEF Control, TypeOK, Request, Phase, HoldsCopy, HoldsNewRep,
              HoldsEvent
<1>3. ASSUME NEW r \in RepIds, NEW t, Visible(t, r)
      PROVE  reps'[r] # Null /\ reps'[r].tenant = t
  BY <1>1, <1>3 DEF Visible, IdentityKept
<1>4. ASSUME NEW q \in Requests, req'[q].resp = "2xx"
      PROVE  Visible(req[q].tenant, req[q].rep)'
  <2>1. CASE req[q].resp = "2xx"
    <3>1. Visible(req[q].tenant, req[q].rep)
      BY <2>1 DEF TenantIsolation
    <3>2. req[q].rep \in RepIds
      BY <2>1, NullIsApartAssumption
      DEF Control, TypeOK, Request, Phase, Resp
    <3> QED
      BY <1>3, <1>4, <3>1, <3>2, SuccessFollowsSave DEF Visible
  <2>2. CASE Save(q) \/ SaveRelationship(q)
    BY <1>4, <2>2, SavedIsVisible, SuccessFollowsSave DEF Visible
  <2> QED
    BY <1>4, <2>1, <2>2, SuccessFollowsSave
<1>5. ASSUME NEW r \in RepIds, NEW i \in DOMAIN outbox'[r]
      PROVE  Visible(outbox[r][i].tenant, r)'
  <2>1. CASE i \in DOMAIN outbox[r] /\ outbox'[r][i] = outbox[r][i]
    BY <1>3, <2>1 DEF TenantIsolation, Visible
  <2>2. ASSUME NEW q \in Requests, Save(q) \/ SaveRelationship(q),
               req[q].rep = r, outbox[r] \in Seq(Event),
               req[q].event.tenant = req[q].tenant,
               outbox'[r] = Append(outbox[r], req[q].event)
        PROVE  Visible(outbox[r][i].tenant, r)'
    <3>1. CASE i = Len(outbox[r]) + 1
      <4>1. outbox'[r][i] = req[q].event
        BY <2>2, <3>1
      <4> QED
        BY <2>2, <4>1, SavedIsVisible DEF Visible
    <3>2. CASE i # Len(outbox[r]) + 1
      <4>1. i \in DOMAIN outbox[r] /\ outbox'[r][i] = outbox[r][i]
        BY <1>5, <2>2, <3>2
      <4> QED
        BY <2>1, <4>1
    <3> QED
      BY <3>1, <3>2
  <2> QED
    BY <1>5, <2>1, <2>2, NewEvents
<1> QED
  BY <1>2, <1>4, <1>5 DEF TenantIsolation

(* Nothing was ever told of a row that does not exist.                     *)
LEMMA CreatedExists ==
    ASSUME Control, TenantIsolation, NEW r \in RepIds, reps[r] = Null
    PROVE  outbox[r] = <<>> /\ ~IsCreated(r)
<1>1. outbox[r] \in Seq(Event)
  BY DEF Control, TypeOK
<1>2. DOMAIN outbox[r] = {}
  BY DEF TenantIsolation, Visible
<1>3. DOMAIN outbox[r] = 1 .. Len(outbox[r]) /\ Len(outbox[r]) \in Nat
  BY <1>1
<1>4. Len(outbox[r]) = 0
  <2>1. Len(outbox[r]) > 0 => 1 \in DOMAIN outbox[r]
    BY <1>3
  <2> QED
    BY <1>2, <1>3, <2>1
<1>5. outbox[r] = <<>>
  BY <1>1, <1>4
<1> QED
  BY <1>2, <1>5 DEF IsCreated

(* A transaction that saves creates a row exactly if it is a create's.     *)
LEMMA CreatesFillEmptyRows ==
    ASSUME Control, NEW q \in Requests, Save(q) \/ SaveRelationship(q)
    PROVE  (req[q].op = "CreateRep") <=> (reps[req[q].rep] = Null)
<1>1. req[q].pc = "saving"
  BY DEF Save, SaveRelationship
<1> QED
  BY <1>1 DEF Control, Phase, HoldsNewRep, HoldsCopy, Visible

(* How a Rep becomes one that was created: its first event is RepCreated.  *)
LEMMA BecomesCreated ==
    ASSUME Control, TenantIsolation, [Next]_vars, NEW r \in RepIds,
           IsCreated(r)'
    PROVE  \/ IsCreated(r)
           \/ \E q \in Requests :
                /\ Save(q) /\ req[q].op = "CreateRep" /\ req[q].rep = r
                /\ reps[r] = Null
<1>1. CASE outbox'[r] = outbox[r]
  BY <1>1 DEF IsCreated
<1>2. ASSUME NEW q \in Requests, Save(q) \/ SaveRelationship(q),
             req[q].rep = r, outbox[r] \in Seq(Event),
             (req[q].event.type = "RepCreated") <=> (req[q].op = "CreateRep"),
             outbox'[r] = Append(outbox[r], req[q].event), ~IsCreated(r)
      PROVE  Save(q) /\ req[q].op = "CreateRep" /\ reps[r] = Null
  <2>1. PICK i \in DOMAIN outbox'[r] : outbox'[r][i].type = "RepCreated"
    BY DEF IsCreated
  <2>2. ~(i \in DOMAIN outbox[r] /\ outbox'[r][i] = outbox[r][i])
    BY <1>2, <2>1 DEF IsCreated
  <2>3. i = Len(outbox[r]) + 1 /\ outbox'[r][i] = req[q].event
    BY <1>2, <2>1, <2>2
  <2>4. req[q].op = "CreateRep"
    BY <1>2, <2>1, <2>3
  <2> QED
    BY <1>2, <2>4, CreatesFillEmptyRows DEF SaveRelationship
<1> QED
  BY <1>1, <1>2, NewEvents

(* RepCreated is the first thing told of a created Rep, and told once.     *)
LEMMA CreatedFirstStep ==
    ASSUME Control, TenantIsolation, CreatedComesFirst, [Next]_vars
    PROVE  CreatedComesFirst'
<1> SUFFICES ASSUME NEW r \in RepIds, IsCreated(r)',
                    NEW i \in DOMAIN outbox'[r]
             PROVE  (outbox'[r][i].type = "RepCreated") <=> (i = 1)
  BY DEF CreatedComesFirst
<1>1. CASE outbox'[r] = outbox[r]
  BY <1>1 DEF CreatedComesFirst, IsCreated
<1>2. ASSUME NEW q \in Requests, Save(q) \/ SaveRelationship(q),
             req[q].rep = r, outbox[r] \in Seq(Event),
             (req[q].event.type = "RepCreated") <=> (req[q].op = "CreateRep"),
             outbox'[r] = Append(outbox[r], req[q].event)
      PROVE  (outbox'[r][i].type = "RepCreated") <=> (i = 1)
  <2>1. CASE reps[r] = Null
    <3>1. outbox[r] = <<>> /\ req[q].op = "CreateRep"
      BY <1>2, <2>1, CreatedExists, CreatesFillEmptyRows
    <3> QED
      BY <1>2, <3>1
  <2>2. CASE reps[r] # Null
    <3>1. IsCreated(r) /\ req[q].event.type # "RepCreated"
      BY <1>2, <2>2, BecomesCreated, CreatesFillEmptyRows
    <3>2. Len(outbox[r]) # 0
      BY <1>2, <3>1 DEF IsCreated
    <3>3. CASE i = Len(outbox[r]) + 1
      BY <1>2, <3>1, <3>2, <3>3
    <3>4. CASE i # Len(outbox[r]) + 1
      <4>1. i \in DOMAIN outbox[r] /\ outbox'[r][i] = outbox[r][i]
        BY <1>2, <3>4
      <4> QED
        BY <3>1, <4>1 DEF CreatedComesFirst
    <3> QED
      BY <3>3, <3>4
  <2> QED
    BY <2>1, <2>2
<1> QED
  BY <1>1, <1>2, NewEvents

-----------------------------------------------------------------------------
(***************************************************************************)
(* Created Reps stay pending.                                              *)
(***************************************************************************)

(* What a request that does not move has loaded of a created Rep.          *)
LEMMA WaitingCopies ==
    ASSUME Control, TenantIsolation, PendingCopies, [Next]_vars,
           NEW q \in Requests, req'[q] = req[q],
           req[q].pc \in {"found", "saving"}, req[q].copy # Null,
           NEW r, r = req[q].rep, IsCreated(r)'
    PROVE  req[q].copy.status = "PENDING_APPROVAL"
<1>1. req[q].rep \in RepIds
  BY DEF Control, Phase
<1>2. CASE IsCreated(req[q].rep)
  BY <1>2 DEF PendingCopies
<1>3. ASSUME NEW p \in Requests, Save(p), req[p].op = "CreateRep",
             req[p].rep = req[q].rep, reps[req[q].rep] = Null
      PROVE  FALSE
  <2>1. req[q].pc = "saving" /\ req[q].op = "CreateRep"
    BY <1>3 DEF Control, Phase, HoldsCopy, Visible
  <2>2. p = q
    BY <1>3, <2>1 DEF Control, CreatesDiffer
  <2>3. req'[q].pc = "done"
    BY <1>3, <2>2 DEF Save, Answer, Control, TypeOK, Request
  <2> QED
    BY <2>1, <2>3
<1> QED
  BY <1>1, <1>2, <1>3, BecomesCreated

(* No handler turns a pending copy into another.  softDelete() and         *)
(* restore() ask for the status of the copy itself.                        *)
LEMMA MutatedPending ==
    ASSUME Control, PendingCopies, NEW q \in Requests,
           \/ \E i \in PersonalInfos : UpdatePersonalInfo(q, i)
           \/ \E b \in BusinessInfos \cup {Null} : UpdateBusinessInfo(q, b)
           \/ \E a \in AccessControl : UpdateAccessControl(q, a)
           \/ SoftDeleteRep(q)
           \/ RestoreRep(q)
           \/ \E s \in Subs : LinkKeycloakAccount(q, s)
           \/ LinkRepToGroup(q)
    PROVE  /\ req'[q].rep = req[q].rep
           /\ req'[q].copy # Null /\ IsCreated(req[q].rep) =>
                req'[q].copy.status = "PENDING_APPROVAL"
<1>1. ASSUME NEW op, NEW rep, NEW event, Mutated(q, op, rep, event)
      PROVE  /\ req[q].pc = "found"
             /\ req'[q].rep = req[q].rep
             /\ req'[q].copy = rep
  BY <1>1 DEF Mutated, Control, TypeOK, Request
<1>2. ASSUME req[q].pc = "found", IsCreated(req[q].rep)
      PROVE  /\ req[q].copy.status = "PENDING_APPROVAL"
             /\ Loaded(q) \in Rep
             /\ Loaded(q).status = "PENDING_APPROVAL"
  <2>1. req[q].copy \in Rep /\ req[q].copy # Null
    BY <1>2, NullAssumption DEF Control, Phase, HoldsCopy
  <2>2. Loaded(q) \in Rep
    BY <1>2, LoadedType DEF SameIdentity
  <2> QED
    BY <1>2, <2>1, <2>2 DEF PendingCopies, Loaded, Rep
<1>3. ASSUME NEW i \in PersonalInfos, UpdatePersonalInfo(q, i)
      PROVE  /\ req'[q].rep = req[q].rep
             /\ IsCreated(req[q].rep) =>
                    req'[q].copy.status = "PENDING_APPROVAL"
  BY <1>1, <1>2, <1>3 DEF UpdatePersonalInfo, WithPersonalInfo, Rep
<1>4. ASSUME NEW b \in BusinessInfos \cup {Null}, UpdateBusinessInfo(q, b)
      PROVE  /\ req'[q].rep = req[q].rep
             /\ IsCreated(req[q].rep) =>
                    req'[q].copy.status = "PENDING_APPROVAL"
  BY <1>1, <1>2, <1>4 DEF UpdateBusinessInfo, WithBusinessInfo, Rep
<1>5. ASSUME NEW a \in AccessControl, UpdateAccessControl(q, a)
      PROVE  /\ req'[q].rep = req[q].rep
             /\ IsCreated(req[q].rep) =>
                    req'[q].copy.status = "PENDING_APPROVAL"
  BY <1>1, <1>2, <1>5 DEF UpdateAccessControl, WithAccessControl, Rep
<1>6. ASSUME NEW s \in Subs, LinkKeycloakAccount(q, s)
      PROVE  /\ req'[q].rep = req[q].rep
             /\ IsCreated(req[q].rep) =>
                    req'[q].copy.status = "PENDING_APPROVAL"
  BY <1>1, <1>2, <1>6 DEF LinkKeycloakAccount, WithKeycloakAccount, Rep
<1>7. CASE SoftDeleteRep(q) \/ RestoreRep(q)
  BY <1>1, <1>2, <1>7 DEF SoftDeleteRep, RestoreRep, CanSoftDelete, CanRestore
<1>8. CASE LinkRepToGroup(q)
  BY <1>1, <1>8 DEF LinkRepToGroup
<1> QED
  BY <1>3, <1>4, <1>5, <1>6, <1>7, <1>8

(* A step that leaves the tables alone creates no Rep. *)
LEMMA CreatedFrame ==
    ASSUME UNCHANGED outbox, NEW r, IsCreated(r)'
    PROVE  IsCreated(r)
BY DEF IsCreated

LEMMA PendingCopiesStep ==
    ASSUME Control, TenantIsolation, CreatedStaysPending, PendingCopies,
           [Next]_vars
    PROVE  PendingCopies'
<1> SUFFICES ASSUME NEW q \in Requests, NEW r, r = req'[q].rep, IsCreated(r)',
                    req'[q].pc \in {"found", "saving"}, req'[q].copy # Null
             PROVE  req'[q].copy.status = "PENDING_APPROVAL"
  BY DEF PendingCopies, IsCreated
<1>1. req \in [Requests -> Request]
  BY DEF Control, TypeOK
<1>2. CASE req'[q] = req[q]
  BY <1>2, WaitingCopies
<1> SUFFICES ASSUME req'[q] # req[q]
             PROVE  req'[q].copy.status = "PENDING_APPROVAL"
  BY <1>2
<1>3. ASSUME NEW p \in Requests, NEW t \in Tenants, NEW x \in RepIds,
             FindById(p, t, x)
      PROVE  req'[q].copy.status = "PENDING_APPROVAL"
  <2>1. x = r /\ req'[q].copy = reps[r]
    BY <1>1, <1>3 DEF FindById, Idle
  <2>2. IsCreated(r)
    BY <1>3, CreatedFrame DEF FindById
  <2> QED
    BY <2>1, <2>2 DEF CreatedStaysPending
<1>4. ASSUME NEW p \in Requests, NEW t \in Tenants, NEW i \in PersonalInfos,
             NEW b \in BusinessInfos \cup {Null}, NEW u \in RepIds \cup {Null},
             CreateRep(p, t, i, b, u)
      PROVE  req'[q].copy.status = "PENDING_APPROVAL"
  <2>1. req'[q].copy = NewRep(t, i, b, u)
    BY <1>1, <1>4 DEF CreateRep, Idle
  <2> QED
    BY <2>1, NewRepType
<1>5. ASSUME NEW p \in Requests,
             \/ \E i \in PersonalInfos : UpdatePersonalInfo(p, i)
             \/ \E b \in BusinessInfos \cup {Null} : UpdateBusinessInfo(p, b)
             \/ \E a \in AccessControl : UpdateAccessControl(p, a)
             \/ SoftDeleteRep(p)
             \/ RestoreRep(p)
             \/ \E s \in Subs : LinkKeycloakAccount(p, s)
             \/ LinkRepToGroup(p)
      PROVE  req'[q].copy.status = "PENDING_APPROVAL"
  <2>1. UNCHANGED outbox /\ p = q
    BY <1>1, <1>5
    DEF UpdatePersonalInfo, UpdateBusinessInfo, UpdateAccessControl,
        SoftDeleteRep, RestoreRep, LinkKeycloakAccount, LinkRepToGroup,
        Mutated
  <2>2. IsCreated(r)
    BY <2>1, CreatedFrame
  <2>3. req'[q].rep = req[q].rep
    BY <1>5, <2>1, MutatedPending
  <2> QED
    BY <1>5, <2>1, <2>2, <2>3, MutatedPending
<1>6. ASSUME NEW p \in Requests,
             \/ HandlerThrows(p) \/ SaveConflicts(p) \/ Fail(p)
             \/ Save(p) \/ SaveRelationship(p)
      PROVE  req'[q].pc = "done"
  <2>1. \E resp : Answer(p, resp)
    BY <1>6 DEF HandlerThrows, SaveConflicts, Fail, Save, SaveRelationship
  <2> QED
    BY <1>1, <2>1 DEF Answer, Request
<1> QED
  BY <1>3, <1>4, <1>5, <1>6 DEF Next, HandlerStep, vars

LEMMA PendingStep ==
    ASSUME Control, TenantIsolation, CreatedStaysPending, PendingCopies,
           [Next]_vars
    PROVE  CreatedStaysPending'
<1> SUFFICES ASSUME NEW r \in RepIds, IsCreated(r)'
             PROVE  reps'[r].status = "PENDING_APPROVAL"
  BY DEF CreatedStaysPending
<1>1. ASSUME NEW q \in Requests, Save(q), req[q].rep = r
      PROVE  /\ reps'[r].status = req[q].copy.status
             /\ IsCreated(r) => req[q].copy.status = "PENDING_APPROVAL"
             /\ req[q].op = "CreateRep" =>
                    req[q].copy.status = "PENDING_APPROVAL"
  <2>1. req[q].pc = "saving" /\ req[q].op # "LinkRepToGroup"
    BY <1>1 DEF Save
  <2>2. reps'[r].status = req[q].copy.status
    BY <1>1, <2>1, SaveKeepsIdentity, StoredType
  <2>3. req[q].op = "CreateRep" => req[q].copy.status = "PENDING_APPROVAL"
    BY <2>1 DEF Control, Phase, HoldsNewRep
  <2>4. req[q].copy # Null
    BY <2>1, NullAssumption DEF Control, Phase, HoldsCopy, HoldsNewRep
  <2> QED
    BY <1>1, <2>1, <2>2, <2>3, <2>4 DEF PendingCopies
<1>2. CASE IsCreated(r)
  <2>1. reps[r].status = "PENDING_APPROVAL"
    BY <1>2 DEF CreatedStaysPending
  <2>2. ASSUME NEW q \in Requests, Save(q), req[q].rep # r
        PROVE  reps'[r] = reps[r]
    BY <2>2, SaveKeepsIdentity
  <2> QED
    BY <1>1, <1>2, <2>1, <2>2, OnlySavesWrite
<1>3. CASE ~IsCreated(r)
  BY <1>1, <1>3, BecomesCreated
<1> QED
  BY <1>2, <1>3

-----------------------------------------------------------------------------
LEMMA SafeInit == Init => Safe
<1> SUFFICES ASSUME Init PROVE Safe
  OBVIOUS
<1>1. Control
  BY ControlInit
<1>2. KeysStayUnique /\ Hierarchy
  BY SeedAssumption DEF Init, KeysStayUnique, Hierarchy
<1>3. \A r \in RepIds : DOMAIN outbox[r] = {}
  BY DEF Init
<1>4. \A q \in Requests : req[q] = Idle
  BY DEF Init
<1>5. \A r : r \in RepIds => ~IsCreated(r)
  BY <1>3 DEF IsCreated
<1>6. TenantIsolation
  BY <1>3, <1>4, NullIsApartAssumption DEF TenantIsolation, Idle, Resp
<1>7. CreatedComesFirst /\ CreatedStaysPending
  BY <1>5 DEF CreatedComesFirst, CreatedStaysPending
<1>8. PendingCopies
  BY <1>4 DEF PendingCopies, Idle
<1> QED
  BY <1>1, <1>2, <1>6, <1>7, <1>8 DEF Safe

(* All of Safe holds in every state, for any number of requests.           *)
THEOREM SafeAlways == Spec => []Safe
<1>1. Init => Safe
  BY SafeInit
<1>2. Safe /\ [Next]_vars => Safe'
  BY ControlStep, KeysStep, HierarchyStep, TenantStep, CreatedFirstStep,
     PendingStep, PendingCopiesStep DEF Safe
<1> QED
  BY <1>1, <1>2, PTL DEF Spec

(* No two Reps ever share an e-mail, nor two Reps of a tenant a sub.       *)
THEOREM UniqueKeysTheorem == Spec => []KeysStayUnique
<1>1. Safe => KeysStayUnique
  BY DEF Safe
<1> QED
  BY <1>1, SafeAlways, PTL

(* Concurrent creates below each other's uplines and full-row saves of     *)
(* stale entities never break the forest of Reps or mix tenants in it.     *)
THEOREM HierarchyTheorem == Spec => []Hierarchy
<1>1. Safe => Hierarchy
  BY DEF Safe
<1> QED
  BY <1>1, SafeAlways, PTL

(* What a request loads, writes and is told 2xx about is its tenant's.     *)
THEOREM TenantTheorem == Spec => []TenantIsolation
<1>1. Safe => TenantIsolation
  BY DEF Safe
<1> QED
  BY <1>1, SafeAlways, PTL

(* RepCreated is the first event of a created Rep, and there is only one.  *)
THEOREM CreatedFirstTheorem == Spec => []CreatedComesFirst
<1>1. Safe => CreatedComesFirst
  BY DEF Safe
<1> QED
  BY <1>1, SafeAlways, PTL

(* No interleaving of the handlers brings a created Rep out of             *)
(* PENDING_APPROVAL.                                                       *)
THEOREM PendingTheorem == Spec => []CreatedStaysPending
<1>1. Safe => CreatedStaysPending
  BY DEF Safe
<1> QED
  BY <1>1, SafeAlways, PTL

=============================================================================
