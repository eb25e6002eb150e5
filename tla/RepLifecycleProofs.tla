------------------------- MODULE RepLifecycleProofs -------------------------
(***************************************************************************)
(* RepDirectory implements RepLifecycle as long as no save overwrites a    *)
(* row that somebody has saved since it was loaded, and it does so for     *)
(* whole behaviours when requests do not overlap; and however they         *)
(* overlap, a soft delete that everybody has seen lasts until a restore(). *)
(*                                                                         *)
(* FreshCopies says what a handler has made of the row it has loaded.      *)
(* Meant adds what the other two transactions are about to do.  Serial     *)
(* says of MaxInFlight = 1 that nobody saves a row somebody else has       *)
(* loaded.                                                                 *)
(***************************************************************************)
EXTENDS RepDirectoryOutcomeProofs, FiniteSetTheorems, SequenceTheorems

(* A create is about to store the Rep its event tells of, and a link to    *)
(* tell of itself.                                                         *)
Meant(q) ==
    req[q].pc = "saving" =>
        /\ req[q].op = "CreateRep" =>
            \E i \in PersonalInfos, b \in BusinessInfos \cup {Null},
               u \in RepIds \cup {Null} :
                /\ req[q].copy = NewRep(req[q].tenant, i, b, u)
                /\ Says(req[q].event, "RepCreated", PersonalPayload(i))
        /\ req[q].op = "LinkRepToGroup" =>
            Says(req[q].event, "RepGroupLinked", Null)

Intents == FreshCopies /\ \A q \in Requests : Meant(q)

-----------------------------------------------------------------------------
(***************************************************************************)
(* What is meant.                                                          *)
(***************************************************************************)
LEMMA MeantStep ==
    ASSUME Intents, [Next]_vars
    PROVE  \A q \in Requests : Meant(q)'
<1>1. Control /\ \A q \in Requests : Meant(q)
  BY DEF Intents, FreshCopies
<1>2. req \in [Requests -> Request]
  BY <1>1 DEF Control, TypeOK
<1>3. ASSUME NEW p \in Requests, Meant(p)',
             \A q \in Requests \ {p} : req'[q] = req[q]
      PROVE  \A q \in Requests : Meant(q)'
  BY <1>1, <1>3 DEF Meant
<1>4. ASSUME NEW p \in Requests, req'[p].pc # "saving"
      PROVE  Meant(p)'
  BY <1>4 DEF Meant
<1>5. ASSUME NEW p \in Requests, HandlerStep(p)
      PROVE  Meant(p)'
  <2>1. ASSUME NEW t \in Tenants, NEW r \in RepIds, FindById(p, t, r)
        PROVE  Meant(p)'
    <3>1. req'[p].pc \in {"found", "done"}
      BY <1>2, <2>1 DEF FindById, Idle
    <3> QED
      BY <1>4, <3>1
  <2>2. ASSUME NEW t \in Tenants, NEW i \in PersonalInfos,
               NEW b \in BusinessInfos \cup {Null}, NEW u \in RepIds \cup {Null},
               CreateRep(p, t, i, b, u)
        PROVE  Meant(p)'
    <3> DEFINE event == [type |-> "RepCreated", tenant |-> t,
                         by |-> p, value |-> PersonalPayload(i)]
    <3>1. PICK r \in RepIds :
            req' = [req EXCEPT ![p] =
             IF u = Null \/ Visible(t, u)
             THEN [pc |-> "saving", op |-> "CreateRep", tenant |-> t,
                   rep |-> r, resp |-> Null, copy |-> NewRep(t, i, b, u),
                   event |-> event]
             ELSE [Idle EXCEPT !.pc = "done", !.op = "CreateRep",
                               !.tenant = t, !.rep = r, !.resp = "404"]]
      BY <2>2 DEF CreateRep
    <3>2. CASE u = Null \/ Visible(t, u)
      <4>1. /\ req'[p].op = "CreateRep" /\ req'[p].tenant = t
            /\ req'[p].copy = NewRep(t, i, b, u) /\ req'[p].event = event
        BY <1>2, <3>1, <3>2
      <4>2. event \in Event
        BY PayloadType DEF Event, EventType
      <4>3. Says(event, "RepCreated", PersonalPayload(i))
        BY <4>2, NullIsApartAssumption DEF Says
      <4> QED
        BY <4>1, <4>3 DEF Meant
    <3>3. CASE ~(u = Null \/ Visible(t, u))
      <4>1. req'[p].pc = "done"
        BY <1>2, <3>1, <3>3 DEF Idle
      <4> QED
        BY <1>4, <4>1
    <3> QED
      BY <3>2, <3>3
  <2>3. CASE LinkRepToGroup(p)
    <3>1. /\ req'[p].op = "LinkRepToGroup" /\ req[p].pc = "found"
          /\ req'[p].event = EventOf(p, "RepGroupLinked", Null)
      BY <1>2, <2>3 DEF LinkRepToGroup, Mutated, Request
    <3>2. Says(req'[p].event, "RepGroupLinked", Null)
      BY <1>1, <3>1, EventOfType, PayloadType, NullIsApartAssumption
         DEF EventOf, Says, EventType
    <3> QED
      BY <3>1, <3>2 DEF Meant
  <2>4. CASE HandlerThrows(p)
    BY <1>1, <1>4, <2>4, AnswerMoves DEF HandlerThrows
  <2>5. CASE \/ \E i \in PersonalInfos : UpdatePersonalInfo(p, i)
             \/ \E b \in BusinessInfos \cup {Null} : UpdateBusinessInfo(p, b)
             \/ \E a \in AccessControl : UpdateAccessControl(p, a)
             \/ SoftDeleteRep(p)
             \/ RestoreRep(p)
             \/ \E s \in Subs : LinkKeycloakAccount(p, s)
    <3>1. req'[p].op \in Updates
      <4>1. ASSUME NEW op \in Updates, NEW rep, NEW event,
                   Mutated(p, op, rep, event)
            PROVE  req'[p].op \in Updates
        BY <1>2, <4>1 DEF Mutated, Request
      <4> QED
        BY <2>5, <4>1 DEF UpdatePersonalInfo, UpdateBusinessInfo,
           UpdateAccessControl, SoftDeleteRep, RestoreRep,
           LinkKeycloakAccount, Updates, Ops
    <3> QED
      BY <3>1 DEF Meant, Updates
  <2> QED
    BY <1>5, <2>1, <2>2, <2>3, <2>4, <2>5 DEF HandlerStep
<1>6. ASSUME NEW p \in Requests, HandlerStep(p)
      PROVE  \A q \in Requests : Meant(q)'
  BY <1>1, <1>3, <1>5, <1>6, HandlerMoves
<1>7. ASSUME NEW p \in Requests,
             Save(p) \/ SaveRelationship(p) \/ SaveConflicts(p) \/ Fail(p)
      PROVE  \A q \in Requests : Meant(q)'
  BY <1>1, <1>3, <1>4, <1>7, CommitMoves, RefusalMoves
<1>8. CASE UNCHANGED vars
  BY <1>1, <1>8 DEF vars, Meant
<1> QED
  BY <1>6, <1>7, <1>8 DEF Next

LEMMA IntentsInit ==
    ASSUME Init
    PROVE  Intents
<1>1. \A q \in Requests : req[q].pc = "idle"
  BY DEF Init, Idle
<1> QED
  BY <1>1, FreshInit DEF Intents, Meant

LEMMA IntentsStep ==
    ASSUME Intents, [Next]_vars
    PROVE  Intents'
BY ControlStep, FreshStep, MeantStep DEF Intents, FreshCopies


-----------------------------------------------------------------------------
(***************************************************************************)
(* The mapping.                                                            *)
(***************************************************************************)

Plain(row) == IF row = Null THEN Null ELSE [row EXCEPT !.saves = 0]

AsTold(event) == [type |-> event.type, value |-> event.value]

(* What Lifecycle calls rep and told.                                      *)
MappedRep == [r \in RepIds |->
                IF reps[r] = Null THEN Null ELSE [reps[r] EXCEPT !.saves = 0]]

MappedTold == [r \in RepIds |->
                [i \in DOMAIN outbox[r] |-> [type  |-> outbox[r][i].type,
                                             value |-> outbox[r][i].value]]]

LEMMA PlainType ==
    ASSUME NEW row \in Rep
    PROVE  /\ Plain(row) = [row EXCEPT !.saves = 0]
           /\ Plain(row) \in Rep /\ Plain(row) # Null
           /\ Plain(row).tenant = row.tenant
           /\ Plain(row).personalInfo = row.personalInfo
           /\ Plain(row).status = row.status /\ Plain(row).sub = row.sub
<1>1. row # Null
  BY NullAssumption
<1>2. Plain(row) = [row EXCEPT !.saves = 0]
  BY <1>1 DEF Plain
<1>3. Plain(row) \in Rep
  BY <1>2 DEF Rep
<1> QED
  BY <1>2, <1>3, NullAssumption DEF Rep

(* The mapped tables, row by row. *)
LEMMA MappedRows ==
    ASSUME Control, NEW r \in RepIds
    PROVE  /\ MappedRep[r] = Plain(reps[r])
           /\ reps[r] # Null => reps[r] \in Rep
           /\ MappedRep[r] = Null <=> reps[r] = Null
<1>1. MappedRep[r] = Plain(reps[r])
  BY DEF MappedRep, Plain
<1>2. reps[r] # Null => reps[r] \in Rep
  BY DEF Control, TypeOK
<1> QED
  BY <1>1, <1>2, PlainType DEF Plain

AllTold(events) == [i \in DOMAIN events |-> AsTold(events[i])]

LEMMA AppendAsTold ==
    ASSUME NEW s \in Seq(Event), NEW event \in Event
    PROVE  AllTold(Append(s, event)) = Append(AllTold(s), AsTold(event))
<1> DEFINE T == [type : EventType, value : Payloads]
           old == [i \in DOMAIN s |-> AsTold(s[i])]
           new == [i \in DOMAIN Append(s, event) |-> AsTold(Append(s, event)[i])]
<1>1. \A e \in Event : AsTold(e) \in T
  BY DEF Event, AsTold
<1>2. old \in Seq(T) /\ Len(old) = Len(s)
  <2>1. DOMAIN s = 1 .. Len(s) /\ Len(s) \in Nat
    OBVIOUS
  <2>2. old \in [1 .. Len(s) -> T]
    BY <1>1, <2>1
  <2> QED
    BY <2>1, <2>2, SeqDef
<1>3. new \in Seq(T) /\ Len(new) = Len(s) + 1
  BY <1>1
<1>4. Append(old, AsTold(event)) \in Seq(T)
  BY <1>1, <1>2
<1>5. Len(Append(old, AsTold(event))) = Len(s) + 1
  BY <1>1, <1>2
<1>6. ASSUME NEW i \in 1 .. Len(s) + 1
      PROVE  new[i] = Append(old, AsTold(event))[i]
  BY <1>2
<1> QED
  BY <1>3, <1>4, <1>5, <1>6, SeqEqual DEF AllTold

(* The transaction tells what the abstract move tells.                     *)
LEMMA WriteAllMaps ==
    ASSUME Control, NEW p \in Requests, req[p].pc = "saving", WriteAll(p)
    PROVE  /\ req[p].event = Null => MappedTold' = MappedTold
           /\ req[p].event # Null =>
                MappedTold' = [MappedTold EXCEPT ![req[p].rep] =
                                Append(@, AsTold(req[p].event))]
<1> DEFINE r == req[p].rep
<1>1. /\ r \in RepIds /\ outbox \in [RepIds -> Seq(Event)]
      /\ req[p].event # Null => req[p].event \in Event
  BY DEF Control, Phase, TypeOK, Request
<1>2. /\ MappedTold = [s \in RepIds |-> AllTold(outbox[s])]
      /\ MappedTold' = [s \in RepIds |-> AllTold(outbox'[s])]
  BY DEF MappedTold, AllTold, AsTold
<1>3. CASE req[p].event = Null
  BY <1>2, <1>3 DEF WriteAll
<1>4. CASE req[p].event # Null
  <2>1. outbox' = [outbox EXCEPT ![r] = Append(@, req[p].event)]
    BY <1>4 DEF WriteAll
  <2>2. outbox'[r] = Append(outbox[r], req[p].event) /\ outbox[r] \in Seq(Event)
    BY <1>1, <2>1
  <2>3. AllTold(outbox'[r]) = Append(AllTold(outbox[r]), AsTold(req[p].event))
    BY <1>1, <1>4, <2>2, AppendAsTold
  <2>4. \A s \in RepIds \ {r} : AllTold(outbox'[s]) = AllTold(outbox[s])
    BY <1>1, <2>1
  <2> QED
    BY <1>1, <1>2, <1>4, <2>3, <2>4
<1> QED
  BY <1>3, <1>4

LEMMA SaveMaps ==
    ASSUME Control, NEW p \in Requests, Save(p)
    PROVE  MappedRep' = [MappedRep EXCEPT ![req[p].rep] = Plain(Stored(p))]
<1>1. /\ reps'[req[p].rep] = Stored(p)
      /\ \A r \in RepIds \ {req[p].rep} : reps'[r] = reps[r]
  BY SaveKeepsIdentity
<1>2. /\ MappedRep = [r \in RepIds |-> Plain(reps[r])]
      /\ MappedRep' = [r \in RepIds |-> Plain(reps'[r])]
  BY DEF MappedRep, Plain
<1> HIDE DEF Plain
<1> QED
  BY <1>1, <1>2

(* No other Rep has the e-mail or, in the tenant, the sub of what is saved.*)
LEMMA SaveMeetsKeys ==
    ASSUME Control, NEW p \in Requests, Save(p)
    PROVE  \A s \in RepIds \ {req[p].rep} : MappedRep[s] # Null =>
            /\ MappedRep[s].personalInfo.email # req[p].copy.personalInfo.email
            /\ \/ req[p].copy.sub = Null
               \/ MappedRep[s].tenant # req[p].tenant
               \/ MappedRep[s].sub # req[p].copy.sub
<1> SUFFICES ASSUME NEW s \in RepIds \ {req[p].rep}, MappedRep[s] # Null
             PROVE  /\ MappedRep[s].personalInfo.email
                            # req[p].copy.personalInfo.email
                    /\ \/ req[p].copy.sub = Null
                       \/ MappedRep[s].tenant # req[p].tenant
                       \/ MappedRep[s].sub # req[p].copy.sub
  OBVIOUS
<1>1. /\ MappedRep[s] = Plain(reps[s]) /\ reps[s] # Null /\ reps[s] \in Rep
  BY MappedRows
<1>2. /\ MappedRep[s].personalInfo = reps[s].personalInfo
      /\ MappedRep[s].sub = reps[s].sub /\ MappedRep[s].tenant = reps[s].tenant
  BY <1>1, PlainType
<1> QED
  BY <1>1, <1>2 DEF Save, EmailTaken, SubTaken

-----------------------------------------------------------------------------
(***************************************************************************)
(* A fresh save is one move.                                               *)
(***************************************************************************)

(* Seen without its saves, the save amends the row as the handler did.     *)
LEMMA StoredIsAmended ==
    ASSUME NEW row \in Rep, NEW op, NEW event, NEW copy \in Rep,
           Amended(row, op, event, copy),
           NEW stored, stored = [copy EXCEPT !.tenant = row.tenant,
                                             !.saves = row.saves + 1]
    PROVE  Amended(Plain(row), op, event, Plain(stored))
<1>1. stored \in Rep
  <2>1. row.tenant \in Tenants /\ row.saves + 1 \in Nat
    BY DEF Rep
  <2> QED
    BY <2>1 DEF Rep
<1>2. /\ Plain(row) = [row EXCEPT !.saves = 0]
      /\ Plain(stored) = [copy EXCEPT !.tenant = row.tenant, !.saves = 0]
  <2>1. /\ Plain(row) = [row EXCEPT !.saves = 0]
        /\ Plain(stored) = [stored EXCEPT !.saves = 0]
    BY <1>1, PlainType
  <2> QED
    BY <2>1 DEF Rep
<1>3. DOMAIN row = {"tenant", "personalInfo", "businessInfo", "access",
                    "status", "upline", "sub", "saves"}
  BY DEF Rep
<1>4. ASSUME NEW part \in DOMAIN row \ {"tenant", "saves"}, NEW new,
             copy = [row EXCEPT ![part] = new]
      PROVE  Plain(stored) = [Plain(row) EXCEPT ![part] = new]
  <2>1. row = [x \in DOMAIN row |-> row[x]]
    BY DEF Rep
  <2> DEFINE L == [copy EXCEPT !.tenant = row.tenant, !.saves = 0]
             R == [[row EXCEPT !.saves = 0] EXCEPT ![part] = new]
  <2>2. /\ L = [x \in DOMAIN row |-> L[x]]
        /\ R = [x \in DOMAIN row |-> R[x]]
    BY <1>4, <2>1
  <2>3. \A x \in DOMAIN row : L[x] = R[x]
    BY <1>3, <1>4
  <2>4. L = R
    <3> HIDE DEF L, R
    <3> QED
      BY <2>2, <2>3
  <2> QED
    BY <1>2, <2>4
<1>5. /\ \A i : copy = WithPersonalInfo(row, i) =>
                Plain(stored) = WithPersonalInfo(Plain(row), i)
      /\ \A b : copy = WithBusinessInfo(row, b) =>
                Plain(stored) = WithBusinessInfo(Plain(row), b)
      /\ \A a : copy = WithAccessControl(row, a) =>
                Plain(stored) = WithAccessControl(Plain(row), a)
      /\ \A s : copy = WithKeycloakAccount(row, s) =>
                Plain(stored) = WithKeycloakAccount(Plain(row), s)
      /\ copy = SoftDelete(row) => Plain(stored) = SoftDelete(Plain(row))
      /\ copy = Restore(row) => Plain(stored) = Restore(Plain(row))
  BY <1>3, <1>4 DEF WithPersonalInfo, WithBusinessInfo, WithAccessControl,
     WithKeycloakAccount, SoftDelete, Restore
<1>6. ASSUME copy = row
      PROVE  Plain(stored) = Plain(row)
  <2>1. row = [x \in DOMAIN row |-> row[x]]
    BY DEF Rep
  <2>2. row = [row EXCEPT !.tenant = row.tenant]
    BY <1>3, <2>1
  <2>3. Plain(stored) = [[row EXCEPT !.tenant = row.tenant] EXCEPT !.saves = 0]
    BY <1>2, <1>6, <2>1
  <2> QED
    BY <1>2, <2>2, <2>3
<1>7. Plain(row).status = row.status /\ Plain(row).sub = row.sub
  BY PlainType
<1> HIDE DEF Plain
<1> QED
  BY <1>5, <1>6, <1>7 DEF Amended, CanSoftDelete, CanRestore

LEMMA MoveIsNext ==
    ASSUME NEW r \in RepIds,
           \/ \E i \in PersonalInfos : Lifecycle!ChangePersonalInfo(r, i)
           \/ \E b \in BusinessInfos \cup {Null} :
                Lifecycle!ChangeBusinessInfo(r, b)
           \/ \E a \in AccessControl : Lifecycle!ChangeAccess(r, a)
           \/ Lifecycle!Delete(r)
           \/ Lifecycle!Undelete(r)
           \/ \E s \in Subs : Lifecycle!LinkAccount(r, s)
           \/ Lifecycle!LinkGroup(r)
    PROVE  Lifecycle!Next
BY DEF Lifecycle!Next, AccessControl, Lifecycle!AccessControl,
       AccessLevel, Lifecycle!AccessLevel

LEMMA FreshUpdateMoves ==
    ASSUME Control, NEW p \in Requests, FreshCopy(p),
           Save(p), req[p].op \in Updates, IsFresh(p)
    PROVE  UNCHANGED Lifecycle!lifecycleVars \/ Lifecycle!Next
<1>0. PICK r, op, event, copy, row, stored, old :
        /\ r = req[p].rep         /\ op = req[p].op
        /\ event = req[p].event   /\ copy = req[p].copy
        /\ row = reps[r]          /\ stored = Stored(p)
        /\ old = MappedRep[r]
  OBVIOUS
<1>1. req[p].pc = "saving" /\ WriteAll(p)
  BY DEF Save
<1>2. /\ r \in RepIds /\ row \in Rep /\ row # Null /\ copy \in Rep
      /\ row.tenant = req[p].tenant
  <2>1. HasLoaded(p)
    BY <1>1 DEF HasLoaded
  <2>2. HoldsCopy(p)
    BY <1>1 DEF Control, Phase, Updates
  <2> QED
    BY <1>0, <2>1, <2>2, Copies DEF HoldsCopy, Visible
<1>3. old = Plain(row) /\ old # Null
  BY <1>0, <1>2, MappedRows
<1>4. MappedRep' = [MappedRep EXCEPT ![r] = Plain(stored)]
  BY <1>0, SaveMaps
<1>5. /\ event = Null => MappedTold' = MappedTold
      /\ \A type, value : Says(event, type, value) =>
            MappedTold' = [MappedTold EXCEPT ![r] =
                            Append(@, [type |-> type, value |-> value])]
  BY <1>0, <1>1, WriteAllMaps DEF Says, AsTold
<1>6. Amended(row, op, event, copy)
  BY <1>0, <1>1 DEF FreshCopy
<1>7. stored = [copy EXCEPT !.tenant = row.tenant,
                            !.saves = row.saves + 1]
  BY <1>0, <1>2 DEF Stored
<1>8. PICK new : new = Plain(stored)
  OBVIOUS
<1>9. Amended(old, op, event, new)
  BY <1>2, <1>3, <1>6, <1>7, <1>8, StoredIsAmended
<1>10. /\ MappedRep' = [MappedRep EXCEPT ![r] = new]
       /\ MappedRep[r] = old /\ MappedRep[r] # Null
       /\ old.tenant = row.tenant
  BY <1>0, <1>2, <1>3, <1>4, <1>8, PlainType
<1>11. new.personalInfo = copy.personalInfo /\ new.sub = copy.sub
  <2>1. /\ stored \in Rep
        /\ stored.personalInfo = copy.personalInfo /\ stored.sub = copy.sub
    <3>1. row.tenant \in Tenants /\ row.saves + 1 \in Nat
      BY <1>2 DEF Rep
    <3> QED
      BY <1>2, <1>7, <3>1 DEF Rep
  <2> QED
    BY <1>8, <2>1, PlainType
<1>12. \A s \in RepIds \ {r} : MappedRep[s] # Null =>
            /\ MappedRep[s].personalInfo.email # new.personalInfo.email
            /\ \/ new.sub = Null
               \/ MappedRep[s].tenant # old.tenant
               \/ MappedRep[s].sub # new.sub
  BY <1>0, <1>2, <1>10, <1>11, SaveMeetsKeys
<1>13. ASSUME NEW i \in PersonalInfos, new = WithPersonalInfo(old, i),
              Says(event, "RepPersonalInfoUpdated", PersonalPayload(i))
       PROVE  Lifecycle!Next
  <2>1. MappedTold' = [MappedTold EXCEPT ![r] =
            Append(@, [type |-> "RepPersonalInfoUpdated",
                       value |-> PersonalPayload(i)])]
    BY <1>5, <1>13
  <2>2. new.personalInfo = i
    <3>1. old \in Rep
      BY <1>2, <1>3, PlainType
    <3> QED
      BY <1>13, <3>1 DEF WithPersonalInfo, Rep
  <2>3. Lifecycle!ChangePersonalInfo(r, i)
    BY <1>10, <1>12, <1>13, <2>1, <2>2
       DEF Lifecycle!ChangePersonalInfo, Lifecycle!Becomes, Lifecycle!Tell,
           MappedRep, MappedTold, WithPersonalInfo,
           Lifecycle!WithPersonalInfo, PersonalPayload,
           Lifecycle!PersonalPayload
  <2> QED
    BY <1>2, <2>3, MoveIsNext
<1>14. ASSUME NEW b \in BusinessInfos \cup {Null},
              new = WithBusinessInfo(old, b),
              Says(event, "RepBusinessInfoUpdated", BusinessPayload(b))
       PROVE  Lifecycle!Next
  <2>1. MappedTold' = [MappedTold EXCEPT ![r] =
            Append(@, [type |-> "RepBusinessInfoUpdated",
                       value |-> BusinessPayload(b)])]
    BY <1>5, <1>14
  <2>2. Lifecycle!ChangeBusinessInfo(r, b)
    BY <1>10, <1>14, <2>1
       DEF Lifecycle!ChangeBusinessInfo, Lifecycle!Becomes, Lifecycle!Tell,
           MappedRep, MappedTold, WithBusinessInfo,
           Lifecycle!WithBusinessInfo, BusinessPayload,
           Lifecycle!BusinessPayload
  <2> QED
    BY <1>2, <2>2, MoveIsNext
<1>15. ASSUME CanSoftDelete(old), new = SoftDelete(old),
              Says(event, "RepSoftDeleted", Null)
       PROVE  Lifecycle!Next
  <2>1. MappedTold' = [MappedTold EXCEPT ![r] =
            Append(@, [type |-> "RepSoftDeleted",
                       value |-> Null])]
    BY <1>5, <1>15
  <2>2. Lifecycle!Delete(r)
    BY <1>10, <1>15, <2>1
       DEF Lifecycle!Delete, CanSoftDelete, Lifecycle!CanSoftDelete,
           Lifecycle!Becomes, Lifecycle!Tell, MappedRep, MappedTold,
           SoftDelete, Lifecycle!SoftDelete
  <2> QED
    BY <1>2, <2>2, MoveIsNext
<1>16. ASSUME CanRestore(old), new = Restore(old),
              Says(event, "RepRestored", Null)
       PROVE  Lifecycle!Next
  <2>1. MappedTold' = [MappedTold EXCEPT ![r] =
            Append(@, [type |-> "RepRestored",
                       value |-> Null])]
    BY <1>5, <1>16
  <2>2. Lifecycle!Undelete(r)
    BY <1>10, <1>16, <2>1
       DEF Lifecycle!Undelete, CanRestore, Lifecycle!CanRestore,
           Lifecycle!Becomes, Lifecycle!Tell, MappedRep, MappedTold,
           Restore, Lifecycle!Restore
  <2> QED
    BY <1>2, <2>2, MoveIsNext
<1>17. ASSUME NEW s \in Subs, old.sub # s,
              new = WithKeycloakAccount(old, s),
              Says(event, "RepKeycloakAccountLinked", s)
       PROVE  Lifecycle!Next
  <2>1. MappedTold' = [MappedTold EXCEPT ![r] =
            Append(@, [type |-> "RepKeycloakAccountLinked",
                       value |-> s])]
    BY <1>5, <1>17
  <2>2. new.sub = s
    <3>1. old \in Rep
      BY <1>2, <1>3, PlainType
    <3> QED
      BY <1>17, <3>1 DEF WithKeycloakAccount, Rep
  <2>3. \A x \in RepIds \ {r} :
            MappedRep[x] # Null /\ MappedRep[x].tenant = MappedRep[r].tenant
                => MappedRep[x].sub # s
    BY <1>10, <1>12, <1>17, <2>2, NullAssumption
  <2>4. Lifecycle!LinkAccount(r, s)
    BY <1>10, <1>17, <2>1, <2>3
       DEF Lifecycle!LinkAccount, Lifecycle!Becomes, Lifecycle!Tell,
           MappedRep, MappedTold, WithKeycloakAccount,
           Lifecycle!WithKeycloakAccount
  <2> QED
    BY <1>2, <2>4, MoveIsNext
<1>18. ASSUME NEW a \in AccessControl, new = WithAccessControl(old, a),
              event = Null
       PROVE  Lifecycle!Next
  <2>1. Lifecycle!ChangeAccess(r, a)
    BY <1>5, <1>10, <1>18 DEF Lifecycle!ChangeAccess, Lifecycle!Becomes,
       MappedRep, MappedTold, WithAccessControl, Lifecycle!WithAccessControl
  <2> QED
    BY <1>2, <2>1, MoveIsNext
<1>19. ASSUME new = old, event = Null
       PROVE  UNCHANGED Lifecycle!lifecycleVars
  <2>1. MappedRep' = MappedRep /\ MappedTold' = MappedTold
    BY <1>5, <1>10, <1>19 DEF MappedRep
  <2> QED
    BY <2>1 DEF MappedRep, MappedTold, Lifecycle!lifecycleVars
<1> QED
  BY <1>9, <1>13, <1>14, <1>15, <1>16, <1>17, <1>18, <1>19 DEF Amended

LEMMA CreateMoves ==
    ASSUME Control, NEW p \in Requests, Meant(p), Save(p),
           req[p].op = "CreateRep"
    PROVE  Lifecycle!Next
<1>1. req[p].pc = "saving" /\ WriteAll(p)
  BY DEF Save
<1>2. PICK i \in PersonalInfos, b \in BusinessInfos \cup {Null},
           u \in RepIds \cup {Null} :
        /\ req[p].copy = NewRep(req[p].tenant, i, b, u)
        /\ Says(req[p].event, "RepCreated", PersonalPayload(i))
  BY <1>1 DEF Meant
<1>3. PICK r, t : r = req[p].rep /\ t = req[p].tenant
  OBVIOUS
<1>4. /\ r \in RepIds /\ t \in Tenants /\ reps[r] = Null
      /\ u = Null \/ Visible(t, u)
  <2>1. HoldsNewRep(p) /\ r \in RepIds /\ t \in Tenants
    BY <1>1, <1>3 DEF Control, Phase
  <2>2. req[p].copy.upline = u
    BY <1>2 DEF NewRep
  <2> QED
    BY <1>3, <2>1, <2>2 DEF HoldsNewRep
<1>5. Plain(Stored(p)) = NewRep(t, i, b, u)
  <2>1. Stored(p) = [req[p].copy EXCEPT !.tenant = t]
    BY <1>3, <1>4 DEF Stored
  <2>2. Stored(p) = NewRep(t, i, b, u)
    BY <1>2, <1>3, <2>1 DEF NewRep
  <2>3. NewRep(t, i, b, u) \in Rep
    BY <1>4, NewRepType
  <2>4. Plain(NewRep(t, i, b, u)) = [NewRep(t, i, b, u) EXCEPT !.saves = 0]
    BY <2>3, PlainType
  <2> QED
    BY <2>2, <2>4 DEF NewRep
<1>6. MappedRep' = [MappedRep EXCEPT ![r] = NewRep(t, i, b, u)]
  BY <1>3, <1>5, SaveMaps
<1>7. MappedTold' = [MappedTold EXCEPT ![r] =
        Append(@, [type |-> "RepCreated", value |-> PersonalPayload(i)])]
  BY <1>1, <1>2, <1>3, WriteAllMaps DEF Says, AsTold
<1>8. MappedRep[r] = Null
  BY <1>4, MappedRows
<1>9. \A s \in RepIds : MappedRep[s] # Null =>
            MappedRep[s].personalInfo.email # i.email
  <2>1. req[p].copy.personalInfo = i
    BY <1>2 DEF NewRep
  <2> QED
    BY <1>3, <1>8, <2>1, SaveMeetsKeys
<1>10. u = Null \/ (MappedRep[u] # Null /\ MappedRep[u].tenant = t)
  <2>1. CASE u # Null
    <3>1. u \in RepIds /\ reps[u] # Null /\ reps[u].tenant = t
      BY <1>4, <2>1 DEF Visible
    <3> QED
      BY <3>1, MappedRows, PlainType
  <2>2. CASE u = Null
    BY <2>2
  <2> QED
    BY <2>1, <2>2
<1>11. Lifecycle!Create(r, t, i, b, u)
  BY <1>6, <1>7, <1>8, <1>9, <1>10
     DEF Lifecycle!Create, Lifecycle!Tell, MappedRep, MappedTold,
         NewRep, Lifecycle!NewRep, DefaultForNewRep,
         Lifecycle!DefaultForNewRep, PersonalPayload,
         Lifecycle!PersonalPayload
<1> QED
  BY <1>4, <1>11 DEF Lifecycle!Next

LEMMA RelationshipMoves ==
    ASSUME Control, NEW p \in Requests, Meant(p), SaveRelationship(p)
    PROVE  Lifecycle!Next
<1>1. /\ req[p].pc = "saving" /\ req[p].op = "LinkRepToGroup"
      /\ WriteAll(p) /\ UNCHANGED reps
  BY DEF SaveRelationship
<1>2. Says(req[p].event, "RepGroupLinked", Null)
  BY <1>1 DEF Meant
<1>3. PICK r : r = req[p].rep
  OBVIOUS
<1>4. r \in RepIds /\ MappedRep[r] # Null
  <2>1. r \in RepIds /\ reps[r] # Null
    BY <1>1, <1>3 DEF Control, Phase, Visible
  <2> QED
    BY <2>1, MappedRows
<1>5. MappedTold' = [MappedTold EXCEPT ![r] =
        Append(@, [type |-> "RepGroupLinked", value |-> Null])]
  BY <1>1, <1>2, <1>3, WriteAllMaps DEF Says, AsTold
<1>6. MappedRep' = MappedRep
  BY <1>1 DEF MappedRep
<1>7. Lifecycle!LinkGroup(r)
  BY <1>4, <1>5, <1>6
     DEF Lifecycle!LinkGroup, Lifecycle!Tell, MappedRep, MappedTold
<1> QED
  BY <1>4, <1>7, MoveIsNext

(* However requests overlap, a step that overwrites no newer row is one    *)
(* move or none.                                                           *)
LEMMA FreshStepMoves ==
    ASSUME Intents, [Next]_vars,
           \A q \in Requests :
                Save(q) /\ req[q].op # "CreateRep" => IsFresh(q)
    PROVE  UNCHANGED Lifecycle!lifecycleVars \/ Lifecycle!Next
<1>1. Control /\ \A q \in Requests : FreshCopy(q) /\ Meant(q)
  BY DEF Intents, FreshCopies
<1>2. CASE UNCHANGED <<reps, outbox>>
  BY <1>2 DEF Lifecycle!lifecycleVars
<1>3. ASSUME NEW p \in Requests, Save(p)
      PROVE  UNCHANGED Lifecycle!lifecycleVars \/ Lifecycle!Next
  <2>1. CASE req[p].op = "CreateRep"
    BY <1>1, <1>3, <2>1, CreateMoves
  <2>2. CASE req[p].op # "CreateRep"
    <3>1. req[p].op \in Updates
      BY <1>1, <1>3, <2>2 DEF Save, Control, Phase, Updates
    <3> QED
      BY <1>1, <1>3, <2>2, <3>1, FreshUpdateMoves
  <2> QED
    BY <2>1, <2>2
<1>4. ASSUME NEW p \in Requests, SaveRelationship(p)
      PROVE  Lifecycle!Next
  BY <1>1, <1>4, RelationshipMoves
<1> QED
  BY <1>2, <1>3, <1>4, OnlySavesWrite

(* The only steps of the directory that are not moves of its abstract      *)
(* lifecycle are saves of a row somebody else has saved since it was       *)
(* loaded, for every number of overlapping requests.                       *)
THEOREM FreshMovesTheorem == Spec => FreshStepsAreMoves
<1>1. Init => Intents
  BY IntentsInit
<1>2. Intents /\ [Next]_vars => Intents'
  BY IntentsStep
<1>3. Intents /\ [Next]_vars =>
        [(\A q \in Requests :
            Save(q) /\ req[q].op # "CreateRep" => IsFresh(q))
            => UNCHANGED Lifecycle!lifecycleVars \/ Lifecycle!Next]_vars
  BY FreshStepMoves
<1> QED
  BY <1>1, <1>2, <1>3, PTL DEF Spec, FreshStepsAreMoves

-----------------------------------------------------------------------------
(***************************************************************************)
(* Requests that do not overlap.                                           *)
(***************************************************************************)

(* One handler at a time, and what it has loaded nobody saves meanwhile.   *)
Serial ==
    /\ \A p, q \in InFlight : p = q
    /\ \A q \in Requests : HasLoaded(q) => IsFresh(q)

LEMMA ArrivesAlone ==
    ASSUME MaxInFlight = 1, Serial, NEW p \in Requests, Arrives(p)
    PROVE  InFlight = {}
<1>1. SUFFICES ASSUME NEW q \in InFlight
               PROVE  FALSE
  OBVIOUS
<1>2. InFlight = {q}
  BY <1>1 DEF Serial
<1>3. Cardinality(InFlight) = 1
  BY <1>2, FS_Singleton
<1> QED
  BY <1>3 DEF Arrives

(* Every step is one request's, which arrives or is in flight.             *)
LEMMA OneMoves ==
    ASSUME Control, [Next]_vars, ~ UNCHANGED vars
    PROVE  \E p \in Requests :
            /\ p \in InFlight \/ Arrives(p)
            /\ \A q \in Requests \ {p} : req'[q] = req[q]
<1>1. PICK p \in Requests : \/ HandlerStep(p)
                            \/ Save(p) \/ SaveRelationship(p)
                            \/ SaveConflicts(p) \/ Fail(p)
  BY DEF Next
<1>2. \A q \in Requests \ {p} : req'[q] = req[q]
  BY <1>1, HandlerMoves, CommitMoves, RefusalMoves
<1>3. CASE HandlerStep(p)
  <2>1. CASE \/ \E t \in Tenants, r \in RepIds : FindById(p, t, r)
             \/ \E t \in Tenants, i \in PersonalInfos,
                   b \in BusinessInfos \cup {Null}, u \in RepIds \cup {Null} :
                        CreateRep(p, t, i, b, u)
    BY <1>2, <2>1 DEF FindById, CreateRep
  <2>2. CASE \/ \E i \in PersonalInfos : UpdatePersonalInfo(p, i)
             \/ \E b \in BusinessInfos \cup {Null} : UpdateBusinessInfo(p, b)
             \/ \E a \in AccessControl : UpdateAccessControl(p, a)
             \/ SoftDeleteRep(p)
             \/ RestoreRep(p)
             \/ \E s \in Subs : LinkKeycloakAccount(p, s)
             \/ LinkRepToGroup(p)
             \/ HandlerThrows(p)
    <3>1. req[p].pc = "found"
      BY <2>2 DEF UpdatePersonalInfo, UpdateBusinessInfo,
         UpdateAccessControl, SoftDeleteRep, RestoreRep,
         LinkKeycloakAccount, LinkRepToGroup, HandlerThrows, Mutated
    <3> QED
      BY <1>2, <3>1 DEF InFlight
  <2> QED
    BY <1>3, <2>1, <2>2 DEF HandlerStep
<1>4. CASE Save(p) \/ SaveRelationship(p) \/ SaveConflicts(p) \/ Fail(p)
  BY <1>2, <1>4, CommitMoves, RefusalMoves DEF InFlight
<1> QED
  BY <1>1, <1>3, <1>4

(* Only a save counts the saves.                                           *)
LEMMA HandlersKeepSaves ==
    ASSUME Control, NEW p \in Requests,
           \/ \E i \in PersonalInfos : UpdatePersonalInfo(p, i)
           \/ \E b \in BusinessInfos \cup {Null} : UpdateBusinessInfo(p, b)
           \/ \E a \in AccessControl : UpdateAccessControl(p, a)
           \/ SoftDeleteRep(p)
           \/ RestoreRep(p)
           \/ \E s \in Subs : LinkKeycloakAccount(p, s)
    PROVE  /\ req[p].pc = "found" /\ UNCHANGED reps
           /\ req'[p].rep = req[p].rep
           /\ req'[p].copy.saves = req[p].copy.saves
<1>1. req \in [Requests -> Request]
  BY DEF Control, TypeOK
<1>2. req[p].pc = "found"
  BY DEF UpdatePersonalInfo, UpdateBusinessInfo, UpdateAccessControl,
         SoftDeleteRep, RestoreRep, LinkKeycloakAccount, Mutated
<1>3. Loaded(p) \in Rep /\ Loaded(p).saves = req[p].copy.saves
  BY <1>2, LoadedType, Copies DEF SameIdentity, Loaded, Rep, HasLoaded
<1>4. ASSUME NEW op, NEW rep, NEW event, Mutated(p, op, rep, event),
             rep.saves = Loaded(p).saves
      PROVE  /\ UNCHANGED reps /\ req'[p].rep = req[p].rep
             /\ req'[p].copy.saves = req[p].copy.saves
  BY <1>1, <1>3, <1>4 DEF Mutated, Request
<1>5. /\ \A i \in PersonalInfos :
            WithPersonalInfo(Loaded(p), i).saves = Loaded(p).saves
      /\ \A b \in BusinessInfos \cup {Null} :
            WithBusinessInfo(Loaded(p), b).saves = Loaded(p).saves
      /\ \A a \in AccessControl :
            WithAccessControl(Loaded(p), a).saves = Loaded(p).saves
      /\ SoftDelete(Loaded(p)).saves = Loaded(p).saves
      /\ Restore(Loaded(p)).saves = Loaded(p).saves
      /\ \A s \in Subs :
            WithKeycloakAccount(Loaded(p), s).saves = Loaded(p).saves
  BY <1>3 DEF Rep, WithPersonalInfo, WithBusinessInfo, WithAccessControl,
     SoftDelete, Restore, WithKeycloakAccount
<1> QED
  BY <1>2, <1>4, <1>5 DEF UpdatePersonalInfo, UpdateBusinessInfo,
     UpdateAccessControl, SoftDeleteRep, RestoreRep, LinkKeycloakAccount

(* A handler that is alone still has the row as it is in the table.        *)
LEMMA StaysFresh ==
    ASSUME Control, Serial, [Next]_vars, NEW p \in Requests, HasLoaded(p)',
           \A q \in Requests \ {p} : req'[q] = req[q], req'[p] # req[p]
    PROVE  IsFresh(p)'
<1>1. req \in [Requests -> Request]
  BY DEF Control, TypeOK
<1>2. ASSUME NEW q \in Requests, req'[q].pc \notin {"found", "saving"}
      PROVE  q # p
  BY <1>2 DEF HasLoaded
<1>3. PICK q \in Requests : HandlerStep(q)
  <2>1. ~ UNCHANGED vars
    BY DEF vars
  <2>2. ASSUME NEW q \in Requests,
               \/ Save(q) \/ SaveRelationship(q)
               \/ SaveConflicts(q) \/ Fail(q)
        PROVE  FALSE
    <3>1. req'[q].pc = "done" /\ \A s \in Requests \ {q} : req'[s] = req[s]
      BY <2>2, CommitMoves, RefusalMoves
    <3> QED
      BY <1>2, <3>1
  <2> QED
    BY <2>1, <2>2 DEF Next
<1>4. p = q
  BY <1>3, HandlerMoves
<1>5. ASSUME NEW t \in Tenants, NEW r \in RepIds, FindById(p, t, r)
      PROVE  IsFresh(p)'
  <2>1. req' = [req EXCEPT ![p] =
           IF Visible(t, r)
           THEN [Idle EXCEPT !.pc = "found", !.tenant = t,
                             !.rep = r, !.copy = reps[r]]
           ELSE [Idle EXCEPT !.pc = "done", !.tenant = t,
                             !.rep = r, !.resp = "404"]]
        /\ UNCHANGED reps
    BY <1>5 DEF FindById
  <2>2. CASE Visible(t, r)
    BY <1>1, <2>1, <2>2 DEF Idle, IsFresh
  <2>3. CASE ~Visible(t, r)
    BY <1>1, <1>2, <2>1, <2>3 DEF Idle
  <2> QED
    BY <2>2, <2>3
<1>6. ASSUME NEW t \in Tenants, NEW i \in PersonalInfos,
             NEW b \in BusinessInfos \cup {Null}, NEW u \in RepIds \cup {Null},
             CreateRep(p, t, i, b, u)
      PROVE  FALSE
  <2>1. req'[p].op = "CreateRep" /\ req'[p].pc \in {"saving", "done"}
    BY <1>1, <1>6 DEF CreateRep, Idle
  <2> QED
    BY <2>1 DEF HasLoaded, Updates
<1>7. ~LinkRepToGroup(p)
  BY <1>1 DEF LinkRepToGroup, Mutated, Request, HasLoaded, Updates
<1>8. ~HandlerThrows(p)
  BY <1>2, AnswerMoves DEF HandlerThrows
<1>9. CASE \/ \E i \in PersonalInfos : UpdatePersonalInfo(p, i)
           \/ \E b \in BusinessInfos \cup {Null} : UpdateBusinessInfo(p, b)
           \/ \E a \in AccessControl : UpdateAccessControl(p, a)
           \/ SoftDeleteRep(p)
           \/ RestoreRep(p)
           \/ \E s \in Subs : LinkKeycloakAccount(p, s)
  <2>1. /\ req[p].pc = "found" /\ UNCHANGED reps
        /\ req'[p].rep = req[p].rep
        /\ req'[p].copy.saves = req[p].copy.saves
    BY <1>9, HandlersKeepSaves
  <2>2. IsFresh(p)
    BY <2>1 DEF Serial, HasLoaded
  <2> QED
    BY <2>1, <2>2 DEF IsFresh
<1> QED
  BY <1>3, <1>4, <1>5, <1>6, <1>7, <1>8, <1>9 DEF HandlerStep

LEMMA SerialStep ==
    ASSUME MaxInFlight = 1, Control, Serial, [Next]_vars
    PROVE  Serial'
<1>1. CASE UNCHANGED vars
  BY <1>1 DEF vars, Serial, InFlight, HasLoaded, IsFresh
<1>2. CASE ~ UNCHANGED vars
  <2>1. PICK p \in Requests :
            /\ p \in InFlight \/ Arrives(p)
            /\ \A q \in Requests \ {p} : req'[q] = req[q]
    BY <1>2, OneMoves
  <2>2. \A q \in Requests \ {p} : q \notin InFlight
    BY <2>1, ArrivesAlone DEF Serial
  <2>3. \A q \in Requests \ {p} : q \notin InFlight'
    BY <2>1, <2>2 DEF InFlight
  <2>4. (\A q, s \in InFlight : q = s)'
    BY <2>3 DEF InFlight
  <2>5. ASSUME NEW q \in Requests, HasLoaded(q)'
        PROVE  IsFresh(q)'
    <3>1. q = p
      BY <2>3, <2>5 DEF InFlight, HasLoaded
    <3>2. CASE req'[p] # req[p]
      BY <2>1, <2>5, <3>1, <3>2, StaysFresh
    <3>3. CASE req'[p] = req[p]
      <4>1. \A s \in Requests : req'[s] = req[s]
        BY <2>1, <3>3
      <4>2. UNCHANGED reps
        <5>1. \A s \in Requests : ~Save(s)
          BY <4>1, CommitMoves
        <5> QED
          BY <5>1, OnlySavesWrite
      <4>3. HasLoaded(q)
        BY <2>5, <4>1 DEF HasLoaded
      <4> QED
        BY <4>1, <4>2, <4>3 DEF Serial, IsFresh
    <3> QED
      BY <3>1, <3>2, <3>3
  <2> QED
    BY <2>4, <2>5 DEF Serial
<1> QED
  BY <1>1, <1>2

LEMMA LifecycleInit ==
    ASSUME Init
    PROVE  Serial /\ Lifecycle!Init
<1>1. \A q \in Requests : req[q].pc = "idle"
  BY DEF Init, Idle
<1>2. Serial
  BY <1>1 DEF Serial, InFlight, HasLoaded
<1>3. reps \in [RepIds -> Rep \cup {Null}]
  BY SeedAssumption DEF Init
<1>4. MappedRep \in [RepIds -> Rep \cup {Null}]
  <2>1. ASSUME NEW r \in RepIds
        PROVE  Plain(reps[r]) \in Rep \cup {Null}
    BY <1>3, PlainType DEF Plain
  <2> QED
    BY <2>1 DEF MappedRep, Plain
<1>5. MappedTold = [r \in RepIds |-> <<>>]
  BY DEF Init, MappedTold
<1> QED
  BY <1>2, <1>4, <1>5 DEF MappedRep, MappedTold, Lifecycle!Init,
     Rep, Lifecycle!Rep, RepStatus, Lifecycle!RepStatus,
     AccessControl, Lifecycle!AccessControl, AccessLevel, Lifecycle!AccessLevel

(* Served one request at a time, the directory keeps its promise whatever  *)
(* fails: every behaviour, lost acknowledgements and crashes between two   *)
(* transactions included, is a behaviour of the abstract lifecycle.        *)
THEOREM LifecycleTheorem ==
    ASSUME MaxInFlight = 1
    PROVE  Spec => ImplementsLifecycle
<1>1. Init => Intents /\ Serial /\ Lifecycle!Init
  BY IntentsInit, LifecycleInit
<1>2. Intents /\ Serial /\ [Next]_vars => Intents' /\ Serial'
  BY IntentsStep, SerialStep DEF Intents, FreshCopies
<1>3. Intents /\ Serial /\ [Next]_vars =>
        [Lifecycle!Next]_(Lifecycle!lifecycleVars)
  <2>1. SUFFICES ASSUME Intents, Serial, [Next]_vars
                 PROVE  UNCHANGED Lifecycle!lifecycleVars \/ Lifecycle!Next
    OBVIOUS
  <2>2. ASSUME NEW q \in Requests, Save(q), req[q].op # "CreateRep"
        PROVE  IsFresh(q)
    <3>1. HasLoaded(q)
      BY <2>1, <2>2 DEF Intents, FreshCopies, Control, Phase, Save,
         HasLoaded, Updates
    <3> QED
      BY <2>1, <3>1 DEF Serial
  <2> QED
    BY <2>1, <2>2, FreshStepMoves
<1> QED
  BY <1>1, <1>2, <1>3, PTL DEF Spec, ImplementsLifecycle, Lifecycle!Spec

-----------------------------------------------------------------------------
(***************************************************************************)
(* Soft deletes that last.                                                 *)
(***************************************************************************)

(* Whoever has loaded a soft-deleted Rep and is not about to restore it    *)
(* still has it soft-deleted after its next step.                          *)
LEMMA HandlersKeepDeletion ==
    ASSUME Control, NEW r \in RepIds, DeletionSettled(r),
           NEW q \in Requests, HandlerStep(q),
           (q \in InFlight)', req'[q].rep = r,
           req'[q].op \notin {"Restore", "LinkRepToGroup"}
    PROVE  req'[q].copy.status = "SOFT_DELETED"
<1>1. req \in [Requests -> Request]
  BY DEF Control, TypeOK
<1>2. req'[q].pc # "done"
  BY DEF InFlight
<1>3. ASSUME NEW t \in Tenants, NEW x \in RepIds, FindById(q, t, x)
      PROVE  req'[q].copy.status = "SOFT_DELETED"
  <2>1. CASE Visible(t, x)
    <3>1. req'[q].rep = x /\ req'[q].copy = reps[x]
      BY <1>1, <1>3, <2>1 DEF FindById, Idle
    <3> QED
      BY <3>1 DEF DeletionSettled
  <2>2. CASE ~Visible(t, x)
    BY <1>1, <1>2, <1>3, <2>2 DEF FindById, Idle
  <2> QED
    BY <2>1, <2>2
<1>4. ASSUME NEW t \in Tenants, NEW i \in PersonalInfos,
             NEW b \in BusinessInfos \cup {Null}, NEW u \in RepIds \cup {Null},
             CreateRep(q, t, i, b, u)
      PROVE  FALSE
  <2>1. Control' /\ UNCHANGED reps
    BY <1>4, CreateRepKeeps DEF CreateRep
  <2>2. req'[q].op = "CreateRep" /\ req'[q].pc = "saving"
    BY <1>1, <1>2, <1>4 DEF CreateRep, Idle
  <2>3. reps'[r] = Null
    BY <2>1, <2>2 DEF Control, Phase, HoldsNewRep
  <2> QED
    BY <2>1, <2>3 DEF DeletionSettled
<1>5. ~HandlerThrows(q)
  BY <1>2, AnswerMoves DEF HandlerThrows
<1>6. ASSUME NEW op, NEW rep, NEW event, Mutated(q, op, rep, event)
      PROVE  /\ req[q].pc = "found" /\ req'[q].op = op /\ req'[q].copy = rep
             /\ req[q].rep = r
  BY <1>1, <1>6 DEF Mutated, Request
<1>7. ASSUME req[q].pc = "found", req[q].rep = r
      PROVE  Loaded(q) \in Rep /\ Loaded(q).status = "SOFT_DELETED"
  <2>1. req[q].op = Null /\ req[q].copy \in Rep
    BY <1>7 DEF Control, Phase, HoldsCopy
  <2>2. req[q].copy.status = "SOFT_DELETED"
    BY <1>7, <2>1, NullIsApartAssumption DEF DeletionSettled, InFlight, Ops
  <2>3. Loaded(q) \in Rep
    BY <1>7, LoadedType DEF SameIdentity
  <2> QED
    BY <2>1, <2>2, <2>3 DEF Loaded, Rep
<1>8. ~RestoreRep(q) /\ ~LinkRepToGroup(q)
  BY <1>6 DEF RestoreRep, LinkRepToGroup
<1>9. CASE SoftDeleteRep(q)
  <2>1. req'[q].copy = SoftDelete(Loaded(q)) /\ Loaded(q) \in Rep
    BY <1>6, <1>7, <1>9 DEF SoftDeleteRep
  <2> QED
    BY <2>1 DEF SoftDelete, Rep
<1>10. ASSUME \/ \E i \in PersonalInfos : UpdatePersonalInfo(q, i)
              \/ \E b \in BusinessInfos \cup {Null} : UpdateBusinessInfo(q, b)
              \/ \E a \in AccessControl : UpdateAccessControl(q, a)
              \/ \E s \in Subs : LinkKeycloakAccount(q, s)
       PROVE  req'[q].copy.status = "SOFT_DELETED"
  <2>1. /\ Loaded(q) \in Rep /\ Loaded(q).status = "SOFT_DELETED"
        /\ \E v : req'[q].copy \in {WithPersonalInfo(Loaded(q), v),
                                   WithBusinessInfo(Loaded(q), v),
                                   WithAccessControl(Loaded(q), v),
                                   WithKeycloakAccount(Loaded(q), v)}
    BY <1>6, <1>7, <1>10 DEF UpdatePersonalInfo, UpdateBusinessInfo,
       UpdateAccessControl, LinkKeycloakAccount
  <2> QED
    BY <2>1 DEF WithPersonalInfo, WithBusinessInfo, WithAccessControl,
       WithKeycloakAccount, Rep
<1> QED
  BY <1>3, <1>4, <1>5, <1>8, <1>9, <1>10 DEF HandlerStep

LEMMA DeletionLasts ==
    ASSUME Control, [Next]_vars, NEW r \in RepIds, DeletionSettled(r),
           \A q \in Requests : Saves(q, r) => req[q].op # "Restore"
    PROVE  DeletionSettled(r)'
<1>1. reps[r] # Null /\ reps'[r] # Null
  BY ControlStep DEF DeletionSettled, IdentityKept
<1>2. reps'[r].status = "SOFT_DELETED"
  <2>1. CASE reps'[r] = reps[r]
    BY <2>1 DEF DeletionSettled
  <2>2. CASE reps'[r] # reps[r]
    <3>1. PICK p \in Requests : Save(p)
      BY <2>2, OnlySavesWrite
    <3>2. /\ req[p].pc = "saving" /\ req[p].op # "LinkRepToGroup"
          /\ req[p].rep = r /\ Saves(p, r)
      BY <2>2, <3>1, SaveKeepsIdentity, CommitMoves DEF Save, Saves
    <3>3. reps'[r].status = req[p].copy.status
      BY <3>1, <3>2, StoredType, SaveKeepsIdentity
    <3> QED
      BY <3>2, <3>3 DEF DeletionSettled, InFlight
  <2> QED
    BY <2>1, <2>2
<1>3. ASSUME NEW q \in Requests, (q \in InFlight)', req'[q].rep = r,
             req'[q].op \notin {"Restore", "LinkRepToGroup"}
      PROVE  req'[q].copy.status = "SOFT_DELETED"
  <2>1. CASE req'[q] = req[q]
    BY <1>3, <2>1 DEF DeletionSettled, InFlight
  <2>2. CASE req'[q] # req[q]
    <3>1. PICK p \in Requests : \/ HandlerStep(p)
                                \/ Save(p) \/ SaveRelationship(p)
                                \/ SaveConflicts(p) \/ Fail(p)
      BY <2>2 DEF Next, vars
    <3>2. p = q
      BY <2>2, <3>1, HandlerMoves, CommitMoves, RefusalMoves
    <3>3. HandlerStep(q)
      BY <1>3, <3>1, <3>2, CommitMoves, RefusalMoves DEF InFlight
    <3> QED
      BY <1>3, <3>3, HandlersKeepDeletion
  <2> QED
    BY <2>1, <2>2
<1> QED
  BY <1>1, <1>2, <1>3 DEF DeletionSettled, InFlight

(* A soft delete is lost only to requests that had loaded the Rep before   *)
(* it: once none of them is left, nothing but the save of a restore()      *)
(* takes the Rep out of SOFT_DELETED again, however requests overlap.      *)
THEOREM SettledDeletionTheorem == Spec => SettledDeletionLasts
<1>1. Init => Control
  BY ControlInit
<1>2. Control /\ [Next]_vars => Control'
  BY ControlStep
<1>3. Control /\ [Next]_vars =>
        [\A r \in RepIds : DeletionSettled(r) /\ ~DeletionSettled(r)'
            => \E q \in Requests : Saves(q, r) /\ req[q].op = "Restore"]_vars
  BY DeletionLasts
<1> QED
  BY <1>1, <1>2, <1>3, PTL DEF Spec, SettledDeletionLasts

=============================================================================
