---------------------------- MODULE RepDirectory ----------------------------
(***************************************************************************)
(* The write side of the Rep directory: HTTP requests served concurrently  *)
(* by the command handlers over one PostgreSQL database.                   *)
(*                                                                         *)
(* Every handler has the same shape.  It loads a Rep in one transaction    *)
(* (findById, two SELECTs under READ COMMITTED: the row, then its platform *)
(* access), changes the entity in memory, and saves the whole entity in a  *)
(* second transaction together with its outbox events.  Nothing connects   *)
(* the two transactions: requests interleave between any two steps, and no *)
(* save compares the row it overwrites with the row the handler loaded.    *)
(*                                                                         *)
(* A transaction that writes holds the row lock from its upsert to its     *)
(* commit and readers see committed rows only, so a save is one action.    *)
(*                                                                         *)
(* Bounds.  A member of Requests is one HTTP request and is used once, so  *)
(* a behaviour has at most |Requests| saves.  MaxInFlight is how many are  *)
(* between arrival and answer at the same time.                            *)
(***************************************************************************)
EXTENDS RepEntity, Sequences, FiniteSets

CONSTANTS
    Requests,
    MaxInFlight,
    SeedTables   \* what `reps` may hold when the service starts

(* The unique indexes of `reps`: e-mail over all tenants, and the Keycloak *)
(* sub per tenant (NULLs do not collide).                                  *)
UniqueKeys(table) ==
    \A r, s \in {x \in RepIds : table[x] # Null} : r # s =>
        /\ table[r].personalInfo.email # table[s].personalInfo.email
        /\ \/ table[r].tenant # table[s].tenant
           \/ table[r].sub = Null
           \/ table[r].sub # table[s].sub

(* Every upline exists and is a Rep of the same tenant.                    *)
UplineInTenant(table) ==
    \A r \in RepIds :
        table[r] # Null /\ table[r].upline # Null =>
            /\ table[table[r].upline] # Null
            /\ table[table[r].upline].tenant = table[r].tenant

(* The downline hierarchy is a forest: no group of Reps in which everyone  *)
(* reports to a member of the group.                                       *)
NoUplineCycle(table) ==
    ~ \E S \in SUBSET RepIds :
        /\ S # {}
        /\ \A r \in S : table[r] # Null /\ table[r].upline \in S

ASSUME SeedAssumption ==
    \A table \in SeedTables :
        /\ table \in [RepIds -> Rep \cup {Null}]
        /\ UniqueKeys(table)
        /\ UplineInTenant(table)
        /\ NoUplineCycle(table)

Ops == {"CreateRep", "UpdatePersonalInfo", "UpdateBusinessInfo",
        "UpdateAccessControl", "SoftDelete", "Restore",
        "LinkKeycloakAccount", "LinkRepToGroup"}

EventType == {"RepCreated", "RepPersonalInfoUpdated",
              "RepBusinessInfoUpdated", "RepSoftDeleted", "RepRestored",
              "RepKeycloakAccountLinked", "RepGroupLinked"}

(* A row of outbox_events.  value is its payload (names and e-mail, the    *)
(* business name, or the sub); by, which the table does not hold, is the   *)
(* request whose transaction wrote it.                                     *)
Event == [type   : EventType,
          tenant : Tenants,
          by     : Requests,
          value  : Payloads]

(* The status class of the answer; "5xx" also stands for no answer at all. *)
Resp == {"2xx", "404", "409", "5xx"}

ASSUME NullIsApartAssumption == Null \notin Event \cup Ops \cup Resp

VARIABLES
    reps,          \* the table `reps` with rep_platform_access
    outbox,        \* per aggregateId, its outbox_events as committed
    relationships, \* repIds with a row in party_relationships
    req            \* per request, where its handler stands

vars == <<reps, outbox, relationships, req>>

Idle == [pc     |-> "idle",  \* then "found", "saving", "done"
         op     |-> Null,
         tenant |-> Null,
         rep    |-> Null,
         copy   |-> Null,    \* the entity in the handler's memory
         event  |-> Null,    \* its domain event, not yet written
         resp   |-> Null]

Request == [pc     : {"idle", "found", "saving", "done"},
            op     : Ops \cup {Null},
            tenant : Tenants \cup {Null},
            rep    : RepIds \cup {Null},
            copy   : Rep \cup {Null},
            event  : Event \cup {Null},
            resp   : Resp \cup {Null}]

TypeOK ==
    /\ reps \in [RepIds -> Rep \cup {Null}]
    /\ outbox \in [RepIds -> Seq(Event)]
    /\ relationships \subseteq RepIds
    /\ req \in [Requests -> Request]

Init ==
    /\ reps \in SeedTables
    /\ outbox = [r \in RepIds |-> <<>>]
    /\ relationships = {}
    /\ req = [q \in Requests |-> Idle]

-----------------------------------------------------------------------------
InFlight == {q \in Requests : req[q].pc \in {"found", "saving"}}

Arrives(q) ==
    /\ req[q].pc = "idle"
    /\ Cardinality(InFlight) < MaxInFlight

(* Mutant: a transaction that reads without row-level security.            *)
VisibleToAnyTenant(tenant, r) == reps[r] # Null

(* Row-level security: a transaction of a tenant reads that tenant's rows. *)
Visible(tenant, r) == reps[r] # Null /\ reps[r].tenant = tenant

Answer(q, resp) ==
    req' = [req EXCEPT ![q].pc = "done", ![q].resp = resp,
                       ![q].copy = Null, ![q].event = Null]

EventOf(q, type, value) ==
    [type |-> type, tenant |-> req[q].tenant, by |-> q, value |-> value]

(* Mutant: the id of a new Rep comes from the caller.                      *)
CallerChosenId(r) == TRUE

(* randomUUID(): an id no row has and no other create has drawn.           *)
FreshId(r) ==
    /\ reps[r] = Null
    /\ \A p \in Requests : ~(req[p].op = "CreateRep" /\ req[p].rep = r)

(***************************************************************************)
(* A request arrives and its handler's findById reads the row; a row that  *)
(* is absent or another tenant's is a 404.  Which of the handlers runs     *)
(* only matters from the next step on, so it is chosen there.              *)
(***************************************************************************)
FindById(q, tenant, r) ==
    /\ Arrives(q)
    /\ req' = [req EXCEPT ![q] =
           IF Visible(tenant, r)
           THEN [Idle EXCEPT !.pc = "found", !.tenant = tenant,
                             !.rep = r, !.copy = reps[r]]
           ELSE [Idle EXCEPT !.pc = "done", !.tenant = tenant,
                             !.rep = r, !.resp = "404"]]
    /\ UNCHANGED <<reps, outbox, relationships>>

(* Mutant: findById forgets to map uplineRepId.                            *)
LoadedWithoutUpline(q) ==
    [req[q].copy EXCEPT !.access = reps[req[q].rep].access, !.upline = Null]

(* Mutant: findById forgets to include platformAccess.                     *)
LoadedWithoutAccess(q) ==
    [req[q].copy EXCEPT !.access = [p \in Platforms |-> "ABSENT"]]

(* Mutant: findById forgets to map the status, which defaults to ACTIVE.   *)
LoadedAsActive(q) ==
    [req[q].copy EXCEPT !.access = reps[req[q].rep].access, !.status = "ACTIVE"]

(* The entity findById returns: the row read earlier, the access rows as   *)
(* committed now.                                                          *)
Loaded(q) == [req[q].copy EXCEPT !.access = reps[req[q].rep].access]

(* The handler has changed the entity and is about to save it.             *)
Mutated(q, op, rep, event) ==
    /\ req[q].pc = "found"
    /\ req' = [req EXCEPT ![q].pc = "saving", ![q].op = op,
                          ![q].copy = rep, ![q].event = event]
    /\ UNCHANGED <<reps, outbox, relationships>>

(* CreateRepHandler: the upline, if one is named, must be visible in a     *)
(* transaction of its own; the Rep is then built in memory.                *)
CreateRep(q, tenant, personalInfo, businessInfo, upline) ==
    /\ Arrives(q)
    /\ \E r \in RepIds :
        /\ FreshId(r)
        /\ req' = [req EXCEPT ![q] =
             IF upline = Null \/ Visible(tenant, upline)
             THEN [pc |-> "saving", op |-> "CreateRep", tenant |-> tenant,
                   rep |-> r, resp |-> Null,
                   copy |-> NewRep(tenant, personalInfo, businessInfo, upline),
                   event |-> [type |-> "RepCreated", tenant |-> tenant,
                              by |-> q,
                              value |-> PersonalPayload(personalInfo)]]
             ELSE [Idle EXCEPT !.pc = "done", !.op = "CreateRep",
                               !.tenant = tenant, !.rep = r,
                               !.resp = "404"]]
    /\ UNCHANGED <<reps, outbox, relationships>>

(* The whole value object replaces the Rep's; the event carries a part.    *)
UpdatePersonalInfo(q, info) ==
    Mutated(q, "UpdatePersonalInfo", WithPersonalInfo(Loaded(q), info),
            EventOf(q, "RepPersonalInfoUpdated", PersonalPayload(info)))

UpdateBusinessInfo(q, info) ==
    Mutated(q, "UpdateBusinessInfo", WithBusinessInfo(Loaded(q), info),
            EventOf(q, "RepBusinessInfoUpdated", BusinessPayload(info)))

(* updateAccessControl() raises no event.                                  *)
UpdateAccessControl(q, access) ==
    Mutated(q, "UpdateAccessControl", WithAccessControl(Loaded(q), access),
            Null)

(* Mutant: the handler sets the status without asking the entity.          *)
SoftDeleteUnchecked(q) ==
    Mutated(q, "SoftDelete", SoftDelete(Loaded(q)),
            EventOf(q, "RepSoftDeleted", Null))

SoftDeleteRep(q) ==
    /\ req[q].pc = "found"
    /\ CanSoftDelete(req[q].copy)
    /\ Mutated(q, "SoftDelete", SoftDelete(Loaded(q)),
               EventOf(q, "RepSoftDeleted", Null))

RestoreRep(q) ==
    /\ req[q].pc = "found"
    /\ CanRestore(req[q].copy)
    /\ Mutated(q, "Restore", Restore(Loaded(q)),
               EventOf(q, "RepRestored", Null))

(* Linking the sub it already has raises no event, but the Rep is saved    *)
(* all the same.                                                           *)
LinkKeycloakAccount(q, sub) ==
    Mutated(q, "LinkKeycloakAccount", WithKeycloakAccount(Loaded(q), sub),
            IF req[q].copy.sub = sub THEN Null
            ELSE EventOf(q, "RepKeycloakAccountLinked", sub))

(* Only the Rep's id goes on from here; its status is not looked at.       *)
LinkRepToGroup(q) ==
    Mutated(q, "LinkRepToGroup", Null, EventOf(q, "RepGroupLinked", Null))

(* The entity or a value object throws: softDelete() or restore() in the   *)
(* wrong status, a blank name or e-mail.  rethrowAsHttp leaves it a 500.   *)
(* Blank input is always possible, so no guard names the status.           *)
HandlerThrows(q) ==
    /\ req[q].pc = "found"
    /\ Answer(q, "5xx")
    /\ UNCHANGED <<reps, outbox, relationships>>

-----------------------------------------------------------------------------
(* Mutant: the e-mail is unique per tenant only.                           *)
EmailTakenInTenant(q) ==
    \E s \in RepIds \ {req[q].rep} :
        /\ reps[s] # Null
        /\ reps[s].tenant = req[q].tenant
        /\ reps[s].personalInfo.email = req[q].copy.personalInfo.email

EmailTaken(q) ==
    \E s \in RepIds \ {req[q].rep} :
        /\ reps[s] # Null
        /\ reps[s].personalInfo.email = req[q].copy.personalInfo.email

SubTaken(q) ==
    /\ req[q].copy.sub # Null
    /\ \E s \in RepIds \ {req[q].rep} :
        /\ reps[s] # Null
        /\ reps[s].tenant = req[q].tenant
        /\ reps[s].sub = req[q].copy.sub

(* The upsert: the insert stamps the caller's tenant, the update writes    *)
(* every column but the tenant; the access rows are replaced.              *)
Stored(q) ==
    LET r == req[q].rep IN
    IF reps[r] = Null
    THEN [req[q].copy EXCEPT !.tenant = req[q].tenant]
    ELSE [req[q].copy EXCEPT !.tenant = reps[r].tenant,
                             !.saves = reps[r].saves + 1]

(* Mutant: the events are written after the commit, and may be lost.       *)
WriteAllAfterCommit(q) ==
    \/ UNCHANGED outbox
    \/ /\ req[q].event # Null
       /\ outbox' = [outbox EXCEPT ![req[q].rep] = Append(@, req[q].event)]

(* OutboxService.writeAll, inside the saving transaction.                  *)
WriteAll(q) ==
    outbox' = IF req[q].event = Null THEN outbox
              ELSE [outbox EXCEPT ![req[q].rep] = Append(@, req[q].event)]

(***************************************************************************)
(* RepRepository.save commits.  The answer is a 2xx unless the commit's    *)
(* acknowledgement, or the answer itself, is lost.                         *)
(***************************************************************************)
Save(q) ==
    /\ req[q].pc = "saving"
    /\ req[q].op # "LinkRepToGroup"
    /\ ~EmailTaken(q)
    /\ ~SubTaken(q)
    /\ reps' = [reps EXCEPT ![req[q].rep] = Stored(q)]
    /\ WriteAll(q)
    /\ \E resp \in {"2xx", "5xx"} : Answer(q, resp)
    /\ UNCHANGED relationships

(* P2002.  Only a conflict reported on keycloakUserId becomes a 409, and   *)
(* createRep, whose sub is null, cannot meet it.                           *)
SaveConflicts(q) ==
    /\ req[q].pc = "saving"
    /\ req[q].op # "LinkRepToGroup"
    /\ \/ EmailTaken(q) /\ Answer(q, "5xx")
       \/ SubTaken(q) /\ Answer(q, "409")
    /\ UNCHANGED <<reps, outbox, relationships>>

(* PartyRelationshipRepository.save: the transaction writes the event; the *)
(* row itself is a TODO in the code.                                       *)
SaveRelationship(q) ==
    /\ req[q].pc = "saving"
    /\ req[q].op = "LinkRepToGroup"
    /\ WriteAll(q)
    /\ \E resp \in {"2xx", "5xx"} : Answer(q, resp)
    /\ UNCHANGED <<reps, relationships>>

(* The process dies, or the database refuses, before the save commits.     *)
Fail(q) ==
    /\ req[q].pc = "saving"
    /\ Answer(q, "5xx")
    /\ UNCHANGED <<reps, outbox, relationships>>

(* What a handler does before its save. *)
HandlerStep(q) ==
    \/ \E t \in Tenants, r \in RepIds : FindById(q, t, r)
    \/ \E t \in Tenants, i \in PersonalInfos, b \in BusinessInfos \cup {Null},
          u \in RepIds \cup {Null} : CreateRep(q, t, i, b, u)
    \/ \E i \in PersonalInfos : UpdatePersonalInfo(q, i)
    \/ \E b \in BusinessInfos \cup {Null} : UpdateBusinessInfo(q, b)
    \/ \E a \in AccessControl : UpdateAccessControl(q, a)
    \/ SoftDeleteRep(q)
    \/ RestoreRep(q)
    \/ \E s \in Subs : LinkKeycloakAccount(q, s)
    \/ LinkRepToGroup(q)
    \/ HandlerThrows(q)

Next == \E q \in Requests :
    \/ HandlerStep(q)
    \/ Save(q)
    \/ SaveConflicts(q)
    \/ SaveRelationship(q)
    \/ Fail(q)

Spec == Init /\ [][Next]_vars

-----------------------------------------------------------------------------
(***************************************************************************)
(* Safety.                                                                 *)
(***************************************************************************)

(* The hierarchy survives concurrent creates, whose upline check runs in   *)
(* an earlier transaction than their insert, and full-row overwrites: an   *)
(* upline always exists, is of the same tenant, and nobody is their own    *)
(* ancestor.  (Nothing but CreateRepHandler's check keeps the tenant: the  *)
(* foreign key is not restricted by row-level security.)                   *)
Hierarchy == UplineInTenant(reps) /\ NoUplineCycle(reps)

(* However requests interleave, no two Reps share an e-mail, and no two    *)
(* Reps of a tenant share a Keycloak sub.                                  *)
KeysStayUnique == UniqueKeys(reps)

(* A request acts inside its own tenant: what it has loaded, the events it *)
(* is about to write or has written, and the Rep it has been told 2xx      *)
(* about all belong to the tenant its header named.                        *)
TenantIsolation ==
    /\ \A q \in Requests :
        /\ req[q].copy # Null => req[q].copy.tenant = req[q].tenant
        /\ req[q].event # Null => req[q].event.tenant = req[q].tenant
        /\ req[q].resp = "2xx" => Visible(req[q].tenant, req[q].rep)
    /\ \A r \in RepIds : \A i \in DOMAIN outbox[r] :
        Visible(outbox[r][i].tenant, r)

IsCreated(r) == \E i \in DOMAIN outbox[r] : outbox[r][i].type = "RepCreated"

(* No handler calls approve(), and softDelete() and restore() refuse a     *)
(* pending Rep: a Rep created by this service stays PENDING_APPROVAL,      *)
(* whatever is interleaved with what.                                      *)
CreatedStaysPending ==
    \A r \in RepIds : IsCreated(r) => reps[r].status = "PENDING_APPROVAL"

(* What consumers hear of a Rep created by the service starts with         *)
(* RepCreated, and they hear that once.                                    *)
CreatedComesFirst ==
    \A r \in RepIds : IsCreated(r) =>
        \A i \in DOMAIN outbox[r] :
            (outbox[r][i].type = "RepCreated") <=> (i = 1)

(* The places of the outbox that hold an event of q.                       *)
EventsBy(q) ==
    UNION {{r} \X {i \in DOMAIN outbox[r] : outbox[r][i].by = q} : r \in RepIds}

(* Operations whose every successful call raises an event.                 *)
AlwaysTold == Ops \ {"UpdateAccessControl", "LinkKeycloakAccount"}

(* The answer agrees with the outbox, for every request and across the     *)
(* loss of acknowledgements: a request writes at most one event, none      *)
(* before its save commits, none at all if it was told 404 or 409, and if  *)
(* it was told 2xx its event is there                                      *)
(* ("events are guaranteed to be in the outbox before the HTTP response"). *)
OutcomeMatchesOutbox ==
    \A q \in Requests :
        /\ \A x, y \in EventsBy(q) : x = y
        /\ req[q].pc # "done" \/ req[q].resp \in {"404", "409"}
               => EventsBy(q) = {}
        /\ req[q].resp = "2xx" /\ req[q].op \in AlwaysTold
               => \E x \in EventsBy(q) : x[1] = req[q].rep

(***************************************************************************)
(* What one step may do.                                                   *)
(***************************************************************************)

(* Even a stale full-row write leaves who a Rep is alone: rows are never   *)
(* deleted, and the tenant and the upline are those the Rep was created    *)
(* with.                                                                   *)
IdentityIsPermanent ==
    [][\A r \in RepIds : reps[r] # Null =>
          /\ reps'[r] # Null
          /\ reps'[r].tenant = reps[r].tenant
          /\ reps'[r].upline = reps[r].upline]_vars

(* The request whose save this step commits. *)
Saves(q, r) ==
    /\ req[q].pc = "saving"
    /\ req'[q].pc = "done"
    /\ req[q].rep = r

(* The handler loaded the very row its save overwrites.                    *)
IsFresh(q) == req[q].copy.saves = reps[req[q].rep].saves

(* What events can tell of a Rep.                                          *)
Surfaced(rep) ==
    [personal |-> PersonalPayload(rep.personalInfo),
     business |-> BusinessPayload(rep.businessInfo),
     status   |-> rep.status,
     sub      |-> rep.sub]

(* What a consumer that knows view of a Rep knows after the next event.    *)
Told(view, event) ==
    CASE event.type = "RepPersonalInfoUpdated" ->
            [view EXCEPT !.personal = event.value]
      [] event.type = "RepBusinessInfoUpdated" ->
            [view EXCEPT !.business = event.value]
      [] event.type = "RepSoftDeleted" -> [view EXCEPT !.status = "SOFT_DELETED"]
      [] event.type = "RepRestored" -> [view EXCEPT !.status = "ACTIVE"]
      [] event.type = "RepKeycloakAccountLinked" ->
            [view EXCEPT !.sub = event.value]
      [] OTHER -> view

(* The part of a Rep an operation is about.                                *)
Concern == [UpdatePersonalInfo  |-> "personalInfo",
            UpdateBusinessInfo  |-> "businessInfo",
            UpdateAccessControl |-> "access",
            SoftDelete          |-> "status",
            Restore             |-> "status",
            LinkKeycloakAccount |-> "sub"]

(* As long as nobody overwrites a newer row, the outbox tells the whole    *)
(* story of what events speak of, and nobody's change touches another's: a *)
(* save of a Rep that was not saved by someone else since it was loaded    *)
(* moves what consumers know of it exactly as its event says, and leaves   *)
(* every part of the Rep but the one the request is about as it was.  In   *)
(* particular the access rows, read by a second statement, are never a     *)
(* stale mix then.                                                         *)
FreshSaveIsTold ==
    [][\A r \in RepIds, q \in Requests :
          Saves(q, r) /\ reps[r] # Null /\ reps'[r] # reps[r] /\ IsFresh(q)
          => /\ Surfaced(reps'[r]) =
                    IF outbox'[r] = outbox[r] THEN Surfaced(reps[r])
                    ELSE Told(Surfaced(reps[r]), outbox'[r][Len(outbox'[r])])
             /\ \A part \in DOMAIN reps[r] \ {Concern[req[q].op], "saves"} :
                    reps'[r][part] = reps[r][part]]_vars

(* r is soft-deleted, and whoever is about to save it has seen that or is  *)
(* about to restore it.                                                    *)
DeletionSettled(r) ==
    /\ reps[r] # Null
    /\ reps[r].status = "SOFT_DELETED"
    /\ \A q \in InFlight :
        req[q].rep = r /\ req[q].op \notin {"Restore", "LinkRepToGroup"}
            => req[q].copy.status = "SOFT_DELETED"

(* A soft delete can be lost only to requests that loaded the Rep before   *)
(* it and are not answered yet.  Once there are none, no overlap of later  *)
(* requests, no stale save among them and no lost answer brings the Rep    *)
(* back, and none gets to a point from which it could: that takes the save *)
(* of a restore().                                                         *)
SettledDeletionLasts ==
    [][\A r \in RepIds : DeletionSettled(r) /\ ~DeletionSettled(r)'
          => \E q \in Requests : Saves(q, r) /\ req[q].op = "Restore"]_vars

(***************************************************************************)
(* Requests that do not overlap implement the abstract lifecycle: with     *)
(* MaxInFlight = 1 every step of the handlers, with every lost             *)
(* acknowledgement and every failure between two transactions, is one move *)
(* of RepLifecycle or none.  (With overlapping requests it is not; the     *)
(* refuted statements below are how that shows.)                           *)
(***************************************************************************)
Lifecycle == INSTANCE RepLifecycle WITH
    rep  <- [r \in RepIds |->
                IF reps[r] = Null THEN Null ELSE [reps[r] EXCEPT !.saves = 0]],
    told <- [r \in RepIds |->
                [i \in DOMAIN outbox[r] |-> [type  |-> outbox[r][i].type,
                                             value |-> outbox[r][i].value]]]

ImplementsLifecycle == Lifecycle!Spec

(* Overlap alone does no harm, overwriting a newer row does: however many  *)
(* requests overlap, a step whose save overwrites the very row its handler *)
(* loaded is one move of RepLifecycle, told by one event, and every other  *)
(* step but a stale save is one such move or none.                         *)
FreshStepsAreMoves ==
    [][(\A q \in Requests :
            Save(q) /\ req[q].op # "CreateRep" => IsFresh(q))
        => UNCHANGED Lifecycle!lifecycleVars \/ Lifecycle!Next]_vars

(***************************************************************************)
(* Statements of the repository's documentation that the code does not     *)
(* keep when requests overlap; each is refuted by a run of its own.        *)
(***************************************************************************)

(* rep.entity.ts:184: restore() is "the only valid path out of             *)
(* SOFT_DELETED".  A stale save is another.                                *)
OnlyRestoreLeavesSoftDeleted ==
    [][\A r \in RepIds :
          /\ reps[r] # Null
          /\ reps[r].status = "SOFT_DELETED"
          /\ reps'[r].status # "SOFT_DELETED"
          => \E q \in Requests : Saves(q, r) /\ req[q].op = "Restore"]_vars

(* README.md:177: "All write operations emit domain events via the         *)
(* transactional outbox".                                                  *)
WritesEmitEvents ==
    [][\A r \in RepIds :
          reps[r] # Null /\ [reps'[r] EXCEPT !.saves = 0]
                            # [reps[r] EXCEPT !.saves = 0]
          => outbox'[r] # outbox[r]]_vars

(* schema.prisma:261: "Domain events are written here in the same DB       *)
(* transaction as the aggregate save", so a RepGroupLinked event has its   *)
(* relationship row beside it.                                             *)
LinkedMeansRelationship ==
    \A r \in RepIds :
        (\E i \in DOMAIN outbox[r] : outbox[r][i].type = "RepGroupLinked")
        => r \in relationships

=============================================================================
