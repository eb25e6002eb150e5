------------------------- MODULE RepDirectoryProofs -------------------------
(***************************************************************************)
(* Theorems about RepDirectory, for every set of requests, Reps, tenants   *)
(* and keys, every limit of overlapping requests and every seeded table.   *)
(*                                                                         *)
(* TypeOK is not inductive by itself: what a handler holds in memory must  *)
(* be related to the tables for its save to keep them well formed.         *)
(* Phase(q) says how, for each point a handler can stand at, and           *)
(* Control is what the proofs carry from step to step.                     *)
(***************************************************************************)
EXTENDS RepDirectory, TLAPS

(* The entity in q's memory is a Rep of q's tenant below the upline its    *)
(* row has.  Nothing is said of its other fields: they may be stale.       *)
HoldsCopy(q) ==
    /\ Visible(req[q].tenant, req[q].rep)
    /\ req[q].copy \in Rep
    /\ req[q].copy.tenant = req[q].tenant
    /\ req[q].copy.upline = reps[req[q].rep].upline

(* The entity in q's memory is a new Rep, which nobody has stored yet.     *)
HoldsNewRep(q) ==
    /\ reps[req[q].rep] = Null
    /\ req[q].copy \in Rep
    /\ req[q].copy.tenant = req[q].tenant
    /\ req[q].copy.status = "PENDING_APPROVAL"
    /\ \/ req[q].copy.upline = Null
       \/ Visible(req[q].tenant, req[q].copy.upline)
    /\ req[q].event # Null

HoldsEvent(q) ==
    req[q].event # Null =>
        /\ req[q].event.tenant = req[q].tenant
        /\ req[q].event.by = q
        /\ req[q].event.type = "RepCreated" <=> req[q].op = "CreateRep"

Phase(q) ==
    /\ req[q].pc \in {"idle", "done"} =>
        req[q].copy = Null /\ req[q].event = Null
    /\ req[q].pc # "idle" => req[q].tenant \in Tenants /\ req[q].rep \in RepIds
    /\ req[q].pc # "done" => req[q].resp = Null
    /\ req[q].pc = "found" =>
        HoldsCopy(q) /\ req[q].op = Null /\ req[q].event = Null
    /\ req[q].pc = "saving" =>
        /\ req[q].op \in Ops
        /\ HoldsEvent(q)
        /\ req[q].op = "CreateRep" => HoldsNewRep(q)
        /\ req[q].op = "LinkRepToGroup" =>
            /\ Visible(req[q].tenant, req[q].rep)
            /\ req[q].copy = Null
            /\ req[q].event # Null
        /\ req[q].op \notin {"CreateRep", "LinkRepToGroup"} => HoldsCopy(q)

(* No two creates have drawn the same id. *)
CreatesDiffer ==
    \A p, q \in Requests :
        /\ req[p].op = "CreateRep"
        /\ req[q].op = "CreateRep"
        /\ req[p].rep = req[q].rep
        => p = q

Control ==
    /\ TypeOK
    /\ \A q \in Requests : Phase(q)
    /\ CreatesDiffer

(* A step keeps rows, their tenants and their uplines. *)
IdentityKept ==
    \A r \in RepIds : reps[r] # Null =>
        /\ reps'[r] # Null
        /\ reps'[r].tenant = reps[r].tenant
        /\ reps'[r].upline = reps[r].upline

-----------------------------------------------------------------------------
(***************************************************************************)
(* The entity's methods map Reps to Reps, and leave the identity alone.    *)
(***************************************************************************)
LEMMA NewRepType ==
    ASSUME NEW t \in Tenants, NEW i \in PersonalInfos,
           NEW b \in BusinessInfos \cup {Null}, NEW u \in RepIds \cup {Null}
    PROVE  /\ NewRep(t, i, b, u) \in Rep
           /\ NewRep(t, i, b, u).tenant = t
           /\ NewRep(t, i, b, u).upline = u
           /\ NewRep(t, i, b, u).status = "PENDING_APPROVAL"
BY DEF NewRep, Rep, DefaultForNewRep, AccessControl, AccessLevel, RepStatus

SameIdentity(rep, new) ==
    /\ new \in Rep
    /\ new.tenant = rep.tenant
    /\ new.upline = rep.upline

LEMMA MethodTypes ==
    ASSUME NEW rep \in Rep
    PROVE  /\ SameIdentity(rep, SoftDelete(rep))
           /\ SameIdentity(rep, Restore(rep))
           /\ \A i \in PersonalInfos :
                SameIdentity(rep, WithPersonalInfo(rep, i))
           /\ \A b \in BusinessInfos \cup {Null} :
                SameIdentity(rep, WithBusinessInfo(rep, b))
           /\ \A a \in AccessControl :
                SameIdentity(rep, WithAccessControl(rep, a))
           /\ \A s \in Subs : SameIdentity(rep, WithKeycloakAccount(rep, s))
BY DEF Rep, RepStatus, SoftDelete, Restore, WithPersonalInfo,
       WithBusinessInfo, WithAccessControl, WithKeycloakAccount, SameIdentity

(* Whatever happens to the rest, one request's Phase only depends on its   *)
(* own record and on the rows it refers to.                                *)
LEMMA PhaseFrame ==
    ASSUME Control, IdentityKept, NEW p \in Requests, req'[p] = req[p],
           req[p].pc = "saving" /\ req[p].op = "CreateRep"
               => reps'[req[p].rep] = Null
    PROVE  Phase(p)'
BY DEF Control, IdentityKept, Phase, HoldsCopy, HoldsNewRep, HoldsEvent,
       Visible, TypeOK, Request, Rep


(* What is left to show of a step that moves one request to new: that the  *)
(* request itself stands right, that no row was created or changed under   *)
(* somebody else's feet, and that a create has drawn a fresh id.           *)
LEMMA MovesOne ==
    ASSUME Control, NEW q \in Requests, NEW new \in Request,
           req' = [req EXCEPT ![q] = new],
           reps' \in [RepIds -> Rep \cup {Null}],
           outbox' \in [RepIds -> Seq(Event)],
           relationships' \subseteq RepIds,
           IdentityKept,
           \A p \in Requests \ {q} :
                /\ req[p].pc = "saving"
                /\ req[p].op = "CreateRep"
                => reps'[req[p].rep] = Null,
           new.op = "CreateRep" =>
                \A p \in Requests \ {q} :
                    req[p].op = "CreateRep" => req[p].rep # new.rep,
           Phase(q)'
    PROVE  Control'
<1>1. TypeOK'
  BY DEF Control, TypeOK
<1>2. req'[q] = new /\ \A p \in Requests \ {q} : req'[p] = req[p]
  BY DEF Control, TypeOK
<1>3. ASSUME NEW p \in Requests \ {q} PROVE Phase(p)'
  BY <1>2, <1>3, PhaseFrame
<1>4. CreatesDiffer'
  BY <1>2 DEF Control, CreatesDiffer
<1> QED
  BY <1>1, <1>3, <1>4 DEF Control

(* Most steps leave the tables alone, and then only the request itself is  *)
(* left to look at.                                                        *)
LEMMA MovesOnlyOne ==
    ASSUME Control, NEW q \in Requests, NEW new \in Request,
           req' = [req EXCEPT ![q] = new],
           UNCHANGED <<reps, outbox, relationships>>,
           new.op = "CreateRep" =>
                \A p \in Requests \ {q} :
                    req[p].op = "CreateRep" => req[p].rep # new.rep,
           Phase(q)'
    PROVE  Control'
<1>1. IdentityKept
  BY DEF IdentityKept
<1>2. /\ reps' \in [RepIds -> Rep \cup {Null}]
      /\ outbox' \in [RepIds -> Seq(Event)]
      /\ relationships' \subseteq RepIds
  BY DEF Control, TypeOK
<1>3. \A p \in Requests \ {q} :
        req[p].pc = "saving" /\ req[p].op = "CreateRep"
            => reps'[req[p].rep] = Null
  BY DEF Control, Phase, HoldsNewRep
<1> QED
  BY <1>1, <1>2, <1>3, MovesOne

-----------------------------------------------------------------------------
(***************************************************************************)
(* Control is preserved: one lemma per kind of step.                       *)
(***************************************************************************)

(* findById: the handler now holds the row as committed, or is done. *)
LEMMA FindByIdKeeps ==
    ASSUME Control, NEW q \in Requests, NEW t \in Tenants, NEW r \in RepIds,
           FindById(q, t, r)
    PROVE  Control'
<1> DEFINE new == IF Visible(t, r)
                  THEN [Idle EXCEPT !.pc = "found", !.tenant = t,
                                    !.rep = r, !.copy = reps[r]]
                  ELSE [Idle EXCEPT !.pc = "done", !.tenant = t,
                                    !.rep = r, !.resp = "404"]
<1>1. /\ req' = [req EXCEPT ![q] = new]
      /\ UNCHANGED <<reps, outbox, relationships>>
  BY DEF FindById
<1>2. reps[r] # Null => reps[r] \in Rep
  BY DEF Control, TypeOK
<1>3. new \in Request
  BY <1>2 DEF Idle, Request, Visible, Resp
<1>4. new.op # "CreateRep"
  BY NullIsApartAssumption DEF Idle, Ops
<1>5. req'[q] = new
  BY <1>1 DEF Control, TypeOK
<1>6. CASE Visible(t, r)
  <2>1. /\ req'[q].pc = "found"   /\ req'[q].event = Null
        /\ req'[q].tenant = t     /\ req'[q].rep = r
        /\ req'[q].copy = reps[r] /\ req'[q].resp = Null
        /\ req'[q].op = Null
    BY <1>5, <1>6 DEF Idle
  <2>2. HoldsCopy(q)'
    BY <1>1, <1>2, <1>6, <2>1 DEF HoldsCopy, Visible
  <2>3. Phase(q)'
    BY <2>1, <2>2 DEF Phase
  <2> QED
    BY <1>1, <1>3, <1>4, <2>3, MovesOnlyOne
<1>7. CASE ~Visible(t, r)
  <2>1. /\ req'[q].pc = "done"  /\ req'[q].tenant = t /\ req'[q].rep = r
        /\ req'[q].copy = Null  /\ req'[q].event = Null
    BY <1>5, <1>7 DEF Idle
  <2>2. Phase(q)'
    BY <2>1 DEF Phase
  <2> QED
    BY <1>1, <1>3, <1>4, <2>2, MovesOnlyOne
<1> QED
  BY <1>6, <1>7

(* Whatever a request brings, an event can carry its part of it.           *)
LEMMA PayloadType ==
    /\ \A i \in PersonalInfos : PersonalPayload(i) \in Payloads
    /\ \A b \in BusinessInfos \cup {Null} : BusinessPayload(b) \in Payloads
    /\ Subs \cup {Null} \subseteq Payloads
BY DEF Payloads, BusinessPayload

(* createRep: the entity built in memory is new, below a visible upline. *)
LEMMA CreateRepKeeps ==
    ASSUME Control, NEW q \in Requests, NEW t \in Tenants,
           NEW i \in PersonalInfos, NEW b \in BusinessInfos \cup {Null},
           NEW u \in RepIds \cup {Null}, CreateRep(q, t, i, b, u)
    PROVE  Control'
<1>1. PICK r \in RepIds :
        /\ FreshId(r)
        /\ req' = [req EXCEPT ![q] =
             IF u = Null \/ Visible(t, u)
             THEN [pc |-> "saving", op |-> "CreateRep", tenant |-> t,
                   rep |-> r, resp |-> Null, copy |-> NewRep(t, i, b, u),
                   event |-> [type |-> "RepCreated", tenant |-> t,
                              by |-> q, value |-> PersonalPayload(i)]]
             ELSE [Idle EXCEPT !.pc = "done", !.op = "CreateRep",
                               !.tenant = t, !.rep = r, !.resp = "404"]]
  BY DEF CreateRep
<1>2. UNCHANGED <<reps, outbox, relationships>>
  BY DEF CreateRep
<1> DEFINE event == [type |-> "RepCreated", tenant |-> t,
                     by |-> q, value |-> PersonalPayload(i)]
           born == [pc |-> "saving", op |-> "CreateRep", tenant |-> t,
                    rep |-> r, resp |-> Null, copy |-> NewRep(t, i, b, u),
                    event |-> event]
           refused == [Idle EXCEPT !.pc = "done", !.op = "CreateRep",
                                   !.tenant = t, !.rep = r, !.resp = "404"]
<1>3. event \in Event
  BY PayloadType DEF Event, EventType
<1>4. NewRep(t, i, b, u) \in Rep
  BY NewRepType
<1>5. born \in Request /\ refused \in Request
  BY <1>3, <1>4 DEF Request, Idle, Ops, Resp
<1>6. \A p \in Requests \ {q} : req[p].op = "CreateRep" => req[p].rep # r
  BY <1>1 DEF FreshId
<1>7. CASE u = Null \/ Visible(t, u)
  <2>1. req' = [req EXCEPT ![q] = born]
    BY <1>1, <1>7
  <2>2. req'[q] = born
    BY <2>1 DEF Control, TypeOK
  <2>3. event # Null
    BY <1>3, NullIsApartAssumption
  <2>4. HoldsNewRep(q)'
    BY <1>1, <1>2, <1>7, <2>2, <2>3, NewRepType
    DEF HoldsNewRep, FreshId, Visible
  <2>5. Phase(q)'
    BY <2>2, <2>4 DEF Phase, HoldsEvent, Ops
  <2> QED
    BY <1>2, <1>5, <1>6, <2>1, <2>5, MovesOnlyOne
<1>8. CASE ~(u = Null \/ Visible(t, u))
  <2>1. req' = [req EXCEPT ![q] = refused]
    BY <1>1, <1>8
  <2>2. req'[q] = refused
    BY <2>1 DEF Control, TypeOK
  <2>3. Phase(q)'
    BY <2>2 DEF Phase, Idle
  <2> QED
    BY <1>2, <1>5, <1>6, <2>1, <2>3, MovesOnlyOne DEF Idle
<1> QED
  BY <1>7, <1>8

(* The entity findById returns is the Rep the request is about.            *)
LEMMA LoadedType ==
    ASSUME Control, NEW q \in Requests, req[q].pc = "found"
    PROVE  SameIdentity(req[q].copy, Loaded(q))
<1>1. HoldsCopy(q) /\ req[q].rep \in RepIds
  BY DEF Control, Phase
<1>2. reps[req[q].rep] \in Rep
  BY <1>1 DEF Control, TypeOK, HoldsCopy, Visible
<1> QED
  BY <1>1, <1>2 DEF HoldsCopy, Loaded, SameIdentity, Rep

(* A handler has changed its entity: it still is the Rep it has loaded.    *)
LEMMA MutatedKeeps ==
    ASSUME Control, NEW q \in Requests,
           NEW op \in Ops \ {"CreateRep", "LinkRepToGroup"},
           NEW rep, NEW event, Mutated(q, op, rep, event),
           SameIdentity(Loaded(q), rep),
           event # Null => event \in Event /\ event.type # "RepCreated"
                           /\ event.tenant = req[q].tenant /\ event.by = q
    PROVE  Control'
<1> DEFINE new == [req[q] EXCEPT !.pc = "saving", !.op = op,
                                 !.copy = rep, !.event = event]
<1>1. req[q].pc = "found" /\ UNCHANGED <<reps, outbox, relationships>>
  BY DEF Mutated
<1>2. req[q] \in Request
  BY DEF Control, TypeOK
<1>3. /\ HoldsCopy(q) /\ req[q].resp = Null
      /\ req[q].tenant \in Tenants /\ req[q].rep \in RepIds
  BY <1>1 DEF Control, Phase
<1>4. /\ rep \in Rep
      /\ rep.tenant = req[q].copy.tenant
      /\ rep.upline = req[q].copy.upline
  BY <1>1, LoadedType DEF SameIdentity
<1>5. req' = [req EXCEPT ![q] = new]
  BY DEF Mutated, Control, TypeOK
<1>6. new \in Request
  BY <1>2, <1>4 DEF Request
<1>7. req'[q] = new
  BY <1>5 DEF Control, TypeOK
<1>8. /\ req'[q].pc = "saving"          /\ req'[q].op = op
      /\ req'[q].tenant = req[q].tenant /\ req'[q].rep = req[q].rep
      /\ req'[q].copy = rep             /\ req'[q].event = event
      /\ req'[q].resp = req[q].resp
  BY <1>2, <1>7 DEF Request
<1>9. HoldsCopy(q)'
  BY <1>1, <1>3, <1>4, <1>8 DEF HoldsCopy, Visible
<1>10. HoldsEvent(q)'
  BY <1>8 DEF HoldsEvent
<1>11. Phase(q)'
  BY <1>3, <1>8, <1>9, <1>10 DEF Phase
<1>12. new.op # "CreateRep"
  BY <1>7, <1>8
<1> QED
  BY <1>1, <1>5, <1>6, <1>11, <1>12, MovesOnlyOne

(* The events the handlers raise say who raised them, for which tenant.    *)
LEMMA EventOfType ==
    ASSUME Control, NEW q \in Requests, req[q].pc = "found",
           NEW type \in EventType,
           NEW value \in Payloads
    PROVE  /\ EventOf(q, type, value) \in Event
           /\ EventOf(q, type, value).type = type
           /\ EventOf(q, type, value).tenant = req[q].tenant
           /\ EventOf(q, type, value).by = q
<1>1. req[q].tenant \in Tenants
  BY DEF Control, Phase
<1> QED
  BY <1>1 DEF EventOf, Event

(* The six handlers that change an entity they have loaded.                *)
LEMMA HandlersKeep ==
    ASSUME Control, NEW q \in Requests,
           \/ \E i \in PersonalInfos : UpdatePersonalInfo(q, i)
           \/ \E b \in BusinessInfos \cup {Null} : UpdateBusinessInfo(q, b)
           \/ \E a \in AccessControl : UpdateAccessControl(q, a)
           \/ SoftDeleteRep(q)
           \/ RestoreRep(q)
           \/ \E s \in Subs : LinkKeycloakAccount(q, s)
    PROVE  Control'
<1>1. req[q].pc = "found"
  BY DEF UpdatePersonalInfo, UpdateBusinessInfo, UpdateAccessControl,
         SoftDeleteRep, RestoreRep, LinkKeycloakAccount, Mutated
<1>2. Loaded(q) \in Rep
  BY <1>1, LoadedType DEF SameIdentity
<1>3. ASSUME NEW i \in PersonalInfos, UpdatePersonalInfo(q, i) PROVE Control'
  <2>1. SameIdentity(Loaded(q), WithPersonalInfo(Loaded(q), i))
    BY <1>2, MethodTypes
  <2> QED
    BY <1>1, <1>3, <2>1, MutatedKeeps, EventOfType, PayloadType
    DEF UpdatePersonalInfo, Ops, EventType
<1>4. ASSUME NEW b \in BusinessInfos \cup {Null}, UpdateBusinessInfo(q, b)
      PROVE  Control'
  <2>1. SameIdentity(Loaded(q), WithBusinessInfo(Loaded(q), b))
    BY <1>2, MethodTypes
  <2> QED
    BY <1>1, <1>4, <2>1, MutatedKeeps, EventOfType, PayloadType
    DEF UpdateBusinessInfo, Ops, EventType
<1>5. ASSUME NEW a \in AccessControl, UpdateAccessControl(q, a)
      PROVE  Control'
  <2>1. SameIdentity(Loaded(q), WithAccessControl(Loaded(q), a))
    BY <1>2, MethodTypes
  <2> QED
    BY <1>5, <2>1, MutatedKeeps DEF UpdateAccessControl, Ops
<1>6. CASE SoftDeleteRep(q)
  <2>1. SameIdentity(Loaded(q), SoftDelete(Loaded(q)))
    BY <1>2, MethodTypes
  <2> QED
    BY <1>1, <1>6, <2>1, MutatedKeeps, EventOfType, PayloadType
    DEF SoftDeleteRep, Ops, EventType
<1>7. CASE RestoreRep(q)
  <2>1. SameIdentity(Loaded(q), Restore(Loaded(q)))
    BY <1>2, MethodTypes
  <2> QED
    BY <1>1, <1>7, <2>1, MutatedKeeps, EventOfType, PayloadType
    DEF RestoreRep, Ops, EventType
<1>8. ASSUME NEW s \in Subs, LinkKeycloakAccount(q, s) PROVE Control'
  <2>1. SameIdentity(Loaded(q), WithKeycloakAccount(Loaded(q), s))
    BY <1>2, MethodTypes
  <2> QED
    BY <1>1, <1>8, <2>1, MutatedKeeps, EventOfType, PayloadType
    DEF LinkKeycloakAccount, Ops, EventType
<1> QED
  BY <1>3, <1>4, <1>5, <1>6, <1>7, <1>8

(* linkRepToGroup: only the Rep's id goes on.                              *)
LEMMA LinkRepToGroupKeeps ==
    ASSUME Control, NEW q \in Requests, LinkRepToGroup(q)
    PROVE  Control'
<1> DEFINE event == EventOf(q, "RepGroupLinked", Null)
           new == [req[q] EXCEPT !.pc = "saving", !.op = "LinkRepToGroup",
                                 !.copy = Null, !.event = event]
<1>1. req[q].pc = "found" /\ UNCHANGED <<reps, outbox, relationships>>
  BY DEF LinkRepToGroup, Mutated
<1>2. req[q] \in Request
  BY DEF Control, TypeOK
<1>3. /\ HoldsCopy(q) /\ req[q].resp = Null
      /\ req[q].tenant \in Tenants /\ req[q].rep \in RepIds
  BY <1>1 DEF Control, Phase
<1>4. /\ event \in Event               /\ event.type = "RepGroupLinked"
      /\ event.tenant = req[q].tenant  /\ event.by = q
      /\ event # Null
  BY <1>1, EventOfType, PayloadType, NullIsApartAssumption DEF EventType
<1>5. req' = [req EXCEPT ![q] = new]
  BY DEF LinkRepToGroup, Mutated, Control, TypeOK
<1>6. new \in Request
  BY <1>2, <1>4 DEF Request, Ops
<1>7. req'[q] = new
  BY <1>5 DEF Control, TypeOK
<1>8. /\ req'[q].pc = "saving"          /\ req'[q].op = "LinkRepToGroup"
      /\ req'[q].tenant = req[q].tenant /\ req'[q].rep = req[q].rep
      /\ req'[q].copy = Null            /\ req'[q].event = event
      /\ req'[q].resp = req[q].resp
  BY <1>2, <1>7 DEF Request
<1>9. Visible(req[q].tenant, req[q].rep)'
  BY <1>1, <1>3, <1>8 DEF HoldsCopy, Visible
<1>10. HoldsEvent(q)'
  BY <1>4, <1>8 DEF HoldsEvent
<1>11. Phase(q)'
  BY <1>3, <1>4, <1>8, <1>9, <1>10 DEF Phase, Ops
<1>12. new.op # "CreateRep"
  BY <1>7, <1>8
<1> QED
  BY <1>1, <1>5, <1>6, <1>11, <1>12, MovesOnlyOne

(* A request that is answered lets go of what it held.                     *)
LEMMA Answered ==
    ASSUME Control, NEW q \in Requests,
           NEW resp \in Resp, Answer(q, resp), req[q].pc # "idle"
    PROVE  \E new \in Request :
            /\ req' = [req EXCEPT ![q] = new]
            /\ new.op = req[q].op /\ new.rep = req[q].rep
            /\ Phase(q)'
<1> DEFINE new == [req[q] EXCEPT !.pc = "done", !.resp = resp,
                                 !.copy = Null, !.event = Null]
<1>1. req[q] \in Request
  BY DEF Control, TypeOK
<1>2. req' = [req EXCEPT ![q] = new]
  BY DEF Answer, Control, TypeOK
<1>3. /\ new \in Request         /\ new.pc = "done"
      /\ new.op = req[q].op      /\ new.rep = req[q].rep
      /\ new.copy = Null         /\ new.event = Null
      /\ new.tenant \in Tenants  /\ new.rep \in RepIds
  BY <1>1 DEF Request, Control, Phase
<1>4. req'[q] = new
  BY <1>2 DEF Control, TypeOK
<1>5. Phase(q)'
  BY <1>3, <1>4 DEF Phase
<1> QED
  BY <1>2, <1>3, <1>5

(* The answers that write nothing.                                         *)
LEMMA AnswersKeep ==
    ASSUME Control, NEW q \in Requests,
           HandlerThrows(q) \/ SaveConflicts(q) \/ Fail(q)
    PROVE  Control'
<1>1. /\ req[q].pc # "idle"
      /\ \E resp \in {"5xx", "409"} : Answer(q, resp)
      /\ UNCHANGED <<reps, outbox, relationships>>
  BY DEF HandlerThrows, SaveConflicts, Fail
<1>2. PICK new \in Request :
        /\ req' = [req EXCEPT ![q] = new]
        /\ new.op = req[q].op /\ new.rep = req[q].rep
        /\ Phase(q)'
  BY <1>1, Answered DEF Resp
<1>3. new.op = "CreateRep" =>
        \A p \in Requests \ {q} :
            req[p].op = "CreateRep" => req[p].rep # new.rep
  BY <1>2 DEF Control, CreatesDiffer
<1> QED
  BY <1>1, <1>2, <1>3, MovesOnlyOne

(* writeAll appends the request's event to its Rep's outbox, if any.       *)
LEMMA WriteAllType ==
    ASSUME Control, NEW q \in Requests, req[q].pc = "saving", WriteAll(q)
    PROVE  outbox' \in [RepIds -> Seq(Event)]
<1>1. req[q].rep \in RepIds /\ req[q].event \in Event \cup {Null}
  BY DEF Control, Phase, TypeOK, Request
<1>2. outbox \in [RepIds -> Seq(Event)]
  BY DEF Control, TypeOK
<1>3. CASE req[q].event = Null
  BY <1>2, <1>3 DEF WriteAll
<1>4. CASE req[q].event # Null
  <2>1. Append(outbox[req[q].rep], req[q].event) \in Seq(Event)
    BY <1>1, <1>2, <1>4
  <2> QED
    BY <1>1, <1>2, <1>4, <2>1 DEF WriteAll
<1> QED
  BY <1>3, <1>4

(* The relationship's transaction only adds an event.                      *)
LEMMA SaveRelationshipKeeps ==
    ASSUME Control, NEW q \in Requests, SaveRelationship(q)
    PROVE  Control'
<1>1. /\ req[q].pc = "saving" /\ WriteAll(q)
      /\ \E resp \in {"2xx", "5xx"} : Answer(q, resp)
      /\ UNCHANGED <<reps, relationships>>
  BY DEF SaveRelationship
<1>2. PICK new \in Request :
        /\ req' = [req EXCEPT ![q] = new]
        /\ new.op = req[q].op /\ new.rep = req[q].rep
        /\ Phase(q)'
  BY <1>1, Answered DEF Resp
<1>3. outbox' \in [RepIds -> Seq(Event)]
  BY <1>1, WriteAllType
<1>4. IdentityKept /\ reps' \in [RepIds -> Rep \cup {Null}]
                   /\ relationships' \subseteq RepIds
  BY <1>1 DEF IdentityKept, Control, TypeOK
<1>5. \A p \in Requests \ {q} :
        req[p].pc = "saving" /\ req[p].op = "CreateRep"
            => reps'[req[p].rep] = Null
  BY <1>1 DEF Control, Phase, HoldsNewRep
<1>6. new.op = "CreateRep" =>
        \A p \in Requests \ {q} :
            req[p].op = "CreateRep" => req[p].rep # new.rep
  BY <1>2 DEF Control, CreatesDiffer
<1> QED
  BY <1>2, <1>3, <1>4, <1>5, <1>6, MovesOne

(* What the save commits is the handler's copy, of its own tenant: a new   *)
(* row exactly for a create, and otherwise the Rep's row with its tenant   *)
(* and upline as they were.                                                *)
LEMMA StoredType ==
    ASSUME Control, NEW q \in Requests,
           req[q].pc = "saving", req[q].op # "LinkRepToGroup"
    PROVE  /\ req[q].rep \in RepIds
           /\ Stored(q) \in Rep /\ Stored(q) # Null
           /\ Stored(q).tenant = req[q].tenant
           /\ Stored(q).personalInfo = req[q].copy.personalInfo
           /\ Stored(q).sub = req[q].copy.sub
           /\ Stored(q).status = req[q].copy.status
           /\ Stored(q).upline = req[q].copy.upline
           /\ reps[req[q].rep] = Null =>
                req[q].op = "CreateRep" /\ HoldsNewRep(q)
           /\ reps[req[q].rep] # Null =>
                /\ req[q].op # "CreateRep"
                /\ HoldsCopy(q)
<1>1. req[q].rep \in RepIds /\ req[q].tenant \in Tenants
  BY DEF Control, Phase
<1>2. /\ req[q].op = "CreateRep" => HoldsNewRep(q)
      /\ req[q].op # "CreateRep" => HoldsCopy(q)
  BY DEF Control, Phase
<1>3. req[q].copy \in Rep /\ req[q].copy.tenant = req[q].tenant
  BY <1>2 DEF HoldsNewRep, HoldsCopy
<1>4. CASE reps[req[q].rep] = Null
  <2>1. req[q].op = "CreateRep"
    BY <1>2, <1>4 DEF HoldsCopy, Visible
  <2>2. Stored(q) = [req[q].copy EXCEPT !.tenant = req[q].tenant]
    BY <1>4 DEF Stored
  <2>3. /\ Stored(q) \in Rep
        /\ Stored(q).tenant = req[q].tenant
        /\ Stored(q).personalInfo = req[q].copy.personalInfo
        /\ Stored(q).sub = req[q].copy.sub
        /\ Stored(q).status = req[q].copy.status
        /\ Stored(q).upline = req[q].copy.upline
    BY <1>1, <1>3, <2>2 DEF Rep
  <2> QED
    BY <1>1, <1>2, <1>4, <2>1, <2>3, NullAssumption
<1>5. CASE reps[req[q].rep] # Null
  <2>1. req[q].op # "CreateRep"
    BY <1>2, <1>5 DEF HoldsNewRep
  <2>2. /\ reps[req[q].rep] \in Rep
        /\ reps[req[q].rep].tenant = req[q].tenant
    BY <1>1, <1>2, <2>1 DEF HoldsCopy, Visible, Control, TypeOK
  <2>3. /\ reps[req[q].rep].saves + 1 \in Nat
        /\ reps[req[q].rep].tenant \in Tenants
    BY <2>2 DEF Rep
  <2>4. Stored(q) = [req[q].copy EXCEPT
                        !.tenant = reps[req[q].rep].tenant,
                        !.saves = reps[req[q].rep].saves + 1]
    BY <1>5 DEF Stored
  <2>5. /\ Stored(q) \in Rep
        /\ Stored(q).tenant = reps[req[q].rep].tenant
        /\ Stored(q).personalInfo = req[q].copy.personalInfo
        /\ Stored(q).sub = req[q].copy.sub
        /\ Stored(q).status = req[q].copy.status
        /\ Stored(q).upline = req[q].copy.upline
    BY <1>3, <2>3, <2>4 DEF Rep
  <2> QED
    BY <1>1, <1>2, <1>5, <2>1, <2>2, <2>5, NullAssumption
<1> QED
  BY <1>4, <1>5

(* A save fills an empty row or keeps the row's identity, and leaves all   *)
(* other rows alone.                                                       *)
LEMMA SaveKeepsIdentity ==
    ASSUME Control, NEW q \in Requests, Save(q)
    PROVE  /\ reps' \in [RepIds -> Rep \cup {Null}]
           /\ reps'[req[q].rep] = Stored(q)
           /\ \A r \in RepIds \ {req[q].rep} : reps'[r] = reps[r]
           /\ IdentityKept
<1>1. /\ req[q].pc = "saving" /\ req[q].op # "LinkRepToGroup"
      /\ reps' = [reps EXCEPT ![req[q].rep] = Stored(q)]
  BY DEF Save
<1>2. reps \in [RepIds -> Rep \cup {Null}]
  BY DEF Control, TypeOK
<1>3. req[q].rep \in RepIds /\ Stored(q) \in Rep /\ Stored(q) # Null
  BY <1>1, StoredType
<1>4. /\ reps' \in [RepIds -> Rep \cup {Null}]
      /\ reps'[req[q].rep] = Stored(q)
      /\ \A r \in RepIds \ {req[q].rep} : reps'[r] = reps[r]
  BY <1>1, <1>2, <1>3
<1>5. reps[req[q].rep] # Null =>
        /\ Stored(q).tenant = reps[req[q].rep].tenant
        /\ Stored(q).upline = reps[req[q].rep].upline
  BY <1>1, StoredType DEF HoldsCopy, Visible
<1> QED
  BY <1>3, <1>4, <1>5 DEF IdentityKept

LEMMA SaveKeeps ==
    ASSUME Control, NEW q \in Requests, Save(q)
    PROVE  Control'
<1>1. /\ req[q].pc = "saving" /\ req[q].op # "LinkRepToGroup"
      /\ WriteAll(q)
      /\ \E resp \in {"2xx", "5xx"} : Answer(q, resp)
      /\ UNCHANGED relationships
  BY DEF Save
<1>2. PICK new \in Request :
        /\ req' = [req EXCEPT ![q] = new]
        /\ new.op = req[q].op /\ new.rep = req[q].rep
        /\ Phase(q)'
  BY <1>1, Answered DEF Resp
<1>3. outbox' \in [RepIds -> Seq(Event)]
  BY <1>1, WriteAllType
<1>4. relationships' \subseteq RepIds
  BY <1>1 DEF Control, TypeOK
<1>5. ASSUME NEW p \in Requests \ {q},
             req[p].pc = "saving", req[p].op = "CreateRep"
      PROVE  reps'[req[p].rep] = Null
  <2>1. reps[req[p].rep] = Null /\ req[p].rep \in RepIds
    BY <1>5 DEF Control, Phase, HoldsNewRep
  <2>2. req[p].rep # req[q].rep
    BY <1>1, <1>5, <2>1, StoredType DEF Control, CreatesDiffer
  <2> QED
    BY <2>1, <2>2, SaveKeepsIdentity
<1>6. new.op = "CreateRep" =>
        \A p \in Requests \ {q} :
            req[p].op = "CreateRep" => req[p].rep # new.rep
  BY <1>2 DEF Control, CreatesDiffer
<1> QED
  BY <1>2, <1>3, <1>4, <1>5, <1>6, SaveKeepsIdentity, MovesOne

-----------------------------------------------------------------------------
(***************************************************************************)
(* The first theorems.                                                     *)
(***************************************************************************)

LEMMA ControlInit == Init => Control
<1> SUFFICES ASSUME Init PROVE Control
  OBVIOUS
<1>1. reps \in [RepIds -> Rep \cup {Null}]
  BY SeedAssumption DEF Init
<1>2. Idle \in Request
  BY DEF Idle, Request
<1>3. \A q \in Requests : req[q] = Idle
  BY DEF Init
<1>4. TypeOK
  BY <1>1, <1>2 DEF Init, TypeOK
<1>5. \A q \in Requests : Phase(q)
  BY <1>3 DEF Phase, Idle
<1>6. CreatesDiffer
  BY <1>3, NullIsApartAssumption DEF CreatesDiffer, Idle, Ops
<1> QED
  BY <1>4, <1>5, <1>6 DEF Control

(* The steps of one request.                                               *)
LEMMA ControlStep ==
    ASSUME Control, [Next]_vars
    PROVE  Control' /\ IdentityKept
<1>1. ASSUME NEW q \in Requests, Save(q) PROVE Control' /\ IdentityKept
  BY <1>1, SaveKeeps, SaveKeepsIdentity
<1>2. ASSUME UNCHANGED reps PROVE IdentityKept
  BY <1>2 DEF IdentityKept
<1>3. CASE UNCHANGED vars
  <2>1. Control'
    BY <1>3 DEF vars, Control, TypeOK, Phase, CreatesDiffer, HoldsCopy,
               HoldsNewRep, HoldsEvent, Visible
  <2> QED
    BY <1>2, <1>3, <2>1 DEF vars
<1>4. ASSUME NEW q \in Requests, NEW t \in Tenants, NEW r \in RepIds,
             FindById(q, t, r)
      PROVE  Control' /\ IdentityKept
  BY <1>2, <1>4, FindByIdKeeps DEF FindById
<1>5. ASSUME NEW q \in Requests, NEW t \in Tenants,
             NEW i \in PersonalInfos, NEW b \in BusinessInfos \cup {Null},
             NEW u \in RepIds \cup {Null}, CreateRep(q, t, i, b, u)
      PROVE  Control' /\ IdentityKept
  BY <1>2, <1>5, CreateRepKeeps DEF CreateRep
<1>6. ASSUME NEW q \in Requests,
             \/ \E i \in PersonalInfos : UpdatePersonalInfo(q, i)
             \/ \E b \in BusinessInfos \cup {Null} : UpdateBusinessInfo(q, b)
             \/ \E a \in AccessControl : UpdateAccessControl(q, a)
             \/ SoftDeleteRep(q)
             \/ RestoreRep(q)
             \/ \E s \in Subs : LinkKeycloakAccount(q, s)
      PROVE  Control' /\ IdentityKept
  BY <1>2, <1>6, HandlersKeep
  DEF UpdatePersonalInfo, UpdateBusinessInfo, UpdateAccessControl,
      SoftDeleteRep, RestoreRep, LinkKeycloakAccount, Mutated
<1>7. ASSUME NEW q \in Requests, LinkRepToGroup(q)
      PROVE  Control' /\ IdentityKept
  BY <1>2, <1>7, LinkRepToGroupKeeps DEF LinkRepToGroup, Mutated
<1>8. ASSUME NEW q \in Requests, HandlerThrows(q) \/ SaveConflicts(q) \/ Fail(q)
      PROVE  Control' /\ IdentityKept
  BY <1>2, <1>8, AnswersKeep DEF HandlerThrows, SaveConflicts, Fail
<1>9. ASSUME NEW q \in Requests, SaveRelationship(q)
      PROVE  Control' /\ IdentityKept
  BY <1>2, <1>9, SaveRelationshipKeeps DEF SaveRelationship
<1> QED
  BY <1>1, <1>3, <1>4, <1>5, <1>6, <1>7, <1>8, <1>9 DEF Next, HandlerStep

(* Every behaviour keeps the tables and the handlers well formed, whatever *)
(* is interleaved with what.                                               *)
THEOREM TypeCorrect == Spec => []TypeOK
<1>1. Init => Control
  BY ControlInit
<1>2. Control /\ [Next]_vars => Control'
  BY ControlStep
<1>3. Control => TypeOK
  BY DEF Control
<1> QED
  BY <1>1, <1>2, <1>3, PTL DEF Spec

(* No save ever removes a Rep, moves it to another tenant or hangs it      *)
(* below another upline, however stale the entity it writes.               *)
THEOREM IdentityTheorem == Spec => IdentityIsPermanent
<1>1. Init => Control
  BY ControlInit
<1>2. Control /\ [Next]_vars => Control'
  BY ControlStep
<1>3. Control /\ [Next]_vars =>
        [\A r \in RepIds : reps[r] # Null =>
            /\ reps'[r] # Null
            /\ reps'[r].tenant = reps[r].tenant
            /\ reps'[r].upline = reps[r].upline]_vars
  BY ControlStep DEF IdentityKept
<1> QED
  BY <1>1, <1>2, <1>3, PTL DEF Spec, IdentityIsPermanent

=============================================================================
