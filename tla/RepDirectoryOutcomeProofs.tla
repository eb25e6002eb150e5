---------------------- MODULE RepDirectoryOutcomeProofs ----------------------
(***************************************************************************)
(* What a request's answer and events say about what it did, proved for    *)
(* every number of overlapping requests.                                   *)
(*                                                                         *)
(* Recorded relates the outbox to the requests that wrote it: an event     *)
(* names a request that is done, and a request whose event is due holds    *)
(* it.  FreshCopies relates what a handler has in memory to the row it     *)
(* will overwrite, if nobody has saved that row since it was loaded.       *)
(***************************************************************************)
EXTENDS RepDirectorySafetyProofs

(* The i-th event of r is one of q's. *)
Wrote(q, r, i) == i \in DOMAIN outbox[r] /\ outbox[r][i].by = q

Recorded(q) ==
    /\ \A r, s \in RepIds : \A i, j :
        Wrote(q, r, i) /\ Wrote(q, s, j) => r = s /\ i = j
    /\ \A r \in RepIds : \A i :
        Wrote(q, r, i) => /\ req[q].pc = "done" /\ req[q].rep = r
                          /\ req[q].resp \in {"2xx", "5xx"}
    /\ req[q].resp = "2xx" /\ req[q].op \in AlwaysTold =>
        \E i : Wrote(q, req[q].rep, i)
    /\ req[q].pc = "saving" /\ req[q].op \in AlwaysTold =>
        req[q].event # Null

Outcomes == Control /\ \A q \in Requests : Recorded(q)

-----------------------------------------------------------------------------
(***************************************************************************)
(* Steps of a handler, seen by one request.                                *)
(***************************************************************************)

(* A request that has been answered does nothing more, and none of the     *)
(* handlers touches what another one holds.                                *)
LEMMA HandlerMoves ==
    ASSUME Control, NEW p \in Requests, HandlerStep(p)
    PROVE  /\ req[p].pc \in {"idle", "found"}
           /\ \A q \in Requests \ {p} : req'[q] = req[q]
           /\ UNCHANGED <<reps, outbox>>
<1>1. req \in [Requests -> Request]
  BY DEF Control, TypeOK
<1>2. ASSUME NEW op, NEW rep, NEW event, Mutated(p, op, rep, event)
      PROVE  /\ req[p].pc = "found"
             /\ \A q \in Requests \ {p} : req'[q] = req[q]
             /\ UNCHANGED <<reps, outbox>>
  BY <1>1, <1>2 DEF Mutated
<1>3. CASE \/ \E t \in Tenants, r \in RepIds : FindById(p, t, r)
           \/ \E t \in Tenants, i \in PersonalInfos,
                 b \in BusinessInfos \cup {Null}, u \in RepIds \cup {Null} :
                    CreateRep(p, t, i, b, u)
  <2>1. ASSUME NEW t \in Tenants, NEW r \in RepIds, FindById(p, t, r)
        PROVE  /\ req[p].pc = "idle"
               /\ \A q \in Requests \ {p} : req'[q] = req[q]
               /\ UNCHANGED <<reps, outbox>>
    BY <1>1, <2>1 DEF FindById, Arrives
  <2>2. ASSUME NEW t, NEW i, NEW b, NEW u, CreateRep(p, t, i, b, u)
        PROVE  /\ req[p].pc = "idle"
               /\ \A q \in Requests \ {p} : req'[q] = req[q]
               /\ UNCHANGED <<reps, outbox>>
    BY <1>1, <2>2 DEF CreateRep, Arrives
  <2> QED
    BY <1>3, <2>1, <2>2
<1>4. CASE HandlerThrows(p)
  BY <1>1, <1>4 DEF HandlerThrows, Answer
<1>5. CASE \/ \E i \in PersonalInfos : UpdatePersonalInfo(p, i)
           \/ \E b \in BusinessInfos \cup {Null} : UpdateBusinessInfo(p, b)
           \/ \E a \in AccessControl : UpdateAccessControl(p, a)
           \/ SoftDeleteRep(p)
           \/ RestoreRep(p)
           \/ \E s \in Subs : LinkKeycloakAccount(p, s)
           \/ LinkRepToGroup(p)
  BY <1>2, <1>5 DEF UpdatePersonalInfo, UpdateBusinessInfo,
     UpdateAccessControl, SoftDeleteRep, RestoreRep, LinkKeycloakAccount,
     LinkRepToGroup
<1> QED
  BY <1>3, <1>4, <1>5 DEF HandlerStep

(* A handler whose operation is always told of holds the event.            *)
LEMMA EventIsDue ==
    ASSUME Control, NEW p \in Requests, HandlerStep(p),
           req'[p].pc = "saving", req'[p].op \in AlwaysTold
    PROVE  req'[p].event # Null
<1>1. req \in [Requests -> Request]
  BY DEF Control, TypeOK
<1>2. ASSUME NEW op, NEW rep, NEW event, Mutated(p, op, rep, event)
      PROVE  req'[p].op = op /\ req'[p].event = event /\ req[p].pc = "found"
  BY <1>1, <1>2 DEF Mutated, Request
<1>3. ASSUME NEW type \in EventType, NEW value \in Payloads,
             req[p].pc = "found"
      PROVE  EventOf(p, type, value) # Null
  BY <1>3, EventOfType, NullIsApartAssumption
<1>4. ASSUME NEW t \in Tenants, NEW r \in RepIds, FindById(p, t, r)
      PROVE  FALSE
  BY <1>1, <1>4 DEF FindById, Idle
<1>5. ASSUME NEW t \in Tenants, NEW i \in PersonalInfos,
             NEW b \in BusinessInfos \cup {Null}, NEW u \in RepIds \cup {Null},
             CreateRep(p, t, i, b, u)
      PROVE  req'[p].event # Null
  <2>1. Control'
    BY <1>5, CreateRepKeeps
  <2>2. PICK r \in RepIds :
            req' = [req EXCEPT ![p] =
             IF u = Null \/ Visible(t, u)
             THEN [pc |-> "saving", op |-> "CreateRep", tenant |-> t,
                   rep |-> r, resp |-> Null, copy |-> NewRep(t, i, b, u),
                   event |-> [type |-> "RepCreated", tenant |-> t,
                              by |-> p, value |-> PersonalPayload(i)]]
             ELSE [Idle EXCEPT !.pc = "done", !.op = "CreateRep",
                               !.tenant = t, !.rep = r, !.resp = "404"]]
    BY <1>5 DEF CreateRep
  <2>3. req'[p].op = "CreateRep"
    BY <1>1, <2>2 DEF Idle
  <2> QED
    BY <2>1, <2>3 DEF Control, Phase, HoldsNewRep
<1>6. CASE HandlerThrows(p)
  BY <1>1, <1>6 DEF HandlerThrows, Answer, Request
<1>7. ASSUME NEW a \in AccessControl, UpdateAccessControl(p, a)
      PROVE  FALSE
  BY <1>2, <1>7 DEF UpdateAccessControl, AlwaysTold
<1>8. ASSUME NEW s \in Subs, LinkKeycloakAccount(p, s)
      PROVE  FALSE
  BY <1>2, <1>8 DEF LinkKeycloakAccount, AlwaysTold
<1>9. ASSUME NEW i \in PersonalInfos, UpdatePersonalInfo(p, i)
      PROVE  req'[p].event # Null
  <2>1. req'[p].event = EventOf(p, "RepPersonalInfoUpdated", PersonalPayload(i))
    BY <1>2, <1>9 DEF UpdatePersonalInfo
  <2> QED
    BY <1>2, <1>3, <1>9, <2>1, PayloadType DEF UpdatePersonalInfo, EventType
<1>10. ASSUME NEW b \in BusinessInfos \cup {Null}, UpdateBusinessInfo(p, b)
       PROVE  req'[p].event # Null
  <2>1. req'[p].event = EventOf(p, "RepBusinessInfoUpdated", BusinessPayload(b))
    BY <1>2, <1>10 DEF UpdateBusinessInfo
  <2> QED
    BY <1>2, <1>3, <1>10, <2>1, PayloadType DEF UpdateBusinessInfo, EventType
<1>11. CASE SoftDeleteRep(p) \/ RestoreRep(p) \/ LinkRepToGroup(p)
  <2>1. \E type \in {"RepSoftDeleted", "RepRestored", "RepGroupLinked"} :
            req'[p].event = EventOf(p, type, Null)
    BY <1>2, <1>11 DEF SoftDeleteRep, RestoreRep, LinkRepToGroup
  <2>2. req[p].pc = "found"
    BY <1>2, <1>11 DEF SoftDeleteRep, RestoreRep, LinkRepToGroup
  <2> QED
    BY <1>3, <2>1, <2>2, PayloadType DEF EventType
<1> QED
  BY <1>4, <1>5, <1>6, <1>7, <1>8, <1>9, <1>10, <1>11 DEF HandlerStep

(* The last step of a request that has changed its entity: its transaction *)
(* commits, or it is refused.                                              *)
LEMMA AnswerMoves ==
    ASSUME Control, NEW p \in Requests, NEW resp, Answer(p, resp)
    PROVE  /\ req'[p].pc = "done" /\ req'[p].resp = resp
           /\ req'[p].op = req[p].op /\ req'[p].rep = req[p].rep
           /\ \A q \in Requests \ {p} : req'[q] = req[q]
<1>1. req \in [Requests -> Request]
  BY DEF Control, TypeOK
<1> QED
  BY <1>1 DEF Answer, Request

LEMMA CommitMoves ==
    ASSUME Control, NEW p \in Requests, Save(p) \/ SaveRelationship(p)
    PROVE  /\ req[p].pc = "saving" /\ req'[p].pc = "done"
           /\ req'[p].op = req[p].op /\ req'[p].rep = req[p].rep
           /\ req'[p].resp \in {"2xx", "5xx"} /\ WriteAll(p)
           /\ \A q \in Requests \ {p} : req'[q] = req[q]
<1>1. PICK resp \in {"2xx", "5xx"} : Answer(p, resp)
  BY DEF Save, SaveRelationship
<1> QED
  BY <1>1, AnswerMoves DEF Save, SaveRelationship

LEMMA RefusalMoves ==
    ASSUME Control, NEW p \in Requests, SaveConflicts(p) \/ Fail(p)
    PROVE  /\ req[p].pc = "saving" /\ req'[p].pc = "done"
           /\ req'[p].resp \in {"409", "5xx"}
           /\ \A q \in Requests \ {p} : req'[q] = req[q]
           /\ UNCHANGED <<reps, outbox>>
<1>1. PICK resp \in {"409", "5xx"} : Answer(p, resp)
  BY DEF SaveConflicts, Fail
<1> QED
  BY <1>1, AnswerMoves DEF SaveConflicts, Fail

-----------------------------------------------------------------------------
(***************************************************************************)
(* Answers and events.                                                     *)
(***************************************************************************)

(* Another request's step leaves what q has written and been told alone.   *)
LEMMA RecordedFrame ==
    ASSUME NEW q \in Requests, Recorded(q), req'[q] = req[q],
           Control,
           \A r \in RepIds : \A i : Wrote(q, r, i)' <=> Wrote(q, r, i)
    PROVE  Recorded(q)'
<1>1. req[q].resp = "2xx" => req[q].rep \in RepIds
  BY NullIsApartAssumption DEF Control, Phase, Resp
<1> QED
  BY <1>1 DEF Recorded

LEMMA RecordedStep ==
    ASSUME Outcomes, Control', [Next]_vars
    PROVE  \A q \in Requests : Recorded(q)'
<1>1. Control /\ \A q \in Requests : Recorded(q)
  BY DEF Outcomes
<1>2. ASSUME UNCHANGED outbox, NEW q \in Requests, req'[q] = req[q]
      PROVE  Recorded(q)'
  BY <1>1, <1>2, RecordedFrame DEF Wrote
<1>3. ASSUME UNCHANGED outbox, NEW p \in Requests, req[p].pc # "done",
             req'[p].resp # "2xx",
             req'[p].pc = "saving" /\ req'[p].op \in AlwaysTold =>
                req'[p].event # Null
      PROVE  Recorded(p)'
  <2>1. \A r \in RepIds : \A i : ~Wrote(p, r, i)
    BY <1>1, <1>3 DEF Recorded
  <2>2. \A r \in RepIds : \A i : ~Wrote(p, r, i)'
    BY <1>3, <2>1 DEF Wrote
  <2> QED
    BY <1>3, <2>2 DEF Recorded
<1>4. ASSUME NEW p \in Requests, HandlerStep(p), NEW q \in Requests
      PROVE  Recorded(q)'
  <2>1. /\ req[p].pc \in {"idle", "found"} /\ UNCHANGED <<reps, outbox>>
        /\ \A s \in Requests \ {p} : req'[s] = req[s]
    BY <1>1, <1>4, HandlerMoves
  <2>2. req'[p].resp # "2xx"
    <3>1. SUFFICES ASSUME req'[p].resp = "2xx"
                   PROVE  FALSE
      OBVIOUS
    <3>2. req[p].resp = "2xx" \/ Save(p) \/ SaveRelationship(p)
      BY <1>1, <3>1, SuccessFollowsSave
    <3>3. req[p].pc # "done" /\ req[p].pc # "saving"
      BY <2>1
    <3>4. req[p].resp = Null
      BY <1>1, <3>3 DEF Control, Phase
    <3> QED
      BY <3>2, <3>3, <3>4, NullIsApartAssumption
         DEF Resp, Save, SaveRelationship
  <2> QED
    BY <1>1, <1>2, <1>3, <1>4, <2>1, <2>2, EventIsDue
<1>5. ASSUME NEW p \in Requests, SaveConflicts(p) \/ Fail(p), NEW q \in Requests
      PROVE  Recorded(q)'
  BY <1>1, <1>2, <1>3, <1>5, RefusalMoves
<1>6. ASSUME NEW p \in Requests, Save(p) \/ SaveRelationship(p),
             NEW q \in Requests
      PROVE  Recorded(q)'
  <2> DEFINE new == req[p].rep
  <2>1. /\ req[p].pc = "saving" /\ req'[p].pc = "done"
        /\ req'[p].op = req[p].op /\ req'[p].rep = new
        /\ req'[p].resp \in {"2xx", "5xx"} /\ WriteAll(p)
        /\ \A s \in Requests \ {p} : req'[s] = req[s]
    BY <1>1, <1>6, CommitMoves
  <2>2. /\ new \in RepIds /\ HoldsEvent(p) /\ outbox \in [RepIds -> Seq(Event)]
        /\ req[p].event # Null => req[p].event \in Event
    BY <1>1, <2>1 DEF Control, Phase, TypeOK, Request
  <2>3. CASE req[p].event = Null
    <3>1. UNCHANGED outbox
      BY <2>1, <2>3 DEF WriteAll
    <3>2. \A r \in RepIds : \A i : ~Wrote(p, r, i)
      BY <1>1, <2>1 DEF Recorded
    <3>3. \A r \in RepIds : \A i : ~Wrote(p, r, i)'
      BY <3>1, <3>2 DEF Wrote
    <3>4. req[p].op \notin AlwaysTold
      BY <1>1, <2>1, <2>3 DEF Recorded
    <3>5. Recorded(p)'
      BY <2>1, <3>3, <3>4 DEF Recorded
    <3> QED
      BY <1>2, <2>1, <3>1, <3>5
  <2>4. CASE req[p].event # Null
    <3> DEFINE n == Len(outbox[new]) + 1
    <3>1. outbox' = [outbox EXCEPT ![new] = Append(@, req[p].event)]
      BY <2>1, <2>4 DEF WriteAll
    <3>2. /\ outbox'[new] = Append(outbox[new], req[p].event)
          /\ \A r \in RepIds \ {new} : outbox'[r] = outbox[r]
          /\ outbox[new] \in Seq(Event) /\ req[p].event \in Event
          /\ req[p].event.by = p
      BY <2>2, <2>4, <3>1 DEF HoldsEvent
    <3>3. /\ n \in DOMAIN outbox'[new] /\ n \notin DOMAIN outbox[new]
          /\ outbox'[new][n] = req[p].event
          /\ \A i : i \in DOMAIN outbox'[new] <=>
                        i \in DOMAIN outbox[new] \/ i = n
          /\ \A i \in DOMAIN outbox[new] : outbox'[new][i] = outbox[new][i]
      BY <3>2
    <3>4. \A s \in Requests, r \in RepIds : \A i :
            Wrote(s, r, i)' <=> \/ Wrote(s, r, i)
                                \/ s = p /\ r = new /\ i = n
      BY <3>2, <3>3 DEF Wrote
    <3>5. \A r \in RepIds : \A i : ~Wrote(p, r, i)
      BY <1>1, <2>1 DEF Recorded
    <3>6. \A r \in RepIds : \A i : Wrote(p, r, i)' <=> r = new /\ i = n
      BY <3>4, <3>5
    <3>7. Recorded(p)'
      <4>1. (\E i : Wrote(p, req[p].rep, i))'
        <5>1. n \in DOMAIN outbox'[new] /\ outbox'[new][n].by = p
          BY <3>2, <3>3
        <5> HIDE DEF n
        <5> QED
          BY <2>1, <5>1 DEF Wrote
      <4>2. \A r, s \in RepIds : \A i, j :
                (Wrote(p, r, i) /\ Wrote(p, s, j))' => r = s /\ i = j
        BY <3>6
      <4>3. \A r \in RepIds : \A i : Wrote(p, r, i)' =>
                /\ req'[p].pc = "done" /\ req'[p].rep = r
                /\ req'[p].resp \in {"2xx", "5xx"}
        BY <2>1, <3>6
      <4> QED
        BY <2>1, <4>1, <4>2, <4>3 DEF Recorded
    <3>8. ASSUME q # p
          PROVE  Recorded(q)'
      <4>1. req'[q] = req[q]
        BY <2>1, <3>8
      <4>2. \A r \in RepIds : \A i : Wrote(q, r, i)' <=> Wrote(q, r, i)
        BY <3>4, <3>8
      <4> QED
        BY <1>1, <4>1, <4>2, RecordedFrame
    <3> QED
      BY <3>7, <3>8
  <2> QED
    BY <2>3, <2>4
<1>7. CASE UNCHANGED vars
  BY <1>2, <1>7 DEF vars
<1> QED
  BY <1>4, <1>5, <1>6, <1>7 DEF Next

LEMMA RecordedInit ==
    ASSUME Init
    PROVE  Outcomes
<1>1. Control
  BY ControlInit
<1>2. \A q \in Requests : req[q] = Idle
  BY DEF Init
<1>3. \A q \in Requests, r \in RepIds : \A i : ~Wrote(q, r, i)
  BY DEF Init, Wrote
<1> QED
  BY <1>1, <1>2, <1>3, NullIsApartAssumption DEF Outcomes, Recorded, Idle, Resp

(* The answer a client has got and the events consumers will get agree,    *)
(* however requests overlap and whichever acknowledgements are lost.       *)
THEOREM OutcomeTheorem == Spec => []OutcomeMatchesOutbox
<1>1. Init => Outcomes
  BY RecordedInit
<1>2. Outcomes /\ [Next]_vars => Outcomes'
  BY ControlStep, RecordedStep DEF Outcomes
<1>3. Outcomes => OutcomeMatchesOutbox
  <2>1. SUFFICES ASSUME Control, NEW q \in Requests, Recorded(q)
                 PROVE  /\ \A x, y \in EventsBy(q) : x = y
                        /\ req[q].pc # "done" \/ req[q].resp \in {"404", "409"}
                                => EventsBy(q) = {}
                        /\ req[q].resp = "2xx" /\ req[q].op \in AlwaysTold
                                => \E x \in EventsBy(q) : x[1] = req[q].rep
    BY DEF Outcomes, OutcomeMatchesOutbox
  <2>2. \A x \in EventsBy(q) : \E r \in RepIds : \E i :
            x = <<r, i>> /\ Wrote(q, r, i)
    BY DEF EventsBy, Wrote
  <2>3. \A r \in RepIds : \A i :
            Wrote(q, r, i) => <<r, i>> \in EventsBy(q)
    BY DEF EventsBy, Wrote
  <2>4. \A x, y \in EventsBy(q) : x = y
    BY <2>1, <2>2 DEF Recorded
  <2>5. req[q].pc # "done" \/ req[q].resp \in {"404", "409"} =>
            EventsBy(q) = {}
    BY <2>1, <2>2 DEF Recorded
  <2>6. ASSUME req[q].resp = "2xx", req[q].op \in AlwaysTold
        PROVE  \E x \in EventsBy(q) : x[1] = req[q].rep
    <3>1. req[q].rep \in RepIds
      BY <2>1, <2>6, NullIsApartAssumption DEF Control, Phase, Resp
    <3>2. PICK i : Wrote(q, req[q].rep, i)
      BY <2>1, <2>6 DEF Recorded
    <3>3. <<req[q].rep, i>> \in EventsBy(q)
      BY <2>3, <3>1, <3>2
    <3> QED
      BY <3>3
  <2> QED
    BY <2>4, <2>5, <2>6
<1> QED
  BY <1>1, <1>2, <1>3, PTL DEF Spec

-----------------------------------------------------------------------------
(***************************************************************************)
(* Saves of rows nobody has saved since they were loaded.                  *)
(***************************************************************************)

Says(event, type, value) ==
    event # Null /\ event.type = type /\ event.value = value

(* What a handler of op makes of the row it has loaded, where the row      *)
(* allows it, and the event that tells of it.                              *)
Amended(row, op, event, copy) ==
    \/ /\ op = "UpdatePersonalInfo"
       /\ \E i \in PersonalInfos :
            /\ copy = WithPersonalInfo(row, i)
            /\ Says(event, "RepPersonalInfoUpdated", PersonalPayload(i))
    \/ /\ op = "UpdateBusinessInfo"
       /\ \E b \in BusinessInfos \cup {Null} :
            /\ copy = WithBusinessInfo(row, b)
            /\ Says(event, "RepBusinessInfoUpdated", BusinessPayload(b))
    \/ /\ op = "UpdateAccessControl"
       /\ \E a \in AccessControl : copy = WithAccessControl(row, a)
       /\ event = Null
    \/ /\ op = "SoftDelete"
       /\ CanSoftDelete(row)
       /\ copy = SoftDelete(row)
       /\ Says(event, "RepSoftDeleted", Null)
    \/ /\ op = "Restore"
       /\ CanRestore(row)
       /\ copy = Restore(row)
       /\ Says(event, "RepRestored", Null)
    \/ op = "LinkKeycloakAccount" /\ copy = row /\ event = Null
    \/ /\ op = "LinkKeycloakAccount"
       /\ \E s \in Subs :
            /\ row.sub # s
            /\ copy = WithKeycloakAccount(row, s)
            /\ Says(event, "RepKeycloakAccountLinked", s)

Updates == Ops \ {"CreateRep", "LinkRepToGroup"}

(* The handler has loaded the row it is going to save. *)
HasLoaded(q) ==
    \/ req[q].pc = "found"
    \/ (req[q].pc = "saving" /\ req[q].op \in Updates)

(* A copy is as old as its saves says: with the row's own, it is the row,  *)
(* or what the handler makes of it.                                        *)
FreshCopy(q) ==
    /\ req[q].pc = "found" =>
        /\ req[q].copy.saves <= reps[req[q].rep].saves
        /\ IsFresh(q) => req[q].copy = reps[req[q].rep]
    /\ req[q].pc = "saving" /\ req[q].op \in Updates =>
        /\ req[q].copy.saves <= reps[req[q].rep].saves
        /\ IsFresh(q) =>
            Amended(reps[req[q].rep], req[q].op, req[q].event, req[q].copy)

FreshCopies == Control /\ \A q \in Requests : FreshCopy(q)

LEMMA Copies ==
    ASSUME Control, NEW q \in Requests, HasLoaded(q)
    PROVE  /\ req[q].rep \in RepIds
           /\ reps[req[q].rep] \in Rep /\ reps[req[q].rep] # Null
           /\ req[q].copy \in Rep
<1>1. HoldsCopy(q) /\ req[q].rep \in RepIds
  BY DEF Control, Phase, Updates, HasLoaded
<1> QED
  BY <1>1 DEF HoldsCopy, Visible, Control, TypeOK

(* A save by somebody else puts what a handler has loaded out of date.     *)
LEMMA SaveOutdates ==
    ASSUME Control, [Next]_vars, NEW q \in Requests, FreshCopy(q),
           HasLoaded(q), req'[q] = req[q],
           reps'[req[q].rep] # reps[req[q].rep]
    PROVE  req[q].copy.saves <= reps'[req[q].rep].saves /\ ~IsFresh(q)'
<1> DEFINE r == req[q].rep
<1>1. /\ r \in RepIds /\ reps[r] \in Rep /\ reps[r] # Null
      /\ req[q].copy \in Rep
  BY Copies
<1>2. PICK p \in Requests : Save(p)
  BY OnlySavesWrite
<1>3. req[p].rep = r /\ reps'[r] = Stored(p)
  BY <1>1, <1>2, SaveKeepsIdentity
<1>4. Stored(p) = [req[p].copy EXCEPT !.tenant = reps[r].tenant,
                                      !.saves = reps[r].saves + 1]
  BY <1>1, <1>3 DEF Stored
<1>5. req[p].copy \in Rep
  BY <1>1, <1>2, <1>3, StoredType DEF Save, HoldsCopy
<1>6. reps'[r].saves = reps[r].saves + 1
  BY <1>3, <1>4, <1>5 DEF Rep
<1>7. reps[r].saves \in Nat /\ req[q].copy.saves \in Nat
  BY <1>1 DEF Rep
<1>8. req[q].copy.saves <= reps[r].saves
  BY DEF FreshCopy, HasLoaded
<1>9. req[q].copy.saves < reps'[r].saves /\ req[q].copy.saves # reps'[r].saves
  BY <1>6, <1>7, <1>8
<1> QED
  BY <1>6, <1>7, <1>9 DEF IsFresh

(* A handler that does not move: its copy stays what it was while the row  *)
(* stays, and is out of date once somebody saves the row.                  *)
LEMMA FreshFrame ==
    ASSUME Control, [Next]_vars, NEW q \in Requests, FreshCopy(q),
           req'[q] = req[q]
    PROVE  FreshCopy(q)'
<1> SUFFICES ASSUME HasLoaded(q)
             PROVE  FreshCopy(q)'
  BY DEF FreshCopy, HasLoaded
<1>1. CASE reps'[req[q].rep] = reps[req[q].rep]
  BY <1>1 DEF FreshCopy, IsFresh
<1>2. CASE reps'[req[q].rep] # reps[req[q].rep]
  <2>1. req[q].copy.saves <= reps'[req[q].rep].saves /\ ~IsFresh(q)'
    BY <1>2, SaveOutdates
  <2> QED
    BY <2>1 DEF FreshCopy
<1> QED
  BY <1>1, <1>2

(* The handler amends the entity it has loaded, and that is the row as it  *)
(* is if nobody has saved it since.                                        *)
LEMMA MutatedFresh ==
    ASSUME Control, NEW p \in Requests, FreshCopy(p),
           NEW op \in Updates, NEW rep \in Rep, NEW event,
           Mutated(p, op, rep, event),
           rep.saves = req[p].copy.saves,
           req[p].copy = Loaded(p) => Amended(Loaded(p), op, event, rep)
    PROVE  FreshCopy(p)'
<1> DEFINE row == reps[req[p].rep]
<1>1. req \in [Requests -> Request]
  BY DEF Control, TypeOK
<1>2. /\ req[p].pc = "found" /\ UNCHANGED reps
      /\ req'[p].pc = "saving" /\ req'[p].op = op /\ req'[p].rep = req[p].rep
      /\ req'[p].copy = rep /\ req'[p].event = event
  BY <1>1 DEF Mutated, Request
<1>3. row \in Rep /\ req[p].copy \in Rep
  BY <1>2, Copies DEF HasLoaded
<1>4. req[p].copy.saves <= row.saves
  BY <1>2 DEF FreshCopy
<1>5. req[p].copy.saves = row.saves => req[p].copy = row /\ Loaded(p) = row
  <2>1. req[p].copy.saves = row.saves => req[p].copy = row
    BY <1>2 DEF FreshCopy, IsFresh
  <2>2. [row EXCEPT !.access = row.access] = row
    BY <1>3 DEF Rep
  <2> QED
    BY <2>1, <2>2 DEF Loaded
<1> QED
  BY <1>2, <1>4, <1>5 DEF FreshCopy, IsFresh

LEMMA HandlersAmend ==
    ASSUME Control, NEW p \in Requests, FreshCopy(p),
           \/ \E i \in PersonalInfos : UpdatePersonalInfo(p, i)
           \/ \E b \in BusinessInfos \cup {Null} : UpdateBusinessInfo(p, b)
           \/ \E a \in AccessControl : UpdateAccessControl(p, a)
           \/ SoftDeleteRep(p)
           \/ RestoreRep(p)
           \/ \E s \in Subs : LinkKeycloakAccount(p, s)
    PROVE  FreshCopy(p)'
<1>1. req[p].pc = "found"
  BY DEF UpdatePersonalInfo, UpdateBusinessInfo, UpdateAccessControl,
         SoftDeleteRep, RestoreRep, LinkKeycloakAccount, Mutated
<1>2. /\ Loaded(p) \in Rep /\ req[p].copy \in Rep
      /\ Loaded(p).saves = req[p].copy.saves
      /\ Loaded(p).sub = req[p].copy.sub
  BY <1>1, LoadedType, Copies DEF SameIdentity, Loaded, Rep, HasLoaded
<1>3. ASSUME NEW type \in EventType, NEW value \in Payloads
      PROVE  Says(EventOf(p, type, value), type, value)
  BY <1>1, EventOfType, NullIsApartAssumption DEF EventOf, Says
<1>4. ASSUME NEW i \in PersonalInfos, UpdatePersonalInfo(p, i)
      PROVE  FreshCopy(p)'
  <2> DEFINE rep == WithPersonalInfo(Loaded(p), i)
             event == EventOf(p, "RepPersonalInfoUpdated", PersonalPayload(i))
  <2>1. rep \in Rep /\ rep.saves = req[p].copy.saves
    BY <1>2 DEF WithPersonalInfo, Rep
  <2>2. req[p].copy = Loaded(p) =>
            Amended(Loaded(p), "UpdatePersonalInfo", event, rep)
    BY <1>3, PayloadType DEF Amended, EventType
  <2>3. Mutated(p, "UpdatePersonalInfo", rep, event)
    BY <1>4 DEF UpdatePersonalInfo
  <2> QED
    BY <2>1, <2>2, <2>3, MutatedFresh DEF Updates, Ops
<1>5. ASSUME NEW b \in BusinessInfos \cup {Null}, UpdateBusinessInfo(p, b)
      PROVE  FreshCopy(p)'
  <2> DEFINE rep == WithBusinessInfo(Loaded(p), b)
             event == EventOf(p, "RepBusinessInfoUpdated", BusinessPayload(b))
  <2>1. rep \in Rep /\ rep.saves = req[p].copy.saves
    BY <1>2 DEF WithBusinessInfo, Rep
  <2>2. req[p].copy = Loaded(p) =>
            Amended(Loaded(p), "UpdateBusinessInfo", event, rep)
    BY <1>3, PayloadType DEF Amended, EventType
  <2>3. Mutated(p, "UpdateBusinessInfo", rep, event)
    BY <1>5 DEF UpdateBusinessInfo
  <2> QED
    BY <2>1, <2>2, <2>3, MutatedFresh DEF Updates, Ops
<1>6. ASSUME NEW a \in AccessControl, UpdateAccessControl(p, a)
      PROVE  FreshCopy(p)'
  <2> DEFINE rep == WithAccessControl(Loaded(p), a)
  <2>1. rep \in Rep /\ rep.saves = req[p].copy.saves
    BY <1>2 DEF WithAccessControl, Rep
  <2>2. req[p].copy = Loaded(p) =>
            Amended(Loaded(p), "UpdateAccessControl", Null, rep)
    BY DEF Amended
  <2>3. Mutated(p, "UpdateAccessControl", rep, Null)
    BY <1>6 DEF UpdateAccessControl
  <2> QED
    BY <2>1, <2>2, <2>3, MutatedFresh DEF Updates, Ops
<1>7. CASE SoftDeleteRep(p)
  <2> DEFINE rep == SoftDelete(Loaded(p))
             event == EventOf(p, "RepSoftDeleted", Null)
  <2>1. rep \in Rep /\ rep.saves = req[p].copy.saves
    BY <1>2 DEF SoftDelete, Rep, RepStatus
  <2>2. req[p].copy = Loaded(p) => Amended(Loaded(p), "SoftDelete", event, rep)
    BY <1>3, <1>7, PayloadType DEF Amended, EventType, SoftDeleteRep
  <2>3. Mutated(p, "SoftDelete", rep, event)
    BY <1>7 DEF SoftDeleteRep
  <2> QED
    BY <2>1, <2>2, <2>3, MutatedFresh DEF Updates, Ops
<1>8. CASE RestoreRep(p)
  <2> DEFINE rep == Restore(Loaded(p))
             event == EventOf(p, "RepRestored", Null)
  <2>1. rep \in Rep /\ rep.saves = req[p].copy.saves
    BY <1>2 DEF Restore, Rep, RepStatus
  <2>2. req[p].copy = Loaded(p) => Amended(Loaded(p), "Restore", event, rep)
    BY <1>3, <1>8, PayloadType DEF Amended, EventType, RestoreRep
  <2>3. Mutated(p, "Restore", rep, event)
    BY <1>8 DEF RestoreRep
  <2> QED
    BY <2>1, <2>2, <2>3, MutatedFresh DEF Updates, Ops
<1>9. ASSUME NEW s \in Subs, LinkKeycloakAccount(p, s)
      PROVE  FreshCopy(p)'
  <2> DEFINE rep == WithKeycloakAccount(Loaded(p), s)
             event == IF req[p].copy.sub = s THEN Null
                      ELSE EventOf(p, "RepKeycloakAccountLinked", s)
  <2>1. rep \in Rep /\ rep.saves = req[p].copy.saves
    BY <1>2 DEF WithKeycloakAccount, Rep
  <2>2. req[p].copy = Loaded(p) =>
            Amended(Loaded(p), "LinkKeycloakAccount", event, rep)
    <3>1. CASE req[p].copy.sub = s
      <4>1. rep = Loaded(p)
        BY <1>2, <3>1 DEF WithKeycloakAccount, Rep
      <4> QED
        BY <3>1, <4>1 DEF Amended
    <3>2. CASE req[p].copy.sub # s
      BY <1>2, <1>3, <3>2, PayloadType DEF Amended, EventType
    <3> QED
      BY <3>1, <3>2
  <2>3. Mutated(p, "LinkKeycloakAccount", rep, event)
    BY <1>9 DEF LinkKeycloakAccount
  <2> QED
    BY <2>1, <2>2, <2>3, MutatedFresh DEF Updates, Ops
<1> QED
  BY <1>4, <1>5, <1>6, <1>7, <1>8, <1>9

LEMMA FreshStep ==
    ASSUME FreshCopies, [Next]_vars
    PROVE  \A q \in Requests : FreshCopy(q)'
<1>1. Control /\ \A q \in Requests : FreshCopy(q)
  BY DEF FreshCopies
<1>2. req \in [Requests -> Request]
  BY <1>1 DEF Control, TypeOK
<1>3. ASSUME NEW p \in Requests, FreshCopy(p)',
             \A q \in Requests \ {p} : req'[q] = req[q]
      PROVE  \A q \in Requests : FreshCopy(q)'
  BY <1>1, <1>3, FreshFrame
<1>4. ASSUME NEW p \in Requests, req'[p].pc = "done"
      PROVE  FreshCopy(p)'
  BY <1>4 DEF FreshCopy
<1>5. ASSUME NEW p \in Requests, HandlerStep(p)
      PROVE  FreshCopy(p)'
  <2>1. ASSUME NEW t \in Tenants, NEW r \in RepIds, FindById(p, t, r)
        PROVE  FreshCopy(p)'
    <3>1. CASE Visible(t, r)
      <4>1. /\ req'[p].pc = "found" /\ req'[p].rep = r
            /\ req'[p].copy = reps[r] /\ UNCHANGED reps
        BY <1>2, <2>1, <3>1 DEF FindById, Idle
      <4>2. reps[r].saves \in Nat
        BY <1>1, <3>1 DEF Visible, Control, TypeOK, Rep
      <4> QED
        BY <4>1, <4>2 DEF FreshCopy
    <3>2. CASE ~Visible(t, r)
      BY <1>2, <1>4, <2>1, <3>2 DEF FindById, Idle
    <3> QED
      BY <3>1, <3>2
  <2>2. ASSUME NEW t \in Tenants, NEW i \in PersonalInfos,
               NEW b \in BusinessInfos \cup {Null}, NEW u \in RepIds \cup {Null},
               CreateRep(p, t, i, b, u)
        PROVE  FreshCopy(p)'
    <3>1. req'[p].op = "CreateRep" /\ req'[p].pc \in {"saving", "done"}
      BY <1>2, <2>2 DEF CreateRep, Idle
    <3> QED
      BY <3>1 DEF FreshCopy, Updates
  <2>3. CASE LinkRepToGroup(p)
    <3>1. req'[p].op = "LinkRepToGroup" /\ req'[p].pc = "saving"
      BY <1>2, <2>3 DEF LinkRepToGroup, Mutated, Request
    <3> QED
      BY <3>1 DEF FreshCopy, Updates
  <2>4. CASE HandlerThrows(p)
    BY <1>1, <1>4, <2>4, AnswerMoves DEF HandlerThrows
  <2> QED
    BY <1>1, <1>5, <2>1, <2>2, <2>3, <2>4, HandlersAmend DEF HandlerStep
<1>6. ASSUME NEW p \in Requests, HandlerStep(p)
      PROVE  \A q \in Requests : FreshCopy(q)'
  BY <1>1, <1>3, <1>5, <1>6, HandlerMoves
<1>7. ASSUME NEW p \in Requests,
             Save(p) \/ SaveRelationship(p) \/ SaveConflicts(p) \/ Fail(p)
      PROVE  \A q \in Requests : FreshCopy(q)'
  BY <1>1, <1>3, <1>4, <1>7, CommitMoves, RefusalMoves
<1>8. CASE UNCHANGED vars
  BY <1>1, <1>8, FreshFrame DEF vars
<1> QED
  BY <1>6, <1>7, <1>8 DEF Next

LEMMA FreshInit ==
    ASSUME Init
    PROVE  FreshCopies
<1>1. Control
  BY ControlInit
<1>2. \A q \in Requests : req[q].pc = "idle"
  BY DEF Init, Idle
<1> QED
  BY <1>1, <1>2 DEF FreshCopies, FreshCopy

(* What FreshSaveIsTold asks of the row a save puts in place of another.   *)
IsAsTold(row, op, event, stored) ==
    /\ Surfaced(stored) = IF event = Null THEN Surfaced(row)
                          ELSE Told(Surfaced(row), event)
    /\ \A part \in DOMAIN row \ {Concern[op], "saves"} :
            stored[part] = row[part]

LEMMA AmendedIsTold ==
    ASSUME NEW row \in Rep, NEW op, NEW event, NEW copy,
           Amended(row, op, event, copy), NEW stored,
           stored = [copy EXCEPT !.tenant = row.tenant,
                                 !.saves = row.saves + 1]
    PROVE  IsAsTold(row, op, event, stored)
<1> DEFINE Meets(view, part) ==
        /\ Surfaced(stored) = view
        /\ \A x \in DOMAIN row \ {part, "saves"} : stored[x] = row[x]
<1>1. DOMAIN row = {"tenant", "personalInfo", "businessInfo", "access",
                    "status", "upline", "sub", "saves"}
  BY DEF Rep
<1>2. ASSUME NEW part \in DOMAIN row \ {"tenant", "saves"}, NEW new,
             copy = [row EXCEPT ![part] = new]
      PROVE  /\ stored[part] = new
             /\ \A x \in DOMAIN row \ {part, "saves"} : stored[x] = row[x]
  BY <1>1, <1>2
<1>3. ASSUME NEW i, copy = WithPersonalInfo(row, i)
      PROVE  Meets([Surfaced(row) EXCEPT !.personal = PersonalPayload(i)],
                   "personalInfo")
  <2>1. copy = [row EXCEPT !["personalInfo"] = i]
    BY <1>3 DEF WithPersonalInfo
  <2>2. /\ stored.personalInfo = i
        /\ stored.businessInfo = row.businessInfo
        /\ stored.status = row.status /\ stored.sub = row.sub
    BY <1>1, <1>2, <2>1
  <2>3. \A x \in DOMAIN row \ {"personalInfo", "saves"} : stored[x] = row[x]
    BY <1>1, <1>2, <2>1
  <2> QED
    BY <2>2, <2>3 DEF Surfaced
<1>4. ASSUME NEW b, copy = WithBusinessInfo(row, b)
      PROVE  Meets([Surfaced(row) EXCEPT !.business = BusinessPayload(b)],
                   "businessInfo")
  <2>1. copy = [row EXCEPT !["businessInfo"] = b]
    BY <1>4 DEF WithBusinessInfo
  <2>2. /\ stored.personalInfo = row.personalInfo
        /\ stored.businessInfo = b
        /\ stored.status = row.status /\ stored.sub = row.sub
    BY <1>1, <1>2, <2>1
  <2>3. \A x \in DOMAIN row \ {"businessInfo", "saves"} : stored[x] = row[x]
    BY <1>1, <1>2, <2>1
  <2> QED
    BY <2>2, <2>3 DEF Surfaced
<1>5. ASSUME NEW a, copy = WithAccessControl(row, a)
      PROVE  Meets(Surfaced(row), "access")
  <2>1. copy = [row EXCEPT !["access"] = a]
    BY <1>5 DEF WithAccessControl
  <2>2. /\ stored.personalInfo = row.personalInfo
        /\ stored.businessInfo = row.businessInfo
        /\ stored.status = row.status /\ stored.sub = row.sub
    BY <1>1, <1>2, <2>1
  <2>3. \A x \in DOMAIN row \ {"access", "saves"} : stored[x] = row[x]
    BY <1>1, <1>2, <2>1
  <2> QED
    BY <2>2, <2>3 DEF Surfaced
<1>6. ASSUME copy = SoftDelete(row)
      PROVE  Meets([Surfaced(row) EXCEPT !.status = "SOFT_DELETED"], "status")
  <2>1. copy = [row EXCEPT !["status"] = "SOFT_DELETED"]
    BY <1>6 DEF SoftDelete
  <2>2. /\ stored.personalInfo = row.personalInfo
        /\ stored.businessInfo = row.businessInfo
        /\ stored.status = "SOFT_DELETED" /\ stored.sub = row.sub
    BY <1>1, <1>2, <2>1
  <2>3. \A x \in DOMAIN row \ {"status", "saves"} : stored[x] = row[x]
    BY <1>1, <1>2, <2>1
  <2> QED
    BY <2>2, <2>3 DEF Surfaced
<1>7. ASSUME copy = Restore(row)
      PROVE  Meets([Surfaced(row) EXCEPT !.status = "ACTIVE"], "status")
  <2>1. copy = [row EXCEPT !["status"] = "ACTIVE"]
    BY <1>7 DEF Restore
  <2>2. /\ stored.personalInfo = row.personalInfo
        /\ stored.businessInfo = row.businessInfo
        /\ stored.status = "ACTIVE" /\ stored.sub = row.sub
    BY <1>1, <1>2, <2>1
  <2>3. \A x \in DOMAIN row \ {"status", "saves"} : stored[x] = row[x]
    BY <1>1, <1>2, <2>1
  <2> QED
    BY <2>2, <2>3 DEF Surfaced
<1>8. ASSUME copy = row
      PROVE  Meets(Surfaced(row), "sub")
  BY <1>1, <1>8 DEF Surfaced
<1>9. ASSUME NEW s, copy = WithKeycloakAccount(row, s)
      PROVE  Meets([Surfaced(row) EXCEPT !.sub = s], "sub")
  <2>1. copy = [row EXCEPT !["sub"] = s]
    BY <1>9 DEF WithKeycloakAccount
  <2>2. /\ stored.personalInfo = row.personalInfo
        /\ stored.businessInfo = row.businessInfo
        /\ stored.status = row.status /\ stored.sub = s
    BY <1>1, <1>2, <2>1
  <2>3. \A x \in DOMAIN row \ {"sub", "saves"} : stored[x] = row[x]
    BY <1>1, <1>2, <2>1
  <2> QED
    BY <2>2, <2>3 DEF Surfaced
<1> DEFINE view == IF event = Null THEN Surfaced(row)
                   ELSE Told(Surfaced(row), event)
<1>10. Meets(view, Concern[op])
  <2> HIDE DEF Meets
  <2> QED
    BY <1>3, <1>4, <1>5, <1>6, <1>7, <1>8, <1>9
       DEF Amended, Says, Told, Concern
<1> QED
  BY <1>10 DEF IsAsTold

(* A save of a row that nobody has saved since it was loaded moves what    *)
(* consumers know of the Rep as its event says and touches nobody else's   *)
(* part of it, however requests overlap and although the row and its       *)
(* access rows were read by two statements.                                *)
THEOREM FreshSaveTheorem == Spec => FreshSaveIsTold
<1> DEFINE IsTold(r, q) ==
        Saves(q, r) /\ reps[r] # Null /\ reps'[r] # reps[r] /\ IsFresh(q)
        => /\ Surfaced(reps'[r]) =
                  IF outbox'[r] = outbox[r] THEN Surfaced(reps[r])
                  ELSE Told(Surfaced(reps[r]), outbox'[r][Len(outbox'[r])])
           /\ \A part \in DOMAIN reps[r] \ {Concern[req[q].op], "saves"} :
                  reps'[r][part] = reps[r][part]
<1>1. Init => FreshCopies
  BY FreshInit
<1>2. FreshCopies /\ [Next]_vars => FreshCopies'
  BY ControlStep, FreshStep DEF FreshCopies
<1>3. ASSUME FreshCopies, [Next]_vars, NEW r \in RepIds, NEW q \in Requests
      PROVE  IsTold(r, q)
  <2>1. SUFFICES ASSUME Saves(q, r), reps[r] # Null, reps'[r] # reps[r],
                        IsFresh(q)
                 PROVE  IsTold(r, q)
    OBVIOUS
  <2>2. Control /\ FreshCopy(q)
    BY <1>3 DEF FreshCopies
  <2>3. PICK p \in Requests : Save(p)
    BY <1>3, <2>1, <2>2, OnlySavesWrite
  <2>4. p = q
    BY <2>1, <2>2, <2>3, CommitMoves DEF Saves
  <2>5. /\ req[q].pc = "saving" /\ req[q].rep = r /\ req[q].op \in Updates
        /\ Stored(q) = [req[q].copy EXCEPT !.tenant = reps[r].tenant,
                                           !.saves = reps[r].saves + 1]
        /\ reps'[r] = Stored(q)
    <3>1. req[q].pc = "saving" /\ req[q].rep = r /\ req[q].op # "LinkRepToGroup"
      BY <2>1, <2>3, <2>4 DEF Saves, Save
    <3>2. req[q].op # "CreateRep"
      BY <2>1, <2>2, <3>1, StoredType
    <3>3. req[q].op \in Ops
      BY <2>2, <3>1 DEF Control, Phase
    <3> QED
      BY <2>1, <2>2, <2>3, <2>4, <3>1, <3>2, <3>3, SaveKeepsIdentity
         DEF Stored, Updates
  <2>6. reps[r] \in Rep
    BY <2>2, <2>5, Copies DEF HasLoaded
  <2>7. Amended(reps[r], req[q].op, req[q].event, req[q].copy)
    BY <2>1, <2>2, <2>5 DEF FreshCopy
  <2>8. /\ req[q].event = Null <=> outbox'[r] = outbox[r]
        /\ req[q].event # Null => outbox'[r][Len(outbox'[r])] = req[q].event
    <3>1. outbox[r] \in Seq(Event) /\ WriteAll(q)
      BY <2>2, <2>3, <2>4 DEF Control, TypeOK, Save
    <3>2. CASE req[q].event = Null
      BY <3>1, <3>2 DEF WriteAll
    <3>3. CASE req[q].event # Null
      <4>1. outbox'[r] = Append(outbox[r], req[q].event)
        BY <2>2, <2>5, <3>1, <3>3 DEF WriteAll, Control, TypeOK
      <4>2. /\ Len(outbox'[r]) = Len(outbox[r]) + 1
            /\ outbox'[r][Len(outbox'[r])] = req[q].event
        BY <3>1, <4>1
      <4> QED
        BY <3>1, <3>3, <4>2
    <3> QED
      BY <3>2, <3>3
  <2>9. IsAsTold(reps[r], req[q].op, req[q].event, reps'[r])
    <3>1. PICK row, op, event, copy, stored :
            /\ row = reps[r]      /\ op = req[q].op  /\ event = req[q].event
            /\ copy = req[q].copy /\ stored = reps'[r]
      OBVIOUS
    <3>2. stored = [copy EXCEPT !.tenant = row.tenant, !.saves = row.saves + 1]
      BY <2>5, <3>1
    <3>3. row \in Rep /\ Amended(row, op, event, copy)
      BY <2>6, <2>7, <3>1
    <3> QED
      BY <3>1, <3>2, <3>3, AmendedIsTold
  <2> QED
    BY <2>8, <2>9 DEF IsAsTold
<1>4. FreshCopies /\ [Next]_vars =>
        [\A r \in RepIds, q \in Requests : IsTold(r, q)]_vars
  BY <1>3
<1> QED
  BY <1>1, <1>2, <1>4, PTL DEF Spec, FreshSaveIsTold

=============================================================================
