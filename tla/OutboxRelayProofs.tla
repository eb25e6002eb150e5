-------------------------- MODULE OutboxRelayProofs --------------------------
(***************************************************************************)
(* The relay's promises, proved for every number of events, tenants,       *)
(* passes, faults and crashes.                                             *)
(*                                                                         *)
(* Everything rests on what is true of a batch a pass still has to serve:  *)
(* its rows are written and different, and every older event of the same   *)
(* Rep has been sent, has failed, or comes before it in the batch          *)
(* (Complete).  Whatever other passes, handlers and crashes do meanwhile,  *)
(* rows are only added, and sent and retryCount only grow (Grows), which   *)
(* keeps that true.                                                        *)
(***************************************************************************)
EXTENDS OutboxRelay, FiniteSetTheorems, TLAPS

Standing == [pc     : {"idle", "query", "publish", "mark", "count"},
             tenant : 0 .. Len(KnownTenants),
             batch  : Seq(Events)]

(* Where a pass stands, and what it holds. *)
Stands(p) ==
    /\ pass[p].pc # "idle" => pass[p].tenant \in 1 .. Len(KnownTenants)
    /\ pass[p].pc \in {"publish", "mark", "count"} <=> pass[p].batch # <<>>
    /\ \A i \in DOMAIN pass[p].batch : pass[p].batch[i] \in Written
    /\ \A i, j \in DOMAIN pass[p].batch :
        pass[p].batch[i] = pass[p].batch[j] => i = j
    /\ pass[p].pc = "mark" => sent[pass[p].batch[1]] > 0

Older(e, f) == Serialised(e, f) /\ createdAt[e] < createdAt[f]

Tried(e) == sent[e] > 0 \/ retries[e] > 0

Complete(p) ==
    \A i \in DOMAIN pass[p].batch : \A e \in Written :
        Older(e, pass[p].batch[i]) =>
            \/ Tried(e)
            \/ \E j \in DOMAIN pass[p].batch : j < i /\ pass[p].batch[j] = e

RelayInv ==
    /\ TypeOK
    /\ PublishedWasSent
    /\ \A p \in Passes : Stands(p) /\ Complete(p)

(* The table and the counters only grow, and no handler writes an event    *)
(* that is older than one a serialised save has written.                   *)
Grows ==
    /\ \A e \in Written : e \in Written' /\ createdAt'[e] = createdAt[e]
    /\ \A e \in Written' \ Written, f \in Written :
        Serialised(e, f) => createdAt[f] <= createdAt'[e]
    /\ \A e \in Events : sent'[e] >= sent[e] /\ retries'[e] >= retries[e]

-----------------------------------------------------------------------------
(***************************************************************************)
(* Steps.                                                                  *)
(***************************************************************************)

LEMMA TailFacts ==
    ASSUME NEW S, NEW b \in Seq(S), b # <<>>
    PROVE  /\ Len(b) \in Nat \ {0} /\ DOMAIN b = 1 .. Len(b)
           /\ Head(b) = b[1] /\ b[1] \in S
           /\ Tail(b) \in Seq(S)
           /\ DOMAIN Tail(b) = 1 .. Len(b) - 1
           /\ \A i \in 1 .. Len(b) - 1 : Tail(b)[i] = b[i + 1]
OBVIOUS

(* A pass that goes on with a batch. *)
LEMMA GoOnFacts ==
    ASSUME pass \in [Passes -> Standing], NEW p \in Passes,
           pass[p].tenant \in 1 .. Len(KnownTenants),
           NEW batch \in Seq(Events), GoOn(p, batch)
    PROVE  /\ pass' \in [Passes -> Standing]
           /\ \A q \in Passes \ {p} : pass'[q] = pass[q]
           /\ pass'[p].batch = batch
           /\ pass'[p].pc = IF batch # <<>> THEN "publish" ELSE pass'[p].pc
           /\ batch = <<>> => pass'[p].pc \in {"idle", "query"}
           /\ pass'[p].pc # "idle" =>
                pass'[p].tenant \in 1 .. Len(KnownTenants)
<1>1. Len(KnownTenants) \in Nat
  BY RelayAssumption
<1>2. CASE batch # <<>>
  <2>1. pass' = [pass EXCEPT ![p] =
                    [pass[p] EXCEPT !.pc = "publish", !.batch = batch]]
    BY <1>2 DEF GoOn
  <2> QED
    BY <1>2, <2>1 DEF Standing
<1>3. CASE batch = <<>> /\ pass[p].tenant < Len(KnownTenants)
  <2>1. pass' = [pass EXCEPT ![p] = [pc |-> "query",
                    tenant |-> pass[p].tenant + 1, batch |-> <<>>]]
    BY <1>3 DEF GoOn
  <2>2. pass[p].tenant + 1 \in 1 .. Len(KnownTenants)
    BY <1>1, <1>3
  <2> QED
    BY <1>3, <2>1, <2>2 DEF Standing
<1>4. CASE batch = <<>> /\ ~(pass[p].tenant < Len(KnownTenants))
  <2>1. pass' = [pass EXCEPT ![p] = NoPass]
    BY <1>4 DEF GoOn
  <2> QED
    BY <1>1, <1>4, <2>1 DEF Standing, NoPass
<1> QED
  BY <1>2, <1>3, <1>4

(* What findMany returns. *)
LEMMA BatchFacts ==
    ASSUME TypeOK, NEW t, NEW batch \in Batches(t)
    PROVE  /\ batch \in Seq(Events)
           /\ \A i \in DOMAIN batch : batch[i] \in Pending(t)
           /\ \A i, j \in DOMAIN batch : batch[i] = batch[j] => i = j
           /\ \A i \in DOMAIN batch : \A e \in Pending(t) :
                createdAt[e] < createdAt[batch[i]] =>
                    \E j \in DOMAIN batch : j < i /\ batch[j] = e
<1>1. IsFiniteSet(Pending(t)) /\ Pending(t) \subseteq Events
  BY RelayAssumption, FS_Subset DEF Pending, Written
<1>2. PICK n \in Nat :
        /\ batch \in [1 .. n -> Pending(t)]
        /\ \A i, j \in 1 .. n : i < j =>
            batch[i] # batch[j] /\ createdAt[batch[i]] <= createdAt[batch[j]]
        /\ \A e \in Pending(t), i \in 1 .. n :
            createdAt[e] < createdAt[batch[i]] => \E j \in 1 .. n : batch[j] = e
  <2> DEFINE n == IF Cardinality(Pending(t)) < BatchSize
                  THEN Cardinality(Pending(t)) ELSE BatchSize
  <2>1. n \in Nat
    BY <1>1, FS_CardinalityType, RelayAssumption
  <2> QED
    BY <2>1 DEF Batches, Oldest
<1>3. batch \in Seq(Events) /\ DOMAIN batch = 1 .. n
  BY <1>1, <1>2
<1>4. \A e \in Events : createdAt[e] \in Int
  BY RelayAssumption DEF TypeOK
<1>5. \A i, j \in 1 .. n : batch[i] = batch[j] => i = j
  BY <1>2
<1>6. ASSUME NEW i \in 1 .. n, NEW e \in Pending(t),
             createdAt[e] < createdAt[batch[i]]
      PROVE  \E j \in 1 .. n : j < i /\ batch[j] = e
  <2>1. PICK j \in 1 .. n : batch[j] = e
    BY <1>2, <1>6
  <2>2. batch[i] \in Events /\ e \in Events
    BY <1>1, <1>2
  <2>3. ~(i < j) /\ i # j
    BY <1>2, <1>4, <1>6, <2>1, <2>2
  <2> QED
    BY <2>1, <2>3
<1> QED
  BY <1>2, <1>3, <1>5, <1>6

(* No step takes anything back. *)
LEMMA GrowsStep ==
    ASSUME TypeOK, [Next]_vars
    PROVE  Grows
<1> USE DEF TypeOK, Grows, Written
<1>1. ASSUME UNCHANGED <<rows, sent>>
      PROVE  Grows
  BY <1>1 DEF rows
<1>2. ASSUME NEW e \in Events, Write(e)
      PROVE  Grows
  <2>1. PICK now \in 1 .. Moments :
            /\ \A f \in Written : Serialised(e, f) => createdAt[f] <= now
            /\ createdAt' = [createdAt EXCEPT ![e] = now]
    BY <1>2 DEF Write
  <2>2. createdAt[e] = 0 /\ UNCHANGED <<retries, sent>>
    BY <1>2 DEF Write, nats
  <2>3. now # 0 /\ \A f \in Events : createdAt'[f] = IF f = e THEN now
                                                     ELSE createdAt[f]
    BY <2>1, RelayAssumption
  <2>4. \A f \in Written : f \in Written' /\ createdAt'[f] = createdAt[f]
    BY <2>2, <2>3
  <2>5. \A g \in Written' \ Written : g = e
    BY <2>3
  <2>6. \A g \in Written' \ Written, f \in Written :
            Serialised(g, f) => createdAt[f] <= createdAt'[g]
    BY <2>1, <2>3, <2>5
  <2>7. \A f \in Events : sent'[f] >= sent[f] /\ retries'[f] >= retries[f]
    BY <2>2
  <2> QED
    BY <2>4, <2>6, <2>7
<1>3. ASSUME UNCHANGED <<createdAt, retries>>, NEW c,
             sent' = [sent EXCEPT ![c] = @ + 1]
      PROVE  Grows
  BY <1>3
<1>4. ASSUME UNCHANGED <<createdAt, sent>>, NEW c,
             retries' = retries \/ retries' = [retries EXCEPT ![c] = @ + 1]
      PROVE  Grows
  <2>1. \A e \in Events : retries[e] \in Nat
    OBVIOUS
  <2>2. \A e \in Events :
            retries'[e] = retries[e] \/ retries'[e] = retries[e] + 1
    BY <1>4
  <2>3. \A e \in Events : retries'[e] >= retries[e]
    <3> HIDE DEF TypeOK, Grows, Written
    <3> QED
      BY <2>1, <2>2
  <2>4. \A e \in Events : sent'[e] >= sent[e]
    BY <1>4
  <2>5. Written' = Written /\ \A e \in Written : createdAt'[e] = createdAt[e]
    BY <1>4
  <2> QED
    BY <2>3, <2>4, <2>5
<1>5. ASSUME NEW p \in Passes,
             Start(p) \/ PassStep(p) \/ MarkFails(p) \/ QueryFails(p)
                \/ CountFails(p)
      PROVE  Grows
  <2>1. CASE Publish(p)
    BY <1>3, <2>1 DEF Publish, rows
  <2>2. CASE Count(p)
    BY <1>4, <2>2 DEF Count, nats
  <2>3. CASE CountFails(p)
    BY <1>4, <2>3 DEF CountFails, DbFault, nats
  <2>4. CASE Start(p) \/ Query(p) \/ PublishThrows(p)
    BY <1>1, <2>4 DEF Start, Query, PublishThrows, nats
  <2>5. CASE Mark(p) \/ MarkFails(p) \/ QueryFails(p)
    BY <2>5 DEF Mark, MarkFails, QueryFails, DbFault, nats
  <2> QED
    BY <1>5, <2>1, <2>2, <2>3, <2>4, <2>5 DEF PassStep
<1>6. CASE Flush \/ Receive \/ Disconnects \/ Reconnects \/ Closes \/ Crash
  BY <1>1, <1>6 DEF Flush, Receive, Disconnects, Reconnects, Closes, Crash
<1>7. CASE UNCHANGED vars
  BY <1>1, <1>7 DEF vars, nats
<1> QED
  BY <1>2, <1>5, <1>6, <1>7 DEF Next

(* What is older than a written event has been written already, and        *)
(* stays tried once it is.                                                 *)
LEMMA OlderBefore ==
    ASSUME TypeOK, TypeOK', Grows, NEW f \in Written, NEW e \in Written',
           Older(e, f)'
    PROVE  /\ e \in Written /\ Older(e, f)
           /\ Tried(e) => Tried(e)'
<1>1. e \in Events /\ f \in Events
  BY DEF Written
<1>2. createdAt'[f] = createdAt[f]
  BY DEF Grows
<1>3. createdAt[f] \in Int /\ createdAt'[e] \in Int
  BY <1>1, RelayAssumption DEF TypeOK
<1>4. Serialised(e, f) /\ createdAt'[e] < createdAt'[f]
  BY DEF Older, Serialised
<1>5. e \in Written
  <2>1. e \notin Written => createdAt[f] <= createdAt'[e]
    BY <1>4 DEF Grows
  <2> QED
    BY <1>2, <1>3, <1>4, <2>1
<1>6. Older(e, f)
  BY <1>2, <1>4, <1>5 DEF Older, Grows
<1>7. Tried(e) => Tried(e)'
  <2>1. sent'[e] >= sent[e] /\ retries'[e] >= retries[e]
    BY <1>1 DEF Grows
  <2>2. /\ sent[e] \in Nat /\ sent'[e] \in Nat
        /\ retries[e] \in Nat /\ retries'[e] \in Nat
    BY <1>1 DEF TypeOK
  <2> QED
    BY <2>1, <2>2 DEF Tried
<1> QED
  BY <1>5, <1>6, <1>7

(* A pass that keeps its batch has all it had: its events stay written,    *)
(* and no event turns up that is older than one it holds.                  *)
LEMMA KeepsBatch ==
    ASSUME TypeOK, TypeOK', Grows, NEW q \in Passes, Stands(q), Complete(q),
           pass'[q].batch = pass[q].batch
    PROVE  /\ Complete(q)'
           /\ \A i \in DOMAIN pass'[q].batch : pass'[q].batch[i] \in Written'
           /\ \A i, j \in DOMAIN pass'[q].batch :
                pass'[q].batch[i] = pass'[q].batch[j] => i = j
<1> DEFINE b == pass[q].batch
<1>1. Complete(q)'
  <2>1. SUFFICES ASSUME NEW i \in DOMAIN b, NEW f, f = b[i],
                        NEW e \in Written', Older(e, f)'
                 PROVE  \/ Tried(e)'
                        \/ \E j \in DOMAIN b : j < i /\ b[j] = e
    BY DEF Complete
  <2>2. f \in Written
    BY <2>1 DEF Stands
  <2>3. e \in Written /\ Older(e, f) /\ (Tried(e) => Tried(e)')
    BY <2>1, <2>2, OlderBefore
  <2> QED
    BY <2>1, <2>3 DEF Complete
<1>2. \A i \in DOMAIN b : b[i] \in Written'
  BY DEF Stands, Grows
<1>3. \A i, j \in DOMAIN b : b[i] = b[j] => i = j
  BY DEF Stands
<1> QED
  BY <1>1, <1>2, <1>3

(* A pass that does not move. *)
LEMMA Frame ==
    ASSUME TypeOK, TypeOK', Grows, NEW q \in Passes, pass'[q] = pass[q],
           Stands(q), Complete(q)
    PROVE  Stands(q)' /\ Complete(q)'
<1> DEFINE b == pass[q].batch
<1>1. b \in Seq(Events)
  BY DEF TypeOK
<1>2. pass[q].pc = "mark" => b[1] \in Events
  BY <1>1, TailFacts DEF Stands
<1>3. ASSUME pass[q].pc = "mark"
      PROVE  sent'[b[1]] > 0
  <2>1. b[1] \in Events /\ sent[b[1]] > 0
    BY <1>2, <1>3 DEF Stands
  <2>2. sent'[b[1]] >= sent[b[1]]
    BY <2>1 DEF Grows
  <2>3. sent[b[1]] \in Nat /\ sent'[b[1]] \in Nat
    BY <2>1 DEF TypeOK
  <2> QED
    BY <2>1, <2>2, <2>3
<1>4. /\ Complete(q)'
      /\ \A i \in DOMAIN b : b[i] \in Written'
      /\ \A i, j \in DOMAIN b : b[i] = b[j] => i = j
  BY KeepsBatch
<1> QED
  BY <1>3, <1>4 DEF Stands

(* What a pass that stands before publish, mark or count can do next.      *)
LEMMA CurrentFacts ==
    ASSUME TypeOK, NEW p \in Passes, Stands(p),
           pass[p].pc \in {"publish", "mark", "count"}
    PROVE  /\ pass[p].batch \in Seq(Events) /\ pass[p].batch # <<>>
           /\ Current(p) = pass[p].batch[1] /\ Current(p) \in Events
           /\ 1 \in DOMAIN pass[p].batch
           /\ pass[p].tenant \in 1 .. Len(KnownTenants)
           /\ Tail(pass[p].batch) \in Seq(Events)
<1>1. pass[p].batch \in Seq(Events) /\ pass[p].batch # <<>>
  BY DEF TypeOK, Stands
<1> QED
  BY <1>1, TailFacts DEF Stands, Current

LEMMA PassTyped ==
    ASSUME TypeOK
    PROVE  pass \in [Passes -> Standing]
BY DEF TypeOK, Standing

LEMMA QueryGoesOn ==
    ASSUME TypeOK, NEW p \in Passes, Stands(p), Query(p)
    PROVE  \E batch \in Batches(KnownTenants[pass[p].tenant]) :
                GoOn(p, batch) /\ batch \in Seq(Events)
BY BatchFacts DEF Query

LEMMA TypeStep ==
    ASSUME TypeOK, \A p \in Passes : Stands(p), [Next]_vars
    PROVE  TypeOK'
<1>1. pass \in [Passes -> Standing]
  BY PassTyped
<1> USE DEF TypeOK, rows, nats, faults
<1>2. ASSUME NEW e \in Events, Write(e)
      PROVE  TypeOK'
  <2>1. PICK now \in 1 .. Moments :
            createdAt' = [createdAt EXCEPT ![e] = now]
    BY <1>2 DEF Write
  <2>2. now \in 0 .. Moments
    BY RelayAssumption
  <2>3. createdAt' \in [Events -> 0 .. Moments]
    BY <2>1, <2>2
  <2>4. UNCHANGED <<published, retries, nats, pass, faults>>
    BY <1>2 DEF Write
  <2> QED
    BY <2>3, <2>4
<1>3. ASSUME NEW p \in Passes, Start(p)
      PROVE  TypeOK'
  <2>1. Len(KnownTenants) \in Nat \ {0}
    BY <1>3, RelayAssumption DEF Start
  <2>2. pass' \in [Passes -> Standing]
    BY <1>1, <1>3, <2>1 DEF Start, Standing
  <2> QED
    BY <1>3, <2>2 DEF Start, Standing
<1>4. ASSUME NEW p \in Passes, Query(p)
      PROVE  TypeOK'
  <2>1. PICK batch \in Seq(Events) : GoOn(p, batch)
    BY <1>4, QueryGoesOn
  <2>2. pass[p].tenant \in 1 .. Len(KnownTenants)
    BY <1>4 DEF Query, Stands
  <2>3. pass' \in [Passes -> Standing]
    BY <1>1, <2>1, <2>2, GoOnFacts
  <2> QED
    BY <1>4, <2>3 DEF Query, Standing
<1>5. ASSUME NEW p \in Passes, Publish(p)
      PROVE  TypeOK'
  <2>1. Current(p) \in Events
    BY <1>5, CurrentFacts DEF Publish
  <2>2. buffer' \in Seq(Events) /\ sent' \in [Events -> Nat]
    BY <1>5, <2>1 DEF Publish
  <2>3. pass' \in [Passes -> Standing]
    BY <1>1, <1>5 DEF Publish, Standing
  <2> QED
    BY <1>5, <2>2, <2>3 DEF Publish, Standing
<1>6. ASSUME NEW p \in Passes, PublishThrows(p)
      PROVE  TypeOK'
  <2>1. pass' \in [Passes -> Standing]
    BY <1>1, <1>6 DEF PublishThrows, Standing
  <2> QED
    BY <1>6, <2>1 DEF PublishThrows, Standing
<1>7. ASSUME NEW p \in Passes, Mark(p)
      PROVE  TypeOK'
  <2>1. pass' \in [Passes -> Standing] /\ Current(p) \in Events
    BY <1>1, <1>7, CurrentFacts, GoOnFacts DEF Mark
  <2> QED
    BY <1>7, <2>1 DEF Mark, Standing
<1>8. ASSUME NEW p \in Passes, Count(p)
      PROVE  TypeOK'
  <2>1. pass' \in [Passes -> Standing] /\ Current(p) \in Events
    BY <1>1, <1>8, CurrentFacts, GoOnFacts DEF Count
  <2>2. retries' \in [Events -> Nat]
    BY <1>8, <2>1 DEF Count
  <2> QED
    BY <1>8, <2>1, <2>2 DEF Count, Standing
<1>9. ASSUME DbFault
       PROVE  dbFaults' \in 0 .. MaxDbFaults
  BY <1>9, RelayAssumption DEF DbFault
<1>10. ASSUME NEW p \in Passes, MarkFails(p)
       PROVE  TypeOK'
  <2>1. pass' \in [Passes -> Standing] /\ Current(p) \in Events
    BY <1>1, <1>10, CurrentFacts DEF MarkFails, Standing
  <2>2. published' \subseteq Events
    BY <1>10, <2>1 DEF MarkFails
  <2> QED
    BY <1>9, <1>10, <2>1, <2>2 DEF MarkFails, DbFault, Standing
<1>11. ASSUME NEW p \in Passes, QueryFails(p) \/ CountFails(p)
       PROVE  TypeOK'
  <2>1. NoPass \in Standing
    BY RelayAssumption DEF NoPass, Standing
  <2>2. pass' = [pass EXCEPT ![p] = NoPass]
    BY <1>11 DEF QueryFails, CountFails
  <2>3. pass' \in [Passes -> Standing]
    BY <1>1, <2>1, <2>2
  <2>4. retries' \in [Events -> Nat]
    <3>1. CASE QueryFails(p)
      BY <3>1 DEF QueryFails
    <3>2. CASE CountFails(p)
      <4>1. Current(p) \in Events
        BY <3>2, CurrentFacts DEF CountFails
      <4>2. [retries EXCEPT ![Current(p)] = @ + 1] \in [Events -> Nat]
        BY <4>1
      <4> QED
        BY <3>2, <4>2 DEF CountFails
    <3> QED
      BY <1>11, <3>1, <3>2
  <2> QED
    BY <1>9, <1>11, <2>3, <2>4 DEF QueryFails, CountFails, DbFault, Standing
<1>12. CASE Flush
  <2>1. buffer \in Seq(Events) /\ buffer # <<>>
    BY <1>12 DEF Flush
  <2>2. Head(buffer) \in Events /\ Tail(buffer) \in Seq(Events)
    BY <2>1, TailFacts
  <2>3. Append(socket, Head(buffer)) \in Seq(Events)
    BY <2>2
  <2> QED
    BY <1>12, <2>2, <2>3 DEF Flush
<1>13. CASE Receive
  <2>1. socket \in Seq(Events) /\ socket # <<>>
    BY <1>13 DEF Receive
  <2>2. Head(socket) \in Events /\ Tail(socket) \in Seq(Events)
    BY <2>1, TailFacts
  <2> QED
    BY <1>13, <2>2 DEF Receive
<1>14. CASE Disconnects \/ Reconnects \/ Closes
  <2>1. conn' \in {"up", "reconnecting", "closed"}
    BY <1>14 DEF Disconnects, Reconnects, Closes
  <2>2. buffer' = buffer \/ buffer' = <<>>
    BY <1>14 DEF Disconnects, Reconnects, Closes
  <2>3. socket' = socket \/ socket' = <<>>
    BY <1>14 DEF Disconnects, Reconnects, Closes
  <2>4. <<>> \in Seq(Events) /\ buffer \in Seq(Events) /\ socket \in Seq(Events)
    OBVIOUS
  <2> QED
    BY <1>14, <2>1, <2>2, <2>3, <2>4 DEF Disconnects, Reconnects, Closes
<1>15. CASE Crash
  <2>1. NoPass \in Standing
    BY RelayAssumption DEF NoPass, Standing
  <2>2. pass' \in [Passes -> Standing]
    BY <1>15, <2>1 DEF Crash
  <2> QED
    BY <1>15, <2>2, RelayAssumption DEF Crash, Standing
<1>16. CASE UNCHANGED vars
  BY <1>16 DEF vars
<1> QED
  BY <1>2, <1>3, <1>4, <1>5, <1>6, <1>7, <1>8, <1>10, <1>11, <1>12, <1>13,
     <1>14, <1>15, <1>16 DEF Next, PassStep

(* A pass reads a batch: an older event of the Rep is not in front of the  *)
(* one it precedes only if it is published, hence sent, or given up on.    *)
LEMMA QueryStep ==
    ASSUME TypeOK, TypeOK', PublishedWasSent, NEW p \in Passes, Stands(p),
           Query(p)
    PROVE  /\ \A q \in Passes \ {p} : pass'[q] = pass[q]
           /\ Stands(p)' /\ Complete(p)'
<1> DEFINE tenant == KnownTenants[pass[p].tenant]
<1>1. PICK batch \in Batches(tenant) : GoOn(p, batch) /\ batch \in Seq(Events)
  BY QueryGoesOn
<1>2. pass[p].tenant \in 1 .. Len(KnownTenants)
  BY DEF Query, Stands
<1>3. UNCHANGED <<createdAt, published, retries, sent>>
  BY DEF Query, rows, nats
<1>4. /\ \A q \in Passes \ {p} : pass'[q] = pass[q]
      /\ pass'[p].batch = batch
      /\ batch # <<>> => pass'[p].pc = "publish"
      /\ batch = <<>> => pass'[p].pc \in {"idle", "query"}
      /\ pass'[p].pc # "idle" => pass'[p].tenant \in 1 .. Len(KnownTenants)
  BY <1>1, <1>2, GoOnFacts, PassTyped
<1>5. /\ \A i \in DOMAIN batch : batch[i] \in Pending(tenant)
      /\ \A i, j \in DOMAIN batch : batch[i] = batch[j] => i = j
      /\ \A i \in DOMAIN batch : \A e \in Pending(tenant) :
            createdAt[e] < createdAt[batch[i]] =>
                \E j \in DOMAIN batch : j < i /\ batch[j] = e
  BY <1>1, BatchFacts
<1>6. Stands(p)'
  <2>1. \A i \in DOMAIN batch : batch[i] \in Written'
    BY <1>3, <1>5 DEF Pending, Written
  <2> QED
    BY <1>4, <1>5, <2>1 DEF Stands
<1>7. Complete(p)'
  <2>1. SUFFICES ASSUME NEW i \in DOMAIN batch, NEW e \in Written,
                        Older(e, batch[i])
                 PROVE  \/ Tried(e)
                        \/ \E j \in DOMAIN batch : j < i /\ batch[j] = e
    BY <1>3, <1>4 DEF Complete, Older, Tried, Serialised, Written
  <2>2. e \in Events /\ batch[i] \in Events /\ batch[i] \in Pending(tenant)
    BY <1>5 DEF Pending, Written
  <2>3. TenantOf[e] = tenant
    BY <2>1, <2>2, RelayAssumption DEF Older, Serialised, Pending
  <2>4. CASE e \in published
    BY <2>4 DEF PublishedWasSent, Tried
  <2>5. CASE ~(retries[e] < MaxRetries)
    <3>1. retries[e] \in Nat /\ MaxRetries \in Nat \ {0}
      BY <2>2, RelayAssumption DEF TypeOK
    <3> QED
      BY <2>5, <3>1 DEF Tried
  <2>6. CASE e \in Pending(tenant)
    BY <1>5, <2>1, <2>6 DEF Older
  <2> QED
    BY <2>3, <2>4, <2>5, <2>6 DEF Pending
<1> QED
  BY <1>4, <1>6, <1>7

(* A pass goes on to the rest of its batch, having sent or counted the     *)
(* event in front of it.                                                   *)
LEMMA AdvanceStep ==
    ASSUME TypeOK, TypeOK', Grows, NEW p \in Passes, Stands(p), Complete(p),
           pass[p].pc \in {"mark", "count"},
           GoOn(p, Tail(pass[p].batch)),
           NEW c, c = Current(p), Tried(c)'
    PROVE  /\ \A q \in Passes \ {p} : pass'[q] = pass[q]
           /\ Stands(p)' /\ Complete(p)'
<1> DEFINE b == pass[p].batch
           t == Tail(b)
<1>1. /\ b \in Seq(Events) /\ b # <<>>
      /\ Current(p) = b[1] /\ Current(p) \in Events
      /\ pass[p].tenant \in 1 .. Len(KnownTenants)
      /\ t \in Seq(Events)
  BY CurrentFacts
<1>2. /\ Len(b) \in Nat \ {0} /\ DOMAIN b = 1 .. Len(b)
      /\ DOMAIN t = 1 .. Len(b) - 1
      /\ \A i \in DOMAIN t : t[i] = b[i + 1] /\ i + 1 \in DOMAIN b
  BY <1>1, TailFacts
<1>3. /\ \A q \in Passes \ {p} : pass'[q] = pass[q]
      /\ pass'[p].batch = t
      /\ t # <<>> => pass'[p].pc = "publish"
      /\ t = <<>> => pass'[p].pc \in {"idle", "query"}
      /\ pass'[p].pc # "idle" => pass'[p].tenant \in 1 .. Len(KnownTenants)
  BY <1>1, GoOnFacts, PassTyped
<1>4. /\ \A i \in DOMAIN b : b[i] \in Written /\ b[i] \in Written'
      /\ \A i, j \in DOMAIN b : b[i] = b[j] => i = j
  BY DEF Stands, Grows
<1>5. Stands(p)'
  <2>1. \A i \in DOMAIN t : t[i] \in Written'
    BY <1>2, <1>4
  <2>2. \A i, j \in DOMAIN t : t[i] = t[j] => i = j
    BY <1>2, <1>4
  <2> QED
    BY <1>3, <2>1, <2>2 DEF Stands
<1>6. Complete(p)'
  <2>1. SUFFICES ASSUME NEW i \in DOMAIN t, NEW f, f = t[i],
                        NEW e \in Written', Older(e, f)'
                 PROVE  \/ Tried(e)'
                        \/ \E j \in DOMAIN t : j < i /\ t[j] = e
    BY <1>3 DEF Complete
  <2>2. i + 1 \in DOMAIN b /\ f = b[i + 1] /\ f \in Written
    BY <1>2, <1>4, <2>1
  <2>3. e \in Written /\ Older(e, f) /\ (Tried(e) => Tried(e)')
    BY <2>1, <2>2, OlderBefore
  <2>4. \/ Tried(e)
        \/ \E k \in DOMAIN b : k < i + 1 /\ b[k] = e
    BY <2>2, <2>3 DEF Complete
  <2>5. ASSUME NEW k \in DOMAIN b, k < i + 1, b[k] = e, k # 1
        PROVE  k - 1 \in DOMAIN t /\ k - 1 < i /\ t[k - 1] = e
    <3>1. k - 1 \in DOMAIN t /\ k - 1 < i
      BY <1>2, <2>5
    <3>2. t[k - 1] = b[(k - 1) + 1] /\ (k - 1) + 1 = k
      BY <1>2, <3>1
    <3> QED
      BY <2>5, <3>1, <3>2
  <2>6. ASSUME NEW k \in DOMAIN b, k = 1, b[k] = e
        PROVE  Tried(e)'
    BY <1>1, <2>6
  <2> QED
    BY <2>3, <2>4, <2>5, <2>6
<1> QED
  BY <1>3, <1>5, <1>6

(* A pass has tried to publish or to mark the event in front of it.        *)
LEMMA SameEvent ==
    ASSUME TypeOK, TypeOK', Grows, NEW p \in Passes, Stands(p), Complete(p),
           pass[p].pc \in {"publish", "mark"}, NEW pc \in {"mark", "count"},
           pass' = [pass EXCEPT ![p].pc = pc],
           pc = "mark" => sent'[Current(p)] > 0
    PROVE  /\ \A q \in Passes \ {p} : pass'[q] = pass[q]
           /\ Stands(p)' /\ Complete(p)'
<1>1. /\ \A q \in Passes \ {p} : pass'[q] = pass[q]
      /\ pass'[p] = [pass[p] EXCEPT !.pc = pc]
  BY PassTyped
<1>2. /\ pass'[p].pc = pc
      /\ pass'[p].tenant = pass[p].tenant
      /\ pass'[p].batch = pass[p].batch
  BY <1>1, PassTyped DEF Standing
<1>3. /\ pass[p].batch # <<>> /\ Current(p) = pass[p].batch[1]
      /\ pass[p].tenant \in 1 .. Len(KnownTenants)
  BY CurrentFacts
<1>4. /\ Complete(p)'
      /\ \A i \in DOMAIN pass'[p].batch : pass'[p].batch[i] \in Written'
      /\ \A i, j \in DOMAIN pass'[p].batch :
            pass'[p].batch[i] = pass'[p].batch[j] => i = j
  BY <1>2, KeepsBatch
<1>5. Stands(p)'
  BY <1>2, <1>3, <1>4 DEF Stands
<1> QED
  BY <1>1, <1>4, <1>5

(* A pass with nothing in its hands. *)
LEMMA EmptyHanded ==
    ASSUME NEW p \in Passes, pass'[p].batch = <<>>,
           \/ pass'[p].pc = "idle"
           \/ /\ pass'[p].pc = "query"
              /\ pass'[p].tenant \in 1 .. Len(KnownTenants)
    PROVE  Stands(p)' /\ Complete(p)'
BY DEF Stands, Complete

(* No step puts a pass where it cannot stand. *)
LEMMA PassesStand ==
    ASSUME TypeOK, TypeOK', PublishedWasSent, Grows, [Next]_vars,
           \A p \in Passes : Stands(p) /\ Complete(p)
    PROVE  \A p \in Passes : Stands(p)' /\ Complete(p)'
<1>1. ASSUME NEW p \in Passes, Stands(p)' /\ Complete(p)',
             \A q \in Passes \ {p} : pass'[q] = pass[q]
      PROVE  \A q \in Passes : Stands(q)' /\ Complete(q)'
  BY <1>1, Frame
<1>2. ASSUME UNCHANGED pass
      PROVE  \A q \in Passes : Stands(q)' /\ Complete(q)'
  BY <1>2, Frame
<1>3. ASSUME NEW p \in Passes, Start(p)
      PROVE  \A q \in Passes : Stands(q)' /\ Complete(q)'
  <2>1. /\ pass'[p] = [pc |-> "query", tenant |-> 1, batch |-> <<>>]
        /\ \A q \in Passes \ {p} : pass'[q] = pass[q]
    BY <1>3, PassTyped DEF Start
  <2>2. 1 \in 1 .. Len(KnownTenants)
    BY <1>3, RelayAssumption DEF Start
  <2>3. Stands(p)' /\ Complete(p)'
    BY <2>1, <2>2, EmptyHanded
  <2> QED
    BY <1>1, <2>1, <2>3
<1>4. ASSUME NEW p \in Passes, Query(p)
      PROVE  \A q \in Passes : Stands(q)' /\ Complete(q)'
  BY <1>1, <1>4, QueryStep
<1>5. ASSUME NEW p \in Passes, Publish(p)
      PROVE  \A q \in Passes : Stands(q)' /\ Complete(q)'
  <2>1. Current(p) \in Events
    BY <1>5, CurrentFacts DEF Publish
  <2>2. sent'[Current(p)] > 0
    <3>1. sent \in [Events -> Nat]
      BY DEF TypeOK
    <3>2. sent' = [sent EXCEPT ![Current(p)] = @ + 1]
      BY <1>5 DEF Publish
    <3> QED
      BY <2>1, <3>1, <3>2
  <2>3. pass' = [pass EXCEPT ![p].pc = "mark"] /\ pass[p].pc = "publish"
    BY <1>5 DEF Publish
  <2> QED
    BY <1>1, <2>2, <2>3, SameEvent
<1>6. ASSUME NEW p \in Passes, PublishThrows(p) \/ MarkFails(p)
      PROVE  \A q \in Passes : Stands(q)' /\ Complete(q)'
  <2>1. /\ pass' = [pass EXCEPT ![p].pc = "count"]
        /\ pass[p].pc \in {"publish", "mark"}
    BY <1>6 DEF PublishThrows, MarkFails
  <2> QED
    BY <1>1, <2>1, SameEvent
<1>7. ASSUME NEW p \in Passes, Mark(p)
      PROVE  \A q \in Passes : Stands(q)' /\ Complete(q)'
  <2> DEFINE c == Current(p)
  <2>1. pass[p].pc = "mark" /\ GoOn(p, Tail(pass[p].batch))
    BY <1>7 DEF Mark
  <2>2. sent[c] > 0 /\ UNCHANGED sent
    BY <1>7, CurrentFacts DEF Mark, Stands, nats
  <2>3. PICK d : d = c
    OBVIOUS
  <2>4. Tried(d)'
    BY <2>2, <2>3 DEF Tried
  <2> QED
    BY <1>1, <2>1, <2>3, <2>4, AdvanceStep
<1>8. ASSUME NEW p \in Passes, Count(p)
      PROVE  \A q \in Passes : Stands(q)' /\ Complete(q)'
  <2>1. pass[p].pc = "count" /\ GoOn(p, Tail(pass[p].batch))
    BY <1>8 DEF Count
  <2>2. PICK d \in Events : d = Current(p)
    BY <1>8, CurrentFacts DEF Count
  <2>3. retries'[d] > 0
    <3>1. retries \in [Events -> Nat]
      BY DEF TypeOK
    <3>2. retries' = [retries EXCEPT ![d] = @ + 1]
      BY <1>8, <2>2 DEF Count
    <3> QED
      BY <3>1, <3>2
  <2>4. Tried(d)'
    BY <2>3 DEF Tried
  <2> QED
    BY <1>1, <2>1, <2>2, <2>4, AdvanceStep
<1>9. ASSUME NEW p \in Passes, QueryFails(p) \/ CountFails(p)
      PROVE  \A q \in Passes : Stands(q)' /\ Complete(q)'
  <2>1. /\ pass'[p] = NoPass
        /\ \A q \in Passes \ {p} : pass'[q] = pass[q]
    BY <1>9, PassTyped DEF QueryFails, CountFails
  <2>2. Stands(p)' /\ Complete(p)'
    BY <2>1, EmptyHanded DEF NoPass
  <2> QED
    BY <1>1, <2>1, <2>2
<1>10. CASE Crash
  <2>1. \A p \in Passes : pass'[p] = NoPass
    BY <1>10 DEF Crash
  <2> QED
    BY <2>1, EmptyHanded DEF NoPass
<1>11. CASE UNCHANGED pass
  BY <1>2, <1>11
<1> QED
  BY <1>3, <1>4, <1>5, <1>6, <1>7, <1>8, <1>9, <1>10, <1>11
     DEF Next, PassStep, vars, Write, Flush, Receive, Disconnects,
         Reconnects, Closes

LEMMA RelayStep ==
    ASSUME RelayInv, [Next]_vars
    PROVE  RelayInv' /\ Grows
<1>1. TypeOK' /\ Grows
  BY TypeStep, GrowsStep DEF RelayInv
<1>2. \A p \in Passes : Stands(p)' /\ Complete(p)'
  BY <1>1, PassesStand DEF RelayInv
<1>3. PublishedWasSent'
  <2>1. ASSUME published' \subseteq published
        PROVE  PublishedWasSent'
    <3>1. \A e \in Events :
            sent'[e] >= sent[e] /\ sent[e] \in Nat /\ sent'[e] \in Nat
      BY <1>1 DEF RelayInv, Grows, TypeOK
    <3>2. \A e \in published' : e \in Events /\ sent[e] > 0
      BY <2>1 DEF RelayInv, PublishedWasSent, TypeOK
    <3> QED
      BY <3>1, <3>2 DEF PublishedWasSent
  <2>2. ASSUME NEW p \in Passes, pass[p].pc = "mark",
               published' \subseteq published \cup {Current(p)}
        PROVE  PublishedWasSent'
    <3>1. sent[Current(p)] > 0 /\ Current(p) \in Events
      BY <2>2, CurrentFacts DEF RelayInv, Stands
    <3>2. \A e \in published' : e \in Events /\ sent[e] > 0
      BY <2>2, <3>1 DEF RelayInv, PublishedWasSent, TypeOK
    <3>3. \A e \in Events :
            sent'[e] >= sent[e] /\ sent[e] \in Nat /\ sent'[e] \in Nat
      BY <1>1 DEF RelayInv, Grows, TypeOK
    <3> QED
      BY <3>2, <3>3 DEF PublishedWasSent
  <2>3. CASE UNCHANGED published
    BY <2>1, <2>3
  <2>4. ASSUME NEW p \in Passes, Mark(p) \/ MarkFails(p)
        PROVE  PublishedWasSent'
    BY <2>2, <2>4 DEF Mark, MarkFails
  <2> QED
    BY <2>3, <2>4 DEF Next, PassStep, vars, rows, Write, Start, Query,
       Publish, PublishThrows, Count, QueryFails, CountFails, Flush,
       Receive, Disconnects, Reconnects, Closes, Crash
<1> QED
  BY <1>1, <1>2, <1>3 DEF RelayInv

LEMMA RelayInit ==
    ASSUME Init
    PROVE  RelayInv
<1>1. NoPass \in Standing
  BY RelayAssumption DEF NoPass, Standing
<1>2. TypeOK
  BY <1>1, RelayAssumption DEF Init, TypeOK, Standing
<1> QED
  BY <1>2 DEF Init, RelayInv, PublishedWasSent, Stands, Complete, NoPass

-----------------------------------------------------------------------------
(* The relay's rows, counters and passes stay well formed: a pass never    *)
(* runs past the last tenant, nor past the end of its batch.               *)
THEOREM RelayTypeCorrect == Spec => []TypeOK
<1>1. Init => RelayInv
  BY RelayInit
<1>2. RelayInv /\ [Next]_vars => RelayInv'
  BY RelayStep
<1>3. RelayInv => TypeOK
  BY DEF RelayInv
<1> QED
  BY <1>1, <1>2, <1>3, PTL DEF Spec

(* publishedAt is set on no event that publish() did not accept, whatever  *)
(* passes overlap, whatever updates fail and whenever the process dies.    *)
THEOREM PublishedWasSentTheorem == Spec => []PublishedWasSent
<1>1. Init => RelayInv
  BY RelayInit
<1>2. RelayInv /\ [Next]_vars => RelayInv'
  BY RelayStep
<1>3. RelayInv => PublishedWasSent
  BY DEF RelayInv
<1> QED
  BY <1>1, <1>2, <1>3, PTL DEF Spec

(* An event of a Rep goes out before an older one only when that one has   *)
(* failed: a pass has the older one before it in its batch, or its query   *)
(* found it published or given up on.                                      *)
THEOREM OvertakingTheorem == Spec => OvertakesOnlyFailed
<1> DEFINE Excused ==
        \A e, f \in Written :
            /\ Serialised(e, f)
            /\ createdAt[e] < createdAt[f]
            /\ sent[f] = 0
            /\ sent'[f] > 0
            => sent[e] > 0 \/ retries[e] > 0
<1>1. Init => RelayInv
  BY RelayInit
<1>2. RelayInv /\ [Next]_vars => RelayInv'
  BY RelayStep
<1>3. ASSUME RelayInv, [Next]_vars
      PROVE  Excused
  <2>1. SUFFICES ASSUME NEW e \in Written, NEW f \in Written, Older(e, f),
                        sent[f] = 0, sent'[f] > 0
                 PROVE  Tried(e)
    BY DEF Older, Tried
  <2>2. sent' # sent
    BY <2>1
  <2>3. PICK p \in Passes : Publish(p)
    BY <1>3, <2>2 DEF Next, PassStep, vars, nats, Write, Start, Query,
       PublishThrows, Mark, Count, DbFault, MarkFails, QueryFails,
       CountFails, Flush, Receive, Disconnects, Reconnects, Closes, Crash
  <2>4. /\ Current(p) = pass[p].batch[1] /\ Current(p) \in Events
        /\ 1 \in DOMAIN pass[p].batch
        /\ DOMAIN pass[p].batch = 1 .. Len(pass[p].batch)
    BY <1>3, <2>3, CurrentFacts, TailFacts DEF Publish, RelayInv
  <2>5. f = Current(p)
    BY <1>3, <2>1, <2>3 DEF Publish, Written, RelayInv, TypeOK
  <2>6. \/ Tried(e)
        \/ \E j \in DOMAIN pass[p].batch : j < 1 /\ pass[p].batch[j] = e
    BY <1>3, <2>1, <2>4, <2>5 DEF RelayInv, Complete
  <2> QED
    BY <2>4, <2>6
<1>4. RelayInv /\ [Next]_vars => [Excused]_vars
  BY <1>3
<1> QED
  BY <1>1, <1>2, <1>4, PTL DEF Spec, OvertakesOnlyFailed

=============================================================================
