----------------------------- MODULE OutboxRelay -----------------------------
(***************************************************************************)
(* OutboxRelayService and NatsEventPublisher: how rows of outbox_events    *)
(* reach NATS.                                                             *)
(*                                                                         *)
(* setInterval starts a pass every few seconds whether or not the one      *)
(* before has ended, so passes overlap.  A pass serves the known tenants   *)
(* in turn: it reads a batch of unpublished rows in one transaction, and   *)
(* for every row calls publish() and then sets publishedAt in another      *)
(* transaction; if either fails it increments retryCount in a third.       *)
(* Nothing locks a row between the three.                                  *)
(*                                                                         *)
(* publish() does not wait for anything: it hands the message to the NATS  *)
(* client, which sends it later, at most once.  What is on its socket when *)
(* the connection breaks is lost, what it still buffers may be lost when   *)
(* it dials again, and is lost when it gives up or the process dies.       *)
(*                                                                         *)
(* Bounds.  Events are written once each, in one of Moments milliseconds;  *)
(* Passes is how many passes can overlap; MaxDbFaults and MaxCrashes bound *)
(* the failing transactions and the crashes of a behaviour.                *)
(***************************************************************************)
EXTENDS Integers, Sequences, FiniteSets

CONSTANTS
    Events,        \* the events the command handlers will write
    Tenants,
    Reps,
    TenantOf,      \* the tenantId and the aggregateId of an event
    RepOf,
    Unlocked,      \* the events written without a lock on their Rep's row
    Moments,       \* how many milliseconds createdAt tells apart
    KnownTenants,  \* OUTBOX_RELAY_TENANT_IDS, as a sequence
    Passes,
    MaxRetries,
    BatchSize,
    MaxDbFaults,
    MaxCrashes

ASSUME RelayAssumption ==
    /\ TenantOf \in [Events -> Tenants]
    /\ RepOf \in [Events -> Reps]
    /\ \A e, f \in Events : RepOf[e] = RepOf[f] => TenantOf[e] = TenantOf[f]
    /\ Unlocked \subseteq Events
    /\ Moments \in Nat
    /\ KnownTenants \in Seq(Tenants)
    /\ MaxRetries \in Nat \ {0}
    /\ BatchSize \in Nat \ {0}
    /\ IsFiniteSet(Events)
    /\ IsFiniteSet(Passes)
    /\ MaxDbFaults \in Nat
    /\ MaxCrashes \in Nat

VARIABLES
    createdAt,  \* of the rows of outbox_events, 0 if there is none yet
    published,  \* the events whose publishedAt is set
    retries,    \* their retryCount
    sent,       \* how often publish() accepted the event
    conn,       \* the NATS client: "up", "reconnecting" or "closed"
    buffer,     \* what it has accepted and not yet written to its socket
    socket,     \* what it has written and the server has not yet read
    delivered,  \* what the NATS server has received
    pass,       \* per pass: where it stands, which tenant, what is left
    dbFaults,   \* how many transactions have failed,
    crashes     \* and how often the process has died, so far

rows == <<createdAt, published, retries>>
nats == <<sent, conn, buffer, socket, delivered>>
faults == <<dbFaults, crashes>>
vars == <<rows, nats, pass, faults>>

NoPass == [pc |-> "idle", tenant |-> 0, batch |-> <<>>]

TypeOK ==
    /\ createdAt \in [Events -> 0 .. Moments]
    /\ published \subseteq Events
    /\ retries \in [Events -> Nat]
    /\ sent \in [Events -> Nat]
    /\ conn \in {"up", "reconnecting", "closed"}
    /\ buffer \in Seq(Events)
    /\ socket \in Seq(Events)
    /\ delivered \subseteq Events
    /\ pass \in [Passes ->
            [pc     : {"idle", "query", "publish", "mark", "count"},
             tenant : 0 .. Len(KnownTenants),
             batch  : Seq(Events)]]
    /\ dbFaults \in 0 .. MaxDbFaults
    /\ crashes \in 0 .. MaxCrashes

(* NatsModule connects before the relay's first pass. *)
Init ==
    /\ createdAt = [e \in Events |-> 0]
    /\ published = {}
    /\ retries = [e \in Events |-> 0]
    /\ sent = [e \in Events |-> 0]
    /\ conn = "up"
    /\ buffer = <<>>
    /\ socket = <<>>
    /\ delivered = {}
    /\ pass = [p \in Passes |-> NoPass]
    /\ dbFaults = 0
    /\ crashes = 0

Written == {e \in Events : createdAt[e] # 0}

(* Written by saves of one Rep, which its row lock serialises.             *)
(* linkRepToGroup does not take that lock.                                 *)
Serialised(e, f) ==
    /\ RepOf[e] = RepOf[f]
    /\ e \notin Unlocked
    /\ f \notin Unlocked

-----------------------------------------------------------------------------
(* A command handler's transaction commits an event.  createdAt was taken  *)
(* inside the transaction, in milliseconds: the row may turn up after rows *)
(* that are younger, or as old.  Only the saves of one Rep come in order,  *)
(* and not even they if they fall into the same millisecond.               *)
Write(e) ==
    /\ e \notin Written
    /\ \E now \in 1 .. Moments :
        /\ \A f \in Written : Serialised(e, f) => createdAt[f] <= now
        /\ createdAt' = [createdAt EXCEPT ![e] = now]
    /\ UNCHANGED <<published, retries, nats, pass, faults>>

(* The timer fires.  Nothing happens if no tenant is known.                *)
Start(p) ==
    /\ pass[p].pc = "idle"
    /\ KnownTenants # <<>>
    /\ pass' = [pass EXCEPT ![p] = [pc |-> "query", tenant |-> 1,
                                    batch |-> <<>>]]
    /\ UNCHANGED <<rows, nats, faults>>

(* Mutant: the query forgets publishedAt.                                  *)
BelowRetryLimit(tenant) ==
    {e \in Written : TenantOf[e] = tenant /\ retries[e] < MaxRetries}

(* Mutant: the query forgets retryCount.                                   *)
Unpublished(tenant) ==
    {e \in Written : TenantOf[e] = tenant /\ e \notin published}

Pending(tenant) ==
    {e \in Written :
        /\ TenantOf[e] = tenant
        /\ e \notin published
        /\ retries[e] < MaxRetries}

(* The first BatchSize of a set of rows, ordered by createdAt: the order   *)
(* of rows of the same millisecond is the database's choice.               *)
Oldest(rowset) ==
    LET n == IF Cardinality(rowset) < BatchSize THEN Cardinality(rowset)
                                                ELSE BatchSize
    IN  {batch \in [1 .. n -> rowset] :
            /\ \A i, j \in 1 .. n : i < j =>
                batch[i] # batch[j] /\ createdAt[batch[i]] <= createdAt[batch[j]]
            /\ \A e \in rowset, i \in 1 .. n :
                createdAt[e] < createdAt[batch[i]] =>
                    \E j \in 1 .. n : batch[j] = e}

(* Mutant: orderBy createdAt desc.                                         *)
BatchesNewestFirst(tenant) ==
    {[i \in DOMAIN batch |-> batch[Len(batch) + 1 - i]] :
        batch \in Oldest(Pending(tenant))}

(* Mutant: rows given up on still take their place in the batch.           *)
BatchesWithDeadRows(tenant) ==
    {SelectSeq(batch, LAMBDA e : retries[e] < MaxRetries) :
        batch \in Oldest({e \in Written :
                            TenantOf[e] = tenant /\ e \notin published})}

(* What findMany may return. *)
Batches(tenant) == Oldest(Pending(tenant))

(* Mutant: the loop over the tenants has no end.                           *)
GoOnPastTheLastTenant(p, batch) ==
    pass' = [pass EXCEPT ![p] =
        IF batch # <<>> THEN [@ EXCEPT !.pc = "publish", !.batch = batch]
        ELSE [pc |-> "query", tenant |-> @.tenant + 1, batch |-> <<>>]]

(* The pass goes on with what is left of its batch, else with the next     *)
(* tenant, else it is over.                                                *)
GoOn(p, batch) ==
    pass' = [pass EXCEPT ![p] =
        IF batch # <<>> THEN [@ EXCEPT !.pc = "publish", !.batch = batch]
        ELSE IF @.tenant < Len(KnownTenants)
             THEN [pc |-> "query", tenant |-> @.tenant + 1, batch |-> <<>>]
             ELSE NoPass]

Query(p) ==
    /\ pass[p].pc = "query"
    /\ \E batch \in Batches(KnownTenants[pass[p].tenant]) : GoOn(p, batch)
    /\ UNCHANGED <<rows, nats, faults>>

Current(p) == Head(pass[p].batch)

(* publish() hands the message to the client, which accepts it as long as  *)
(* it is connected or trying to be.                                        *)
Publish(p) ==
    /\ pass[p].pc = "publish"
    /\ conn # "closed"
    /\ sent' = [sent EXCEPT ![Current(p)] = @ + 1]
    /\ buffer' = Append(buffer, Current(p))
    /\ pass' = [pass EXCEPT ![p].pc = "mark"]
    /\ UNCHANGED <<rows, conn, socket, delivered, faults>>

(* Mutant: publish() swallows what the client throws.                      *)
PublishErrorIgnored(p) ==
    /\ pass[p].pc = "publish"
    /\ pass' = [pass EXCEPT ![p].pc = "mark"]
    /\ UNCHANGED <<rows, nats, faults>>

(* A closed client throws, and in any state one to whom a message is too   *)
(* large or that cannot encode it.                                         *)
PublishThrows(p) ==
    /\ pass[p].pc = "publish"
    /\ pass' = [pass EXCEPT ![p].pc = "count"]
    /\ UNCHANGED <<rows, nats, faults>>

(* The transaction that sets publishedAt. *)
Mark(p) ==
    /\ pass[p].pc = "mark"
    /\ published' = published \cup {Current(p)}
    /\ GoOn(p, Tail(pass[p].batch))
    /\ UNCHANGED <<createdAt, retries, nats, faults>>

(* The catch block: the transaction that increments retryCount. *)
Count(p) ==
    /\ pass[p].pc = "count"
    /\ retries' = [retries EXCEPT ![Current(p)] = @ + 1]
    /\ GoOn(p, Tail(pass[p].batch))
    /\ UNCHANGED <<createdAt, published, nats, faults>>

(* A transaction fails.  Its effect may be there all the same: the commit  *)
(* may have reached the database and only its acknowledgement been lost.   *)
DbFault ==
    /\ dbFaults < MaxDbFaults
    /\ dbFaults' = dbFaults + 1
    /\ UNCHANGED <<createdAt, nats, crashes>>

(* Setting publishedAt fails: the catch block counts a failed publish.     *)
MarkFails(p) ==
    /\ pass[p].pc = "mark"
    /\ DbFault
    /\ published' \in {published, published \cup {Current(p)}}
    /\ pass' = [pass EXCEPT ![p].pc = "count"]
    /\ UNCHANGED retries

(* The query, or the catch block's own update, fails: the exception ends   *)
(* the whole pass, later events and tenants included.                      *)
QueryFails(p) ==
    /\ pass[p].pc = "query"
    /\ DbFault
    /\ pass' = [pass EXCEPT ![p] = NoPass]
    /\ UNCHANGED <<published, retries>>

CountFails(p) ==
    /\ pass[p].pc = "count"
    /\ DbFault
    /\ retries' \in {retries, [retries EXCEPT ![Current(p)] = @ + 1]}
    /\ pass' = [pass EXCEPT ![p] = NoPass]
    /\ UNCHANGED published

-----------------------------------------------------------------------------
(* The NATS client.  It writes what it has accepted to its socket, in      *)
(* order, and the server reads it from there.                              *)
Flush ==
    /\ conn = "up"
    /\ buffer # <<>>
    /\ socket' = Append(socket, Head(buffer))
    /\ buffer' = Tail(buffer)
    /\ UNCHANGED <<rows, sent, conn, delivered, pass, faults>>

Receive ==
    /\ conn = "up"
    /\ socket # <<>>
    /\ delivered' = delivered \cup {Head(socket)}
    /\ socket' = Tail(socket)
    /\ UNCHANGED <<rows, sent, conn, buffer, pass, faults>>

(* The connection breaks, and with it goes what the server has not read.   *)
Disconnects ==
    /\ conn = "up"
    /\ conn' = "reconnecting"
    /\ socket' = <<>>
    /\ UNCHANGED <<rows, sent, buffer, delivered, pass, faults>>

(* The client has dialled again.  Nothing promises that its buffer         *)
(* survives that: it is kept or dropped.                                   *)
Reconnects ==
    /\ conn = "reconnecting"
    /\ conn' = "up"
    /\ buffer' \in {buffer, <<>>}
    /\ UNCHANGED <<rows, sent, socket, delivered, pass, faults>>

(* After its last attempt it closes for good and drops what it holds.      *)
Closes ==
    /\ conn = "reconnecting"
    /\ conn' = "closed"
    /\ buffer' = <<>>
    /\ UNCHANGED <<rows, sent, socket, delivered, pass, faults>>

(* The process dies (SIGTERM included: shutdown hooks are not enabled) and *)
(* comes back with a new connection.                                       *)
Crash ==
    /\ crashes < MaxCrashes
    /\ crashes' = crashes + 1
    /\ pass' = [p \in Passes |-> NoPass]
    /\ buffer' = <<>>
    /\ socket' = <<>>
    /\ conn' = "up"
    /\ UNCHANGED <<rows, sent, delivered, dbFaults>>

PassStep(p) ==
    \/ Query(p)
    \/ Publish(p)
    \/ PublishThrows(p)
    \/ Mark(p)
    \/ Count(p)

Next ==
    \/ \E e \in Events : Write(e)
    \/ \E p \in Passes :
        \/ Start(p)
        \/ PassStep(p)
        \/ MarkFails(p)
        \/ QueryFails(p)
        \/ CountFails(p)
    \/ Flush
    \/ Receive
    \/ Disconnects
    \/ Reconnects
    \/ Closes
    \/ Crash

Spec == Init /\ [][Next]_vars

(* The interval keeps firing, and a pass's promises are always settled.    *)
FairSpec ==
    /\ Spec
    /\ WF_vars(\E p \in Passes : Start(p))
    /\ \A p \in Passes : WF_vars(PassStep(p))

-----------------------------------------------------------------------------
IsKnown(tenant) == \E i \in DOMAIN KnownTenants : KnownTenants[i] = tenant

(* publishedAt is never set on an event that publish() did not accept,     *)
(* across overlapping passes, failed updates and crashes.                  *)
PublishedWasSent == \A e \in published : sent[e] > 0

(* How often an event can reach consumers twice, which is what makes       *)
(* "consumers must be idempotent" enough: once for every pass that         *)
(* overlaps, and once more for every failed update and per pass a crash    *)
(* interrupts.                                                             *)
DuplicatesNeedOverlapOrFault ==
    \A e \in Events :
        sent[e] <= Cardinality(Passes) * (1 + crashes) + dbFaults

(* The limit on retries is read when a batch is, not when a failure is     *)
(* counted.  What goes over it are the passes that hold the event when the *)
(* limit is reached, each of them once: with one pass at a time nothing.   *)
RetriesNearLimit ==
    \A e \in Events : retries[e] <= MaxRetries + Cardinality(Passes) - 1

(* An event of a Rep's save overtakes that of a save of an earlier         *)
(* millisecond only when a failed attempt at the earlier one is on record: *)
(* the first publish of an event finds every older one of its Rep sent, or *)
(* counted as failed, whatever passes overlap and however late the row of  *)
(* another request turns up between them.                                  *)
OvertakesOnlyFailed ==
    [][\A e, f \in Written :
          /\ Serialised(e, f)
          /\ createdAt[e] < createdAt[f]
          /\ sent[f] = 0
          /\ sent'[f] > 0
          => sent[e] > 0 \/ retries[e] > 0]_vars

(* Published, or given up on: its retryCount keeps it out of every batch.  *)
Settled(e) == e \in published \/ retries[e] >= MaxRetries

(* The relay leaves nothing behind: an event of a known tenant ends up     *)
(* published or given up on, whatever fails meanwhile and however small    *)
(* the batch.                                                              *)
EverythingSettles ==
    \A e \in Events :
        (e \in Written /\ IsKnown(TenantOf[e])) ~> Settled(e)

(***************************************************************************)
(* Statements of the documentation that the code does not keep.            *)
(***************************************************************************)

(* NATS_EVENT_CONTRACT.md:42: "The relay retries failed publishes up to 5  *)
(* times": two passes that hold the same event both count.                 *)
AtMostMaxRetries == \A e \in Events : retries[e] <= MaxRetries

(* ADR-001:185: "events are not lost even if NATS is temporarily           *)
(* unavailable": an event whose row says published is delivered, or still  *)
(* in the client's hands.                                                  *)
PublishedIsNotLost ==
    \A e \in published :
        \/ e \in delivered
        \/ \E i \in DOMAIN buffer : buffer[i] = e
        \/ \E i \in DOMAIN socket : socket[i] = e

=============================================================================
