------------------------------- MODULE SaveTx -------------------------------
(***************************************************************************)
(* The saves of RepDirectory statement by statement: what                  *)
(* RepRepository.save and PartyRelationshipRepository.save do between the  *)
(* moment they take a connection and the moment they give it back.         *)
(*                                                                         *)
(* RepDirectory takes a save for one step.  Here it is a transaction under *)
(* READ COMMITTED: the upsert locks the Rep's row, enters its e-mail and   *)
(* then its Keycloak sub into their unique indexes and, if the Rep is new  *)
(* and has an upline, locks the upline's key; the access rows and the      *)
(* events follow; the commit shows it all to the others.  Every lock is    *)
(* held until the commit, every entry makes others wait, and transactions  *)
(* that wait for each other are ended by the database's deadlock detector. *)
(* All transactions of the service, those of its queries and of the relay  *)
(* included, share one pool of connections.                                *)
(*                                                                         *)
(* The locks are PostgreSQL's, for the one statement prisma.rep.upsert     *)
(* becomes: INSERT ... ON CONFLICT (id) DO UPDATE, which sets key columns  *)
(* and therefore locks the row against foreign-key checks too.             *)
(*                                                                         *)
(* Bounds: those of RepDirectory, and the PoolSize connections of the pool. *)
(***************************************************************************)
EXTENDS RepDirectory

CONSTANT PoolSize

ASSUME PoolAssumption == PoolSize \in Nat \ {0}

VARIABLES
    tx,       \* per request, its saving transaction
    elsewhere \* how many connections queries and relay passes hold

txVars == <<vars, tx, elsewhere>>

(* How far a transaction has got, and the row version it has written.      *)
(*   "none"   no connection        "email"  its e-mail is in the index     *)
(*   "begun"  the tenant is set    "sub"    and its sub                    *)
(*   "row"    holds the row lock   "ready"  and the upline's key is locked *)
Stage == {"none", "begun", "row", "email", "sub", "ready"}

NoTx == [at |-> "none", row |-> Null]

TxTypeOK ==
    /\ tx \in [Requests -> [at : Stage, row : Rep \cup {Null}]]
    /\ elsewhere \in 0 .. PoolSize

TxInit ==
    /\ Init
    /\ tx = [q \in Requests |-> NoTx]
    /\ elsewhere = 0

-----------------------------------------------------------------------------
(* Who holds what.                                                         *)

(* Mutant: the handler keeps findById's transaction open while it saves.   *)
ConnectedThroughout == {q \in Requests : req[q].pc \in {"found", "saving"}}

(* A request holds a connection while findById's transaction or its save's *)
(* is open, and never one while it waits for another.                      *)
Connected == {q \in Requests : req[q].pc = "found" \/ tx[q].at # "none"}

ConnectionFree == Cardinality(Connected) + elsewhere < PoolSize

(* A create below nobody reads nothing before its save. *)
BuiltInMemory(q) == req[q].pc = "saving" /\ req[q].copy.upline = Null

HoldsRow(q) == tx[q].at \in {"row", "email", "sub", "ready"}

EmailEntered(q) == tx[q].at \in {"email", "sub", "ready"}

SubEntered(q) == tx[q].at \in {"sub", "ready"}

(* p has inserted or updated row r and not committed yet. *)
Writes(p, r) == HoldsRow(p) /\ req[p].rep = r

(* Mutant: the access rows are written before the Rep, and their foreign   *)
(* key locks the Rep's key from then on.                                   *)
SharesKeyOfOwnRow(p, r) ==
    \/ /\ tx[p].at = "ready"
       /\ req[p].op = "CreateRep"
       /\ req[p].copy.upline = r
    \/ /\ tx[p].at = "begun"
       /\ req[p].op # "LinkRepToGroup"
       /\ req[p].rep = r

(* p has passed the foreign-key check of a new Rep below r.                *)
SharesKey(p, r) ==
    /\ tx[p].at = "ready"
    /\ req[p].op = "CreateRep"
    /\ req[p].copy.upline = r

(* p is giving up the e-mail, or has an entry of its own for it.           *)
HoldsEmail(p, email) ==
    \/ EmailEntered(p) /\ req[p].copy.personalInfo.email = email
    \/ \E r \in RepIds :
        Writes(p, r) /\ reps[r] # Null /\ reps[r].personalInfo.email = email

HoldsSub(p, tenant, sub) ==
    \/ /\ SubEntered(p)
       /\ req[p].tenant = tenant
       /\ req[p].copy.sub = sub
    \/ \E r \in RepIds :
        /\ Writes(p, r)
        /\ reps[r] # Null
        /\ reps[r].tenant = tenant
        /\ reps[r].sub = sub

(* The others q's next statement has to wait for.                          *)
Blockers(q) ==
    {p \in Requests \ {q} :
        \/ /\ tx[q].at = "begun"
           /\ req[q].op # "LinkRepToGroup"
           /\ Writes(p, req[q].rep) \/ SharesKey(p, req[q].rep)
        \/ /\ tx[q].at = "row"
           /\ HoldsEmail(p, req[q].copy.personalInfo.email)
        \/ /\ tx[q].at = "email"
           /\ req[q].copy.sub # Null
           /\ HoldsSub(p, req[q].tenant, req[q].copy.sub)
        \/ /\ tx[q].at = "sub"
           /\ req[q].op = "CreateRep"
           /\ req[q].copy.upline # Null
           /\ Writes(p, req[q].copy.upline)}

(* Transactions each of which waits for another of them, and no fewer do.  *)
WaitForEachOther(C) == C # {} /\ \A q \in C : Blockers(q) \cap C # {}

Cycle(C) ==
    /\ WaitForEachOther(C)
    /\ \A D \in SUBSET C : WaitForEachOther(D) => D = C

-----------------------------------------------------------------------------
(* Everything before a save, as in RepDirectory; what findById or the      *)
(* check of an upline needs a connection for waits for one.                *)
Handles(q) ==
    /\ HandlerStep(q)
    /\ (req[q].pc = "idle" /\ ~BuiltInMemory(q)') => ConnectionFree
    /\ UNCHANGED <<tx, elsewhere>>

(* withTenantTransaction: a connection, BEGIN and set_config.              *)
Begin(q) ==
    /\ req[q].pc = "saving"
    /\ tx[q].at = "none"
    /\ ConnectionFree
    /\ tx' = [tx EXCEPT ![q].at = "begun"]
    /\ UNCHANGED <<vars, elsewhere>>

(* Mutant: the upsert does not wait for a transaction that writes the row. *)
LockRowAnyway(q) ==
    /\ tx[q].at = "begun"
    /\ req[q].op # "LinkRepToGroup"
    /\ tx' = [tx EXCEPT ![q] = [at |-> "row", row |-> Stored(q)]]
    /\ UNCHANGED <<vars, elsewhere>>

(* The upsert has the row to itself and writes its new version.            *)
LockRow(q) ==
    /\ tx[q].at = "begun"
    /\ req[q].op # "LinkRepToGroup"
    /\ Blockers(q) = {}
    /\ tx' = [tx EXCEPT ![q] = [at |-> "row", row |-> Stored(q)]]
    /\ UNCHANGED <<vars, elsewhere>>

(* Mutant: only committed rows are looked at for the e-mail.               *)
EnterEmailUnseen(q) ==
    /\ tx[q].at = "row"
    /\ ~EmailTaken(q)
    /\ tx' = [tx EXCEPT ![q].at = "email"]
    /\ UNCHANGED <<vars, elsewhere>>

(* The rest of the upsert: the indexes in the order of their creation,     *)
(* then the foreign key.  A key that does not change is entered again.     *)
EnterEmail(q) ==
    /\ tx[q].at = "row"
    /\ Blockers(q) = {}
    /\ ~EmailTaken(q)
    /\ tx' = [tx EXCEPT ![q].at = "email"]
    /\ UNCHANGED <<vars, elsewhere>>

EnterSub(q) ==
    /\ tx[q].at = "email"
    /\ Blockers(q) = {}
    /\ ~SubTaken(q)
    /\ tx' = [tx EXCEPT ![q].at = "sub"]
    /\ UNCHANGED <<vars, elsewhere>>

LockUpline(q) ==
    /\ tx[q].at = "sub"
    /\ Blockers(q) = {}
    /\ tx' = [tx EXCEPT ![q].at = "ready"]
    /\ UNCHANGED <<vars, elsewhere>>

(* The connection goes back to the pool. *)
Ends(q) ==
    /\ tx' = [tx EXCEPT ![q] = NoTx]
    /\ UNCHANGED elsewhere

(* P2002, with nobody left who might still give the key up: the            *)
(* transaction is rolled back.                                             *)
Conflict(q) ==
    /\ Blockers(q) = {}
    /\ \/ tx[q].at = "row" /\ EmailTaken(q) /\ Answer(q, "5xx")
       \/ tx[q].at = "email" /\ SubTaken(q) /\ Answer(q, "409")
    /\ Ends(q)
    /\ UNCHANGED <<reps, outbox, relationships>>

(* The access rows and the events are written, which makes nobody wait,    *)
(* and everything is committed.                                            *)
Commit(q) ==
    /\ tx[q].at = "ready"
    /\ reps' = [reps EXCEPT ![req[q].rep] = tx[q].row]
    /\ WriteAll(q)
    /\ \E resp \in {"2xx", "5xx"} : Answer(q, resp)
    /\ Ends(q)
    /\ UNCHANGED relationships

CommitRelationship(q) ==
    /\ tx[q].at = "begun"
    /\ SaveRelationship(q)
    /\ Ends(q)

(* No connection in time, a statement that fails, Prisma's transaction     *)
(* timeout, the process dies: what was written is rolled back.             *)
Abort(q) == Fail(q) /\ Ends(q)

(* The database ends one of the transactions that wait for each other.     *)
DetectDeadlock(q) ==
    /\ \E C \in SUBSET Requests : q \in C /\ Cycle(C)
    /\ Fail(q)
    /\ Ends(q)

(* A query or a relay pass begins or ends a transaction of its own.        *)
OthersConnect ==
    /\ ConnectionFree
    /\ elsewhere' = elsewhere + 1
    /\ UNCHANGED <<vars, tx>>

OthersDisconnect ==
    /\ elsewhere > 0
    /\ elsewhere' = elsewhere - 1
    /\ UNCHANGED <<vars, tx>>

(* The steps of a transaction once it has begun. *)
SaveStep(q) ==
    \/ LockRow(q)
    \/ EnterEmail(q)
    \/ EnterSub(q)
    \/ LockUpline(q)
    \/ Conflict(q)
    \/ Commit(q)
    \/ CommitRelationship(q)
    \/ DetectDeadlock(q)

TxNext ==
    \/ \E q \in Requests : Handles(q) \/ Begin(q) \/ SaveStep(q) \/ Abort(q)
    \/ OthersConnect
    \/ OthersDisconnect

TxSpec == TxInit /\ [][TxNext]_txVars

(* Every promise a handler awaits is settled, the deadlock detector runs,  *)
(* and the pool hands its connections to those who wait in the order they  *)
(* came, hence strong fairness of Begin.  Nothing is assumed of aborts,    *)
(* nor of requests arriving.                                               *)
FairTxSpec ==
    /\ TxSpec
    /\ WF_txVars(OthersDisconnect)
    /\ \A q \in Requests :
        /\ WF_txVars(req[q].pc = "found" /\ Handles(q))
        /\ SF_txVars(Begin(q))
        /\ WF_txVars(SaveStep(q))

-----------------------------------------------------------------------------
(* What the locks and entries of a transaction are good for: nobody else   *)
(* writes its row, and the version it has written is what it would write   *)
(* now, ...                                                                *)
RowIsHeld(q) ==
    /\ req[q].op # "LinkRepToGroup"
    /\ tx[q].row = Stored(q)
    /\ \A p \in Requests \ {q} : ~Writes(p, req[q].rep)

(* ... and the keys it has entered are free, and entered by nobody else.   *)
EmailIsHeld(q) ==
    /\ ~EmailTaken(q)
    /\ \A p \in Requests \ {q} :
        EmailEntered(p) =>
            req[p].copy.personalInfo.email # req[q].copy.personalInfo.email

SubIsHeld(q) ==
    /\ ~SubTaken(q)
    /\ \A p \in Requests \ {q} :
        SubEntered(p) /\ req[p].tenant = req[q].tenant =>
            req[p].copy.sub = Null \/ req[p].copy.sub # req[q].copy.sub

(* All of it stays true until the transaction ends, whatever is committed  *)
(* by others meanwhile.                                                    *)
LocksHold ==
    \A q \in Requests :
        /\ tx[q].at # "none" => req[q].pc = "saving"
        /\ HoldsRow(q) => RowIsHeld(q)
        /\ EmailEntered(q) => EmailIsHeld(q)
        /\ SubEntered(q) => SubIsHeld(q)

(* A save that creates a Rep, or gives one another e-mail or sub.          *)
MovesKey(q) ==
    \/ reps[req[q].rep] = Null
    \/ req[q].copy.personalInfo.email # reps[req[q].rep].personalInfo.email
    \/ req[q].copy.sub # reps[req[q].rep].sub

(* Which saves the deadlock detector can hit: only such as create a Rep or *)
(* move a unique key.  Saves that leave both keys as they are (status,     *)
(* access and business changes, however many on one Rep, and with creates  *)
(* below it) may wait but are never part of a deadlock.                    *)
QuietSavesNeverDeadlock ==
    \A C \in SUBSET Requests : Cycle(C) => \A q \in C : MovesKey(q)

(* Nobody waits for ever: not for a row, a key, an upline or a connection, *)
(* and not for a transaction that waits for him.                           *)
RequestsAreAnswered ==
    \A q \in Requests :
        req[q].pc \in {"found", "saving"} ~> req[q].pc = "done"

(* With all its statements and waits, a save is the one step RepDirectory  *)
(* takes it for: the specification of RepDirectory, over the same tables.  *)
ImplementsDirectory == Spec

=============================================================================
