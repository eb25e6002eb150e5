---------------------------- MODULE SaveTxProofs ----------------------------
(***************************************************************************)
(* Statement by statement, saves are still what RepDirectory takes them    *)
(* for, for every number of requests and connections.                      *)
(*                                                                         *)
(* The inductive invariant is LocksHold, with what is known of the         *)
(* handlers (Control).  The refinement is by identity: a commit is a Save  *)
(* because what the transaction has written and entered is still right     *)
(* when it commits; all statements before it are stutters.                 *)
(***************************************************************************)
EXTENDS SaveTx, RepDirectorySafetyProofs

TxTyped == tx \in [Requests -> [at : Stage, row : Rep \cup {Null}]]

TxInv ==
    /\ Control
    /\ TxTyped
    /\ LocksHold

-----------------------------------------------------------------------------
(* A statement of an open transaction. *)
Statement(q) ==
    \/ Begin(q)
    \/ LockRow(q)
    \/ EnterEmail(q)
    \/ EnterSub(q)
    \/ LockUpline(q)

(* The end of a transaction that commits no row. *)
EndsWithoutRow(q) ==
    \/ Conflict(q)
    \/ CommitRelationship(q)
    \/ Abort(q)
    \/ DetectDeadlock(q)

LEMMA TxCases ==
    ASSUME [TxNext]_txVars
    PROVE  \/ UNCHANGED <<vars, tx>>
           \/ \E q \in Requests :
                Handles(q) \/ Statement(q) \/ EndsWithoutRow(q) \/ Commit(q)
BY DEF TxNext, txVars, SaveStep, Statement, EndsWithoutRow, OthersConnect,
       OthersDisconnect

(* A handler has no transaction open before it saves. *)
LEMMA HandlersAreIdle ==
    ASSUME LocksHold, NEW q \in Requests, HandlerStep(q)
    PROVE  tx[q].at = "none"
<1>1. req[q].pc \in {"idle", "found"}
  BY DEF HandlerStep, FindById, CreateRep, Arrives, UpdatePersonalInfo,
         UpdateBusinessInfo, UpdateAccessControl, SoftDeleteRep, RestoreRep,
         LinkKeycloakAccount, LinkRepToGroup, HandlerThrows, Mutated
<1> QED
  BY <1>1 DEF LocksHold

-----------------------------------------------------------------------------
(* Every step of a transaction is a step of RepDirectory, or none.         *)
LEMMA TxStepIsStep ==
    ASSUME LocksHold, [TxNext]_txVars
    PROVE  [Next]_vars
<1>1. CASE UNCHANGED <<vars, tx>>
  BY <1>1
<1>2. ASSUME NEW q \in Requests, Handles(q) PROVE [Next]_vars
  BY <1>2 DEF Handles, Next
<1>3. ASSUME NEW q \in Requests, Statement(q) PROVE UNCHANGED vars
  BY <1>3 DEF Statement, Begin, LockRow, EnterEmail, EnterSub, LockUpline
<1>4. ASSUME NEW q \in Requests, Conflict(q) PROVE SaveConflicts(q)
  <2>1. tx[q].at \in {"row", "email"}
    BY <1>4 DEF Conflict
  <2>2. req[q].pc = "saving" /\ req[q].op # "LinkRepToGroup"
    BY <2>1 DEF LocksHold, HoldsRow, RowIsHeld
  <2> QED
    BY <1>4, <2>2 DEF Conflict, SaveConflicts
<1>5. ASSUME NEW q \in Requests, Commit(q) PROVE Save(q)
  <2>1. tx[q].at = "ready"
    BY <1>5 DEF Commit
  <2>2. /\ req[q].pc = "saving"
        /\ RowIsHeld(q) /\ EmailIsHeld(q) /\ SubIsHeld(q)
    BY <2>1 DEF LocksHold, HoldsRow, EmailEntered, SubEntered
  <2> QED
    BY <1>5, <2>2 DEF Commit, Save, RowIsHeld, EmailIsHeld, SubIsHeld
<1>6. ASSUME NEW q \in Requests, EndsWithoutRow(q) PROVE [Next]_vars
  BY <1>4, <1>6 DEF EndsWithoutRow, CommitRelationship, Abort,
                    DetectDeadlock, Next
<1> QED
  BY <1>1, <1>2, <1>3, <1>5, <1>6, TxCases DEF Next

-----------------------------------------------------------------------------
(***************************************************************************)
(* The locks.                                                              *)
(***************************************************************************)

(* Whose transaction a step leaves alone keeps what it holds, as long as   *)
(* the rows stay and nobody else gets further.                             *)
LEMMA OthersKeepLocks ==
    ASSUME LocksHold, UNCHANGED reps,
           \A q \in Requests :
                \/ req'[q] = req[q] /\ tx'[q] = tx[q]
                \/ tx'[q].at = "none"
    PROVE  LocksHold'
<1> SUFFICES ASSUME NEW p \in Requests
             PROVE  /\ tx'[p].at # "none" => req'[p].pc = "saving"
                    /\ HoldsRow(p)' => RowIsHeld(p)'
                    /\ EmailEntered(p)' => EmailIsHeld(p)'
                    /\ SubEntered(p)' => SubIsHeld(p)'
  BY DEF LocksHold
<1>1. CASE tx'[p].at = "none"
  BY <1>1 DEF HoldsRow, EmailEntered, SubEntered
<1>2. CASE tx'[p].at # "none"
  <2>1. req'[p] = req[p] /\ tx'[p] = tx[p]
    BY <1>2
  <2>2. HoldsRow(p) => RowIsHeld(p)
    BY DEF LocksHold
  <2>3. EmailEntered(p) => EmailIsHeld(p)
    BY DEF LocksHold
  <2>4. SubEntered(p) => SubIsHeld(p)
    BY DEF LocksHold
  <2>5. HoldsRow(p)' => RowIsHeld(p)'
    <3>1. Stored(p)' = Stored(p)
      BY <2>1 DEF Stored
    <3>2. \A s \in Requests : Writes(s, req[p].rep)' => Writes(s, req[p].rep)
      BY <2>1 DEF Writes, HoldsRow
    <3> QED
      BY <2>1, <2>2, <3>1, <3>2 DEF HoldsRow, RowIsHeld
  <2>6. EmailEntered(p)' => EmailIsHeld(p)'
    BY <2>1, <2>3 DEF EmailEntered, EmailIsHeld, EmailTaken
  <2>7. SubEntered(p)' => SubIsHeld(p)'
    BY <2>1, <2>4 DEF SubEntered, SubIsHeld, SubTaken
  <2> QED
    BY <2>1, <2>5, <2>6, <2>7 DEF LocksHold
<1> QED
  BY <1>1, <1>2

(* A statement only goes on when nobody holds what it needs.               *)
LEMMA StatementKeepsLocks ==
    ASSUME TxInv, NEW q \in Requests, Statement(q)
    PROVE  LocksHold'
<1> SUFFICES ASSUME NEW p \in Requests
             PROVE  /\ tx'[p].at # "none" => req'[p].pc = "saving"
                    /\ HoldsRow(p)' => RowIsHeld(p)'
                    /\ EmailEntered(p)' => EmailIsHeld(p)'
                    /\ SubEntered(p)' => SubIsHeld(p)'
  BY DEF LocksHold
<1>1. /\ UNCHANGED <<reps, req>>
      /\ \A s \in Requests \ {q} : tx'[s] = tx[s]
      /\ tx \in [Requests -> [at : Stage, row : Rep \cup {Null}]]
  BY DEF TxInv, TxTyped, Statement, Begin, LockRow, EnterEmail, EnterSub,
         LockUpline, vars
<1>2. /\ tx[q].at = "none" => tx'[q].at = "begun" /\ req[q].pc = "saving"
      /\ tx[q].at = "begun" => tx'[q].at = "row" /\ tx'[q].row = Stored(q)
                               /\ req[q].op # "LinkRepToGroup"
      /\ tx[q].at = "row" => tx'[q].at = "email" /\ ~EmailTaken(q)
      /\ tx[q].at = "email" => tx'[q].at = "sub" /\ ~SubTaken(q)
      /\ tx[q].at = "sub" => tx'[q].at = "ready"
      /\ tx[q].at # "ready"
      /\ tx[q].at # "none" => Blockers(q) = {}
      /\ tx[q].at # "begun" => tx'[q].row = tx[q].row
  BY <1>1 DEF Statement, Begin, LockRow, EnterEmail, EnterSub, LockUpline
<1>3. ASSUME NEW s \in Requests \ {q}
      PROVE  /\ tx[q].at = "begun" => ~Writes(s, req[q].rep)
             /\ tx[q].at = "row" => ~HoldsEmail(s, req[q].copy.personalInfo.email)
             /\ tx[q].at = "email" /\ req[q].copy.sub # Null =>
                    ~HoldsSub(s, req[q].tenant, req[q].copy.sub)
  BY <1>2, <1>3 DEF Blockers
<1>4. tx[q].at \in Stage
  BY <1>1
<1>5. tx'[p].at # "none" => req'[p].pc = "saving"
  BY <1>1, <1>2, <1>4 DEF TxInv, LocksHold, Stage
<1>6. ASSUME HoldsRow(p)' PROVE RowIsHeld(p)'
  <2>1. ASSUME NEW s \in Requests, s # p, HoldsRow(s)'
        PROVE  req[s].rep # req[p].rep
    <3>1. HoldsRow(s) \/ (s = q /\ tx[q].at = "begun")
      BY <1>1, <1>2, <1>4, <2>1 DEF HoldsRow, Stage
    <3>2. HoldsRow(p) \/ (p = q /\ tx[q].at = "begun")
      BY <1>1, <1>2, <1>4, <1>6 DEF HoldsRow, Stage
    <3> QED
      BY <1>3, <2>1, <3>1, <3>2 DEF TxInv, LocksHold, RowIsHeld, Writes
  <2>2. tx'[p].row = Stored(p) /\ req[p].op # "LinkRepToGroup"
    BY <1>1, <1>2, <1>4, <1>6 DEF TxInv, LocksHold, RowIsHeld, HoldsRow, Stage
  <2>3. Stored(p)' = Stored(p)
    BY <1>1 DEF Stored
  <2> QED
    BY <1>1, <2>1, <2>2, <2>3 DEF RowIsHeld, Writes
<1>7. ASSUME EmailEntered(p)' PROVE EmailIsHeld(p)'
  <2>1. ASSUME NEW s \in Requests, s # p, EmailEntered(s)'
        PROVE  req[s].copy.personalInfo.email # req[p].copy.personalInfo.email
    <3>1. EmailEntered(s) \/ (s = q /\ tx[q].at = "row")
      BY <1>1, <1>2, <1>4, <2>1 DEF EmailEntered, Stage
    <3>2. EmailEntered(p) \/ (p = q /\ tx[q].at = "row")
      BY <1>1, <1>2, <1>4, <1>7 DEF EmailEntered, Stage
    <3> QED
      BY <1>3, <2>1, <3>1, <3>2 DEF TxInv, LocksHold, EmailIsHeld, HoldsEmail
  <2>2. ~EmailTaken(p)
    BY <1>1, <1>2, <1>4, <1>7 DEF TxInv, LocksHold, EmailIsHeld, EmailEntered,
                                  Stage
  <2> QED
    BY <1>1, <2>1, <2>2 DEF EmailIsHeld, EmailTaken
<1>8. ASSUME SubEntered(p)' PROVE SubIsHeld(p)'
  <2>1. ASSUME NEW s \in Requests, s # p, SubEntered(s)',
               req[s].tenant = req[p].tenant, req[s].copy.sub # Null
        PROVE  req[s].copy.sub # req[p].copy.sub
    <3>1. SubEntered(s) \/ (s = q /\ tx[q].at = "email")
      BY <1>1, <1>2, <1>4, <2>1 DEF SubEntered, Stage
    <3>2. SubEntered(p) \/ (p = q /\ tx[q].at = "email")
      BY <1>1, <1>2, <1>4, <1>8 DEF SubEntered, Stage
    <3> QED
      BY <1>3, <2>1, <3>1, <3>2 DEF TxInv, LocksHold, SubIsHeld, HoldsSub
  <2>2. ~SubTaken(p)
    BY <1>1, <1>2, <1>4, <1>8 DEF TxInv, LocksHold, SubIsHeld, SubEntered,
                                  Stage
  <2> QED
    BY <1>1, <2>1, <2>2 DEF SubIsHeld, SubTaken
<1> QED
  BY <1>5, <1>6, <1>7, <1>8

(* A commit puts the row it has written where nobody else is writing, and  *)
(* its keys are none that anybody else has entered.                        *)
LEMMA CommitKeepsLocks ==
    ASSUME TxInv, NEW q \in Requests, Commit(q)
    PROVE  LocksHold'
<1> SUFFICES ASSUME NEW p \in Requests
             PROVE  /\ tx'[p].at # "none" => req'[p].pc = "saving"
                    /\ HoldsRow(p)' => RowIsHeld(p)'
                    /\ EmailEntered(p)' => EmailIsHeld(p)'
                    /\ SubEntered(p)' => SubIsHeld(p)'
  BY DEF LocksHold
<1>1. /\ req[q].pc = "saving"
      /\ HoldsRow(q) /\ EmailEntered(q) /\ SubEntered(q)
      /\ RowIsHeld(q) /\ EmailIsHeld(q) /\ SubIsHeld(q)
      /\ reps' = [reps EXCEPT ![req[q].rep] = Stored(q)]
  BY DEF Commit, TxInv, LocksHold, HoldsRow, EmailEntered, SubEntered, RowIsHeld
<1>2. /\ \A s \in Requests \ {q} : req'[s] = req[s] /\ tx'[s] = tx[s]
      /\ tx'[q].at = "none"
  BY DEF Commit, Ends, NoTx, Answer, TxInv, TxTyped, Control, TypeOK
<1>3. /\ req[q].rep \in RepIds
      /\ Stored(q) # Null
      /\ Stored(q).tenant = req[q].tenant
      /\ Stored(q).personalInfo = req[q].copy.personalInfo
      /\ Stored(q).sub = req[q].copy.sub
  BY <1>1, StoredType DEF TxInv, RowIsHeld
<1>4. /\ reps'[req[q].rep] = Stored(q)
      /\ \A r \in RepIds \ {req[q].rep} : reps'[r] = reps[r]
  BY <1>1, <1>3 DEF TxInv, Control, TypeOK
<1>5. CASE p = q
  BY <1>2, <1>5 DEF HoldsRow, EmailEntered, SubEntered
<1>6. CASE p # q
  <2>1. req'[p] = req[p] /\ tx'[p] = tx[p]
    BY <1>2, <1>6
  <2>2. tx'[p].at # "none" => req'[p].pc = "saving"
    BY <2>1 DEF TxInv, LocksHold
  <2>3. ASSUME HoldsRow(p)' PROVE RowIsHeld(p)'
    <3>1. HoldsRow(p) /\ RowIsHeld(p)
      BY <2>1, <2>3 DEF HoldsRow, TxInv, LocksHold
    <3>2. req[p].rep \in RepIds
      BY <3>1 DEF TxInv, LocksHold, HoldsRow, Control, Phase
    <3>3. req[p].rep # req[q].rep
      BY <1>1, <1>6, <3>1 DEF RowIsHeld, Writes
    <3>4. Stored(p)' = Stored(p)
      BY <1>4, <2>1, <3>2, <3>3 DEF Stored
    <3> QED
      BY <1>2, <2>1, <3>1, <3>4 DEF RowIsHeld, Writes, HoldsRow
  <2>4. ASSUME EmailEntered(p)' PROVE EmailIsHeld(p)'
    <3>1. EmailEntered(p) /\ EmailIsHeld(p)
      BY <2>1, <2>4 DEF EmailEntered, TxInv, LocksHold
    <3>2. req[q].copy.personalInfo.email # req[p].copy.personalInfo.email
      BY <1>1, <1>6, <3>1 DEF EmailIsHeld
    <3>3. ~EmailTaken(p)'
      BY <1>3, <1>4, <2>1, <3>1, <3>2 DEF EmailIsHeld, EmailTaken
    <3> QED
      BY <1>2, <2>1, <3>1, <3>3 DEF EmailIsHeld, EmailEntered
  <2>5. ASSUME SubEntered(p)' PROVE SubIsHeld(p)'
    <3>1. SubEntered(p) /\ SubIsHeld(p)
      BY <2>1, <2>5 DEF SubEntered, TxInv, LocksHold
    <3>2. \/ req[q].tenant # req[p].tenant
          \/ req[q].copy.sub = Null
          \/ req[q].copy.sub # req[p].copy.sub
      BY <1>1, <1>6, <3>1 DEF SubIsHeld
    <3>3. ~SubTaken(p)'
      BY <1>3, <1>4, <2>1, <3>1, <3>2 DEF SubIsHeld, SubTaken
    <3> QED
      BY <1>2, <2>1, <3>1, <3>3 DEF SubIsHeld, SubEntered
  <2> QED
    BY <2>2, <2>3, <2>4, <2>5
<1> QED
  BY <1>5, <1>6

-----------------------------------------------------------------------------
LEMMA TxInvInit == TxInit => TxInv
<1> SUFFICES ASSUME TxInit PROVE TxInv
  OBVIOUS
<1>1. Control
  BY ControlInit DEF TxInit
<1>2. TxTyped /\ LocksHold
  BY DEF TxInit, NoTx, TxTyped, Stage, LocksHold, HoldsRow, EmailEntered,
         SubEntered
<1> QED
  BY <1>1, <1>2 DEF TxInv

LEMMA TxTypedStep ==
    ASSUME TxInv, [TxNext]_txVars
    PROVE  TxTyped'
<1>1. CASE UNCHANGED <<vars, tx>>
  BY <1>1 DEF TxInv, TxTyped
<1>2. ASSUME NEW q \in Requests, Handles(q) PROVE TxTyped'
  BY <1>2 DEF Handles, TxInv, TxTyped
<1>3. ASSUME NEW q \in Requests, EndsWithoutRow(q) \/ Commit(q)
      PROVE  TxTyped'
  BY <1>3 DEF EndsWithoutRow, Conflict, CommitRelationship, Abort,
              DetectDeadlock, Commit, Ends, NoTx, TxInv, TxTyped, Stage
<1>4. ASSUME NEW q \in Requests, Begin(q) \/ EnterEmail(q) \/ EnterSub(q)
                                 \/ LockUpline(q)
      PROVE  TxTyped'
  BY <1>4 DEF Begin, EnterEmail, EnterSub, LockUpline, TxInv, TxTyped, Stage
<1>5. ASSUME NEW q \in Requests, LockRow(q) PROVE TxTyped'
  <2>1. req[q].pc = "saving" /\ req[q].op # "LinkRepToGroup"
    BY <1>5 DEF LockRow, TxInv, LocksHold
  <2>2. Stored(q) \in Rep
    BY <2>1, StoredType DEF TxInv
  <2> QED
    BY <1>5, <2>2 DEF LockRow, TxInv, TxTyped, Stage
<1> QED
  BY <1>1, <1>2, <1>3, <1>4, <1>5, TxCases DEF Statement

LEMMA LocksStep ==
    ASSUME TxInv, [TxNext]_txVars
    PROVE  LocksHold'
<1>1. CASE UNCHANGED <<vars, tx>>
  BY <1>1, OthersKeepLocks DEF vars, TxInv
<1>2. ASSUME NEW q \in Requests, Handles(q) PROVE LocksHold'
  <2>1. tx'[q].at = "none" /\ tx' = tx
    BY <1>2, HandlersAreIdle DEF Handles, TxInv
  <2>2. UNCHANGED reps /\ \A p \in Requests \ {q} : req'[p] = req[p]
    BY <1>2 DEF Handles, HandlerStep, FindById, CreateRep, UpdatePersonalInfo,
                UpdateBusinessInfo, UpdateAccessControl, SoftDeleteRep,
                RestoreRep, LinkKeycloakAccount, LinkRepToGroup,
                HandlerThrows, Mutated, Answer, TxInv, Control, TypeOK
  <2> QED
    BY <2>1, <2>2, OthersKeepLocks DEF TxInv
<1>3. ASSUME NEW q \in Requests, EndsWithoutRow(q) PROVE LocksHold'
  <2>1. /\ UNCHANGED reps
        /\ \E resp \in Resp : Answer(q, resp)
        /\ tx' = [tx EXCEPT ![q] = NoTx]
    BY <1>3 DEF EndsWithoutRow, Conflict, CommitRelationship, Abort,
                DetectDeadlock, Ends, SaveRelationship, Fail, Resp
  <2>2. /\ \A p \in Requests \ {q} : req'[p] = req[p] /\ tx'[p] = tx[p]
        /\ tx'[q].at = "none"
    BY <2>1 DEF Answer, NoTx, TxInv, TxTyped, Control, TypeOK
  <2> QED
    BY <2>1, <2>2, OthersKeepLocks DEF TxInv
<1> QED
  BY <1>1, <1>2, <1>3, TxCases, StatementKeepsLocks, CommitKeepsLocks

LEMMA TxInvAlways == TxSpec => []TxInv
<1>1. TxInv /\ [TxNext]_txVars => TxInv'
  <2> SUFFICES ASSUME TxInv, [TxNext]_txVars PROVE TxInv'
    OBVIOUS
  <2>1. Control'
    BY TxStepIsStep, ControlStep DEF TxInv
  <2> QED
    BY <2>1, TxTypedStep, LocksStep DEF TxInv
<1> QED
  BY <1>1, TxInvInit, PTL DEF TxSpec

(* The row locks and index entries of a transaction protect what it has    *)
(* written until it ends: no interleaving of statements and commits takes  *)
(* a row or a key away from it.                                            *)
THEOREM LocksTheorem == TxSpec => []LocksHold
<1>1. TxInv => LocksHold
  BY DEF TxInv
<1> QED
  BY <1>1, TxInvAlways, PTL

(* The saves, statement by statement, with their waits, deadlocks and      *)
(* rollbacks, implement the atomic saves of RepDirectory: whatever is      *)
(* proved or checked of Spec holds of them.                                *)
THEOREM SaveTxRefines == TxSpec => ImplementsDirectory
<1>1. TxInit => Init
  BY DEF TxInit
<1>2. TxInv /\ [TxNext]_txVars => [Next]_vars
  BY TxStepIsStep DEF TxInv
<1> QED
  BY <1>1, <1>2, TxInvAlways, PTL DEF TxSpec, Spec, ImplementsDirectory

-----------------------------------------------------------------------------
(***************************************************************************)
(* Deadlocks.                                                              *)
(***************************************************************************)

(* Once it has its row, a save that leaves both keys as they are waits for *)
(* nobody: the keys it enters again are its own row's, and nobody else can *)
(* have entered them or be writing that row.                               *)
LEMMA QuietNeverWaits ==
    ASSUME TxInv, KeysStayUnique, NEW q \in Requests, HoldsRow(q), ~MovesKey(q)
    PROVE  Blockers(q) = {}
<1> DEFINE r == req[q].rep
<1>1. /\ req[q].pc = "saving"
      /\ RowIsHeld(q)
  BY DEF TxInv, LocksHold, HoldsRow
<1>2. /\ r \in RepIds
      /\ reps[r] # Null
      /\ reps[r].personalInfo.email = req[q].copy.personalInfo.email
      /\ reps[r].sub = req[q].copy.sub
      /\ reps[r].tenant = req[q].tenant
      /\ req[q].op # "CreateRep"
  BY <1>1, StoredType DEF TxInv, RowIsHeld, MovesKey, HoldsCopy, Visible
<1>3. ASSUME NEW p \in Requests \ {q}
      PROVE  ~HoldsEmail(p, req[q].copy.personalInfo.email)
  <2>1. ~Writes(p, r)
    BY <1>1 DEF RowIsHeld
  <2>2. ASSUME NEW s \in RepIds, Writes(p, s), reps[s] # Null
        PROVE  reps[s].personalInfo.email # req[q].copy.personalInfo.email
    BY <1>2, <2>1, <2>2 DEF KeysStayUnique, UniqueKeys
  <2>3. ASSUME EmailEntered(p)
        PROVE  req[p].copy.personalInfo.email # req[q].copy.personalInfo.email
    <3>1. EmailIsHeld(p) /\ Writes(p, req[p].rep)
      BY <2>3 DEF TxInv, LocksHold, EmailEntered, HoldsRow, Writes
    <3> QED
      BY <1>2, <2>1, <3>1 DEF EmailIsHeld, EmailTaken
  <2> QED
    BY <2>2, <2>3 DEF HoldsEmail
<1>4. ASSUME NEW p \in Requests \ {q}, req[q].copy.sub # Null
      PROVE  ~HoldsSub(p, req[q].tenant, req[q].copy.sub)
  <2>1. ~Writes(p, r)
    BY <1>1 DEF RowIsHeld
  <2>2. ASSUME NEW s \in RepIds, Writes(p, s), reps[s] # Null,
               reps[s].tenant = req[q].tenant
        PROVE  reps[s].sub # req[q].copy.sub
    BY <1>2, <1>4, <2>1, <2>2 DEF KeysStayUnique, UniqueKeys
  <2>3. ASSUME SubEntered(p), req[p].tenant = req[q].tenant
        PROVE  req[p].copy.sub # req[q].copy.sub
    <3>1. SubIsHeld(p) /\ Writes(p, req[p].rep)
      BY <2>3 DEF TxInv, LocksHold, SubEntered, HoldsRow, Writes
    <3> QED
      BY <1>2, <1>4, <2>1, <2>3, <3>1 DEF SubIsHeld, SubTaken
  <2> QED
    BY <2>2, <2>3 DEF HoldsSub
<1> QED
  BY <1>2, <1>3, <1>4 DEF Blockers, HoldsRow

(* Who has no row yet makes nobody wait. *)
LEMMA OnlyRowsBlock ==
    ASSUME NEW p \in Requests, NEW q \in Blockers(p)
    PROVE  HoldsRow(q)
BY DEF Blockers, Writes, SharesKey, HoldsEmail, HoldsSub, EmailEntered,
       SubEntered, HoldsRow

(* In a cycle without a smaller one in it everybody is waited for, so      *)
(* everybody has a row; who does not move a key does not wait then.        *)
THEOREM DeadlockTheorem == TxSpec => []QuietSavesNeverDeadlock
<1>1. ASSUME TxInv, KeysStayUnique, NEW C \in SUBSET Requests, Cycle(C),
             NEW q \in C, ~MovesKey(q)
      PROVE  FALSE
  <2> DEFINE D == C \ {q}
  <2>1. PICK b \in C : b \in Blockers(q)
    BY <1>1 DEF Cycle, WaitForEachOther
  <2>2. b # q
    BY <2>1 DEF Blockers
  <2>3. ~HoldsRow(q)
    BY <1>1, <2>1, QuietNeverWaits
  <2>4. ASSUME NEW p \in D PROVE Blockers(p) \cap D # {}
    BY <1>1, <2>3, OnlyRowsBlock DEF Cycle, WaitForEachOther
  <2>5. WaitForEachOther(D)
    BY <2>1, <2>2, <2>4 DEF WaitForEachOther
  <2> QED
    BY <1>1, <2>5 DEF Cycle
<1>2. TxInv /\ Safe => QuietSavesNeverDeadlock
  BY <1>1 DEF QuietSavesNeverDeadlock, Safe
<1> QED
  BY <1>2, TxInvAlways, SaveTxRefines, SafeAlways, PTL DEF ImplementsDirectory

=============================================================================
