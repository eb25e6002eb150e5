----------------------- MODULE OutboxRelayCountProofs -----------------------
(***************************************************************************)
(* How often an event can be sent, and how often its failures can be       *)
(* counted, proved by counting the passes that may still do either.        *)
(*                                                                         *)
(* As long as an event is not published, every time it was sent is         *)
(* accounted for by a pass that is about to mark it, by a transaction that *)
(* failed, or by a pass that a crash has ended.  From the first mark on no *)
(* query returns the event any more, and only the passes that hold it in   *)
(* their batches can send it again, each of them once.                     *)
(***************************************************************************)
EXTENDS OutboxRelayProofs

(* A pass will send an event; it has sent it and will mark it.             *)
WillSend(p, e) ==
    \E i \in DOMAIN pass[p].batch :
        pass[p].batch[i] = e /\ (i > 1 \/ pass[p].pc = "publish")

WillMark(p, e) == pass[p].pc = "mark" /\ pass[p].batch[1] = e

Holding(e) == {p \in Passes : WillSend(p, e)}
Marking(e) == {p \in Passes : WillMark(p, e)}

Spent == Cardinality(Passes) * crashes + dbFaults

Counted(e) ==
    /\ e \notin published => sent[e] <= Spent + Cardinality(Marking(e))
    /\ e \in published =>
        sent[e] + Cardinality(Holding(e)) <= Spent + Cardinality(Passes)

CountInv == RelayInv /\ \A e \in Events : Counted(e)

-----------------------------------------------------------------------------
LEMMA PassSets ==
    ASSUME NEW e
    PROVE  /\ IsFiniteSet(Holding(e)) /\ IsFiniteSet(Marking(e))
           /\ Cardinality(Holding(e)) \in Nat
           /\ Cardinality(Marking(e)) \in Nat
           /\ Cardinality(Passes) \in Nat
           /\ Cardinality(Holding(e)) <= Cardinality(Passes)
           /\ Cardinality(Marking(e)) <= Cardinality(Passes)
<1>1. Holding(e) \in SUBSET Passes /\ Marking(e) \in SUBSET Passes
  BY DEF Holding, Marking
<1>2. IsFiniteSet(Passes)
  BY RelayAssumption
<1> QED
  BY <1>1, <1>2, FS_Subset, FS_CardinalityType

LEMMA SpentType ==
    ASSUME TypeOK
    PROVE  Spent \in Nat
<1>1. Cardinality(Passes) \in Nat
  BY RelayAssumption, FS_CardinalityType
<1>2. crashes \in Nat /\ dbFaults \in Nat
  BY RelayAssumption DEF TypeOK
<1>3. Cardinality(Passes) * crashes \in Nat
  BY <1>1, <1>2
<1> QED
  BY <1>2, <1>3 DEF Spent

(* A pass that has sent an event and will mark it does not hold it any     *)
(* more, since it holds it once: the two kinds of passes are different.    *)
LEMMA NotBoth ==
    ASSUME TypeOK, \A p \in Passes : Stands(p), NEW e
    PROVE  Cardinality(Holding(e)) + Cardinality(Marking(e))
                <= Cardinality(Passes)
<1>1. Holding(e) \cap Marking(e) = {}
  <2>1. SUFFICES ASSUME NEW p \in Passes, WillSend(p, e), WillMark(p, e)
                 PROVE  FALSE
    BY DEF Holding, Marking
  <2>2. 1 \in DOMAIN pass[p].batch
    BY <2>1, CurrentFacts DEF WillMark
  <2>3. PICK i \in DOMAIN pass[p].batch : pass[p].batch[i] = e /\ i > 1
    BY <2>1 DEF WillSend, WillMark
  <2>4. i = 1
    BY <2>1, <2>2, <2>3 DEF WillMark, Stands
  <2> QED
    BY <2>3, <2>4
<1>2. Holding(e) \cup Marking(e) \in SUBSET Passes
  BY DEF Holding, Marking
<1>3. Cardinality(Holding(e) \cup Marking(e)) <= Cardinality(Passes)
  BY <1>2, RelayAssumption, FS_Subset
<1>4. Cardinality(Holding(e) \cup Marking(e)) =
        Cardinality(Holding(e)) + Cardinality(Marking(e))
            - Cardinality(Holding(e) \cap Marking(e))
  BY PassSets, FS_Union
<1>5. Cardinality(Holding(e) \cap Marking(e)) = 0
  BY <1>1, FS_EmptySet
<1> QED
  BY <1>3, <1>4, <1>5, PassSets

(* What one pass does changes the sets by that pass at most.               *)
LEMMA OnePassMoves ==
    ASSUME NEW p \in Passes, \A q \in Passes \ {p} : pass'[q] = pass[q], NEW e
    PROVE  /\ (WillSend(p, e)' => WillSend(p, e)) =>
                Cardinality(Holding(e)') <= Cardinality(Holding(e))
           /\ WillSend(p, e) /\ ~WillSend(p, e)' =>
                Cardinality(Holding(e)') = Cardinality(Holding(e)) - 1
           /\ (WillMark(p, e) => WillMark(p, e)') =>
                Cardinality(Marking(e)) <= Cardinality(Marking(e)')
           /\ ~WillMark(p, e) /\ WillMark(p, e)' =>
                Cardinality(Marking(e)') = Cardinality(Marking(e)) + 1
           /\ WillMark(p, e) /\ ~WillMark(p, e)' =>
                Cardinality(Marking(e)') = Cardinality(Marking(e)) - 1
<1>1. /\ Holding(e) \in SUBSET Passes /\ Holding(e)' \in SUBSET Passes
      /\ Marking(e) \in SUBSET Passes /\ Marking(e)' \in SUBSET Passes
  BY DEF Holding, Marking
<1>2. \A q \in Passes \ {p} : /\ q \in Holding(e)' <=> q \in Holding(e)
                              /\ q \in Marking(e)' <=> q \in Marking(e)
  BY DEF Holding, Marking, WillSend, WillMark
<1>3. /\ p \in Holding(e) <=> WillSend(p, e)
      /\ p \in Holding(e)' <=> WillSend(p, e)'
      /\ p \in Marking(e) <=> WillMark(p, e)
      /\ p \in Marking(e)' <=> WillMark(p, e)'
  BY DEF Holding, Marking
<1>4. /\ IsFiniteSet(Holding(e)) /\ IsFiniteSet(Holding(e)')
      /\ IsFiniteSet(Marking(e)) /\ IsFiniteSet(Marking(e)')
  BY <1>1, RelayAssumption, FS_Subset
<1>5. ASSUME WillSend(p, e)' => WillSend(p, e)
      PROVE  Cardinality(Holding(e)') <= Cardinality(Holding(e))
  <2>1. Holding(e)' \in SUBSET Holding(e)
    BY <1>1, <1>2, <1>3, <1>5
  <2> QED
    BY <1>4, <2>1, FS_Subset
<1>6. ASSUME WillSend(p, e), ~WillSend(p, e)'
      PROVE  Cardinality(Holding(e)') = Cardinality(Holding(e)) - 1
  <2>1. Holding(e)' = Holding(e) \ {p} /\ p \in Holding(e)
    BY <1>1, <1>2, <1>3, <1>6
  <2> QED
    BY <1>4, <2>1, FS_RemoveElement
<1>7. ASSUME WillMark(p, e) => WillMark(p, e)'
      PROVE  Cardinality(Marking(e)) <= Cardinality(Marking(e)')
  <2>1. Marking(e) \in SUBSET Marking(e)'
    BY <1>1, <1>2, <1>3, <1>7
  <2> QED
    BY <1>4, <2>1, FS_Subset
<1>8. ASSUME ~WillMark(p, e), WillMark(p, e)'
      PROVE  Cardinality(Marking(e)') = Cardinality(Marking(e)) + 1
  <2>1. Marking(e)' = Marking(e) \cup {p} /\ p \notin Marking(e)
    BY <1>1, <1>2, <1>3, <1>8
  <2> QED
    BY <1>4, <2>1, FS_AddElement
<1>9. ASSUME WillMark(p, e), ~WillMark(p, e)'
      PROVE  Cardinality(Marking(e)') = Cardinality(Marking(e)) - 1
  <2>1. Marking(e)' = Marking(e) \ {p} /\ p \in Marking(e)
    BY <1>1, <1>2, <1>3, <1>9
  <2> QED
    BY <1>4, <2>1, FS_RemoveElement
<1> QED
  BY <1>5, <1>6, <1>7, <1>8, <1>9

(* Facts about the next state that hold of every state. *)
LEMMA NextSets ==
    ASSUME TypeOK', NEW e
    PROVE  /\ Cardinality(Holding(e)') \in Nat
           /\ Cardinality(Marking(e)') \in Nat
           /\ Spent' \in Nat
<1>1. Holding(e)' \in SUBSET Passes /\ Marking(e)' \in SUBSET Passes
  BY DEF Holding, Marking
<1>2. crashes' \in Nat /\ dbFaults' \in Nat /\ Cardinality(Passes) \in Nat
  BY RelayAssumption, FS_CardinalityType DEF TypeOK
<1>3. Cardinality(Passes) * crashes' \in Nat
  BY <1>2
<1> QED
  BY <1>1, <1>2, <1>3, RelayAssumption, FS_Subset, FS_CardinalityType
     DEF Spent

(* Neither sent nor published for the first time, no new pass holds the    *)
(* event, and whoever was to mark it still is.                             *)
LEMMA CountedKept ==
    ASSUME TypeOK, TypeOK', NEW e \in Events, Counted(e), sent'[e] = sent[e],
           Spent <= Spent',
           e \in published <=> e \in published',
           e \in published =>
                Cardinality(Holding(e)') <= Cardinality(Holding(e)),
           e \notin published =>
                Cardinality(Marking(e)) <= Cardinality(Marking(e)')
    PROVE  Counted(e)'
<1>1. /\ Cardinality(Holding(e)) \in Nat /\ Cardinality(Marking(e)) \in Nat
      /\ Cardinality(Passes) \in Nat
  BY PassSets
<1>2. /\ Cardinality(Holding(e)') \in Nat /\ Cardinality(Marking(e)') \in Nat
      /\ Spent \in Nat /\ Spent' \in Nat
  BY NextSets, SpentType
<1>3. sent[e] \in Nat
  BY DEF TypeOK
<1> QED
  BY <1>1, <1>2, <1>3 DEF Counted

(* The first mark: whoever was to mark the event is not to send it.        *)
LEMMA CountedAtFirstMark ==
    ASSUME TypeOK, TypeOK', \A p \in Passes : Stands(p),
           NEW e \in Events, Counted(e), sent'[e] = sent[e],
           Spent <= Spent',
           e \notin published, e \in published',
           Cardinality(Holding(e)') <= Cardinality(Holding(e))
    PROVE  Counted(e)'
<1>1. /\ Cardinality(Holding(e)) \in Nat /\ Cardinality(Marking(e)) \in Nat
      /\ Cardinality(Passes) \in Nat
      /\ Cardinality(Holding(e)) + Cardinality(Marking(e))
            <= Cardinality(Passes)
  BY PassSets, NotBoth
<1>2. /\ Spent \in Nat /\ Spent' \in Nat /\ sent[e] \in Nat
      /\ Cardinality(Holding(e)') \in Nat
  BY SpentType, NextSets DEF TypeOK
<1>3. sent[e] <= Spent + Cardinality(Marking(e))
  BY DEF Counted
<1> QED
  BY <1>1, <1>2, <1>3 DEF Counted

LEMMA SpentStep ==
    ASSUME TypeOK
    PROVE  /\ UNCHANGED faults => Spent' = Spent
           /\ DbFault => Spent' = Spent + 1
<1>1. crashes \in Nat /\ dbFaults \in Nat /\ Cardinality(Passes) \in Nat
  BY RelayAssumption, FS_CardinalityType DEF TypeOK
<1>2. Cardinality(Passes) * crashes \in Nat
  BY <1>1
<1> QED
  BY <1>1, <1>2 DEF Spent, faults, DbFault

(* The tail of a batch holds nothing the batch does not, and the event in  *)
(* front of it not any more.                                               *)
LEMMA TailHolds ==
    ASSUME TypeOK, NEW p \in Passes, Stands(p),
           pass[p].pc \in {"mark", "count"},
           GoOn(p, Tail(pass[p].batch)), NEW e
    PROVE  /\ \A q \in Passes \ {p} : pass'[q] = pass[q]
           /\ WillSend(p, e)' => WillSend(p, e)
           /\ ~WillMark(p, e)'
<1> DEFINE b == pass[p].batch
           t == Tail(b)
<1>1. /\ b \in Seq(Events) /\ b # <<>> /\ t \in Seq(Events)
      /\ pass[p].tenant \in 1 .. Len(KnownTenants)
  BY CurrentFacts
<1>2. /\ \A q \in Passes \ {p} : pass'[q] = pass[q]
      /\ pass'[p].batch = t
      /\ t # <<>> => pass'[p].pc = "publish"
      /\ t = <<>> => pass'[p].pc \in {"idle", "query"}
  BY <1>1, GoOnFacts, PassTyped
<1>3. \A i \in DOMAIN t : i \in Nat \ {0} /\ t[i] = b[i + 1]
                            /\ i + 1 \in DOMAIN b
  BY <1>1, TailFacts
<1>4. ASSUME NEW i \in DOMAIN t, t[i] = e
      PROVE  WillSend(p, e)
  <2>1. i + 1 \in DOMAIN b /\ b[i + 1] = e /\ i + 1 > 1
    BY <1>3, <1>4
  <2> QED
    BY <2>1 DEF WillSend
<1>5. WillSend(p, e)' => WillSend(p, e)
  BY <1>2, <1>4 DEF WillSend
<1>6. ~WillMark(p, e)'
  BY <1>2 DEF WillMark
<1> QED
  BY <1>2, <1>5, <1>6

-----------------------------------------------------------------------------
(***************************************************************************)
(* Steps, one event at a time.                                             *)
(***************************************************************************)

LEMMA CountedPublish ==
    ASSUME RelayInv, TypeOK', NEW p \in Passes, Publish(p),
           NEW e \in Events, Counted(e)
    PROVE  Counted(e)'
<1>1. /\ pass[p].pc = "publish" /\ pass' = [pass EXCEPT ![p].pc = "mark"]
      /\ Stands(p) /\ TypeOK
  BY DEF Publish, RelayInv
<1>2. /\ Current(p) = pass[p].batch[1] /\ Current(p) \in Events
      /\ 1 \in DOMAIN pass[p].batch
      /\ \A i \in DOMAIN pass[p].batch : i \in Nat \ {0}
  BY <1>1, CurrentFacts, TailFacts
<1>3. /\ \A q \in Passes \ {p} : pass'[q] = pass[q]
      /\ pass'[p].pc = "mark" /\ pass'[p].batch = pass[p].batch
  <2>1. pass'[p] = [pass[p] EXCEPT !.pc = "mark"]
    BY <1>1, PassTyped
  <2> QED
    BY <1>1, <2>1, PassTyped DEF Standing
<1>4. Spent' = Spent /\ (e \in published <=> e \in published')
  BY <1>1, SpentStep DEF Publish, rows
<1>5. CASE e = Current(p)
  <2>1. WillSend(p, e)
    BY <1>1, <1>2, <1>5 DEF WillSend
  <2>2. ~WillSend(p, e)'
    <3>1. \A i \in DOMAIN pass[p].batch : pass[p].batch[i] = e => i = 1
      BY <1>1, <1>2, <1>5 DEF Stands
    <3> QED
      BY <1>3, <3>1 DEF WillSend
  <2>3. ~WillMark(p, e) /\ WillMark(p, e)'
    BY <1>1, <1>2, <1>3, <1>5 DEF WillMark
  <2>4. /\ Cardinality(Holding(e)') = Cardinality(Holding(e)) - 1
        /\ Cardinality(Marking(e)') = Cardinality(Marking(e)) + 1
    BY <1>3, <2>1, <2>2, <2>3, OnePassMoves
  <2>5. sent'[e] = sent[e] + 1 /\ sent[e] \in Nat
    BY <1>1, <1>5 DEF Publish, TypeOK
  <2>6. /\ Cardinality(Holding(e)) \in Nat /\ Cardinality(Marking(e)) \in Nat
        /\ Cardinality(Passes) \in Nat /\ Spent \in Nat
    BY <1>1, PassSets, SpentType
  <2> QED
    BY <1>4, <2>4, <2>5, <2>6 DEF Counted
<1>6. CASE e # Current(p)
  <2>1. WillSend(p, e)' => WillSend(p, e)
    BY <1>3 DEF WillSend
  <2>2. ~WillMark(p, e)
    BY <1>1 DEF WillMark
  <2>3. sent'[e] = sent[e]
    BY <1>1, <1>6 DEF Publish, TypeOK
  <2>4. /\ Cardinality(Holding(e)') <= Cardinality(Holding(e))
        /\ Cardinality(Marking(e)) <= Cardinality(Marking(e)')
    BY <1>3, <2>1, <2>2, OnePassMoves
  <2>5. Spent <= Spent'
    BY <1>1, <1>4, SpentType
  <2> QED
    BY <1>1, <1>4, <2>3, <2>4, <2>5, CountedKept
<1> QED
  BY <1>5, <1>6

LEMMA CountedMark ==
    ASSUME RelayInv, TypeOK', NEW p \in Passes, Mark(p),
           NEW e \in Events, Counted(e)
    PROVE  Counted(e)'
<1>1. /\ pass[p].pc = "mark" /\ Stands(p) /\ TypeOK
      /\ GoOn(p, Tail(pass[p].batch)) /\ sent' = sent
      /\ published' = published \cup {Current(p)}
      /\ \A q \in Passes : Stands(q)
  BY DEF Mark, RelayInv, nats
<1>2. /\ \A q \in Passes \ {p} : pass'[q] = pass[q]
      /\ WillSend(p, e)' => WillSend(p, e)
  BY <1>1, TailHolds
<1>3. Cardinality(Holding(e)') <= Cardinality(Holding(e))
  BY <1>2, OnePassMoves
<1>4. Spent <= Spent'
  BY <1>1, SpentStep, SpentType DEF Mark
<1>5. CASE e \notin published /\ e = Current(p)
  BY <1>1, <1>3, <1>4, <1>5, CountedAtFirstMark
<1>6. CASE e \in published \/ e # Current(p)
  <2>1. e \in published <=> e \in published'
    BY <1>1, <1>6
  <2>2. e \notin published => ~WillMark(p, e)
    BY <1>1, <1>6, CurrentFacts DEF WillMark
  <2>3. e \notin published =>
            Cardinality(Marking(e)) <= Cardinality(Marking(e)')
    BY <1>2, <2>2, OnePassMoves
  <2> QED
    BY <1>1, <1>3, <1>4, <2>1, <2>3, CountedKept
<1> QED
  BY <1>5, <1>6

LEMMA CountedMarkFails ==
    ASSUME RelayInv, TypeOK', NEW p \in Passes, MarkFails(p),
           NEW e \in Events, Counted(e)
    PROVE  Counted(e)'
<1>1. /\ pass[p].pc = "mark" /\ Stands(p) /\ TypeOK
      /\ pass' = [pass EXCEPT ![p].pc = "count"] /\ sent' = sent
      /\ published' \in {published, published \cup {Current(p)}}
      /\ \A q \in Passes : Stands(q)
  BY DEF MarkFails, RelayInv, DbFault, nats
<1>2. /\ \A q \in Passes \ {p} : pass'[q] = pass[q]
      /\ pass'[p].pc = "count" /\ pass'[p].batch = pass[p].batch
  <2>1. pass'[p] = [pass[p] EXCEPT !.pc = "count"]
    BY <1>1, PassTyped
  <2> QED
    BY <1>1, <2>1, PassTyped DEF Standing
<1>3. WillSend(p, e)' => WillSend(p, e)
  BY <1>2 DEF WillSend
<1>4. Cardinality(Holding(e)') <= Cardinality(Holding(e))
  BY <1>2, <1>3, OnePassMoves
<1>5. Spent' = Spent + 1 /\ Spent \in Nat
  BY <1>1, SpentStep, SpentType DEF MarkFails
<1>6. CASE e \notin published /\ e \in published'
  BY <1>1, <1>4, <1>5, <1>6, CountedAtFirstMark
<1>7. CASE e \in published
  BY <1>1, <1>4, <1>5, <1>7, CountedKept
<1>8. CASE e \notin published /\ e \notin published'
  <2>1. Cardinality(Marking(e)) - 1 <= Cardinality(Marking(e)')
    <3>1. CASE WillMark(p, e)
      <4>1. ~WillMark(p, e)'
        BY <1>2 DEF WillMark
      <4>2. Cardinality(Marking(e)') = Cardinality(Marking(e)) - 1
        BY <1>2, <3>1, <4>1, OnePassMoves
      <4> QED
        BY <4>2, PassSets
    <3>2. CASE ~WillMark(p, e)
      <4>1. Cardinality(Marking(e)) <= Cardinality(Marking(e)')
        BY <1>2, <3>2, OnePassMoves
      <4> QED
        BY <4>1, PassSets, NextSets
    <3> QED
      BY <3>1, <3>2
  <2>2. /\ Cardinality(Marking(e)) \in Nat /\ Cardinality(Marking(e)') \in Nat
        /\ sent[e] \in Nat
    BY <1>1, PassSets, NextSets DEF TypeOK
  <2> QED
    BY <1>1, <1>5, <1>8, <2>1, <2>2 DEF Counted
<1> QED
  BY <1>1, <1>6, <1>7, <1>8

(* A pass that neither sends nor marks the event, nor takes it up.         *)
LEMMA CountedOther ==
    ASSUME RelayInv, TypeOK', NEW p \in Passes, NEW e \in Events, Counted(e),
           \A q \in Passes \ {p} : pass'[q] = pass[q],
           UNCHANGED <<published, sent>>, Spent <= Spent',
           e \in published /\ WillSend(p, e)' => WillSend(p, e),
           ~WillMark(p, e)
    PROVE  Counted(e)'
<1>1. e \in published => Cardinality(Holding(e)') <= Cardinality(Holding(e))
  BY OnePassMoves
<1>2. Cardinality(Marking(e)) <= Cardinality(Marking(e)')
  BY OnePassMoves
<1> QED
  BY <1>1, <1>2, CountedKept DEF RelayInv

LEMMA CountedQuery ==
    ASSUME RelayInv, TypeOK', NEW p \in Passes, Query(p),
           NEW e \in Events, Counted(e)
    PROVE  Counted(e)'
<1>1. /\ pass[p].pc = "query" /\ Stands(p) /\ TypeOK
      /\ UNCHANGED <<published, sent>> /\ UNCHANGED faults
  BY DEF Query, RelayInv, rows, nats
<1>2. PICK batch \in Batches(KnownTenants[pass[p].tenant]) :
        GoOn(p, batch) /\ batch \in Seq(Events)
  BY <1>1, QueryGoesOn
<1>3. /\ \A q \in Passes \ {p} : pass'[q] = pass[q]
      /\ pass'[p].batch = batch
  BY <1>1, <1>2, GoOnFacts, PassTyped DEF Stands
<1>4. e \in published => ~WillSend(p, e)'
  BY <1>1, <1>2, <1>3, BatchFacts DEF WillSend, Pending
<1>5. ~WillMark(p, e)
  BY <1>1 DEF WillMark
<1>6. Spent <= Spent'
  BY <1>1, SpentStep, SpentType
<1> QED
  BY <1>1, <1>3, <1>4, <1>5, <1>6, CountedOther

LEMMA CountedFails ==
    ASSUME RelayInv, TypeOK', NEW p \in Passes, PublishThrows(p) \/ Count(p),
           NEW e \in Events, Counted(e)
    PROVE  Counted(e)'
<1>1. /\ TypeOK /\ Stands(p) /\ UNCHANGED <<published, sent>>
      /\ UNCHANGED faults /\ pass[p].pc # "mark"
  BY DEF PublishThrows, Count, RelayInv, rows, nats
<1>2. /\ \A q \in Passes \ {p} : pass'[q] = pass[q]
      /\ WillSend(p, e)' => WillSend(p, e)
  <2>1. CASE PublishThrows(p)
    <3>1. /\ \A q \in Passes \ {p} : pass'[q] = pass[q]
          /\ pass'[p] = [pass[p] EXCEPT !.pc = "count"]
      BY <1>1, <2>1, PassTyped DEF PublishThrows
    <3>2. pass'[p].pc = "count" /\ pass'[p].batch = pass[p].batch
      BY <1>1, <3>1, PassTyped DEF Standing
    <3> QED
      BY <3>1, <3>2 DEF WillSend
  <2>2. CASE Count(p)
    BY <1>1, <2>2, TailHolds DEF Count
  <2> QED
    BY <2>1, <2>2
<1>3. ~WillMark(p, e)
  BY <1>1 DEF WillMark
<1>4. Spent <= Spent'
  BY <1>1, SpentStep, SpentType
<1> QED
  BY <1>1, <1>2, <1>3, <1>4, CountedOther

LEMMA CountedEmptied ==
    ASSUME RelayInv, TypeOK', NEW p \in Passes,
           Start(p) \/ QueryFails(p) \/ CountFails(p),
           NEW e \in Events, Counted(e)
    PROVE  Counted(e)'
<1>1. /\ TypeOK /\ UNCHANGED <<published, sent>>
      /\ UNCHANGED faults \/ DbFault
      /\ pass[p].pc # "mark"
  BY DEF Start, QueryFails, CountFails, DbFault, RelayInv, rows, nats
<1>2. /\ \A q \in Passes \ {p} : pass'[q] = pass[q]
      /\ pass'[p].batch = <<>>
  BY <1>1, PassTyped DEF Start, QueryFails, CountFails, NoPass
<1>3. ~WillSend(p, e)' /\ ~WillMark(p, e)
  BY <1>1, <1>2 DEF WillSend, WillMark
<1>4. Spent <= Spent'
  BY <1>1, SpentStep, SpentType
<1> QED
  BY <1>1, <1>2, <1>3, <1>4, CountedOther

(* A crash costs what every pass was about to mark. *)
LEMMA CountedCrash ==
    ASSUME RelayInv, TypeOK', Crash, NEW e \in Events, Counted(e)
    PROVE  Counted(e)'
<1>1. /\ TypeOK /\ UNCHANGED <<published, sent>>
      /\ crashes' = crashes + 1 /\ dbFaults' = dbFaults
      /\ \A p \in Passes : pass'[p] = NoPass
  BY DEF Crash, RelayInv, rows
<1>2. /\ crashes \in Nat /\ dbFaults \in Nat /\ Cardinality(Passes) \in Nat
      /\ sent[e] \in Nat
  BY <1>1, RelayAssumption, FS_CardinalityType DEF TypeOK
<1>3. Cardinality(Passes) * (crashes + 1) =
        Cardinality(Passes) * crashes + Cardinality(Passes)
  BY <1>2
<1>4. Spent' = Spent + Cardinality(Passes) /\ Spent \in Nat
  <2>1. Cardinality(Passes) * crashes \in Nat
    BY <1>2
  <2> QED
    BY <1>1, <1>2, <1>3, <2>1 DEF Spent
<1>5. Cardinality(Holding(e)') = 0
  <2>1. Holding(e)' = {}
    BY <1>1 DEF Holding, WillSend, NoPass
  <2> QED
    BY <2>1, FS_EmptySet
<1>6. /\ Cardinality(Marking(e)) \in Nat /\ Cardinality(Marking(e)') \in Nat
      /\ Cardinality(Marking(e)) <= Cardinality(Passes)
      /\ Cardinality(Holding(e)) \in Nat
  BY PassSets, NextSets
<1> QED
  BY <1>1, <1>2, <1>4, <1>5, <1>6 DEF Counted

LEMMA CountStep ==
    ASSUME CountInv, [Next]_vars
    PROVE  CountInv'
<1>1. RelayInv /\ RelayInv' /\ TypeOK /\ TypeOK'
  BY RelayStep DEF CountInv, RelayInv
<1>2. SUFFICES ASSUME NEW e \in Events
               PROVE  Counted(e)'
  BY <1>1 DEF CountInv
<1>3. Counted(e)
  BY DEF CountInv
<1>4. ASSUME UNCHANGED <<published, sent, pass, faults>>
      PROVE  Counted(e)'
  <2>1. Spent' = Spent
    BY <1>1, <1>4, SpentStep
  <2>2. Holding(e)' = Holding(e) /\ Marking(e)' = Marking(e)
    BY <1>4 DEF Holding, Marking, WillSend, WillMark
  <2> QED
    BY <1>3, <1>4, <2>1, <2>2 DEF Counted
<1>5. ASSUME NEW p \in Passes, Start(p) \/ QueryFails(p) \/ CountFails(p)
      PROVE  Counted(e)'
  BY <1>1, <1>3, <1>5, CountedEmptied
<1>6. ASSUME NEW p \in Passes, Query(p)
      PROVE  Counted(e)'
  BY <1>1, <1>3, <1>6, CountedQuery
<1>7. ASSUME NEW p \in Passes, Publish(p)
      PROVE  Counted(e)'
  BY <1>1, <1>3, <1>7, CountedPublish
<1>8. ASSUME NEW p \in Passes, PublishThrows(p) \/ Count(p)
      PROVE  Counted(e)'
  BY <1>1, <1>3, <1>8, CountedFails
<1>9. ASSUME NEW p \in Passes, Mark(p)
      PROVE  Counted(e)'
  BY <1>1, <1>3, <1>9, CountedMark
<1>10. ASSUME NEW p \in Passes, MarkFails(p)
       PROVE  Counted(e)'
  BY <1>1, <1>3, <1>10, CountedMarkFails
<1>11. CASE Crash
  BY <1>1, <1>3, <1>11, CountedCrash
<1>12. CASE \E f \in Events : Write(f)
  BY <1>4, <1>12 DEF Write, nats
<1>13. CASE Flush \/ Receive \/ Disconnects \/ Reconnects \/ Closes
  BY <1>4, <1>13 DEF Flush, Receive, Disconnects, Reconnects, Closes, rows
<1>14. CASE UNCHANGED vars
  BY <1>4, <1>14 DEF vars, rows, nats
<1> QED
  BY <1>5, <1>6, <1>7, <1>8, <1>9, <1>10, <1>11, <1>12, <1>13, <1>14
     DEF Next, PassStep

LEMMA CountInit ==
    ASSUME Init
    PROVE  CountInv
<1>1. RelayInv /\ TypeOK
  BY RelayInit DEF RelayInv
<1>2. SUFFICES ASSUME NEW e \in Events
               PROVE  Counted(e)
  BY <1>1 DEF CountInv
<1>3. e \notin published /\ sent[e] = 0
  BY DEF Init
<1>4. Spent \in Nat /\ Cardinality(Marking(e)) \in Nat
  BY <1>1, SpentType, PassSets
<1> QED
  BY <1>3, <1>4 DEF Counted

-----------------------------------------------------------------------------
(* An event reaches consumers at most once for every pass that overlaps,   *)
(* and once more for every failed transaction and for every pass that a    *)
(* crash has ended, whatever the numbers of passes, events and faults.     *)
THEOREM DuplicatesTheorem == Spec => []DuplicatesNeedOverlapOrFault
<1>1. Init => CountInv
  BY CountInit
<1>2. CountInv /\ [Next]_vars => CountInv'
  BY CountStep
<1>3. CountInv => DuplicatesNeedOverlapOrFault
  <2>1. SUFFICES ASSUME CountInv, NEW e \in Events
                 PROVE  sent[e] <= Cardinality(Passes) * (1 + crashes)
                                    + dbFaults
    BY DEF DuplicatesNeedOverlapOrFault
  <2>2. TypeOK /\ Counted(e)
    BY <2>1 DEF CountInv, RelayInv
  <2>3. /\ Cardinality(Passes) \in Nat /\ crashes \in Nat
        /\ dbFaults \in Nat /\ sent[e] \in Nat
    BY <2>2, RelayAssumption, FS_CardinalityType DEF TypeOK
  <2>4. Cardinality(Passes) * (1 + crashes) =
            Cardinality(Passes) + Cardinality(Passes) * crashes
    BY <2>3
  <2>5. Cardinality(Passes) * crashes \in Nat
    BY <2>3
  <2>6. /\ Cardinality(Holding(e)) \in Nat /\ Cardinality(Marking(e)) \in Nat
        /\ Cardinality(Marking(e)) <= Cardinality(Passes)
    BY PassSets
  <2> QED
    BY <2>2, <2>3, <2>4, <2>5, <2>6 DEF Counted, Spent
<1> QED
  BY <1>1, <1>2, <1>3, PTL DEF Spec

-----------------------------------------------------------------------------
(***************************************************************************)
(* How far retryCount goes over its limit.  Once it is reached no query    *)
(* returns the event any more, and a pass that counts a failure of the     *)
(* event drops it.                                                         *)
(***************************************************************************)
Keeps(p, e) == \E i \in DOMAIN pass[p].batch : pass[p].batch[i] = e

Keepers(e) == {p \in Passes : Keeps(p, e)}

Limited(e) ==
    retries[e] >= MaxRetries =>
        retries[e] + Cardinality(Keepers(e))
            <= MaxRetries - 1 + Cardinality(Passes)

LimitInv == RelayInv /\ \A e \in Events : Limited(e)

(* What a pass keeps when the first event of its batch is done with. *)
LEMMA TailKeeps ==
    ASSUME TypeOK, NEW p \in Passes, Stands(p),
           pass[p].pc \in {"mark", "count"},
           GoOn(p, Tail(pass[p].batch)), NEW e
    PROVE  /\ \A q \in Passes \ {p} : pass'[q] = pass[q]
           /\ Keeps(p, e)' => Keeps(p, e)
           /\ e = Current(p) => Keeps(p, e) /\ ~Keeps(p, e)'
<1> DEFINE b == pass[p].batch
           t == Tail(b)
<1>1. /\ b \in Seq(Events) /\ b # <<>> /\ t \in Seq(Events)
      /\ pass[p].tenant \in 1 .. Len(KnownTenants)
      /\ 1 \in DOMAIN b /\ Current(p) = b[1]
  BY CurrentFacts
<1>2. /\ \A q \in Passes \ {p} : pass'[q] = pass[q]
      /\ pass'[p].batch = t
  BY <1>1, GoOnFacts, PassTyped
<1>3. \A i \in DOMAIN t : i \in Nat \ {0} /\ t[i] = b[i + 1]
                            /\ i + 1 \in DOMAIN b
  BY <1>1, TailFacts
<1>4. Keeps(p, e)' => Keeps(p, e)
  BY <1>2, <1>3 DEF Keeps
<1>5. ASSUME NEW i \in DOMAIN t
      PROVE  t[i] # b[1]
  <2>1. i + 1 # 1
    BY <1>3
  <2> QED
    BY <1>1, <1>3, <2>1 DEF Stands
<1>6. ASSUME e = Current(p)
      PROVE  Keeps(p, e) /\ ~Keeps(p, e)'
  BY <1>1, <1>2, <1>5, <1>6 DEF Keeps
<1> QED
  BY <1>2, <1>4, <1>6

(* Beyond the limit nobody takes an event up. *)
LEMMA NobodyTakesUp ==
    ASSUME RelayInv, [Next]_vars, NEW e \in Events, retries[e] >= MaxRetries
    PROVE  \A q \in Passes : Keeps(q, e)' => Keeps(q, e)
<1>1. TypeOK /\ \A p \in Passes : Stands(p)
  BY DEF RelayInv
<1>2. retries[e] \in Nat /\ MaxRetries \in Nat
  BY <1>1, RelayAssumption DEF TypeOK
<1>3. CASE UNCHANGED pass
  BY <1>3 DEF Keeps
<1>4. ASSUME NEW p \in Passes, Start(p) \/ QueryFails(p) \/ CountFails(p)
      PROVE  \A q \in Passes : Keeps(q, e)' => Keeps(q, e)
  <2>1. /\ \A q \in Passes \ {p} : pass'[q] = pass[q]
        /\ pass'[p].batch = <<>>
    BY <1>1, <1>4, PassTyped DEF Start, QueryFails, CountFails, NoPass
  <2> QED
    BY <2>1 DEF Keeps
<1>5. ASSUME NEW p \in Passes, Query(p)
      PROVE  \A q \in Passes : Keeps(q, e)' => Keeps(q, e)
  <2>1. PICK batch \in Batches(KnownTenants[pass[p].tenant]) :
            GoOn(p, batch) /\ batch \in Seq(Events)
    BY <1>1, <1>5, QueryGoesOn
  <2>2. /\ \A q \in Passes \ {p} : pass'[q] = pass[q]
        /\ pass'[p].batch = batch
    BY <1>1, <1>5, <2>1, GoOnFacts, PassTyped DEF Stands, Query
  <2>3. ~(retries[e] < MaxRetries)
    BY <1>2
  <2>4. ~Keeps(p, e)'
    BY <1>1, <2>1, <2>2, <2>3, BatchFacts DEF Keeps, Pending
  <2> QED
    BY <2>2, <2>4 DEF Keeps
<1>6. ASSUME NEW p \in Passes, Publish(p) \/ PublishThrows(p) \/ MarkFails(p)
      PROVE  \A q \in Passes : Keeps(q, e)' => Keeps(q, e)
  <2>1. /\ \A q \in Passes \ {p} : pass'[q] = pass[q]
        /\ pass'[p].batch = pass[p].batch
    BY <1>1, <1>6, PassTyped DEF Publish, PublishThrows, MarkFails, Standing
  <2> QED
    BY <2>1 DEF Keeps
<1>7. ASSUME NEW p \in Passes, Mark(p) \/ Count(p)
      PROVE  \A q \in Passes : Keeps(q, e)' => Keeps(q, e)
  <2>1. /\ \A q \in Passes \ {p} : pass'[q] = pass[q]
        /\ Keeps(p, e)' => Keeps(p, e)
    BY <1>1, <1>7, TailKeeps DEF Mark, Count
  <2> QED
    BY <2>1 DEF Keeps
<1>8. CASE Crash
  <2>1. \A p \in Passes : pass'[p].batch = <<>>
    BY <1>8 DEF Crash, NoPass
  <2> QED
    BY <2>1 DEF Keeps
<1> QED
  BY <1>3, <1>4, <1>5, <1>6, <1>7, <1>8 DEF Next, PassStep, vars, Write,
     Flush, Receive, Disconnects, Reconnects, Closes

(* Whoever counts a failure of an event is one of those that keep it, and  *)
(* keeps it no longer.                                                     *)
LEMMA CounterDrops ==
    ASSUME RelayInv, [Next]_vars, NEW e \in Events, retries'[e] # retries[e]
    PROVE  /\ retries'[e] = retries[e] + 1
           /\ \E p \in Passes : /\ Keeps(p, e) /\ ~Keeps(p, e)'
                                /\ \A q \in Passes \ {p} : pass'[q] = pass[q]
<1>1. TypeOK /\ \A p \in Passes : Stands(p)
  BY DEF RelayInv
<1>2. PICK p \in Passes : Count(p) \/ CountFails(p)
  BY DEF Next, PassStep, vars, rows, nats, Write, Start, Query, Publish,
     PublishThrows, Mark, MarkFails, QueryFails, DbFault, Flush, Receive,
     Disconnects, Reconnects, Closes, Crash
<1>3. /\ retries' = [retries EXCEPT ![Current(p)] = @ + 1]
      /\ pass[p].pc = "count"
  BY <1>2 DEF Count, CountFails
<1>4. e = Current(p) /\ retries'[e] = retries[e] + 1
  BY <1>1, <1>3 DEF TypeOK
<1>5. CASE Count(p)
  BY <1>1, <1>3, <1>4, <1>5, TailKeeps DEF Count
<1>6. CASE CountFails(p)
  <2>1. /\ \A q \in Passes \ {p} : pass'[q] = pass[q]
        /\ pass'[p].batch = <<>>
    BY <1>1, <1>6, PassTyped DEF CountFails, NoPass
  <2>2. Keeps(p, e)
    BY <1>1, <1>3, <1>4, CurrentFacts DEF Keeps
  <2> QED
    BY <1>4, <2>1, <2>2 DEF Keeps
<1> QED
  BY <1>2, <1>4, <1>5, <1>6

LEMMA LimitStep ==
    ASSUME LimitInv, [Next]_vars
    PROVE  LimitInv'
<1>1. RelayInv /\ RelayInv' /\ TypeOK /\ TypeOK'
  BY RelayStep DEF LimitInv, RelayInv
<1> SUFFICES ASSUME NEW e \in Events
             PROVE  Limited(e)'
  BY <1>1 DEF LimitInv
<1>2. /\ IsFiniteSet(Keepers(e)) /\ IsFiniteSet(Keepers(e)') /\ IsFiniteSet(Passes)
      /\ Cardinality(Keepers(e)) \in Nat /\ Cardinality(Keepers(e)') \in Nat
      /\ Cardinality(Passes) \in Nat
  <2>1. Keepers(e) \in SUBSET Passes /\ Keepers(e)' \in SUBSET Passes
    BY DEF Keepers
  <2> QED
    BY <2>1, RelayAssumption, FS_Subset, FS_CardinalityType
<1>3. /\ retries[e] \in Nat /\ retries'[e] \in Nat /\ MaxRetries \in Nat
      /\ Limited(e)
  BY <1>1, RelayAssumption DEF TypeOK, LimitInv
<1>4. retries[e] >= MaxRetries => Keepers(e)' \subseteq Keepers(e)
  BY <1>1, NobodyTakesUp DEF Keepers
<1>5. CASE retries'[e] = retries[e]
  <2>1. retries[e] >= MaxRetries =>
            Cardinality(Keepers(e)') <= Cardinality(Keepers(e))
    BY <1>2, <1>4, FS_Subset
  <2> QED
    BY <1>2, <1>3, <1>5, <2>1 DEF Limited
<1>6. CASE retries'[e] # retries[e]
  <2>1. PICK p \in Passes : /\ retries'[e] = retries[e] + 1
                            /\ p \in Keepers(e) /\ p \notin Keepers(e)'
    BY <1>1, <1>6, CounterDrops DEF Keepers
  <2>2. CASE retries[e] >= MaxRetries
    <3>1. Keepers(e)' \subseteq Keepers(e) \ {p}
      BY <1>4, <2>1, <2>2
    <3>2. /\ IsFiniteSet(Keepers(e) \ {p})
          /\ Cardinality(Keepers(e) \ {p}) = Cardinality(Keepers(e)) - 1
      BY <1>2, <2>1, FS_RemoveElement
    <3>3. Cardinality(Keepers(e)') <= Cardinality(Keepers(e)) - 1
      BY <3>1, <3>2, FS_Subset
    <3> QED
      BY <1>2, <1>3, <2>1, <2>2, <3>3 DEF Limited
  <2>3. CASE ~(retries[e] >= MaxRetries)
    <3>1. Keepers(e)' \subseteq Passes \ {p}
      BY <2>1 DEF Keepers
    <3>2. /\ IsFiniteSet(Passes \ {p})
          /\ Cardinality(Passes \ {p}) = Cardinality(Passes) - 1
      BY <1>2, FS_RemoveElement
    <3>3. Cardinality(Keepers(e)') <= Cardinality(Passes) - 1
      BY <3>1, <3>2, FS_Subset
    <3> QED
      BY <1>2, <1>3, <2>1, <2>3, <3>3 DEF Limited
  <2> QED
    BY <2>2, <2>3
<1> QED
  BY <1>5, <1>6

(* The limit on retries is overrun by no more than the passes that keep an *)
(* event besides the one that reaches it, however many failures there are. *)
THEOREM RetriesTheorem == Spec => []RetriesNearLimit
<1>1. Init => LimitInv
  <2>1. SUFFICES ASSUME Init
                 PROVE  LimitInv
    OBVIOUS
  <2>2. \A e \in Events : Limited(e)
    BY <2>1, RelayAssumption DEF Init, Limited
  <2> QED
    BY <2>1, <2>2, RelayInit DEF LimitInv
<1>2. LimitInv /\ [Next]_vars => LimitInv'
  BY LimitStep
<1>3. LimitInv => RetriesNearLimit
  <2>1. SUFFICES ASSUME LimitInv, NEW e \in Events
                 PROVE  retries[e] <= MaxRetries + Cardinality(Passes) - 1
    BY DEF RetriesNearLimit
  <2>2. /\ retries[e] \in Nat /\ MaxRetries \in Nat /\ Limited(e)
        /\ Cardinality(Passes) \in Nat
    BY <2>1, RelayAssumption, FS_CardinalityType DEF LimitInv, RelayInv, TypeOK
  <2>3. Cardinality(Keepers(e)) \in Nat
    <3>1. Keepers(e) \in SUBSET Passes
      BY DEF Keepers
    <3> QED
      BY <3>1, RelayAssumption, FS_Subset, FS_CardinalityType
  <2> QED
    BY <2>2, <2>3 DEF Limited
<1> QED
  BY <1>1, <1>2, <1>3, PTL DEF Spec

=============================================================================
