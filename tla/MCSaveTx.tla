------------------------------- MODULE MCSaveTx -------------------------------
(***************************************************************************)
(* Instances of SaveTx for TLC.                                            *)
(***************************************************************************)
EXTENDS SaveTx

CONSTANTS r1, r2, r3, t1, e1, e2, n1, s1, s2, q1, q2

(* Nothing but the e-mail makes anybody wait.                              *)
Info(email) == [names |-> n1, email |-> email]

Infos == {Info(e1), Info(e2)}

(* A row of the only tenant.                                               *)
SeedRow(email, sub) ==
    [tenant |-> t1, personalInfo |-> Info(email), businessInfo |-> Null,
     access |-> [p \in Platforms |-> "DISABLED"], status |-> "ACTIVE",
     upline |-> Null, sub |-> sub, saves |-> 0]

(* A Rep, and an e-mail and a sub nobody has; or two, who have them all.   *)
OneOrTwoReps ==
    LET one == [r \in RepIds |-> IF r = r1 THEN SeedRow(e1, s1) ELSE Null]
    IN  {one, [one EXCEPT ![r2] = SeedRow(e2, s2)]}
=============================================================================
