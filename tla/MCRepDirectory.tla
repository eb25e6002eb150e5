--------------------------- MODULE MCRepDirectory ---------------------------
(***************************************************************************)
(* Instances of RepDirectory for TLC.                                      *)
(***************************************************************************)
EXTENDS RepDirectory, TLC

CONSTANTS r1, r2, t1, t2, e1, e2, n1, n2, b1, s1, s2, p1, q1, q2, q3

(* A person with either of two phone numbers, and another person.          *)
Info(names, email, phones) ==
    [names |-> names, email |-> email, phones |-> phones]

First == Info(n1, e1, 1)
Second == Info(n2, e2, 1)

Infos == {First, Info(n1, e1, 2), Second}

(* One business under two tax ids.                                         *)
OneName == {[businessName |-> b1, taxId |-> id] : id \in {1, 2}}

(* One row the service finds when it starts.                               *)
SeedRow(tenant, info, status, sub, level) ==
    [tenant |-> tenant, personalInfo |-> info, businessInfo |-> Null,
     access |-> [p \in Platforms |-> level], status |-> status,
     upline |-> Null, sub |-> sub, saves |-> 0]

NoRows == [r \in RepIds |-> Null]

(* One Rep of t1.                                                          *)
OneRep == {NoRows} \cup
    {[NoRows EXCEPT ![r1] = SeedRow(t1, First, status, Null, "DISABLED")] :
        status \in {"PENDING_APPROVAL", "ACTIVE", "SOFT_DELETED"}}

(* Two Reps of t1, the first linked to a sub.                              *)
TwoReps ==
    [NoRows EXCEPT ![r1] = SeedRow(t1, First, "SUSPENDED", s1, "ENABLED"),
                   ![r2] = SeedRow(t1, Second, "ACTIVE", Null, "DISABLED")]

Tables == OneRep \cup {TwoReps}

RequestSymmetry == Permutations(Requests)
=============================================================================
