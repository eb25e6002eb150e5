---------------------------- MODULE MCOutboxRelay ----------------------------
(***************************************************************************)
(* Instances of OutboxRelay for TLC: two events of saves of one Rep, one   *)
(* of its links to a group, and one of a Rep of another tenant.            *)
(***************************************************************************)
EXTENDS OutboxRelay, TLC

CONSTANTS ev1, ev2, ev3, link1, t1, t2, r1, r2, pass1, pass2

MCTenantOf == [e \in Events |-> IF e = ev3 THEN t2 ELSE t1]
MCRepOf == [e \in Events |-> IF e = ev3 THEN r2 ELSE r1]

OneTenant == <<t1>>
BothTenants == <<t1, t2>>

(* What the relay's own steps read: none of them looks at the client's     *)
(* buffer, at its socket or at what was delivered, nor do the properties   *)
(* of the run that uses this view.                                         *)
RelayView == <<rows, sent, conn, pass, faults>>

PassSymmetry == Permutations(Passes)
=============================================================================
