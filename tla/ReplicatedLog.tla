---------------------------- MODULE ReplicatedLog ----------------------------
(***************************************************************************)
(* What the Legislator promises to the state machines of a configuration.  *)
(* There is one sequence of decided requests, and every replica executes a *)
(* prefix of it, one decree after the other.  A replica that stops resumes *)
(* from a shorter prefix, and executes the same requests again.            *)
(***************************************************************************)
EXTENDS Naturals

CONSTANTS Replica, Request

VARIABLES
    decided,   \* the [dec, val] that some replica has executed
    applied    \* the last decree each replica has executed

Init ==
    /\ decided = {}
    /\ applied = [r \in Replica |-> 0]

\* The next decree of r: a new decision, or the one that others executed.
Apply(r, val) ==
    /\ \A e \in decided : e.dec = applied[r] + 1 => e.val = val
    /\ decided' = decided \cup {[dec |-> applied[r] + 1, val |-> val]}
    /\ applied' = [applied EXCEPT ![r] = @ + 1]

Recover(r) ==
    /\ \E d \in 0..applied[r] : applied' = [applied EXCEPT ![r] = d]
    /\ UNCHANGED decided

Next == \E r \in Replica : Recover(r) \/ \E val \in Request : Apply(r, val)

Spec == Init /\ [][Next]_<<decided, applied>>
=============================================================================
