------------------------------- MODULE Ballots -------------------------------
(***************************************************************************)
(* Ballot numbers and the comparisons of decrees that every message        *)
(* handler of the Legislator is guarded by (message.cpp).                  *)
(*                                                                         *)
(* A BallotNumber is a ballot id and the member that owns it.  Members are *)
(* positive naturals; 0 stands for the empty MemberId of BallotNumber().   *)
(***************************************************************************)
EXTENDS Naturals

Ballot == [id : Nat, mem : Nat]

\* BallotNumber(): the empty ballot of the vote a bootstrapped replica holds.
ZeroBallot == [id |-> 0, mem |-> 0]

\* Lexicographic: ballot id first, then the owner.
BallotLess(a, b) ==
    \/ a.id < b.id
    \/ a.id = b.id /\ a.mem < b.mem

BallotLeq(a, b) == a = b \/ BallotLess(a, b)

(***************************************************************************)
(* The four comparisons of a message (or vote) m with a current decree and *)
(* ballot.  m is any record with the fields dec and bal.                   *)
(***************************************************************************)
IsLowerDecree(m, dec, bal) ==
    m.dec < dec \/ BallotLess(m.bal, bal)

IsHigherDecree(m, dec, bal) ==
    \/ m.dec > dec /\ BallotLeq(bal, m.bal)
    \/ m.dec = dec /\ BallotLess(bal, m.bal)

IsNextDecree(m, dec, bal) ==
    \/ m.dec = dec /\ BallotLeq(bal, m.bal)
    \/ m.dec = dec + 1 /\ m.bal = bal

IsSameDecree(m, dec, bal) ==
    m.dec = dec /\ m.bal = bal
=============================================================================
