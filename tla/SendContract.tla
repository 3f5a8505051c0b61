---------------------------- MODULE SendContract ----------------------------
(***************************************************************************)
(* What a packet service promises those who send: Send() takes a packet or *)
(* refuses it at once; a packet it took gets one ProcessSend() callback    *)
(* with its outcome, a packet it refused gets none.                        *)
(***************************************************************************)
CONSTANT SendPackets
VARIABLE fate    \* of each packet: unsent, refused, taken, or its outcome

Outcomes == {"Success", "TimedOut", "NoConnection", "Abort"}

InitContract == fate = [p \in SendPackets |-> "unsent"]

\* Packets taken or refused by Send(), and outcomes reported: several packets
\* may be answered before anything else is seen to happen.
Decided(p, new) ==
    \/ new = fate[p]
    \/ fate[p] = "unsent" /\ new \in {"taken", "refused"}
    \/ fate[p] = "taken" /\ new \in Outcomes

NextContract ==
    /\ fate' \in [SendPackets -> {"unsent", "refused", "taken"} \cup Outcomes]
    /\ \A p \in SendPackets : Decided(p, fate'[p])

SpecContract == InitContract /\ [][NextContract]_fate
=============================================================================
