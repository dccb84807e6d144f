---------------------------- MODULE RemoteApply ----------------------------
(***************************************************************************)
(* What remote_apply replication promises (SyncReplicationMode): commits   *)
(* are numbered, some standby covers all of them up to `remote`, and the   *)
(* primary takes as applied only what a standby covers. A standby may fall *)
(* back, but never below what was taken as applied.                        *)
(***************************************************************************)
EXTENDS Naturals

VARIABLES committed, remote, acked

Init == committed = 0 /\ remote = 0 /\ acked = 0

Commit(n) == committed' = committed + n /\ UNCHANGED acked
Acknowledge == acked' \in acked .. remote /\ UNCHANGED <<committed, remote>>
Apply == remote' \in acked .. committed /\ UNCHANGED <<committed, acked>>

Next == (\E n \in 1 .. 2 : Commit(n) /\ remote' \in acked .. committed') \/ Acknowledge \/ Apply

Spec == Init /\ [][Next]_<<committed, remote, acked>>
=============================================================================
