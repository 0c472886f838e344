---------------------------- MODULE MCNodeRewards ----------------------------
EXTENDS NodeRewards, TLC

CONSTANTS s1, s2, p1, p2

(* Model bound: polls of the audit log and rewards share nothing but the   *)
(* audits, so a behaviour has the ones or the others.  One with rewards    *)
(* ends a period earlier, and has a second fault only without audits.  One *)
(* with polls has no leading reward service, and its instances see a new   *)
(* minute before anything else happens.                                    *)
VARIABLE half

MCInit == Init /\ half \in {"rewards", "polls"}

Rewards ==
    /\ half = "rewards" /\ <<polled, rows>>' = <<polled, rows>>
    /\ minute' < MaxMinute /\ (faults' < MaxFaults \/ round' = 0)

Polls ==
    /\ half = "polls" /\ <<IS_LEADER, paying>>' = <<IS_LEADER, paying>>
    /\ (\E s \in Service : currentMinute[s] # minute) => currentMinute' # currentMinute
    /\ faults' < MaxFaults

MCNext == Next /\ (Rewards \/ Polls) /\ UNCHANGED half

mcvars == <<vars, half>>

(* Every producer's interval calls the poll again, and Redis and the       *)
(* database answer it or fail.                                             *)
MCSpec ==
    /\ MCInit /\ [][MCNext]_mcvars
    /\ \A p \in Poller : WF_mcvars(half = "polls" /\ PollStep(p) /\ UNCHANGED half)
=============================================================================
