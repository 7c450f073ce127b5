--------------------------- MODULE LeaderElection ---------------------------
(***************************************************************************)
(* Which replica of the autoscaler acts (main.go).  The replicas compete   *)
(* for one lease through client-go's leader election, with ReleaseOnCancel *)
(* set; the one that holds it calls run(), which never looks at the        *)
(* election again, and losing the lease ends the process.                  *)
(*                                                                         *)
(* A tick is one RetryPeriod.  The replicas' clocks run at the same speed. *)
(***************************************************************************)
EXTENDS Integers

CONSTANTS
    Replica,                \* the replicas, by host name
    None,                   \* nobody holds the lease
    LeaseDuration,          \* ticks after which others take a lease over
    RenewDeadline,          \* ticks a leader goes on without renewing
    MaxFaults               \* bound on missed renewals, crashes and failed calls

ASSUME ReplicaAssumption == None \notin Replica
\* client-go refuses to start otherwise.
ASSUME DurationAssumption ==
    /\ LeaseDuration \in Nat /\ RenewDeadline \in Nat \ {0}
    /\ RenewDeadline < LeaseDuration
ASSUME FaultAssumption == MaxFaults \in Nat

VARIABLES
    holder,     \* the holder written in the lease, or None
    age,        \* ticks since the lease was last written
    since,      \* since[r]: ticks since r last renewed, as r measures it
    stage,      \* stage[r]: what the process of r does
    faults      \* failures so far

leVars == <<holder, age, since, stage, faults>>

\* "standby": waiting for the lease; "leading": in run(); "stopping": the lease
\* is given up and OnStoppedLeading not yet called; "dead": to be restarted.
Stages == {"standby", "leading", "stopping", "dead"}

leaderElectionConfiguration ==
    [LeaseDuration |-> LeaseDuration, RenewDeadline |-> RenewDeadline]

LETypeOK ==
    /\ holder \in Replica \cup {None}
    /\ age \in 0..LeaseDuration
    /\ since \in [Replica -> 0..LeaseDuration]
    /\ stage \in [Replica -> Stages]
    /\ faults \in 0..MaxFaults

LEInit ==
    /\ holder = None
    /\ age = 0
    /\ since = [r \in Replica |-> 0]
    /\ stage = [r \in Replica |-> "standby"]
    /\ faults = 0

\* Mutant: a lease that nobody renews any more is not taken over.
MayAcquireFree(r) == holder \in {None, r}

\* Mutant: the identity is no longer the replica's own (a constant for the host
\* name), so that each takes the lease of any other for its own.
MayAcquireShared(r) == holder \in {None, r} \/ (r \in Replica /\ holder \in Replica)

\* A replica takes a lease that is free, expired, or its own from before a restart:
\* the identity is the host name, which a restarted container keeps.
MayAcquire(r) ==
    holder \in {None, r} \/ age >= leaderElectionConfiguration.LeaseDuration

\* RunOrDie: acquire, then OnStartedLeading.
Acquire(r) ==
    /\ stage[r] = "standby"
    /\ MayAcquire(r)
    /\ holder' = r
    /\ age' = 0
    /\ since' = [since EXCEPT ![r] = 0]
    /\ stage' = [stage EXCEPT ![r] = "leading"]
    /\ UNCHANGED faults

\* The leader updates the lease, which nobody else has written meanwhile.
Renew(r) ==
    /\ stage[r] = "leading"
    /\ holder = r
    /\ since[r] > 0
    /\ age' = 0
    /\ since' = [since EXCEPT ![r] = 0]
    /\ UNCHANGED <<holder, stage, faults>>

Leaders == {r \in Replica : stage[r] = "leading"}

\* Time passes.  A leader renews every RetryPeriod unless its update fails, which
\* is a fault, and is stopped when it has not for RenewDeadline.
Tick ==
    /\ holder # None
    /\ \A r \in Leaders : since[r] < leaderElectionConfiguration.RenewDeadline
    /\ age' = IF age < LeaseDuration THEN age + 1 ELSE age
    /\ since' = [r \in Replica |-> IF r \in Leaders THEN since[r] + 1 ELSE since[r]]
    /\ IF \E r \in Leaders : since[r] > 0
       THEN faults < MaxFaults /\ faults' = faults + 1
       ELSE UNCHANGED faults
    /\ UNCHANGED <<holder, stage>>

\* The deadline passes: renew() returns and, by ReleaseOnCancel, the lease is given
\* up, if that update gets through, while run() is still at work.
StopLeading(r) ==
    /\ stage[r] = "leading"
    /\ since[r] >= leaderElectionConfiguration.RenewDeadline
    /\ stage' = [stage EXCEPT ![r] = "stopping"]
    /\ \/ holder' = None
       \/ UNCHANGED holder
    /\ UNCHANGED <<age, since, faults>>

\* OnStoppedLeading: klog.Fatalf("lost master").
OnStoppedLeading(r) ==
    /\ stage[r] = "stopping"
    /\ stage' = [stage EXCEPT ![r] = "dead"]
    /\ UNCHANGED <<holder, age, since, faults>>

\* klog.Fatalf in run(): the process ends and the lease is left as it is.
Fatal(r) ==
    /\ stage[r] = "leading"
    /\ stage' = [stage EXCEPT ![r] = "dead"]
    /\ UNCHANGED <<holder, age, since, faults>>

\* The container is killed, or the signal handler exits after ExitCleanUp.
Crash(r) ==
    /\ stage[r] # "dead"
    /\ faults < MaxFaults
    /\ faults' = faults + 1
    /\ stage' = [stage EXCEPT ![r] = "dead"]
    /\ UNCHANGED <<holder, age, since>>

\* The kubelet restarts the container.
Restart(r) ==
    /\ stage[r] = "dead"
    /\ stage' = [stage EXCEPT ![r] = "standby"]
    /\ UNCHANGED <<holder, age, since, faults>>

\* A call of run() that fails: a fault and no more.
CallFails ==
    /\ faults < MaxFaults
    /\ faults' = faults + 1
    /\ UNCHANGED <<holder, age, since, stage>>

LENext ==
    \/ Tick \/ CallFails
    \/ \E r \in Replica :
          \/ Acquire(r) \/ Renew(r) \/ StopLeading(r) \/ OnStoppedLeading(r)
          \/ Fatal(r) \/ Crash(r) \/ Restart(r)

LESpec == LEInit /\ [][LENext]_leVars

(***************************************************************************)
(* Properties.                                                             *)
(***************************************************************************)

\* Two replicas never act at once: a leader that cannot renew is told to stop before
\* anybody else may take its lease (the replica that is being stopped apart, which
\* ReleaseOnCancel lets overlap with its successor until the process has ended).
OneLeader == \A r, q \in Leaders : r = q
==============================================================================
