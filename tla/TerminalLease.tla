--------------------------- MODULE TerminalLease ---------------------------
(***************************************************************************)
(* Terminal sessions and the leases under which workers execute them: the  *)
(* terminal_sessions rows of Store (services/control-plane/src/store.ts),  *)
(* the endpoints of services/control-plane/src/server.ts that workers and  *)
(* users call, the check commands of Engine.runCheckCommand, the project   *)
(* pause that revokes leases, and the worker agent                         *)
(* (services/worker/src/agent.ts) at the other end of the network.         *)
(*                                                                         *)
(* Every endpoint is synchronous up to its answer, so it is one step.      *)
(* Answers and reports may be lost; a worker may stop and come back under  *)
(* the same identity; the control plane may crash between any two steps.   *)
(*                                                                         *)
(* Abstracted: the opaque lease token is the number of the lease that      *)
(* issued it; time is a lease that lapses at any moment; the oldest queued *)
(* terminal is any queued terminal; output text and exit codes are left    *)
(* out.                                                                    *)
(***************************************************************************)
EXTENDS Integers, FiniteSets

CONSTANTS
    Terminals,
    Workers,        \* enrolled workers
    Projects,
    ProjectOf,      \* [Terminals -> Projects]
    Checks,         \* the terminals runCheckCommand creates; users create the rest
    Able,           \* [Workers -> SUBSET Terminals], by required capabilities
    Capacity,       \* [Workers -> Nat], workers.max_concurrent_runs
    Reports,        \* final states a worker reports
    NoWorker,       \* worker_id NULL
    MaxGen,         \* bound: pauses of each project
    MaxLeases       \* bound: leases of each terminal

Final == {"succeeded", "failed", "cancelled", "timed_out"}

ASSUME LeaseAssumption ==
    /\ IsFiniteSet(Terminals) /\ Terminals # {}
    /\ ProjectOf \in [Terminals -> Projects]
    /\ Checks \subseteq Terminals
    /\ Able \in [Workers -> SUBSET Terminals]
    /\ Capacity \in [Workers -> Nat]
    /\ Reports \subseteq Final
    /\ NoWorker \notin Workers
    /\ MaxGen \in [Projects -> Nat] /\ MaxLeases \in [Terminals -> Nat]

VARIABLES
    row,        \* terminal_sessions
    status,     \* projects.status: active or paused
    gen,        \* projects.pause_generation
    revoked,    \* workers whose status is revoked
    revoking,   \* in-flight pauseProject calls that have yet to revoke leases
    waiting,    \* the checks a runCheckCommand polls
    active,     \* executions <<worker, terminal, token>> a worker manages
    createdIn,  \* the generation a runCheckCommand captured
    leasedIn,   \* history: the generation of the last lease
    reported,   \* history: terminals some report of a worker was accepted for
    passed      \* history: checks runCheckCommand returned ok for

projectVars == <<status, gen>>
historyVars == <<createdIn, leasedIn, reported, passed>>
vars == <<row, projectVars, revoked, revoking, waiting, active, historyVars>>

\* The states in which a terminal counts against its worker.
Held == {"starting", "running", "cancelling"}

TerminalState == {"absent", "queued"} \cup Held \cup Final

\* lease is lease_expires_at: NULL, in the future or in the past; token is
\* lease_token_hash, 0 when NULL; leases is lease_attempts.
Row == [state : TerminalState, worker : Workers \cup {NoWorker},
        lease : {"none", "live", "lapsed"}, token : Nat, leases : Nat]

Absent == [state |-> "absent", worker |-> NoWorker, lease |-> "none", token |-> 0, leases |-> 0]

Paused(t) == status[ProjectOf[t]] = "paused"

HeldBy(r, w) == {t \in Terminals : r[t].worker = w /\ r[t].state \in Held}

-----------------------------------------------------------------------------
(* What the store does to one row *)

\* setTerminalState: the worker stays, a final state drops the lease; nothing
\* is asked of the current state.
WithState(r, s) ==
    [r EXCEPT !.state = s,
              !.lease = IF s \in Final THEN "none" ELSE @,
              !.token = IF s \in Final THEN 0 ELSE @]

Unleased(r, s) == [r EXCEPT !.state = s, !.worker = NoWorker, !.lease = "none", !.token = 0]

\* Mutant: work in progress is queued again too.
ReconciledByReplay(r) ==
    IF r.lease = "lapsed" /\ r.state \in {"starting", "running"} THEN Unleased(r, "queued") ELSE r

\* reconcileExpiredTerminalLeases.
Reconciled(r) ==
    CASE r.lease = "lapsed" /\ r.state = "starting" -> Unleased(r, "queued")
      [] r.lease = "lapsed" /\ r.state \in {"running", "cancelling"} ->
            [r EXCEPT !.state = "failed", !.lease = "none", !.token = 0]
      [] OTHER -> r

\* The update shared by revokeWorkerLeases and revokeProjectWorkerLeases.
Revoked(r) ==
    IF r.state \in Held
    THEN Unleased(r, IF r.state = "starting" THEN "queued" ELSE "cancelled")
    ELSE r

\* heartbeatWorker: every session of the worker gets a fresh expiry, a lapsed
\* one included.
Renewed(r, w) == IF r.worker = w /\ r.state \in Held THEN [r EXCEPT !.lease = "live"] ELSE r

\* The k-th lease of a queued session.
Leased(r, w, k) ==
    [r EXCEPT !.state = "starting", !.worker = w, !.lease = "live",
              !.token = k, !.leases = k]

-----------------------------------------------------------------------------
(* The control plane *)

\* createTerminal, by a user or, when a worker could take it, by a check.
Create(t) ==
    LET p == ProjectOf[t]
    IN  /\ row[t].state = "absent" /\ ~Paused(t)
        /\ t \in Checks => \E w \in Workers \ revoked :
              t \in Able[w] /\ Cardinality(HeldBy(row, w)) < Capacity[w]
        /\ row' = [row EXCEPT ![t].state = "queued"]
        /\ createdIn' = [createdIn EXCEPT ![t] = gen[p]]
        /\ waiting' = waiting \cup ({t} \cap Checks)
        /\ UNCHANGED <<projectVars, revoked, revoking, active, leasedIn, reported, passed>>

\* POST /terminals/:id/cancel.
Cancel(t) ==
    /\ row[t].state \notin Final \cup {"absent"}
    /\ row' = [row EXCEPT ![t] = WithState(@, "cancelling")]
    /\ UNCHANGED <<projectVars, revoked, revoking, waiting, active, historyVars>>

\* Mutant: a resumed project is taken for the one the check started in.
FencedWhilePaused(t) == Paused(t)

\* The check no longer belongs to its project's current generation.
Fenced(t) == Paused(t) \/ gen[ProjectOf[t]] # createdIn[t]

\* runCheckCommand gives up on a fence (read before the session) or on its
\* deadline, and asks for a cancellation whatever became of the session.
CheckGivesUp(t) ==
    /\ t \in waiting
    /\ waiting' = waiting \ {t}
    /\ row' = [row EXCEPT ![t] = WithState(@, "cancelling")]
    /\ UNCHANGED <<projectVars, revoked, revoking, active, historyVars>>

\* runCheckCommand reads a final state.
CheckReturns(t) ==
    /\ t \in waiting /\ ~Fenced(t)
    /\ row[t].state \in Final
    /\ waiting' = waiting \ {t}
    /\ passed' = IF row[t].state = "succeeded" THEN passed \cup {t} ELSE passed
    /\ UNCHANGED <<row, projectVars, revoked, revoking, active, createdIn, leasedIn, reported>>

\* beginProjectPause, then pauseProject awaits the providers it cancels.
Pause(p) ==
    /\ status[p] # "paused" /\ gen[p] < MaxGen[p]
    /\ status' = [status EXCEPT ![p] = "paused"]
    /\ gen' = [gen EXCEPT ![p] = @ + 1]
    /\ revoking' = [revoking EXCEPT ![p] = @ + 1]
    /\ UNCHANGED <<row, revoked, waiting, active, historyVars>>

\* The sessions revokeProjectWorkerLeases selects.
Revocable(p) == {t \in Terminals : ProjectOf[t] = p}

\* The last step of pauseProject: revokeProjectWorkerLeases.
RevokeProject(p) ==
    /\ revoking[p] > 0
    /\ revoking' = [revoking EXCEPT ![p] = @ - 1]
    /\ row' = [t \in Terminals |-> IF t \in Revocable(p) THEN Revoked(row[t]) ELSE row[t]]
    /\ UNCHANGED <<projectVars, revoked, waiting, active, historyVars>>

Resume(p) ==
    /\ status[p] = "paused"
    /\ status' = [status EXCEPT ![p] = "active"]
    /\ UNCHANGED <<row, gen, revoked, revoking, waiting, active, historyVars>>

\* POST /workers/:id/revoke.
RevokeWorker(w) ==
    /\ w \notin revoked
    /\ revoked' = revoked \cup {w}
    /\ row' = [t \in Terminals |-> IF row[t].worker = w THEN Revoked(row[t]) ELSE row[t]]
    /\ UNCHANGED <<projectVars, revoking, waiting, active, historyVars>>

\* The process restarts: requests and pollers are lost, the rows are not.
Crash ==
    /\ waiting' = {}
    /\ revoking' = [p \in Projects |-> 0]
    /\ waiting # {} \/ revoking' # revoking
    /\ UNCHANGED <<row, projectVars, revoked, active, historyVars>>

\* 30 seconds without a poll of the worker.
Lapse(t) ==
    /\ row[t].lease = "live"
    /\ row' = [row EXCEPT ![t].lease = "lapsed"]
    /\ UNCHANGED <<projectVars, revoked, revoking, waiting, active, historyVars>>

-----------------------------------------------------------------------------
(* Workers *)

\* The rows after the heartbeat and the reconciliation of a poll of w.
Polled(w) == [t \in Terminals |-> Reconciled(Renewed(row[t], w))]

\* Mutant: sessions whose command has not reported yet are not counted.
LoadOfRunning(r, w) == {t \in Terminals : r[t].worker = w /\ r[t].state = "running"}

\* The sessions counted against the capacity of w.
Load(r, w) == HeldBy(r, w)

\* The queued terminals w may lease.
Leasable(r, w) ==
    {t \in Able[w] : /\ Cardinality(Load(r, w)) < Capacity[w]
                     /\ r[t].state = "queued" /\ ~Paused(t)
                     /\ r[t].leases < MaxLeases[t]}

\* POST /workers/lease: heartbeat, reconcile, lease; the answer may be lost.
Poll(w) ==
    /\ w \notin revoked
    /\ \/ /\ Leasable(Polled(w), w) = {}
          /\ row' = Polled(w)
          /\ UNCHANGED <<leasedIn, active>>
       \/ \E t \in Leasable(Polled(w), w) :
          /\ row' = [Polled(w) EXCEPT ![t] = Leased(@, w, @.leases + 1)]
          /\ leasedIn' = [leasedIn EXCEPT ![t] = gen[ProjectOf[t]]]
          /\ \/ active' = active \cup {<<w, t, row'[t].token>>}
             \/ UNCHANGED active
    /\ UNCHANGED <<projectVars, revoked, revoking, waiting, createdIn, reported, passed>>

\* The guards of /output and /exit: the lease is this worker's, its project is
\* not paused, and validateTerminalLease.
Accepts(w, t, k) ==
    /\ w \notin revoked /\ row[t].worker = w
    /\ ~Paused(t)
    /\ row[t].lease = "live" /\ row[t].state \in Held /\ row[t].token = k

\* POST /terminals/:id/output; a refused or lost one is forgotten.
Output(w, t, k) ==
    /\ <<w, t, k>> \in active /\ Accepts(w, t, k)
    /\ row' = [row EXCEPT ![t] = IF @.state = "starting" THEN WithState(@, "running") ELSE @]
    /\ reported' = reported \cup {t}
    /\ UNCHANGED <<projectVars, revoked, revoking, waiting, active, createdIn, leasedIn, passed>>

\* The command ended and POST /terminals/:id/exit was accepted.
ExitReported(w, t, k) ==
    /\ <<w, t, k>> \in active /\ Accepts(w, t, k)
    /\ \E s \in Reports : row' = [row EXCEPT ![t] = WithState(@, s)]
    /\ reported' = reported \cup {t}
    /\ active' = active \ {<<w, t, k>>}
    /\ UNCHANGED <<projectVars, revoked, revoking, waiting, createdIn, leasedIn, passed>>

\* The command ended and its report was refused or lost, or the worker stopped.
ExitUnreported(w, t, k) ==
    /\ <<w, t, k>> \in active
    /\ active' = active \ {<<w, t, k>>}
    /\ UNCHANGED <<row, projectVars, revoked, revoking, waiting, historyVars>>

-----------------------------------------------------------------------------
Init ==
    /\ row = [t \in Terminals |-> Absent]
    /\ status = [p \in Projects |-> "active"]
    /\ gen = [p \in Projects |-> 0]
    /\ revoked = {} /\ waiting = {} /\ active = {}
    /\ revoking = [p \in Projects |-> 0]
    /\ createdIn = [t \in Terminals |-> 0]
    /\ leasedIn = [t \in Terminals |-> 0]
    /\ reported = {} /\ passed = {}

Report(x) == Output(x[1], x[2], x[3]) \/ ExitReported(x[1], x[2], x[3])

ControlPlane ==
    \/ \E t \in Terminals : CheckGivesUp(t) \/ CheckReturns(t)
    \/ \E p \in Projects : RevokeProject(p)

Users ==
    \/ \E t \in Terminals : Create(t) \/ Cancel(t)
    \/ \E p \in Projects : Pause(p) \/ Resume(p)
    \/ \E w \in Workers : RevokeWorker(w)

Faults ==
    \/ Crash
    \/ \E t \in Terminals : Lapse(t)
    \/ \E x \in active : ExitUnreported(x[1], x[2], x[3])

Next ==
    \/ ControlPlane
    \/ Users
    \/ Faults
    \/ \E w \in Workers : Poll(w)
    \/ \E x \in active : Report(x)

Spec == Init /\ [][Next]_vars

-----------------------------------------------------------------------------
(* Properties *)

\* Every variable keeps its type, and a row its shape: a queued or final
\* session has no lease, a starting or running one has a worker and a token,
\* and a token is always that of the last lease.
RowOK(r) ==
    /\ r \in Row
    /\ r.token \in {0, r.leases}
    /\ r.state \in {"starting", "running"} => r.worker # NoWorker /\ r.token # 0
    /\ r.state \notin Held => r.token = 0 /\ r.lease = "none"
    /\ r.state \in {"absent", "queued"} => r.worker = NoWorker
    /\ r.worker = NoWorker => r.token = 0

TypeOK ==
    /\ row \in [Terminals -> Row] /\ \A t \in Terminals : RowOK(row[t])
    /\ status \in [Projects -> {"active", "paused"}]
    /\ gen \in [Projects -> Nat] /\ \A p \in Projects : gen[p] <= MaxGen[p]
    /\ revoked \subseteq Workers
    /\ revoking \in [Projects -> Nat]
    /\ waiting \subseteq Checks
    /\ active \subseteq Workers \X Terminals \X Nat
    /\ createdIn \in [Terminals -> Nat] /\ leasedIn \in [Terminals -> Nat]
    /\ reported \subseteq Terminals
    /\ passed \subseteq Checks

\* A worker never holds more valid tokens than its capacity, whatever leases
\* lapse, are revived by a heartbeat, requeued or revoked in between.
LeasesWithinCapacity ==
    \A w \in Workers :
        Cardinality({t \in Terminals : row[t].worker = w /\ row[t].token # 0}) <= Capacity[w]

\* Revocation of a worker is final: no session keeps, or is ever given, a
\* token of a revoked worker.
RevokedWorkersHoldNoLease ==
    \A t \in Terminals : row[t].worker \in revoked => row[t].token = 0

\* A check counts as passed only when the lease its command succeeded under was
\* taken in the generation that started the check: neither a lease from before
\* a pause nor a result from after a resume makes an old check pass.
PassedChecksAreFenced ==
    \A t \in passed : t \in reported /\ leasedIn[t] = createdIn[t]

\* Once a report of a worker was accepted a terminal is never leased again: no
\* expiry, revocation, cancel or restart replays work that had side effects.
ReportedWorkIsNeverReplayed ==
    [][\A t \in reported : row'[t].leases = row[t].leases]_vars

\* P-ISO: a pause, up to the revocation that ends it, changes no session of
\* another project, even when one worker serves both.
PauseIsIsolated ==
    [][\A p \in Projects :
        status'[p] # status[p] \/ revoking'[p] < revoking[p]
        => \A t \in Terminals : ProjectOf[t] # p => row'[t] = row[t]]_vars

\* P-FENCE: while its project is paused, before and after its lease is
\* revoked, a session is not leased, no report of it is accepted, and it gets
\* no result of its command.
PausedSessionsAreFenced ==
    [][\A t \in Terminals : Paused(t) =>
        /\ row'[t].leases = row[t].leases
        /\ t \in reported' => t \in reported
        /\ row'[t].state \in {"starting", "running", "succeeded", "timed_out"}
              => row'[t].state = row[t].state]_vars
=============================================================================
