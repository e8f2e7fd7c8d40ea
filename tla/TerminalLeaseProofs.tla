------------------------ MODULE TerminalLeaseProofs ------------------------
(***************************************************************************)
(* Theorems about TerminalLease, for every set of terminals, workers and   *)
(* projects, every capacity and every value of the bounds.                 *)
(*                                                                         *)
(* The argument: every step but two only weakens rows (a token is kept or  *)
(* dropped, a session that was reported on is not requeued); the two are   *)
(* the lease of a queued session by Poll and the accepted exit report.     *)
(***************************************************************************)
EXTENDS TerminalLease, FiniteSetTheorems, TLAPS

\* The states of a session a report was accepted for.
Begun == {"running", "cancelling"} \cup Final

\* The states only a lease or a report of a worker puts a session in.
Definite == {"absent", "starting", "running", "succeeded", "timed_out"}

\* What every step but a lease or a report does to a row.
Weakens(r, q) ==
    /\ RowOK(q)
    /\ q.leases = r.leases
    /\ q.token \in {0, r.token}
    /\ q.token # 0 => q.worker = r.worker
    /\ r.state \in Begun => q.state \in Begun
    /\ q.state \in Definite => q.state = r.state

-----------------------------------------------------------------------------
(* The operations of the store, on one row *)

LEMMA RowDefs ==
  /\ Held = {"starting", "running", "cancelling"}
  /\ Final = {"succeeded", "failed", "cancelled", "timed_out"}
  /\ TerminalState = {"absent", "queued"} \cup Held \cup Final
  BY DEF Held, Final, TerminalState

\* A row keeps its shape when it is left alone.
LEMMA SameRow ==
  ASSUME NEW r, RowOK(r)
  PROVE  Weakens(r, r)
  BY DEF Weakens, RowOK, Row

LEMMA StateSet ==
  ASSUME NEW r, RowOK(r), NEW s \in {"cancelling"} \cup Final
  PROVE  /\ RowOK(WithState(r, s))
         /\ WithState(r, s).state = s
         /\ s = "cancelling" => Weakens(r, WithState(r, s))
         /\ WithState(r, s).leases = r.leases
         /\ WithState(r, s).token \in {0, r.token}
         /\ WithState(r, s).worker = r.worker
  BY RowDefs DEF Weakens, RowOK, Row, WithState, Begun, Definite

LEMMA StateRunning ==
  ASSUME NEW r, RowOK(r), r.state = "starting"
  PROVE  /\ RowOK(WithState(r, "running"))
         /\ WithState(r, "running").state = "running"
         /\ WithState(r, "running").worker = r.worker
         /\ WithState(r, "running").leases = r.leases
         /\ WithState(r, "running").token = r.token
  BY RowDefs DEF RowOK, Row, WithState

LEMMA UnleasedWeakens ==
  ASSUME NEW r, RowOK(r), NEW s, s = "cancelled" \/ (s = "queued" /\ r.state = "starting")
  PROVE  Weakens(r, Unleased(r, s))
  BY RowDefs, LeaseAssumption DEF Weakens, RowOK, Row, Unleased, Begun, Definite

LEMMA RevokedWeakens ==
  ASSUME NEW r, RowOK(r)
  PROVE  Weakens(r, Revoked(r)) /\ (r.state \in Held => Revoked(r).token = 0)
<1>1. CASE r.state \in Held
  <2>1. PICK s : Revoked(r) = Unleased(r, s) /\ (s = "cancelled" \/ (s = "queued" /\ r.state = "starting"))
    BY <1>1 DEF Revoked
  <2>3. Unleased(r, s).token = 0
    BY DEF Unleased, RowOK, Row
  <2> QED
    BY <2>1, <2>3, UnleasedWeakens
<1>2. CASE r.state \notin Held
  BY <1>2, SameRow DEF Revoked
<1> QED
  BY <1>1, <1>2

LEMMA RenewedWeakens ==
  ASSUME NEW r, RowOK(r), NEW w
  PROVE  Weakens(r, Renewed(r, w)) /\ Renewed(r, w).state = r.state
  BY RowDefs DEF Weakens, RowOK, Row, Renewed, Begun, Definite

LEMMA ReconciledWeakens ==
  ASSUME NEW r, RowOK(r)
  PROVE  Weakens(r, Reconciled(r))
<1>1. CASE r.lease = "lapsed" /\ r.state = "starting"
  BY <1>1, UnleasedWeakens DEF Reconciled
<1>2. CASE r.lease = "lapsed" /\ r.state \in {"running", "cancelling"}
  BY <1>2, RowDefs DEF Reconciled, Weakens, RowOK, Row, Begun, Definite
<1>3. CASE ~(r.lease = "lapsed" /\ r.state \in {"starting", "running", "cancelling"})
  BY <1>3, SameRow DEF Reconciled
<1> QED
  BY <1>1, <1>2, <1>3

LEMMA WeakensTransitive ==
  ASSUME NEW r, NEW q, NEW s, Weakens(r, q), Weakens(q, s)
  PROVE  Weakens(r, s)
  BY DEF Weakens

\* The heartbeat and the reconciliation of a poll only weaken.
LEMMA PolledWeakens ==
  ASSUME NEW w, NEW t \in Terminals, RowOK(row[t])
  PROVE  Weakens(row[t], Polled(w)[t])
<1>1. Weakens(row[t], Renewed(row[t], w))
  BY RenewedWeakens
<1>2. RowOK(Renewed(row[t], w))
  BY <1>1 DEF Weakens
<1>3. Weakens(Renewed(row[t], w), Reconciled(Renewed(row[t], w)))
  BY <1>2, ReconciledWeakens
<1>4. Polled(w)[t] = Reconciled(Renewed(row[t], w))
  BY DEF Polled
<1> QED
  BY <1>1, <1>3, <1>4, WeakensTransitive

\* A leased row: a queued one with a new token.
LEMMA LeasedOK ==
  ASSUME NEW r, RowOK(r), r.state = "queued", NEW w \in Workers, NEW k \in Nat, k # 0
  PROVE  /\ RowOK(Leased(r, w, k))
         /\ Leased(r, w, k).token = k /\ Leased(r, w, k).leases = k
         /\ Leased(r, w, k).worker = w /\ Leased(r, w, k).state = "starting"
<1>1. w # NoWorker
  BY LeaseAssumption
<1> QED
  BY <1>1, RowDefs DEF RowOK, Row, Leased

-----------------------------------------------------------------------------
(* A step, seen from one terminal *)

\* The session is at most weakened, and no history changes.
Quiet(t) ==
    /\ Weakens(row[t], row'[t])
    /\ createdIn'[t] = createdIn[t] /\ leasedIn'[t] = leasedIn[t]
    /\ t \in reported' <=> t \in reported

\* The session is created.
CreatedNow(t) ==
    /\ row[t].state = "absent" /\ ~Paused(t)
    /\ row'[t] = [row[t] EXCEPT !.state = "queued"]
    /\ createdIn'[t] = gen[ProjectOf[t]] /\ leasedIn'[t] = leasedIn[t]
    /\ t \in reported' <=> t \in reported

\* The session, queued or requeued by this very poll, is leased to w.
LeasedNow(t, w) ==
    /\ w \in Workers \ revoked /\ ~Paused(t)
    /\ Polled(w)[t].state = "queued"
    /\ Cardinality(Load(Polled(w), w)) < Capacity[w]
    /\ \A u \in Terminals \ {t} : row'[u] = Polled(w)[u]
    /\ row'[t] = Leased(Polled(w)[t], w, Polled(w)[t].leases + 1)
    /\ createdIn'[t] = createdIn[t] /\ leasedIn'[t] = gen[ProjectOf[t]]
    /\ t \in reported' <=> t \in reported

\* A report of an execution of the session is accepted.
ReportedNow(t) ==
    /\ \E x \in active : x[2] = t /\ Accepts(x[1], t, x[3])
    /\ RowOK(row'[t])
    /\ row'[t].leases = row[t].leases
    /\ row'[t].token \in {0, row[t].token}
    /\ row'[t].worker = row[t].worker
    /\ row'[t].state \in Begun
    /\ createdIn'[t] = createdIn[t] /\ leasedIn'[t] = leasedIn[t]
    /\ t \in reported'

Seen(t) == Quiet(t) \/ CreatedNow(t) \/ (\E w \in Workers : LeasedNow(t, w)) \/ ReportedNow(t)

\* A step that leaves the row of t alone, and the histories.
LEMMA Untouched ==
  ASSUME TypeOK, NEW t \in Terminals, row'[t] = row[t],
         createdIn'[t] = createdIn[t], leasedIn'[t] = leasedIn[t],
         t \in reported' <=> t \in reported
  PROVE  Seen(t)
  BY SameRow DEF Seen, Quiet, TypeOK

LEMMA CreateSeen ==
  ASSUME TypeOK, NEW u \in Terminals, Create(u), NEW t \in Terminals
  PROVE  Seen(t) /\ row' \in [Terminals -> Row] /\ RowOK(row'[t])
<1>1. row[u].state = "absent" /\ RowOK(row[u]) /\ RowOK(row[t]) /\ row[u] \in Row
  BY DEF Create, TypeOK
<1>2. RowOK([row[u] EXCEPT !.state = "queued"])
  BY <1>1, RowDefs DEF RowOK, Row
<1>3. [row[u] EXCEPT !.state = "queued"] \in Row
  BY <1>2 DEF RowOK
<1>4. row' = [row EXCEPT ![u] = [row[u] EXCEPT !.state = "queued"]]
  BY DEF Create
<1>5. row' \in [Terminals -> Row]
  BY <1>3, <1>4 DEF TypeOK
<1>6. CASE t = u
  <2>1. row'[t] = [row[t] EXCEPT !.state = "queued"]
    BY <1>4, <1>6 DEF TypeOK
  <2>2. createdIn'[t] = gen[ProjectOf[t]]
    BY <1>6 DEF Create, TypeOK
  <2> QED
    BY <1>2, <1>5, <1>6, <2>1, <2>2 DEF Create, Seen, CreatedNow
<1>7. CASE t # u
  BY <1>1, <1>4, <1>5, <1>7, Untouched DEF Create, TypeOK
<1> QED
  BY <1>6, <1>7

\* A step that weakens the rows and keeps the histories.
LEMMA WeakeningSeen ==
  ASSUME TypeOK, UNCHANGED <<createdIn, leasedIn, reported>>,
         row' = [t \in Terminals |-> row'[t]],
         \A t \in Terminals : Weakens(row[t], row'[t]),
         NEW t \in Terminals
  PROVE  Seen(t) /\ row' \in [Terminals -> Row] /\ RowOK(row'[t])
<1>1. \A u \in Terminals : RowOK(row'[u]) /\ row'[u] \in Row
  BY DEF Weakens, RowOK
<1>2. row' \in [Terminals -> Row]
  BY <1>1
<1> QED
  BY <1>1, <1>2 DEF Seen, Quiet

\* The same, when one row changes.
LEMMA OneWeakens ==
  ASSUME TypeOK, UNCHANGED <<createdIn, leasedIn, reported>>,
         NEW u \in Terminals, NEW q, row' = [row EXCEPT ![u] = q], Weakens(row[u], q),
         NEW t \in Terminals
  PROVE  Seen(t) /\ row' \in [Terminals -> Row] /\ RowOK(row'[t])
<1>1. row \in [Terminals -> Row] /\ \A v \in Terminals : RowOK(row[v])
  BY DEF TypeOK
<1>2. \A v \in Terminals : Weakens(row[v], row'[v])
  BY <1>1, SameRow
<1>3. row' = [v \in Terminals |-> row'[v]]
  BY <1>1
<1> QED
  BY <1>2, <1>3, WeakeningSeen

LEMMA PollSeen ==
  ASSUME TypeOK, NEW w \in Workers, Poll(w), NEW t \in Terminals
  PROVE  Seen(t) /\ row' \in [Terminals -> Row] /\ RowOK(row'[t])
<1>1. \A u \in Terminals : /\ Weakens(row[u], Polled(w)[u])
                           /\ RowOK(Polled(w)[u]) /\ Polled(w)[u] \in Row
  BY PolledWeakens DEF TypeOK, Weakens, RowOK
<1>2. Polled(w) = [u \in Terminals |-> Polled(w)[u]]
  BY DEF Polled
<1>3. Polled(w) \in [Terminals -> Row]
  BY <1>1, <1>2
<1>4. CASE row' = Polled(w) /\ UNCHANGED leasedIn
  BY <1>1, <1>2, <1>4, WeakeningSeen DEF Poll
<1>5. CASE \E u \in Leasable(Polled(w), w) :
             /\ row' = [Polled(w) EXCEPT ![u] = Leased(@, w, @.leases + 1)]
             /\ leasedIn' = [leasedIn EXCEPT ![u] = gen[ProjectOf[u]]]
  <2>1. PICK u \in Leasable(Polled(w), w) :
             /\ row' = [Polled(w) EXCEPT ![u] = Leased(@, w, @.leases + 1)]
             /\ leasedIn' = [leasedIn EXCEPT ![u] = gen[ProjectOf[u]]]
    BY <1>5
  <2>2. /\ u \in Terminals /\ Polled(w)[u].state = "queued" /\ ~Paused(u)
        /\ Cardinality(Load(Polled(w), w)) < Capacity[w]
    BY LeaseAssumption DEF Leasable
  <2> DEFINE q == Leased(Polled(w)[u], w, Polled(w)[u].leases + 1)
  <2>3. Polled(w)[u].leases + 1 \in Nat /\ Polled(w)[u].leases + 1 # 0
    BY <1>1, <2>2 DEF Row
  <2>4. RowOK(q) /\ q \in Row
    BY <1>1, <2>2, <2>3, LeasedOK DEF RowOK
  <2>5. row' = [Polled(w) EXCEPT ![u] = q]
    BY <2>1
  <2> HIDE DEF q
  <2>6. row' \in [Terminals -> Row]
    BY <1>3, <2>4, <2>5
  <2>7. CASE t = u
    <3>1. row'[t] = q
      BY <1>3, <2>5, <2>7
    <3>2. leasedIn'[t] = gen[ProjectOf[t]]
      BY <2>1, <2>7 DEF TypeOK
    <3>4. \A v \in Terminals \ {t} : row'[v] = Polled(w)[v]
      BY <1>3, <2>5, <2>7
    <3>3. LeasedNow(t, w)
      BY <2>2, <2>7, <3>1, <3>2, <3>4 DEF LeasedNow, Poll, q
    <3> QED
      BY <2>4, <2>6, <3>1, <3>3 DEF Seen
  <2>8. CASE t # u
    <3>1. row'[t] = Polled(w)[t] /\ leasedIn'[t] = leasedIn[t]
      BY <1>3, <2>1, <2>5, <2>8 DEF TypeOK
    <3> QED
      BY <1>1, <2>6, <3>1 DEF Poll, Seen, Quiet
  <2> QED
    BY <2>7, <2>8
<1> QED
  BY <1>4, <1>5 DEF Poll

\* An accepted report changes the row of its terminal only.
LEMMA ReportSeen ==
  ASSUME TypeOK, NEW x \in active, NEW q, Accepts(x[1], x[2], x[3]),
         row' = [row EXCEPT ![x[2]] = q],
         RowOK(q), q.state \in Begun,
         q.leases = row[x[2]].leases, q.token \in {0, row[x[2]].token},
         q.worker = row[x[2]].worker,
         reported' = reported \cup {x[2]}, UNCHANGED <<createdIn, leasedIn>>,
         NEW t \in Terminals
  PROVE  Seen(t) /\ row' \in [Terminals -> Row] /\ RowOK(row'[t])
<1>1. x[2] \in Terminals /\ q \in Row
  BY DEF TypeOK, RowOK
<1>2. row' \in [Terminals -> Row]
  BY <1>1 DEF TypeOK
<1>3. CASE t = x[2]
  <2>1. row'[t] = q
    BY <1>3 DEF TypeOK
  <2>2. ReportedNow(t)
    BY <1>3, <2>1 DEF ReportedNow
  <2> QED
    BY <1>2, <2>1, <2>2 DEF Seen
<1>4. CASE t # x[2]
  <2>1. row'[t] = row[t] /\ RowOK(row[t]) /\ (t \in reported' <=> t \in reported)
    BY <1>4 DEF TypeOK
  <2> QED
    BY <1>2, <2>1, Untouched
<1> QED
  BY <1>3, <1>4

LEMMA OutputSeen ==
  ASSUME TypeOK, NEW x \in active, Output(x[1], x[2], x[3]), NEW t \in Terminals
  PROVE  Seen(t) /\ row' \in [Terminals -> Row] /\ RowOK(row'[t])
<1> DEFINE r == row[x[2]]
           q == IF r.state = "starting" THEN WithState(r, "running") ELSE r
<1>1. x[2] \in Terminals /\ RowOK(r)
  BY DEF TypeOK
<1>2. r.state \in Held /\ Accepts(x[1], x[2], x[3])
  BY DEF Output, Accepts
<1>3. row' = [row EXCEPT ![x[2]] = q]
  BY DEF Output
<1>4. CASE r.state = "starting"
  <2>1. /\ RowOK(q) /\ q.state \in Begun /\ q.worker = r.worker
        /\ q.leases = r.leases /\ q.token \in {0, r.token}
    BY <1>1, <1>4, StateRunning DEF Begun
  <2> HIDE DEF q, r
  <2> QED
    BY <1>2, <1>3, <2>1, ReportSeen DEF Output, r
<1>5. CASE r.state # "starting"
  <2>1. row' = [row EXCEPT ![x[2]] = r]
    BY <1>3, <1>5
  <2>2. r.state \in Begun /\ r.token \in {0, r.token}
    BY <1>2, <1>5, RowDefs DEF Begun
  <2>3. reported' = reported \cup {x[2]} /\ UNCHANGED <<createdIn, leasedIn>>
    BY DEF Output
  <2> HIDE DEF r
  <2> QED
    BY <1>1, <1>2, <2>1, <2>2, <2>3, ReportSeen DEF r
<1> QED
  BY <1>4, <1>5

LEMMA ExitSeen ==
  ASSUME TypeOK, NEW x \in active, ExitReported(x[1], x[2], x[3]), NEW t \in Terminals
  PROVE  Seen(t) /\ row' \in [Terminals -> Row] /\ RowOK(row'[t])
<1>1. x[2] \in Terminals /\ RowOK(row[x[2]])
  BY DEF TypeOK
<1>2. PICK s \in Reports : row' = [row EXCEPT ![x[2]] = WithState(@, s)]
  BY DEF ExitReported
<1>3. s \in Final
  BY LeaseAssumption
<1> DEFINE q == WithState(row[x[2]], s)
<1>4. /\ RowOK(q) /\ q.state \in Begun /\ q.leases = row[x[2]].leases
      /\ q.token \in {0, row[x[2]].token} /\ q.worker = row[x[2]].worker
  <2>1. s \in {"cancelling"} \cup Final
    BY <1>3
  <2>2. q.state = s /\ RowOK(q) /\ q.leases = row[x[2]].leases
        /\ q.token \in {0, row[x[2]].token} /\ q.worker = row[x[2]].worker
    BY <1>1, <2>1, StateSet
  <2> QED
    BY <1>3, <2>2 DEF Begun
<1>5. row' = [row EXCEPT ![x[2]] = q]
  BY <1>2
<1> HIDE DEF q
<1> QED
  BY <1>4, <1>5, ReportSeen DEF ExitReported

\* Every step, seen from one terminal.
LEMMA StepSeen ==
  ASSUME TypeOK, [Next]_vars, NEW t \in Terminals
  PROVE  Seen(t) /\ row' \in [Terminals -> Row] /\ RowOK(row'[t])
<1>0. \A u \in Terminals : RowOK(row[u])
  BY DEF TypeOK
<1>1. ASSUME UNCHANGED <<row, createdIn, leasedIn, reported>>
      PROVE  Seen(t) /\ row' \in [Terminals -> Row] /\ RowOK(row'[t])
  BY <1>0, <1>1, Untouched DEF TypeOK
<1>2. ASSUME NEW u \in Terminals, Cancel(u) \/ CheckGivesUp(u)
      PROVE  Seen(t) /\ row' \in [Terminals -> Row] /\ RowOK(row'[t])
  <2>1. /\ row' = [row EXCEPT ![u] = WithState(row[u], "cancelling")]
        /\ UNCHANGED <<createdIn, leasedIn, reported>>
    BY <1>2 DEF Cancel, CheckGivesUp, historyVars
  <2>2. Weakens(row[u], WithState(row[u], "cancelling"))
    BY <1>0, StateSet
  <2> QED
    BY <2>1, <2>2, OneWeakens
<1>3. ASSUME NEW p \in Projects, RevokeProject(p)
      PROVE  Seen(t) /\ row' \in [Terminals -> Row] /\ RowOK(row'[t])
  <2>1. /\ row' = [u \in Terminals |-> IF u \in Revocable(p) THEN Revoked(row[u]) ELSE row[u]]
        /\ UNCHANGED <<createdIn, leasedIn, reported>>
    BY <1>3 DEF RevokeProject, historyVars
  <2>2. \A u \in Terminals : Weakens(row[u], row'[u])
    BY <1>0, <2>1, RevokedWeakens, SameRow
  <2>3. row' = [u \in Terminals |-> row'[u]]
    BY <2>1
  <2> QED
    BY <2>1, <2>2, <2>3, WeakeningSeen
<1>4. ASSUME NEW w \in Workers, RevokeWorker(w)
      PROVE  Seen(t) /\ row' \in [Terminals -> Row] /\ RowOK(row'[t])
  <2>1. /\ row' = [u \in Terminals |-> IF row[u].worker = w THEN Revoked(row[u]) ELSE row[u]]
        /\ UNCHANGED <<createdIn, leasedIn, reported>>
    BY <1>4 DEF RevokeWorker, historyVars
  <2>2. \A u \in Terminals : Weakens(row[u], row'[u])
    BY <1>0, <2>1, RevokedWeakens, SameRow
  <2>3. row' = [u \in Terminals |-> row'[u]]
    BY <2>1
  <2> QED
    BY <2>1, <2>2, <2>3, WeakeningSeen
<1>5. ASSUME NEW u \in Terminals, Lapse(u)
      PROVE  Seen(t) /\ row' \in [Terminals -> Row] /\ RowOK(row'[t])
  <2>1. row[u].lease = "live" /\ row' = [row EXCEPT ![u] = [row[u] EXCEPT !.lease = "lapsed"]]
        /\ UNCHANGED <<createdIn, leasedIn, reported>>
    BY <1>5 DEF Lapse, historyVars
  <2>2. Weakens(row[u], [row[u] EXCEPT !.lease = "lapsed"])
    BY <1>0, <2>1, RowDefs DEF Weakens, RowOK, Row, Begun, Definite
  <2> QED
    BY <2>1, <2>2, OneWeakens
<1>6. CASE ControlPlane
  <2>1. CASE \E u \in Terminals : CheckReturns(u)
    BY <1>1, <2>1 DEF CheckReturns
  <2> QED
    BY <1>2, <1>3, <1>6, <2>1 DEF ControlPlane
<1>7. CASE Users
  <2>1. CASE \E p \in Projects : Pause(p) \/ Resume(p)
    BY <1>1, <2>1 DEF Pause, Resume, historyVars
  <2> QED
    BY <1>2, <1>4, <1>7, <2>1, CreateSeen DEF Users
<1>8. CASE Faults
  <2>1. CASE Crash \/ \E x \in active : ExitUnreported(x[1], x[2], x[3])
    BY <1>1, <2>1 DEF Crash, ExitUnreported, historyVars
  <2> QED
    BY <1>5, <1>8, <2>1 DEF Faults
<1>9. CASE UNCHANGED vars
  BY <1>1, <1>9 DEF vars, historyVars
<1> QED
  BY <1>6, <1>7, <1>8, <1>9, PollSeen, OutputSeen, ExitSeen DEF Next, Report

-----------------------------------------------------------------------------
(* Types *)

\* TypeOK without the rows.
OthersTyped ==
    /\ status \in [Projects -> {"active", "paused"}]
    /\ gen \in [Projects -> Nat] /\ \A p \in Projects : gen[p] <= MaxGen[p]
    /\ revoked \subseteq Workers
    /\ revoking \in [Projects -> Nat]
    /\ waiting \subseteq Checks
    /\ active \subseteq Workers \X Terminals \X Nat
    /\ createdIn \in [Terminals -> Nat] /\ leasedIn \in [Terminals -> Nat]
    /\ reported \subseteq Terminals
    /\ passed \subseteq Checks

LEMMA TypeParts ==
  TypeOK <=> OthersTyped /\ row \in [Terminals -> Row] /\ \A t \in Terminals : RowOK(row[t])
  BY DEF TypeOK, OthersTyped

LEMMA GenOfTerminal ==
  ASSUME OthersTyped, NEW t \in Terminals
  PROVE  ProjectOf[t] \in Projects /\ gen[ProjectOf[t]] \in Nat
  BY LeaseAssumption DEF OthersTyped

LEMMA PollTyped ==
  ASSUME TypeOK, row' \in [Terminals -> Row], NEW w \in Workers, Poll(w)
  PROVE  OthersTyped'
<1>1. OthersTyped /\ UNCHANGED <<status, gen, revoked, revoking, waiting, createdIn, reported, passed>>
  BY TypeParts DEF Poll, projectVars
<1>2. CASE UNCHANGED <<leasedIn, active>>
  BY <1>1, <1>2 DEF OthersTyped
<1>3. CASE \E t \in Leasable(Polled(w), w) :
             /\ leasedIn' = [leasedIn EXCEPT ![t] = gen[ProjectOf[t]]]
             /\ \/ active' = active \cup {<<w, t, row'[t].token>>}
                \/ UNCHANGED active
  <2>1. PICK t \in Leasable(Polled(w), w) :
             /\ leasedIn' = [leasedIn EXCEPT ![t] = gen[ProjectOf[t]]]
             /\ \/ active' = active \cup {<<w, t, row'[t].token>>}
                \/ UNCHANGED active
    BY <1>3
  <2>2. t \in Terminals
    BY LeaseAssumption DEF Leasable
  <2>3. row'[t].token \in Nat
    BY <2>2 DEF Row
  <2>4. active' \subseteq Workers \X Terminals \X Nat
    BY <1>1, <2>1, <2>2, <2>3 DEF OthersTyped
  <2>5. leasedIn' \in [Terminals -> Nat]
    BY <1>1, <2>1, <2>2, GenOfTerminal DEF OthersTyped
  <2> QED
    BY <1>1, <2>4, <2>5 DEF OthersTyped
<1> QED
  BY <1>2, <1>3 DEF Poll

LEMMA OthersStep ==
  ASSUME TypeOK, row' \in [Terminals -> Row], [Next]_vars
  PROVE  OthersTyped'
<1>0. OthersTyped
  BY TypeParts
<1>1. ASSUME NEW t \in Terminals, Create(t) PROVE OthersTyped'
  <2>1. createdIn' \in [Terminals -> Nat]
    BY <1>0, <1>1, GenOfTerminal DEF Create, OthersTyped
  <2> QED
    BY <1>0, <1>1, <2>1 DEF Create, OthersTyped, projectVars
<1>2. ASSUME NEW t \in Terminals, Cancel(t) \/ CheckGivesUp(t) \/ CheckReturns(t) \/ Lapse(t)
      PROVE  OthersTyped'
  BY <1>0, <1>2 DEF Cancel, CheckGivesUp, CheckReturns, Lapse, OthersTyped, projectVars, historyVars
<1>3. ASSUME NEW p \in Projects, Pause(p) PROVE OthersTyped'
  <2>1. /\ status' \in [Projects -> {"active", "paused"}]
        /\ gen' \in [Projects -> Nat] /\ revoking' \in [Projects -> Nat]
    BY <1>0, <1>3 DEF Pause, OthersTyped
  <2>2. \A q \in Projects : gen'[q] <= MaxGen[q]
    <3>1. gen[p] < MaxGen[p] /\ gen' = [gen EXCEPT ![p] = @ + 1]
      BY <1>3 DEF Pause
    <3>2. gen[p] \in Nat /\ MaxGen[p] \in Nat
      BY <1>0, LeaseAssumption DEF OthersTyped
    <3>3. gen'[p] <= MaxGen[p]
      BY <1>0, <3>1, <3>2 DEF OthersTyped
    <3> QED
      BY <1>0, <3>1, <3>3 DEF OthersTyped
  <2> QED
    BY <1>0, <1>3, <2>1, <2>2 DEF Pause, OthersTyped, historyVars
<1>4. ASSUME NEW p \in Projects, RevokeProject(p) PROVE OthersTyped'
  <2>1. revoking' \in [Projects -> Nat]
    BY <1>0, <1>4 DEF RevokeProject, OthersTyped
  <2> QED
    BY <1>0, <1>4, <2>1 DEF RevokeProject, OthersTyped, projectVars, historyVars
<1>5. ASSUME NEW p \in Projects, Resume(p) PROVE OthersTyped'
  BY <1>0, <1>5 DEF Resume, OthersTyped, historyVars
<1>6. ASSUME NEW w \in Workers, RevokeWorker(w) PROVE OthersTyped'
  BY <1>0, <1>6 DEF RevokeWorker, OthersTyped, projectVars, historyVars
<1>7. CASE Crash
  BY <1>0, <1>7 DEF Crash, OthersTyped, projectVars, historyVars
<1>8. ASSUME NEW x \in active,
             \/ Output(x[1], x[2], x[3]) \/ ExitReported(x[1], x[2], x[3])
             \/ ExitUnreported(x[1], x[2], x[3])
      PROVE  OthersTyped'
  <2>1. x[2] \in Terminals
    BY <1>0 DEF OthersTyped
  <2> QED
    BY <1>0, <1>8, <2>1 DEF Output, ExitReported, ExitUnreported, OthersTyped, projectVars, historyVars
<1>9. CASE UNCHANGED vars
  BY <1>0, <1>9 DEF vars, OthersTyped, projectVars, historyVars
<1> QED
  BY <1>1, <1>2, <1>3, <1>4, <1>5, <1>6, <1>7, <1>8, <1>9, PollTyped
     DEF Next, ControlPlane, Users, Faults, Report

LEMMA InitTyped == Init => TypeOK
<1> SUFFICES ASSUME Init PROVE TypeOK
  OBVIOUS
<1>1. Absent \in Row /\ RowOK(Absent)
  BY RowDefs DEF Absent, RowOK, Row
<1>2. OthersTyped
  BY LeaseAssumption DEF Init, OthersTyped
<1> QED
  BY <1>1, <1>2, TypeParts DEF Init

LEMMA NextTyped == TypeOK /\ [Next]_vars => TypeOK'
<1> SUFFICES ASSUME TypeOK, [Next]_vars PROVE TypeOK'
  OBVIOUS
<1>1. row' \in [Terminals -> Row]
  BY StepSeen, LeaseAssumption
<1>2. \A t \in Terminals : RowOK(row'[t])
  BY StepSeen
<1>3. OthersTyped'
  BY <1>1, OthersStep
<1> QED
  BY <1>1, <1>2, <1>3 DEF TypeOK, OthersTyped

\* In every reachable state the variables have their types and every session
\* row its shape: no operation of the store, in any order, leaves a queued or
\* finished session with a lease, or a started one without its token.
THEOREM TypeCorrect == Spec => []TypeOK
  BY InitTyped, NextTyped, PTL DEF Spec

-----------------------------------------------------------------------------
(* Reported work is never replayed *)

\* A session a report was accepted for has begun and was leased; executions
\* carry a token that is not NULL.
ReportsInv ==
    /\ \A t \in reported : row[t].state \in Begun /\ row[t].leases # 0
    /\ \A x \in active : x[3] # 0

LEMMA BegunStates ==
  ASSUME NEW s \in Begun
  PROVE  s # "absent" /\ s # "queued" /\ s # "starting"
  BY DEF Begun, Final

\* An accepted report comes from a session that is leased.
LEMMA AcceptedIsLeased ==
  ASSUME TypeOK, ReportsInv, NEW t \in Terminals, ReportedNow(t)
  PROVE  row[t].leases # 0
  BY DEF ReportedNow, Accepts, ReportsInv, TypeOK, RowOK

\* A session that has begun cannot be leased.
LEMMA BegunIsNotLeased ==
  ASSUME TypeOK, NEW t \in Terminals, row[t].state \in Begun, NEW w, LeasedNow(t, w)
  PROVE  FALSE
<1>1. Polled(w)[t].state \in Begun
  BY PolledWeakens DEF TypeOK, Weakens
<1> QED
  BY <1>1, BegunStates DEF LeasedNow

\* The rows of reported terminals, after a step.
LEMMA ReportedStep ==
  ASSUME TypeOK, ReportsInv, [Next]_vars, NEW t \in Terminals
  PROVE  /\ t \in reported => row'[t].leases = row[t].leases /\ t \in reported'
         /\ t \in reported' => row'[t].state \in Begun /\ row'[t].leases # 0
<1>1. Seen(t)
  BY StepSeen
<1>2. CASE Quiet(t)
  BY <1>2 DEF Quiet, Weakens, ReportsInv
<1>3. CASE CreatedNow(t)
  <2>1. t \notin reported
    BY <1>3, BegunStates DEF CreatedNow, ReportsInv
  <2> QED
    BY <1>3, <2>1 DEF CreatedNow
<1>4. CASE \E w \in Workers : LeasedNow(t, w)
  <2>1. t \notin reported
    BY <1>4, BegunIsNotLeased DEF ReportsInv
  <2> QED
    BY <1>4, <2>1 DEF LeasedNow
<1>5. CASE ReportedNow(t)
  BY <1>5, AcceptedIsLeased DEF ReportedNow
<1> QED
  BY <1>1, <1>2, <1>3, <1>4, <1>5 DEF Seen

LEMMA ActiveStep ==
  ASSUME TypeOK, ReportsInv, [Next]_vars
  PROVE  \A x \in active' : x[3] # 0
<1>1. ASSUME NEW w \in Workers, Poll(w) PROVE \A x \in active' : x[3] # 0
  <2>1. CASE UNCHANGED active
    BY <2>1 DEF ReportsInv
  <2>2. CASE \E t \in Leasable(Polled(w), w) :
               /\ row' = [Polled(w) EXCEPT ![t] = Leased(@, w, @.leases + 1)]
               /\ active' = active \cup {<<w, t, row'[t].token>>}
    <3>1. PICK t \in Leasable(Polled(w), w) :
               /\ row' = [Polled(w) EXCEPT ![t] = Leased(@, w, @.leases + 1)]
               /\ active' = active \cup {<<w, t, row'[t].token>>}
      BY <2>2
    <3>2. t \in Terminals /\ Polled(w)[t].state = "queued"
      BY LeaseAssumption DEF Leasable
    <3>3. RowOK(Polled(w)[t]) /\ Polled(w)[t].leases \in Nat
      BY <3>2, PolledWeakens DEF TypeOK, Weakens, RowOK, Row
    <3>4. row'[t] = Leased(Polled(w)[t], w, Polled(w)[t].leases + 1)
      BY <3>1, <3>2 DEF Polled
    <3>5. Polled(w)[t].leases + 1 \in Nat /\ Polled(w)[t].leases + 1 # 0
      BY <3>3
    <3>6. row'[t].token # 0
      BY <3>2, <3>3, <3>4, <3>5, LeasedOK
    <3> QED
      BY <3>1, <3>6 DEF ReportsInv
  <2> QED
    BY <1>1, <2>1, <2>2 DEF Poll
<1>2. ASSUME active' \subseteq active PROVE \A x \in active' : x[3] # 0
  BY <1>2 DEF ReportsInv
<1>3. CASE ControlPlane
  BY <1>2, <1>3 DEF ControlPlane, CheckGivesUp, CheckReturns, RevokeProject
<1>4. CASE Users
  BY <1>2, <1>4 DEF Users, Create, Cancel, Pause, Resume, RevokeWorker
<1>5. CASE Faults
  BY <1>2, <1>5 DEF Faults, Crash, Lapse, ExitUnreported
<1>6. CASE \E x \in active : Report(x)
  BY <1>2, <1>6 DEF Report, Output, ExitReported
<1>7. CASE UNCHANGED vars
  BY <1>2, <1>7 DEF vars
<1> QED
  BY <1>1, <1>3, <1>4, <1>5, <1>6, <1>7 DEF Next

LEMMA ReportsInvInvariant == Spec => []ReportsInv
<1>1. Init => ReportsInv
  BY DEF Init, ReportsInv
<1>2. ASSUME TypeOK, ReportsInv, [Next]_vars PROVE ReportsInv'
  <2>1. reported' \subseteq Terminals
    BY <1>2, NextTyped DEF TypeOK
  <2> QED
    BY <1>2, <2>1, ReportedStep, ActiveStep DEF ReportsInv
<1> QED
  BY <1>1, <1>2, TypeCorrect, PTL DEF Spec

\* Once a report of a worker was accepted no expiry, revocation, cancel or
\* restart ever leases the session again.
THEOREM NeverReplayed == Spec => ReportedWorkIsNeverReplayed
<1>1. ASSUME TypeOK, ReportsInv, [Next]_vars
      PROVE  [\A t \in reported : row'[t].leases = row[t].leases]_vars
  BY <1>1, ReportedStep DEF TypeOK
<1> QED
  BY <1>1, TypeCorrect, ReportsInvInvariant, PTL DEF Spec, ReportedWorkIsNeverReplayed

-----------------------------------------------------------------------------
(* Fences *)

\* P-FENCE for every schedule: while its project is paused a session is not
\* leased, no report of it is accepted and it gets no result.
THEOREM PauseFences == Spec => PausedSessionsAreFenced
<1>1. ASSUME TypeOK, [Next]_vars, NEW t \in Terminals, Paused(t)
      PROVE  /\ row'[t].leases = row[t].leases
             /\ t \in reported' => t \in reported
             /\ row'[t].state \in {"starting", "running", "succeeded", "timed_out"}
                   => row'[t].state = row[t].state
  <2>1. Seen(t)
    BY <1>1, StepSeen
  <2>2. Quiet(t)
    BY <1>1, <2>1 DEF Seen, CreatedNow, LeasedNow, ReportedNow, Accepts
  <2> QED
    BY <2>2 DEF Quiet, Weakens, Definite
<1>2. ASSUME TypeOK, [Next]_vars
      PROVE  [\A t \in Terminals : Paused(t) =>
                /\ row'[t].leases = row[t].leases
                /\ t \in reported' => t \in reported
                /\ row'[t].state \in {"starting", "running", "succeeded", "timed_out"}
                      => row'[t].state = row[t].state]_vars
  BY <1>1, <1>2
<1> QED
  BY <1>2, TypeCorrect, PTL DEF Spec, PausedSessionsAreFenced

\* P-ISO for every assignment of terminals to projects and workers: a pause
\* changes no session of another project.
THEOREM PauseIsolates == Spec => PauseIsIsolated
<1>1. ASSUME TypeOK, [Next]_vars, NEW p \in Projects,
             status'[p] # status[p] \/ revoking'[p] < revoking[p],
             NEW t \in Terminals, ProjectOf[t] # p
      PROVE  row'[t] = row[t]
  <2>1. revoking[p] \in Nat /\ ~(revoking[p] < revoking[p])
    BY <1>1 DEF TypeOK
  <2>2. CASE ControlPlane
    <3>1. PICK q \in Projects : RevokeProject(q)
      BY <1>1, <2>1, <2>2 DEF ControlPlane, CheckGivesUp, CheckReturns, projectVars
    <3>2. p = q
      BY <1>1, <2>1, <3>1 DEF RevokeProject, projectVars, TypeOK
    <3> QED
      BY <1>1, <3>1, <3>2 DEF RevokeProject, Revocable
  <2>3. CASE Users
    <3>1. \E q \in Projects : Pause(q) \/ Resume(q)
      BY <1>1, <2>1, <2>3 DEF Users, Create, Cancel, RevokeWorker, projectVars
    <3> QED
      BY <3>1 DEF Pause, Resume
  <2>4. CASE Faults
    <3>1. Crash
      BY <1>1, <2>1, <2>4 DEF Faults, Lapse, ExitUnreported, projectVars
    <3> QED
      BY <3>1 DEF Crash
  <2>5. CASE (\E w \in Workers : Poll(w)) \/ (\E x \in active : Report(x))
    BY <1>1, <2>1, <2>5 DEF Poll, Report, Output, ExitReported, projectVars
  <2>6. CASE UNCHANGED vars
    BY <1>1, <2>1, <2>6 DEF vars, projectVars
  <2> QED
    BY <1>1, <2>2, <2>3, <2>4, <2>5, <2>6 DEF Next
<1>2. ASSUME TypeOK, [Next]_vars
      PROVE  [\A p \in Projects :
                status'[p] # status[p] \/ revoking'[p] < revoking[p]
                => \A t \in Terminals : ProjectOf[t] # p => row'[t] = row[t]]_vars
  BY <1>1, <1>2
<1> QED
  BY <1>2, TypeCorrect, PTL DEF Spec, PauseIsIsolated

LEMMA RevokedStep ==
  ASSUME TypeOK, RevokedWorkersHoldNoLease, [Next]_vars, NEW t \in Terminals,
         row'[t].worker \in revoked'
  PROVE  row'[t].token = 0
<1>1. RowOK(row[t]) /\ RowOK(row'[t]) /\ Seen(t)
  BY StepSeen DEF TypeOK
<1>2. ASSUME NEW w \in Workers, RevokeWorker(w) PROVE row'[t].token = 0
  <2>1. revoked' = revoked \cup {w}
        /\ row'[t] = IF row[t].worker = w THEN Revoked(row[t]) ELSE row[t]
    BY <1>2 DEF RevokeWorker
  <2>2. CASE row[t].worker = w
    <3>1. Weakens(row[t], row'[t]) /\ (row[t].state \in Held => row'[t].token = 0)
      BY <1>1, <2>1, <2>2, RevokedWeakens
    <3>2. row[t].state \notin Held => row[t].token = 0
      BY <1>1 DEF RowOK
    <3> QED
      BY <3>1, <3>2 DEF Weakens
  <2>3. CASE row[t].worker # w
    BY <2>1, <2>3 DEF RevokedWorkersHoldNoLease
  <2> QED
    BY <2>2, <2>3
<1>3. ASSUME revoked' = revoked PROVE row'[t].token = 0
  <2>1. CASE Quiet(t)
    BY <1>3, <2>1 DEF Quiet, Weakens, RevokedWorkersHoldNoLease
  <2>2. CASE CreatedNow(t)
    BY <1>1, <2>2 DEF CreatedNow, RowOK, Row, Held
  <2>3. CASE \E w \in Workers : LeasedNow(t, w)
    <3>1. PICK w \in Workers : LeasedNow(t, w)
      BY <2>3
    <3>2. RowOK(Polled(w)[t]) /\ Polled(w)[t].leases \in Nat
      BY <1>1, PolledWeakens DEF Weakens, RowOK, Row
    <3>3. Polled(w)[t].leases + 1 \in Nat /\ Polled(w)[t].leases + 1 # 0
      BY <3>2
    <3>4. row'[t].worker = w
      BY <3>1, <3>2, <3>3, LeasedOK DEF LeasedNow
    <3> QED
      BY <1>3, <3>1, <3>4 DEF LeasedNow
  <2>4. CASE ReportedNow(t)
    BY <1>3, <2>4 DEF ReportedNow, RevokedWorkersHoldNoLease
  <2> QED
    BY <1>1, <2>1, <2>2, <2>3, <2>4 DEF Seen
<1>4. CASE ControlPlane
  BY <1>3, <1>4 DEF ControlPlane, CheckGivesUp, CheckReturns, RevokeProject
<1>5. CASE Users
  BY <1>2, <1>3, <1>5 DEF Users, Create, Cancel, Pause, Resume
<1>6. CASE Faults
  BY <1>3, <1>6 DEF Faults, Crash, Lapse, ExitUnreported
<1>7. CASE (\E w \in Workers : Poll(w)) \/ (\E x \in active : Report(x))
  BY <1>3, <1>7 DEF Poll, Report, Output, ExitReported
<1>8. CASE UNCHANGED vars
  BY <1>3, <1>8 DEF vars
<1> QED
  BY <1>4, <1>5, <1>6, <1>7, <1>8 DEF Next

\* No session keeps, or is ever given, a token of a revoked worker.
THEOREM RevocationIsFinal == Spec => []RevokedWorkersHoldNoLease
<1>1. Init => RevokedWorkersHoldNoLease
  BY DEF Init, RevokedWorkersHoldNoLease
<1>2. ASSUME TypeOK, RevokedWorkersHoldNoLease, [Next]_vars PROVE RevokedWorkersHoldNoLease'
  BY <1>2, RevokedStep DEF RevokedWorkersHoldNoLease
<1> QED
  BY <1>1, <1>2, TypeCorrect, PTL DEF Spec

-----------------------------------------------------------------------------
(* Passed checks *)

\* The generations of a session are ordered: captured, then leased, then now.
Ordered(t) ==
    /\ row[t].state = "absent" => row[t].leases = 0
    /\ createdIn[t] <= gen[ProjectOf[t]]
    /\ row[t].leases # 0 => createdIn[t] <= leasedIn[t] /\ leasedIn[t] <= gen[ProjectOf[t]]

GenerationsInv ==
    /\ \A t \in Terminals : Ordered(t)
    /\ \A t \in Terminals : row[t].state = "succeeded" => t \in reported

LEMMA GenGrows ==
  ASSUME TypeOK, [Next]_vars, NEW p \in Projects
  PROVE  gen'[p] >= gen[p] /\ gen[p] \in Nat /\ gen'[p] \in Nat
<1>1. gen \in [Projects -> Nat] /\ gen' \in [Projects -> Nat]
  BY NextTyped DEF TypeOK
<1>2. ASSUME gen' = gen PROVE gen'[p] >= gen[p]
  BY <1>1, <1>2
<1>3. ASSUME NEW q \in Projects, Pause(q) PROVE gen'[p] >= gen[p]
  <2>1. gen' = [gen EXCEPT ![q] = gen[q] + 1]
    BY <1>3 DEF Pause
  <2> QED
    BY <1>1, <2>1
<1>4. CASE ControlPlane \/ Faults
  BY <1>1, <1>2, <1>4 DEF ControlPlane, CheckGivesUp, CheckReturns, RevokeProject,
     Faults, Crash, Lapse, ExitUnreported, projectVars
<1>5. CASE Users
  BY <1>1, <1>2, <1>3, <1>5 DEF Users, Create, Cancel, Resume, RevokeWorker, projectVars
<1>6. CASE (\E w \in Workers : Poll(w)) \/ (\E x \in active : Report(x))
  BY <1>1, <1>2, <1>6 DEF Poll, Report, Output, ExitReported, projectVars
<1>7. CASE UNCHANGED vars
  BY <1>1, <1>2, <1>7 DEF vars, projectVars
<1> QED
  BY <1>1, <1>4, <1>5, <1>6, <1>7 DEF Next

LEMMA OrderedStep ==
  ASSUME TypeOK, ReportsInv, GenerationsInv, [Next]_vars, NEW t \in Terminals
  PROVE  Ordered(t)' /\ (row'[t].state = "succeeded" => t \in reported')
<1> DEFINE p == ProjectOf[t]
<1>1. /\ p \in Projects /\ gen'[p] >= gen[p] /\ gen[p] \in Nat /\ gen'[p] \in Nat
      /\ createdIn[t] \in Nat /\ leasedIn[t] \in Nat
  BY GenGrows, LeaseAssumption DEF TypeOK
<1>2. Seen(t) /\ Ordered(t) /\ RowOK(row[t])
  BY StepSeen DEF GenerationsInv, TypeOK
<1>3. CASE Quiet(t)
  <2>1. /\ row'[t].leases = row[t].leases /\ createdIn'[t] = createdIn[t]
        /\ leasedIn'[t] = leasedIn[t] /\ (t \in reported' <=> t \in reported)
        /\ row'[t].state \in {"absent", "succeeded"} => row'[t].state = row[t].state
    BY <1>3 DEF Quiet, Weakens, Definite
  <2> QED
    BY <1>1, <1>2, <2>1 DEF Ordered, GenerationsInv
<1>4. CASE CreatedNow(t)
  <2>1. row'[t].leases = row[t].leases /\ row'[t].state = "queued"
    BY <1>2, <1>4 DEF CreatedNow, RowOK, Row
  <2>2. row[t].leases = 0
    BY <1>2, <1>4 DEF CreatedNow, Ordered
  <2> QED
    BY <1>1, <1>4, <2>1, <2>2 DEF CreatedNow, Ordered
<1>5. CASE \E w \in Workers : LeasedNow(t, w)
  <2>1. PICK w \in Workers : LeasedNow(t, w)
    BY <1>5
  <2>2. RowOK(Polled(w)[t]) /\ Polled(w)[t].leases \in Nat
    BY <1>2, PolledWeakens DEF Weakens, RowOK, Row
  <2>3. Polled(w)[t].leases + 1 \in Nat /\ Polled(w)[t].leases + 1 # 0
    BY <2>2
  <2>4. row'[t].state = "starting"
    BY <2>1, <2>2, <2>3, LeasedOK DEF LeasedNow
  <2>5. createdIn'[t] = createdIn[t] /\ leasedIn'[t] = gen[p]
    BY <2>1 DEF LeasedNow
  <2> QED
    BY <1>1, <1>2, <2>4, <2>5 DEF Ordered
<1>6. CASE ReportedNow(t)
  <2>1. /\ row'[t].leases = row[t].leases /\ createdIn'[t] = createdIn[t]
        /\ leasedIn'[t] = leasedIn[t] /\ t \in reported' /\ row'[t].state \in Begun
    BY <1>6 DEF ReportedNow
  <2> QED
    BY <1>1, <1>2, <2>1, BegunStates DEF Ordered
<1> QED
  BY <1>2, <1>3, <1>4, <1>5, <1>6 DEF Seen

LEMMA GenerationsInvInvariant == Spec => []GenerationsInv
<1>1. Init => GenerationsInv
  BY LeaseAssumption DEF Init, GenerationsInv, Ordered, Absent
<1>2. ASSUME TypeOK, ReportsInv, GenerationsInv, [Next]_vars PROVE GenerationsInv'
  BY <1>2, OrderedStep DEF GenerationsInv, Ordered
<1> QED
  BY <1>1, <1>2, TypeCorrect, ReportsInvInvariant, PTL DEF Spec

LEMMA PassedStep ==
  ASSUME TypeOK, ReportsInv, GenerationsInv, PassedChecksAreFenced, [Next]_vars,
         NEW t \in passed'
  PROVE  t \in reported' /\ leasedIn'[t] = createdIn'[t]
<1>1. t \in Terminals
  BY NextTyped, LeaseAssumption DEF TypeOK
<1>2. CASE t \in passed
  <2>1. t \in reported /\ leasedIn[t] = createdIn[t]
    BY <1>2 DEF PassedChecksAreFenced
  <2>2. t \in reported'
    BY <1>1, <2>1, ReportedStep
  <2>3. ~CreatedNow(t)
    BY <2>1, BegunStates DEF CreatedNow, ReportsInv
  <2>4. \A w \in Workers : ~LeasedNow(t, w)
    BY <1>1, <2>1, BegunIsNotLeased DEF ReportsInv
  <2>5. leasedIn'[t] = leasedIn[t] /\ createdIn'[t] = createdIn[t]
    BY <1>1, <2>3, <2>4, StepSeen DEF Seen, Quiet, ReportedNow
  <2> QED
    BY <2>1, <2>2, <2>5
<1>3. CASE t \notin passed
  <2>1. CheckReturns(t) /\ row[t].state = "succeeded"
    <3>1. CASE ControlPlane
      BY <1>3, <3>1 DEF ControlPlane, CheckGivesUp, CheckReturns, RevokeProject, historyVars
    <3>2. CASE Users \/ Faults
      BY <1>3, <3>2 DEF Users, Create, Cancel, Pause, Resume, RevokeWorker,
         Faults, Crash, Lapse, ExitUnreported, historyVars
    <3>3. CASE (\E w \in Workers : Poll(w)) \/ (\E x \in active : Report(x))
      BY <1>3, <3>3 DEF Poll, Report, Output, ExitReported
    <3>4. CASE UNCHANGED vars
      BY <1>3, <3>4 DEF vars, historyVars
    <3> QED
      BY <3>1, <3>2, <3>3, <3>4 DEF Next
  <2>2. t \in reported /\ row[t].leases # 0 /\ Ordered(t)
    BY <1>1, <2>1 DEF GenerationsInv, ReportsInv
  <2>3. /\ gen[ProjectOf[t]] = createdIn[t] /\ gen[ProjectOf[t]] \in Nat
        /\ createdIn[t] \in Nat /\ leasedIn[t] \in Nat
    BY <1>1, <2>1, LeaseAssumption DEF CheckReturns, Fenced, TypeOK
  <2>4. leasedIn[t] = createdIn[t]
    BY <2>2, <2>3 DEF Ordered
  <2> QED
    BY <2>1, <2>2, <2>4 DEF CheckReturns
<1> QED
  BY <1>2, <1>3

\* A check passes only on a command that ran under a lease taken in the very
\* generation that started the check.
THEOREM ChecksAreFenced == Spec => []PassedChecksAreFenced
<1>1. Init => PassedChecksAreFenced
  BY DEF Init, PassedChecksAreFenced
<1>2. ASSUME TypeOK, ReportsInv, GenerationsInv, PassedChecksAreFenced, [Next]_vars
      PROVE  PassedChecksAreFenced'
  BY <1>2, PassedStep DEF PassedChecksAreFenced
<1> QED
  BY <1>1, <1>2, TypeCorrect, ReportsInvInvariant, GenerationsInvInvariant, PTL DEF Spec

-----------------------------------------------------------------------------
(* Capacity *)

\* The sessions whose valid token worker w holds.
Tokens(w) == {t \in Terminals : row[t].worker = w /\ row[t].token # 0}

\* A lease to w: the tokens w holds after it are the new one and some of the
\* sessions that were counted against its capacity.
LEMMA TokensAfterLease ==
  ASSUME TypeOK, NEW w \in Workers, NEW t \in Terminals, LeasedNow(t, w)
  PROVE  Tokens(w)' \subseteq Load(Polled(w), w) \cup {t}
<1>1. SUFFICES ASSUME NEW u \in Terminals \ {t}, row'[u].worker = w, row'[u].token # 0
               PROVE  u \in Load(Polled(w), w)
  BY DEF Tokens
<1>2. row'[u] = Polled(w)[u]
  BY <1>1 DEF LeasedNow
<1>3. RowOK(Polled(w)[u])
  BY PolledWeakens DEF TypeOK, Weakens
<1> QED
  BY <1>1, <1>2, <1>3 DEF RowOK, Load, HeldBy

\* Any other step: w gets no token.
LEMMA TokensOtherwise ==
  ASSUME TypeOK, [Next]_vars, NEW w \in Workers,
         \A t \in Terminals : ~LeasedNow(t, w)
  PROVE  Tokens(w)' \subseteq Tokens(w)
<1>1. SUFFICES ASSUME NEW t \in Terminals, row'[t].worker = w, row'[t].token # 0
               PROVE  row[t].worker = w /\ row[t].token # 0
  BY DEF Tokens
<1>2. Seen(t) /\ RowOK(row[t])
  BY StepSeen DEF TypeOK
<1>3. CASE Quiet(t)
  BY <1>1, <1>3 DEF Quiet, Weakens
<1>4. CASE CreatedNow(t)
  BY <1>1, <1>2, <1>4 DEF CreatedNow, RowOK, Row, Held
<1>5. CASE \E v \in Workers : LeasedNow(t, v)
  <2>1. PICK v \in Workers : LeasedNow(t, v)
    BY <1>5
  <2>2. RowOK(Polled(v)[t]) /\ Polled(v)[t].leases \in Nat
    BY <1>2, PolledWeakens DEF Weakens, RowOK, Row
  <2>3. Polled(v)[t].leases + 1 \in Nat /\ Polled(v)[t].leases + 1 # 0
    BY <2>2
  <2>4. row'[t].worker = v
    BY <2>1, <2>2, <2>3, LeasedOK DEF LeasedNow
  <2> QED
    BY <1>1, <2>1, <2>4
<1>6. CASE ReportedNow(t)
  BY <1>1, <1>6 DEF ReportedNow
<1> QED
  BY <1>2, <1>3, <1>4, <1>5, <1>6 DEF Seen

LEMMA CapacityStep ==
  ASSUME TypeOK, LeasesWithinCapacity, [Next]_vars, NEW w \in Workers
  PROVE  Cardinality(Tokens(w)') <= Capacity[w]
<1>1. Capacity[w] \in Nat /\ IsFiniteSet(Terminals)
  BY LeaseAssumption
<1>2. CASE \E t \in Terminals : LeasedNow(t, w)
  <2>1. PICK t \in Terminals : LeasedNow(t, w)
    BY <1>2
  <2> DEFINE L == Load(Polled(w), w)
  <2>2. L \subseteq Terminals /\ Cardinality(L) < Capacity[w]
    BY <2>1 DEF LeasedNow, Load, HeldBy
  <2> HIDE DEF L
  <2>3. IsFiniteSet(L) /\ Cardinality(L) \in Nat
    BY <1>1, <2>2, FS_Subset, FS_CardinalityType
  <2>4. IsFiniteSet(L \cup {t}) /\ Cardinality(L \cup {t}) <= Cardinality(L) + 1
    <3>1. /\ IsFiniteSet(L \cup {t})
          /\ Cardinality(L \cup {t}) = IF t \in L THEN Cardinality(L) ELSE Cardinality(L) + 1
      BY <2>3, FS_AddElement
    <3>2. CASE t \in L
      BY <2>3, <3>1, <3>2
    <3>3. CASE t \notin L
      BY <2>3, <3>1, <3>3
    <3> QED
      BY <3>2, <3>3
  <2>5. Tokens(w)' \subseteq L \cup {t}
    BY <2>1, TokensAfterLease DEF L
  <2>6. IsFiniteSet(Tokens(w)') /\ Cardinality(Tokens(w)') <= Cardinality(L \cup {t})
    BY <2>4, <2>5, FS_Subset
  <2>7. Cardinality(Tokens(w)') \in Nat /\ Cardinality(L \cup {t}) \in Nat
    BY <2>4, <2>6, FS_CardinalityType
  <2> QED
    BY <1>1, <2>2, <2>3, <2>4, <2>6, <2>7
<1>3. CASE ~(\E t \in Terminals : LeasedNow(t, w))
  <2>1. Tokens(w)' \subseteq Tokens(w)
    BY <1>3, TokensOtherwise
  <2>2. IsFiniteSet(Tokens(w)) /\ Cardinality(Tokens(w)) <= Capacity[w]
    BY <1>1, FS_Subset DEF Tokens, LeasesWithinCapacity
  <2>3. IsFiniteSet(Tokens(w)') /\ Cardinality(Tokens(w)') <= Cardinality(Tokens(w))
    BY <2>1, <2>2, FS_Subset
  <2>4. Cardinality(Tokens(w)') \in Nat /\ Cardinality(Tokens(w)) \in Nat
    BY <2>2, <2>3, FS_CardinalityType
  <2> QED
    BY <1>1, <2>2, <2>3, <2>4
<1> QED
  BY <1>2, <1>3

\* However leases lapse, are revived, requeued or revoked, a worker never holds
\* more valid tokens than it has capacity for.
THEOREM CapacityIsKept == Spec => []LeasesWithinCapacity
<1>1. Init => LeasesWithinCapacity
  <2> SUFFICES ASSUME Init, NEW w \in Workers PROVE Cardinality(Tokens(w)) <= Capacity[w]
    BY DEF LeasesWithinCapacity, Tokens
  <2>1. Tokens(w) = {}
    BY DEF Init, Tokens, Absent
  <2> QED
    <3>1. Capacity[w] \in Nat /\ Cardinality({}) = 0
      BY LeaseAssumption, FS_EmptySet
    <3> QED
      BY <2>1, <3>1
<1>2. ASSUME TypeOK, LeasesWithinCapacity, [Next]_vars PROVE LeasesWithinCapacity'
  BY <1>2, CapacityStep DEF LeasesWithinCapacity, Tokens
<1> QED
  BY <1>1, <1>2, TypeCorrect, PTL DEF Spec
=============================================================================
