--------------------------- MODULE WorkerRotation ---------------------------
(***************************************************************************)
(* Two-phase rotation of a worker's two credentials: its bearer            *)
(* (WorkerTokenAuthority, rotateOperatorWorkerToken) and its mTLS          *)
(* certificate (WorkerCertificateAuthority, rotateOperatorWorker-          *)
(* Certificate).  The control plane keeps a current and a pending value    *)
(* per factor in the worker's row; the operator's machine stores the value *)
(* the worker process loads when it starts (the vault for the bearer, the  *)
(* protected environment for the certificate paths); a command moves both  *)
(* and may crash, lose a response, or run beside another command.          *)
(***************************************************************************)
EXTENDS Integers, FiniteSets

CONSTANTS
    Clis,       \* operator commands
    Instances   \* the bounds TLC explores together, one record per instance:
                \*   clis: the commands that may run at the same time
                \*   kinds: rotations the operator starts, a subset of Factors
                \*   runs (commands started), faults (requests that fail or whose
                \*     response is lost, stagings that throw), crashes (of a command or the
                \*     worker): how many at most
                \*   revoke: the worker may be revoked

\* The commands of an instance can be counted.
ASSUME InstancesAssumption == \A i \in Instances : IsFiniteSet(i.clis)

Factors == {"token", "certificate"}
None == 0

VARIABLES
    max,        \* the instance's bounds
    status,     \* the row's status
    current,    \* per factor: the current value
    pending,    \* per factor: the pending value, or None
    rotation,   \* per factor: the prepared rotation's id, or None
    seen,       \* per factor: the pending value has authenticated
    committed,  \* per factor: the last committed rotation's id
    active,     \* the worker holds a terminal
    stored,     \* per factor: the value a starting worker loads
    worker,     \* per factor: the value the running worker loaded
    cli,        \* the commands
    used,       \* values and rotation ids drawn so far
    stray,      \* certificates a fresh rotation stored before its staging threw
    runs, faults, crashes

row == <<max, status, current, pending, rotation, seen, committed>>
history == <<stray, runs, faults, crashes>>
vars == <<row, active, stored,
          worker, cli, used, history>>

Idle == [pc |-> "idle", kind |-> "token", previous |-> None, next |-> None,
         rid |-> None, resume |-> FALSE, back |-> FALSE, beat |-> FALSE]

Init ==
    /\ max \in Instances
    /\ status = "online"
    /\ current = [f \in Factors |-> 1] /\ stored = current /\ worker = current
    /\ pending = [f \in Factors |-> None] /\ rotation = pending /\ committed = pending
    /\ seen = [f \in Factors |-> FALSE]
    /\ active = FALSE
    /\ cli = [c \in Clis |-> Idle]
    /\ used = 1 /\ stray = {}
    /\ runs = 0 /\ faults = 0 /\ crashes = 0

----------------------------------------------------------------------------
(* The control plane's authorities.                                        *)

\* The role of a presented bearer; a revoked worker has none.
TokenRole(v) ==
    CASE status = "revoked" -> "unauthorized"
      [] status # "revoked" /\ v = current["token"] -> "current"
      [] status # "revoked" /\ v # current["token"] /\ v = pending["token"] -> "pending"
      [] OTHER -> "unauthorized"

\* The role of a presented certificate.
CertificateRole(v) ==
    CASE status = "revoked" -> "unauthorized"
      [] status # "revoked" /\ v = current["certificate"] -> "current"
      [] status # "revoked" /\ v # current["certificate"]
            /\ v = pending["certificate"] /\ rotation["certificate"] # None -> "pending"
      [] OTHER -> "unauthorized"

Role(f, v) == IF f = "token" THEN TokenRole(v) ELSE CertificateRole(v)

\* A bearer rotation may be prepared: no rotation of either factor, no work.
MayPrepareToken ==
    status # "revoked" /\ (\A f \in Factors : rotation[f] = None) /\ ~active

\* A certificate rotation may be prepared for certificate v.
MayPrepareCertificate(v) ==
    /\ status # "revoked" /\ v # current["certificate"]
    /\ (\A f \in Factors : rotation[f] = None) /\ ~active

\* Preparing stores the pending value under rotation id r and drains the worker.
Prepared(f, v, r) ==
    /\ status' = "draining"
    /\ pending' = [pending EXCEPT ![f] = v]
    /\ rotation' = [rotation EXCEPT ![f] = r]
    /\ seen' = [seen EXCEPT ![f] = FALSE]
    /\ UNCHANGED <<max, current, committed>>

Reopened == IF status = "draining" THEN "online" ELSE status

\* Commit of rotation r is accepted: again, or for the first time.
Recommits(f, r) == status # "revoked" /\ committed[f] = r /\ rotation[f] = None
Commits(f, r) == status # "revoked" /\ ~Recommits(f, r) /\ rotation[f] = r /\ seen[f]

\* The token authority's commit.
CommittedToken(r) ==
    IF Recommits("token", r) THEN UNCHANGED row
    ELSE /\ status' = Reopened
         /\ current' = [current EXCEPT !["token"] = pending["token"]]
         /\ pending' = [pending EXCEPT !["token"] = None]
         /\ rotation' = [rotation EXCEPT !["token"] = None]
         /\ seen' = [seen EXCEPT !["token"] = FALSE]
         /\ committed' = [committed EXCEPT !["token"] = r]
         /\ UNCHANGED max

\* The certificate authority's commit.
CommittedCertificate(r) ==
    IF Recommits("certificate", r) THEN UNCHANGED row
    ELSE /\ status' = Reopened
         /\ current' = [current EXCEPT !["certificate"] = pending["certificate"]]
         /\ pending' = [pending EXCEPT !["certificate"] = None]
         /\ rotation' = [rotation EXCEPT !["certificate"] = None]
         /\ seen' = [seen EXCEPT !["certificate"] = FALSE]
         /\ committed' = [committed EXCEPT !["certificate"] = r]
         /\ UNCHANGED max

Committed(f, r) == IF f = "token" THEN CommittedToken(r) ELSE CommittedCertificate(r)

\* An abort is accepted: nothing is prepared, or r is.
Aborts(f, r) == rotation[f] \in {None, r}

\* Aborting forgets the pending value and reopens a draining worker.
Aborted(f) ==
    IF rotation[f] = None THEN UNCHANGED row
    ELSE /\ status' = Reopened
         /\ pending' = [pending EXCEPT ![f] = None]
         /\ rotation' = [rotation EXCEPT ![f] = None]
         /\ seen' = [seen EXCEPT ![f] = FALSE]
         /\ UNCHANGED <<max, current, committed>>

----------------------------------------------------------------------------
(* The worker process.                                                     *)

Authenticated == \A f \in Factors : Role(f, worker[f]) # "unauthorized"

\* The worker polls for work.  Bearer and certificate must both be accepted;
\* then the pending ones are marked proven and the heartbeat is refreshed.
Poll ==
    /\ Authenticated
    /\ seen' = [f \in Factors |-> seen[f] \/ Role(f, worker[f]) = "pending"]
    /\ cli' = [c \in Clis |-> [cli[c] EXCEPT !.beat = TRUE]]
    /\ UNCHANGED <<max, status, current, pending, rotation, committed, active, stored,
                   worker, used, history>>

\* Mutant: a draining worker is leased a terminal.
LeaseWhileDraining ==
    /\ Authenticated /\ status # "revoked" /\ ~active
    /\ active' = TRUE
    /\ UNCHANGED <<row, stored, worker, cli, used, history>>

\* An online worker is leased a terminal; the terminal ends.
Lease ==
    /\ Authenticated /\ status = "online" /\ ~active
    /\ active' = TRUE
    /\ UNCHANGED <<row, stored, worker, cli, used, history>>

Finish ==
    /\ active /\ Authenticated
    /\ active' = FALSE
    /\ UNCHANGED <<row, stored, worker, cli, used, history>>

\* A worker that starts authenticates with the credentials it finds stored.
Loaded == worker' = stored

\* The worker crashes and its supervisor starts it.
WorkerCrash ==
    /\ crashes < max.crashes /\ crashes' = crashes + 1
    /\ Loaded
    /\ UNCHANGED <<row, active, stored, cli, used, stray, runs, faults>>

\* An administrator revokes the worker; its terminals are taken back.
Revoke ==
    /\ max.revoke /\ status # "revoked"
    /\ status' = "revoked" /\ active' = FALSE
    /\ UNCHANGED <<max, current, pending, rotation, seen, committed, stored, worker,
                   cli, used, history>>

----------------------------------------------------------------------------
(* The operator's commands.                                                *)

Goto(c, pc) == cli' = [cli EXCEPT ![c].pc = pc]
Settled == {"idle", "done", "restored", "failed"}

\* worker-token-rotate starts: it reads the stored bearer.
StartToken(c) ==
    /\ "token" \in max.kinds /\ cli[c].pc \in Settled /\ runs < max.runs /\ c \in max.clis
    /\ runs' = runs + 1
    /\ cli' = [cli EXCEPT ![c] = [Idle EXCEPT !.pc = "status", !.kind = "token",
                                              !.previous = stored["token"]]]
    /\ UNCHANGED <<row, active, stored, worker, used, stray, faults, crashes>>

\* worker-certificate-rotate starts with a candidate: new files, the files
\* that are stored (a rerun), or those a prepared rotation names.
StartCertificate(c) ==
    /\ "certificate" \in max.kinds /\ cli[c].pc \in Settled /\ runs < max.runs /\ c \in max.clis
    /\ runs' = runs + 1
    /\ \E v \in {used + 1, stored["certificate"], pending["certificate"]} \ {None} :
         /\ used' = IF v > used THEN v ELSE used
         /\ cli' = [cli EXCEPT ![c] =
                [Idle EXCEPT !.pc = "status", !.kind = "certificate",
                             !.previous = stored["certificate"], !.next = v]]
    /\ UNCHANGED <<row, active, stored, worker, stray, faults, crashes>>

\* The command reads the rotation's status: nothing prepared, or one to settle.
Status(c) ==
    LET f == cli[c].kind IN
    /\ cli[c].pc = "status"
    /\ cli' = [cli EXCEPT ![c].rid = rotation[f],
                          ![c].pc = IF rotation[f] = None THEN "prepare" ELSE "role"]
    /\ UNCHANGED <<row, active, stored, worker, used, history>>

\* Mutant: a prepared rotation whose pending value is not stored is left.
ExistingLeft(c) ==
    LET me == cli[c]  role == Role(me.kind, me.previous) IN
    /\ me.pc = "role"
    /\ IF role = "pending" /\ me.kind = "token"
       THEN cli' = [cli EXCEPT ![c].pc = "restart", ![c].resume = TRUE, ![c].next = me.previous]
       ELSE IF role = "pending" /\ Role(me.kind, me.next) = "pending"
       THEN cli' = [cli EXCEPT ![c].pc = "stage", ![c].resume = TRUE]
       ELSE IF role = "current" THEN Goto(c, "prepare")
       ELSE Goto(c, "failed")
    /\ UNCHANGED <<row, active, stored, worker, used, history>>

\* Mutant: a prepared rotation is aborted whatever is stored.
ExistingAborted(c) ==
    /\ cli[c].pc = "role"
    /\ Goto(c, "abort_old")
    /\ UNCHANGED <<row, active, stored, worker, used, history>>

\* A prepared rotation: resume it if its pending value is the stored one
\* (for a certificate, with the same files), abort it if the current one is.
Existing(c) ==
    LET me == cli[c]  role == Role(me.kind, me.previous) IN
    /\ me.pc = "role"
    /\ IF role = "pending" /\ me.kind = "token"
       THEN cli' = [cli EXCEPT ![c].pc = "restart", ![c].resume = TRUE, ![c].next = me.previous]
       ELSE IF role = "pending" /\ Role(me.kind, me.next) = "pending"
       THEN cli' = [cli EXCEPT ![c].pc = "stage", ![c].resume = TRUE]
       ELSE IF role = "current" THEN Goto(c, "abort_old")
       ELSE Goto(c, "failed")
    /\ UNCHANGED <<row, active, stored, worker, used, history>>

AbortOld(c) ==
    LET me == cli[c] IN
    /\ me.pc = "abort_old"
    /\ IF Aborts(me.kind, me.rid) THEN Aborted(me.kind) /\ Goto(c, "prepare")
       ELSE UNCHANGED row /\ Goto(c, "failed")
    /\ UNCHANGED <<active, stored, worker, used, history>>

\* A bearer rotation is prepared: the server draws the bearer.
PrepareToken(c) ==
    /\ cli[c].pc = "prepare" /\ cli[c].kind = "token"
    /\ IF MayPrepareToken
       THEN /\ used' = used + 1
            /\ Prepared("token", used', used')
            /\ cli' = [cli EXCEPT ![c].pc = "stage", ![c].next = used', ![c].rid = used']
       ELSE UNCHANGED <<row, used>> /\ Goto(c, "failed")
    /\ UNCHANGED <<active, stored, worker, history>>

\* A certificate rotation is prepared; the active certificate is refused first.
PrepareCertificate(c) ==
    LET me == cli[c] IN
    /\ me.pc = "prepare" /\ me.kind = "certificate"
    /\ IF me.next # me.previous /\ MayPrepareCertificate(me.next)
       THEN /\ used' = used + 1
            /\ Prepared("certificate", me.next, used')
            /\ cli' = [cli EXCEPT ![c].pc = "stage", ![c].rid = used']
       ELSE UNCHANGED <<row, used>> /\ Goto(c, "failed")
    /\ UNCHANGED <<active, stored, worker, history>>

\* The new bearer is compared and swapped into the vault, or its rotation
\* is aborted because the vault changed.
StageToken(c) ==
    LET me == cli[c] IN
    /\ me.pc = "stage" /\ me.kind = "token"
    /\ IF stored["token"] = me.previous
       THEN stored' = [stored EXCEPT !["token"] = me.next] /\ Goto(c, "restart")
       ELSE UNCHANGED stored /\ Goto(c, "abort")
    /\ UNCHANGED <<row, active, worker, used, history>>

\* The candidate's paths are written over the stored ones.
StageCertificate(c) ==
    /\ cli[c].pc = "stage" /\ cli[c].kind = "certificate"
    /\ stored' = [stored EXCEPT !["certificate"] = cli[c].next]
    /\ Goto(c, "restart")
    /\ UNCHANGED <<row, active, worker, used, history>>

\* A staging throws: the bearer's, before the vault is written; the certificate's,
\* in the save or in the check after it, when the candidate's paths are already
\* written.  A fresh rotation is then aborted, and the paths stay as they are; a
\* resumed one just fails.
StageFails(c) ==
    LET me == cli[c] IN
    /\ faults < max.faults /\ faults' = faults + 1
    /\ me.pc = "stage"
    /\ \/ UNCHANGED <<stored, stray>>
       \/ /\ me.kind = "certificate"
          /\ stored' = [stored EXCEPT !["certificate"] = me.next]
          /\ stray' = IF me.resume THEN stray ELSE stray \union {me.next}
    /\ Goto(c, IF me.resume THEN "failed" ELSE "abort")
    /\ UNCHANGED <<row, active, worker, used, runs, crashes>>

Activating(c) == IF cli[c].back THEN cli[c].previous ELSE cli[c].next

\* Where an error of an activation leads: a fresh rotation is rolled back.
Failure(c) == IF cli[c].resume \/ cli[c].back THEN "failed" ELSE "restore"

\* Activation: the bearer must still be the stored one; the last heartbeat is
\* noted and the worker service restarted.
Restart(c) ==
    LET me == cli[c] IN
    /\ me.pc \in {"restart", "restarting"}
    /\ IF me.pc = "restarting"
       THEN Loaded /\ Goto(c, "probe")
       ELSE IF me.kind = "token" /\ stored["token"] # Activating(c)
       THEN UNCHANGED worker /\ Goto(c, Failure(c))
       ELSE /\ UNCHANGED worker
            /\ cli' = [cli EXCEPT ![c].pc = "restarting", ![c].beat = FALSE]
    /\ UNCHANGED <<row, active, stored, used, history>>

\* The probe of a bearer's activation succeeds: its role, the worker's status,
\* a fresh heartbeat and, for a pending value, its proof.
TokenActivated(c) ==
    /\ TokenRole(Activating(c)) = IF cli[c].back THEN "current" ELSE "pending"
    /\ status = IF cli[c].back THEN "online" ELSE "draining"
    /\ cli[c].beat
    /\ cli[c].back \/ seen["token"]

\* The probe of a certificate's activation succeeds.
CertificateActivated(c) ==
    /\ CertificateRole(Activating(c)) = IF cli[c].back THEN "current" ELSE "pending"
    /\ status = IF cli[c].back THEN "online" ELSE "draining"
    /\ cli[c].beat
    /\ cli[c].back \/ seen["certificate"]

Activated(c) == IF cli[c].kind = "token" THEN TokenActivated(c) ELSE CertificateActivated(c)

\* A probe that cannot succeed gives up after its twenty attempts: the worker
\* is not accepted, or it has polled and the row still disagrees.
Hopeless(c) == ~Activated(c) /\ (cli[c].beat \/ ~Authenticated)

Probe(c) ==
    /\ cli[c].pc = "probe"
    /\ \/ Activated(c) /\ Goto(c, IF cli[c].back THEN "restored" ELSE "confirm")
       \/ Hopeless(c) /\ Goto(c, Failure(c))
    /\ UNCHANGED <<row, active, stored, worker, used, history>>

\* The command reads the status once more and checks that what it stored is
\* still there (a resumed bearer rotation does not check).
Confirm(c) ==
    LET me == cli[c]  f == me.kind IN
    /\ me.pc = "confirm"
    /\ Goto(c, IF /\ rotation[f] = me.rid /\ seen[f]
                  /\ (me.resume /\ f = "token") \/ stored[f] = me.next
               THEN "commit" ELSE Failure(c))
    /\ UNCHANGED <<row, active, stored, worker, used, history>>

\* Rollback of a bearer: the vault gets the previous value back unless it
\* holds neither of the two, in which case it is left.
RestoreToken(c) ==
    LET me == cli[c] IN
    /\ me.pc = "restore" /\ me.kind = "token"
    /\ stored' = IF stored["token"] = me.next
                 THEN [stored EXCEPT !["token"] = me.previous] ELSE stored
    /\ cli' = [cli EXCEPT ![c].pc = "abort", ![c].back = TRUE]
    /\ UNCHANGED <<row, active, worker, used, history>>

\* Rollback of a certificate: changed paths are not overwritten.
RestoreCertificate(c) ==
    LET me == cli[c] IN
    /\ me.pc = "restore" /\ me.kind = "certificate"
    /\ IF stored["certificate"] = me.next
       THEN /\ stored' = [stored EXCEPT !["certificate"] = me.previous]
            /\ cli' = [cli EXCEPT ![c].pc = "abort", ![c].back = TRUE]
       ELSE UNCHANGED stored /\ Goto(c, "failed")
    /\ UNCHANGED <<row, active, worker, used, history>>

\* The command aborts its rotation; a rollback then activates the old value.
Abort(c) ==
    LET me == cli[c]
        next == IF me.back THEN "restart" ELSE "failed" IN
    /\ me.pc = "abort"
    /\ IF Aborts(me.kind, me.rid) THEN Aborted(me.kind) /\ Goto(c, next)
       ELSE UNCHANGED row /\ Goto(c, "failed")
    /\ UNCHANGED <<active, stored, worker, used, history>>

\* The command commits its rotation; a refusal is reported as ambiguous.
Commit(c) ==
    LET me == cli[c] IN
    /\ me.pc = "commit"
    /\ IF Recommits(me.kind, me.rid) \/ Commits(me.kind, me.rid)
       THEN Committed(me.kind, me.rid) /\ Goto(c, "done")
       ELSE UNCHANGED row /\ Goto(c, "failed")
    /\ UNCHANGED <<active, stored, worker, used, history>>

\* A request of the command fails before it reaches the control plane.
RequestFails(c) ==
    LET pc == cli[c].pc IN
    /\ faults < max.faults /\ faults' = faults + 1
    /\ pc \in {"status", "role", "abort_old", "prepare", "abort", "commit",
               "restart", "restarting", "probe", "confirm"}
    /\ Goto(c, IF pc \in {"restart", "restarting", "probe", "confirm"}
               THEN Failure(c) ELSE "failed")
    /\ UNCHANGED <<row, active, stored, worker, used, stray, runs, crashes>>

\* A request of the command is served but its response is lost.
ResponseLost(c) ==
    LET me == cli[c]  f == me.kind IN
    /\ faults < max.faults /\ faults' = faults + 1
    /\ \/ /\ me.pc \in {"abort_old", "abort"} /\ Aborts(f, me.rid)
          /\ Aborted(f) /\ UNCHANGED used
       \/ /\ me.pc = "commit" /\ Commits(f, me.rid)
          /\ Committed(f, me.rid) /\ UNCHANGED used
       \/ /\ me.pc = "prepare" /\ used' = used + 1
          /\ \/ f = "token" /\ MayPrepareToken /\ Prepared(f, used', used')
             \/ f = "certificate" /\ me.next # me.previous
                /\ MayPrepareCertificate(me.next) /\ Prepared(f, me.next, used')
    /\ Goto(c, "failed")
    /\ UNCHANGED <<active, stored, worker, stray, runs, crashes>>

\* The command's process dies.
CliCrash(c) ==
    /\ crashes < max.crashes /\ crashes' = crashes + 1
    /\ cli[c].pc \notin Settled
    /\ Goto(c, "failed")
    /\ UNCHANGED <<row, active, stored, worker, used, stray, runs, faults>>

----------------------------------------------------------------------------
Steps(c) ==
    \/ Status(c) \/ Existing(c) \/ AbortOld(c) \/ PrepareToken(c) \/ PrepareCertificate(c)
    \/ StageToken(c) \/ StageCertificate(c) \/ Restart(c) \/ Probe(c) \/ Confirm(c)
    \/ RestoreToken(c) \/ RestoreCertificate(c) \/ Abort(c) \/ Commit(c)

Next ==
    \/ Poll \/ Lease \/ Finish \/ WorkerCrash \/ Revoke
    \/ \E c \in Clis : \/ StartToken(c) \/ StartCertificate(c) \/ Steps(c)
                       \/ StageFails(c) \/ RequestFails(c) \/ ResponseLost(c) \/ CliCrash(c)

Spec == Init /\ [][Next]_vars

\* The operator reruns a command whose rotation is still prepared, with the
\* files that are stored or prepared (docs/RUNBOOKS.md:134 and :233).
Rerun(c) ==
    \E f \in Factors :
        /\ rotation[f] # None /\ max.clis = {c} /\ cli[c].pc \in Settled
        /\ cli' = [cli EXCEPT ![c] =
               [Idle EXCEPT !.pc = "status", !.kind = f, !.previous = stored[f],
                            !.next = IF f = "token" THEN None ELSE pending[f]]]
        /\ UNCHANGED <<row, active, stored, worker, used, history>>

\* Commands and the worker keep running and the operator reruns.
FairSpec ==
    /\ Init /\ [][Next \/ \E c \in Clis : Rerun(c)]_vars
    /\ WF_vars(Poll)
    /\ \A c \in Clis : WF_vars(Steps(c)) /\ WF_vars(Rerun(c))

----------------------------------------------------------------------------
(* Properties.                                                             *)

Values == 0..used

TypeOK ==
    /\ status \in {"online", "draining", "revoked"}
    /\ current \in [Factors -> Values] /\ pending \in [Factors -> Values]
    /\ rotation \in [Factors -> Values] /\ committed \in [Factors -> Values]
    /\ seen \in [Factors -> BOOLEAN] /\ active \in BOOLEAN
    /\ stored \in [Factors -> Values] /\ worker \in [Factors -> Values]
    /\ stray \subseteq Values
    /\ \A c \in Clis : /\ cli[c].kind \in Factors
                       /\ {cli[c].previous, cli[c].next, cli[c].rid} \subseteq Values
    /\ \A f \in Factors : (rotation[f] = None) = (pending[f] = None)

\* A stored value the control plane may refuse: the certificate of a staging that
\* threw after the save (worker-certificate-rotation.ts:233 aborts its rotation and
\* leaves the paths).
LeftStored(f) == f = "certificate" /\ stored[f] \in stray

\* What a starting worker loads is accepted by the control plane at every
\* moment, whatever crashes and whatever response is lost: the old bearer or
\* certificate is never retired while it is stored, nor the new one forgotten.
\* The certificate a thrown staging left is excepted, and so are commands that
\* overlap: the second may abort, as abandoned, the rotation whose bearer the
\* first has just stored.
StoredIsAccepted ==
    status # "revoked" /\ Cardinality(max.clis) = 1 =>
        \A f \in Factors : stored[f] \in {current[f], pending[f]} \/ LeftStored(f)

\* The worker drains exactly while one of its credentials is being rotated, so
\* the commit or abort that reopens it never ends another rotation's drain
\* (worker-token-authority.ts:199); no terminal runs meanwhile, so the restart
\* that activates a credential interrupts no work.
RotationsDrain ==
    /\ status # "revoked" => (status = "draining") = (\E f \in Factors : rotation[f] # None)
    /\ (\E f \in Factors : rotation[f] # None) => ~active

\* A rotation that is prepared is settled in the end, after any crash, failed
\* request or lost response, by rerunning the command; unless the certificate
\* stored is one the control plane refuses, so that no restarted worker can prove
\* the rotation.
RotationsSettle ==
    \A f \in Factors :
        rotation[f] # None ~>
            \/ rotation[f] = None \/ status = "revoked" \/ Cardinality(max.clis) > 1
            \/ stored["certificate"] \notin {current["certificate"], pending["certificate"]}
=============================================================================
