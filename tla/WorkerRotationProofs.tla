------------------------ MODULE WorkerRotationProofs ------------------------
\* Theorems of WorkerRotation, for any commands and any bounds.
EXTENDS WorkerRotation, FiniteSetTheorems, TLAPS

\* The steps of FairSpec: those of the system and the operator's reruns.
NextOrRerun == Next \/ \E c \in Clis : Rerun(c)

----------------------------------------------------------------------------
(* Types.                                                                  *)

\* Where a command may be; between "role" and "commit" it names a rotation.
Naming == {"role", "abort_old", "stage", "restart", "restarting", "probe", "confirm",
           "restore", "abort", "commit"}
Pcs == Naming \union {"idle", "status", "prepare", "done", "restored", "failed"}

Command == [pc : Pcs, kind : Factors, previous : Nat, next : Nat, rid : Nat,
            resume : BOOLEAN, back : BOOLEAN, beat : BOOLEAN]

\* The types of the variables; values are natural numbers here, those drawn so
\* far in TypeOK.
Types ==
    /\ status \in {"online", "draining", "revoked"}
    /\ current \in [Factors -> Nat] /\ pending \in [Factors -> Nat]
    /\ rotation \in [Factors -> Nat] /\ committed \in [Factors -> Nat]
    /\ seen \in [Factors -> BOOLEAN] /\ active \in BOOLEAN
    /\ stored \in [Factors -> Nat] /\ worker \in [Factors -> Nat]
    /\ cli \in [Clis -> Command]
    /\ used \in Nat

\* The transactions of the authorities keep the types of the row.
LEMMA RowTypes ==
    ASSUME Types, NEW f \in Factors, NEW v \in Nat, NEW r \in Nat,
           \/ Prepared(f, v, r) \/ Committed(f, r) \/ Aborted(f) \/ UNCHANGED row
    PROVE  /\ status' \in {"online", "draining", "revoked"}
           /\ current' \in [Factors -> Nat] /\ pending' \in [Factors -> Nat]
           /\ rotation' \in [Factors -> Nat] /\ committed' \in [Factors -> Nat]
           /\ seen' \in [Factors -> BOOLEAN]
<1>1. CASE Prepared(f, v, r) BY <1>1 DEF Types, Prepared
<1>2. CASE UNCHANGED row BY <1>2 DEF Types, row
<1>3. Reopened \in {"online", "draining", "revoked"} BY DEF Types, Reopened
<1>4. CASE Aborted(f)
  <2>1. CASE rotation[f] = None BY <1>2, <1>4, <2>1 DEF Aborted
  <2>2. CASE rotation[f] # None
    <3>1. /\ status' = Reopened
          /\ pending' = [pending EXCEPT ![f] = None]
          /\ rotation' = [rotation EXCEPT ![f] = None]
          /\ seen' = [seen EXCEPT ![f] = FALSE]
          /\ UNCHANGED <<current, committed>>
      BY <1>4, <2>2 DEF Aborted
    <3>. QED BY <1>3, <3>1 DEF Types, None
  <2>. QED BY <2>1, <2>2
<1>5. CASE Committed(f, r)
  <2>1. CASE UNCHANGED row BY <1>2, <2>1
  <2>2. CASE ~UNCHANGED row
    <3>1. /\ status' = Reopened
          /\ current' = [current EXCEPT ![f] = pending[f]]
          /\ pending' = [pending EXCEPT ![f] = None]
          /\ rotation' = [rotation EXCEPT ![f] = None]
          /\ seen' = [seen EXCEPT ![f] = FALSE]
          /\ committed' = [committed EXCEPT ![f] = r]
      BY <1>5, <2>2 DEF Committed, CommittedToken, CommittedCertificate, Factors
    <3>. QED BY <1>3, <3>1 DEF Types, None
  <2>. QED BY <2>1, <2>2
<1>. QED BY <1>1, <1>2, <1>4, <1>5

\* A command that only changes its place stays a command.
LEMMA GotoTypes ==
    ASSUME Types, NEW c \in Clis, NEW pc \in Pcs, Goto(c, pc)
    PROVE  cli' \in [Clis -> Command]
BY DEF Types, Goto, Command

\* A command that has not started is a command.
LEMMA IdleTypes == Idle \in Command
<1>1. "token" \in Factors BY DEF Factors
<1>. QED BY <1>1 DEF Idle, Command, Pcs, Naming, None

\* A started command is a command.
LEMMA StartedTypes ==
    ASSUME NEW f \in Factors, NEW previous \in Nat, NEW next \in Nat
    PROVE  /\ [Idle EXCEPT !.pc = "status", !.kind = f, !.previous = previous] \in Command
           /\ [Idle EXCEPT !.pc = "status", !.kind = f, !.previous = previous,
                           !.next = next] \in Command
BY IdleTypes DEF Command, Pcs

\* The rows and commands a run starts with have their types.
LEMMA InitTypes == Init => Types
<1>. SUFFICES ASSUME Init PROVE Types OBVIOUS
<1>1. Idle \in Command BY IdleTypes
<1>2. cli \in [Clis -> Command] BY <1>1 DEF Init
<1>. QED BY <1>2 DEF Init, Types, None

\* Every request, crash, fault and rerun keeps the types.
LEMMA StepTypes == Types /\ [NextOrRerun]_vars => Types'
<1>. SUFFICES ASSUME Types, [NextOrRerun]_vars PROVE Types' OBVIOUS
<1>. USE DEF Types
<1>1. CASE Poll
  <2>1. cli' \in [Clis -> Command] BY <1>1 DEF Poll, Command
  <2>. QED BY <1>1, <2>1 DEF Poll
<1>2. CASE Lease BY <1>2, RowTypes DEF Lease, row
<1>3. CASE Finish BY <1>3 DEF Finish, row
<1>4. CASE WorkerCrash BY <1>4 DEF WorkerCrash, Loaded, row
<1>5. CASE Revoke BY <1>5 DEF Revoke
<1>6. ASSUME NEW c \in Clis, StartToken(c) PROVE Types'
  <2>1. "token" \in Factors /\ stored["token"] \in Nat /\ 0 \in Nat BY DEF Factors
  <2>2. [Idle EXCEPT !.pc = "status", !.kind = "token", !.previous = stored["token"]]
            \in Command
    BY <2>1, StartedTypes
  <2>3. cli' \in [Clis -> Command] BY <1>6, <2>2 DEF StartToken
  <2>. QED BY <1>6, <2>3 DEF StartToken, row
<1>7. ASSUME NEW c \in Clis, StartCertificate(c) PROVE Types'
  <2>1. /\ "certificate" \in Factors
        /\ {stored["certificate"], pending["certificate"], used + 1} \subseteq Nat
    BY DEF Factors
  <2>2. PICK v \in {used + 1, stored["certificate"], pending["certificate"]} \ {None} :
           /\ used' = IF v > used THEN v ELSE used
           /\ cli' = [cli EXCEPT ![c] =
                  [Idle EXCEPT !.pc = "status", !.kind = "certificate",
                               !.previous = stored["certificate"], !.next = v]]
    BY <1>7 DEF StartCertificate
  <2>3. v \in Nat /\ used' \in Nat BY <2>1, <2>2
  <2>4. [Idle EXCEPT !.pc = "status", !.kind = "certificate",
                     !.previous = stored["certificate"], !.next = v] \in Command
    BY <2>1, <2>3, StartedTypes
  <2>5. cli' \in [Clis -> Command] BY <2>2, <2>4
  <2>. QED BY <1>7, <2>3, <2>5 DEF StartCertificate, row
<1>8. ASSUME NEW c \in Clis, Status(c) PROVE Types'
  BY <1>8 DEF Status, row, Command, Pcs, Naming
<1>9. ASSUME NEW c \in Clis, Existing(c) PROVE Types'
  BY <1>9 DEF Existing, row, Command, Goto, Pcs, Naming
<1>10. ASSUME NEW c \in Clis, AbortOld(c) PROVE Types'
  BY <1>10, RowTypes, GotoTypes DEF Pcs, Naming, AbortOld, Command
<1>11. ASSUME NEW c \in Clis, PrepareToken(c) PROVE Types'
  BY <1>11, RowTypes, GotoTypes DEF Pcs, Naming, PrepareToken, Command, Factors
<1>12. ASSUME NEW c \in Clis, PrepareCertificate(c) PROVE Types'
  BY <1>12, RowTypes, GotoTypes DEF Pcs, Naming, PrepareCertificate, Command, Factors
<1>13. ASSUME NEW c \in Clis, StageToken(c) PROVE Types'
  BY <1>13, GotoTypes DEF Pcs, Naming, StageToken, row, Command
<1>14. ASSUME NEW c \in Clis, StageCertificate(c) PROVE Types'
  BY <1>14, GotoTypes DEF Pcs, Naming, StageCertificate, row, Command
<1>15. ASSUME NEW c \in Clis, Restart(c) PROVE Types'
  BY <1>15, GotoTypes DEF Pcs, Naming, Restart, row, Command, Loaded, Failure
<1>16. ASSUME NEW c \in Clis, Probe(c) PROVE Types'
  BY <1>16, GotoTypes DEF Pcs, Naming, Probe, row, Failure
<1>17. ASSUME NEW c \in Clis, Confirm(c) PROVE Types'
  BY <1>17, GotoTypes DEF Pcs, Naming, Confirm, row, Failure
<1>18. ASSUME NEW c \in Clis, RestoreToken(c) PROVE Types'
  <2>1. "token" \in Factors /\ cli[c].previous \in Nat BY DEF Factors, Command
  <2>2. \/ stored' = stored
        \/ stored' = [stored EXCEPT !["token"] = cli[c].previous]
    BY <1>18 DEF RestoreToken
  <2>3. stored' \in [Factors -> Nat]
    <3>1. CASE stored' = stored BY <3>1
    <3>2. CASE stored' = [stored EXCEPT !["token"] = cli[c].previous] BY <2>1, <3>2
    <3>. QED BY <2>2, <3>1, <3>2
  <2>4. cli' = [cli EXCEPT ![c].pc = "abort", ![c].back = TRUE] BY <1>18 DEF RestoreToken
  <2>5. cli' \in [Clis -> Command]
    <3>1. "abort" \in Pcs BY DEF Pcs, Naming
    <3>2. [cli[c] EXCEPT !.pc = "abort", !.back = TRUE] \in Command BY <3>1 DEF Command
    <3>3. cli' = [cli EXCEPT ![c] = [cli[c] EXCEPT !.pc = "abort", !.back = TRUE]]
      BY <2>4
    <3>. QED BY <3>2, <3>3
  <2>. QED BY <1>18, <2>3, <2>5 DEF RestoreToken, row
<1>19. ASSUME NEW c \in Clis, RestoreCertificate(c) PROVE Types'
  BY <1>19, GotoTypes DEF Pcs, Naming, RestoreCertificate, row, Command
<1>20. ASSUME NEW c \in Clis, Abort(c) PROVE Types'
  BY <1>20, RowTypes, GotoTypes DEF Pcs, Naming, Abort, Command
<1>21. ASSUME NEW c \in Clis, Commit(c) PROVE Types'
  BY <1>21, RowTypes, GotoTypes DEF Pcs, Naming, Commit, Command
<1>22. ASSUME NEW c \in Clis, RequestFails(c) PROVE Types'
  BY <1>22, GotoTypes DEF Pcs, Naming, RequestFails, row, Failure
<1>23. ASSUME NEW c \in Clis, ResponseLost(c) PROVE Types'
  BY <1>23, RowTypes, GotoTypes DEF Pcs, Naming, ResponseLost, Command, Factors
<1>24. ASSUME NEW c \in Clis, CliCrash(c) PROVE Types'
  BY <1>24, GotoTypes DEF Pcs, Naming, CliCrash, row
<1>25. ASSUME NEW c \in Clis, Rerun(c) PROVE Types'
  <2>1. PICK f \in Factors :
           cli' = [cli EXCEPT ![c] =
               [Idle EXCEPT !.pc = "status", !.kind = f, !.previous = stored[f],
                            !.next = IF f = "token" THEN None ELSE pending[f]]]
    BY <1>25 DEF Rerun
  <2>2. stored[f] \in Nat /\ (IF f = "token" THEN None ELSE pending[f]) \in Nat
    BY DEF None
  <2>3. [Idle EXCEPT !.pc = "status", !.kind = f, !.previous = stored[f],
                     !.next = IF f = "token" THEN None ELSE pending[f]] \in Command
    BY <2>2, StartedTypes
  <2>4. cli' \in [Clis -> Command] BY <2>1, <2>3
  <2>. QED BY <1>25, <2>4 DEF Rerun, row
<1>26. CASE UNCHANGED vars BY <1>26 DEF vars, row, history
<1>27. ASSUME NEW c \in Clis, StageFails(c) PROVE Types'
  <2>1. cli' \in [Clis -> Command]
    BY <1>27, GotoTypes DEF StageFails, Pcs, Naming
  <2>2. stored' \in [Factors -> Nat] BY <1>27 DEF StageFails, Command
  <2>. QED BY <1>27, <2>1, <2>2 DEF StageFails, row
<1>. QED
  BY <1>1, <1>2, <1>3, <1>4, <1>5, <1>6, <1>7, <1>8, <1>9, <1>10, <1>11, <1>12,
     <1>13, <1>14, <1>15, <1>16, <1>17, <1>18, <1>19, <1>20, <1>21, <1>22, <1>23,
     <1>24, <1>25, <1>26, <1>27
  DEF NextOrRerun, Next, Steps
\* Every behaviour, reruns included, keeps the types.
THEOREM TypesHold == FairSpec => []Types
<1>. QED BY InitTypes, StepTypes, PTL DEF FairSpec, NextOrRerun

----------------------------------------------------------------------------
(* Rotations drain.                                                        *)

\* RotationsDrain is not inductive: the commit or abort that reopens the worker
\* must be of the only rotation, and a commit must be of a rotation at all.
DrainInv ==
    /\ RotationsDrain
    /\ \A f, g \in Factors : rotation[f] # None /\ rotation[g] # None => f = g
    /\ \A c \in Clis : cli[c].pc \in Naming => cli[c].rid # None

\* The part of DrainInv that concerns the row.
Draining ==
    /\ RotationsDrain
    /\ \A f, g \in Factors : rotation[f] # None /\ rotation[g] # None => f = g

\* Preparing a first rotation on an idle worker drains it.
LEMMA PreparedDrains ==
    ASSUME Types, NEW f \in Factors, NEW v, NEW r \in Nat \ {None},
           \A g \in Factors : rotation[g] = None, ~active,
           Prepared(f, v, r), UNCHANGED active
    PROVE  Draining'
BY DEF Types, Prepared, Draining, RotationsDrain

\* Forgetting the only rotation reopens the worker.
LEMMA ForgottenReopens ==
    ASSUME Types, Draining, NEW f \in Factors, rotation[f] # None,
           status' = Reopened, rotation' = [rotation EXCEPT ![f] = None], UNCHANGED active
    PROVE  Draining'
<1>1. \A g \in Factors : rotation'[g] = None BY DEF Types, Draining, None
<1>2. status # "revoked" => status = "draining" /\ status' = "online"
  BY DEF Draining, RotationsDrain, Reopened
<1>3. status = "revoked" => status' = "revoked" BY DEF Reopened
<1>. QED BY <1>1, <1>2, <1>3 DEF Draining, RotationsDrain

\* So does an accepted abort (worker-token-authority.ts, abortRotation).
LEMMA AbortedDrains ==
    ASSUME Types, Draining, NEW f \in Factors, Aborted(f), UNCHANGED active
    PROVE  Draining'
<1>1. CASE rotation[f] = None
  <2>1. UNCHANGED row BY <1>1 DEF Aborted
  <2>. QED BY <2>1 DEF row, Draining, RotationsDrain
<1>2. CASE rotation[f] # None
  <2>1. status' = Reopened /\ rotation' = [rotation EXCEPT ![f] = None]
    BY <1>2 DEF Aborted
  <2>. QED BY <1>2, <2>1, ForgottenReopens
<1>. QED BY <1>1, <1>2

\* And an accepted commit of a named rotation, the first or a repeated one.
LEMMA CommittedDrains ==
    ASSUME Types, Draining, NEW f \in Factors, NEW r \in Nat \ {None},
           Recommits(f, r) \/ Commits(f, r), Committed(f, r), UNCHANGED active
    PROVE  Draining'
<1>1. CASE Recommits(f, r)
  <2>1. UNCHANGED row
    BY <1>1 DEF Committed, CommittedToken, CommittedCertificate, Factors
  <2>. QED BY <2>1 DEF row, Draining, RotationsDrain
<1>2. CASE ~Recommits(f, r)
  <2>1. status' = Reopened /\ rotation' = [rotation EXCEPT ![f] = None]
    BY <1>2 DEF Committed, CommittedToken, CommittedCertificate, Factors
  <2>2. rotation[f] # None BY <1>2 DEF Commits
  <2>. QED BY <2>1, <2>2, ForgottenReopens
<1>. QED BY <1>1, <1>2

\* A command that goes on names a rotation where it must.
LEMMA GotoNames ==
    ASSUME Types, DrainInv, NEW c \in Clis, NEW pc \in Pcs, Goto(c, pc),
           pc \in Naming => cli[c].rid # None
    PROVE  \A d \in Clis : cli'[d].pc \in Naming => cli'[d].rid # None
BY DEF Types, DrainInv, Goto, Command
\* A worker starts online, with no rotation and no command under way.
LEMMA InitDrains == Init => DrainInv
<1>. SUFFICES ASSUME Init PROVE DrainInv OBVIOUS
<1>1. \A f \in Factors : rotation[f] = None BY DEF Init
<1>2. status = "online" BY DEF Init
<1>3. \A c \in Clis : cli[c].pc \notin Naming BY DEF Init, Idle, Naming
<1>. QED BY <1>1, <1>2, <1>3 DEF DrainInv, RotationsDrain

\* Every request, crash, fault and rerun keeps the drain exact.
LEMMA StepDrains == Types /\ DrainInv /\ [NextOrRerun]_vars => DrainInv'
<1>. SUFFICES ASSUME Types, DrainInv, [NextOrRerun]_vars PROVE DrainInv' OBVIOUS
<1>. DEFINE Named == \A d \in Clis : cli[d].pc \in Naming => cli[d].rid # None
<1>a. Draining /\ Named BY DEF DrainInv, Draining
<1>b. Draining' /\ Named' => DrainInv' BY DEF DrainInv, Draining
<1>c. ASSUME UNCHANGED <<row, active>> PROVE Draining'
  <2>1. UNCHANGED <<status, rotation, active>> BY <1>c DEF row
  <2>. QED BY <1>a, <2>1 DEF Draining, RotationsDrain
<1>1. CASE Poll
  <2>1. Draining' BY <1>1, <1>a DEF Poll, Draining, RotationsDrain
  <2>2. Named' BY <1>1, <1>a DEF Poll, Types, Command
  <2>. QED BY <2>1, <2>2, <1>b
<1>2. CASE Lease BY <1>2 DEF Lease, row, DrainInv, RotationsDrain
<1>3. CASE Finish BY <1>3 DEF Finish, row, DrainInv, RotationsDrain
<1>4. CASE WorkerCrash BY <1>4, <1>a, <1>b, <1>c DEF WorkerCrash
<1>5. CASE Revoke BY <1>5 DEF Revoke, DrainInv, RotationsDrain
<1>6. ASSUME NEW c \in Clis, StartToken(c) PROVE DrainInv'
  <2>1. Named' BY <1>6, <1>a DEF StartToken, Types, Idle, Naming
  <2>. QED BY <1>6, <2>1, <1>b, <1>c DEF StartToken
<1>7. ASSUME NEW c \in Clis, StartCertificate(c) PROVE DrainInv'
  <2>1. Named' BY <1>7, <1>a DEF StartCertificate, Types, Idle, Naming
  <2>. QED BY <1>7, <2>1, <1>b, <1>c DEF StartCertificate
<1>8. ASSUME NEW c \in Clis, Status(c) PROVE DrainInv'
  <2>1. Named' BY <1>8, <1>a DEF Status, Types, Command, Naming
  <2>. QED BY <1>8, <2>1, <1>b, <1>c DEF Status
<1>9. ASSUME NEW c \in Clis, Existing(c) PROVE DrainInv'
  <2>1. cli[c].rid # None BY <1>9, <1>a DEF Existing, Naming
  <2>2. Named' BY <1>9, <2>1, <1>a DEF Existing, Goto, Types, Command
  <2>. QED BY <1>9, <2>2, <1>b, <1>c DEF Existing
<1>10. ASSUME NEW c \in Clis, AbortOld(c) PROVE DrainInv'
  <2>1. Draining' BY <1>10, <1>a, <1>c, AbortedDrains DEF AbortOld, Types, Command
  <2>2. Named' BY <1>10, GotoNames DEF AbortOld, Pcs, Naming
  <2>. QED BY <2>1, <2>2, <1>b
<1>11. ASSUME NEW c \in Clis, PrepareToken(c) PROVE DrainInv'
  <2>1. CASE MayPrepareToken
    <3>1. used' \in Nat \ {None} BY <1>11, <2>1 DEF PrepareToken, Types, None
    <3>2. Draining'
      BY <1>11, <2>1, <3>1, PreparedDrains DEF PrepareToken, MayPrepareToken, Factors
    <3>3. Named' BY <1>11, <2>1, <3>1, <1>a DEF PrepareToken, Types, Command
    <3>. QED BY <3>2, <3>3, <1>b
  <2>2. CASE ~MayPrepareToken
    <3>1. Named' BY <1>11, <2>2, GotoNames DEF PrepareToken, Pcs, Naming
    <3>. QED BY <1>11, <2>2, <3>1, <1>b, <1>c DEF PrepareToken
  <2>. QED BY <2>1, <2>2
<1>12. ASSUME NEW c \in Clis, PrepareCertificate(c) PROVE DrainInv'
  <2>1. CASE cli[c].next # cli[c].previous /\ MayPrepareCertificate(cli[c].next)
    <3>1. used' \in Nat \ {None} BY <1>12, <2>1 DEF PrepareCertificate, Types, None
    <3>2. Draining'
      BY <1>12, <2>1, <3>1, PreparedDrains
      DEF PrepareCertificate, MayPrepareCertificate, Factors
    <3>3. Named' BY <1>12, <2>1, <3>1, <1>a DEF PrepareCertificate, Types, Command
    <3>. QED BY <3>2, <3>3, <1>b
  <2>2. CASE ~(cli[c].next # cli[c].previous /\ MayPrepareCertificate(cli[c].next))
    <3>1. Named' BY <1>12, <2>2, GotoNames DEF PrepareCertificate, Pcs, Naming
    <3>. QED BY <1>12, <2>2, <3>1, <1>b, <1>c DEF PrepareCertificate
  <2>. QED BY <2>1, <2>2
<1>13. ASSUME NEW c \in Clis, StageToken(c) PROVE DrainInv'
  <2>1. cli[c].rid # None BY <1>13, <1>a DEF StageToken, Naming
  <2>2. Named' BY <1>13, <2>1, GotoNames DEF StageToken, Pcs, Naming
  <2>. QED BY <1>13, <2>2, <1>b, <1>c DEF StageToken
<1>14. ASSUME NEW c \in Clis, StageCertificate(c) PROVE DrainInv'
  <2>1. cli[c].rid # None BY <1>14, <1>a DEF StageCertificate, Naming
  <2>2. Named' BY <1>14, <2>1, GotoNames DEF StageCertificate, Pcs, Naming
  <2>. QED BY <1>14, <2>2, <1>b, <1>c DEF StageCertificate
<1>15. ASSUME NEW c \in Clis, Restart(c) PROVE DrainInv'
  <2>1. cli[c].rid # None BY <1>15, <1>a DEF Restart, Naming
  <2>2. Named' BY <1>15, <2>1, <1>a DEF Restart, Goto, Types, Command
  <2>. QED BY <1>15, <2>2, <1>b, <1>c DEF Restart
<1>16. ASSUME NEW c \in Clis, Probe(c) PROVE DrainInv'
  <2>1. cli[c].rid # None BY <1>16, <1>a DEF Probe, Naming
  <2>2. Named' BY <1>16, <2>1, <1>a DEF Probe, Goto, Types, Command
  <2>. QED BY <1>16, <2>2, <1>b, <1>c DEF Probe
<1>17. ASSUME NEW c \in Clis, Confirm(c) PROVE DrainInv'
  <2>1. cli[c].rid # None BY <1>17, <1>a DEF Confirm, Naming
  <2>2. Named' BY <1>17, <2>1, <1>a DEF Confirm, Goto, Types, Command
  <2>. QED BY <1>17, <2>2, <1>b, <1>c DEF Confirm
<1>18. ASSUME NEW c \in Clis, RestoreToken(c) PROVE DrainInv'
  <2>1. cli[c].rid # None BY <1>18, <1>a DEF RestoreToken, Naming
  <2>2. Named' BY <1>18, <2>1, <1>a DEF RestoreToken, Types, Command
  <2>. QED BY <1>18, <2>2, <1>b, <1>c DEF RestoreToken
<1>19. ASSUME NEW c \in Clis, RestoreCertificate(c) PROVE DrainInv'
  <2>1. cli[c].rid # None BY <1>19, <1>a DEF RestoreCertificate, Naming
  <2>2. Named' BY <1>19, <2>1, <1>a DEF RestoreCertificate, Goto, Types, Command
  <2>. QED BY <1>19, <2>2, <1>b, <1>c DEF RestoreCertificate
<1>20. ASSUME NEW c \in Clis, Abort(c) PROVE DrainInv'
  <2>1. Draining' BY <1>20, <1>a, <1>c, AbortedDrains DEF Abort, Types, Command
  <2>2. cli[c].rid # None BY <1>20, <1>a DEF Abort, Naming
  <2>3. Named' BY <1>20, <2>2, GotoNames DEF Abort, Pcs, Naming
  <2>. QED BY <2>1, <2>3, <1>b
<1>21. ASSUME NEW c \in Clis, Commit(c) PROVE DrainInv'
  <2>1. cli[c].rid \in Nat \ {None} /\ cli[c].kind \in Factors
    BY <1>21, <1>a DEF Commit, Types, Command, Naming
  <2>2. Draining' BY <1>21, <2>1, <1>a, <1>c, CommittedDrains DEF Commit
  <2>3. Named' BY <1>21, GotoNames DEF Commit, Pcs, Naming
  <2>. QED BY <2>2, <2>3, <1>b
<1>22. ASSUME NEW c \in Clis, RequestFails(c) PROVE DrainInv'
  <2>1. Named' BY <1>22, <1>a DEF RequestFails, Goto, Types, Command, Naming, Failure
  <2>. QED BY <1>22, <2>1, <1>b, <1>c DEF RequestFails
<1>23. ASSUME NEW c \in Clis, ResponseLost(c) PROVE DrainInv'
  <2>1. Named' BY <1>23, GotoNames DEF ResponseLost, Pcs, Naming
  <2>2. cli[c].kind \in Factors BY DEF Types, Command
  <2>3. CASE cli[c].pc \in {"abort_old", "abort"} /\ Aborted(cli[c].kind)
    BY <1>23, <1>a, <1>b, <2>1, <2>2, <2>3, AbortedDrains DEF ResponseLost
  <2>4. CASE /\ cli[c].pc = "commit" /\ Commits(cli[c].kind, cli[c].rid)
             /\ Committed(cli[c].kind, cli[c].rid)
    <3>1. cli[c].rid \in Nat \ {None} BY <2>4, <1>a DEF Types, Command, Naming
    <3>2. Draining' BY <1>23, <2>2, <2>4, <3>1, <1>a, CommittedDrains DEF ResponseLost
    <3>. QED BY <3>2, <2>1, <1>b
  <2>5. CASE /\ used' = used + 1
             /\ \/ MayPrepareToken /\ Prepared(cli[c].kind, used', used')
                \/ /\ MayPrepareCertificate(cli[c].next)
                   /\ Prepared(cli[c].kind, cli[c].next, used')
    <3>1. used' \in Nat \ {None} BY <2>5 DEF Types, None
    <3>2. Draining'
      BY <1>23, <2>2, <2>5, <3>1, PreparedDrains
      DEF ResponseLost, MayPrepareToken, MayPrepareCertificate
    <3>. QED BY <3>2, <2>1, <1>b
  <2>. QED BY <1>23, <2>3, <2>4, <2>5 DEF ResponseLost
<1>24. ASSUME NEW c \in Clis, CliCrash(c) PROVE DrainInv'
  <2>1. Named' BY <1>24, GotoNames DEF CliCrash, Pcs, Naming
  <2>. QED BY <1>24, <2>1, <1>b, <1>c DEF CliCrash
<1>25. ASSUME NEW c \in Clis, Rerun(c) PROVE DrainInv'
  <2>1. Named' BY <1>25, <1>a DEF Rerun, Types, Idle, Naming
  <2>. QED BY <1>25, <2>1, <1>b, <1>c DEF Rerun
<1>26. CASE UNCHANGED vars
  <2>1. Named' BY <1>26, <1>a DEF vars
  <2>. QED BY <1>26, <2>1, <1>b, <1>c DEF vars
<1>27. ASSUME NEW c \in Clis, StageFails(c) PROVE DrainInv'
  <2>1. cli[c].rid # None BY <1>27, <1>a DEF StageFails, Naming
  <2>2. Named' BY <1>27, <2>1, GotoNames DEF StageFails, Pcs, Naming
  <2>. QED BY <1>27, <2>2, <1>b, <1>c DEF StageFails
<1>. QED
  BY <1>1, <1>2, <1>3, <1>4, <1>5, <1>6, <1>7, <1>8, <1>9, <1>10, <1>11, <1>12,
     <1>13, <1>14, <1>15, <1>16, <1>17, <1>18, <1>19, <1>20, <1>21, <1>22, <1>23,
     <1>24, <1>25, <1>26, <1>27
  DEF NextOrRerun, Next, Steps

\* For any commands, crashes, faults and reruns: the worker drains exactly while
\* a credential is being rotated, and holds no terminal meanwhile
\* (worker-token-authority.ts, prepareRotation, commitRotation, abortRotation).
THEOREM DrainsExactly == FairSpec => []RotationsDrain
<1>1. DrainInv => RotationsDrain BY DEF DrainInv
<1>. QED
  BY <1>1, TypesHold, InitDrains, StepDrains, PTL DEF FairSpec, NextOrRerun

----------------------------------------------------------------------------
(* What is stored is accepted.                                             *)

\* One command at a time, as the runbook asks.
Lone == Cardinality(max.clis) = 1

\* The row and what is stored, apart from the commands.
Accepted ==
    \A f \in Factors : /\ stored[f] \in {current[f], pending[f]} \/ LeftStored(f)
                       /\ stored[f] # None /\ current[f] # None
                       /\ (rotation[f] = None) = (pending[f] = None)
                       /\ None \notin stray

\* A value from before a rotation: the current one, or a certificate that a thrown
\* staging left stored.
Old(f, v) == v = current[f] \/ (f = "certificate" /\ v \in stray)

\* A command that has not stored its value yet, and one that has.
Unstaged == {"status", "role", "abort_old", "prepare"}
Staged == {"restart", "restarting", "probe", "confirm", "restore", "commit"}

\* What a command remembers fits the row and what is stored: until it stages, the
\* stored value is the one it read, and it aborts or prepares only over an old
\* one; from then on the pending value is stored and the one it would roll back
\* to is old.
Fits(c) ==
    LET me == cli[c]  f == me.kind IN
    /\ me.pc \in Unstaged => /\ stored[f] = me.previous /\ ~me.resume /\ ~me.back
                             /\ f = "certificate" => me.next # None
    /\ me.pc \in {"abort_old", "prepare", "abort"} => Old(f, stored[f])
    /\ me.pc = "stage" => /\ ~me.back /\ stored[f] = me.previous
                          /\ pending[f] = me.next /\ me.next # None
    /\ me.pc \in Staged /\ ~me.back => stored[f] = me.next /\ pending[f] = me.next
    /\ me.pc \in Staged \union {"stage"} /\ ~me.back /\ ~me.resume => Old(f, me.previous)
    /\ me.pc \in {"confirm", "restore", "commit"} => ~me.back
    /\ me.pc = "restore" => ~me.resume

\* StoredIsAccepted is not inductive: what a commit retires and an abort forgets
\* is decided by what the command remembers.
AcceptInv ==
    /\ max \in Instances
    /\ \A c \in Clis : cli[c].pc # "idle" => c \in max.clis
    /\ Lone /\ status # "revoked" => Accepted /\ \A c \in Clis : Fits(c)

\* While one command runs, the others have never started.
LEMMA OthersIdle ==
    ASSUME AcceptInv, Lone, NEW c \in max.clis, NEW d \in Clis \ {c}
    PROVE  cli[d].pc = "idle"
<1>1. IsFiniteSet(max.clis) BY InstancesAssumption DEF AcceptInv
<1>2. PICK x : max.clis = {x} BY <1>1, FS_Singleton DEF Lone
<1>. QED BY <1>2 DEF AcceptInv

\* A command that is idle fits.
LEMMA IdleFits == ASSUME NEW c, cli[c].pc = "idle" PROVE Fits(c)
BY DEF Fits, Unstaged, Staged

\* It is enough to look at the command that moves.
LEMMA MoveAccepts ==
    ASSUME Types, AcceptInv, NEW c \in Clis, c \in max.clis, NEW m, cli' = [cli EXCEPT ![c] = m],
           UNCHANGED max, status' # "revoked" => status # "revoked",
           Lone /\ status # "revoked" /\ Accepted /\ Fits(c) => Accepted' /\ Fits(c)'
    PROVE  AcceptInv'
<1>1. max' \in Instances /\ Lone' = Lone BY DEF AcceptInv, Lone
<1>2. \A d \in Clis \ {c} : cli'[d] = cli[d] BY DEF Types
<1>3. \A d \in Clis : cli'[d].pc # "idle" => d \in max'.clis BY <1>2 DEF AcceptInv
<1>4. ASSUME Lone, status' # "revoked" PROVE Accepted' /\ \A d \in Clis : Fits(d)'
  <2>1. Accepted' /\ Fits(c)' BY <1>4 DEF AcceptInv
  <2>2. ASSUME NEW d \in Clis \ {c} PROVE Fits(d)'
    <3>1. cli'[d].pc = "idle" BY <1>2, <1>4, OthersIdle
    <3>. QED BY <3>1 DEF Fits, Unstaged, Staged
  <2>. QED BY <2>1, <2>2
<1>. QED BY <1>1, <1>3, <1>4 DEF AcceptInv

\* A step of the control plane or the worker leaves the fit alone.
LEMMA FrameAccepts ==
    ASSUME Types, AcceptInv, UNCHANGED <<max, current, pending, rotation, stored, stray>>,
           status' # "revoked" => status # "revoked",
           cli' = cli \/ cli' = [c \in Clis |-> [cli[c] EXCEPT !.beat = TRUE]]
    PROVE  AcceptInv'
<1>1. max' \in Instances /\ Lone' = Lone BY DEF AcceptInv, Lone
<1>2. \A c \in Clis : /\ cli'[c].pc = cli[c].pc /\ cli'[c].kind = cli[c].kind
                      /\ cli'[c].previous = cli[c].previous /\ cli'[c].next = cli[c].next
                      /\ cli'[c].resume = cli[c].resume /\ cli'[c].back = cli[c].back
  BY DEF Types, Command
<1>3. \A c \in Clis : Fits(c) => Fits(c)' BY <1>2 DEF Fits, Old
<1>4. Accepted => Accepted' BY DEF Accepted, LeftStored
<1>. QED BY <1>1, <1>2, <1>3, <1>4 DEF AcceptInv

\* The role of a value says which of the row's two it is.
LEMMA RoleMeans ==
    ASSUME NEW f \in Factors, NEW v
    PROVE  /\ Role(f, v) = "current" => v = current[f]
           /\ Role(f, v) = "pending" => v = pending[f]
<1>1. CASE f = "token"
  <2>1. Role(f, v) = TokenRole(v) BY <1>1 DEF Role
  <2>2. CASE status = "revoked"
    <3>1. TokenRole(v) = "unauthorized" BY <2>2 DEF TokenRole
    <3>. QED BY <2>1, <3>1
  <2>3. CASE status # "revoked" /\ v # current["token"] /\ v # pending["token"]
    <3>1. TokenRole(v) = "unauthorized" BY <2>3 DEF TokenRole
    <3>. QED BY <2>1, <3>1
  <2>4. CASE status # "revoked" /\ v = current["token"]
    <3>1. TokenRole(v) = "current" BY <2>4 DEF TokenRole
    <3>. QED BY <1>1, <2>1, <2>4, <3>1
  <2>5. CASE status # "revoked" /\ v # current["token"] /\ v = pending["token"]
    <3>1. TokenRole(v) = "pending" BY <2>5 DEF TokenRole
    <3>. QED BY <1>1, <2>1, <2>5, <3>1
  <2>. QED BY <2>2, <2>3, <2>4, <2>5
<1>2. CASE f = "certificate"
  <2>1. Role(f, v) = CertificateRole(v) BY <1>2 DEF Role
  <2>2. CASE status = "revoked"
    <3>1. CertificateRole(v) = "unauthorized" BY <2>2 DEF CertificateRole
    <3>. QED BY <2>1, <3>1
  <2>3. CASE status # "revoked" /\ v = current["certificate"]
    <3>1. CertificateRole(v) = "current" BY <2>3 DEF CertificateRole
    <3>. QED BY <1>2, <2>1, <2>3, <3>1
  <2>4. CASE /\ status # "revoked" /\ v # current["certificate"]
             /\ v = pending["certificate"] /\ rotation["certificate"] # None
    <3>1. CertificateRole(v) = "pending" BY <2>4 DEF CertificateRole
    <3>. QED BY <1>2, <2>1, <2>4, <3>1
  <2>5. CASE /\ status # "revoked" /\ v # current["certificate"]
             /\ ~(v = pending["certificate"] /\ rotation["certificate"] # None)
    <3>1. CertificateRole(v) = "unauthorized" BY <2>5 DEF CertificateRole
    <3>. QED BY <2>1, <3>1
  <2>. QED BY <2>2, <2>3, <2>4, <2>5
<1>. QED BY <1>1, <1>2 DEF Factors

\* The stored value stays accepted when nothing it depends on moves,
LEMMA UnchangedAccepts ==
    ASSUME Accepted, UNCHANGED <<current, pending, rotation, stored, stray>> PROVE Accepted'
BY DEF Accepted, LeftStored

\* when a rotation is prepared over an old one,
LEMMA PreparedAccepts ==
    ASSUME Types, Accepted, NEW f \in Factors, NEW v \in Nat \ {None}, NEW r \in Nat \ {None},
           Old(f, stored[f]), Prepared(f, v, r), UNCHANGED <<stored, stray>>
    PROVE  Accepted'
BY DEF Types, Accepted, Prepared, Old, LeftStored

\* when a rotation is aborted while an old one is stored,
LEMMA AbortedAccepts ==
    ASSUME Types, Accepted, NEW f \in Factors, Old(f, stored[f]), Aborted(f),
           UNCHANGED <<stored, stray>>
    PROVE  Accepted' /\ UNCHANGED <<max, current>> /\ (status' # "revoked" => status # "revoked")
<1>1. CASE rotation[f] = None
  <2>1. UNCHANGED row BY <1>1 DEF Aborted
  <2>. QED BY <2>1 DEF row, Accepted, LeftStored
<1>2. CASE rotation[f] # None
  <2>1. /\ status' = Reopened
        /\ pending' = [pending EXCEPT ![f] = None]
        /\ rotation' = [rotation EXCEPT ![f] = None]
        /\ UNCHANGED <<max, current>>
    BY <1>2 DEF Aborted
  <2>. QED BY <2>1 DEF Types, Accepted, Reopened, Old, LeftStored
<1>. QED BY <1>1, <1>2

\* and when it is committed while the pending one is stored.
LEMMA CommittedAccepts ==
    ASSUME Types, Accepted, NEW f \in Factors, NEW r, stored[f] = pending[f],
           Recommits(f, r) \/ Commits(f, r), Committed(f, r), UNCHANGED <<stored, stray>>
    PROVE  Accepted' /\ UNCHANGED max /\ (status' # "revoked" => status # "revoked")
<1>1. CASE Recommits(f, r)
  <2>1. UNCHANGED row
    BY <1>1 DEF Committed, CommittedToken, CommittedCertificate, Factors
  <2>. QED BY <2>1 DEF row, Accepted, LeftStored
<1>2. CASE ~Recommits(f, r)
  <2>1. /\ status' = Reopened
        /\ current' = [current EXCEPT ![f] = pending[f]]
        /\ pending' = [pending EXCEPT ![f] = None]
        /\ rotation' = [rotation EXCEPT ![f] = None]
        /\ UNCHANGED max
    BY <1>2 DEF Committed, CommittedToken, CommittedCertificate, Factors
  <2>. QED BY <2>1 DEF Types, Accepted, Reopened, Old, LeftStored
<1>. QED BY <1>1, <1>2

\* An abort of any rotation keeps the instance and never un-revokes the worker.
LEMMA AbortedKeeps ==
    ASSUME NEW f, Aborted(f)
    PROVE  UNCHANGED max /\ (status' # "revoked" => status # "revoked")
BY DEF Aborted, row, Reopened

\* A command that fails, or ends, without touching anything.
LEMMA EndAccepts ==
    ASSUME Types, AcceptInv, NEW c \in Clis, c \in max.clis, NEW pc \in {"failed", "done", "restored"},
           Goto(c, pc), UNCHANGED row, UNCHANGED <<stored, stray>>
    PROVE  AcceptInv'
<1>1. PICK m : m = [cli[c] EXCEPT !.pc = pc] OBVIOUS
<1>2. cli' = [cli EXCEPT ![c] = m] /\ cli'[c] = m BY <1>1 DEF Goto, Types
<1>3. cli'[c].pc = pc BY <1>1, <1>2 DEF Types, Command
<1>4. Accepted => Accepted' BY UnchangedAccepts DEF row
<1>5. Fits(c)' BY <1>3 DEF Fits, Unstaged, Staged
<1>. QED BY <1>2, <1>4, <1>5, MoveAccepts DEF row

\* A command stores its pending value.
LEMMA StagedAccepts ==
    ASSUME Types, Accepted, NEW c \in Clis, NEW f \in Factors, cli[c].kind = f,
           cli[c].pc = "stage", Fits(c), stored' = [stored EXCEPT ![f] = cli[c].next],
           cli' = [cli EXCEPT ![c] = [cli[c] EXCEPT !.pc = "restart"]], UNCHANGED <<row, stray>>
    PROVE  Accepted' /\ Fits(c)'
<1>1. /\ pending[f] = cli[c].next /\ ~cli[c].back /\ cli[c].next # None
      /\ ~cli[c].resume => Old(f, cli[c].previous)
  BY DEF Fits, Staged
<1>2. /\ stored' \in [Factors -> Nat \union {cli[c].next}] /\ stored'[f] = cli[c].next
      /\ \A g \in Factors \ {f} : stored'[g] = stored[g]
  BY DEF Types
<1>3. Accepted' BY <1>1, <1>2 DEF Accepted, LeftStored, row
<1>4. PICK m : m = [cli[c] EXCEPT !.pc = "restart"] OBVIOUS
<1>5. cli'[c] = m BY <1>4 DEF Types
<1>6. /\ m.pc = "restart" /\ m.kind = f /\ m.next = cli[c].next /\ m.resume = cli[c].resume
      /\ m.previous = cli[c].previous
  BY <1>4 DEF Types, Command
<1>7. Fits(c)' BY <1>1, <1>2, <1>5, <1>6 DEF Fits, Unstaged, Staged, Old, row
<1>. QED BY <1>3, <1>7

\* A command that activates what it stored, or gives up.
LEMMA ActivationAccepts ==
    ASSUME Types, AcceptInv, NEW c \in Clis, c \in max.clis, cli[c].pc \in Staged,
           UNCHANGED row, UNCHANGED <<stored, stray>>, NEW m, cli' = [cli EXCEPT ![c] = m],
           \/ m = [cli[c] EXCEPT !.pc = "restarting", !.beat = FALSE]
           \/ m = [cli[c] EXCEPT !.pc = "probe"]
           \/ m = [cli[c] EXCEPT !.pc = Failure(c)]
           \/ m = [cli[c] EXCEPT !.pc = IF cli[c].back THEN "restored" ELSE "confirm"]
           \/ cli[c].pc = "confirm" /\ m = [cli[c] EXCEPT !.pc = "commit"]
    PROVE  AcceptInv'
<1>1. cli'[c] = m BY DEF Types
<1>2. /\ m.kind = cli[c].kind /\ m.previous = cli[c].previous /\ m.next = cli[c].next
      /\ m.resume = cli[c].resume /\ m.back = cli[c].back
      /\ m.pc \in {"restarting", "probe", "restored", "confirm", "commit", "restore", "failed"}
      /\ m.pc = "restore" => ~m.back /\ ~m.resume
      /\ m.pc = "confirm" => ~m.back
      /\ m.pc = "commit" => cli[c].pc = "confirm"
  <2>. DEFINE Went(pc) == m = [cli[c] EXCEPT !.pc = pc]
  <2>1. CASE m = [cli[c] EXCEPT !.pc = "restarting", !.beat = FALSE]
    BY <2>1 DEF Types, Command
  <2>2. ASSUME NEW pc, Went(pc)
        PROVE  /\ m.kind = cli[c].kind /\ m.previous = cli[c].previous
               /\ m.next = cli[c].next /\ m.resume = cli[c].resume
               /\ m.back = cli[c].back /\ m.pc = pc
    BY <2>2 DEF Types, Command
  <2>3. CASE Went("probe") BY <2>2, <2>3
  <2>4. CASE Went(Failure(c))
    <3>1. CASE cli[c].resume \/ cli[c].back
      <4>1. Failure(c) = "failed" BY <3>1 DEF Failure
      <4>. QED BY <2>2, <2>4, <4>1
    <3>2. CASE ~(cli[c].resume \/ cli[c].back)
      <4>1. Failure(c) = "restore" BY <3>2 DEF Failure
      <4>2. m.back = cli[c].back /\ m.resume = cli[c].resume BY <2>2, <2>4
      <4>3. ~m.back /\ ~m.resume BY <3>2, <4>2
      <4>. QED BY <2>2, <2>4, <4>1, <4>3
    <3>. QED BY <3>1, <3>2
  <2>5. CASE Went(IF cli[c].back THEN "restored" ELSE "confirm")
    <3>1. CASE cli[c].back BY <2>2, <2>5, <3>1
    <3>2. CASE ~cli[c].back BY <2>2, <2>5, <3>2
    <3>. QED BY <3>1, <3>2
  <2>6. CASE cli[c].pc = "confirm" /\ Went("commit") BY <2>2, <2>6
  <2>. QED BY <2>1, <2>3, <2>4, <2>5, <2>6
<1>3. Accepted => Accepted' BY UnchangedAccepts DEF row
<1>4. Fits(c) => Fits(c)' BY <1>1, <1>2 DEF Fits, Unstaged, Staged, Old, row
<1>. QED BY <1>3, <1>4, MoveAccepts DEF row

\* A command rolls its value back.
LEMMA RestoredAccepts ==
    ASSUME Types, Accepted, NEW c \in Clis, NEW f \in Factors, cli[c].kind = f,
           cli[c].pc = "restore", Fits(c), UNCHANGED <<row, stray>>,
           stored' = IF stored[f] = cli[c].next THEN [stored EXCEPT ![f] = cli[c].previous]
                                                ELSE stored,
           cli' = [cli EXCEPT ![c] = [cli[c] EXCEPT !.pc = "abort", !.back = TRUE]]
    PROVE  Accepted' /\ Fits(c)'
<1>1. stored[f] = cli[c].next /\ Old(f, cli[c].previous) BY DEF Fits, Staged
<1>2. /\ stored'[f] = cli[c].previous /\ \A g \in Factors \ {f} : stored'[g] = stored[g]
  BY <1>1 DEF Types
<1>3. cli[c].previous # None BY <1>1 DEF Accepted, Old
<1>4. Accepted' BY <1>1, <1>2, <1>3 DEF Accepted, LeftStored, Old, row
<1>5. PICK m : m = [cli[c] EXCEPT !.pc = "abort", !.back = TRUE] OBVIOUS
<1>6. cli'[c] = m BY <1>5 DEF Types
<1>7. m.pc = "abort" /\ m.kind = f /\ m.back BY <1>5 DEF Types, Command
<1>8. Fits(c)' BY <1>1, <1>2, <1>6, <1>7 DEF Fits, Unstaged, Staged, Old, row
<1>. QED BY <1>4, <1>8

\* A command whose response is lost.
LEMMA LostAccepts ==
    ASSUME Types, AcceptInv, NEW c \in Clis, c \in max.clis, Goto(c, "failed"), UNCHANGED max,
           status' # "revoked" => status # "revoked", Accepted /\ Fits(c) => Accepted'
    PROVE  AcceptInv'
<1>1. PICK m : m = [cli[c] EXCEPT !.pc = "failed"] OBVIOUS
<1>2. cli' = [cli EXCEPT ![c] = m] /\ cli'[c] = m BY <1>1 DEF Goto, Types
<1>3. cli'[c].pc = "failed" BY <1>1, <1>2 DEF Types, Command
<1>4. Fits(c)' BY <1>3 DEF Fits, Unstaged, Staged
<1>. QED BY <1>2, <1>4, MoveAccepts

\* A command whose commit is accepted, answered or not.
LEMMA CommitAccepts ==
    ASSUME Types, AcceptInv, NEW c \in Clis, c \in max.clis, cli[c].pc = "commit",
           cli[c].kind \in Factors,
           Recommits(cli[c].kind, cli[c].rid) \/ Commits(cli[c].kind, cli[c].rid),
           Committed(cli[c].kind, cli[c].rid), UNCHANGED <<stored, stray>>,
           NEW pc \in {"done", "failed"}, Goto(c, pc)
    PROVE  AcceptInv'
<1>1. PICK m : m = [cli[c] EXCEPT !.pc = pc] OBVIOUS
<1>2. cli' = [cli EXCEPT ![c] = m] /\ cli'[c] = m BY <1>1 DEF Goto, Types
<1>3. cli'[c].pc = pc BY <1>1, <1>2 DEF Types, Command
<1>4. Fits(c)' BY <1>3 DEF Fits, Unstaged, Staged
<1>5. status # "revoked" BY DEF Recommits, Commits
<1>6. UNCHANGED max
  BY DEF Committed, CommittedToken, CommittedCertificate, row
<1>7. Accepted /\ Fits(c) => Accepted'
  <2>1. Fits(c) => stored[cli[c].kind] = pending[cli[c].kind] BY DEF Fits, Staged
  <2>. QED BY <2>1, CommittedAccepts
<1>. QED BY <1>2, <1>4, <1>5, <1>6, <1>7, MoveAccepts

\* The commands start with nothing under way and version 1 stored everywhere.
LEMMA InitAccepts == Init => AcceptInv
<1>. SUFFICES ASSUME Init PROVE AcceptInv OBVIOUS
<1>1. \A c \in Clis : cli[c].pc = "idle" BY DEF Init, Idle
<1>2. \A c \in Clis : Fits(c) BY <1>1, IdleFits
<1>3. Accepted BY DEF Init, Accepted, None
<1>. QED BY <1>1, <1>2, <1>3 DEF AcceptInv, Init

\* Every request, crash, fault and rerun keeps what is stored accepted.
LEMMA StepAccepts == Types /\ AcceptInv /\ [NextOrRerun]_vars => AcceptInv'
<1>. SUFFICES ASSUME Types, AcceptInv, [NextOrRerun]_vars PROVE AcceptInv' OBVIOUS
<1>a. \A c \in Clis : cli[c].pc # "idle" => c \in max.clis BY DEF AcceptInv
<1>b. \A c \in Clis : cli[c] \in Command /\ cli[c].kind \in Factors BY DEF Types, Command
<1>1. CASE Poll BY <1>1, FrameAccepts DEF Poll, history
<1>2. CASE Lease BY <1>2, FrameAccepts DEF Lease, row, history
<1>3. CASE Finish BY <1>3, FrameAccepts DEF Finish, row, history
<1>4. CASE WorkerCrash BY <1>4, FrameAccepts DEF WorkerCrash, row, history
<1>5. CASE Revoke BY <1>5, FrameAccepts DEF Revoke, history
<1>6. ASSUME NEW c \in Clis, StartToken(c) PROVE AcceptInv'
  <2>1. PICK m : cli' = [cli EXCEPT ![c] = m] /\ m = [Idle EXCEPT !.pc = "status",
                     !.kind = "token", !.previous = stored["token"]]
    BY <1>6 DEF StartToken
  <2>2. UNCHANGED row /\ UNCHANGED <<stored, stray>> /\ c \in max.clis BY <1>6 DEF StartToken
  <2>3. cli'[c] = m BY <2>1 DEF Types
  <2>4. /\ m.pc = "status" /\ m.kind = "token" /\ m.previous = stored["token"] /\ ~m.resume
        /\ ~m.back
    BY <2>1 DEF Idle
  <2>5. Accepted => Accepted' BY <2>2, UnchangedAccepts DEF row
  <2>6. Fits(c)' BY <2>2, <2>3, <2>4 DEF Fits, Unstaged, Staged, row
  <2>. QED BY <2>1, <2>2, <2>5, <2>6, MoveAccepts DEF row
<1>7. ASSUME NEW c \in Clis, StartCertificate(c) PROVE AcceptInv'
  <2>1. PICK v : v # None /\ cli' = [cli EXCEPT ![c] =
                [Idle EXCEPT !.pc = "status", !.kind = "certificate",
                             !.previous = stored["certificate"], !.next = v]]
    BY <1>7 DEF StartCertificate
  <2>2. UNCHANGED row /\ UNCHANGED <<stored, stray>> /\ c \in max.clis BY <1>7 DEF StartCertificate
  <2>3. PICK m : m = [Idle EXCEPT !.pc = "status", !.kind = "certificate",
                             !.previous = stored["certificate"], !.next = v]
    OBVIOUS
  <2>4. cli' = [cli EXCEPT ![c] = m] /\ cli'[c] = m BY <2>1, <2>3 DEF Types
  <2>5. /\ m.pc = "status" /\ m.kind = "certificate" /\ m.previous = stored["certificate"]
        /\ m.next # None /\ ~m.resume /\ ~m.back
    BY <2>1, <2>3 DEF Idle
  <2>6. Accepted => Accepted' BY <2>2, UnchangedAccepts DEF row
  <2>7. Fits(c)' BY <2>2, <2>4, <2>5 DEF Fits, Unstaged, Staged, row
  <2>. QED BY <2>2, <2>4, <2>6, <2>7, MoveAccepts DEF row
<1>8. ASSUME NEW c \in Clis, Status(c) PROVE AcceptInv'
  <2>1. PICK m : m = [cli[c] EXCEPT !.rid = rotation[cli[c].kind],
                        !.pc = IF rotation[cli[c].kind] = None THEN "prepare" ELSE "role"]
    OBVIOUS
  <2>2. cli' = [cli EXCEPT ![c] = m] BY <1>8, <2>1 DEF Status
  <2>3. UNCHANGED row /\ UNCHANGED <<stored, stray>> /\ cli[c].pc = "status" BY <1>8 DEF Status, history
  <2>4. /\ cli'[c] = m /\ m.kind = cli[c].kind /\ m.previous = cli[c].previous
        /\ m.next = cli[c].next /\ m.resume = cli[c].resume /\ m.back = cli[c].back
        /\ m.pc = IF rotation[cli[c].kind] = None THEN "prepare" ELSE "role"
    BY <2>1, <2>2, <1>b DEF Types, Command
  <2>5. Accepted => Accepted' BY <2>3, UnchangedAccepts DEF row
  <2>6. ASSUME Accepted, Fits(c) PROVE Fits(c)'
    <3>1. rotation[cli[c].kind] = None => Old(cli[c].kind, stored[cli[c].kind])
      BY <2>6, <1>b DEF Accepted, LeftStored, Old
    <3>. QED BY <2>3, <2>4, <2>6, <3>1 DEF Fits, Unstaged, Staged, Old, row
  <2>. QED BY <2>2, <2>3, <2>5, <2>6, <1>a, MoveAccepts DEF row
<1>9. ASSUME NEW c \in Clis, Existing(c) PROVE AcceptInv'
  <2>. DEFINE me == cli[c]
  <2>1. UNCHANGED row /\ UNCHANGED <<stored, stray>> /\ me.pc = "role" BY <1>9 DEF Existing, history
  <2>2. PICK m :
          /\ cli' = [cli EXCEPT ![c] = m]
          /\ \/ /\ Role(me.kind, me.previous) = "pending" /\ me.kind = "token"
                /\ m = [me EXCEPT !.pc = "restart", !.resume = TRUE, !.next = me.previous]
             \/ /\ Role(me.kind, me.previous) = "pending" /\ Role(me.kind, me.next) = "pending"
                /\ m = [me EXCEPT !.pc = "stage", !.resume = TRUE]
             \/ Role(me.kind, me.previous) = "current" /\ m = [me EXCEPT !.pc = "abort_old"]
             \/ m = [me EXCEPT !.pc = "failed"]
    BY <1>9 DEF Existing, Goto
  <2>3. cli'[c] = m BY <2>2 DEF Types
  <2>4. Accepted => Accepted' BY <2>1, UnchangedAccepts DEF row
  <2>5. ASSUME Accepted, Fits(c) PROVE Fits(c)'
    <3>1. /\ Role(me.kind, me.previous) = "current" => me.previous = current[me.kind]
          /\ Role(me.kind, me.previous) = "pending" => me.previous = pending[me.kind]
          /\ Role(me.kind, me.next) = "pending" => me.next = pending[me.kind]
      BY <1>b, RoleMeans
    <3>2. stored[me.kind] = me.previous /\ ~me.back BY <2>1, <2>5 DEF Fits, Unstaged
    <3>3. current' = current /\ pending' = pending BY <2>1 DEF row
    <3>4. me.kind \in Factors /\ stored[me.kind] # None
      BY <1>b, <2>5 DEF Accepted
    <3>5. me.kind = "certificate" => me.next # None BY <2>1, <2>5 DEF Fits, Unstaged
    <3>6. CASE /\ Role(me.kind, me.previous) = "pending" /\ me.kind = "token"
               /\ m = [me EXCEPT !.pc = "restart", !.resume = TRUE, !.next = me.previous]
      <4>1. /\ m.kind = me.kind /\ m.pc = "restart" /\ m.next = me.previous /\ m.resume
            /\ m.back = me.back
        BY <1>b, <3>6 DEF Command
      <4>. QED BY <2>1, <2>3, <3>1, <3>2, <3>3, <3>6, <4>1 DEF Fits, Unstaged, Staged
    <3>7. CASE /\ Role(me.kind, me.previous) = "pending" /\ Role(me.kind, me.next) = "pending"
               /\ m = [me EXCEPT !.pc = "stage", !.resume = TRUE]
      <4>1. /\ m.kind = me.kind /\ m.pc = "stage" /\ m.next = me.next /\ m.resume
            /\ m.previous = me.previous /\ m.back = me.back
        BY <1>b, <3>7 DEF Command
      <4>2. me.next # None BY <3>1, <3>2, <3>4, <3>7
      <4>. QED BY <2>1, <2>3, <3>1, <3>2, <3>3, <3>7, <4>1, <4>2 DEF Fits, Unstaged, Staged
    <3>8. CASE Role(me.kind, me.previous) = "current" /\ m = [me EXCEPT !.pc = "abort_old"]
      <4>1. /\ m.kind = me.kind /\ m.pc = "abort_old" /\ m.next = me.next
            /\ m.previous = me.previous /\ m.resume = me.resume /\ m.back = me.back
        BY <1>b, <3>8 DEF Command
      <4>2. ~me.resume BY <2>1, <2>5 DEF Fits, Unstaged
      <4>. QED
        BY <2>1, <2>3, <3>1, <3>2, <3>3, <3>5, <3>8, <4>1, <4>2
        DEF Fits, Unstaged, Staged, Old
    <3>9. CASE m = [me EXCEPT !.pc = "failed"]
      <4>1. m.pc = "failed" BY <1>b, <3>9 DEF Command
      <4>. QED BY <2>3, <4>1 DEF Fits, Unstaged, Staged
    <3>. QED BY <2>2, <3>6, <3>7, <3>8, <3>9
  <2>. QED BY <2>1, <2>2, <2>4, <2>5, <1>a, MoveAccepts DEF row
<1>10. ASSUME NEW c \in Clis, AbortOld(c) PROVE AcceptInv'
  <2>1. cli[c].pc = "abort_old" /\ UNCHANGED <<stored, stray>> BY <1>10 DEF AbortOld, history
  <2>2. CASE Aborted(cli[c].kind) /\ Goto(c, "prepare")
    <3>1. PICK m : m = [cli[c] EXCEPT !.pc = "prepare"] OBVIOUS
    <3>2. cli' = [cli EXCEPT ![c] = m] /\ cli'[c] = m BY <2>2, <3>1 DEF Goto, Types
    <3>3. UNCHANGED max /\ (status' # "revoked" => status # "revoked")
      BY <2>2, <1>b, AbortedKeeps
    <3>4. ASSUME Accepted, Fits(c) PROVE Accepted' /\ Fits(c)'
      <4>1. Old(cli[c].kind, stored[cli[c].kind]) BY <2>1, <3>4 DEF Fits
      <4>2. Accepted' /\ UNCHANGED current BY <1>b, <2>1, <2>2, <3>4, <4>1, AbortedAccepts
      <4>. QED
        BY <1>b, <2>1, <3>1, <3>2, <3>4, <4>1, <4>2
        DEF Fits, Unstaged, Staged, Old, Command
    <3>. QED BY <2>1, <3>2, <3>3, <3>4, <1>a, MoveAccepts
  <2>3. CASE UNCHANGED row /\ Goto(c, "failed") BY <2>1, <2>3, <1>a, EndAccepts
  <2>. QED BY <1>10, <2>2, <2>3 DEF AbortOld
<1>11. ASSUME NEW c \in Clis, PrepareToken(c) PROVE AcceptInv'
  <2>1. /\ cli[c].pc = "prepare" /\ cli[c].kind = "token" /\ "token" \in Factors
        /\ UNCHANGED <<stored, stray>>
    BY <1>11 DEF PrepareToken, Factors, history
  <2>2. CASE MayPrepareToken
    <3>1. /\ used' \in Nat \ {None} /\ Prepared("token", used', used')
          /\ cli' = [cli EXCEPT ![c].pc = "stage", ![c].next = used', ![c].rid = used']
      BY <1>11, <2>2 DEF PrepareToken, Types, None
    <3>2. PICK m : m = [cli[c] EXCEPT !.pc = "stage", !.next = used', !.rid = used'] OBVIOUS
    <3>3. cli' = [cli EXCEPT ![c] = m] /\ cli'[c] = m BY <3>1, <3>2 DEF Types
    <3>4. /\ UNCHANGED <<max, current>> /\ pending'["token"] = used'
      BY <2>1, <3>1 DEF Prepared, Types
    <3>5. /\ m.pc = "stage" /\ m.next = used' /\ m.kind = "token" /\ used' # None
          /\ m.previous = cli[c].previous /\ m.back = cli[c].back
      BY <2>1, <3>1, <3>2, <1>b DEF Command
    <3>6. ASSUME Accepted, Fits(c) PROVE Accepted' /\ Fits(c)'
      <4>1. /\ Old("token", stored["token"]) /\ stored["token"] = cli[c].previous
            /\ ~cli[c].back
        BY <2>1, <3>6 DEF Fits, Unstaged
      <4>2. Accepted' BY <2>1, <3>1, <3>6, <4>1, PreparedAccepts
      <4>3. Fits(c)' BY <2>1, <3>3, <3>4, <3>5, <4>1 DEF Fits, Unstaged, Staged, Old
      <4>. QED BY <4>2, <4>3
    <3>7. status # "revoked" BY <2>2 DEF MayPrepareToken
    <3>. QED BY <2>1, <3>3, <3>4, <3>6, <3>7, <1>a, MoveAccepts
  <2>3. CASE ~MayPrepareToken
    BY <1>11, <2>1, <2>3, <1>a, EndAccepts DEF PrepareToken, history
  <2>. QED BY <2>2, <2>3
<1>12. ASSUME NEW c \in Clis, PrepareCertificate(c) PROVE AcceptInv'
  <2>1. /\ cli[c].pc = "prepare" /\ cli[c].kind = "certificate" /\ "certificate" \in Factors
        /\ UNCHANGED <<stored, stray>>
    BY <1>12 DEF PrepareCertificate, Factors, history
  <2>2. CASE cli[c].next # cli[c].previous /\ MayPrepareCertificate(cli[c].next)
    <3>1. /\ used' \in Nat \ {None} /\ Prepared("certificate", cli[c].next, used')
          /\ cli' = [cli EXCEPT ![c].pc = "stage", ![c].rid = used']
      BY <1>12, <2>2 DEF PrepareCertificate, Types, None
    <3>2. PICK m : m = [cli[c] EXCEPT !.pc = "stage", !.rid = used'] OBVIOUS
    <3>3. cli' = [cli EXCEPT ![c] = m] /\ cli'[c] = m BY <3>1, <3>2 DEF Types
    <3>4. UNCHANGED <<max, current>> /\ pending'["certificate"] = cli[c].next
      BY <2>1, <3>1 DEF Prepared, Types
    <3>5. /\ m.pc = "stage" /\ m.next = cli[c].next /\ m.kind = "certificate"
          /\ m.previous = cli[c].previous /\ m.back = cli[c].back
      BY <2>1, <3>2, <1>b DEF Command
    <3>6. ASSUME Accepted, Fits(c) PROVE Accepted' /\ Fits(c)'
      <4>1. /\ Old("certificate", stored["certificate"])
            /\ stored["certificate"] = cli[c].previous
            /\ ~cli[c].back /\ cli[c].next # None
        BY <2>1, <3>6 DEF Fits, Unstaged
      <4>2. cli[c].next \in Nat \ {None} BY <4>1, <1>b DEF Command
      <4>3. Accepted' BY <2>1, <3>1, <3>6, <4>1, <4>2, PreparedAccepts
      <4>4. Fits(c)' BY <2>1, <3>3, <3>4, <3>5, <4>1 DEF Fits, Unstaged, Staged, Old
      <4>. QED BY <4>3, <4>4
    <3>7. status # "revoked" BY <2>2 DEF MayPrepareCertificate
    <3>. QED BY <2>1, <3>3, <3>4, <3>6, <3>7, <1>a, MoveAccepts
  <2>3. CASE ~(cli[c].next # cli[c].previous /\ MayPrepareCertificate(cli[c].next))
    BY <1>12, <2>1, <2>3, <1>a, EndAccepts DEF PrepareCertificate, history
  <2>. QED BY <2>2, <2>3
<1>13. ASSUME NEW c \in Clis, StageToken(c) PROVE AcceptInv'
  <2>. DEFINE me == cli[c]
  <2>1. /\ me.pc = "stage" /\ me.kind = "token" /\ "token" \in Factors
        /\ UNCHANGED <<row, stray>>
    BY <1>13 DEF StageToken, Factors, history
  <2>2. PICK m :
          /\ cli' = [cli EXCEPT ![c] = m]
          /\ \/ /\ stored' = [stored EXCEPT !["token"] = me.next]
                /\ m = [me EXCEPT !.pc = "restart"]
             \/ /\ stored["token"] # me.previous /\ m = [me EXCEPT !.pc = "abort"]
    BY <1>13 DEF StageToken, Goto
  <2>3. cli'[c] = m BY <2>2 DEF Types
  <2>4. ASSUME Accepted, Fits(c) PROVE Accepted' /\ Fits(c)'
    <3>1. stored["token"] = me.previous /\ pending["token"] = me.next BY <2>1, <2>4 DEF Fits
    <3>2. /\ stored' = [stored EXCEPT !["token"] = me.next] /\ m = [me EXCEPT !.pc = "restart"]
      BY <2>2, <3>1
    <3>. QED BY <2>1, <2>4, <3>1, <3>2, StagedAccepts, <2>2
  <2>. QED BY <2>1, <2>2, <2>4, <1>a, MoveAccepts DEF row
<1>14. ASSUME NEW c \in Clis, StageCertificate(c) PROVE AcceptInv'
  <2>. DEFINE me == cli[c]
  <2>1. /\ me.pc = "stage" /\ me.kind = "certificate" /\ "certificate" \in Factors
        /\ UNCHANGED <<row, stray>>
    BY <1>14 DEF StageCertificate, Factors, history
  <2>2. PICK m : m = [me EXCEPT !.pc = "restart"] OBVIOUS
  <2>3. /\ cli' = [cli EXCEPT ![c] = m] /\ stored' = [stored EXCEPT !["certificate"] = me.next]
    BY <1>14, <2>2 DEF StageCertificate, Goto
  <2>4. ASSUME Accepted, Fits(c) PROVE Accepted' /\ Fits(c)'
    BY <2>1, <2>2, <2>3, <2>4, StagedAccepts
  <2>. QED BY <2>1, <2>3, <2>4, <1>a, MoveAccepts DEF row
<1>15. ASSUME NEW c \in Clis, Restart(c) PROVE AcceptInv'
  <2>1. /\ cli[c].pc \in {"restart", "restarting"} /\ UNCHANGED row /\ UNCHANGED <<stored, stray>>
    BY <1>15 DEF Restart, history
  <2>2. PICK m : /\ cli' = [cli EXCEPT ![c] = m]
                 /\ \/ m = [cli[c] EXCEPT !.pc = "probe"]
                    \/ m = [cli[c] EXCEPT !.pc = Failure(c)]
                    \/ m = [cli[c] EXCEPT !.pc = "restarting", !.beat = FALSE]
    BY <1>15 DEF Restart, Goto
  <2>. QED BY <2>1, <2>2, <1>a, ActivationAccepts DEF Staged
<1>16. ASSUME NEW c \in Clis, Probe(c) PROVE AcceptInv'
  <2>1. cli[c].pc = "probe" /\ UNCHANGED row /\ UNCHANGED <<stored, stray>> BY <1>16 DEF Probe, history
  <2>2. \/ Goto(c, Failure(c)) \/ Goto(c, IF cli[c].back THEN "restored" ELSE "confirm")
    BY <1>16 DEF Probe
  <2>3. CASE Goto(c, Failure(c)) BY <2>1, <2>3, <1>a, ActivationAccepts DEF Staged, Goto
  <2>4. CASE Goto(c, IF cli[c].back THEN "restored" ELSE "confirm")
    BY <2>1, <2>4, <1>a, ActivationAccepts DEF Staged, Goto
  <2>. QED BY <2>2, <2>3, <2>4
<1>17. ASSUME NEW c \in Clis, Confirm(c) PROVE AcceptInv'
  <2>1. cli[c].pc = "confirm" /\ UNCHANGED row /\ UNCHANGED <<stored, stray>> BY <1>17 DEF Confirm, history
  <2>2. \/ Goto(c, Failure(c)) \/ Goto(c, "commit") BY <1>17 DEF Confirm
  <2>. QED BY <2>1, <2>2, <1>a, ActivationAccepts DEF Staged, Goto
<1>18. ASSUME NEW c \in Clis, RestoreToken(c) PROVE AcceptInv'
  <2>1. /\ cli[c].pc = "restore" /\ cli[c].kind = "token" /\ "token" \in Factors
        /\ UNCHANGED <<row, stray>>
        /\ stored' = IF stored["token"] = cli[c].next
                     THEN [stored EXCEPT !["token"] = cli[c].previous] ELSE stored
        /\ cli' = [cli EXCEPT ![c].pc = "abort", ![c].back = TRUE]
    BY <1>18 DEF RestoreToken, Factors, history
  <2>2. PICK m : m = [cli[c] EXCEPT !.pc = "abort", !.back = TRUE] OBVIOUS
  <2>3. cli' = [cli EXCEPT ![c] = m] BY <2>1, <2>2
  <2>4. Accepted /\ Fits(c) => Accepted' /\ Fits(c)' BY <2>1, <2>2, <2>3, RestoredAccepts
  <2>. QED BY <2>1, <2>3, <2>4, <1>a, MoveAccepts DEF row
<1>19. ASSUME NEW c \in Clis, RestoreCertificate(c) PROVE AcceptInv'
  <2>1. /\ cli[c].pc = "restore" /\ cli[c].kind = "certificate" /\ "certificate" \in Factors
        /\ UNCHANGED <<row, stray>>
    BY <1>19 DEF RestoreCertificate, Factors, history
  <2>2. CASE stored["certificate"] = cli[c].next
    <3>1. /\ stored' = [stored EXCEPT !["certificate"] = cli[c].previous]
          /\ cli' = [cli EXCEPT ![c].pc = "abort", ![c].back = TRUE]
      BY <1>19, <2>2 DEF RestoreCertificate
    <3>2. PICK m : m = [cli[c] EXCEPT !.pc = "abort", !.back = TRUE] OBVIOUS
    <3>3. cli' = [cli EXCEPT ![c] = m] BY <3>1, <3>2
    <3>4. Accepted /\ Fits(c) => Accepted' /\ Fits(c)'
      BY <2>1, <2>2, <3>1, <3>2, <3>3, RestoredAccepts
    <3>. QED BY <2>1, <3>3, <3>4, <1>a, MoveAccepts DEF row
  <2>3. CASE stored["certificate"] # cli[c].next
    BY <1>19, <2>1, <2>3, <1>a, EndAccepts DEF RestoreCertificate, history
  <2>. QED BY <2>2, <2>3
<1>20. ASSUME NEW c \in Clis, Abort(c) PROVE AcceptInv'
  <2>1. cli[c].pc = "abort" /\ UNCHANGED <<stored, stray>> BY <1>20 DEF Abort, history
  <2>2. CASE Aborted(cli[c].kind) /\ Goto(c, IF cli[c].back THEN "restart" ELSE "failed")
    <3>1. PICK m : m = [cli[c] EXCEPT !.pc = IF cli[c].back THEN "restart" ELSE "failed"] OBVIOUS
    <3>2. cli' = [cli EXCEPT ![c] = m] /\ cli'[c] = m BY <2>2, <3>1 DEF Goto, Types
    <3>3. UNCHANGED max /\ (status' # "revoked" => status # "revoked")
      BY <2>2, <1>b, AbortedKeeps
    <3>4. m.back = cli[c].back /\ m.pc = IF cli[c].back THEN "restart" ELSE "failed"
      BY <3>1, <1>b DEF Command
    <3>5. ASSUME Accepted, Fits(c) PROVE Accepted' /\ Fits(c)'
      <4>1. Old(cli[c].kind, stored[cli[c].kind]) BY <2>1, <3>5 DEF Fits
      <4>2. Accepted' BY <1>b, <2>1, <2>2, <3>5, <4>1, AbortedAccepts
      <4>3. Fits(c)' BY <3>2, <3>4 DEF Fits, Unstaged, Staged
      <4>. QED BY <4>2, <4>3
    <3>. QED BY <2>1, <3>2, <3>3, <3>5, <1>a, MoveAccepts
  <2>3. CASE UNCHANGED row /\ Goto(c, "failed") BY <2>1, <2>3, <1>a, EndAccepts
  <2>. QED BY <1>20, <2>2, <2>3 DEF Abort
<1>21. ASSUME NEW c \in Clis, Commit(c) PROVE AcceptInv'
  <2>1. cli[c].pc = "commit" /\ UNCHANGED <<stored, stray>> BY <1>21 DEF Commit, history
  <2>2. CASE /\ Recommits(cli[c].kind, cli[c].rid) \/ Commits(cli[c].kind, cli[c].rid)
             /\ Committed(cli[c].kind, cli[c].rid) /\ Goto(c, "done")
    BY <2>1, <2>2, <1>a, <1>b, CommitAccepts
  <2>3. CASE UNCHANGED row /\ Goto(c, "failed") BY <2>1, <2>3, <1>a, EndAccepts
  <2>. QED BY <1>21, <2>2, <2>3 DEF Commit
<1>22. ASSUME NEW c \in Clis, RequestFails(c) PROVE AcceptInv'
  <2>1. UNCHANGED row /\ UNCHANGED <<stored, stray>> /\ cli[c].pc # "idle" BY <1>22 DEF RequestFails, history
  <2>2. CASE Goto(c, "failed") BY <2>1, <2>2, <1>a, EndAccepts
  <2>3. CASE cli[c].pc \in {"restart", "restarting", "probe", "confirm"} /\ Goto(c, Failure(c))
    BY <2>1, <2>3, <1>a, ActivationAccepts DEF Staged, Goto
  <2>. QED BY <1>22, <2>2, <2>3 DEF RequestFails
<1>23. ASSUME NEW c \in Clis, ResponseLost(c) PROVE AcceptInv'
  <2>. DEFINE me == cli[c]
  <2>1. UNCHANGED <<stored, stray>> /\ Goto(c, "failed") BY <1>23 DEF ResponseLost
  <2>2. CASE me.pc \in {"abort_old", "abort"} /\ Aborted(me.kind)
    <3>1. UNCHANGED max /\ (status' # "revoked" => status # "revoked")
      BY <2>2, <1>b, AbortedKeeps
    <3>2. ASSUME Accepted, Fits(c) PROVE Accepted'
      <4>1. Old(me.kind, stored[me.kind]) BY <2>2, <3>2 DEF Fits
      <4>. QED BY <1>b, <2>1, <2>2, <3>2, <4>1, AbortedAccepts
    <3>. QED BY <2>1, <2>2, <3>1, <3>2, <1>a, LostAccepts
  <2>3. CASE /\ me.pc = "commit" /\ Commits(me.kind, me.rid) /\ Committed(me.kind, me.rid)
    BY <2>1, <2>3, <1>a, <1>b, CommitAccepts
  <2>4. CASE /\ me.pc = "prepare" /\ used' = used + 1
             /\ \/ me.kind = "token" /\ MayPrepareToken /\ Prepared(me.kind, used', used')
                \/ /\ me.kind = "certificate" /\ MayPrepareCertificate(me.next)
                   /\ Prepared(me.kind, me.next, used')
    <3>1. PICK v : /\ Prepared(me.kind, v, used')
                   /\ v = used' \/ (me.kind = "certificate" /\ v = me.next)
      BY <2>4
    <3>2. UNCHANGED max /\ status # "revoked"
      BY <2>4, <3>1 DEF Prepared, MayPrepareToken, MayPrepareCertificate
    <3>3. ASSUME Accepted, Fits(c) PROVE Accepted'
      <4>1. /\ Old(me.kind, stored[me.kind])
            /\ me.kind = "certificate" => me.next # None
        BY <2>4, <3>3 DEF Fits, Unstaged
      <4>2. used' \in Nat \ {None} BY <2>4 DEF Types, None
      <4>3. v \in Nat \ {None} BY <1>b, <3>1, <4>1, <4>2 DEF Command
      <4>. QED BY <1>b, <2>1, <3>1, <3>3, <4>1, <4>2, <4>3, PreparedAccepts
    <3>. QED BY <2>1, <2>4, <3>2, <3>3, <1>a, LostAccepts
  <2>. QED BY <1>23, <2>2, <2>3, <2>4 DEF ResponseLost
<1>24. ASSUME NEW c \in Clis, CliCrash(c) PROVE AcceptInv'
  <2>1. cli[c].pc # "idle" BY <1>24 DEF CliCrash, Settled
  <2>. QED BY <1>24, <2>1, <1>a, EndAccepts DEF CliCrash
<1>25. ASSUME NEW c \in Clis, Rerun(c) PROVE AcceptInv'
  <2>1. PICK f \in Factors :
          /\ rotation[f] # None /\ max.clis = {c} /\ UNCHANGED row /\ UNCHANGED <<stored, stray>>
          /\ cli' = [cli EXCEPT ![c] =
               [Idle EXCEPT !.pc = "status", !.kind = f, !.previous = stored[f],
                            !.next = IF f = "token" THEN None ELSE pending[f]]]
    BY <1>25 DEF Rerun, history
  <2>2. PICK m : m = [Idle EXCEPT !.pc = "status", !.kind = f, !.previous = stored[f],
                            !.next = IF f = "token" THEN None ELSE pending[f]]
    OBVIOUS
  <2>3. cli' = [cli EXCEPT ![c] = m] /\ cli'[c] = m BY <2>1, <2>2 DEF Types
  <2>4. /\ m.pc = "status" /\ m.kind = f /\ m.previous = stored[f] /\ ~m.resume /\ ~m.back
        /\ m.next = IF f = "token" THEN None ELSE pending[f]
    BY <2>2 DEF Idle
  <2>5. ASSUME Accepted PROVE Accepted' /\ Fits(c)'
    <3>1. Accepted' BY <2>1, <2>5, UnchangedAccepts DEF row
    <3>2. pending[f] # None BY <2>1, <2>5 DEF Accepted
    <3>3. Fits(c)' BY <2>1, <2>3, <2>4, <3>2 DEF Fits, Unstaged, Staged, row
    <3>. QED BY <3>1, <3>3
  <2>. QED BY <2>1, <2>3, <2>5, MoveAccepts DEF row
<1>26. CASE UNCHANGED vars BY <1>26, FrameAccepts DEF vars, row, history
<1>27. ASSUME NEW c \in Clis, StageFails(c) PROVE AcceptInv'
  <2>. DEFINE me == cli[c]
  <2>1. me.pc = "stage" /\ UNCHANGED row BY <1>27 DEF StageFails
  <2>2. PICK m : m = [me EXCEPT !.pc = IF me.resume THEN "failed" ELSE "abort"] OBVIOUS
  <2>3. cli' = [cli EXCEPT ![c] = m] /\ cli'[c] = m
    BY <1>27, <2>2 DEF StageFails, Goto, Types
  <2>4. /\ m.kind = me.kind /\ m.back = me.back
        /\ m.pc = IF me.resume THEN "failed" ELSE "abort"
    BY <1>b, <2>2 DEF Command
  <2>5. ASSUME Accepted, Fits(c) PROVE Accepted' /\ Fits(c)'
    <3>1. /\ ~me.back /\ stored[me.kind] = me.previous /\ pending[me.kind] = me.next
          /\ me.next # None /\ (~me.resume => Old(me.kind, me.previous))
      BY <2>1, <2>5 DEF Fits
    <3>2. CASE UNCHANGED <<stored, stray>>
      <4>1. Accepted' BY <2>1, <2>5, <3>2, UnchangedAccepts DEF row
      <4>2. Fits(c)'
        BY <2>1, <2>3, <2>4, <3>1, <3>2 DEF Fits, Unstaged, Staged, Old, row
      <4>. QED BY <4>1, <4>2
    <3>3. CASE /\ me.kind = "certificate"
               /\ stored' = [stored EXCEPT !["certificate"] = me.next]
               /\ stray' = IF me.resume THEN stray ELSE stray \union {me.next}
      <4>1. /\ stored'["certificate"] = me.next /\ stored'["token"] = stored["token"]
            /\ stray \subseteq stray' /\ None \notin stray
            /\ stray' \subseteq stray \union {me.next}
        BY <2>5, <3>3 DEF Types, Accepted, Factors
      <4>2. None \notin stray' BY <3>1, <4>1
      <4>3. Accepted'
        BY <2>1, <2>5, <3>1, <3>3, <4>1, <4>2 DEF Accepted, LeftStored, Factors, row
      <4>4. ~me.resume => me.next \in stray' BY <3>3
      <4>5. Fits(c)'
        BY <2>1, <2>3, <2>4, <3>1, <3>3, <4>1, <4>4 DEF Fits, Unstaged, Staged, Old
      <4>. QED BY <4>3, <4>5
    <3>. QED BY <1>27, <3>2, <3>3 DEF StageFails
  <2>. QED BY <2>1, <2>3, <2>5, <1>a, MoveAccepts DEF row
<1>. QED
  BY <1>1, <1>2, <1>3, <1>4, <1>5, <1>6, <1>7, <1>8, <1>9, <1>10, <1>11, <1>12,
     <1>13, <1>14, <1>15, <1>16, <1>17, <1>18, <1>19, <1>20, <1>21, <1>22, <1>23,
     <1>24, <1>25, <1>26, <1>27
  DEF NextOrRerun, Next, Steps

\* For any commands run one at a time, and any crash, fault, thrown staging, lost
\* response and rerun: what a starting worker loads is the current or the pending
\* value, or a certificate whose staging threw after the save (vault.ts,
\* rotateOperatorWorkerToken; worker-certificate-rotation.ts,
\* rotateOperatorWorkerCertificate).
THEOREM AlwaysAccepted == FairSpec => []StoredIsAccepted
<1>1. AcceptInv => StoredIsAccepted
  BY DEF AcceptInv, Accepted, StoredIsAccepted, Lone
<1>. QED
  BY <1>1, TypesHold, InitAccepts, StepAccepts, PTL DEF FairSpec, NextOrRerun

=============================================================================
