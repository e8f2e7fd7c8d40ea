------------------------ MODULE OperatorCredentials ------------------------
(***************************************************************************)
(* Rotation of the credentials the control plane starts with: the          *)
(* administrator bearer, by a two-phase authority and without a restart    *)
(* (ApiTokenAuthority, rotateOperatorApiToken), and an external service    *)
(* credential, by a restart (rotateOperatorServiceCredential).  The        *)
(* encrypted vault holds both; a starting control plane loads them, checks *)
(* the bearer against its authority and keeps it for its own internal      *)
(* requests.                                                               *)
(***************************************************************************)
EXTENDS Integers

CONSTANTS
    Clis,       \* operator commands
    Instances   \* the bounds TLC explores together, one record per instance:
                \*   clis: the commands that may run at the same time
                \*   kinds: rotations the operator starts, of {"token", "external"}
                \*   runs (commands started), faults (requests that fail or whose response
                \*     is lost), crashes (of a command or the control plane): how many at most

None == 0

VARIABLES
    max,        \* the instance's bounds
    current,    \* the bearer the authority accepts
    pending,    \* the bearer it also accepts while a rotation is prepared, or None
    rotation,   \* the prepared rotation's id, or None
    committed,  \* the last committed rotation's id
    vault,      \* the vault: the bearer and the external credential
    plane,      \* the control plane process: up, its internal bearer, its credential
    cli,        \* the commands
    used,       \* values and rotation ids drawn so far
    given,      \* history: the commands each rotation was given to, [rid, by]
    runs, faults, crashes

authority == <<current, pending, rotation, committed>>
spent == <<max, runs, faults, crashes>>
vars == <<authority, vault, plane, cli, used, given, spent>>

Idle == [pc |-> "idle", kind |-> "token", previous |-> None, next |-> None, rid |-> None]
Settled == {"idle", "done", "restored", "failed"}

Init ==
    /\ max \in Instances
    /\ current = 1 /\ pending = None /\ rotation = None /\ committed = None
    /\ vault = [token |-> 1, external |-> 1]
    /\ plane = [up |-> TRUE, dispatch |-> 1, external |-> 1]
    /\ cli = [c \in Clis |-> Idle]
    /\ used = 1 /\ given = {}
    /\ runs = 0 /\ faults = 0 /\ crashes = 0

----------------------------------------------------------------------------
(* The control plane.                                                      *)

Accepted(v) == v = current \/ (pending # None /\ v = pending)

\* A request carrying bearer v is answered.
Answers(v) == plane.up /\ Accepted(v)

\* What starting does: the vault's values are loaded; a bearer the authority
\* does not know stops the start.
Started ==
    IF Accepted(vault.token)
    THEN [up |-> TRUE, dispatch |-> vault.token, external |-> vault.external]
    ELSE [plane EXCEPT !.up = FALSE]

PlaneCrash ==
    /\ crashes < max.crashes /\ crashes' = crashes + 1
    /\ plane.up /\ plane' = [plane EXCEPT !.up = FALSE]
    /\ UNCHANGED <<max, authority, vault, cli, used, given, runs, faults>>

PlaneStart ==
    /\ ~plane.up /\ Started.up
    /\ plane' = Started
    /\ UNCHANGED <<authority, vault, cli, used, given, spent>>

\* Prepare is accepted from the current bearer, for a new one, when nothing
\* else is prepared.
MayPrepare(previous, next) ==
    /\ plane.up /\ previous = current /\ next # current
    /\ rotation = None \/ pending = next

\* Preparing twice with the same bearer returns the same rotation.
Prepared(next, r) ==
    /\ pending' = next /\ rotation' = r
    /\ UNCHANGED <<current, committed>>

Recommits(r, next) == committed = r /\ current = next
Commits(r, next) == ~Recommits(r, next) /\ rotation = r /\ pending = next

\* Commit promotes the pending bearer; either way the process's internal
\* requests use the committed one from now on.
Committed(r, next) ==
    /\ IF Recommits(r, next) THEN UNCHANGED authority
       ELSE current' = pending /\ pending' = None /\ rotation' = None /\ committed' = r
    /\ plane' = [plane EXCEPT !.dispatch = next]

\* Abort takes the current bearer.
Aborts(r, previous) == plane.up /\ previous = current /\ rotation \in {None, r}
Aborted == pending' = None /\ rotation' = None /\ UNCHANGED <<current, committed>>

----------------------------------------------------------------------------
(* The operator's commands.                                                *)

Goto(c, pc) == cli' = [cli EXCEPT ![c].pc = pc]

\* Rotation r is given to a command, which the answer may not reach.
Gives(c, r) == given' = given \union {[rid |-> r, by |-> c]}

\* credential-rotate AVITY_API_TOKEN with a new bearer, the stored one (a
\* rerun) or the one a prepared rotation waits for.
StartToken(c) ==
    /\ "token" \in max.kinds /\ cli[c].pc \in Settled /\ runs < max.runs /\ c \in max.clis /\ runs' = runs + 1
    /\ \E v \in {used + 1, vault.token, pending} \ {None} :
         /\ used' = IF v > used THEN v ELSE used
         /\ cli' = [cli EXCEPT ![c] =
                [Idle EXCEPT !.pc = IF v = vault.token THEN "status" ELSE "prepare",
                             !.previous = vault.token, !.next = v]]
    /\ UNCHANGED <<max, authority, vault, plane, given, faults, crashes>>

\* The stored bearer is given again: a prepared rotation whose pending bearer
\* it is is resumed, a settled one is only verified.
Status(c) ==
    LET me == cli[c] IN
    /\ me.pc = "status"
    /\ IF Answers(me.next) /\ rotation # None /\ me.next # current
       THEN cli' = [cli EXCEPT ![c].pc = "resume", ![c].rid = rotation] /\ Gives(c, rotation)
       ELSE /\ Goto(c, IF Answers(me.next) /\ rotation = None THEN "done" ELSE "failed")
            /\ UNCHANGED given
    /\ UNCHANGED <<authority, vault, plane, used, spent>>

\* A resumed rotation is verified before its commit.
Resume(c) ==
    /\ cli[c].pc = "resume"
    /\ Goto(c, IF Answers(cli[c].next) THEN "commit" ELSE "failed")
    /\ UNCHANGED <<authority, vault, plane, used, given, spent>>

Prepare(c) ==
    LET me == cli[c] IN
    /\ me.pc = "prepare"
    /\ IF MayPrepare(me.previous, me.next)
       THEN /\ used' = IF rotation = None THEN used + 1 ELSE used
            /\ Prepared(me.next, IF rotation = None THEN used' ELSE rotation)
            /\ cli' = [cli EXCEPT ![c].pc = "stage", ![c].rid = rotation']
            /\ Gives(c, rotation')
       ELSE UNCHANGED <<authority, used, given>> /\ Goto(c, "failed")
    /\ UNCHANGED <<vault, plane, spent>>

\* The bearer is compared and swapped into the vault, or the rotation aborted.
Stage(c) ==
    LET me == cli[c] IN
    /\ me.pc = "stage"
    /\ IF vault.token = me.previous
       THEN vault' = [vault EXCEPT !.token = me.next] /\ Goto(c, "verify")
       ELSE UNCHANGED vault /\ Goto(c, "abort")
    /\ UNCHANGED <<authority, plane, used, given, spent>>

\* The new bearer is verified; a vault that changed meanwhile aborts.
Verify(c) ==
    LET me == cli[c] IN
    /\ me.pc = "verify"
    /\ Goto(c, IF ~Answers(me.next) THEN "restore"
               ELSE IF vault.token = me.next THEN "commit" ELSE "abort")
    /\ UNCHANGED <<authority, vault, plane, used, given, spent>>

\* Mutant: a rollback aborts the rotation and leaves the new bearer stored.
RestoreSkipped(c) ==
    /\ cli[c].pc = "restore"
    /\ Goto(c, "abort_back")
    /\ UNCHANGED <<authority, vault, plane, used, given, spent>>

\* Rollback: the old bearer is swapped back, the rotation aborted with it, and
\* the old bearer verified.
Restore(c) ==
    LET me == cli[c] IN
    /\ me.pc = "restore"
    /\ IF vault.token = me.next
       THEN vault' = [vault EXCEPT !.token = me.previous] /\ Goto(c, "abort_back")
       ELSE UNCHANGED vault /\ Goto(c, "failed")
    /\ UNCHANGED <<authority, plane, used, given, spent>>

Abort(c) ==
    LET me == cli[c]
        next == IF me.pc = "abort_back" THEN "verify_back" ELSE "failed" IN
    /\ me.pc \in {"abort", "abort_back"}
    /\ IF Aborts(me.rid, me.previous) THEN Aborted /\ Goto(c, next)
       ELSE UNCHANGED authority /\ Goto(c, "failed")
    /\ UNCHANGED <<vault, plane, used, given, spent>>

VerifyBack(c) ==
    /\ cli[c].pc = "verify_back"
    /\ Goto(c, IF Answers(cli[c].previous) THEN "restored" ELSE "failed")
    /\ UNCHANGED <<authority, vault, plane, used, given, spent>>

\* Commit carries the new bearer; a refusal is reported as ambiguous.
Commit(c) ==
    LET me == cli[c] IN
    /\ me.pc = "commit"
    /\ IF Answers(me.next) /\ (Recommits(me.rid, me.next) \/ Commits(me.rid, me.next))
       THEN Committed(me.rid, me.next) /\ Goto(c, "done")
       ELSE UNCHANGED <<authority, plane>> /\ Goto(c, "failed")
    /\ UNCHANGED <<vault, used, given, spent>>

\* credential-rotate of an external credential: swapped into the vault first.
StartExternal(c) ==
    /\ "external" \in max.kinds /\ cli[c].pc \in Settled /\ runs < max.runs /\ c \in max.clis /\ runs' = runs + 1
    /\ plane.up
    /\ used' = used + 1
    /\ cli' = [cli EXCEPT ![c] = [Idle EXCEPT !.pc = "swap", !.kind = "external",
                                      !.previous = vault.external, !.next = used']]
    /\ UNCHANGED <<max, authority, vault, plane, given, faults, crashes>>

Swap(c) ==
    LET me == cli[c] IN
    /\ me.pc = "swap"
    /\ IF vault.external = me.previous
       THEN vault' = [vault EXCEPT !.external = me.next] /\ Goto(c, "activate")
       ELSE UNCHANGED vault /\ Goto(c, "failed")
    /\ UNCHANGED <<authority, plane, used, given, spent>>

\* Mutant: activation probes the running control plane and does not restart it.
ActivateRunning(c) ==
    LET pc == cli[c].pc IN
    /\ pc \in {"activate", "activate_back"}
    /\ Goto(c, IF Answers(vault.token)
               THEN (IF pc = "activate" THEN "probe" ELSE "probe_back")
               ELSE (IF pc = "activate" THEN "swap_back" ELSE "failed"))
    /\ UNCHANGED <<authority, vault, plane, used, given, spent>>

\* The control plane is restarted with what the vault holds now.
Activate(c) ==
    LET pc == cli[c].pc IN
    /\ pc \in {"activate", "activate_back"}
    /\ plane' = Started
    /\ Goto(c, IF plane'.up THEN (IF pc = "activate" THEN "probe" ELSE "probe_back")
               ELSE (IF pc = "activate" THEN "swap_back" ELSE "failed"))
    /\ UNCHANGED <<authority, vault, used, given, spent>>

\* The restarted control plane answers the vault's bearer, and the credential
\* is still the one the command stored.
Probe(c) ==
    LET me == cli[c] IN
    /\ me.pc \in {"probe", "probe_back"}
    /\ Goto(c, IF me.pc = "probe"
               THEN IF Answers(vault.token) /\ vault.external = me.next THEN "done" ELSE "swap_back"
               ELSE IF Answers(vault.token) /\ vault.external = me.previous THEN "restored"
               ELSE "failed")
    /\ UNCHANGED <<authority, vault, plane, used, given, spent>>

\* Rollback of a failed activation, unless the vault holds a newer value.
SwapBack(c) ==
    LET me == cli[c] IN
    /\ me.pc = "swap_back"
    /\ IF vault.external = me.next
       THEN vault' = [vault EXCEPT !.external = me.previous] /\ Goto(c, "activate_back")
       ELSE UNCHANGED vault /\ Goto(c, "failed")
    /\ UNCHANGED <<authority, plane, used, given, spent>>

\* A request fails, or an activation's probes never see the credential.
RequestFails(c) ==
    LET pc == cli[c].pc IN
    /\ faults < max.faults /\ faults' = faults + 1
    /\ pc \in {"status", "resume", "prepare", "verify", "abort", "abort_back", "verify_back",
               "commit", "probe", "probe_back"}
    /\ Goto(c, CASE pc = "verify" -> "restore" [] pc = "probe" -> "swap_back"
                 [] OTHER -> "failed")
    /\ UNCHANGED <<max, authority, vault, plane, used, given, runs, crashes>>

\* A request is served but its response is lost.
ResponseLost(c) ==
    LET me == cli[c] IN
    /\ faults < max.faults /\ faults' = faults + 1
    /\ \/ /\ me.pc = "prepare" /\ MayPrepare(me.previous, me.next) /\ rotation = None
          /\ used' = used + 1 /\ Prepared(me.next, used')
          /\ Gives(c, used') /\ UNCHANGED plane
       \/ /\ me.pc \in {"abort", "abort_back"} /\ Aborts(me.rid, me.previous)
          /\ Aborted /\ UNCHANGED <<used, given, plane>>
       \/ /\ me.pc = "commit" /\ Answers(me.next) /\ Commits(me.rid, me.next)
          /\ Committed(me.rid, me.next) /\ UNCHANGED <<used, given>>
    /\ Goto(c, "failed")
    /\ UNCHANGED <<max, vault, runs, crashes>>

CliCrash(c) ==
    /\ crashes < max.crashes /\ crashes' = crashes + 1
    /\ cli[c].pc \notin Settled
    /\ Goto(c, "failed")
    /\ UNCHANGED <<max, authority, vault, plane, used, given, runs, faults>>

----------------------------------------------------------------------------
Steps(c) ==
    \/ Status(c) \/ Resume(c) \/ Prepare(c) \/ Stage(c) \/ Verify(c) \/ Restore(c)
    \/ Abort(c) \/ VerifyBack(c) \/ Commit(c)
    \/ Swap(c) \/ Activate(c) \/ Probe(c) \/ SwapBack(c)

\* The operator reruns the command with the same bearer (docs/RUNBOOKS.md:109)
\* once the control plane is running.
Rerun(c) ==
    /\ max.clis = {c}
    /\ rotation # None /\ cli[c].pc \in Settled /\ plane.up
    /\ cli' = [cli EXCEPT ![c] =
           [Idle EXCEPT !.pc = IF pending = vault.token THEN "status" ELSE "prepare",
                        !.previous = vault.token, !.next = pending]]
    /\ UNCHANGED <<authority, vault, plane, used, given, spent>>

Next ==
    \/ PlaneCrash \/ PlaneStart
    \/ \E c \in Clis : \/ StartToken(c) \/ StartExternal(c) \/ Steps(c)
                       \/ RequestFails(c) \/ ResponseLost(c) \/ CliCrash(c) \/ Rerun(c)

Spec == Init /\ [][Next]_vars

----------------------------------------------------------------------------
(* Properties.                                                             *)

Values == 0..used

Command ==
    [pc : Settled \union {"status", "resume", "prepare", "stage", "verify", "restore", "abort",
                          "abort_back", "verify_back", "commit", "swap", "activate",
                          "activate_back", "probe", "probe_back", "swap_back"},
     kind : {"token", "external"}, previous : Values, next : Values, rid : Values]

TypeOK ==
    /\ used \in Nat \ {0} /\ {current, pending, rotation, committed} \subseteq Values
    /\ (rotation = None) = (pending = None)
    /\ vault \in [token : Values, external : Values]
    /\ plane \in [up : BOOLEAN, dispatch : Values, external : Values]
    /\ cli \in [Clis -> Command]
    /\ given \subseteq [rid : Values, by : Clis]

\* The known exception: preparing is idempotent, so two commands may be given
\* one rotation, and the one whose vault swap fails aborts it for the other; what
\* it leaves stored is rejected also after both have ended.
RotationIsShared == \E g, h \in given : g.rid = h.rid /\ g.by # h.by

\* The vault's bearer is accepted at every moment, so the operator is never
\* locked out and a crashed control plane can always start again, unless two
\* commands were given one rotation.
VaultBearerIsAccepted == Accepted(vault.token) \/ RotationIsShared

\* No other command has run.
Alone(c) == \A d \in Clis \ {c} : cli[d].pc = "idle"

\* A command that reports success or a certified rollback tells the truth: the
\* authority has the bearer the report names; and, when no other command ran,
\* that is also the stored one with nothing left prepared, or the process runs
\* with the stored credential.  Excepted is a rollback once two commands were
\* given one rotation: the bearer it verifies may be pending again by then.
ReportsAreTrue ==
    [][\A c \in Clis :
          cli[c].pc \notin Settled /\ cli'[c].pc \in {"done", "restored"} =>
              IF cli[c].kind = "external" THEN Alone(c) => plane'.external = vault'.external
              ELSE /\ cli'[c].pc = "done" => current' = cli[c].next
                   /\ cli'[c].pc = "restored" => current' = cli[c].previous \/ RotationIsShared
                   /\ Alone(c) => vault'.token = current' /\ pending' = None]_vars

=============================================================================
