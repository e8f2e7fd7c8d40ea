----------------------------- MODULE RemoteHost -----------------------------
(***************************************************************************)
(* The remote host (RemoteHostManager): it registers itself and the        *)
(* devices it pairs at the relay and in its own state store, renews their  *)
(* certificates, revokes devices, and keeps one connector loop polling the *)
(* relay.  Every call to the relay is awaited: it may fail, it may be      *)
(* applied and its answer lost, and other calls run meanwhile.  How        *)
(* messages are delivered is RemoteDelivery's matter.                      *)
(***************************************************************************)
EXTENDS Integers, FiniteSets

CONSTANTS
    Devices,    \* the devices that may pair, one identity each
    Sessions,   \* pairing sessions
    Calls,      \* calls of the host's API at work at once
    Loops,      \* connector loops
    Instances   \* the bounds TLC explores together, one record per instance:
                \*   ops: what a call may do; paired: the devices paired at first
                \*   clock: the last moment; admins: the relay's administration tokens
                \*   calls (started), failures (of the relay), crashes (of the host)

Host == "host"
Ids == Devices \cup {Host}
None == 0
NoId == "none"

ASSUME InstancesAssumption ==
    /\ {Host, NoId} \cap Devices = {} /\ NoId \notin Loops /\ Loops # {} /\ None \notin Sessions
    /\ Instances \subseteq [ops : SUBSET {"configure", "accept", "revoke"}, paired : SUBSET Devices,
                           clock : Nat, admins : Nat, calls : Nat, failures : Nat, crashes : Nat]

VARIABLES
    max,        \* the instance's bounds
    clock,      \* time; a certificate is named by the moment it was issued
    relay,      \* the relay's rows
    admin,      \* the administration token the relay accepts
    disk,       \* the host's durable device rows
    sessions,   \* its durable pairing sessions
    secret,     \* its durable secret configuration
    conf,       \* the configuration in memory
    pending,    \* the pairings this process remembers
    up,         \* the host process runs
    calls, loops,
    loop,       \* connectorLoop, the loop the manager knows of
    app,        \* the devices' own state
    overlap,    \* history: what has overlapped
    revoked,    \* history: the devices whose revocation was acknowledged
    spent       \* what is left of the bounds, and the tokens drawn

durable == <<relay, admin, disk, sessions, secret>>
memory == <<conf, pending, up, calls, loops, loop>>
history == <<overlap, revoked>>
vars == <<max, clock, durable, memory, app, history, spent>>

NoRow == [cert |-> -1, token |-> None, revoked |-> FALSE]
NoConf == [cert |-> -1, admin |-> None]
Idle == [pc |-> "idle", op |-> "none", s |-> None, d |-> NoId, cert |-> -1, token |-> None,
         admin |-> None, wait |-> NoId]
Off == [pc |-> "off", aborted |-> FALSE, for |-> NoId, read |-> NoConf, cert |-> -1]
NoPairing == [active |-> FALSE, d |-> NoId, token |-> None]

Init ==
    /\ max \in Instances
    /\ clock = 0 /\ admin = 1 /\ up = TRUE
    /\ relay = [i \in Ids |-> IF i \in max.paired \cup {Host}
                              THEN [cert |-> 0, token |-> 1, revoked |-> FALSE] ELSE NoRow]
    /\ disk = [i \in Ids |-> [cert |-> relay[i].cert, revoked |-> FALSE]]
    /\ secret = [cert |-> 0, admin |-> 1] /\ conf = secret
    /\ sessions = [s \in Sessions |-> "none"]
    /\ pending = [s \in Sessions |-> NoPairing]
    /\ calls = [k \in Calls |-> Idle]
    /\ loop = (CHOOSE l \in Loops : TRUE)
    /\ loops = [l \in Loops |-> IF l = loop THEN [Off EXCEPT !.pc = "ensure"] ELSE Off]
    /\ app = [d \in Devices |-> [session |-> None, token |-> relay[d].token,
                                 own |-> relay[d].cert, host |-> relay[d].cert]]
    /\ revoked = {}
    /\ overlap = [renewal |-> FALSE, accepts |-> {}, start |-> FALSE]
    /\ spent = [calls |-> 0, failures |-> 0, crashes |-> 0, token |-> 1]

Due(cert) == clock > cert
Running == {l \in Loops : loops[l].pc # "off"}

\* A device's token is one the relay accepts.
Authorized(d, token) == token # None /\ relay[d].token = token /\ ~relay[d].revoked

\* A call to the relay that would do Effect, and leave the relay as it is when
\* it fails; Then(ok) is what the caller goes on with.
Relay(Effect, refused, Then(_)) ==
    \/ /\ IF refused THEN UNCHANGED relay /\ Then(FALSE) ELSE Effect /\ Then(TRUE)
       /\ UNCHANGED spent
    \/ /\ spent.failures < max.failures
       /\ spent' = [spent EXCEPT !.failures = @ + 1]
       /\ (~refused /\ Effect) \/ UNCHANGED relay
       /\ Then(FALSE)

\* Mutant: a device that is registered again keeps its first token.
RegisteredOnce(i, cert, token) ==
    relay' = [relay EXCEPT ![i] = [cert |-> cert, revoked |-> FALSE,
                                   token |-> IF relay[i] = NoRow THEN token ELSE @.token]]

\* The relay's row of a registered device: the token is new, a revocation gone.
Registered(i, cert, token) ==
    relay' = [relay EXCEPT ![i] = [cert |-> cert, token |-> token, revoked |-> FALSE]]
RevokedAtRelay(d) == relay' = [relay EXCEPT ![d].revoked = TRUE]
\* The relay only extends the certificate of a device that is not revoked; of two
\* certificates of one moment, the renewal is the later one.
UpdateRefused(i, cert) == relay[i] = NoRow \/ relay[i].revoked \/ cert < relay[i].cert
Updated(i, cert) == relay' = [relay EXCEPT ![i].cert = cert]

\* Mutant: registering a device the host knows clears its revocation.
RegisterLocallyAfresh(i, cert) == disk' = [disk EXCEPT ![i] = [cert |-> cert, revoked |-> FALSE]]

\* The host's own row: a certificate never clears a revocation.
RegisterLocally(i, cert) == disk' = [disk EXCEPT ![i].cert = cert]

Call(k, op) ==
    /\ up /\ conf # NoConf /\ op \in max.ops
    /\ calls[k] = Idle /\ spent.calls < max.calls
    /\ spent' = [spent EXCEPT !.calls = @ + 1,
                              !.token = IF op = "accept" THEN @ + 1 ELSE @]
At(k, pc) == up /\ calls[k].pc = pc
Step(k, pc) == calls' = [calls EXCEPT ![k].pc = pc]
Return(k) == calls' = [calls EXCEPT ![k] = Idle]

----------------------------------------------------------------------------
(* Configuration.                                                          *)

\* A configuration is saved while a renewal that read the old one is at work.
Overlapping ==
    [overlap EXCEPT !.renewal = @ \/ \E l \in Loops : loops[l].pc \in {"host_update", "host_save"}]

\* The host is enrolled again, under the administration token the relay has.
Configure(k) ==
    /\ Call(k, "configure")
    /\ calls' = [calls EXCEPT ![k] = [Idle EXCEPT !.pc = "enroll", !.op = "configure",
                                                  !.cert = clock, !.admin = admin]]
    /\ UNCHANGED <<max, clock, durable, conf, pending, up, loops, loop, app, history>>

Enroll(k) ==
    /\ At(k, "enroll")
    /\ Relay(Registered(Host, calls[k].cert, 1), calls[k].admin # admin,
             LAMBDA ok : IF ok THEN Step(k, "save") ELSE Return(k))
    /\ UNCHANGED <<max, clock, admin, disk, sessions, secret, conf, pending, up, loops, loop, app,
                   history>>

\* Only then the durable configuration is replaced, and the loop asked to end.
Save(k) ==
    LET saved == [cert |-> calls[k].cert, admin |-> calls[k].admin] IN
    /\ At(k, "save")
    /\ RegisterLocally(Host, saved.cert)
    /\ secret' = saved /\ conf' = saved
    /\ overlap' = Overlapping
    /\ loops' = [l \in Loops |-> IF l = loop THEN [loops[l] EXCEPT !.aborted = TRUE] ELSE loops[l]]
    /\ calls' = [calls EXCEPT ![k].pc = "restart", ![k].wait = loop]
    /\ UNCHANGED <<max, clock, relay, admin, sessions, pending, up, loop, app, revoked, spent>>

\* The loop it waited for has ended: whatever loop there is now is forgotten
\* and another one started.
Restart(k) ==
    /\ At(k, "restart")
    /\ calls[k].wait \notin Running
    /\ \E l \in Loops : loops[l].pc = "off" /\ loop' = l
                        /\ loops' = [loops EXCEPT ![l] = [Off EXCEPT !.pc = "ensure"]]
    /\ Return(k)
    /\ UNCHANGED <<max, clock, durable, conf, pending, up, app, history, spent>>

\* The relay is given another administration token.
RotateAdmin ==
    /\ admin < max.admins /\ admin' = admin + 1
    /\ UNCHANGED <<max, clock, relay, disk, sessions, secret, memory, app, history, spent>>

----------------------------------------------------------------------------
(* Pairing.                                                                *)

CreatePairing(s) ==
    /\ up /\ conf # NoConf /\ "accept" \in max.ops
    /\ sessions[s] = "none"
    /\ sessions' = [sessions EXCEPT ![s] = "open"]
    /\ pending' = [pending EXCEPT ![s].active = TRUE]
    /\ UNCHANGED <<max, clock, relay, admin, disk, secret, conf, up, calls, loops, loop, app,
                   history, spent>>

\* A device reads the bundle and makes its request.
BeginPairing(d, s) ==
    /\ app[d].session = None /\ app[d].token = None /\ sessions[s] # "none"
    /\ app' = [app EXCEPT ![d].session = s]
    /\ UNCHANGED <<max, clock, durable, memory, history, spent>>

\* The session expires: it is refused from now on, and forgotten.
Expire(s) ==
    /\ sessions[s] \in {"open", "used"} /\ pending[s].active
    /\ sessions' = [sessions EXCEPT ![s] = IF @ = "open" THEN "expired" ELSE @]
    /\ pending' = [pending EXCEPT ![s] = NoPairing]
    /\ UNCHANGED <<max, clock, relay, admin, disk, secret, conf, up, calls, loops, loop, app,
                   history, spent>>

\* The device keeps the bootstrap it is given for its pending request.
Completed(d, token, cert) ==
    IF app[d].token # None THEN app
    ELSE [app EXCEPT ![d].token = token, ![d].own = cert, ![d].host = conf.cert]

\* A request is accepted; one that was is answered with the same bootstrap.
Accept(k, d) ==
    LET s == app[d].session IN
    /\ s # None /\ pending[s].active
    /\ Call(k, "accept")
    /\ \/ /\ pending[s].d = d
          /\ app' = Completed(d, pending[s].token, disk[d].cert)
          /\ UNCHANGED <<calls, overlap>>
       \/ /\ pending[s].d = NoId /\ sessions[s] = "open"
          /\ calls' = [calls EXCEPT ![k] = [Idle EXCEPT !.pc = "pair", !.op = "accept", !.s = s,
                             !.d = d, !.cert = clock, !.token = spent'.token]]
          /\ overlap' = IF \E j \in Calls : calls[j].d = d /\ calls[j].op = "accept"
                        THEN [overlap EXCEPT !.accepts = @ \cup {d}] ELSE overlap
          /\ UNCHANGED app
    /\ UNCHANGED <<max, clock, durable, conf, pending, up, loops, loop, revoked>>

\* The device is registered at the relay first.
Pair(k) ==
    LET me == calls[k] IN
    /\ At(k, "pair")
    /\ Relay(Registered(me.d, me.cert, me.token), conf.admin # admin,
             LAMBDA ok : IF ok THEN Step(k, "complete") ELSE Return(k))
    /\ UNCHANGED <<max, clock, admin, disk, sessions, secret, conf, pending, up, loops, loop, app,
                   history>>

\* Then the session is consumed and the device stored, in one transaction; a
\* session that is consumed or expired by now means the relay is told to revoke.
Complete(k) ==
    LET me == calls[k] IN
    /\ At(k, "complete")
    /\ IF sessions[me.s] = "open"
       THEN /\ sessions' = [sessions EXCEPT ![me.s] = "used"]
            /\ RegisterLocally(me.d, me.cert)
            /\ pending' = [pending EXCEPT ![me.s].d = me.d, ![me.s].token = me.token]
            /\ app' = Completed(me.d, me.token, me.cert)
            /\ Return(k)
       ELSE Step(k, "compensate") /\ UNCHANGED <<sessions, disk, pending, app>>
    /\ UNCHANGED <<max, clock, relay, admin, secret, conf, up, loops, loop, history, spent>>

\* The revocation of a refused device is tried once.
Compensate(k) ==
    /\ At(k, "compensate")
    /\ Relay(RevokedAtRelay(calls[k].d), conf.admin # admin, LAMBDA ok : Return(k))
    /\ UNCHANGED <<max, clock, admin, disk, sessions, secret, conf, pending, up, loops, loop, app,
                   history>>

----------------------------------------------------------------------------
(* Revocation.                                                             *)

\* The device is refused here before the relay is asked to refuse it.
Revoke(k, d) ==
    /\ disk[d].cert # -1
    /\ Call(k, "revoke")
    /\ disk' = [disk EXCEPT ![d].revoked = TRUE]
    /\ calls' = [calls EXCEPT ![k] = [Idle EXCEPT !.pc = "revoke", !.op = "revoke", !.d = d]]
    /\ UNCHANGED <<max, clock, relay, admin, sessions, secret, conf, pending, up, loops, loop, app,
                   history>>

RevokeAtRelay(k) ==
    LET d == calls[k].d IN
    /\ At(k, "revoke")
    /\ Relay(RevokedAtRelay(d), conf.admin # admin \/ relay[d] = NoRow,
             LAMBDA ok : Return(k) /\ revoked' = IF ok THEN revoked \cup {d} ELSE revoked)
    /\ UNCHANGED <<max, clock, admin, disk, sessions, secret, conf, pending, up, loops, loop, app,
                   overlap>>

----------------------------------------------------------------------------
(* The connector loop and the renewal of certificates.                     *)

In(l, pc) == up /\ loops[l].pc = pc
Goto(l, pc) == loops' = [loops EXCEPT ![l].pc = pc]
\* The loop goes on, or around after a failure; an aborted one ends.
Served(l) == loops' = [loops EXCEPT ![l] =
                 IF @.aborted THEN Off ELSE [Off EXCEPT !.pc = "poll"]]
Failed(l) == loops' = [loops EXCEPT ![l] =
                 IF @.aborted THEN Off ELSE [Off EXCEPT !.pc = "ensure"]]

\* The host's certificate is looked at, and what it was read with remembered.
Ensure(l) ==
    LET me == loops[l] IN
    /\ In(l, "ensure")
    /\ IF me.aborted /\ me.for = NoId THEN loops' = [loops EXCEPT ![l] = Off]
       ELSE IF ~Due(conf.cert) THEN Goto(l, IF me.for = NoId THEN "poll" ELSE "device")
       ELSE loops' = [loops EXCEPT ![l].pc = "host_update", ![l].read = conf, ![l].cert = clock]
    /\ UNCHANGED <<max, clock, durable, conf, pending, up, calls, loop, app, history, spent>>

HostUpdate(l) ==
    LET me == loops[l] IN
    /\ In(l, "host_update")
    /\ Relay(Updated(Host, me.cert), me.read.admin # admin \/ UpdateRefused(Host, me.cert),
             LAMBDA ok : IF ok THEN Goto(l, "host_save") ELSE Failed(l))
    /\ UNCHANGED <<max, clock, admin, disk, sessions, secret, conf, pending, up, calls, loop, app,
                   history>>

\* Mutant: a renewal is not kept.
HostSaveNothing(l) ==
    /\ In(l, "host_save")
    /\ RegisterLocally(Host, loops[l].cert)
    /\ Goto(l, IF loops[l].for = NoId THEN "poll" ELSE "device")
    /\ UNCHANGED <<max, clock, relay, admin, sessions, secret, conf, pending, up, calls, loop, app,
                   history, spent>>

\* The renewed certificate is saved with the configuration that was read.
HostSave(l) ==
    LET me == loops[l]
        updated == [me.read EXCEPT !.cert = me.cert] IN
    /\ In(l, "host_save")
    /\ RegisterLocally(Host, me.cert)
    /\ secret' = updated /\ conf' = updated
    /\ Goto(l, IF me.for = NoId THEN "poll" ELSE "device")
    /\ UNCHANGED <<max, clock, relay, admin, sessions, pending, up, calls, loop, app, history, spent>>

\* A device that relay and host accept asks for a renewal, or the poll ends
\* with nothing; an aborted poll ends the loop.
Poll(l) ==
    /\ In(l, "poll")
    /\ \/ loops[l].aborted /\ loops' = [loops EXCEPT ![l] = Off]
       \/ Due(conf.cert) /\ Goto(l, "ensure")
       \/ \E d \in Devices :
            /\ Due(app[d].own) \/ Due(app[d].host)
            /\ Authorized(d, app[d].token) /\ ~disk[d].revoked
            /\ loops' = [loops EXCEPT ![l].pc = "ensure", ![l].for = d]
    /\ UNCHANGED <<max, clock, durable, conf, pending, up, calls, loop, app, history, spent>>

\* The app takes the certificates it is sent unless one is older than its own,
\* or is due and not extended.
Accepted(d, own, host) ==
    LET satisfied(new, old) == new >= old /\ (Due(old) => new > old) IN
    IF satisfied(own, app[d].own) /\ satisfied(host, app[d].host)
    THEN [app EXCEPT ![d].own = own, ![d].host = host] ELSE app

Device(l) ==
    LET d == loops[l].for IN
    /\ In(l, "device")
    /\ IF disk[d].revoked THEN Served(l) /\ UNCHANGED app
       ELSE IF Due(disk[d].cert)
       THEN loops' = [loops EXCEPT ![l].pc = "device_update", ![l].cert = clock] /\ UNCHANGED app
       ELSE Served(l) /\ app' = Accepted(d, disk[d].cert, conf.cert)
    /\ UNCHANGED <<max, clock, durable, conf, pending, up, calls, loop, history, spent>>

DeviceUpdate(l) ==
    LET me == loops[l] IN
    /\ In(l, "device_update")
    /\ Relay(Updated(me.for, me.cert), conf.admin # admin \/ UpdateRefused(me.for, me.cert),
             LAMBDA ok : IF ok THEN Goto(l, "device_save") ELSE Failed(l))
    /\ UNCHANGED <<max, clock, admin, disk, sessions, secret, conf, pending, up, calls, loop, app,
                   history>>

DeviceSave(l) ==
    LET me == loops[l] IN
    /\ In(l, "device_save")
    /\ RegisterLocally(me.for, me.cert)
    /\ app' = Accepted(me.for, me.cert, conf.cert)
    /\ Served(l)
    /\ UNCHANGED <<max, clock, relay, admin, sessions, secret, conf, pending, up, calls, loop,
                   history, spent>>

----------------------------------------------------------------------------
(* The process.                                                            *)

Tick ==
    /\ clock < max.clock /\ clock' = clock + 1
    /\ UNCHANGED <<max, durable, memory, app, history, spent>>

\* The host dies: pairings, calls and loops are gone.
Crash ==
    /\ up /\ spent.crashes < max.crashes
    /\ spent' = [spent EXCEPT !.crashes = @ + 1]
    /\ up' = FALSE /\ conf' = NoConf /\ loop' = NoId
    /\ pending' = [s \in Sessions |-> NoPairing]
    /\ calls' = [k \in Calls |-> Idle]
    /\ loops' = [l \in Loops |-> Off]
    /\ UNCHANGED <<max, clock, durable, app, history>>

\* It starts again.  The certificate is renewed before the loop is started; when
\* the relay fails that, no loop is.
Start ==
    /\ ~up /\ up' = TRUE
    /\ \/ /\ ~Due(secret.cert)
          /\ conf' = secret
          /\ UNCHANGED <<relay, disk, secret, overlap, spent>>
          /\ loop' = (CHOOSE l \in Loops : TRUE)
       \/ /\ Due(secret.cert)
          /\ Relay(Updated(Host, clock), secret.admin # admin \/ UpdateRefused(Host, clock),
                   LAMBDA ok :
                     IF ok THEN /\ RegisterLocally(Host, clock)
                                /\ secret' = [secret EXCEPT !.cert = clock] /\ conf' = secret'
                                /\ loop' = (CHOOSE l \in Loops : TRUE)
                                /\ UNCHANGED overlap
                     ELSE /\ conf' = secret /\ loop' = NoId
                          /\ overlap' = [overlap EXCEPT !.start = TRUE]
                          /\ UNCHANGED <<disk, secret>>)
    /\ loops' = [l \in Loops |-> IF l = loop' THEN [Off EXCEPT !.pc = "ensure"] ELSE Off]
    /\ UNCHANGED <<max, clock, admin, sessions, pending, calls, app, revoked>>

CallSteps(k) == Enroll(k) \/ Save(k) \/ Restart(k) \/ Pair(k) \/ Complete(k) \/ Compensate(k)
                \/ RevokeAtRelay(k)
LoopSteps(l) == Ensure(l) \/ HostUpdate(l) \/ HostSave(l) \/ Poll(l) \/ Device(l)
                \/ DeviceUpdate(l) \/ DeviceSave(l)

Next ==
    \/ \E k \in Calls : Configure(k) \/ CallSteps(k)
    \/ \E k \in Calls, d \in Devices : Accept(k, d) \/ Revoke(k, d)
    \/ \E s \in Sessions : CreatePairing(s) \/ Expire(s) \/ \E d \in Devices : BeginPairing(d, s)
    \/ \E l \in Loops : LoopSteps(l)
    \/ RotateAdmin \/ Tick \/ Crash \/ Start

FairSpec ==
    /\ Init /\ [][Next]_vars
    /\ \A k \in Calls : WF_vars(CallSteps(k))
    /\ \A l \in Loops : WF_vars(LoopSteps(l))
    /\ WF_vars(Start)

----------------------------------------------------------------------------
(* Properties.                                                             *)

Row == [cert : Int, token : Nat, revoked : BOOLEAN]
Conf == [cert : Int, admin : Nat]
ApiCall == [pc : {"idle", "enroll", "save", "restart", "pair", "complete", "compensate", "revoke"},
            op : {"none", "configure", "accept", "revoke"},
            s : Sessions \cup {None}, d : Devices \cup {NoId}, cert : Int, token : Nat,
            admin : Nat, wait : Loops \cup {NoId}]
ConnectorLoop == [pc : {"off", "ensure", "host_update", "host_save", "poll", "device",
                        "device_update", "device_save"},
                  aborted : BOOLEAN, for : Devices \cup {NoId}, read : Conf, cert : Int]

TypeOK ==
    /\ max \in Instances /\ clock \in Nat /\ admin \in Nat /\ up \in BOOLEAN
    /\ relay \in [Ids -> Row] /\ disk \in [Ids -> [cert : Int, revoked : BOOLEAN]]
    /\ sessions \in [Sessions -> {"none", "open", "used", "expired"}]
    /\ secret \in Conf /\ conf \in Conf
    /\ pending \in [Sessions -> [active : BOOLEAN, d : Devices \cup {NoId}, token : Nat]]
    /\ calls \in [Calls -> ApiCall] /\ loops \in [Loops -> ConnectorLoop]
    /\ loop \in Loops \cup {NoId}
    /\ app \in [Devices -> [session : Sessions \cup {None}, token : Nat, own : Int, host : Int]]
    /\ overlap \in [renewal : BOOLEAN, accepts : SUBSET Devices, start : BOOLEAN]
    /\ revoked \subseteq Devices
    /\ spent \in [calls : Nat, failures : Nat, crashes : Nat, token : Nat]

\* A device that was handed its bootstrap is one the relay accepts until it is
\* revoked; except when a request was accepted twice at once: the relay keeps
\* the token of one call and the device is given that of the other, or the call
\* that comes second revokes the device that was just paired.
PairedDeviceIsAccepted ==
    \A d \in Devices : app[d].token # None =>
        \/ d \in overlap.accepts \/ disk[d].revoked
        \/ Authorized(d, app[d].token)

\* An acknowledged revocation is final: neither a renewal nor a pairing at work
\* meanwhile lets the host or the relay accept the device again.
RevocationIsFinal ==
    \A d \in revoked : disk[d].revoked /\ ~Authorized(d, app[d].token)

\* A host certificate that is due is renewed while the host runs; except when
\* the relay failed as the host started, after which no loop tries again, or the
\* relay's administration token is not the one configured.
HostCertificateIsRenewed ==
    (Due(conf.cert) /\ up) ~> \/ ~up \/ ~Due(conf.cert)
                            \/ overlap.start \/ overlap.renewal \/ conf.admin # admin
=============================================================================
