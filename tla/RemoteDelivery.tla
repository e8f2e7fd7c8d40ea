--------------------------- MODULE RemoteDelivery ---------------------------
(***************************************************************************)
(* Requests and responses between the paired devices and the host, through *)
(* the relay: the queues of services/remote-relay, the outbound connector  *)
(* of packages/remote-bridge with its persisted state, and the transport   *)
(* of the macOS app in remote mode (RemoteDeviceClient.swift).             *)
(*                                                                         *)
(* Between two awaits a step is atomic.  The connector persists its state  *)
(* after every change and before the next await, so memory and disk are    *)
(* one record, `host`; a crash loses the batch and the handler's result.   *)
(* A send of the app works on its own copy of the configuration.           *)
(*                                                                         *)
(* Abstracted: cryptography (an envelope is what it carries), certificates *)
(* and their expiry, bearers, long polling, page sizes.                    *)
(***************************************************************************)
EXTENDS Integers, Sequences, FiniteSets

CONSTANTS
    Devices,      \* paired devices
    MaxRequests,  \* bound: sends per device
    MaxSends,     \* bound: sends of one device at a time
    MaxHandled,   \* bound: how far the handlings of a request are counted
    Instances     \* the bounds TLC explores together, one record per instance:
                  \*   requests, sends: MaxRequests and MaxSends of the instance
                  \*   devices: the devices that send
                  \*   kinds: kinds of request, of "read", "denied" and "renew"
                  \*   crashes (of the host and of the apps), faults (failed relay calls),
                  \*     expiries (messages the relay expires): how many at most
                  \*   capacity: the relay's items per inbox
                  \*   revoke: devices are revoked

Host == "host"

ASSUME DeliveryAssumption ==
    /\ Host \notin Devices
    /\ {MaxRequests, MaxSends} \subseteq Nat /\ MaxHandled \in Nat \ {0}
    /\ Instances \subseteq
        [requests : 0..MaxRequests, sends : 0..MaxSends, devices : SUBSET Devices,
         kinds : SUBSET {"read", "denied", "renew"}, crashes : Nat, faults : Nat,
         expiries : Nat, capacity : Nat, revoke : BOOLEAN]

VARIABLES
    max,      \* the instance's bounds
    log,      \* per inbox, every message ever queued; its place is its cursor
    held,     \* per inbox, the cursors still queued
    fresh,    \* messages the relay remembers, oldest first: inbox, cursor, id
    enrolled, \* devices active at the relay
    trusted,  \* devices active at the host
    host,     \* RemoteConnectorPersistedState
    hpc,      \* the connector: "idle" or "dispatched"
    batch,    \* items polled and not yet taken
    audit,    \* per request, remote_action_audit.outcome
    config,   \* per device, the saved RemoteDeviceConfiguration
    sends,    \* per device and slot, a send in flight
    sent,     \* per device, sends started
    crashes, faults, expiries,
    effects   \* history: how often each request was handled

relay    == <<log, held, fresh>>
hostVars == <<host, hpc, batch, audit, effects>>
appVars  == <<config, sends, sent>>
trust    == <<enrolled, trusted>>
bounds   == <<max, crashes, faults, expiries>>
vars     == <<relay, hostVars, appVars, trust, bounds>>

Inboxes  == Devices \cup {Host}
Slots    == 1..MaxSends
Requests == Devices \X (1..MaxRequests)
None     == [cursor |-> 0]

\* The id names the message: a request by its device and number, a response by
\* its request and the handling that produced it.
Request(d, n, k, s) == [id |-> <<d, n>>, from |-> d, seq |-> s, kind |-> k, re |-> <<d, n>>]
Response(q, n, s)   == [id |-> <<Host, q, n>>, from |-> Host, seq |-> s, kind |-> "response", re |-> q]

Idle == [pc |-> "idle", cfg |-> [out |-> 0, in |-> 0, cursor |-> 0, ack |-> 0],
         n |-> 0, kind |-> "none", got |-> <<>>]

Init ==
    /\ max \in Instances
    /\ log = [i \in Inboxes |-> <<>>] /\ held = [i \in Inboxes |-> {}] /\ fresh = <<>>
    /\ enrolled = Devices /\ trusted = Devices
    /\ host = [cursor |-> 0, in |-> [d \in Devices |-> 0], out |-> [d \in Devices |-> 0],
               pending |-> None]
    /\ hpc = "idle" /\ batch = <<>>
    /\ audit = [q \in Requests |-> "none"] /\ effects = [q \in Requests |-> 0]
    /\ config = [d \in Devices |-> Idle.cfg]
    /\ sends = [d \in Devices |-> [k \in Slots |-> Idle]]
    /\ sent = [d \in Devices |-> 0]
    /\ crashes = 0 /\ faults = 0 /\ expiries = 0

-----------------------------------------------------------------------------
(* The relay *)

\* isDeviceActive, authorizeDevice: the device is registered and not revoked.
Active(d) == d \in enrolled

Remembered(m) == \E i \in DOMAIN fresh : fresh[i].id = m.id

\* Mutant: a message it remembers is refused.
AcceptsOnce(i, m) ==
    /\ i = Host \/ Active(i)
    /\ ~Remembered(m) /\ Cardinality(held[i]) < max.capacity

\* publish: refused when the recipient is not active or its inbox is full; a
\* message it remembers is not queued again.
Accepts(i, m) ==
    /\ i = Host \/ Active(i)
    /\ Remembered(m) \/ Cardinality(held[i]) < max.capacity

Queued(i, m) ==
    IF Remembered(m)
    THEN UNCHANGED relay
    ELSE /\ log' = [log EXCEPT ![i] = Append(@, m)]
         /\ held' = [held EXCEPT ![i] = @ \cup {Len(log[i]) + 1}]
         /\ fresh' = Append(fresh, [at |-> i, cursor |-> Len(log[i]) + 1, id |-> m.id])

\* acknowledge
Acked(i, c) ==
    /\ held' = [held EXCEPT ![i] = {x \in @ : x > c}]
    /\ UNCHANGED <<log, fresh>>

\* list
After(i, c) == {x \in held[i] : x > c}

\* The recipient's check: the items must follow its cursor without a gap.
Contiguous(i, c) == After(i, c) = (c + 1)..(c + Cardinality(After(i, c)))

Ranked(S, k) == CHOOSE x \in S : Cardinality({y \in S : y < x}) = k - 1

Items(i, c) ==
    [k \in 1..Cardinality(After(i, c)) |->
        LET x == Ranked(After(i, c), k) IN [cursor |-> x, msg |-> log[i][x]]]

\* cleanup: the lifetime is the same for all messages, so they expire in order.
Expire ==
    /\ fresh # <<>> /\ expiries < max.expiries
    /\ LET f == Head(fresh) IN held' = [held EXCEPT ![f.at] = @ \ {f.cursor}]
    /\ fresh' = Tail(fresh) /\ expiries' = expiries + 1
    /\ UNCHANGED <<log, hostVars, appVars, trust, crashes, faults, max>>

\* A relay call either has its effect or, while faults are left, has it or not
\* and fails.
Call(effect, ok, failed) ==
    \/ effect /\ ok /\ UNCHANGED faults
    \/ faults < max.faults /\ faults' = faults + 1 /\ failed /\ (effect \/ UNCHANGED relay)

-----------------------------------------------------------------------------
(* The host connector: processOnce and finishPending *)

Dropped == hpc' = "idle" /\ batch' = <<>>

HostPoll ==
    /\ hpc = "idle" /\ batch = <<>> /\ host.pending = None
    /\ After(Host, host.cursor) # {} /\ Contiguous(Host, host.cursor)
    /\ batch' = Items(Host, host.cursor)
    /\ UNCHANGED <<relay, host, hpc, audit, effects, appVars, trust, bounds>>

\* resolveSenderCertificate and openRemoteEnvelope
Opens(m) == m.from \in trusted /\ m.seq > host.in[m.from]

HostReject ==
    /\ hpc = "idle" /\ batch # <<>> /\ host.pending = None
    /\ ~Opens(Head(batch).msg)
    /\ Dropped
    /\ UNCHANGED <<relay, host, audit, effects, appVars, trust, bounds>>

\* handleRequest returns.
HostHandle ==
    /\ hpc = "idle" /\ batch # <<>> /\ host.pending = None
    /\ LET m == Head(batch).msg
       IN  /\ Opens(m) /\ m.kind # "denied"
           /\ effects' = [effects EXCEPT ![m.re] = IF @ < MaxHandled THEN @ + 1 ELSE @]
    /\ hpc' = "dispatched"
    /\ UNCHANGED <<relay, host, batch, audit, appVars, trust, bounds>>

\* handleRequest throws: the action is not allowed, or the relay call of a
\* certificate renewal failed.  The failure is audited, once.
HostHandlerThrows ==
    /\ hpc = "idle" /\ batch # <<>> /\ host.pending = None
    /\ LET m == Head(batch).msg
       IN  /\ Opens(m)
           /\ \/ m.kind = "denied" /\ UNCHANGED faults
              \/ m.kind = "renew" /\ faults < max.faults /\ faults' = faults + 1
           /\ audit' = [audit EXCEPT ![m.re] = IF @ = "none" THEN "failed" ELSE @]
    /\ Dropped
    /\ UNCHANGED <<relay, host, effects, appVars, trust, crashes, expiries, max>>

\* The audit of the outcome, then the response sealed and the delivery persisted.
\* An audit entry of another outcome throws.
HostRecord ==
    /\ hpc = "dispatched"
    /\ LET it == Head(batch)
           m  == it.msg
       IN  IF audit[m.re] = "failed"
           THEN Dropped /\ UNCHANGED <<audit, host>>
           ELSE /\ audit' = [audit EXCEPT ![m.re] = "accepted"]
                /\ host' = [host EXCEPT !.pending =
                     [cursor |-> it.cursor, dev |-> m.from, in |-> m.seq,
                      msg |-> Response(m.re, effects[m.re], host.out[m.from] + 1),
                      published |-> FALSE, committed |-> FALSE]]
                /\ hpc' = "idle" /\ batch' = Tail(batch)
    /\ UNCHANGED <<relay, effects, appVars, trust, bounds>>

\* finishPending, first await
HostPublish ==
    LET p == host.pending IN
    /\ p # None /\ ~p.published /\ Accepts(p.dev, p.msg)
    /\ Call(Queued(p.dev, p.msg),
            host' = [host EXCEPT !.pending.published = TRUE] /\ UNCHANGED batch,
            UNCHANGED host /\ batch' = <<>>)
    /\ UNCHANGED <<hpc, audit, effects, appVars, trust, crashes, expiries, max>>

HostCommit ==
    LET p == host.pending IN
    /\ p # None /\ p.published /\ ~p.committed
    /\ host' = [host EXCEPT !.in[p.dev] = p.in, !.out[p.dev] = p.msg.seq,
                            !.pending.committed = TRUE]
    /\ UNCHANGED <<relay, hpc, batch, audit, effects, appVars, trust, bounds>>

\* Mutant: the request is acknowledged before its response is published.
AckEarly ==
    LET p == host.pending IN
    /\ p # None
    /\ Call(Acked(Host, p.cursor),
            host' = [host EXCEPT !.cursor = p.cursor, !.pending = None] /\ UNCHANGED batch,
            UNCHANGED host /\ batch' = <<>>)
    /\ UNCHANGED <<hpc, audit, effects, appVars, trust, crashes, expiries, max>>

\* finishPending, last await
HostAck ==
    LET p == host.pending IN
    /\ p # None /\ p.published /\ p.committed
    /\ Call(Acked(Host, p.cursor),
            host' = [host EXCEPT !.cursor = p.cursor, !.pending = None] /\ UNCHANGED batch,
            UNCHANGED host /\ batch' = <<>>)
    /\ UNCHANGED <<hpc, audit, effects, appVars, trust, crashes, expiries, max>>

\* Mutant: the delivery is not persisted.
CrashLosesDelivery ==
    /\ crashes < max.crashes /\ crashes' = crashes + 1
    /\ Dropped
    /\ host' = [host EXCEPT !.pending = None]
    /\ UNCHANGED <<relay, audit, effects, appVars, trust, faults, expiries, max>>

\* A crash; between the handler's return and the delivery the audit may be there.
HostCrash ==
    /\ crashes < max.crashes /\ crashes' = crashes + 1
    /\ Dropped
    /\ \/ UNCHANGED audit
       \/ /\ hpc = "dispatched" /\ audit[Head(batch).msg.re] = "none"
          /\ audit' = [audit EXCEPT ![Head(batch).msg.re] = "accepted"]
    /\ UNCHANGED <<relay, host, effects, appVars, trust, faults, expiries, max>>

-----------------------------------------------------------------------------
(* The app in remote mode: RemoteDeviceTransport.send *)

Save(d, k, s) ==
    /\ sends' = [sends EXCEPT ![d][k] = s]
    /\ config' = [config EXCEPT ![d] = s.cfg]
Fail(d, k) == sends' = [sends EXCEPT ![d][k] = Idle] /\ UNCHANGED config

\* The next sequence is saved before the request is published.
Numbered(s) == [s EXCEPT !.pc = "publish", !.cfg.out = @ + 1]

Start(d, k, s) == Save(d, k, Numbered(s))

AppSend(d, k, kind) ==
    LET s == [Idle EXCEPT !.cfg = config[d], !.n = sent[d] + 1, !.kind = kind] IN
    /\ sends[d][k].pc = "idle" /\ sent[d] < max.requests /\ d \in max.devices
    /\ sent' = [sent EXCEPT ![d] = @ + 1]
    /\ IF config[d].ack = 0
       THEN Start(d, k, s)
       ELSE sends' = [sends EXCEPT ![d][k] = [s EXCEPT !.pc = "ack_first"]] /\ UNCHANGED config
    /\ UNCHANGED <<relay, hostVars, trust, bounds>>

\* The acknowledgement left by an earlier send.
AppAckFirst(d, k) ==
    LET s == sends[d][k] IN
    /\ s.pc = "ack_first" /\ Active(d)
    /\ Call(Acked(d, s.cfg.ack),
            Start(d, k, [s EXCEPT !.cfg.cursor = s.cfg.ack, !.cfg.ack = 0]),
            Fail(d, k))
    /\ UNCHANGED <<sent, hostVars, trust, crashes, expiries, max>>

AppPublish(d, k) ==
    LET s == sends[d][k]
        m == Request(d, s.n, s.kind, s.cfg.out)
    IN
    /\ s.pc = "publish" /\ Active(d) /\ Accepts(Host, m)
    /\ Call(Queued(Host, m),
            sends' = [sends EXCEPT ![d][k].pc = "poll"] /\ UNCHANGED config,
            Fail(d, k))
    /\ UNCHANGED <<sent, hostVars, trust, crashes, expiries, max>>

\* The next item of the inbox is opened, and what it changes saved, before its
\* acknowledgement; an item that is not fresh throws.
Taken(d, k, s) ==
    IF Head(s.got).msg.seq > s.cfg.in
    THEN Save(d, k, [s EXCEPT !.pc = "ack", !.cfg.in = Head(s.got).msg.seq,
                              !.cfg.ack = Head(s.got).cursor])
    ELSE Fail(d, k)

AppPoll(d, k) ==
    LET s == sends[d][k] IN
    /\ s.pc = "poll" /\ Active(d) /\ After(d, s.cfg.cursor) # {}
    /\ IF Contiguous(d, s.cfg.cursor)
       THEN Taken(d, k, [s EXCEPT !.got = Items(d, s.cfg.cursor)])
       ELSE Fail(d, k)
    /\ UNCHANGED <<relay, sent, hostVars, trust, bounds>>

\* After its acknowledgement: the answer to this send ends it, another is ignored.
AppAck(d, k) ==
    LET s == sends[d][k]
        t == [s EXCEPT !.cfg.cursor = s.cfg.ack, !.cfg.ack = 0, !.got = Tail(@)]
    IN
    /\ s.pc = "ack" /\ Active(d)
    /\ Call(Acked(d, s.cfg.ack),
            IF Head(s.got).msg.re = <<d, s.n>>
            THEN config' = [config EXCEPT ![d] = t.cfg] /\ sends' = [sends EXCEPT ![d][k] = Idle]
            ELSE IF t.got = <<>> THEN Save(d, k, [t EXCEPT !.pc = "poll"])
            ELSE IF Head(t.got).msg.seq > t.cfg.in
            THEN Taken(d, k, t)
            ELSE config' = [config EXCEPT ![d] = t.cfg] /\ sends' = [sends EXCEPT ![d][k] = Idle],
            Fail(d, k))
    /\ UNCHANGED <<sent, hostVars, trust, crashes, expiries, max>>

\* The deadline, a call the relay refuses, a cancelled task.
AppGivesUp(d, k) ==
    /\ sends[d][k].pc # "idle" /\ Fail(d, k)
    /\ UNCHANGED <<relay, sent, hostVars, trust, bounds>>

AppCrash(d) ==
    /\ crashes < max.crashes /\ crashes' = crashes + 1
    /\ sends' = [sends EXCEPT ![d] = [k \in Slots |-> Idle]]
    /\ UNCHANGED <<relay, config, sent, hostVars, trust, faults, expiries, max>>

-----------------------------------------------------------------------------
(* Revocation: the host first, then the relay, which a retry may reach later *)

Revoke(d) ==
    /\ max.revoke /\ d \in trusted
    /\ trusted' = trusted \ {d}
    /\ UNCHANGED <<relay, hostVars, appVars, enrolled, bounds>>

RevokeAtRelay(d) ==
    /\ d \in enrolled \ trusted
    /\ enrolled' = enrolled \ {d}
    /\ UNCHANGED <<relay, hostVars, appVars, trusted, bounds>>

HostSteps ==
    \/ HostPoll \/ HostReject \/ HostHandle \/ HostHandlerThrows \/ HostRecord
    \/ HostPublish \/ HostCommit \/ HostAck

Next ==
    \/ HostSteps \/ HostCrash \/ Expire
    \/ \E d \in Devices :
        \/ \E k \in 1..max.sends :
            \/ \E kind \in max.kinds : AppSend(d, k, kind)
            \/ AppAckFirst(d, k) \/ AppPublish(d, k) \/ AppPoll(d, k) \/ AppAck(d, k)
            \/ AppGivesUp(d, k)
        \/ AppCrash(d) \/ Revoke(d) \/ RevokeAtRelay(d)

Spec == Init /\ [][Next]_vars

\* The connector loop retries for ever with a bounded delay.
FairSpec == Spec /\ WF_vars(HostSteps)

-----------------------------------------------------------------------------
(* Properties *)

RequestMessage  == [id : Requests, from : Devices, seq : Nat, kind : {"read", "denied", "renew"},
                    re : Requests]
ResponseMessage == [id : {Host} \X Requests \X Nat, from : {Host}, seq : Nat, kind : {"response"},
                    re : Requests]
Config == [out : Nat, in : Nat, cursor : Nat, ack : Nat]
AppSending == {s \in [pc : {"idle", "ack_first", "publish", "poll", "ack"}, cfg : Config,
                       n : 0..MaxRequests, kind : {"none", "read", "denied", "renew"},
                       got : Seq([cursor : Nat, msg : ResponseMessage])] :
                 s.kind = "none" => s.pc = "idle"}
Delivery == [cursor : Nat \ {0}, dev : Devices, in : Nat, msg : ResponseMessage,
             published : BOOLEAN, committed : BOOLEAN]

TypeOK ==
    /\ max \in Instances
    /\ log \in [Inboxes -> Seq(RequestMessage \cup ResponseMessage)]
    /\ log[Host] \in Seq(RequestMessage) /\ \A d \in Devices : log[d] \in Seq(ResponseMessage)
    /\ held \in [Inboxes -> SUBSET Nat]
    /\ fresh \in Seq([at : Inboxes, cursor : Nat, id : Requests \cup ({Host} \X Requests \X Nat)])
    /\ enrolled \subseteq Devices /\ trusted \subseteq Devices
    /\ host \in [cursor : Nat, in : [Devices -> Nat], out : [Devices -> Nat],
                 pending : {None} \cup Delivery]
    /\ hpc \in {"idle", "dispatched"} /\ batch \in Seq([cursor : Nat, msg : RequestMessage])
    /\ audit \in [Requests -> {"none", "accepted", "failed"}]
    /\ effects \in [Requests -> 0..MaxHandled]
    /\ config \in [Devices -> Config]
    /\ sends \in [Devices -> [Slots -> AppSending]]
    /\ sent \in [Devices -> 0..MaxRequests]
    /\ {crashes, faults, expiries} \subseteq Nat

Published(i) == {log[i][x] : x \in DOMAIN log[i]}
Answers(q)   == {m \in UNION {Published(d) : d \in Devices} : m.re = q}

\* A request has one answer: retries after failures and restarts publish the
\* response that was sealed first (ADR-0007, 6), and only a crash before the
\* delivery is persisted runs the handler again (ADR-0008: at-least-once).  A
\* renewal that was audited as failed is excepted: it succeeds again and again,
\* and is never answered.
OneAnswer ==
    \A q \in Requests :
        /\ Cardinality(Answers(q)) <= 1
        /\ effects[q] <= 1 + crashes \/ (audit[q] = "failed" /\ Answers(q) = {})

\* No sender uses a sequence number for two envelopes, the host towards one
\* device, a device towards the host: the recipient would take the second
\* for a replay and never get past it.  Overlapping sends of one device are
\* excepted: the older saves its copy of the configuration over the newer's.
SequencesAreFresh ==
    \A i \in Inboxes : \A m, n \in Published(i) :
        m.from = n.from /\ m.seq = n.seq => m.id = n.id \/ (i = Host /\ max.sends > 1)

\* Nothing is done, answered or numbered twice, whatever fails and is retried.
NothingIsRepeated == OneAnswer /\ SequencesAreFresh

\* The relay's queue moves: a request it took is answered.  Excepted are the
\* ways one item holds the queue for all: a failure audited once (a refused
\* action, or a renewal whose relay call failed), an expired message, a device
\* revoked with requests queued or away with a full inbox, overlapping sends of
\* one device, whose requests may arrive out of their order.
RequestsAreAnswered ==
    \A q \in Requests :
        (\E m \in Published(Host) : m.id = q) ~>
            \/ Answers(q) # {}
            \/ expiries > 0 \/ trusted # Devices \/ max.sends > 1
            \/ \E r \in Requests : audit[r] = "failed"
            \/ \E d \in Devices : Cardinality(held[d]) = max.capacity

\* The promise to the devices.
Service == INSTANCE OrderedService WITH
    accepted <- [c \in DOMAIN log[Host] |-> log[Host][c].re],
    answered <- {q \in Requests : Answers(q) # {}},
    done     <- host.cursor

ServesInOrder == Service!Spec
=============================================================================
