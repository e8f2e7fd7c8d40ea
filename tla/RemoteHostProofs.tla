-------------------------- MODULE RemoteHostProofs --------------------------
\* Theorems of RemoteHost, for any devices, calls and bounds.
EXTENDS RemoteHost, TLAPS

----------------------------------------------------------------------------
(* Types.                                                                  *)

\* Calls, loops, configurations and pairings that are not there have their types.
LEMMA NothingTypes ==
    Idle \in ApiCall /\ Off \in ConnectorLoop /\ NoConf \in Conf
    /\ NoPairing \in [active : BOOLEAN, d : Devices \cup {NoId}, token : Nat]
<1>1. NoConf \in Conf BY DEF NoConf, Conf, None
<1>2. Idle \in ApiCall BY DEF Idle, ApiCall, None
<1>3. Off \in ConnectorLoop BY <1>1 DEF Off, ConnectorLoop
<1>. QED BY <1>1, <1>2, <1>3 DEF NoPairing, None

\* The relay's rows stay rows.
LEMMA RelayTypes ==
    ASSUME TypeOK, NEW i \in Ids, NEW cert \in Int, NEW token \in Nat,
           \/ Registered(i, cert, token) \/ RevokedAtRelay(i) \/ Updated(i, cert)
           \/ UNCHANGED relay
    PROVE  relay' \in [Ids -> Row]
<1>1. relay \in [Ids -> Row] BY DEF TypeOK
<1>2. CASE Registered(i, cert, token) BY <1>1, <1>2 DEF Registered, Row
<1>3. CASE RevokedAtRelay(i) BY <1>1, <1>3 DEF RevokedAtRelay, Row
<1>4. CASE Updated(i, cert) BY <1>1, <1>4 DEF Updated, Row
<1>. QED BY <1>1, <1>2, <1>3, <1>4

\* So do the host's own.
LEMMA DiskTypes ==
    ASSUME TypeOK, NEW i \in Ids, NEW cert \in Int, RegisterLocally(i, cert)
    PROVE  disk' \in [Ids -> [cert : Int, revoked : BOOLEAN]]
<1>1. disk \in [Ids -> [cert : Int, revoked : BOOLEAN]] BY DEF TypeOK
<1>. QED BY <1>1 DEF RegisterLocally

\* A call that moves on is a call, and so is a call that returned.
LEMMA CallTypes ==
    ASSUME TypeOK, NEW k \in Calls,
           \/ \E pc \in {"save", "complete", "compensate"} : Step(k, pc)
           \/ Return(k) \/ UNCHANGED calls
    PROVE  calls' \in [Calls -> ApiCall]
<1>0. calls \in [Calls -> ApiCall] BY DEF TypeOK
<1>1. ASSUME NEW pc \in {"save", "complete", "compensate"}, Step(k, pc)
      PROVE  calls' \in [Calls -> ApiCall]
  BY <1>0, <1>1 DEF Step, ApiCall
<1>2. CASE Return(k) BY <1>0, <1>2, NothingTypes DEF Return
<1>. QED BY <1>0, <1>1, <1>2

\* A loop that moves on is a loop.
LEMMA LoopTypes ==
    ASSUME TypeOK, NEW l \in Loops,
           \/ \E pc \in {"poll", "device", "ensure", "host_save", "device_save"} : Goto(l, pc)
           \/ Served(l) \/ Failed(l) \/ UNCHANGED loops
    PROVE  loops' \in [Loops -> ConnectorLoop]
<1>0. loops \in [Loops -> ConnectorLoop] BY DEF TypeOK
<1>1. ASSUME NEW pc \in {"poll", "device", "ensure", "host_save", "device_save"}, Goto(l, pc)
      PROVE  loops' \in [Loops -> ConnectorLoop]
  BY <1>0, <1>1 DEF Goto, ConnectorLoop
<1>2. [Off EXCEPT !.pc = "poll"] \in ConnectorLoop /\ [Off EXCEPT !.pc = "ensure"] \in ConnectorLoop
  BY NothingTypes DEF ConnectorLoop
<1>3. CASE Served(l) BY <1>0, <1>2, <1>3, NothingTypes DEF Served
<1>4. CASE Failed(l) BY <1>0, <1>2, <1>4, NothingTypes DEF Failed
<1>. QED BY <1>0, <1>1, <1>3, <1>4

\* What the app takes keeps its type.
LEMMA AppTypes ==
    ASSUME TypeOK, NEW d \in Devices, NEW own \in Int, NEW host \in Int, NEW token \in Nat,
           \/ app' = Accepted(d, own, host) \/ app' = Completed(d, token, own) \/ UNCHANGED app
    PROVE  app' \in [Devices -> [session : Sessions \cup {None}, token : Nat, own : Int, host : Int]]
<1>. DEFINE App == [session : Sessions \cup {None}, token : Nat, own : Int, host : Int]
<1>0. app \in [Devices -> App] BY DEF TypeOK
<1>1. CASE app' = Accepted(d, own, host)
  <2>1. CASE app' = app BY <1>0, <2>1
  <2>2. CASE app' = [app EXCEPT ![d].own = own, ![d].host = host]
    <3>1. app' = [app EXCEPT ![d] = [app[d] EXCEPT !.own = own, !.host = host]]
      BY <1>0, <2>2
    <3>2. [app[d] EXCEPT !.own = own, !.host = host] \in App BY <1>0
    <3>. QED BY <1>0, <3>1, <3>2
  <2>. QED BY <1>1, <2>1, <2>2 DEF Accepted
<1>2. CASE app' = Completed(d, token, own)
  <2>1. conf.cert \in Int BY DEF TypeOK, Conf
  <2>2. CASE app[d].token # None BY <1>0, <1>2, <2>2 DEF Completed
  <2>3. CASE app[d].token = None
    <3>1. app' = [app EXCEPT ![d] = [app[d] EXCEPT !.token = token, !.own = own, !.host = conf.cert]]
      BY <1>0, <1>2, <2>3 DEF Completed
    <3>2. [app[d] EXCEPT !.token = token, !.own = own, !.host = conf.cert] \in App
      BY <1>0, <2>1
    <3>. QED BY <1>0, <3>1, <3>2
  <2>. QED BY <2>2, <2>3
<1>. QED BY <1>0, <1>1, <1>2

\* The bounds spent are counted.
LEMMA SpentTypes ==
    ASSUME TypeOK,
           \/ UNCHANGED spent \/ spent' = [spent EXCEPT !.failures = @ + 1]
           \/ spent' = [spent EXCEPT !.crashes = @ + 1]
    PROVE  spent' \in [calls : Nat, failures : Nat, crashes : Nat, token : Nat]
<1>0. spent \in [calls : Nat, failures : Nat, crashes : Nat, token : Nat] BY DEF TypeOK
<1>1. CASE spent' = [spent EXCEPT !.failures = @ + 1] BY <1>0, <1>1
<1>2. CASE spent' = [spent EXCEPT !.crashes = @ + 1] BY <1>0, <1>2
<1>. QED BY <1>0, <1>1, <1>2

\* A call that starts is counted, and one that accepts draws a token.
LEMMA CalledTypes ==
    ASSUME TypeOK, NEW k \in Calls, NEW op, Call(k, op)
    PROVE  /\ spent' \in [calls : Nat, failures : Nat, crashes : Nat, token : Nat]
           /\ spent'.token = IF op = "accept" THEN spent.token + 1 ELSE spent.token
<1>0. spent \in [calls : Nat, failures : Nat, crashes : Nat, token : Nat] BY DEF TypeOK
<1>1. CASE op = "accept"
  <2>1. spent' = [spent EXCEPT !.calls = @ + 1, !.token = @ + 1] BY <1>1 DEF Call
  <2>2. spent' = [calls |-> spent.calls + 1, failures |-> spent.failures,
                  crashes |-> spent.crashes, token |-> spent.token + 1]
    BY <1>0, <2>1
  <2>. QED BY <1>0, <1>1, <2>2
<1>2. CASE op # "accept"
  <2>1. spent' = [spent EXCEPT !.calls = @ + 1, !.token = @] BY <1>2 DEF Call
  <2>2. spent' = [calls |-> spent.calls + 1, failures |-> spent.failures,
                  crashes |-> spent.crashes, token |-> spent.token]
    BY <1>0, <2>1
  <2>. QED BY <1>0, <1>2, <2>2
<1>. QED BY <1>1, <1>2

\* The host's rows, loops and app a run starts with have their types.
LEMMA InitTypes == Init => TypeOK
<1>. SUFFICES ASSUME Init PROVE TypeOK OBVIOUS
<1>. USE NothingTypes
<1>1. /\ max \in Instances /\ clock = 0 /\ admin = 1 /\ up = TRUE /\ revoked = {}
      /\ loop = (CHOOSE l \in Loops : TRUE)
  BY DEF Init
<1>2. loop \in Loops BY <1>1, InstancesAssumption
<1>3. relay \in [Ids -> Row] BY DEF Init, Row, NoRow, None
<1>4. disk \in [Ids -> [cert : Int, revoked : BOOLEAN]]
  <2>1. disk = [i \in Ids |-> [cert |-> relay[i].cert, revoked |-> FALSE]] BY DEF Init
  <2>. QED BY <1>3, <2>1 DEF Row
<1>5. secret \in Conf /\ conf \in Conf
  <2>1. secret = [cert |-> 0, admin |-> 1] /\ conf = secret BY DEF Init
  <2>. QED BY <2>1 DEF Conf
<1>6. sessions \in [Sessions -> {"none", "open", "used", "expired"}] BY DEF Init
<1>7. pending \in [Sessions -> [active : BOOLEAN, d : Devices \cup {NoId}, token : Nat]] BY DEF Init
<1>8. calls \in [Calls -> ApiCall] BY DEF Init
<1>9. loops \in [Loops -> ConnectorLoop]
  <2>1. [Off EXCEPT !.pc = "ensure"] \in ConnectorLoop BY DEF ConnectorLoop
  <2>. QED BY <2>1 DEF Init
<1>10. app \in [Devices -> [session : Sessions \cup {None}, token : Nat, own : Int, host : Int]]
  <2>1. app = [d \in Devices |-> [session |-> None, token |-> relay[d].token,
                                  own |-> relay[d].cert, host |-> relay[d].cert]]
    BY DEF Init
  <2>2. \A d \in Devices : relay[d] \in Row BY <1>3 DEF Ids
  <2>. QED BY <2>1, <2>2 DEF Row
<1>11. overlap \in [renewal : BOOLEAN, accepts : SUBSET Devices, start : BOOLEAN]
  <2>1. overlap = [renewal |-> FALSE, accepts |-> {}, start |-> FALSE] BY DEF Init
  <2>. QED BY <2>1
<1>12. spent \in [calls : Nat, failures : Nat, crashes : Nat, token : Nat]
  <2>1. spent = [calls |-> 0, failures |-> 0, crashes |-> 0, token |-> 1] BY DEF Init
  <2>. QED BY <2>1
<1>. QED BY <1>1, <1>2, <1>3, <1>4, <1>5, <1>6, <1>7, <1>8, <1>9, <1>10, <1>11, <1>12 DEF TypeOK

\* What a call is about while it is at work.
CallFits(c) ==
    /\ c.pc \in {"pair", "complete", "compensate"} <=> c.op = "accept"
    /\ c.pc = "revoke" <=> c.op = "revoke"
    /\ c.op \in {"accept", "revoke"} => c.d \in Devices
    /\ c.op = "accept" => c.s \in Sessions
CallsFit == \A k \in Calls : CallFits(calls[k])

\* What a call of the API leaves has its types.
LEMMA CallStepTypes ==
    ASSUME TypeOK, CallsFit, NEW k \in Calls, Configure(k) \/ CallSteps(k)
    PROVE  TypeOK'
<1>. USE NothingTypes DEF durable, memory, history
<1>C. /\ calls \in [Calls -> ApiCall] /\ calls[k] \in ApiCall /\ clock \in Int /\ admin \in Nat
      /\ loop \in Loops \cup {NoId} /\ conf \in Conf /\ Host \in Ids /\ Devices \subseteq Ids
      /\ loops \in [Loops -> ConnectorLoop]
      /\ overlap \in [renewal : BOOLEAN, accepts : SUBSET Devices, start : BOOLEAN]
  BY DEF TypeOK, Ids
<1>D. calls[k].cert \in Int /\ calls[k].token \in Nat /\ calls[k].admin \in Nat
      /\ calls[k].d \in Devices \cup {NoId} /\ calls[k].s \in Sessions \cup {None}
  BY <1>C DEF ApiCall
<1>1. CASE Configure(k)
  <2>1. calls' \in [Calls -> ApiCall] BY <1>1, <1>C DEF Configure, ApiCall
  <2>2. spent' \in [calls : Nat, failures : Nat, crashes : Nat, token : Nat]
    BY <1>1, CalledTypes DEF Configure
  <2>. QED BY <1>1, <2>1, <2>2 DEF TypeOK, Configure
<1>2. CASE Enroll(k)
  <2>1. relay' \in [Ids -> Row]
    <3>1. Registered(Host, calls[k].cert, 1) \/ UNCHANGED relay BY <1>2 DEF Enroll, Relay
    <3>. QED BY <1>C, <1>D, <3>1, RelayTypes
  <2>2. calls' \in [Calls -> ApiCall] BY <1>2, CallTypes DEF Enroll, Relay
  <2>3. spent' \in [calls : Nat, failures : Nat, crashes : Nat, token : Nat]
    BY <1>2, SpentTypes DEF Enroll, Relay
  <2>. QED BY <1>2, <2>1, <2>2, <2>3 DEF TypeOK, Enroll
<1>3. CASE Save(k)
  <2>1. disk' \in [Ids -> [cert : Int, revoked : BOOLEAN]] BY <1>3, <1>C, <1>D, DiskTypes DEF Save
  <2>2. secret' \in Conf /\ conf' \in Conf BY <1>3, <1>D DEF Save, Conf
  <2>3. overlap' \in [renewal : BOOLEAN, accepts : SUBSET Devices, start : BOOLEAN]
    BY <1>3, <1>C DEF Save, Overlapping
  <2>4. loops' \in [Loops -> ConnectorLoop] BY <1>3, <1>C DEF Save, ConnectorLoop
  <2>5. calls' \in [Calls -> ApiCall]
    <3>1. calls' = [calls EXCEPT ![k] = [calls[k] EXCEPT !.pc = "restart", !.wait = loop]]
      BY <1>3, <1>C DEF Save
    <3>2. [calls[k] EXCEPT !.pc = "restart", !.wait = loop] \in ApiCall BY <1>C DEF ApiCall
    <3>. QED BY <1>C, <3>1, <3>2
  <2>. QED BY <1>3, <2>1, <2>2, <2>3, <2>4, <2>5 DEF TypeOK, Save
<1>4. CASE Restart(k)
  <2>1. [Off EXCEPT !.pc = "ensure"] \in ConnectorLoop BY DEF ConnectorLoop
  <2>2. loop' \in Loops /\ loops' \in [Loops -> ConnectorLoop] BY <1>4, <1>C, <2>1 DEF Restart
  <2>3. calls' \in [Calls -> ApiCall] BY <1>4, CallTypes DEF Restart
  <2>. QED BY <1>4, <2>2, <2>3 DEF TypeOK, Restart
<1>5. CASE Pair(k)
  <2>1. relay' \in [Ids -> Row]
    <3>1. Registered(calls[k].d, calls[k].cert, calls[k].token) \/ UNCHANGED relay
      BY <1>5 DEF Pair, Relay
    <3>2. calls[k].d \notin Ids => relay' = relay
      BY <1>5, <3>1 DEF TypeOK, Registered
    <3>. QED BY <1>C, <1>D, <3>1, <3>2, RelayTypes DEF TypeOK
  <2>2. calls' \in [Calls -> ApiCall] BY <1>5, CallTypes DEF Pair, Relay
  <2>3. spent' \in [calls : Nat, failures : Nat, crashes : Nat, token : Nat]
    BY <1>5, SpentTypes DEF Pair, Relay
  <2>. QED BY <1>5, <2>1, <2>2, <2>3 DEF TypeOK, Pair
<1>6. CASE Complete(k)
  <2>1. CASE sessions[calls[k].s] = "open"
    <3>0. calls[k].d \in Devices /\ calls[k].s \in Sessions
      BY <1>6 DEF Complete, At, CallsFit, CallFits
    <3>1. disk' \in [Ids -> [cert : Int, revoked : BOOLEAN]]
      BY <1>6, <1>C, <1>D, <2>1, <3>0, DiskTypes DEF Complete
    <3>2. calls' \in [Calls -> ApiCall] BY <1>6, <2>1, CallTypes DEF Complete
    <3>3. app' \in [Devices -> [session : Sessions \cup {None}, token : Nat, own : Int, host : Int]]
      BY <1>6, <1>D, <2>1, <3>0, AppTypes DEF Complete
    <3>4. sessions' \in [Sessions -> {"none", "open", "used", "expired"}]
      BY <1>6, <2>1 DEF TypeOK, Complete
    <3>5. pending' \in [Sessions -> [active : BOOLEAN, d : Devices \cup {NoId}, token : Nat]]
      <4>1. pending \in [Sessions -> [active : BOOLEAN, d : Devices \cup {NoId}, token : Nat]]
        BY DEF TypeOK
      <4>2. pending' = [pending EXCEPT ![calls[k].s] =
                          [pending[calls[k].s] EXCEPT !.d = calls[k].d, !.token = calls[k].token]]
        BY <1>6, <2>1, <3>0, <4>1 DEF Complete
      <4>3. [pending[calls[k].s] EXCEPT !.d = calls[k].d, !.token = calls[k].token]
              \in [active : BOOLEAN, d : Devices \cup {NoId}, token : Nat]
        BY <1>D, <3>0, <4>1
      <4>. QED BY <4>1, <4>2, <4>3
    <3>. QED BY <1>6, <2>1, <3>1, <3>2, <3>3, <3>4, <3>5 DEF TypeOK, Complete
  <2>2. CASE sessions[calls[k].s] # "open"
    <3>1. calls' \in [Calls -> ApiCall] BY <1>6, <2>2, CallTypes DEF Complete
    <3>. QED BY <1>6, <2>2, <3>1 DEF TypeOK, Complete
  <2>. QED BY <2>1, <2>2
<1>7. CASE Compensate(k)
  <2>1. relay' \in [Ids -> Row]
    <3>1. RevokedAtRelay(calls[k].d) \/ UNCHANGED relay BY <1>7 DEF Compensate, Relay
    <3>2. calls[k].d \notin Ids => relay' = relay BY <1>7, <3>1 DEF TypeOK, RevokedAtRelay
    <3>. QED BY <1>C, <1>D, <3>1, <3>2, RelayTypes DEF TypeOK
  <2>2. calls' \in [Calls -> ApiCall] BY <1>7, CallTypes DEF Compensate, Relay
  <2>3. spent' \in [calls : Nat, failures : Nat, crashes : Nat, token : Nat]
    BY <1>7, SpentTypes DEF Compensate, Relay
  <2>. QED BY <1>7, <2>1, <2>2, <2>3 DEF TypeOK, Compensate
<1>8. CASE RevokeAtRelay(k)
  <2>1. relay' \in [Ids -> Row]
    <3>1. RevokedAtRelay(calls[k].d) \/ UNCHANGED relay BY <1>8 DEF RevokeAtRelay, Relay
    <3>2. calls[k].d \notin Ids => relay' = relay BY <1>8, <3>1 DEF TypeOK, RevokedAtRelay
    <3>. QED BY <1>C, <1>D, <3>1, <3>2, RelayTypes DEF TypeOK
  <2>2. calls' \in [Calls -> ApiCall] BY <1>8, CallTypes DEF RevokeAtRelay, Relay
  <2>3. spent' \in [calls : Nat, failures : Nat, crashes : Nat, token : Nat]
    BY <1>8, SpentTypes DEF RevokeAtRelay, Relay
  <2>4. revoked' \subseteq Devices
    <3>1. calls[k].d \in Devices BY <1>8 DEF RevokeAtRelay, At, CallsFit, CallFits
    <3>2. revoked \subseteq Devices BY DEF TypeOK
    <3>3. revoked' \in {revoked, revoked \cup {calls[k].d}} BY <1>8 DEF RevokeAtRelay, Relay
    <3>. QED BY <3>1, <3>2, <3>3
  <2>. QED BY <1>8, <2>1, <2>2, <2>3, <2>4 DEF TypeOK, RevokeAtRelay
<1>. QED BY <1>1, <1>2, <1>3, <1>4, <1>5, <1>6, <1>7, <1>8 DEF CallSteps

\* A call that accepts.
AcceptingCall(s, d, cert, token) ==
    [Idle EXCEPT !.pc = "pair", !.op = "accept", !.s = s, !.d = d, !.cert = cert, !.token = token]

\* An accepting call is a call.
LEMMA AcceptingTypes ==
    ASSUME NEW s \in Sessions, NEW d \in Devices, NEW cert \in Int, NEW token \in Nat, NEW c,
           c = AcceptingCall(s, d, cert, token)
    PROVE  /\ c \in ApiCall
           /\ c.pc = "pair" /\ c.op = "accept" /\ c.s = s /\ c.d = d /\ c.token = token
<1>. DEFINE a == [Idle EXCEPT !.pc = "pair", !.op = "accept", !.s = s]
<1>1. a \in ApiCall /\ a.pc = "pair" /\ a.op = "accept" /\ a.s = s
  BY NothingTypes DEF ApiCall
<1>2. c = [a EXCEPT !.d = d, !.cert = cert, !.token = token] BY DEF AcceptingCall
<1>. HIDE DEF a
<1>. QED BY <1>1, <1>2 DEF ApiCall

\* What pairing, revocation and the process leave has its types.
LEMMA PairingTypes ==
    ASSUME TypeOK, CallsFit,
           \/ \E k \in Calls, d \in Devices : Accept(k, d) \/ Revoke(k, d)
           \/ \E s \in Sessions : CreatePairing(s) \/ Expire(s)
           \/ \E d \in Devices, s \in Sessions : BeginPairing(d, s)
           \/ RotateAdmin \/ Tick \/ Crash \/ Start
    PROVE  TypeOK'
<1>. USE NothingTypes DEF durable, memory, history
<1>C. /\ calls \in [Calls -> ApiCall] /\ clock \in Nat /\ admin \in Nat /\ max \in Instances
      /\ loop \in Loops \cup {NoId} /\ conf \in Conf /\ Host \in Ids /\ Devices \subseteq Ids
      /\ loops \in [Loops -> ConnectorLoop]
      /\ overlap \in [renewal : BOOLEAN, accepts : SUBSET Devices, start : BOOLEAN]
      /\ sessions \in [Sessions -> {"none", "open", "used", "expired"}]
      /\ pending \in [Sessions -> [active : BOOLEAN, d : Devices \cup {NoId}, token : Nat]]
      /\ app \in [Devices -> [session : Sessions \cup {None}, token : Nat, own : Int, host : Int]]
      /\ disk \in [Ids -> [cert : Int, revoked : BOOLEAN]] /\ secret \in Conf
  BY DEF TypeOK, Ids
<1>1. ASSUME NEW k \in Calls, NEW d \in Devices, Accept(k, d) PROVE TypeOK'
  <2>. DEFINE s == app[d].session
  <2>1. s \in Sessions BY <1>1, <1>C DEF Accept
  <2>2. spent' \in [calls : Nat, failures : Nat, crashes : Nat, token : Nat]
    BY <1>1, CalledTypes DEF Accept
  <2>3. CASE app' = Completed(d, pending[s].token, disk[d].cert) /\ UNCHANGED <<calls, overlap>>
    <3>1. pending[s].token \in Nat /\ disk[d].cert \in Int BY <1>C, <2>1
    <3>2. app' \in [Devices -> [session : Sessions \cup {None}, token : Nat, own : Int, host : Int]]
      BY <2>3, <3>1, AppTypes
    <3>. QED BY <1>1, <2>2, <2>3, <3>2 DEF TypeOK, Accept
  <2>4. CASE /\ calls' = [calls EXCEPT ![k] = [Idle EXCEPT !.pc = "pair", !.op = "accept", !.s = s,
                             !.d = d, !.cert = clock, !.token = spent'.token]]
             /\ overlap' = IF \E j \in Calls : calls[j].d = d /\ calls[j].op = "accept"
                           THEN [overlap EXCEPT !.accepts = @ \cup {d}] ELSE overlap
             /\ UNCHANGED app
    <3>1. PICK c : /\ c = AcceptingCall(s, d, clock, spent'.token)
                   /\ calls' = [calls EXCEPT ![k] = c]
      BY <2>4, Zenon DEF AcceptingCall
    <3>1a. c \in ApiCall
      <4>1. spent'.token \in Nat /\ clock \in Int BY <1>C, <2>2
      <4>. QED BY <2>1, <3>1, <4>1, AcceptingTypes
    <3>2. calls' \in [Calls -> ApiCall] BY <1>C, <3>1, <3>1a
    <3>3. overlap' \in [renewal : BOOLEAN, accepts : SUBSET Devices, start : BOOLEAN]
      BY <1>C, <2>4
    <3>. QED BY <1>1, <2>2, <2>4, <3>2, <3>3 DEF TypeOK, Accept
  <2>. QED BY <1>1, <2>3, <2>4 DEF Accept
<1>2. ASSUME NEW k \in Calls, NEW d \in Devices, Revoke(k, d) PROVE TypeOK'
  <2>1. disk' \in [Ids -> [cert : Int, revoked : BOOLEAN]] BY <1>2, <1>C DEF Revoke
  <2>2. calls' \in [Calls -> ApiCall] BY <1>2, <1>C DEF Revoke, ApiCall
  <2>3. spent' \in [calls : Nat, failures : Nat, crashes : Nat, token : Nat]
    BY <1>2, CalledTypes DEF Revoke
  <2>. QED BY <1>2, <2>1, <2>2, <2>3 DEF TypeOK, Revoke
<1>3. ASSUME NEW s \in Sessions, CreatePairing(s) PROVE TypeOK'
  <2>1. sessions' \in [Sessions -> {"none", "open", "used", "expired"}]
    BY <1>3, <1>C DEF CreatePairing
  <2>2. pending' \in [Sessions -> [active : BOOLEAN, d : Devices \cup {NoId}, token : Nat]]
    BY <1>3, <1>C DEF CreatePairing
  <2>. QED BY <1>3, <2>1, <2>2 DEF TypeOK, CreatePairing
<1>4. ASSUME NEW s \in Sessions, Expire(s) PROVE TypeOK'
  <2>1. sessions' \in [Sessions -> {"none", "open", "used", "expired"}]
    BY <1>4, <1>C DEF Expire
  <2>2. pending' \in [Sessions -> [active : BOOLEAN, d : Devices \cup {NoId}, token : Nat]]
    BY <1>4, <1>C DEF Expire
  <2>. QED BY <1>4, <2>1, <2>2 DEF TypeOK, Expire
<1>5. ASSUME NEW d \in Devices, NEW s \in Sessions, BeginPairing(d, s) PROVE TypeOK'
  <2>1. app' \in [Devices -> [session : Sessions \cup {None}, token : Nat, own : Int, host : Int]]
    <3>1. app' = [app EXCEPT ![d] = [app[d] EXCEPT !.session = s]]
      BY <1>5, <1>C DEF BeginPairing
    <3>2. [app[d] EXCEPT !.session = s] \in
            [session : Sessions \cup {None}, token : Nat, own : Int, host : Int]
      BY <1>C
    <3>. QED BY <1>C, <3>1, <3>2
  <2>. QED BY <1>5, <2>1 DEF TypeOK, BeginPairing
<1>6. CASE RotateAdmin BY <1>6 DEF TypeOK, RotateAdmin
<1>7. CASE Tick BY <1>7 DEF TypeOK, Tick
<1>8. CASE Crash
  <2>1. spent' \in [calls : Nat, failures : Nat, crashes : Nat, token : Nat]
    BY <1>8, SpentTypes DEF Crash
  <2>2. /\ conf' \in Conf /\ loop' \in Loops \cup {NoId} /\ calls' \in [Calls -> ApiCall]
        /\ loops' \in [Loops -> ConnectorLoop]
        /\ pending' \in [Sessions -> [active : BOOLEAN, d : Devices \cup {NoId}, token : Nat]]
    BY <1>8 DEF Crash
  <2>. QED BY <1>8, <2>1, <2>2 DEF TypeOK, Crash
<1>9. CASE Start
  <2>1. (CHOOSE l \in Loops : TRUE) \in Loops BY InstancesAssumption
  <2>2. loop' \in Loops \cup {NoId} BY <1>9, <2>1 DEF Start, Relay
  <2>3. loops' \in [Loops -> ConnectorLoop]
    <3>1. [Off EXCEPT !.pc = "ensure"] \in ConnectorLoop BY DEF ConnectorLoop
    <3>. QED BY <1>9, <3>1 DEF Start
  <2>4. relay' \in [Ids -> Row]
    <3>1. Updated(Host, clock) \/ UNCHANGED relay BY <1>9 DEF Start, Relay
    <3>2. clock \in Int /\ 0 \in Nat BY <1>C
    <3>. QED BY <1>C, <3>1, <3>2, RelayTypes
  <2>5. disk' \in [Ids -> [cert : Int, revoked : BOOLEAN]]
    <3>1. RegisterLocally(Host, clock) \/ UNCHANGED disk BY <1>9 DEF Start, Relay
    <3>. QED BY <1>C, <3>1, DiskTypes
  <2>6. secret' \in Conf /\ conf' \in Conf
    <3>1. [secret EXCEPT !.cert = clock] \in Conf BY <1>C DEF Conf
    <3>2. \/ secret' = secret /\ conf' = secret
          \/ secret' = [secret EXCEPT !.cert = clock] /\ conf' = secret'
      BY <1>9 DEF Start, Relay
    <3>. QED BY <1>C, <3>1, <3>2
  <2>7. overlap' \in [renewal : BOOLEAN, accepts : SUBSET Devices, start : BOOLEAN]
    <3>1. overlap' = overlap \/ overlap' = [overlap EXCEPT !.start = TRUE]
      BY <1>9 DEF Start, Relay
    <3>. QED BY <1>C, <3>1
  <2>8. spent' \in [calls : Nat, failures : Nat, crashes : Nat, token : Nat]
    BY <1>9, SpentTypes DEF Start, Relay
  <2>9. up' = TRUE /\ UNCHANGED <<max, clock, admin, sessions, pending, calls, app, revoked>>
    BY <1>9 DEF Start
  <2>. QED BY <2>2, <2>3, <2>4, <2>5, <2>6, <2>7, <2>8, <2>9 DEF TypeOK
<1>. QED BY <1>1, <1>2, <1>3, <1>4, <1>5, <1>6, <1>7, <1>8, <1>9

\* What a connector loop leaves has its types.
LEMMA LoopStepTypes ==
    ASSUME TypeOK, NEW l \in Loops, LoopSteps(l)
    PROVE  TypeOK'
<1>. USE NothingTypes DEF durable, memory, history
<1>C. /\ loops \in [Loops -> ConnectorLoop] /\ loops[l] \in ConnectorLoop
      /\ clock \in Int /\ conf \in Conf /\ Host \in Ids /\ Devices \subseteq Ids
      /\ disk \in [Ids -> [cert : Int, revoked : BOOLEAN]]
  BY DEF TypeOK, Ids
<1>D. loops[l].cert \in Int /\ loops[l].read \in Conf /\ loops[l].for \in Devices \cup {NoId}
      /\ conf.cert \in Int
  BY <1>C DEF ConnectorLoop, Conf
<1>E. NoId \notin Ids BY InstancesAssumption DEF Ids, Host, NoId
<1>1. CASE Ensure(l)
  <2>1. CASE loops' = [loops EXCEPT ![l] = Off]
    BY <1>1, <2>1, <1>C DEF Ensure, TypeOK
  <2>2. CASE \E pc \in {"poll", "device"} : Goto(l, pc)
    BY <1>1, <2>2, LoopTypes DEF Ensure, TypeOK
  <2>3. CASE loops' = [loops EXCEPT ![l].pc = "host_update", ![l].read = conf, ![l].cert = clock]
    <3>1. loops' = [loops EXCEPT ![l] =
                      [loops[l] EXCEPT !.pc = "host_update", !.read = conf, !.cert = clock]]
      BY <2>3, <1>C
    <3>2. [loops[l] EXCEPT !.pc = "host_update", !.read = conf, !.cert = clock] \in ConnectorLoop
      BY <1>C DEF ConnectorLoop
    <3>3. loops' \in [Loops -> ConnectorLoop] BY <1>C, <3>1, <3>2
    <3>. QED BY <1>1, <3>3 DEF Ensure, TypeOK
  <2>. QED BY <1>1, <2>1, <2>2, <2>3 DEF Ensure
<1>2. CASE HostUpdate(l)
  <2>1. relay' \in [Ids -> Row]
    <3>1. Updated(Host, loops[l].cert) \/ UNCHANGED relay BY <1>2 DEF HostUpdate, Relay
    <3>. QED BY <1>C, <1>D, <3>1, RelayTypes
  <2>2. loops' \in [Loops -> ConnectorLoop] BY <1>2, LoopTypes DEF HostUpdate, Relay
  <2>3. spent' \in [calls : Nat, failures : Nat, crashes : Nat, token : Nat]
    BY <1>2, SpentTypes DEF HostUpdate, Relay
  <2>. QED BY <1>2, <2>1, <2>2, <2>3 DEF TypeOK, HostUpdate
<1>3. CASE HostSave(l)
  <2>1. disk' \in [Ids -> [cert : Int, revoked : BOOLEAN]] BY <1>3, <1>C, <1>D, DiskTypes DEF HostSave
  <2>2. loops' \in [Loops -> ConnectorLoop] BY <1>3, LoopTypes DEF HostSave
  <2>3. secret' \in Conf /\ conf' \in Conf
    <3>1. [loops[l].read EXCEPT !.cert = loops[l].cert] \in Conf BY <1>D DEF Conf
    <3>. QED BY <1>3, <3>1 DEF HostSave
  <2>. QED BY <1>3, <2>1, <2>2, <2>3 DEF TypeOK, HostSave
<1>4. CASE Poll(l)
  <2>1. loops' \in [Loops -> ConnectorLoop]
    <3>1. CASE loops' = [loops EXCEPT ![l] = Off] BY <3>1, <1>C
    <3>2. CASE Goto(l, "ensure") BY <3>2, LoopTypes
    <3>3. ASSUME NEW d \in Devices, loops' = [loops EXCEPT ![l].pc = "ensure", ![l].for = d]
          PROVE  loops' \in [Loops -> ConnectorLoop]
      <4>1. loops' = [loops EXCEPT ![l] = [loops[l] EXCEPT !.pc = "ensure", !.for = d]]
        BY <3>3, <1>C
      <4>2. [loops[l] EXCEPT !.pc = "ensure", !.for = d] \in ConnectorLoop
        BY <1>C DEF ConnectorLoop
      <4>. QED BY <1>C, <4>1, <4>2
    <3>. QED BY <1>4, <3>1, <3>2, <3>3 DEF Poll
  <2>. QED BY <1>4, <2>1 DEF TypeOK, Poll
<1>5. CASE Device(l)
  <2>1. loops' \in [Loops -> ConnectorLoop]
    <3>1. CASE Served(l) BY <3>1, LoopTypes
    <3>2. CASE loops' = [loops EXCEPT ![l].pc = "device_update", ![l].cert = clock]
      <4>1. loops' = [loops EXCEPT ![l] = [loops[l] EXCEPT !.pc = "device_update", !.cert = clock]]
        BY <3>2, <1>C
      <4>2. [loops[l] EXCEPT !.pc = "device_update", !.cert = clock] \in ConnectorLoop
        BY <1>C DEF ConnectorLoop
      <4>. QED BY <1>C, <4>1, <4>2
    <3>. QED BY <1>5, <3>1, <3>2 DEF Device
  <2>2. app' \in [Devices -> [session : Sessions \cup {None}, token : Nat, own : Int, host : Int]]
    <3>. DEFINE d == loops[l].for
    <3>1. app' = app \/ app' = Accepted(d, disk[d].cert, conf.cert) BY <1>5 DEF Device
    <3>2. CASE d \in Devices
      <4>1. disk[d].cert \in Int BY <1>C, <3>2
      <4>2. 0 \in Nat OBVIOUS
      <4>. QED BY <1>D, <3>1, <3>2, <4>1, <4>2, AppTypes
    <3>3. CASE d \notin Devices
      <4>1. app \in [Devices -> [session : Sessions \cup {None}, token : Nat, own : Int, host : Int]]
        BY DEF TypeOK
      <4>. QED BY <3>1, <3>3, <4>1 DEF Accepted
    <3>. QED BY <3>2, <3>3
  <2>. QED BY <1>5, <2>1, <2>2 DEF TypeOK, Device
<1>6. CASE DeviceUpdate(l)
  <2>1. relay' \in [Ids -> Row]
    <3>1. Updated(loops[l].for, loops[l].cert) \/ UNCHANGED relay BY <1>6 DEF DeviceUpdate, Relay
    <3>2. loops[l].for \notin Ids => relay' = relay BY <3>1 DEF TypeOK, Updated
    <3>. QED BY <1>C, <1>D, <3>1, <3>2, RelayTypes DEF TypeOK
  <2>2. loops' \in [Loops -> ConnectorLoop] BY <1>6, LoopTypes DEF DeviceUpdate, Relay
  <2>3. spent' \in [calls : Nat, failures : Nat, crashes : Nat, token : Nat]
    BY <1>6, SpentTypes DEF DeviceUpdate, Relay
  <2>. QED BY <1>6, <2>1, <2>2, <2>3 DEF TypeOK, DeviceUpdate
<1>7. CASE DeviceSave(l)
  <2>. DEFINE d == loops[l].for
  <2>1. disk' \in [Ids -> [cert : Int, revoked : BOOLEAN]]
    <3>1. CASE d \in Ids BY <1>7, <1>D, <3>1, DiskTypes DEF DeviceSave
    <3>2. CASE d \notin Ids BY <1>7, <1>C, <3>2 DEF DeviceSave, RegisterLocally
    <3>. QED BY <3>1, <3>2
  <2>2. loops' \in [Loops -> ConnectorLoop] BY <1>7, LoopTypes DEF DeviceSave
  <2>3. app' \in [Devices -> [session : Sessions \cup {None}, token : Nat, own : Int, host : Int]]
    <3>1. app' = Accepted(d, loops[l].cert, conf.cert) BY <1>7 DEF DeviceSave
    <3>2. CASE d \in Devices
      <4>1. 0 \in Nat OBVIOUS
      <4>. QED BY <1>D, <3>1, <3>2, <4>1, AppTypes
    <3>3. CASE d \notin Devices
      <4>1. app \in [Devices -> [session : Sessions \cup {None}, token : Nat, own : Int, host : Int]]
        BY DEF TypeOK
      <4>. QED BY <3>1, <3>3, <4>1 DEF Accepted
    <3>. QED BY <3>2, <3>3
  <2>. QED BY <1>7, <2>1, <2>2, <2>3 DEF TypeOK, DeviceSave
<1>. QED BY <1>1, <1>2, <1>3, <1>4, <1>5, <1>6, <1>7 DEF LoopSteps

----------------------------------------------------------------------------
(* What the calls are about.                                               *)

\* A call that moves on is about what it was; one that returned is about nothing.
LEMMA CallMoves ==
    ASSUME TypeOK, NEW k \in Calls
    PROVE  /\ \A pc : Step(k, pc) =>
                /\ calls'[k].pc = pc /\ calls'[k].op = calls[k].op
                /\ calls'[k].d = calls[k].d /\ calls'[k].s = calls[k].s
                /\ calls'[k].token = calls[k].token
                /\ \A j \in Calls \ {k} : calls'[j] = calls[j]
           /\ Return(k) =>
                /\ calls'[k].pc = "idle" /\ calls'[k].op = "none"
                /\ \A j \in Calls \ {k} : calls'[j] = calls[j]
<1>1. calls \in [Calls -> ApiCall] /\ calls[k] \in ApiCall BY DEF TypeOK
<1>2. ASSUME NEW pc, Step(k, pc)
      PROVE  /\ calls'[k].pc = pc /\ calls'[k].op = calls[k].op
             /\ calls'[k].d = calls[k].d /\ calls'[k].s = calls[k].s
             /\ calls'[k].token = calls[k].token
             /\ \A j \in Calls \ {k} : calls'[j] = calls[j]
  <2>1. calls'[k] = [calls[k] EXCEPT !.pc = pc] BY <1>1, <1>2 DEF Step
  <2>2. \A j \in Calls \ {k} : calls'[j] = calls[j] BY <1>1, <1>2 DEF Step
  <2>. QED BY <1>1, <2>1, <2>2 DEF ApiCall
<1>3. ASSUME Return(k)
      PROVE  /\ calls'[k].pc = "idle" /\ calls'[k].op = "none"
             /\ \A j \in Calls \ {k} : calls'[j] = calls[j]
  BY <1>1, <1>3 DEF Return, Idle
<1>. QED BY <1>2, <1>3

\* Calls start being about a device of their own, and stay about it.
LEMMA NextCalls == TypeOK /\ CallsFit /\ [Next]_vars => CallsFit'
<1>. SUFFICES ASSUME TypeOK, CallsFit, [Next]_vars PROVE CallsFit' OBVIOUS
<1>. USE DEF CallsFit
<1>C. calls \in [Calls -> ApiCall] BY DEF TypeOK
<1>0. ASSUME NEW k \in Calls, CallFits(calls'[k]), \A j \in Calls \ {k} : calls'[j] = calls[j]
      PROVE  CallsFit'
  BY <1>0
<1>1. CASE calls' = calls BY <1>1
<1>2. ASSUME NEW k \in Calls, Configure(k) \/ CallSteps(k) PROVE CallsFit'
  <2>1. CASE Configure(k)
    <3>1. /\ calls'[k].pc = "enroll" /\ calls'[k].op = "configure"
          /\ \A j \in Calls \ {k} : calls'[j] = calls[j]
      BY <2>1, <1>C, NothingTypes DEF Configure, ApiCall
    <3>. QED BY <1>0, <3>1 DEF CallFits
  <2>2. CASE Save(k)
    <3>1. /\ calls'[k].pc = "restart" /\ calls'[k].op = calls[k].op
          /\ \A j \in Calls \ {k} : calls'[j] = calls[j]
      BY <2>2, <1>C DEF Save, ApiCall
    <3>2. calls[k].pc = "save" /\ CallFits(calls[k]) BY <2>2 DEF Save, At
    <3>. QED BY <1>0, <3>1, <3>2 DEF CallFits
  <2>3. CASE Return(k)
    <3>1. CallFits(calls'[k]) BY <2>3, CallMoves DEF CallFits
    <3>. QED BY <1>0, <2>3, <3>1, CallMoves
  <2>4. CASE Enroll(k) /\ Step(k, "save")
    <3>1. calls[k].pc = "enroll" /\ CallFits(calls[k]) BY <2>4 DEF Enroll, At
    <3>2. CallFits(calls'[k]) BY <2>4, <3>1, CallMoves DEF CallFits
    <3>. QED BY <1>0, <2>4, <3>2, CallMoves
  <2>5. CASE (Pair(k) \/ Complete(k)) /\ \E pc \in {"complete", "compensate"} : Step(k, pc)
    <3>1. calls[k].pc \in {"pair", "complete"} /\ CallFits(calls[k])
      BY <2>5 DEF Pair, Complete, At
    <3>2. PICK pc \in {"complete", "compensate"} : Step(k, pc) BY <2>5
    <3>3. CallFits(calls'[k]) BY <3>1, <3>2, CallMoves DEF CallFits
    <3>. QED BY <1>0, <3>2, <3>3, CallMoves
  <2>. QED
    BY <1>2, <2>1, <2>2, <2>3, <2>4, <2>5
    DEF CallSteps, Enroll, Restart, Pair, Complete, Compensate, RevokeAtRelay, Relay
<1>3. ASSUME NEW k \in Calls, NEW d \in Devices, Accept(k, d) PROVE CallsFit'
  <2>1. app[d].session \in Sessions BY <1>3 DEF TypeOK, Accept
  <2>2. CASE calls' = calls BY <2>2
  <2>3. CASE calls' # calls
    <3>1. PICK c : /\ c = AcceptingCall(app[d].session, d, clock, spent'.token)
                   /\ calls' = [calls EXCEPT ![k] = c]
      BY <1>3, <2>3, Zenon DEF Accept, AcceptingCall
    <3>2. spent'.token \in Nat /\ clock \in Int BY <1>3, CalledTypes DEF Accept, TypeOK
    <3>3. c.pc = "pair" /\ c.op = "accept" /\ c.s = app[d].session /\ c.d = d
      BY <2>1, <3>1, <3>2, AcceptingTypes
    <3>. QED BY <1>0, <1>C, <2>1, <3>1, <3>3 DEF CallFits
  <2>. QED BY <2>2, <2>3
<1>4. ASSUME NEW k \in Calls, NEW d \in Devices, Revoke(k, d) PROVE CallsFit'
  <2>1. /\ calls'[k].pc = "revoke" /\ calls'[k].op = "revoke" /\ calls'[k].d = d
        /\ \A j \in Calls \ {k} : calls'[j] = calls[j]
    BY <1>4, <1>C, NothingTypes DEF Revoke, ApiCall
  <2>. QED BY <1>0, <2>1 DEF CallFits
<1>5. CASE Crash
  <2>1. \A k \in Calls : calls'[k].pc = "idle" /\ calls'[k].op = "none" BY <1>5 DEF Crash, Idle
  <2>. QED BY <2>1 DEF CallFits
<1>. QED
  BY <1>1, <1>2, <1>3, <1>4, <1>5
  DEF Next, vars, memory, CreatePairing, Expire, BeginPairing, RotateAdmin, Tick, Start, LoopSteps,
      Ensure, HostUpdate, HostSave, Poll, Device, DeviceUpdate, DeviceSave

\* Every step keeps the types.
LEMMA NextTypes == TypeOK /\ CallsFit /\ [Next]_vars => TypeOK'
<1>. SUFFICES ASSUME TypeOK, CallsFit, [Next]_vars PROVE TypeOK' OBVIOUS
<1>1. CASE UNCHANGED vars BY <1>1 DEF vars, durable, memory, history, TypeOK
<1>. QED BY <1>1, CallStepTypes, PairingTypes, LoopStepTypes DEF Next

LEMMA InitCalls == Init => CallsFit
<1>. SUFFICES ASSUME Init PROVE CallsFit OBVIOUS
<1>1. \A k \in Calls : calls[k].pc = "idle" /\ calls[k].op = "none" BY DEF Init, Idle
<1>. QED BY <1>1 DEF CallsFit, CallFits

\* The relay's rows, the host's own and its calls, loops and app have their types.
THEOREM TypeCorrect == FairSpec => []TypeOK
BY InitTypes, InitCalls, NextTypes, NextCalls, PTL DEF FairSpec

----------------------------------------------------------------------------
(* The inductive invariant.                                                *)

Accepting(k) == calls[k].op = "accept"

\* The token of a call that accepts is its own and no device's yet.
TokensFit ==
    /\ \A d \in Devices : app[d].token <= spent.token
    /\ \A k \in Calls : Accepting(k) =>
          /\ calls[k].token # None /\ calls[k].token <= spent.token
          /\ \A d \in Devices : app[d].token # calls[k].token
          /\ \A j \in Calls : Accepting(j) /\ calls[j].token = calls[k].token => j = k

\* A device the host knows has its bootstrap.
KnownFit ==
    /\ \A d \in Devices : disk[d].cert # -1 \/ disk[d].revoked => app[d].token # None
    /\ \A s \in Sessions : pending[s].d # NoId => app[pending[s].d].token # None
    /\ \A l \in Loops : loops[l].for # NoId => app[loops[l].for].token # None

\* A revocation is the host's before it is the relay's; the relay may register
\* the device again, but under a token it was not handed.
RevokingFit ==
    /\ \A k \in Calls : calls[k].op = "revoke" => disk[calls[k].d].revoked
    /\ \A d \in revoked : disk[d].revoked /\ (relay[d].revoked \/ relay[d].token # app[d].token)

\* The session of a device that was paired is used up.
SessionsFit ==
    \A d \in Devices :
        app[d].token # None /\ app[d].session # None => sessions[app[d].session] = "used"

\* A device is accepted once at a time and before it is paired; what the relay
\* registered for the call stays until the call completes.
AcceptsFit ==
    \A k \in Calls : Accepting(k) =>
        /\ calls[k].s = app[calls[k].d].session
        /\ \/ calls[k].d \in overlap.accepts
           \/ /\ app[calls[k].d].token = None
              /\ \A j \in Calls : Accepting(j) /\ calls[j].d = calls[k].d => j = k
              /\ calls[k].pc = "complete" => Authorized(calls[k].d, calls[k].token)

Fit == TokensFit /\ KnownFit /\ RevokingFit /\ SessionsFit /\ AcceptsFit /\ PairedDeviceIsAccepted

----------------------------------------------------------------------------
(* Steps that no pairing or revocation takes.                              *)

\* What they leave alone: the relay's tokens and revocations, the tokens of the
\* devices, the calls that accept or revoke.
Quiet ==
    /\ \A d \in Devices :
          /\ relay'[d].token = relay[d].token /\ relay'[d].revoked = relay[d].revoked
          /\ disk'[d].revoked = disk[d].revoked
          /\ disk'[d].cert # -1 => disk[d].cert # -1 \/ app[d].token # None
          /\ app'[d].token = app[d].token
          /\ app'[d].session # app[d].session => app[d].session = None /\ app[d].token = None
    /\ \A k \in Calls : calls'[k] = calls[k] \/ calls'[k].op \notin {"accept", "revoke"}
    /\ \A s \in Sessions :
          /\ sessions[s] = "used" => sessions'[s] = "used"
          /\ pending'[s].d \in {pending[s].d, NoId}
    /\ \A l \in Loops : loops'[l].for # NoId => app[loops'[l].for].token # None
    /\ spent'.token = spent.token /\ overlap'.accepts = overlap.accepts /\ revoked' = revoked

LEMMA QuietFits ==
    ASSUME TypeOK, TypeOK', CallsFit, Fit, Quiet
    PROVE  Fit'
<1>C. \A k \in Calls : Accepting(k)' =>
         /\ calls'[k] = calls[k] /\ Accepting(k) /\ calls[k].d \in Devices /\ calls[k].s \in Sessions
  BY DEF Quiet, Accepting, CallsFit, CallFits
<1>D. \A d \in Devices : app'[d].token = app[d].token BY DEF Quiet
<1>1. TokensFit' BY <1>C, <1>D DEF Fit, TokensFit, Quiet
<1>2. KnownFit'
  <2>1. \A d \in Devices : disk'[d].cert # -1 \/ disk'[d].revoked => app'[d].token # None
    BY <1>D DEF Fit, KnownFit, Quiet
  <2>2. \A s \in Sessions : pending'[s].d # NoId => app'[pending'[s].d].token # None
    BY <1>D DEF Fit, KnownFit, Quiet, TypeOK
  <2>3. \A l \in Loops : loops'[l].for # NoId => app'[loops'[l].for].token # None
    BY <1>D DEF Quiet, TypeOK, ConnectorLoop
  <2>. QED BY <2>1, <2>2, <2>3 DEF KnownFit
<1>3. RevokingFit'
  <2>1. \A k \in Calls : calls'[k].op = "revoke" => disk'[calls'[k].d].revoked
    <3>. SUFFICES ASSUME NEW k \in Calls, calls'[k].op = "revoke" PROVE disk'[calls'[k].d].revoked
      OBVIOUS
    <3>1. calls'[k] = calls[k] BY DEF Quiet
    <3>2. calls[k].d \in Devices /\ disk[calls[k].d].revoked
      BY <3>1 DEF CallsFit, CallFits, Fit, RevokingFit
    <3>. QED BY <3>1, <3>2 DEF Quiet
  <2>2. \A d \in revoked' : /\ disk'[d].revoked
                            /\ relay'[d].revoked \/ relay'[d].token # app'[d].token
    BY DEF Fit, RevokingFit, Quiet, TypeOK
  <2>. QED BY <2>1, <2>2 DEF RevokingFit
<1>4. SessionsFit' BY DEF Fit, SessionsFit, Quiet, TypeOK
<1>5. AcceptsFit'
  <2>. SUFFICES ASSUME NEW k \in Calls, Accepting(k)'
       PROVE  /\ calls'[k].s = app'[calls'[k].d].session
              /\ \/ calls'[k].d \in overlap'.accepts
                 \/ /\ app'[calls'[k].d].token = None
                    /\ \A j \in Calls : Accepting(j)' /\ calls'[j].d = calls'[k].d => j = k
                    /\ calls'[k].pc = "complete" => Authorized(calls[k].d, calls[k].token)'
    BY DEF AcceptsFit
  <2>1. /\ calls'[k] = calls[k] /\ Accepting(k) /\ calls[k].d \in Devices /\ calls[k].s \in Sessions
        /\ calls[k].s = app[calls[k].d].session
    BY <1>C DEF Fit, AcceptsFit
  <2>2. calls'[k].s = app'[calls'[k].d].session
    BY <2>1, InstancesAssumption DEF Quiet
  <2>3. CASE calls[k].d \in overlap.accepts BY <2>1, <2>2, <2>3 DEF Quiet
  <2>4. CASE calls[k].d \notin overlap.accepts
    <3>1. /\ app[calls[k].d].token = None
          /\ \A j \in Calls : Accepting(j) /\ calls[j].d = calls[k].d => j = k
          /\ calls[k].pc = "complete" => Authorized(calls[k].d, calls[k].token)
      BY <2>1, <2>4 DEF Fit, AcceptsFit
    <3>2. \A j \in Calls : Accepting(j)' /\ calls'[j].d = calls'[k].d => j = k
      BY <1>C, <2>1, <3>1
    <3>3. calls'[k].pc = "complete" => Authorized(calls[k].d, calls[k].token)'
      BY <2>1, <3>1 DEF Authorized, Quiet
    <3>. QED BY <1>D, <2>1, <2>2, <3>1, <3>2, <3>3
  <2>. QED BY <2>3, <2>4
<1>6. PairedDeviceIsAccepted'
  BY DEF Fit, PairedDeviceIsAccepted, Quiet, Authorized
<1>. QED BY <1>1, <1>2, <1>3, <1>4, <1>5, <1>6 DEF Fit

\* What the steps do to rows, loops and the app, field by field.
LEMMA RowMoves ==
    ASSUME TypeOK, NEW i \in Ids, NEW d \in Devices
    PROVE  /\ \A cert : Updated(i, cert) =>
                relay'[d].token = relay[d].token /\ relay'[d].revoked = relay[d].revoked
           /\ \A cert : RegisterLocally(i, cert) =>
                /\ disk'[d].revoked = disk[d].revoked
                /\ disk'[d].cert = IF d = i THEN cert ELSE disk[d].cert
           /\ \A own, host, e : app' = Accepted(e, own, host) =>
                app'[d].token = app[d].token /\ app'[d].session = app[d].session
<1>1. relay \in [Ids -> Row] /\ disk \in [Ids -> [cert : Int, revoked : BOOLEAN]] /\ d \in Ids
      /\ app \in [Devices -> [session : Sessions \cup {None}, token : Nat, own : Int, host : Int]]
  BY DEF TypeOK, Ids
<1>2. ASSUME NEW cert, Updated(i, cert)
      PROVE  relay'[d].token = relay[d].token /\ relay'[d].revoked = relay[d].revoked
  BY <1>1, <1>2 DEF Updated, Row
<1>3. ASSUME NEW cert, RegisterLocally(i, cert)
      PROVE  /\ disk'[d].revoked = disk[d].revoked
             /\ disk'[d].cert = IF d = i THEN cert ELSE disk[d].cert
  BY <1>1, <1>3 DEF RegisterLocally
<1>4. ASSUME NEW own, NEW host, NEW e, app' = Accepted(e, own, host)
      PROVE  app'[d].token = app[d].token /\ app'[d].session = app[d].session
  <2>1. CASE app' = app BY <2>1
  <2>2. CASE app' # app
    <3>1. app' = [app EXCEPT ![e].own = own, ![e].host = host] BY <1>4, <2>2 DEF Accepted
    <3>2. CASE d # e BY <1>1, <3>1, <3>2
    <3>3. CASE d = e
      <4>1. app'[d] = [app[d] EXCEPT !.own = own, !.host = host] BY <1>1, <3>1, <3>3
      <4>. QED BY <1>1, <4>1
    <3>. QED BY <3>2, <3>3
  <2>. QED BY <2>1, <2>2
<1>. QED BY <1>2, <1>3, <1>4

\* A connector loop serves the device that asked, or none.
LEMMA LoopMoves ==
    ASSUME TypeOK, NEW l \in Loops
    PROVE  /\ \A pc : Goto(l, pc) => \A m \in Loops : loops'[m].for = loops[m].for
           /\ Served(l) \/ Failed(l) \/ loops' = [loops EXCEPT ![l] = Off] =>
                \A m \in Loops : loops'[m].for \in {loops[m].for, NoId}
<1>1. loops \in [Loops -> ConnectorLoop] BY DEF TypeOK
<1>2. ASSUME NEW pc, Goto(l, pc) PROVE \A m \in Loops : loops'[m].for = loops[m].for
  BY <1>1, <1>2 DEF Goto, ConnectorLoop
<1>3. Off.for = NoId /\ [Off EXCEPT !.pc = "poll"].for = NoId
      /\ [Off EXCEPT !.pc = "ensure"].for = NoId
  BY DEF Off
<1>4. ASSUME Served(l) \/ Failed(l) \/ loops' = [loops EXCEPT ![l] = Off]
      PROVE  \A m \in Loops : loops'[m].for \in {loops[m].for, NoId}
  BY <1>1, <1>3, <1>4 DEF Served, Failed
<1>. QED BY <1>2, <1>4

\* The loops, renewals and restarts, configurations and sessions are quiet.
LEMMA QuietLoops ==
    ASSUME TypeOK, Fit, NEW l \in Loops, LoopSteps(l)
    PROVE  Quiet
<1>. USE DEF durable, memory, history
<1>C. /\ loops \in [Loops -> ConnectorLoop] /\ Host \in Ids /\ Devices \subseteq Ids
      /\ Host \notin Devices /\ NoId \notin Devices
      /\ \A m \in Loops : loops[m].for \in Devices \cup {NoId}
      /\ \A m \in Loops : loops[m].for # NoId => app[loops[m].for].token # None
  BY InstancesAssumption DEF TypeOK, Ids, ConnectorLoop, Fit, KnownFit
<1>1. /\ \A d \in Devices : relay'[d].token = relay[d].token /\ relay'[d].revoked = relay[d].revoked
  <2>1. CASE UNCHANGED relay BY <2>1
  <2>2. CASE Updated(Host, loops[l].cert) BY <1>C, <2>2, RowMoves
  <2>3. CASE Updated(loops[l].for, loops[l].cert)
    <3>1. CASE loops[l].for \in Devices BY <1>C, <2>3, <3>1, RowMoves
    <3>2. CASE loops[l].for = NoId
      <4>1. loops[l].for \notin Ids BY <3>2, InstancesAssumption DEF Ids, Host, NoId
      <4>2. relay' = relay BY <2>3, <4>1 DEF Updated, TypeOK
      <4>. QED BY <4>2
    <3>. QED BY <1>C, <3>1, <3>2
  <2>. QED
    BY <2>1, <2>2, <2>3
    DEF LoopSteps, Ensure, HostUpdate, HostSave, Poll, Device, DeviceUpdate, DeviceSave, Relay
<1>2. \A d \in Devices : /\ disk'[d].revoked = disk[d].revoked
                         /\ disk'[d].cert # -1 => disk[d].cert # -1 \/ app[d].token # None
  <2>1. CASE UNCHANGED disk BY <2>1
  <2>2. CASE RegisterLocally(Host, loops[l].cert) BY <1>C, <2>2, RowMoves
  <2>3. CASE RegisterLocally(loops[l].for, loops[l].cert)
    <3>1. CASE loops[l].for \in Devices BY <1>C, <2>3, <3>1, RowMoves
    <3>2. CASE loops[l].for = NoId
      <4>1. loops[l].for \notin Ids BY <3>2, InstancesAssumption DEF Ids, Host, NoId
      <4>2. disk' = disk BY <2>3, <4>1 DEF RegisterLocally, TypeOK
      <4>. QED BY <4>2
    <3>. QED BY <1>C, <3>1, <3>2
  <2>. QED
    BY <2>1, <2>2, <2>3
    DEF LoopSteps, Ensure, HostUpdate, HostSave, Poll, Device, DeviceUpdate, DeviceSave, Relay
<1>3. \A d \in Devices : app'[d].token = app[d].token /\ app'[d].session = app[d].session
  <2>1. app' = app \/ \E own, host, e : app' = Accepted(e, own, host)
    BY DEF LoopSteps, Ensure, HostUpdate, HostSave, Poll, Device, DeviceUpdate, DeviceSave, Relay
  <2>. QED BY <1>C, <2>1, RowMoves
<1>4. \A m \in Loops : loops'[m].for # NoId => app[loops'[m].for].token # None
  <2>1. CASE \/ \E pc : Goto(l, pc)
             \/ Served(l) \/ Failed(l) \/ loops' = [loops EXCEPT ![l] = Off]
    BY <1>C, <2>1, LoopMoves
  <2>2. CASE \/ Ensure(l) /\ loops' = [loops EXCEPT ![l].pc = "host_update", ![l].read = conf,
                                                    ![l].cert = clock]
             \/ Device(l) /\ loops' = [loops EXCEPT ![l].pc = "device_update", ![l].cert = clock]
    <3>1. \A m \in Loops : loops'[m].for = loops[m].for BY <1>C, <2>2 DEF ConnectorLoop
    <3>. QED BY <1>C, <3>1
  <2>3. ASSUME NEW d \in Devices, Authorized(d, app[d].token),
               loops' = [loops EXCEPT ![l].pc = "ensure", ![l].for = d]
        PROVE  \A m \in Loops : loops'[m].for # NoId => app[loops'[m].for].token # None
    <3>1. \A m \in Loops : loops'[m].for = IF m = l THEN d ELSE loops[m].for
      BY <1>C, <2>3 DEF ConnectorLoop
    <3>. QED BY <1>C, <2>3, <3>1 DEF Authorized
  <2>. QED
    BY <2>1, <2>2, <2>3
    DEF LoopSteps, Ensure, HostUpdate, HostSave, Poll, Device, DeviceUpdate, DeviceSave, Relay
<1>5. UNCHANGED <<calls, sessions, pending, overlap, revoked>> /\ spent'.token = spent.token
  <2>1. UNCHANGED spent \/ spent' = [spent EXCEPT !.failures = @ + 1]
    BY DEF LoopSteps, Ensure, HostUpdate, HostSave, Poll, Device, DeviceUpdate, DeviceSave, Relay
  <2>2. spent'.token = spent.token BY <2>1 DEF TypeOK
  <2>. QED
    BY <2>2 DEF LoopSteps, Ensure, HostUpdate, HostSave, Poll, Device, DeviceUpdate, DeviceSave
<1>. QED BY <1>1, <1>2, <1>3, <1>4, <1>5 DEF Quiet

\* So is a call that configures the host, and one that returns from the relay
\* with nothing done there.
LEMMA QuietConfiguring ==
    ASSUME TypeOK, CallsFit, Fit, NEW k \in Calls,
           Configure(k) \/ Enroll(k) \/ Save(k) \/ Restart(k)
    PROVE  Quiet
<1>. USE DEF durable, memory, history
<1>C. /\ calls \in [Calls -> ApiCall] /\ loops \in [Loops -> ConnectorLoop]
      /\ Host \in Ids /\ Devices \subseteq Ids /\ Host \notin Devices
      /\ relay \in [Ids -> Row]
      /\ overlap \in [renewal : BOOLEAN, accepts : SUBSET Devices, start : BOOLEAN]
  BY InstancesAssumption DEF TypeOK, Ids
<1>L. \A m \in Loops : loops[m].for # NoId => app[loops[m].for].token # None BY DEF Fit, KnownFit
<1>1. CASE Configure(k)
  <2>1. /\ calls'[k].op = "configure" /\ \A j \in Calls \ {k} : calls'[j] = calls[j]
    BY <1>1, <1>C, NothingTypes DEF Configure, ApiCall
  <2>2. \A j \in Calls : calls'[j] = calls[j] \/ calls'[j].op \notin {"accept", "revoke"} BY <2>1
  <2>3. spent'.token = spent.token BY <1>1, CalledTypes DEF Configure
  <2>. QED BY <1>1, <1>L, <2>2, <2>3 DEF Configure, Quiet
<1>2. CASE Enroll(k)
  <2>1. \A d \in Devices : relay'[d].token = relay[d].token /\ relay'[d].revoked = relay[d].revoked
    <3>1. Registered(Host, calls[k].cert, 1) \/ UNCHANGED relay BY <1>2 DEF Enroll, Relay
    <3>. QED BY <1>C, <3>1 DEF Registered
  <2>2. \A j \in Calls : calls'[j] = calls[j] \/ calls'[j].op \notin {"accept", "revoke"}
    <3>1. Step(k, "save") \/ Return(k) BY <1>2 DEF Enroll, Relay
    <3>2. calls[k].pc = "enroll" /\ CallFits(calls[k]) BY <1>2 DEF Enroll, At, CallsFit
    <3>3. calls[k].op \notin {"accept", "revoke"} BY <3>2 DEF CallFits
    <3>. QED BY <3>1, <3>3, CallMoves
  <2>3. spent'.token = spent.token
    <3>1. UNCHANGED spent \/ spent' = [spent EXCEPT !.failures = @ + 1] BY <1>2 DEF Enroll, Relay
    <3>. QED BY <3>1 DEF TypeOK
  <2>. QED BY <1>2, <1>L, <2>1, <2>2, <2>3 DEF Enroll, Quiet
<1>3. CASE Save(k)
  <2>1. \A d \in Devices : disk'[d].revoked = disk[d].revoked /\ disk'[d].cert = disk[d].cert
    BY <1>3, <1>C, RowMoves DEF Save
  <2>2. \A j \in Calls : calls'[j] = calls[j] \/ calls'[j].op \notin {"accept", "revoke"}
    <3>1. /\ calls'[k].op = calls[k].op /\ \A j \in Calls \ {k} : calls'[j] = calls[j]
      BY <1>3, <1>C DEF Save, ApiCall
    <3>2. calls[k].pc = "save" /\ CallFits(calls[k]) BY <1>3 DEF Save, At, CallsFit
    <3>. QED BY <3>1, <3>2 DEF CallFits
  <2>3. \A m \in Loops : loops'[m].for = loops[m].for
    BY <1>3, <1>C DEF Save, ConnectorLoop
  <2>4. overlap'.accepts = overlap.accepts BY <1>3, <1>C DEF Save, Overlapping
  <2>. QED BY <1>3, <1>L, <2>1, <2>2, <2>3, <2>4 DEF Save, Quiet
<1>4. CASE Restart(k)
  <2>1. \A j \in Calls : calls'[j] = calls[j] \/ calls'[j].op \notin {"accept", "revoke"}
    BY <1>4, CallMoves DEF Restart
  <2>2. \A m \in Loops : loops'[m].for \in {loops[m].for, NoId}
    <3>1. [Off EXCEPT !.pc = "ensure"].for = NoId BY DEF Off
    <3>. QED BY <1>4, <1>C, <3>1 DEF Restart
  <2>. QED BY <1>4, <1>L, <2>1, <2>2 DEF Restart, Quiet
<1>. QED BY <1>1, <1>2, <1>3, <1>4

\* So are sessions, requests and the process.
LEMMA QuietProcess ==
    ASSUME TypeOK, CallsFit, Fit,
           \/ \E s \in Sessions : CreatePairing(s) \/ Expire(s)
           \/ \E d \in Devices, s \in Sessions : BeginPairing(d, s)
           \/ RotateAdmin \/ Tick \/ Crash \/ Start \/ UNCHANGED vars
    PROVE  Quiet
<1>. USE DEF durable, memory, history
<1>C. /\ calls \in [Calls -> ApiCall] /\ loops \in [Loops -> ConnectorLoop]
      /\ Host \in Ids /\ Devices \subseteq Ids /\ Host \notin Devices
      /\ overlap \in [renewal : BOOLEAN, accepts : SUBSET Devices, start : BOOLEAN]
      /\ sessions \in [Sessions -> {"none", "open", "used", "expired"}]
      /\ pending \in [Sessions -> [active : BOOLEAN, d : Devices \cup {NoId}, token : Nat]]
      /\ app \in [Devices -> [session : Sessions \cup {None}, token : Nat, own : Int, host : Int]]
  BY InstancesAssumption DEF TypeOK, Ids
<1>L. \A m \in Loops : loops[m].for # NoId => app[loops[m].for].token # None BY DEF Fit, KnownFit
<1>1. ASSUME NEW s \in Sessions, CreatePairing(s) PROVE Quiet
  <2>1. \A t \in Sessions : /\ sessions[t] = "used" => sessions'[t] = "used"
                            /\ pending'[t].d = pending[t].d
    BY <1>1, <1>C DEF CreatePairing
  <2>. QED BY <1>1, <1>L, <2>1 DEF CreatePairing, Quiet
<1>2. ASSUME NEW s \in Sessions, Expire(s) PROVE Quiet
  <2>1. \A t \in Sessions : /\ sessions[t] = "used" => sessions'[t] = "used"
                            /\ pending'[t].d \in {pending[t].d, NoId}
    BY <1>2, <1>C DEF Expire, NoPairing
  <2>. QED BY <1>2, <1>L, <2>1 DEF Expire, Quiet
<1>3. ASSUME NEW d \in Devices, NEW s \in Sessions, BeginPairing(d, s) PROVE Quiet
  <2>1. \A e \in Devices :
           /\ app'[e].token = app[e].token
           /\ app'[e].session # app[e].session => app[e].session = None /\ app[e].token = None
    BY <1>3, <1>C DEF BeginPairing
  <2>. QED BY <1>3, <1>L, <2>1 DEF BeginPairing, Quiet
<1>4. CASE RotateAdmin BY <1>4, <1>L DEF RotateAdmin, Quiet
<1>5. CASE Tick BY <1>5, <1>L DEF Tick, Quiet
<1>6. CASE Crash
  <2>1. \A k \in Calls : calls'[k].op \notin {"accept", "revoke"} BY <1>6 DEF Crash, Idle
  <2>2. \A l \in Loops : loops'[l].for = NoId BY <1>6 DEF Crash, Off
  <2>3. \A s \in Sessions : pending'[s].d = NoId BY <1>6 DEF Crash, NoPairing
  <2>4. spent'.token = spent.token BY <1>6 DEF Crash, TypeOK
  <2>. QED BY <1>6, <2>1, <2>2, <2>3, <2>4 DEF Crash, Quiet
<1>7. CASE Start
  <2>1. \A d \in Devices : relay'[d].token = relay[d].token /\ relay'[d].revoked = relay[d].revoked
    <3>1. Updated(Host, clock) \/ UNCHANGED relay BY <1>7 DEF Start, Relay
    <3>. QED BY <1>C, <3>1, RowMoves
  <2>2. \A d \in Devices : disk'[d].revoked = disk[d].revoked /\ disk'[d].cert = disk[d].cert
    <3>1. RegisterLocally(Host, clock) \/ UNCHANGED disk BY <1>7 DEF Start, Relay
    <3>. QED BY <1>C, <3>1, RowMoves
  <2>3. \A l \in Loops : loops'[l].for = NoId
    <3>1. [Off EXCEPT !.pc = "ensure"].for = NoId /\ Off.for = NoId BY DEF Off
    <3>. QED BY <1>7, <3>1 DEF Start
  <2>4. overlap'.accepts = overlap.accepts
    <3>1. overlap' = overlap \/ overlap' = [overlap EXCEPT !.start = TRUE]
      BY <1>7 DEF Start, Relay
    <3>. QED BY <1>C, <3>1
  <2>5. spent'.token = spent.token
    <3>1. UNCHANGED spent \/ spent' = [spent EXCEPT !.failures = @ + 1] BY <1>7 DEF Start, Relay
    <3>. QED BY <3>1 DEF TypeOK
  <2>6. UNCHANGED <<sessions, pending, calls, app, revoked>> BY <1>7 DEF Start
  <2>. QED BY <2>1, <2>2, <2>3, <2>4, <2>5, <2>6 DEF Quiet
<1>8. CASE UNCHANGED vars BY <1>8, <1>L DEF vars, Quiet
<1>. QED BY <1>1, <1>2, <1>3, <1>4, <1>5, <1>6, <1>7, <1>8

----------------------------------------------------------------------------
(* Steps of pairings and revocations.                                      *)

\* A request is answered, or starts to be accepted under a token of its own.
LEMMA AcceptFits ==
    ASSUME TypeOK, TypeOK', CallsFit, Fit, NEW k \in Calls, NEW d \in Devices, Accept(k, d)
    PROVE  Fit'
<1>. USE DEF durable, memory, history
<1>. DEFINE s == app[d].session
<1>C. /\ s \in Sessions /\ s # None
      /\ spent.token \in Nat /\ spent'.token = spent.token + 1
      /\ UNCHANGED <<relay, disk, sessions, pending, loops, revoked>>
      /\ calls[k].op = "none"
  <2>1. s \in Sessions /\ s # None BY DEF Accept, TypeOK
  <2>2. spent'.token = spent.token + 1 BY CalledTypes DEF Accept
  <2>3. calls[k].op = "none" BY DEF Accept, Call, Idle
  <2>. QED BY <2>1, <2>2, <2>3 DEF Accept, TypeOK
<1>1. CASE UNCHANGED <<calls, overlap, app>>
  <2>2. TokensFit'
    <3>1. \A e \in Devices : app[e].token \in Nat BY DEF TypeOK
    <3>2. \A j \in Calls : calls[j].token \in Nat BY DEF TypeOK, ApiCall
    <3>. QED BY <1>1, <1>C, <3>1, <3>2 DEF Fit, TokensFit, Accepting
  <2>3. KnownFit' BY <1>1, <1>C DEF Fit, KnownFit
  <2>4. RevokingFit' BY <1>1, <1>C DEF Fit, RevokingFit
  <2>5. SessionsFit' BY <1>1, <1>C DEF Fit, SessionsFit
  <2>6. AcceptsFit' BY <1>1, <1>C DEF Fit, AcceptsFit, Accepting, Authorized
  <2>7. PairedDeviceIsAccepted' BY <1>1, <1>C DEF Fit, PairedDeviceIsAccepted, Authorized
  <2>. QED BY <2>2, <2>3, <2>4, <2>5, <2>6, <2>7 DEF Fit
<1>2. CASE pending[s].d = d
  <2>1. app[d].token # None BY <1>2, <1>C, InstancesAssumption DEF Fit, KnownFit
  <2>2. pending[s].d # NoId BY <1>2, InstancesAssumption
  <2>3. app' = app /\ UNCHANGED <<calls, overlap>> BY <1>2, <2>1, <2>2 DEF Accept, Completed
  <2>. QED BY <1>1, <2>3
<1>3. CASE pending[s].d # d
  <2>0. /\ sessions[s] = "open" /\ UNCHANGED app
        /\ calls' = [calls EXCEPT ![k] = [Idle EXCEPT !.pc = "pair", !.op = "accept", !.s = s,
                             !.d = d, !.cert = clock, !.token = spent'.token]]
        /\ overlap' = IF \E j \in Calls : calls[j].d = d /\ calls[j].op = "accept"
                      THEN [overlap EXCEPT !.accepts = @ \cup {d}] ELSE overlap
    BY <1>3 DEF Accept
  <2>1. PICK c : /\ c = AcceptingCall(s, d, clock, spent'.token)
                 /\ calls' = [calls EXCEPT ![k] = c]
    BY <2>0, Zenon DEF AcceptingCall
  <2>2. c.pc = "pair" /\ c.op = "accept" /\ c.s = s /\ c.d = d /\ c.token = spent.token + 1
    <3>1. clock \in Int /\ spent'.token \in Nat BY <1>C DEF TypeOK
    <3>. QED BY <1>C, <2>1, <3>1, AcceptingTypes
  <2>3. calls'[k] = c /\ \A j \in Calls \ {k} : calls'[j] = calls[j] BY <2>1 DEF TypeOK
  <2>4. app[d].token = None BY <1>C, <2>0 DEF Fit, SessionsFit
  <2>5. /\ overlap.accepts \subseteq overlap'.accepts
        /\ (\E j \in Calls : calls[j].d = d /\ calls[j].op = "accept") => d \in overlap'.accepts
        /\ \A e \in Devices : e \in overlap'.accepts => e \in overlap.accepts \/ e = d
    <3>1. overlap \in [renewal : BOOLEAN, accepts : SUBSET Devices, start : BOOLEAN] BY DEF TypeOK
    <3>. QED BY <2>0, <3>1
  <2>6. TokensFit'
    <3>1. \A e \in Devices : app[e].token \in Nat /\ app[e].token <= spent.token
      BY DEF TypeOK, Fit, TokensFit
    <3>2. \A j \in Calls : Accepting(j) =>
             /\ calls[j].token \in Nat /\ calls[j].token # None /\ calls[j].token <= spent.token
             /\ \A e \in Devices : app[e].token # calls[j].token
             /\ \A i \in Calls : Accepting(i) /\ calls[i].token = calls[j].token => i = j
      BY DEF TypeOK, ApiCall, Fit, TokensFit
    <3>3. spent.token + 1 # None BY <1>C DEF None
    <3>4. \A j \in Calls \ {k} : Accepting(j)' => Accepting(j) BY <2>3 DEF Accepting
    <3>5. \A e \in Devices : app'[e].token <= spent'.token BY <1>C, <2>0, <3>1
    <3>6. \A j \in Calls : Accepting(j)' =>
             /\ calls'[j].token # None /\ calls'[j].token <= spent'.token
             /\ \A e \in Devices : app'[e].token # calls'[j].token
             /\ \A i \in Calls : Accepting(i)' /\ calls'[i].token = calls'[j].token => i = j
      <4>. SUFFICES ASSUME NEW j \in Calls, Accepting(j)'
           PROVE  /\ calls'[j].token # None /\ calls'[j].token <= spent'.token
                  /\ \A e \in Devices : app'[e].token # calls'[j].token
                  /\ \A i \in Calls : Accepting(i)' /\ calls'[i].token = calls'[j].token => i = j
        OBVIOUS
      <4>1. CASE j = k
        <5>1. \A e \in Devices : app'[e].token # calls'[j].token
          BY <1>C, <2>0, <2>2, <2>3, <3>1, <4>1
        <5>2. \A i \in Calls : Accepting(i)' /\ calls'[i].token = calls'[j].token => i = j
          BY <1>C, <2>2, <2>3, <3>2, <3>4, <4>1
        <5>. QED BY <1>C, <2>2, <2>3, <3>3, <4>1, <5>1, <5>2
      <4>2. CASE j # k
        <5>1. /\ calls[j].token \in Nat /\ calls[j].token # None /\ calls[j].token <= spent.token
              /\ calls'[j] = calls[j] /\ Accepting(j)
          BY <2>3, <3>2, <3>4, <4>2
        <5>2. \A e \in Devices : app'[e].token # calls'[j].token BY <2>0, <3>2, <5>1
        <5>3. \A i \in Calls : Accepting(i)' /\ calls'[i].token = calls'[j].token => i = j
          BY <1>C, <2>2, <2>3, <3>2, <3>4, <5>1
        <5>. QED BY <1>C, <5>1, <5>2, <5>3
      <4>. QED BY <4>1, <4>2
    <3>. QED BY <3>5, <3>6 DEF TokensFit
  <2>7. KnownFit' BY <1>C, <2>0 DEF Fit, KnownFit
  <2>8. RevokingFit' BY <1>C, <2>0, <2>2, <2>3 DEF Fit, RevokingFit
  <2>9. SessionsFit' BY <1>C, <2>0 DEF Fit, SessionsFit
  <2>10. AcceptsFit'
    <3>. SUFFICES ASSUME NEW j \in Calls, Accepting(j)'
         PROVE  /\ calls'[j].s = app'[calls'[j].d].session
                /\ \/ calls'[j].d \in overlap'.accepts
                   \/ /\ app'[calls'[j].d].token = None
                      /\ \A i \in Calls : Accepting(i)' /\ calls'[i].d = calls'[j].d => i = j
                      /\ calls'[j].pc = "complete" => Authorized(calls[j].d, calls[j].token)'
      BY DEF AcceptsFit
    <3>1. CASE j = k
      <4>1. calls'[j].s = app'[calls'[j].d].session BY <2>0, <2>2, <2>3, <3>1
      <4>2. d \in overlap'.accepts
            \/ \A i \in Calls : Accepting(i)' /\ calls'[i].d = d => i = k
        BY <2>2, <2>3, <2>5 DEF Accepting
      <4>. QED BY <2>0, <2>2, <2>3, <2>4, <3>1, <4>1, <4>2
    <3>2. CASE j # k
      <4>1. calls'[j] = calls[j] /\ Accepting(j) BY <2>3, <3>2 DEF Accepting
      <4>2. calls'[j].s = app'[calls'[j].d].session BY <2>0, <4>1 DEF Fit, AcceptsFit
      <4>3. CASE calls[j].d \in overlap'.accepts BY <4>1, <4>2, <4>3
      <4>4. CASE calls[j].d \notin overlap'.accepts
        <5>1. calls[j].d # d BY <2>5, <4>1, <4>4 DEF Accepting
        <5>2. /\ app[calls[j].d].token = None
              /\ \A i \in Calls : Accepting(i) /\ calls[i].d = calls[j].d => i = j
              /\ calls[j].pc = "complete" => Authorized(calls[j].d, calls[j].token)
          BY <2>5, <4>1, <4>4 DEF Fit, AcceptsFit
        <5>3. \A i \in Calls : Accepting(i)' /\ calls'[i].d = calls'[j].d => i = j
          BY <2>2, <2>3, <4>1, <5>1, <5>2 DEF Accepting
        <5>4. calls'[j].pc = "complete" => Authorized(calls[j].d, calls[j].token)'
          BY <1>C, <4>1, <5>2 DEF Authorized
        <5>. QED BY <2>0, <4>1, <4>2, <5>2, <5>3, <5>4
      <4>. QED BY <4>3, <4>4
    <3>. QED BY <3>1, <3>2
  <2>11. PairedDeviceIsAccepted'
    BY <1>C, <2>0, <2>5 DEF Fit, PairedDeviceIsAccepted, Authorized
  <2>. QED BY <2>6, <2>7, <2>8, <2>9, <2>10, <2>11 DEF Fit
<1>. QED BY <1>2, <1>3

\* A call that only moves on, or returns, leaves the others as they are.
LEMMA MovesOn ==
    ASSUME TypeOK, NEW k \in Calls, Return(k) \/ \E pc \in {"complete", "compensate"} : Step(k, pc)
    PROVE  \A j \in Calls :
             /\ calls'[j].op # "none" => /\ calls'[j].op = calls[j].op /\ calls'[j].d = calls[j].d
                                         /\ calls'[j].s = calls[j].s
                                         /\ calls'[j].token = calls[j].token
             /\ calls'[j].pc = calls[j].pc \/ j = k
BY CallMoves

\* The relay may register the device of a call under the token of the call.
LEMMA PairFits ==
    ASSUME TypeOK, TypeOK', CallsFit, Fit, NEW k \in Calls, Pair(k)
    PROVE  Fit'
<1>. USE DEF durable, memory, history
<1>. DEFINE d == calls[k].d
<1>C. /\ Accepting(k) /\ d \in Devices /\ calls[k].pc = "pair"
      /\ UNCHANGED <<disk, sessions, pending, loops, app, overlap, revoked>>
  BY DEF Pair, At, CallsFit, CallFits, Accepting
<1>1. \A j \in Calls :
         /\ calls'[j].op # "none" => /\ calls'[j].op = calls[j].op /\ calls'[j].d = calls[j].d
                                     /\ calls'[j].s = calls[j].s
                                     /\ calls'[j].token = calls[j].token
         /\ calls'[j].pc = calls[j].pc \/ j = k
  <2>1. Return(k) \/ Step(k, "complete") BY DEF Pair, Relay
  <2>. QED BY <2>1, MovesOn
<1>2. spent'.token = spent.token
  <2>1. UNCHANGED spent \/ spent' = [spent EXCEPT !.failures = @ + 1] BY DEF Pair, Relay
  <2>. QED BY <2>1 DEF TypeOK
<1>3. /\ \A e \in Devices \ {d} : relay'[e] = relay[e]
      /\ \/ relay' = relay
         \/ relay'[d].token = calls[k].token /\ ~relay'[d].revoked
  <2>1. UNCHANGED relay \/ Registered(d, calls[k].cert, calls[k].token) BY DEF Pair, Relay
  <2>. QED BY <1>C, <2>1 DEF Registered, TypeOK, Ids
<1>4. calls'[k].pc = "complete" => relay'[d].token = calls[k].token /\ ~relay'[d].revoked
  <2>1. CASE Return(k) BY <2>1, CallMoves
  <2>2. CASE Registered(d, calls[k].cert, calls[k].token)
    BY <1>C, <2>2 DEF Registered, TypeOK, Ids
  <2>. QED BY <1>C, <2>1, <2>2 DEF Pair, Relay
<1>5. TokensFit' BY <1>C, <1>1, <1>2 DEF Fit, TokensFit, Accepting
<1>6. KnownFit' BY <1>C DEF Fit, KnownFit
<1>7. RevokingFit'
  <2>1. \A j \in Calls : calls'[j].op = "revoke" => disk'[calls'[j].d].revoked
    BY <1>C, <1>1 DEF Fit, RevokingFit
  <2>2. \A e \in revoked' : disk'[e].revoked /\ (relay'[e].revoked \/ relay'[e].token # app'[e].token)
    <3>1. app[d].token # calls[k].token BY <1>C DEF Fit, TokensFit
    <3>. QED BY <1>C, <1>3, <3>1 DEF Fit, RevokingFit, TypeOK
  <2>. QED BY <2>1, <2>2 DEF RevokingFit
<1>8. SessionsFit' BY <1>C DEF Fit, SessionsFit
<1>9. AcceptsFit'
  <2>. SUFFICES ASSUME NEW j \in Calls, Accepting(j)'
       PROVE  /\ calls'[j].s = app'[calls'[j].d].session
              /\ \/ calls'[j].d \in overlap'.accepts
                 \/ /\ app'[calls'[j].d].token = None
                    /\ \A i \in Calls : Accepting(i)' /\ calls'[i].d = calls'[j].d => i = j
                    /\ calls'[j].pc = "complete" => Authorized(calls[j].d, calls[j].token)'
    BY DEF AcceptsFit
  <2>1. /\ Accepting(j) /\ calls'[j].d = calls[j].d /\ calls'[j].s = calls[j].s
        /\ calls'[j].token = calls[j].token
    BY <1>1 DEF Accepting
  <2>2. calls'[j].s = app'[calls'[j].d].session BY <1>C, <2>1 DEF Fit, AcceptsFit
  <2>3. CASE calls[j].d \in overlap.accepts BY <1>C, <2>1, <2>2, <2>3
  <2>4. CASE calls[j].d \notin overlap.accepts
    <3>1. /\ app[calls[j].d].token = None
          /\ \A i \in Calls : Accepting(i) /\ calls[i].d = calls[j].d => i = j
          /\ calls[j].pc = "complete" => Authorized(calls[j].d, calls[j].token)
      BY <2>1, <2>4 DEF Fit, AcceptsFit
    <3>2. \A i \in Calls : Accepting(i)' /\ calls'[i].d = calls'[j].d => i = j
      BY <1>1, <2>1, <3>1 DEF Accepting
    <3>3. calls'[j].pc = "complete" => Authorized(calls[j].d, calls[j].token)'
      <4>1. calls[j].d \in Devices /\ calls[j].token # None
        BY <2>1 DEF CallsFit, CallFits, Accepting, Fit, TokensFit
      <4>2. CASE j = k BY <1>4, <2>1, <4>1, <4>2 DEF Authorized
      <4>3. CASE j # k
        <5>1. calls[j].d # d BY <1>C, <3>1, <4>3
        <5>. QED BY <1>1, <1>3, <2>1, <3>1, <4>1, <4>3, <5>1 DEF Authorized
      <4>. QED BY <4>2, <4>3
    <3>. QED BY <1>C, <2>1, <2>2, <3>1, <3>2, <3>3
  <2>. QED BY <2>3, <2>4
<1>10. PairedDeviceIsAccepted'
  <2>. SUFFICES ASSUME NEW e \in Devices, app'[e].token # None
       PROVE  e \in overlap'.accepts \/ disk'[e].revoked \/ Authorized(e, app[e].token)'
    BY DEF PairedDeviceIsAccepted
  <2>1. e \in overlap.accepts \/ disk[e].revoked \/ Authorized(e, app[e].token)
    BY <1>C DEF Fit, PairedDeviceIsAccepted
  <2>2. CASE e = d
    <3>1. d \in overlap.accepts BY <1>C, <2>2 DEF Fit, AcceptsFit
    <3>. QED BY <1>C, <2>2, <3>1
  <2>3. CASE e # d BY <1>C, <1>3, <2>1, <2>3 DEF Authorized
  <2>. QED BY <2>2, <2>3
<1>. QED BY <1>5, <1>6, <1>7, <1>8, <1>9, <1>10 DEF Fit

\* The session is used up and the device paired, or the call is to compensate.
LEMMA CompleteFits ==
    ASSUME TypeOK, TypeOK', CallsFit, Fit, NEW k \in Calls, Complete(k)
    PROVE  Fit'
<1>. USE DEF durable, memory, history
<1>. DEFINE d == calls[k].d
            s == calls[k].s
<1>C. /\ Accepting(k) /\ d \in Devices /\ s \in Sessions /\ calls[k].pc = "complete"
      /\ s = app[d].session /\ calls[k].token # None
      /\ UNCHANGED <<relay, loops, overlap, revoked, spent>>
  BY DEF Complete, At, CallsFit, CallFits, Accepting, Fit, AcceptsFit, TokensFit
<1>1. \A j \in Calls :
         /\ calls'[j].op # "none" => /\ calls'[j].op = calls[j].op /\ calls'[j].d = calls[j].d
                                     /\ calls'[j].s = calls[j].s
                                     /\ calls'[j].token = calls[j].token
         /\ calls'[j].pc = calls[j].pc \/ j = k
  <2>1. Return(k) \/ Step(k, "compensate") BY DEF Complete
  <2>. QED BY <2>1, MovesOn
<1>2. \/ UNCHANGED <<sessions, disk, pending, app>> /\ calls'[k].pc = "compensate"
      \/ /\ calls'[k].op = "none"
         /\ sessions' = [sessions EXCEPT ![s] = "used"]
         /\ pending' = [pending EXCEPT ![s].d = d, ![s].token = calls[k].token]
         /\ RegisterLocally(d, calls[k].cert)
         /\ app' = Completed(d, calls[k].token, calls[k].cert)
  BY CallMoves DEF Complete
<1>3. CASE UNCHANGED <<sessions, disk, pending, app>> /\ calls'[k].pc = "compensate"
  <2>1. TokensFit' BY <1>C, <1>1, <1>3 DEF Fit, TokensFit, Accepting
  <2>2. KnownFit' BY <1>C, <1>3 DEF Fit, KnownFit
  <2>3. RevokingFit' BY <1>C, <1>1, <1>3 DEF Fit, RevokingFit
  <2>4. SessionsFit' BY <1>3 DEF Fit, SessionsFit
  <2>5. AcceptsFit' BY <1>C, <1>1, <1>3 DEF Fit, AcceptsFit, Accepting, Authorized
  <2>6. PairedDeviceIsAccepted' BY <1>C, <1>3 DEF Fit, PairedDeviceIsAccepted, Authorized
  <2>. QED BY <2>1, <2>2, <2>3, <2>4, <2>5, <2>6 DEF Fit
<1>4. CASE /\ calls'[k].op = "none"
           /\ sessions' = [sessions EXCEPT ![s] = "used"]
           /\ pending' = [pending EXCEPT ![s].d = d, ![s].token = calls[k].token]
           /\ RegisterLocally(d, calls[k].cert)
           /\ app' = Completed(d, calls[k].token, calls[k].cert)
  <2>1. /\ \A e \in Devices \ {d} : app'[e] = app[e]
        /\ app'[d].session = s
        /\ app'[d].token = IF app[d].token = None THEN calls[k].token ELSE app[d].token
    <3>0. app \in [Devices -> [session : Sessions \cup {None}, token : Nat, own : Int, host : Int]]
      BY DEF TypeOK
    <3>1. CASE app[d].token # None BY <1>C, <1>4, <3>1 DEF Completed
    <3>2. CASE app[d].token = None
      <4>1. app' = [app EXCEPT ![d] = [app[d] EXCEPT !.token = calls[k].token, !.own = calls[k].cert,
                                                     !.host = conf.cert]]
        BY <1>4, <3>0, <3>2 DEF Completed
      <4>. QED BY <1>C, <3>0, <3>2, <4>1
    <3>. QED BY <3>1, <3>2
  <2>2. /\ \A e \in Devices : disk'[e].revoked = disk[e].revoked
        /\ \A e \in Devices : disk'[e].cert # -1 => e = d \/ disk[e].cert # -1
    <3>1. d \in Ids BY <1>C DEF Ids
    <3>. QED BY <1>4, <3>1, RowMoves
  <2>3. \A t \in Sessions : /\ sessions[t] = "used" => sessions'[t] = "used"
                            /\ pending'[t].d = IF t = s THEN d ELSE pending[t].d
    <3>0. /\ sessions \in [Sessions -> {"none", "open", "used", "expired"}]
          /\ pending \in [Sessions -> [active : BOOLEAN, d : Devices \cup {NoId}, token : Nat]]
      BY DEF TypeOK
    <3>1. \A t \in Sessions : sessions[t] = "used" => sessions'[t] = "used" BY <1>4, <3>0
    <3>2. pending' = [pending EXCEPT ![s] = [pending[s] EXCEPT !.d = d, !.token = calls[k].token]]
      BY <1>4, <1>C, <3>0
    <3>3. pending'[s].d = d BY <1>C, <3>0, <3>2
    <3>4. \A t \in Sessions \ {s} : pending'[t] = pending[t] BY <3>0, <3>2
    <3>. QED BY <3>1, <3>3, <3>4
  <2>4. \A j \in Calls : Accepting(j)' => j # k /\ Accepting(j) BY <1>1, <1>4 DEF Accepting
  <2>5. app'[d].token # None BY <1>C, <2>1
  <2>6. TokensFit'
    <3>1. \A e \in Devices : app'[e].token <= spent'.token
      BY <1>C, <2>1 DEF Fit, TokensFit
    <3>2. \A j \in Calls : Accepting(j)' =>
             /\ calls'[j].token # None /\ calls'[j].token <= spent'.token
             /\ \A e \in Devices : app'[e].token # calls'[j].token
             /\ \A i \in Calls : Accepting(i)' /\ calls'[i].token = calls'[j].token => i = j
      <4>. SUFFICES ASSUME NEW j \in Calls, Accepting(j)'
           PROVE  /\ calls'[j].token # None /\ calls'[j].token <= spent'.token
                  /\ \A e \in Devices : app'[e].token # calls'[j].token
                  /\ \A i \in Calls : Accepting(i)' /\ calls'[i].token = calls'[j].token => i = j
        OBVIOUS
      <4>1. j # k /\ Accepting(j) /\ calls'[j].token = calls[j].token
        BY <1>1, <2>4 DEF Accepting
      <4>2. calls[j].token # calls[k].token BY <1>C, <4>1 DEF Fit, TokensFit
      <4>3. /\ calls[j].token # None /\ calls[j].token <= spent.token
            /\ \A e \in Devices : app[e].token # calls[j].token
            /\ \A i \in Calls : Accepting(i) /\ calls[i].token = calls[j].token => i = j
        BY <4>1 DEF Fit, TokensFit
      <4>4. \A e \in Devices : app'[e].token # calls'[j].token BY <2>1, <4>1, <4>2, <4>3
      <4>5. \A i \in Calls : Accepting(i)' /\ calls'[i].token = calls'[j].token => i = j
        BY <1>1, <2>4, <4>1, <4>3 DEF Accepting
      <4>. QED BY <1>C, <4>1, <4>3, <4>4, <4>5
    <3>. QED BY <3>1, <3>2 DEF TokensFit
  <2>7. KnownFit'
    <3>1. \A e \in Devices : app[e].token # None => app'[e].token # None BY <1>C, <2>1
    <3>2. \A e \in Devices : disk'[e].cert # -1 \/ disk'[e].revoked => app'[e].token # None
      BY <2>2, <2>5, <3>1 DEF Fit, KnownFit
    <3>3. \A t \in Sessions : pending'[t].d # NoId => app'[pending'[t].d].token # None
      <4>1. \A t \in Sessions : pending[t].d \in Devices \cup {NoId} BY DEF TypeOK
      <4>2. \A t \in Sessions : pending[t].d # NoId => app'[pending[t].d].token # None
        BY <3>1, <4>1 DEF Fit, KnownFit
      <4>. QED BY <2>3, <2>5, <4>2
    <3>4. \A l \in Loops : loops'[l].for # NoId => app'[loops'[l].for].token # None
      BY <1>C, <3>1 DEF Fit, KnownFit, TypeOK, ConnectorLoop
    <3>. QED BY <3>2, <3>3, <3>4 DEF KnownFit
  <2>8. RevokingFit'
    <3>1. \A j \in Calls : calls'[j].op = "revoke" => disk'[calls'[j].d].revoked
      BY <1>1, <2>2 DEF Fit, RevokingFit, CallsFit, CallFits
    <3>2. \A e \in revoked : app'[e].token = app[e].token
      <4>. SUFFICES ASSUME NEW e \in revoked PROVE app'[e].token = app[e].token OBVIOUS
      <4>1. e \in Devices /\ disk[e].revoked BY DEF TypeOK, Fit, RevokingFit
      <4>2. app[e].token # None BY <4>1 DEF Fit, KnownFit
      <4>. QED BY <2>1, <4>1, <4>2
    <3>3. revoked \subseteq Devices BY DEF TypeOK
    <3>. QED BY <1>C, <2>2, <3>1, <3>2, <3>3 DEF Fit, RevokingFit
  <2>9. SessionsFit'
    <3>. SUFFICES ASSUME NEW e \in Devices, app'[e].token # None, app'[e].session # None
         PROVE  sessions'[app'[e].session] = "used"
      BY DEF SessionsFit
    <3>1. CASE e = d BY <1>4, <1>C, <2>1, <3>1 DEF TypeOK
    <3>2. CASE e # d
      <4>1. app[e].session \in Sessions /\ sessions[app[e].session] = "used"
        BY <2>1, <3>2 DEF Fit, SessionsFit, TypeOK
      <4>. QED BY <2>1, <2>3, <3>2, <4>1
    <3>. QED BY <3>1, <3>2
  <2>10. AcceptsFit'
    <3>. SUFFICES ASSUME NEW j \in Calls, Accepting(j)'
         PROVE  /\ calls'[j].s = app'[calls'[j].d].session
                /\ \/ calls'[j].d \in overlap'.accepts
                   \/ /\ app'[calls'[j].d].token = None
                      /\ \A i \in Calls : Accepting(i)' /\ calls'[i].d = calls'[j].d => i = j
                      /\ calls'[j].pc = "complete" => Authorized(calls[j].d, calls[j].token)'
      BY DEF AcceptsFit
    <3>1. /\ j # k /\ Accepting(j) /\ calls'[j].d = calls[j].d /\ calls'[j].s = calls[j].s
          /\ calls'[j].token = calls[j].token /\ calls'[j].pc = calls[j].pc
      BY <1>1, <2>4 DEF Accepting
    <3>2. calls[j].d \in Devices BY <3>1 DEF CallsFit, CallFits, Accepting
    <3>3. calls'[j].s = app'[calls'[j].d].session
      <4>1. app'[calls[j].d].session = app[calls[j].d].session BY <1>C, <2>1, <3>2
      <4>. QED BY <3>1, <4>1 DEF Fit, AcceptsFit
    <3>4. CASE calls[j].d \in overlap.accepts BY <1>C, <3>1, <3>3, <3>4
    <3>5. CASE calls[j].d \notin overlap.accepts
      <4>1. /\ app[calls[j].d].token = None
            /\ \A i \in Calls : Accepting(i) /\ calls[i].d = calls[j].d => i = j
            /\ calls[j].pc = "complete" => Authorized(calls[j].d, calls[j].token)
        BY <3>1, <3>5 DEF Fit, AcceptsFit
      <4>2. calls[j].d # d BY <1>C, <3>1, <4>1
      <4>3. \A i \in Calls : Accepting(i)' /\ calls'[i].d = calls'[j].d => i = j
        BY <1>1, <2>4, <3>1, <4>1 DEF Accepting
      <4>. QED BY <1>C, <2>1, <3>1, <3>2, <3>3, <4>1, <4>2, <4>3 DEF Authorized
    <3>. QED BY <3>4, <3>5
  <2>11. PairedDeviceIsAccepted'
    <3>. SUFFICES ASSUME NEW e \in Devices, app'[e].token # None
         PROVE  e \in overlap'.accepts \/ disk'[e].revoked \/ Authorized(e, app[e].token)'
      BY DEF PairedDeviceIsAccepted
    <3>1. CASE app[e].token # None
      <4>1. app'[e].token = app[e].token BY <2>1, <3>1
      <4>. QED BY <1>C, <2>2, <3>1, <4>1 DEF Fit, PairedDeviceIsAccepted, Authorized
    <3>2. CASE app[e].token = None
      <4>1. e = d /\ app'[d].token = calls[k].token BY <2>1, <3>2
      <4>2. d \in overlap.accepts \/ Authorized(d, calls[k].token) BY <1>C DEF Fit, AcceptsFit
      <4>. QED BY <1>C, <4>1, <4>2 DEF Authorized
    <3>. QED BY <3>1, <3>2
  <2>. QED BY <2>6, <2>7, <2>8, <2>9, <2>10, <2>11 DEF Fit
<1>. QED BY <1>2, <1>3, <1>4

\* The relay may revoke the device of a call that was refused.
LEMMA CompensateFits ==
    ASSUME TypeOK, TypeOK', CallsFit, Fit, NEW k \in Calls, Compensate(k)
    PROVE  Fit'
<1>. USE DEF durable, memory, history
<1>. DEFINE d == calls[k].d
<1>C. /\ Accepting(k) /\ d \in Devices
      /\ UNCHANGED <<disk, sessions, pending, loops, app, overlap, revoked>> /\ Return(k)
  BY DEF Compensate, Relay, At, CallsFit, CallFits, Accepting
<1>1. \A j \in Calls : Accepting(j)' \/ calls'[j].op = "revoke" => j # k /\ calls'[j] = calls[j]
  BY <1>C, CallMoves DEF Accepting
<1>2. spent'.token = spent.token
  <2>1. UNCHANGED spent \/ spent' = [spent EXCEPT !.failures = @ + 1] BY DEF Compensate, Relay
  <2>. QED BY <2>1 DEF TypeOK
<1>3. \A e \in Devices : /\ relay'[e].token = relay[e].token
                         /\ relay[e].revoked => relay'[e].revoked
                         /\ e # d => relay'[e].revoked = relay[e].revoked
  <2>1. UNCHANGED relay \/ RevokedAtRelay(d) BY DEF Compensate, Relay
  <2>. QED BY <1>C, <2>1 DEF RevokedAtRelay, TypeOK, Ids, Row
<1>4. TokensFit' BY <1>C, <1>1, <1>2 DEF Fit, TokensFit, Accepting
<1>5. KnownFit' BY <1>C DEF Fit, KnownFit
<1>6. RevokingFit' BY <1>C, <1>1, <1>3 DEF Fit, RevokingFit, TypeOK
<1>7. SessionsFit' BY <1>C DEF Fit, SessionsFit
<1>8. AcceptsFit'
  <2>. SUFFICES ASSUME NEW j \in Calls, Accepting(j)'
       PROVE  /\ calls'[j].s = app'[calls'[j].d].session
              /\ \/ calls'[j].d \in overlap'.accepts
                 \/ /\ app'[calls'[j].d].token = None
                    /\ \A i \in Calls : Accepting(i)' /\ calls'[i].d = calls'[j].d => i = j
                    /\ calls'[j].pc = "complete" => Authorized(calls[j].d, calls[j].token)'
    BY DEF AcceptsFit
  <2>1. j # k /\ Accepting(j) /\ calls'[j] = calls[j] /\ calls[j].d \in Devices
    BY <1>1 DEF Accepting, CallsFit, CallFits
  <2>2. calls'[j].s = app'[calls'[j].d].session BY <1>C, <2>1 DEF Fit, AcceptsFit
  <2>3. CASE calls[j].d \in overlap.accepts BY <1>C, <2>1, <2>2, <2>3
  <2>4. CASE calls[j].d \notin overlap.accepts
    <3>1. /\ app[calls[j].d].token = None
          /\ \A i \in Calls : Accepting(i) /\ calls[i].d = calls[j].d => i = j
          /\ calls[j].pc = "complete" => Authorized(calls[j].d, calls[j].token)
      BY <2>1, <2>4 DEF Fit, AcceptsFit
    <3>2. \A i \in Calls : Accepting(i)' /\ calls'[i].d = calls'[j].d => i = j
      BY <1>1, <2>1, <3>1 DEF Accepting
    <3>3. calls[j].d # d BY <1>C, <2>1, <3>1
    <3>. QED BY <1>C, <1>3, <2>1, <2>2, <3>1, <3>2, <3>3 DEF Authorized
  <2>. QED BY <2>3, <2>4
<1>9. PairedDeviceIsAccepted'
  <2>1. d \in overlap.accepts \/ app[d].token = None BY <1>C DEF Fit, AcceptsFit
  <2>. QED BY <1>C, <1>3, <2>1 DEF Fit, PairedDeviceIsAccepted, Authorized
<1>. QED BY <1>4, <1>5, <1>6, <1>7, <1>8, <1>9 DEF Fit

\* The host revokes a device it knows.
LEMMA RevokeFits ==
    ASSUME TypeOK, TypeOK', CallsFit, Fit, NEW k \in Calls, NEW d \in Devices, Revoke(k, d)
    PROVE  Fit'
<1>. USE DEF durable, memory, history
<1>C. UNCHANGED <<relay, sessions, pending, loops, app, overlap, revoked>>
  BY DEF Revoke
<1>1. /\ calls'[k].op = "revoke" /\ calls'[k].d = d /\ \A j \in Calls \ {k} : calls'[j] = calls[j]
  BY NothingTypes DEF Revoke, ApiCall, TypeOK
<1>2. /\ \A e \in Devices \ {d} : disk'[e] = disk[e]
      /\ disk'[d].revoked /\ disk[d].cert # -1
  <2>1. disk \in [Ids -> [cert : Int, revoked : BOOLEAN]] /\ d \in Ids BY DEF TypeOK, Ids
  <2>2. disk'[d].revoked = TRUE /\ \A e \in Ids \ {d} : disk'[e] = disk[e] BY <2>1 DEF Revoke
  <2>. QED BY <2>2 DEF Revoke, Ids
<1>3. spent'.token = spent.token BY CalledTypes DEF Revoke
<1>4. \A j \in Calls : Accepting(j)' => Accepting(j) /\ calls'[j] = calls[j]
  BY <1>1 DEF Accepting
<1>5. TokensFit' BY <1>C, <1>3, <1>4 DEF Fit, TokensFit
<1>6. KnownFit' BY <1>C, <1>2 DEF Fit, KnownFit
<1>7. RevokingFit'
  <2>1. \A j \in Calls : calls'[j].op = "revoke" => disk'[calls'[j].d].revoked
    BY <1>1, <1>2 DEF Fit, RevokingFit, CallsFit, CallFits
  <2>2. \A e \in revoked : disk'[e].revoked BY <1>2 DEF Fit, RevokingFit, TypeOK
  <2>. QED BY <1>C, <2>1, <2>2 DEF Fit, RevokingFit
<1>8. SessionsFit' BY <1>C DEF Fit, SessionsFit
<1>9. AcceptsFit' BY <1>C, <1>4 DEF Fit, AcceptsFit, Authorized
<1>10. PairedDeviceIsAccepted' BY <1>C, <1>2 DEF Fit, PairedDeviceIsAccepted, Authorized
<1>. QED BY <1>5, <1>6, <1>7, <1>8, <1>9, <1>10 DEF Fit

\* The relay revokes the device the host has revoked.
LEMMA RevokeAtRelayFits ==
    ASSUME TypeOK, TypeOK', CallsFit, Fit, NEW k \in Calls, RevokeAtRelay(k)
    PROVE  Fit'
<1>. USE DEF durable, memory, history
<1>. DEFINE d == calls[k].d
<1>C. /\ d \in Devices /\ disk[d].revoked /\ app[d].token # None
      /\ UNCHANGED <<disk, sessions, pending, loops, app, overlap>> /\ Return(k)
  <2>1. calls[k].op = "revoke" /\ d \in Devices
    BY DEF RevokeAtRelay, At, CallsFit, CallFits
  <2>2. disk[d].revoked BY <2>1 DEF Fit, RevokingFit
  <2>. QED BY <2>1, <2>2 DEF Fit, KnownFit, RevokeAtRelay, Relay
<1>1. \A j \in Calls : Accepting(j)' \/ calls'[j].op = "revoke" => j # k /\ calls'[j] = calls[j]
  BY <1>C, CallMoves DEF Accepting
<1>2. spent'.token = spent.token
  <2>1. UNCHANGED spent \/ spent' = [spent EXCEPT !.failures = @ + 1] BY DEF RevokeAtRelay, Relay
  <2>. QED BY <2>1 DEF TypeOK
<1>3. \A e \in Devices : /\ relay'[e].token = relay[e].token
                         /\ relay[e].revoked => relay'[e].revoked
                         /\ e # d => relay'[e].revoked = relay[e].revoked
  <2>1. UNCHANGED relay \/ RevokedAtRelay(d) BY DEF RevokeAtRelay, Relay
  <2>. QED BY <1>C, <2>1 DEF RevokedAtRelay, TypeOK, Ids, Row
<1>3a. revoked' = revoked \/ (revoked' = revoked \cup {d} /\ relay'[d].revoked)
  <2>1. revoked' = revoked \/ (revoked' = revoked \cup {d} /\ RevokedAtRelay(d))
    BY DEF RevokeAtRelay, Relay
  <2>2. RevokedAtRelay(d) => relay'[d].revoked BY <1>C DEF RevokedAtRelay, TypeOK, Ids, Row
  <2>. QED BY <2>1, <2>2
<1>4. TokensFit' BY <1>C, <1>1, <1>2 DEF Fit, TokensFit, Accepting
<1>5. KnownFit' BY <1>C DEF Fit, KnownFit
<1>6. RevokingFit'
  <2>1. \A j \in Calls : calls'[j].op = "revoke" => disk'[calls'[j].d].revoked
    BY <1>C, <1>1 DEF Fit, RevokingFit
  <2>2. \A e \in revoked : disk'[e].revoked /\ (relay'[e].revoked \/ relay'[e].token # app'[e].token)
    BY <1>C, <1>3 DEF Fit, RevokingFit, TypeOK
  <2>. QED BY <1>C, <1>3a, <2>1, <2>2 DEF RevokingFit
<1>7. SessionsFit' BY <1>C DEF Fit, SessionsFit
<1>8. AcceptsFit'
  <2>. SUFFICES ASSUME NEW j \in Calls, Accepting(j)'
       PROVE  /\ calls'[j].s = app'[calls'[j].d].session
              /\ \/ calls'[j].d \in overlap'.accepts
                 \/ /\ app'[calls'[j].d].token = None
                    /\ \A i \in Calls : Accepting(i)' /\ calls'[i].d = calls'[j].d => i = j
                    /\ calls'[j].pc = "complete" => Authorized(calls[j].d, calls[j].token)'
    BY DEF AcceptsFit
  <2>1. j # k /\ Accepting(j) /\ calls'[j] = calls[j] /\ calls[j].d \in Devices
    BY <1>1 DEF Accepting, CallsFit, CallFits
  <2>2. calls'[j].s = app'[calls'[j].d].session BY <1>C, <2>1 DEF Fit, AcceptsFit
  <2>3. CASE calls[j].d \in overlap.accepts BY <1>C, <2>1, <2>2, <2>3
  <2>4. CASE calls[j].d \notin overlap.accepts
    <3>1. /\ app[calls[j].d].token = None
          /\ \A i \in Calls : Accepting(i) /\ calls[i].d = calls[j].d => i = j
          /\ calls[j].pc = "complete" => Authorized(calls[j].d, calls[j].token)
      BY <2>1, <2>4 DEF Fit, AcceptsFit
    <3>2. \A i \in Calls : Accepting(i)' /\ calls'[i].d = calls'[j].d => i = j
      BY <1>1, <2>1, <3>1 DEF Accepting
    <3>3. calls[j].d # d BY <1>C, <3>1
    <3>. QED BY <1>C, <1>3, <2>1, <2>2, <3>1, <3>2, <3>3 DEF Authorized
  <2>. QED BY <2>3, <2>4
<1>9. PairedDeviceIsAccepted' BY <1>C, <1>3 DEF Fit, PairedDeviceIsAccepted, Authorized
<1>. QED BY <1>4, <1>5, <1>6, <1>7, <1>8, <1>9 DEF Fit

----------------------------------------------------------------------------
(* Theorems.                                                               *)

LEMMA InitFits == Init => Fit
<1>. SUFFICES ASSUME Init PROVE Fit OBVIOUS
<1>1. TypeOK BY InitTypes
<1>2. \A k \in Calls : ~Accepting(k) /\ calls[k].op # "revoke" BY DEF Init, Idle, Accepting
<1>3. \A d \in Devices :
         /\ relay[d] = IF d \in max.paired THEN [cert |-> 0, token |-> 1, revoked |-> FALSE]
                       ELSE [cert |-> -1, token |-> None, revoked |-> FALSE]
         /\ disk[d] = [cert |-> relay[d].cert, revoked |-> FALSE]
         /\ app[d].session = None /\ app[d].token = relay[d].token
  BY InstancesAssumption DEF Init, Ids, NoRow
<1>4. /\ spent.token = 1
      /\ \A d \in Devices : /\ app[d].token = relay[d].token /\ ~relay[d].revoked
                            /\ ~disk[d].revoked /\ disk[d].cert = relay[d].cert
                            /\ relay[d].token = 1 \/ (relay[d].token = None /\ relay[d].cert = -1)
  <2>1. spent.token = 1 BY DEF Init
  <2>2. ASSUME NEW d \in Devices
        PROVE  /\ ~relay[d].revoked /\ ~disk[d].revoked /\ disk[d].cert = relay[d].cert
               /\ relay[d].token = 1 \/ (relay[d].token = None /\ relay[d].cert = -1)
    <3>1. disk[d] = [cert |-> relay[d].cert, revoked |-> FALSE] BY <1>3
    <3>2. CASE d \in max.paired
      <4>1. relay[d] = [cert |-> 0, token |-> 1, revoked |-> FALSE] BY <1>3, <3>2
      <4>. QED BY <3>1, <4>1
    <3>3. CASE d \notin max.paired
      <4>1. relay[d] = [cert |-> -1, token |-> None, revoked |-> FALSE] BY <1>3, <3>3
      <4>. QED BY <3>1, <4>1
    <3>. QED BY <3>2, <3>3
  <2>. QED BY <1>3, <2>1, <2>2
<1>5. TokensFit BY <1>2, <1>4 DEF TokensFit, None
<1>6. KnownFit
  <2>1. \A d \in Devices : disk[d].cert # -1 \/ disk[d].revoked => app[d].token # None
    BY <1>4 DEF None
  <2>2. \A s \in Sessions : pending[s].d = NoId BY DEF Init, NoPairing
  <2>3. \A l \in Loops : loops[l].for = NoId
    <3>1. Off.for = NoId /\ [Off EXCEPT !.pc = "ensure"].for = NoId BY DEF Off
    <3>. QED BY <3>1 DEF Init
  <2>. QED BY <2>1, <2>2, <2>3 DEF KnownFit
<1>7. RevokingFit BY <1>2 DEF RevokingFit, Init
<1>8. SessionsFit BY <1>3 DEF SessionsFit
<1>9. AcceptsFit BY <1>2 DEF AcceptsFit
<1>10. PairedDeviceIsAccepted BY <1>4 DEF PairedDeviceIsAccepted, Authorized, None
<1>. QED BY <1>5, <1>6, <1>7, <1>8, <1>9, <1>10 DEF Fit

LEMMA NextFits == TypeOK /\ CallsFit /\ Fit /\ [Next]_vars => Fit'
<1>. SUFFICES ASSUME TypeOK, CallsFit, Fit, [Next]_vars PROVE Fit' OBVIOUS
<1>1. TypeOK' BY NextTypes
<1>2. CASE Quiet BY <1>1, <1>2, QuietFits
<1>3. ASSUME NEW k \in Calls, Configure(k) \/ CallSteps(k) PROVE Fit'
  <2>1. CASE Configure(k) \/ Enroll(k) \/ Save(k) \/ Restart(k)
    BY <1>2, <2>1, QuietConfiguring
  <2>. QED
    BY <1>1, <1>3, <2>1, PairFits, CompleteFits, CompensateFits, RevokeAtRelayFits DEF CallSteps
<1>4. ASSUME NEW k \in Calls, NEW d \in Devices, Accept(k, d) \/ Revoke(k, d) PROVE Fit'
  BY <1>1, <1>4, AcceptFits, RevokeFits
<1>5. ASSUME NEW l \in Loops, LoopSteps(l) PROVE Fit' BY <1>2, <1>5, QuietLoops
<1>6. CASE \/ \E s \in Sessions : CreatePairing(s) \/ Expire(s)
           \/ \E d \in Devices, s \in Sessions : BeginPairing(d, s)
           \/ RotateAdmin \/ Tick \/ Crash \/ Start \/ UNCHANGED vars
  BY <1>2, <1>6, QuietProcess
<1>. QED BY <1>3, <1>4, <1>5, <1>6 DEF Next

LEMMA FitAlways == FairSpec => []Fit
BY InitTypes, InitCalls, InitFits, NextTypes, NextCalls, NextFits, PTL DEF FairSpec

\* Whatever is configured, renewed or revoked meanwhile, a device that was
\* handed its bootstrap is accepted until it is revoked, unless two calls
\* accepted its request at once.
THEOREM PairedStaysAccepted == FairSpec => []PairedDeviceIsAccepted
<1>1. Fit => PairedDeviceIsAccepted BY DEF Fit
<1>. QED BY <1>1, FitAlways, PTL

\* A device whose revocation was acknowledged is refused for good, by the host
\* and, with the token it holds, by the relay.
THEOREM RevokedStaysRevoked == FairSpec => []RevocationIsFinal
<1>1. Fit => RevocationIsFinal BY DEF Fit, RevokingFit, RevocationIsFinal, Authorized
<1>. QED BY <1>1, FitAlways, PTL
=============================================================================
