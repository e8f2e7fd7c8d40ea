------------------------ MODULE RemoteDeliveryProofs ------------------------
\* Theorems of RemoteDelivery, for any devices, sends and bounds.
EXTENDS RemoteDelivery, FiniteSetTheorems, TLAPS

----------------------------------------------------------------------------
(* Sequences and queues.                                                   *)

\* What an appended sequence holds.
LEMMA Appended ==
    ASSUME NEW S, NEW s \in Seq(S), NEW e
    PROVE  /\ Len(Append(s, e)) = Len(s) + 1 /\ DOMAIN Append(s, e) = 1..(Len(s) + 1)
           /\ DOMAIN s = 1..Len(s) /\ Len(s) \in Nat
           /\ \A x \in 1..Len(s) : Append(s, e)[x] = s[x]
           /\ Append(s, e)[Len(s) + 1] = e
           /\ e \in S => Append(s, e) \in Seq(S)
OBVIOUS

\* Sequences are what they hold.
LEMMA SameSequence ==
    ASSUME NEW S, NEW s \in Seq(S), NEW t \in Seq(S), Len(s) = Len(t),
           \A x \in 1..Len(s) : s[x] = t[x]
    PROVE  s = t
OBVIOUS

\* What a sequence holds.
LEMMA Element ==
    ASSUME NEW S, NEW s \in Seq(S), NEW x \in DOMAIN s
    PROVE  s[x] \in S
OBVIOUS

\* What is left of a sequence.
LEMMA Shortened ==
    ASSUME NEW S, NEW s \in Seq(S), s # <<>>
    PROVE  /\ Len(s) \in Nat \ {0} /\ Head(s) = s[1] /\ Head(s) \in S
           /\ Tail(s) \in Seq(S) /\ Len(Tail(s)) = Len(s) - 1
           /\ \A x \in 1..(Len(s) - 1) : Tail(s)[x] = s[x + 1]
OBVIOUS

\* An inbox whose items follow a cursor without a gap lists the messages that
\* were queued right after it.
LEMMA ItemsFollow ==
    ASSUME NEW i, NEW c \in Nat, IsFiniteSet(After(i, c)), Contiguous(i, c)
    PROVE  /\ Cardinality(After(i, c)) \in Nat
           /\ After(i, c) = (c + 1)..(c + Cardinality(After(i, c)))
           /\ Items(i, c) = [k \in 1..Cardinality(After(i, c)) |->
                               [cursor |-> c + k, msg |-> log[i][c + k]]]
<1>. DEFINE n == Cardinality(After(i, c))
<1>1. n \in Nat BY FS_CardinalityType
<1>2. After(i, c) = (c + 1)..(c + n) BY DEF Contiguous
<1>3. ASSUME NEW k \in 1..n PROVE Ranked(After(i, c), k) = c + k
  <2>1. ASSUME NEW x \in After(i, c)
        PROVE  Cardinality({y \in After(i, c) : y < x}) = x - 1 - c
    <3>1. x \in (c + 1)..(c + n) BY <1>2, <2>1
    <3>2. {y \in After(i, c) : y < x} = (c + 1)..(x - 1) BY <1>1, <1>2, <3>1
    <3>3. c + 1 \in Int /\ x - 1 \in Int BY <3>1
    <3>4. Cardinality((c + 1)..(x - 1)) = IF c + 1 > x - 1 THEN 0 ELSE (x - 1) - (c + 1) + 1
      BY <3>3, FS_Interval
    <3>5. (IF c + 1 > x - 1 THEN 0 ELSE (x - 1) - (c + 1) + 1) = x - 1 - c BY <1>1, <3>1
    <3>. QED BY <3>2, <3>4, <3>5, Zenon
  <2>2. c + k \in After(i, c) BY <1>1, <1>2
  <2>3. Cardinality({y \in After(i, c) : y < c + k}) = k - 1 BY <2>1, <2>2
  <2>4. ASSUME NEW x \in After(i, c), Cardinality({y \in After(i, c) : y < x}) = k - 1
        PROVE  x = c + k
    <3>1. x - 1 - c = k - 1 BY <2>1, <2>4
    <3>2. x \in (c + 1)..(c + n) BY <1>2
    <3>. QED BY <3>1, <3>2
  <2>. QED BY <2>2, <2>3, <2>4 DEF Ranked
<1>. HIDE DEF n
<1>4. Items(i, c) = [k \in 1..n |-> [cursor |-> c + k, msg |-> log[i][c + k]]]
  BY <1>3, Zenon DEF Items, n
<1>. QED BY <1>1, <1>2, <1>4 DEF n

----------------------------------------------------------------------------
(* Types.                                                                  *)

MessageId == Requests \cup ({Host} \X Requests \X Nat)

RelayTypes ==
    /\ log \in [Inboxes -> Seq(RequestMessage \cup ResponseMessage)]
    /\ log[Host] \in Seq(RequestMessage) /\ \A d \in Devices : log[d] \in Seq(ResponseMessage)
    /\ held \in [Inboxes -> SUBSET Nat]
    /\ fresh \in Seq([at : Inboxes, cursor : Nat, id : MessageId])

\* A queued message leaves the relay's queues queues of messages.
LEMMA QueuedTypes ==
    ASSUME RelayTypes, NEW i \in Inboxes, NEW m, Queued(i, m),
           \/ i = Host /\ m \in RequestMessage
           \/ i \in Devices /\ m \in ResponseMessage
    PROVE  RelayTypes'
<1>1. CASE Remembered(m) BY <1>1 DEF Queued, relay, RelayTypes
<1>2. CASE ~Remembered(m)
  <2>1. /\ log' = [log EXCEPT ![i] = Append(@, m)]
        /\ held' = [held EXCEPT ![i] = @ \cup {Len(log[i]) + 1}]
        /\ fresh' = Append(fresh, [at |-> i, cursor |-> Len(log[i]) + 1, id |-> m.id])
    BY <1>2 DEF Queued
  <2>2. log[i] \in Seq(RequestMessage \cup ResponseMessage) /\ Len(log[i]) \in Nat
    BY DEF RelayTypes
  <2>3. m \in RequestMessage \cup ResponseMessage /\ m.id \in MessageId
    BY DEF RequestMessage, ResponseMessage, MessageId
  <2>4. log' \in [Inboxes -> Seq(RequestMessage \cup ResponseMessage)]
    BY <2>1, <2>2, <2>3 DEF RelayTypes
  <2>5. log'[Host] \in Seq(RequestMessage) /\ \A d \in Devices : log'[d] \in Seq(ResponseMessage)
    <3>1. \A j \in Inboxes : log'[j] = IF j = i THEN Append(log[i], m) ELSE log[j]
      BY <2>1 DEF RelayTypes
    <3>2. Host \in Inboxes /\ Devices \subseteq Inboxes /\ Host \notin Devices
      BY DeliveryAssumption DEF Inboxes
    <3>3. CASE i = Host
      <4>1. log'[Host] \in Seq(RequestMessage)
        <5>1. log[Host] \in Seq(RequestMessage) /\ m \in RequestMessage
          BY <3>2, <3>3 DEF RelayTypes
        <5>2. Append(log[Host], m) \in Seq(RequestMessage) BY <5>1, Appended
        <5>. QED BY <3>1, <3>2, <3>3, <5>2
      <4>2. \A d \in Devices : log'[d] = log[d] BY <3>1, <3>2, <3>3
      <4>. QED BY <4>1, <4>2 DEF RelayTypes
    <3>4. CASE i \in Devices
      <4>1. log'[Host] = log[Host] BY <3>1, <3>2, <3>4
      <4>2. \A d \in Devices : log'[d] \in Seq(ResponseMessage)
        <5>1. m \in ResponseMessage BY <3>2, <3>4
        <5>2. ASSUME NEW d \in Devices PROVE log'[d] \in Seq(ResponseMessage)
          <6>1. log[d] \in Seq(ResponseMessage) BY DEF RelayTypes
          <6>2. Append(log[d], m) \in Seq(ResponseMessage) BY <5>1, <6>1, Appended
          <6>. QED BY <3>1, <3>2, <6>1, <6>2
        <5>. QED BY <5>2
      <4>. QED BY <4>1, <4>2 DEF RelayTypes
    <3>. QED BY <3>3, <3>4
  <2>6. held' \in [Inboxes -> SUBSET Nat] BY <2>1, <2>2 DEF RelayTypes
  <2>7. fresh' \in Seq([at : Inboxes, cursor : Nat, id : MessageId])
    <3>1. [at |-> i, cursor |-> Len(log[i]) + 1, id |-> m.id]
             \in [at : Inboxes, cursor : Nat, id : MessageId]
      BY <2>2, <2>3
    <3>. QED BY <2>1, <3>1 DEF RelayTypes
  <2>. QED BY <2>4, <2>5, <2>6, <2>7 DEF RelayTypes
<1>. QED BY <1>1, <1>2

\* So do an acknowledgement and an expiry.
LEMMA AckedTypes ==
    ASSUME RelayTypes, NEW i, NEW c, Acked(i, c)
    PROVE  RelayTypes' /\ UNCHANGED <<log, fresh>>
BY DEF RelayTypes, Acked

LEMMA ExpireTypes ==
    ASSUME RelayTypes, Expire
    PROVE  RelayTypes'
<1>1. fresh' \in Seq([at : Inboxes, cursor : Nat, id : MessageId])
  BY Shortened DEF RelayTypes, Expire
<1>2. held' \in [Inboxes -> SUBSET Nat] BY DEF RelayTypes, Expire
<1>. QED BY <1>1, <1>2 DEF RelayTypes, Expire

\* Requests and responses are messages, and an idle send is one.
LEMMA MessageTypes ==
    /\ \A d \in Devices, n \in 1..MaxRequests, s \in Nat :
         \A k \in {"read", "denied", "renew"} : Request(d, n, k, s) \in RequestMessage
    /\ \A q \in Requests, n, s \in Nat : Response(q, n, s) \in ResponseMessage
    /\ Idle \in AppSending /\ Idle.cfg \in Config
<1>1. Idle.cfg \in Config BY DEF Idle, Config
<1>2. Idle \in AppSending
  <2>1. /\ <<>> \in Seq([cursor : Nat, msg : ResponseMessage])
        /\ 0 \in 0..MaxRequests
    BY DeliveryAssumption
  <2>. QED BY <1>1, <2>1 DEF Idle, AppSending, Config
<1>. QED BY <1>1, <1>2 DEF Request, Response, RequestMessage, ResponseMessage, Requests

\* A send that was numbered.
LEMMA NumberedTypes ==
    ASSUME NEW s \in AppSending, s.kind # "none"
    PROVE  /\ Numbered(s) \in AppSending /\ Numbered(s).pc = "publish" /\ Numbered(s).n = s.n
           /\ Numbered(s).cfg.out = s.cfg.out + 1
<1>1. s.cfg \in Config BY DEF AppSending
<1>2. [s.cfg EXCEPT !.out = @ + 1] \in Config /\ [s.cfg EXCEPT !.out = @ + 1].out = s.cfg.out + 1
  BY <1>1 DEF Config
<1>3. Numbered(s) = [s EXCEPT !.pc = "publish", !.cfg = [s.cfg EXCEPT !.out = @ + 1]]
  BY <1>1 DEF Numbered, AppSending
<1>. QED BY <1>2, <1>3 DEF AppSending

\* A send of the app and the configuration it saved.
AppTypes ==
    /\ config \in [Devices -> Config]
    /\ sends \in [Devices -> [Slots -> AppSending]]

Saved(d, k, t, c) ==
    /\ sends' = [sends EXCEPT ![d][k] = t]
    /\ config' = [config EXCEPT ![d] = c]

LEMMA SaveTypes ==
    ASSUME AppTypes, NEW d \in Devices, NEW k \in Slots, NEW t \in AppSending, NEW c \in Config,
           Saved(d, k, t, c)
    PROVE  /\ AppTypes'
           /\ sends'[d][k] = t /\ config'[d] = c
           /\ \A e \in Devices \ {d} : config'[e] = config[e]
           /\ \A e \in Devices, j \in Slots : e # d \/ j # k => sends'[e][j] = sends[e][j]
<1>1. config' \in [Devices -> Config] /\ config'[d] = c
      /\ \A e \in Devices \ {d} : config'[e] = config[e]
  BY DEF AppTypes, Saved
<1>2. sends' = [sends EXCEPT ![d] = [sends[d] EXCEPT ![k] = t]] BY DEF AppTypes, Saved
<1>3. sends[d] \in [Slots -> AppSending] BY DEF AppTypes
<1>4. [sends[d] EXCEPT ![k] = t] \in [Slots -> AppSending] BY <1>3
<1>5. sends' \in [Devices -> [Slots -> AppSending]] BY <1>2, <1>4 DEF AppTypes
<1>6. sends'[d][k] = t BY <1>2, <1>3 DEF AppTypes
<1>7. \A e \in Devices, j \in Slots : e # d \/ j # k => sends'[e][j] = sends[e][j]
  BY <1>2, <1>3 DEF AppTypes
<1>. QED BY <1>1, <1>5, <1>6, <1>7 DEF AppTypes

\* A send past its publication, or ended, and the configuration it leaves.
Onward(d, k) ==
    \E t \in AppSending, c \in Config :
        /\ Saved(d, k, t, c)
        /\ t.pc \in {"idle", "poll", "ack"}
        /\ t.pc = "ack" => t.got # <<>>
        /\ t.pc # "idle" => /\ sends[d][k].pc # "idle" /\ t.n = sends[d][k].n
                            /\ t.cfg.out = sends[d][k].cfg.out
        /\ \/ c.out = config[d].out
           \/ (sends[d][k].pc # "idle" /\ c.out = sends[d][k].cfg.out)

\* A send that fails is ended.
LEMMA FailOnward ==
    ASSUME AppTypes, NEW d \in Devices, NEW k \in Slots, Fail(d, k)
    PROVE  Onward(d, k)
<1>1. config' = [config EXCEPT ![d] = config[d]] /\ config[d] \in Config BY DEF Fail, AppTypes
<1>2. sends' = [sends EXCEPT ![d][k] = Idle] /\ Idle.pc = "idle" BY DEF Fail, Idle
<1>. QED BY <1>1, <1>2, MessageTypes DEF Onward, Saved

\* A send that goes on is saved with the number it has.
LEMMA SaveOnward ==
    ASSUME AppTypes, NEW d \in Devices, NEW k \in Slots, NEW t \in AppSending, Save(d, k, t),
           t.pc \in {"poll", "ack"}, t.pc = "ack" => t.got # <<>>,
           sends[d][k].pc # "idle", t.n = sends[d][k].n, t.cfg.out = sends[d][k].cfg.out
    PROVE  Onward(d, k)
<1>1. t.cfg \in Config BY DEF AppSending
<1>2. sends' = [sends EXCEPT ![d][k] = t] /\ config' = [config EXCEPT ![d] = t.cfg] BY DEF Save
<1>. QED BY <1>1, <1>2 DEF Onward, Saved

\* A send that takes the next item goes on, or ends.
LEMMA TakenOnward ==
    ASSUME AppTypes, NEW d \in Devices, NEW k \in Slots, NEW s \in AppSending, Taken(d, k, s), s.pc # "idle",
           s.got # <<>>, sends[d][k].pc # "idle", s.n = sends[d][k].n,
           s.cfg.out = sends[d][k].cfg.out
    PROVE  Onward(d, k)
<1>1. /\ s.cfg \in Config /\ Head(s.got) \in [cursor : Nat, msg : ResponseMessage]
  <2>1. s.got \in Seq([cursor : Nat, msg : ResponseMessage]) /\ s.cfg \in Config BY DEF AppSending
  <2>. QED BY <2>1, Shortened
<1>2. Head(s.got).msg.seq \in Nat /\ Head(s.got).cursor \in Nat BY <1>1 DEF ResponseMessage
<1>. DEFINE c == [s.cfg EXCEPT !.in = Head(s.got).msg.seq, !.ack = Head(s.got).cursor]
            t == [s EXCEPT !.pc = "ack", !.cfg = c]
<1>3. c \in Config /\ c.out = s.cfg.out BY <1>1, <1>2 DEF Config
<1>4. t \in AppSending /\ t.pc = "ack" /\ t.n = s.n /\ t.cfg = c /\ t.got = s.got
  <2>. HIDE DEF c
  <2>. QED BY <1>3 DEF AppSending
<1>5. [s EXCEPT !.pc = "ack", !.cfg.in = Head(s.got).msg.seq, !.cfg.ack = Head(s.got).cursor] = t
  BY <1>1 DEF AppSending, Config
<1>6. CASE Save(d, k, t)
  <2>. HIDE DEF t, c
  <2>. QED BY <1>3, <1>4, <1>6, SaveOnward
<1>7. CASE Fail(d, k) BY <1>7, FailOnward
<1>. QED BY <1>5, <1>6, <1>7 DEF Taken

\* The messages that are held were queued.
HeldFit == \A i \in Inboxes : held[i] \subseteq DOMAIN log[i]

LEMMA AfterFits ==
    ASSUME RelayTypes, HeldFit, NEW i \in Inboxes, NEW c \in Nat
    PROVE  After(i, c) \subseteq 1..Len(log[i]) /\ IsFiniteSet(After(i, c))
<1>1. After(i, c) \subseteq 1..Len(log[i]) /\ Len(log[i]) \in Nat
  BY DEF RelayTypes, HeldFit, After
<1>2. 1 \in Int /\ Len(log[i]) \in Int BY <1>1
<1>3. IsFiniteSet(1..Len(log[i])) BY <1>2, FS_Interval
<1>. QED BY <1>1, <1>3, FS_Subset

\* Polling, acknowledging and giving up take a send onward.
LEMMA PollOnward ==
    ASSUME RelayTypes, AppTypes, HeldFit, NEW d \in Devices, NEW k \in Slots, AppPoll(d, k)
    PROVE  Onward(d, k)
<1>. DEFINE s == sends[d][k]
            items == Items(d, s.cfg.cursor)
<1>1. s \in AppSending /\ s.cfg \in Config /\ s.pc = "poll" /\ s.cfg.cursor \in Nat /\ d \in Inboxes
  BY DEF AppTypes, AppSending, Config, AppPoll, Inboxes
<1>2. CASE Contiguous(d, s.cfg.cursor)
  <2>1. /\ After(d, s.cfg.cursor) \subseteq 1..Len(log[d]) /\ IsFiniteSet(After(d, s.cfg.cursor))
    BY <1>1, AfterFits
  <2>. DEFINE n == Cardinality(After(d, s.cfg.cursor))
  <2>2. /\ n \in Nat /\ After(d, s.cfg.cursor) = (s.cfg.cursor + 1)..(s.cfg.cursor + n)
        /\ items = [j \in 1..n |-> [cursor |-> s.cfg.cursor + j, msg |-> log[d][s.cfg.cursor + j]]]
    BY <1>1, <1>2, <2>1, ItemsFollow
  <2>3. After(d, s.cfg.cursor) # {} BY DEF AppPoll
  <2>4. log[d] \in Seq(ResponseMessage) BY DEF RelayTypes
  <2>. HIDE DEF n
  <2>5. \A j \in 1..n : log[d][s.cfg.cursor + j] \in ResponseMessage
    <3>0. s.cfg.cursor \in Nat /\ n \in Nat BY <1>1, <2>2
    <3>a. \A j \in 1..n : s.cfg.cursor + j \in (s.cfg.cursor + 1)..(s.cfg.cursor + n) BY <3>0
    <3>1. \A j \in 1..n : s.cfg.cursor + j \in 1..Len(log[d]) BY <2>1, <2>2, <3>a, Zenon
    <3>. QED BY <2>4, <3>1
  <2>6. items \in Seq([cursor : Nat, msg : ResponseMessage]) BY <1>1, <2>2, <2>5
  <2>7. items # <<>>
    <3>1. n # 0 BY <1>1, <2>2, <2>3
    <3>2. 1 \in DOMAIN items BY <2>2, <3>1
    <3>. QED BY <3>2
  <2>. HIDE DEF items
  <2>8. /\ [s EXCEPT !.got = items] \in AppSending
        /\ [s EXCEPT !.got = items].got = items /\ [s EXCEPT !.got = items].n = s.n
        /\ [s EXCEPT !.got = items].cfg = s.cfg /\ [s EXCEPT !.got = items].pc # "idle"
    BY <1>1, <2>6 DEF AppSending
  <2>9. Taken(d, k, [s EXCEPT !.got = items]) BY <1>2 DEF AppPoll, items
  <2>. QED BY <1>1, <2>7, <2>8, <2>9, TakenOnward
<1>3. CASE ~Contiguous(d, s.cfg.cursor)
  <2>1. Fail(d, k) BY <1>3 DEF AppPoll
  <2>. QED BY <2>1, FailOnward
<1>. QED BY <1>2, <1>3

\* A send whose last item was acknowledged has one item less to take.
Rest(s) == [s EXCEPT !.cfg.cursor = s.cfg.ack, !.cfg.ack = 0, !.got = Tail(@)]

LEMMA RestTypes ==
    ASSUME NEW s \in AppSending, s.got # <<>>
    PROVE  /\ Rest(s) \in AppSending /\ Rest(s).n = s.n /\ Rest(s).cfg.out = s.cfg.out
           /\ Rest(s).cfg \in Config /\ Rest(s).pc = s.pc
<1>1. s.cfg \in Config /\ Tail(s.got) \in Seq([cursor : Nat, msg : ResponseMessage])
  <2>1. s.got \in Seq([cursor : Nat, msg : ResponseMessage]) /\ s.cfg \in Config BY DEF AppSending
  <2>. QED BY <2>1, Shortened
<1>. DEFINE c == [s.cfg EXCEPT !.cursor = s.cfg.ack, !.ack = 0]
<1>2. c \in Config /\ c.out = s.cfg.out BY <1>1 DEF Config
<1>3. Rest(s) = [s EXCEPT !.cfg = c, !.got = Tail(s.got)] BY <1>1 DEF Rest, AppSending, Config
<1>. HIDE DEF c
<1>. QED BY <1>1, <1>2, <1>3 DEF AppSending

LEMMA AckOnward ==
    ASSUME AppTypes, NEW d \in Devices, NEW k \in Slots, AppAck(d, k), sends[d][k].got # <<>>
    PROVE  Onward(d, k)
<1>. DEFINE s == sends[d][k]
            t == Rest(s)
<1>1. s \in AppSending /\ s.pc = "ack" BY DEF AppTypes, AppAck
<1>2. t \in AppSending /\ t.n = s.n /\ t.cfg.out = s.cfg.out /\ t.cfg \in Config /\ t.pc = "ack"
  BY <1>1, RestTypes
<1>3. \/ config' = [config EXCEPT ![d] = t.cfg] /\ sends' = [sends EXCEPT ![d][k] = Idle]
      \/ Save(d, k, [t EXCEPT !.pc = "poll"])
      \/ t.got # <<>> /\ Taken(d, k, t)
      \/ Fail(d, k)
  BY DEF AppAck, Call, Rest
<1>. HIDE DEF t
<1>4. CASE config' = [config EXCEPT ![d] = t.cfg] /\ sends' = [sends EXCEPT ![d][k] = Idle]
  <2>1. Idle.pc = "idle" BY DEF Idle
  <2>. QED BY <1>1, <1>2, <1>4, <2>1, MessageTypes DEF Onward, Saved
<1>5. CASE Save(d, k, [t EXCEPT !.pc = "poll"])
  <2>1. /\ [t EXCEPT !.pc = "poll"] \in AppSending /\ [t EXCEPT !.pc = "poll"].pc = "poll"
        /\ [t EXCEPT !.pc = "poll"].n = t.n /\ [t EXCEPT !.pc = "poll"].cfg = t.cfg
    BY <1>2 DEF AppSending
  <2>. QED BY <1>1, <1>2, <1>5, <2>1, SaveOnward
<1>6. CASE t.got # <<>> /\ Taken(d, k, t) BY <1>1, <1>2, <1>6, TakenOnward
<1>7. CASE Fail(d, k) BY <1>7, FailOnward
<1>. QED BY <1>3, <1>4, <1>5, <1>6, <1>7

----------------------------------------------------------------------------
(* Requests and their numbers.                                             *)

\* The sends that have not published their request.
Unpublished(d, k) == sends[d][k].pc \in {"ack_first", "publish"}

\* A request is queued once, under a number of its device that was drawn for it.
SendsFit ==
    /\ \A x, y \in DOMAIN log[Host] : log[Host][x].re = log[Host][y].re => x = y
    /\ \A x \in DOMAIN log[Host] : log[Host][x].re[2] <= sent[log[Host][x].re[1]]
    /\ \A d \in Devices, k \in Slots :
        /\ sends[d][k].pc # "idle" => sends[d][k].n \in 1..sent[d]
        /\ sends[d][k].pc = "ack" => sends[d][k].got # <<>>
        /\ Unpublished(d, k) =>
             /\ \A x \in DOMAIN log[Host] : log[Host][x].re # <<d, sends[d][k].n>>
             /\ \A j \in Slots : Unpublished(d, j) /\ sends[d][j].n = sends[d][k].n => j = k

\* Without overlapping sends a device uses each sequence number once.
NumbersFit ==
    max.sends <= 1 =>
        /\ \A x, y \in DOMAIN log[Host] :
              log[Host][x].from = log[Host][y].from /\ log[Host][x].seq = log[Host][y].seq => x = y
        /\ \A x \in DOMAIN log[Host] : log[Host][x].seq <= config[log[Host][x].from].out
        /\ \A d \in Devices, k \in Slots : sends[d][k].pc # "idle" =>
             /\ k = 1 /\ sends[d][k].cfg.out = config[d].out
             /\ sends[d][k].pc = "publish" =>
                  \A x \in DOMAIN log[Host] :
                      log[Host][x].from = d => log[Host][x].seq # config[d].out

SentTypes == sent \in [Devices -> 0..MaxRequests]

\* Sends that go on keep their numbers, and no configuration gets another.
AppKept ==
    /\ UNCHANGED <<max, sent>>
    /\ \A d \in Devices, k \in Slots : sends'[d][k].pc # "idle" =>
          /\ sends[d][k].pc # "idle" /\ sends'[d][k].n = sends[d][k].n
          /\ sends'[d][k].cfg.out = sends[d][k].cfg.out
          /\ Unpublished(d, k)' => sends'[d][k].pc = sends[d][k].pc
          /\ sends'[d][k].pc = "ack" => sends'[d][k].got # <<>> \/ sends'[d][k] = sends[d][k]
    /\ \A d \in Devices :
          \/ config'[d].out = config[d].out
          \/ \E k \in Slots : sends[d][k].pc # "idle" /\ config'[d].out = sends[d][k].cfg.out

LEMMA KeptFits ==
    ASSUME RelayTypes, AppTypes, SentTypes, SendsFit, NumbersFit, AppKept, log'[Host] = log[Host]
    PROVE  SendsFit' /\ NumbersFit'
<1>1. log[Host] \in Seq(RequestMessage) BY DEF RelayTypes
<1>2. SendsFit'
  <2>1. \A d \in Devices, k \in Slots : Unpublished(d, k)' =>
           Unpublished(d, k) /\ sends'[d][k].n = sends[d][k].n
    BY DEF AppKept, Unpublished
  <2>. QED BY <2>1 DEF AppKept, SendsFit
<1>3. NumbersFit'
  <2>. SUFFICES ASSUME max.sends <= 1
       PROVE  /\ \A x, y \in DOMAIN log[Host] :
                   log[Host][x].from = log[Host][y].from /\ log[Host][x].seq = log[Host][y].seq
                     => x = y
              /\ \A x \in DOMAIN log[Host] : log[Host][x].seq <= config'[log[Host][x].from].out
              /\ \A d \in Devices, k \in Slots : sends'[d][k].pc # "idle" =>
                   /\ k = 1 /\ sends'[d][k].cfg.out = config'[d].out
                   /\ sends'[d][k].pc = "publish" =>
                        \A x \in DOMAIN log[Host] :
                            log[Host][x].from = d => log[Host][x].seq # config'[d].out
    BY DEF NumbersFit, AppKept
  <2>1. \A d \in Devices : config'[d].out = config[d].out BY DEF AppKept, NumbersFit
  <2>2. \A x \in DOMAIN log[Host] : log[Host][x].from \in Devices
    <3>1. \A x \in DOMAIN log[Host] : log[Host][x] \in RequestMessage BY <1>1
    <3>. QED BY <3>1 DEF RequestMessage
  <2>3. \A d \in Devices, k \in Slots : sends'[d][k].pc = "publish" => sends[d][k].pc = "publish"
    BY DEF AppKept, Unpublished
  <2>. QED BY <2>1, <2>2, <2>3 DEF AppKept, NumbersFit
<1>. QED BY <1>2, <1>3

\* A send onward keeps the numbers.
LEMMA OnwardKept ==
    ASSUME AppTypes, NEW d \in Devices, NEW k \in Slots, Onward(d, k),
           UNCHANGED <<max, sent>>
    PROVE  AppKept /\ ~Unpublished(d, k)'
<1>1. PICK t \in AppSending, c \in Config :
        /\ Saved(d, k, t, c)
        /\ t.pc \in {"idle", "poll", "ack"}
        /\ t.pc = "ack" => t.got # <<>>
        /\ t.pc # "idle" => /\ sends[d][k].pc # "idle" /\ t.n = sends[d][k].n
                            /\ t.cfg.out = sends[d][k].cfg.out
        /\ \/ c.out = config[d].out
           \/ (sends[d][k].pc # "idle" /\ c.out = sends[d][k].cfg.out)
  BY DEF Onward
<1>2. /\ sends'[d][k] = t /\ config'[d] = c
      /\ \A e \in Devices \ {d} : config'[e] = config[e]
      /\ \A e \in Devices, j \in Slots : e # d \/ j # k => sends'[e][j] = sends[e][j]
  BY <1>1, SaveTypes
<1>3. ASSUME NEW e \in Devices, NEW j \in Slots, sends'[e][j].pc # "idle"
      PROVE  /\ sends[e][j].pc # "idle" /\ sends'[e][j].n = sends[e][j].n
             /\ sends'[e][j].cfg.out = sends[e][j].cfg.out
             /\ Unpublished(e, j)' => sends'[e][j].pc = sends[e][j].pc
             /\ sends'[e][j].pc = "ack" => sends'[e][j].got # <<>> \/ sends'[e][j] = sends[e][j]
  <2>1. CASE e = d /\ j = k BY <1>1, <1>2, <1>3, <2>1 DEF Unpublished
  <2>2. CASE e # d \/ j # k
    <3>1. sends'[e][j] = sends[e][j] BY <1>2, <2>2
    <3>. QED BY <1>3, <3>1
  <2>. QED BY <2>1, <2>2
<1>4. \A e \in Devices :
          \/ config'[e].out = config[e].out
          \/ \E j \in Slots : sends[e][j].pc # "idle" /\ config'[e].out = sends[e][j].cfg.out
  BY <1>1, <1>2
<1>. QED BY <1>1, <1>2, <1>3, <1>4 DEF AppKept, Unpublished

\* A send that is numbered, or is to be once an acknowledgement is through.
Numbering(d, k, n, out) ==
    \E t \in AppSending, c \in Config :
        /\ Saved(d, k, t, c) /\ t.n = n /\ t.cfg.out = c.out
        /\ (t.pc = "publish" /\ c.out = out + 1) \/ (t.pc = "ack_first" /\ c.out = out)

LEMMA StartNumbers ==
    ASSUME AppTypes, NEW d \in Devices, NEW k \in Slots, NEW s \in AppSending, Start(d, k, s),
           s.kind # "none"
    PROVE  Numbering(d, k, s.n, s.cfg.out)
<1>1. /\ Numbered(s) \in AppSending /\ Numbered(s).pc = "publish" /\ Numbered(s).n = s.n
      /\ Numbered(s).cfg.out = s.cfg.out + 1
  BY NumberedTypes
<1>2. Numbered(s).cfg \in Config BY <1>1 DEF AppSending
<1>3. Saved(d, k, Numbered(s), Numbered(s).cfg) BY DEF Start, Save, Saved
<1>. QED BY <1>1, <1>2, <1>3 DEF Numbering

\* A new send draws the next number and starts from the saved configuration.
LEMMA SendNumbers ==
    ASSUME AppTypes, SentTypes, max.requests \in 0..MaxRequests,
           NEW d \in Devices, NEW k \in Slots, NEW kind \in {"read", "denied", "renew"},
           AppSend(d, k, kind)
    PROVE  /\ sent' = [sent EXCEPT ![d] = sent[d] + 1] /\ sent[d] + 1 \in 1..MaxRequests
           /\ Numbering(d, k, sent[d] + 1, config[d].out)
<1>1. sent[d] \in 0..MaxRequests /\ sent[d] < max.requests /\ MaxRequests \in Nat
  BY DeliveryAssumption DEF SentTypes, AppSend
<1>2. sent[d] + 1 \in 0..MaxRequests /\ sent[d] + 1 \in 1..MaxRequests BY <1>1
<1>. DEFINE s == [Idle EXCEPT !.cfg = config[d], !.n = sent[d] + 1, !.kind = kind]
<1>3. config[d] \in Config BY DEF AppTypes
<1>4. s \in AppSending /\ s.n = sent[d] + 1 /\ s.cfg = config[d] /\ s.kind # "none"
  <2>1. Idle \in AppSending BY MessageTypes
  <2>. QED BY <1>2, <1>3, <2>1 DEF AppSending
<1>5. \/ Start(d, k, s)
      \/ sends' = [sends EXCEPT ![d][k] = [s EXCEPT !.pc = "ack_first"]] /\ UNCHANGED config
  BY DEF AppSend
<1>. HIDE DEF s
<1>6. ASSUME Start(d, k, s) PROVE Numbering(d, k, sent[d] + 1, config[d].out)
  <2>1. Numbering(d, k, s.n, s.cfg.out) BY <1>4, <1>6, StartNumbers
  <2>. QED BY <1>4, <2>1 DEF Numbering, Saved
<1>7. ASSUME sends' = [sends EXCEPT ![d][k] = [s EXCEPT !.pc = "ack_first"]], UNCHANGED config
      PROVE  Numbering(d, k, sent[d] + 1, config[d].out)
  <2>. DEFINE t == [s EXCEPT !.pc = "ack_first"]
  <2>1. t \in AppSending /\ t.pc = "ack_first" /\ t.n = sent[d] + 1 /\ t.cfg = config[d]
    BY <1>4 DEF AppSending
  <2>2. config' = [config EXCEPT ![d] = config[d]] BY <1>7 DEF AppTypes
  <2>3. Saved(d, k, t, config[d]) BY <1>7, <2>2 DEF Saved
  <2>. HIDE DEF t
  <2>4. t.cfg.out = config[d].out BY <2>1
  <2>. QED BY <1>3, <2>1, <2>3, <2>4 DEF Numbering, Saved
<1>8. Numbering(d, k, sent[d] + 1, config[d].out) BY <1>5, <1>6, <1>7
<1>9. sent' = [sent EXCEPT ![d] = sent[d] + 1] BY DEF AppSend
<1>. QED BY <1>2, <1>8, <1>9

\* The acknowledgement before a send, when it is through, or the send is ended.
LEMMA AckFirstNumbers ==
    ASSUME AppTypes, NEW d \in Devices, NEW k \in Slots, AppAckFirst(d, k)
    PROVE  \/ Onward(d, k)
           \/ Numbering(d, k, sends[d][k].n, sends[d][k].cfg.out)
<1>. DEFINE s == sends[d][k]
            c == [s.cfg EXCEPT !.cursor = s.cfg.ack, !.ack = 0]
            t == [s EXCEPT !.cfg = c]
<1>1. s \in AppSending /\ s.cfg \in Config /\ s.kind # "none"
  BY DEF AppTypes, AppSending, AppAckFirst
<1>2. c \in Config /\ c.out = s.cfg.out BY <1>1 DEF Config
<1>3. [s EXCEPT !.cfg.cursor = s.cfg.ack, !.cfg.ack = 0] = t BY <1>1 DEF AppSending, Config
<1>4. t \in AppSending /\ t.n = s.n /\ t.cfg = c /\ t.kind # "none"
  <2>. HIDE DEF c
  <2>. QED BY <1>1, <1>2 DEF AppSending
<1>5. Start(d, k, [s EXCEPT !.cfg.cursor = s.cfg.ack, !.cfg.ack = 0]) \/ Fail(d, k)
  BY DEF AppAckFirst, Call
<1>6. CASE Start(d, k, t)
  <2>1. Numbering(d, k, t.n, t.cfg.out)
    <3>. HIDE DEF t
    <3>. QED BY <1>4, <1>6, StartNumbers
  <2>. QED BY <1>2, <1>4, <2>1
<1>. QED BY <1>3, <1>5, <1>6, FailOnward

\* A send that is numbered keeps the numbers, whether it draws one or has one.
LEMMA NumberingFits ==
    ASSUME RelayTypes, AppTypes, SentTypes, SendsFit, NumbersFit,
           NEW d \in Devices, NEW k \in Slots, max.sends <= 1 => k = 1, NEW n \in Nat, NEW out,
           Numbering(d, k, n, out), log'[Host] = log[Host], max' = max,
           \/ /\ sent' = [sent EXCEPT ![d] = n] /\ n = sent[d] + 1
              /\ out = config[d].out
           \/ /\ sent' = sent /\ sends[d][k].pc = "ack_first"
              /\ n = sends[d][k].n /\ out = sends[d][k].cfg.out
    PROVE  SendsFit' /\ NumbersFit'
<1>1. PICK t \in AppSending, c \in Config :
        /\ Saved(d, k, t, c) /\ t.n = n /\ t.cfg.out = c.out
        /\ (t.pc = "publish" /\ c.out = out + 1) \/ (t.pc = "ack_first" /\ c.out = out)
  BY DEF Numbering
<1>2. /\ sends'[d][k] = t /\ config'[d] = c
      /\ \A e \in Devices \ {d} : config'[e] = config[e]
      /\ \A e \in Devices, j \in Slots : e # d \/ j # k => sends'[e][j] = sends[e][j]
  BY <1>1, SaveTypes
<1>3. /\ sent[d] \in Nat /\ n \in 1..sent'[d] /\ sent[d] <= sent'[d]
      /\ \A e \in Devices \ {d} : sent'[e] = sent[e]
  BY DEF SentTypes, SendsFit
<1>4. ASSUME NEW x \in DOMAIN log[Host]
      PROVE  /\ log[Host][x] \in RequestMessage /\ log[Host][x].re \in Requests
             /\ log[Host][x].from \in Devices /\ log[Host][x].seq \in Nat
  <2>1. log[Host] \in Seq(RequestMessage) BY DEF RelayTypes
  <2>2. log[Host][x] \in RequestMessage BY <2>1
  <2>. QED BY <2>2 DEF RequestMessage
<1>5. ASSUME NEW x \in DOMAIN log[Host] PROVE log[Host][x].re # <<d, n>>
  <2>1. CASE n = sent[d] + 1
    <3>1. log[Host][x].re[2] <= sent[log[Host][x].re[1]] BY DEF SendsFit
    <3>2. log[Host][x].re = <<d, n>> => n <= sent[d] BY <3>1
    <3>. QED BY <1>3, <2>1, <3>2
  <2>2. CASE n # sent[d] + 1 BY <2>2 DEF SendsFit, Unpublished
  <2>. QED BY <2>1, <2>2
<1>6. ASSUME NEW j \in Slots, Unpublished(d, j), j # k PROVE sends[d][j].n # n
  <2>1. CASE n = sent[d] + 1
    <3>1. sends[d][j].n \in 1..sent[d] BY <1>6 DEF SendsFit, Unpublished
    <3>. QED BY <1>3, <2>1, <3>1
  <2>2. CASE n # sent[d] + 1 BY <1>6, <2>2 DEF SendsFit, Unpublished
  <2>. QED BY <2>1, <2>2
<1>7. SendsFit'
  <2>1. \A x, y \in DOMAIN log'[Host] : log'[Host][x].re = log'[Host][y].re => x = y
    BY DEF SendsFit
  <2>2. \A x \in DOMAIN log'[Host] : log'[Host][x].re[2] <= sent'[log'[Host][x].re[1]]
    <3>. SUFFICES ASSUME NEW x \in DOMAIN log[Host]
         PROVE  log[Host][x].re[2] <= sent'[log[Host][x].re[1]]
      OBVIOUS
    <3>1. /\ log[Host][x].re[1] \in Devices /\ log[Host][x].re[2] \in Nat
          /\ log[Host][x].re[2] <= sent[log[Host][x].re[1]]
      BY <1>4, DeliveryAssumption DEF Requests, SendsFit
    <3>2. \A e \in Devices : sent[e] \in Nat /\ sent'[e] \in Nat /\ sent[e] <= sent'[e]
      BY <1>3 DEF SentTypes
    <3>. QED BY <3>1, <3>2
  <2>3. ASSUME NEW e \in Devices, NEW j \in Slots
        PROVE  /\ sends'[e][j].pc # "idle" => sends'[e][j].n \in 1..sent'[e]
               /\ sends'[e][j].pc = "ack" => sends'[e][j].got # <<>>
               /\ Unpublished(e, j)' =>
                    /\ \A x \in DOMAIN log'[Host] : log'[Host][x].re # <<e, sends'[e][j].n>>
                    /\ \A i \in Slots :
                         Unpublished(e, i)' /\ sends'[e][i].n = sends'[e][j].n => i = j
    <3>1. CASE e = d /\ j = k
      <4>1. \A i \in Slots : Unpublished(e, i)' /\ sends'[e][i].n = n => i = j
        BY <1>2, <1>6, <3>1 DEF Unpublished
      <4>. QED BY <1>1, <1>2, <1>3, <1>5, <3>1, <4>1
    <3>2. CASE e # d \/ j # k
      <4>1. sends'[e][j] = sends[e][j] BY <1>2, <3>2
      <4>2. sends'[e][j].pc # "idle" => sends'[e][j].n \in 1..sent'[e]
        <5>1. sent[e] \in Nat /\ sent'[e] \in Nat /\ sent[e] <= sent'[e] BY <1>3 DEF SentTypes
        <5>2. sends[e][j].pc # "idle" => sends[e][j].n \in 1..sent[e] BY DEF SendsFit
        <5>. QED BY <4>1, <5>1, <5>2
      <4>3. ASSUME Unpublished(e, j)', NEW i \in Slots, Unpublished(e, i)',
                   sends'[e][i].n = sends'[e][j].n
            PROVE  i = j
        <5>1. CASE e = d /\ i = k BY <1>1, <1>2, <1>6, <3>2, <4>1, <4>3, <5>1 DEF Unpublished
        <5>2. CASE e # d \/ i # k
          <6>1. sends'[e][i] = sends[e][i] BY <1>2, <5>2
          <6>. QED BY <4>1, <4>3, <6>1 DEF SendsFit, Unpublished
        <5>. QED BY <5>1, <5>2
      <4>. QED BY <4>1, <4>2, <4>3 DEF SendsFit, Unpublished
    <3>. QED BY <3>1, <3>2
  <2>. QED BY <2>1, <2>2, <2>3 DEF SendsFit
<1>8. NumbersFit'
  <2>. SUFFICES ASSUME max.sends <= 1
       PROVE  /\ \A x \in DOMAIN log[Host] : log[Host][x].seq <= config'[log[Host][x].from].out
              /\ \A e \in Devices, j \in Slots : sends'[e][j].pc # "idle" =>
                   /\ j = 1 /\ sends'[e][j].cfg.out = config'[e].out
                   /\ sends'[e][j].pc = "publish" =>
                        \A x \in DOMAIN log[Host] :
                            log[Host][x].from = e => log[Host][x].seq # config'[e].out
    BY DEF NumbersFit
  <2>1. out = config[d].out /\ out \in Nat /\ c.out \in {out, out + 1}
    <3>1. config[d].out \in Nat BY DEF AppTypes, Config
    <3>. QED BY <1>1, <3>1 DEF NumbersFit
  <2>2. ASSUME NEW x \in DOMAIN log[Host]
        PROVE  /\ log[Host][x].seq <= config'[log[Host][x].from].out
               /\ log[Host][x].from = d => log[Host][x].seq <= out
    <3>1. log[Host][x].seq <= config[log[Host][x].from].out BY DEF NumbersFit
    <3>. QED BY <1>2, <1>4, <2>1, <3>1
  <2>3. ASSUME NEW e \in Devices, NEW j \in Slots, sends'[e][j].pc # "idle"
        PROVE  /\ j = 1 /\ sends'[e][j].cfg.out = config'[e].out
               /\ sends'[e][j].pc = "publish" =>
                    \A x \in DOMAIN log[Host] :
                        log[Host][x].from = e => log[Host][x].seq # config'[e].out
    <3>1. CASE e = d /\ j = k
      <4>1. sends'[e][j].pc = "publish" => config'[e].out = out + 1 BY <1>1, <1>2, <3>1
      <4>. QED BY <1>1, <1>2, <1>4, <2>1, <2>2, <3>1, <4>1
    <3>2. CASE e # d BY <1>2, <2>3, <3>2 DEF NumbersFit
    <3>3. CASE j # k
      <4>1. sends'[e][j] = sends[e][j] BY <1>2, <3>3
      <4>2. j = 1 BY <2>3, <4>1 DEF NumbersFit
      <4>. QED BY <3>3, <4>2
    <3>. QED BY <3>1, <3>2, <3>3
  <2>. QED BY <2>2, <2>3
<1>. QED BY <1>7, <1>8

\* A send whose request is queued keeps the numbers.
LEMMA QueuedFits ==
    ASSUME RelayTypes, AppTypes, SentTypes, SendsFit, NumbersFit, AppKept,
           NEW d \in Devices, NEW k \in Slots, max.sends <= 1 => k = 1,
           sends[d][k].pc = "publish", ~Unpublished(d, k)',
           NEW m, log'[Host] = Append(log[Host], m),
           m.re = <<d, sends[d][k].n>>, m.from = d, m.seq = sends[d][k].cfg.out
    PROVE  SendsFit' /\ NumbersFit'
<1>. DEFINE new == Len(log[Host]) + 1
<1>1. /\ log[Host] \in Seq(RequestMessage) /\ DOMAIN log[Host] = 1..Len(log[Host])
      /\ Len(log[Host]) \in Nat /\ DOMAIN log'[Host] = 1..new
      /\ \A x \in DOMAIN log[Host] : log'[Host][x] = log[Host][x]
      /\ log'[Host][new] = m
  <2>1. log[Host] \in Seq(RequestMessage) BY DEF RelayTypes
  <2>. QED BY <2>1, Appended
<1>2. \A x \in DOMAIN log'[Host] : x = new \/ x \in DOMAIN log[Host]
  BY <1>1
<1>3. ASSUME NEW x \in DOMAIN log[Host]
      PROVE  /\ log[Host][x].re[1] \in Devices /\ log[Host][x].from \in Devices
             /\ log[Host][x].seq \in Nat
  <2>1. log[Host][x] \in RequestMessage BY <1>1
  <2>. QED BY <2>1 DEF RequestMessage, Requests
<1>4. /\ sends[d][k].n \in 1..sent[d]
      /\ \A x \in DOMAIN log[Host] : log[Host][x].re # <<d, sends[d][k].n>>
  BY DEF SendsFit, Unpublished
<1>5. UNCHANGED <<max, sent>> BY DEF AppKept
<1>6. ASSUME NEW e \in Devices, NEW j \in Slots, Unpublished(e, j)'
      PROVE  /\ Unpublished(e, j) /\ sends'[e][j].n = sends[e][j].n
             /\ <<e, sends[e][j].n>> # <<d, sends[d][k].n>>
  <2>1. Unpublished(e, j) /\ sends'[e][j].n = sends[e][j].n BY <1>6 DEF AppKept, Unpublished
  <2>2. e = d /\ sends[e][j].n = sends[d][k].n => j = k BY <2>1 DEF SendsFit, Unpublished
  <2>. QED BY <1>6, <2>1, <2>2
<1>. HIDE DEF new
<1>7. SendsFit'
  <2>1. ASSUME NEW x \in DOMAIN log'[Host], NEW y \in DOMAIN log'[Host],
               log'[Host][x].re = log'[Host][y].re
        PROVE  x = y
    BY <1>1, <1>2, <1>4, <2>1 DEF SendsFit
  <2>2. ASSUME NEW x \in DOMAIN log'[Host]
        PROVE  log'[Host][x].re[2] <= sent'[log'[Host][x].re[1]]
    <3>1. CASE x = new BY <1>1, <1>4, <1>5, <3>1 DEF SentTypes
    <3>2. CASE x \in DOMAIN log[Host] BY <1>1, <1>5, <3>2 DEF SendsFit
    <3>. QED BY <1>2, <3>1, <3>2
  <2>3. ASSUME NEW e \in Devices, NEW j \in Slots
        PROVE  /\ sends'[e][j].pc # "idle" => sends'[e][j].n \in 1..sent'[e]
               /\ sends'[e][j].pc = "ack" => sends'[e][j].got # <<>>
    BY <1>5 DEF AppKept, SendsFit
  <2>4. ASSUME NEW e \in Devices, NEW j \in Slots, Unpublished(e, j)'
        PROVE  /\ \A x \in DOMAIN log'[Host] : log'[Host][x].re # <<e, sends'[e][j].n>>
               /\ \A i \in Slots :
                    Unpublished(e, i)' /\ sends'[e][i].n = sends'[e][j].n => i = j
    <3>1. Unpublished(e, j) /\ sends'[e][j].n = sends[e][j].n
          /\ <<e, sends[e][j].n>> # <<d, sends[d][k].n>>
      BY <1>6, <2>4
    <3>2. ASSUME NEW x \in DOMAIN log'[Host] PROVE log'[Host][x].re # <<e, sends'[e][j].n>>
      <4>1. CASE x = new BY <1>1, <3>1, <4>1
      <4>2. CASE x \in DOMAIN log[Host] BY <1>1, <3>1, <4>2 DEF SendsFit
      <4>. QED BY <1>2, <4>1, <4>2
    <3>3. ASSUME NEW i \in Slots, Unpublished(e, i)', sends'[e][i].n = sends'[e][j].n
          PROVE  i = j
      BY <1>6, <3>1, <3>3 DEF SendsFit
    <3>. QED BY <3>2, <3>3
  <2>. QED BY <2>1, <2>2, <2>3, <2>4 DEF SendsFit
<1>8. NumbersFit'
  <2>. SUFFICES ASSUME max.sends <= 1
       PROVE  /\ \A x, y \in DOMAIN log'[Host] :
                   log'[Host][x].from = log'[Host][y].from /\ log'[Host][x].seq = log'[Host][y].seq
                     => x = y
              /\ \A x \in DOMAIN log'[Host] : log'[Host][x].seq <= config'[log'[Host][x].from].out
              /\ \A e \in Devices, j \in Slots : sends'[e][j].pc # "idle" =>
                   /\ j = 1 /\ sends'[e][j].cfg.out = config'[e].out
                   /\ sends'[e][j].pc = "publish" =>
                        \A x \in DOMAIN log'[Host] :
                            log'[Host][x].from = e => log'[Host][x].seq # config'[e].out
    BY <1>5 DEF NumbersFit
  <2>1. \A e \in Devices : config'[e].out = config[e].out BY DEF AppKept, NumbersFit
  <2>2. /\ m.seq = config[d].out /\ config[d].out \in Nat
        /\ \A x \in DOMAIN log[Host] : log[Host][x].from = d => log[Host][x].seq # config[d].out
    BY DEF NumbersFit, AppTypes, Config
  <2>3. ASSUME NEW x \in DOMAIN log'[Host], NEW y \in DOMAIN log'[Host],
               log'[Host][x].from = log'[Host][y].from, log'[Host][x].seq = log'[Host][y].seq
        PROVE  x = y
    <3>1. \A z \in DOMAIN log[Host] : ~(m.from = log[Host][z].from /\ m.seq = log[Host][z].seq)
      BY <2>2
    <3>2. CASE x = new \/ y = new BY <1>1, <1>2, <2>3, <3>1, <3>2
    <3>3. CASE x \in DOMAIN log[Host] /\ y \in DOMAIN log[Host]
      BY <1>1, <2>3, <3>3 DEF NumbersFit
    <3>. QED BY <1>2, <3>2, <3>3
  <2>4. ASSUME NEW x \in DOMAIN log'[Host]
        PROVE  log'[Host][x].seq <= config'[log'[Host][x].from].out
    <3>1. CASE x = new BY <1>1, <2>1, <2>2, <3>1
    <3>2. CASE x \in DOMAIN log[Host] BY <1>1, <1>3, <2>1, <3>2 DEF NumbersFit
    <3>. QED BY <1>2, <3>1, <3>2
  <2>5. ASSUME NEW e \in Devices, NEW j \in Slots, sends'[e][j].pc # "idle"
        PROVE  /\ j = 1 /\ sends'[e][j].cfg.out = config'[e].out
               /\ sends'[e][j].pc = "publish" =>
                    \A x \in DOMAIN log'[Host] :
                        log'[Host][x].from = e => log'[Host][x].seq # config'[e].out
    <3>1. j = 1 /\ sends'[e][j].cfg.out = config'[e].out
      BY <2>1, <2>5 DEF AppKept, NumbersFit
    <3>2. ASSUME sends'[e][j].pc = "publish", NEW x \in DOMAIN log'[Host],
                 log'[Host][x].from = e
          PROVE  log'[Host][x].seq # config'[e].out
      <4>1. sends[e][j].pc = "publish" BY <3>2 DEF AppKept, Unpublished
      <4>2. e # d BY <3>1, <3>2 DEF Unpublished
      <4>3. CASE x = new BY <1>1, <3>2, <4>2, <4>3
      <4>4. CASE x \in DOMAIN log[Host] BY <1>1, <2>1, <3>2, <4>1, <4>4 DEF NumbersFit
      <4>. QED BY <1>2, <4>3, <4>4
    <3>. QED BY <3>1, <3>2
  <2>. QED BY <2>3, <2>4, <2>5
<1>. QED BY <1>7, <1>8

\* The publication of a request takes its send onward and queues it, or not.
LEMMA PublishNumbers ==
    ASSUME RelayTypes, AppTypes, SentTypes, SendsFit, NumbersFit,
           NEW d \in Devices, NEW k \in Slots, max.sends <= 1 => k = 1, AppPublish(d, k)
    PROVE  Onward(d, k) /\ SendsFit' /\ NumbersFit'
<1>. DEFINE s == sends[d][k]
            m == Request(d, s.n, s.kind, s.cfg.out)
<1>1. s \in AppSending /\ s.pc = "publish" BY DEF AppTypes, AppPublish
<1>2. /\ Queued(Host, m) \/ UNCHANGED relay
      /\ \/ sends' = [sends EXCEPT ![d][k].pc = "poll"] /\ UNCHANGED config
         \/ Fail(d, k)
      /\ UNCHANGED <<max, sent>>
  BY DEF AppPublish, Call
<1>3. m.re = <<d, s.n>> /\ m.from = d /\ m.seq = s.cfg.out BY DEF Request
<1>. HIDE DEF m
<1>4. Onward(d, k)
  <2>1. CASE sends' = [sends EXCEPT ![d][k].pc = "poll"] /\ UNCHANGED config
    <3>. DEFINE t == [s EXCEPT !.pc = "poll"]
    <3>1. t \in AppSending /\ t.pc = "poll" /\ t.n = s.n /\ t.cfg = s.cfg BY <1>1 DEF AppSending
    <3>2. sends' = [sends EXCEPT ![d][k] = t] BY <2>1
    <3>3. config' = [config EXCEPT ![d] = config[d]] /\ config[d] \in Config
      BY <2>1 DEF AppTypes
    <3>4. Saved(d, k, t, config[d]) BY <3>2, <3>3 DEF Saved
    <3>. HIDE DEF t
    <3>. QED BY <1>1, <3>1, <3>3, <3>4 DEF Onward
  <2>2. CASE Fail(d, k) BY <2>2, FailOnward
  <2>. QED BY <1>2, <2>1, <2>2
<1>5. AppKept /\ ~Unpublished(d, k)' BY <1>2, <1>4, OnwardKept
<1>6. CASE log' = log
  <2>1. log'[Host] = log[Host] BY <1>6
  <2>. QED BY <1>4, <1>5, <2>1, KeptFits
<1>7. CASE log' # log
  <2>1. log' = [log EXCEPT ![Host] = Append(@, m)] BY <1>2, <1>7 DEF Queued, relay
  <2>2. Host \in Inboxes BY DEF Inboxes
  <2>3. log'[Host] = Append(log[Host], m) BY <2>1, <2>2 DEF RelayTypes
  <2>. QED BY <1>1, <1>3, <1>4, <1>5, <2>3, QueuedFits
<1>. QED BY <1>4, <1>6, <1>7

----------------------------------------------------------------------------
(* The relay's memory.                                                     *)

\* What is held and what is remembered was queued, and an answer names its request.
LogFit ==
    /\ HeldFit
    /\ \A j \in DOMAIN fresh :
         /\ fresh[j].cursor \in DOMAIN log[fresh[j].at]
         /\ fresh[j].id = log[fresh[j].at][fresh[j].cursor].id
    /\ \A d \in Devices : \A x \in DOMAIN log[d] : log[d][x].id[2] = log[d][x].re

LEMMA QueuedLog ==
    ASSUME RelayTypes, LogFit, NEW i \in Inboxes, NEW m, Queued(i, m),
           i # Host => m.id[2] = m.re
    PROVE  /\ LogFit'
           /\ \/ UNCHANGED log /\ Remembered(m)
              \/ log' = [log EXCEPT ![i] = Append(log[i], m)]
<1>1. CASE Remembered(m)
  <2>1. UNCHANGED <<log, held, fresh>> BY <1>1 DEF Queued, relay
  <2>. QED BY <1>1, <2>1 DEF LogFit, HeldFit
<1>2. CASE ~Remembered(m)
  <2>. DEFINE n == Len(log[i]) + 1
              f == [at |-> i, cursor |-> n, id |-> m.id]
  <2>1. /\ log' = [log EXCEPT ![i] = Append(log[i], m)]
        /\ held' = [held EXCEPT ![i] = held[i] \cup {n}]
        /\ fresh' = Append(fresh, f)
    BY <1>2 DEF Queued
  <2>2. /\ DOMAIN log[i] = 1..Len(log[i]) /\ Len(log[i]) \in Nat
        /\ DOMAIN Append(log[i], m) = 1..n
        /\ \A x \in 1..Len(log[i]) : Append(log[i], m)[x] = log[i][x]
        /\ Append(log[i], m)[n] = m
    <3>1. log[i] \in Seq(RequestMessage \cup ResponseMessage) BY DEF RelayTypes
    <3>. QED BY <3>1, Appended
  <2>3. \A j \in Inboxes : log'[j] = IF j = i THEN Append(log[i], m) ELSE log[j]
    BY <2>1 DEF RelayTypes
  <2>4. \A j \in Inboxes : held'[j] = IF j = i THEN held[i] \cup {n} ELSE held[j]
    BY <2>1 DEF RelayTypes
  <2>5. n \in DOMAIN Append(log[i], m) /\ 1..Len(log[i]) \subseteq 1..n BY <2>2
  <2>6. \A j \in Inboxes : \A x \in DOMAIN log[j] :
          x \in DOMAIN log'[j] /\ log'[j][x] = log[j][x]
    <3>. HIDE DEF n
    <3>. QED BY <2>2, <2>3, <2>5
  <2>7. HeldFit'
    <3>. HIDE DEF n
    <3>. QED BY <2>2, <2>3, <2>4, <2>5 DEF LogFit, HeldFit
  <2>8. ASSUME NEW j \in DOMAIN fresh'
        PROVE  /\ fresh'[j].cursor \in DOMAIN log'[fresh'[j].at]
               /\ fresh'[j].id = log'[fresh'[j].at][fresh'[j].cursor].id
    <3>0. /\ fresh \in Seq([at : Inboxes, cursor : Nat, id : MessageId])
          /\ DOMAIN fresh = 1..Len(fresh) /\ DOMAIN fresh' = 1..(Len(fresh) + 1)
          /\ Len(fresh) \in Nat
          /\ \A x \in 1..Len(fresh) : fresh'[x] = fresh[x]
          /\ fresh'[Len(fresh) + 1] = f
      <4>1. fresh \in Seq([at : Inboxes, cursor : Nat, id : MessageId]) BY DEF RelayTypes
      <4>. HIDE DEF f
      <4>. QED BY <2>1, <4>1, Appended
    <3>1. CASE j \in DOMAIN fresh
      <4>1. fresh'[j] = fresh[j] BY <3>0, <3>1
      <4>2. fresh[j] \in [at : Inboxes, cursor : Nat, id : MessageId] BY <3>0, <3>1, Element, Zenon
      <4>3. fresh[j].at \in Inboxes BY <4>2
      <4>. QED BY <2>6, <3>1, <4>1, <4>3 DEF LogFit
    <3>2. CASE j = Len(fresh) + 1
      <4>1. fresh'[j].at = i /\ fresh'[j].cursor = n /\ fresh'[j].id = m.id BY <3>0, <3>2
      <4>. HIDE DEF n
      <4>. QED BY <2>2, <2>3, <2>5, <4>1
    <3>. QED BY <3>0, <3>1, <3>2
  <2>9. ASSUME NEW d \in Devices, NEW x \in DOMAIN log'[d]
        PROVE  log'[d][x].id[2] = log'[d][x].re
    <3>0. d \in Inboxes /\ d # Host BY DeliveryAssumption DEF Inboxes
    <3>1. CASE d # i BY <2>3, <3>0, <3>1 DEF LogFit
    <3>2. CASE d = i
      <4>1. x \in 1..n BY <2>2, <2>3, <3>0, <3>2
      <4>2. CASE x = n BY <2>2, <2>3, <3>0, <3>2, <4>2
      <4>3. CASE x \in 1..Len(log[i])
        <5>1. log'[d][x] = log[d][x] /\ x \in DOMAIN log[d] BY <2>2, <2>3, <3>0, <3>2, <4>3
        <5>. QED BY <5>1 DEF LogFit
      <4>. QED BY <2>2, <4>1, <4>2, <4>3
    <3>. QED BY <3>1, <3>2
  <2>. QED BY <2>1, <2>7, <2>8, <2>9 DEF LogFit
<1>. QED BY <1>1, <1>2

LEMMA AckedLog ==
    ASSUME RelayTypes, LogFit, NEW i, NEW c, Acked(i, c)
    PROVE  LogFit' /\ UNCHANGED log
<1>1. \A j \in Inboxes : held'[j] \subseteq held[j] BY DEF Acked, RelayTypes
<1>2. UNCHANGED <<log, fresh>> BY DEF Acked
<1>. QED BY <1>1, <1>2 DEF LogFit, HeldFit

LEMMA ExpireLog ==
    ASSUME RelayTypes, LogFit, Expire
    PROVE  LogFit' /\ UNCHANGED log
<1>1. \A j \in Inboxes : held'[j] \subseteq held[j] BY DEF Expire, RelayTypes
<1>2. UNCHANGED log BY DEF Expire
<1>3. \A j \in DOMAIN fresh' : j + 1 \in DOMAIN fresh /\ fresh'[j] = fresh[j + 1]
  <2>1. fresh \in Seq([at : Inboxes, cursor : Nat, id : MessageId]) BY DEF RelayTypes
  <2>. QED BY <2>1 DEF Expire
<1>4. \A j \in DOMAIN fresh' :
         /\ fresh'[j].cursor \in DOMAIN log[fresh'[j].at]
         /\ fresh'[j].id = log[fresh'[j].at][fresh'[j].cursor].id
  BY <1>3 DEF LogFit
<1>. QED BY <1>1, <1>2, <1>4 DEF LogFit, HeldFit

----------------------------------------------------------------------------
(* The connector and its answers.                                          *)

HostTypes ==
    /\ host \in [cursor : Nat, in : [Devices -> Nat], out : [Devices -> Nat],
                 pending : {None} \cup Delivery]
    /\ hpc \in {"idle", "dispatched"}
    /\ batch \in Seq([cursor : Nat, msg : RequestMessage])
    /\ audit \in [Requests -> {"none", "accepted", "failed"}]
    /\ effects \in [Requests -> 0..MaxHandled]
    /\ crashes \in Nat

\* The last item of the queue that has left the batch.
Base == IF host.pending = None THEN host.cursor ELSE host.pending.cursor

\* The batch is what follows in the queue.
BatchFit ==
    /\ Base + Len(batch) <= Len(log[Host])
    /\ \A k \in DOMAIN batch : batch[k] = [cursor |-> Base + k, msg |-> log[Host][Base + k]]
    /\ hpc = "dispatched" =>
         /\ host.pending = None /\ batch # <<>> /\ effects[batch[1].msg.re] > 0

Answered(q) == \E d \in Devices : \E x \in DOMAIN log[d] : log[d][x].re = q

\* The delivery is of the item after the cursor, which was handled.
PendingFit ==
    host.pending # None =>
        LET p == host.pending IN
        /\ p.cursor = host.cursor + 1
        /\ p.msg.re = log[Host][p.cursor].re /\ p.msg.id[2] = p.msg.re
        /\ effects[p.msg.re] > 0 /\ audit[p.msg.re] = "accepted"
        /\ ~p.published => ~p.committed
        /\ p.msg.seq = IF p.committed THEN host.out[p.dev] ELSE host.out[p.dev] + 1
        /\ p.published => Answered(p.msg.re)

InFlight(m) == host.pending # None /\ m = host.pending.msg

\* An answer is of a request the cursor has passed, or it is in delivery.
AnswersFit ==
    /\ \A d \in Devices : \A x \in DOMAIN log[d] :
         /\ audit[log[d][x].re] = "accepted"
         /\ log[d][x].seq <= host.out[d] \/ (InFlight(log[d][x]) /\ host.pending.dev = d)
         /\ InFlight(log[d][x]) \/ \E c \in 1..host.cursor : log[Host][c].re = log[d][x].re
    /\ \A d, e \in Devices : \A x \in DOMAIN log[d], y \in DOMAIN log[e] :
         log[d][x].re = log[e][y].re => log[d][x] = log[e][y]
    /\ \A d \in Devices : \A x, y \in DOMAIN log[d] :
         log[d][x].seq = log[d][y].seq => log[d][x] = log[d][y]

\* The requests the connector has got to.
Reached(q) ==
    \/ \E c \in 1..Base : log[Host][c].re = q
    \/ hpc = "dispatched" /\ batch[1].msg.re = q

\* Only a crash makes the connector handle a request it has not got past again.
EffectsFit ==
    \A q \in Requests : audit[q] # "failed" =>
        effects[q] <= crashes + (IF Reached(q) THEN 1 ELSE 0)

HostFit == BatchFit /\ PendingFit /\ AnswersFit /\ EffectsFit

\* A step that leaves the connector alone; requests may be queued.
Aside ==
    /\ UNCHANGED hostVars /\ crashes' \in Nat /\ crashes <= crashes'
    /\ \A d \in Devices : log'[d] = log[d]
    /\ log'[Host] \in Seq(RequestMessage) /\ Len(log[Host]) <= Len(log'[Host])
    /\ \A x \in 1..Len(log[Host]) : log'[Host][x] = log[Host][x]

\* Where the queue's items are.
LEMMA BaseType ==
    ASSUME RelayTypes, HostTypes, BatchFit, PendingFit
    PROVE  /\ Base \in Nat /\ Len(batch) \in Nat /\ Len(log[Host]) \in Nat
           /\ DOMAIN batch = 1..Len(batch) /\ DOMAIN log[Host] = 1..Len(log[Host])
           /\ Base <= Len(log[Host]) /\ host.cursor \in Nat /\ host.cursor <= Base
           /\ host.pending # None => host.pending \in Delivery
           /\ 1..host.cursor \subseteq 1..Base /\ 1..Base \subseteq 1..Len(log[Host])
<1>1. host.cursor \in Nat /\ (host.pending # None => host.pending \in Delivery) BY DEF HostTypes
<1>2. host.pending # None => host.pending.cursor \in Nat BY <1>1 DEF Delivery
<1>3. Base \in Nat BY <1>1, <1>2 DEF Base
<1>4. batch \in Seq([cursor : Nat, msg : RequestMessage]) /\ log[Host] \in Seq(RequestMessage)
  BY DEF HostTypes, RelayTypes
<1>5. /\ Len(batch) \in Nat /\ Len(log[Host]) \in Nat
      /\ DOMAIN batch = 1..Len(batch) /\ DOMAIN log[Host] = 1..Len(log[Host])
  BY <1>4
<1>6. Base <= Len(log[Host]) BY <1>3, <1>5 DEF BatchFit
<1>7. host.cursor <= Base BY <1>1, <1>2 DEF PendingFit, Base
<1>. QED BY <1>1, <1>3, <1>5, <1>6, <1>7

LEMMA AsideFits ==
    ASSUME RelayTypes, HostTypes, HostFit, Aside
    PROVE  HostTypes' /\ HostFit'
<1>1. /\ Base \in Nat /\ Len(batch) \in Nat /\ Len(log[Host]) \in Nat
      /\ DOMAIN batch = 1..Len(batch) /\ Base <= Len(log[Host])
      /\ host.cursor \in Nat /\ host.cursor <= Base
      /\ 1..host.cursor \subseteq 1..Base /\ 1..Base \subseteq 1..Len(log[Host])
      /\ Base + Len(batch) <= Len(log[Host])
  BY BaseType DEF HostFit, BatchFit
<1>2. UNCHANGED <<host, hpc, batch, audit, effects>> BY DEF Aside, hostVars
<1>3. Base' = Base BY <1>2 DEF Base
<1>4. /\ Len(log'[Host]) \in Nat /\ Len(log[Host]) <= Len(log'[Host])
      /\ \A x \in 1..Len(log[Host]) : log'[Host][x] = log[Host][x]
  BY DEF Aside
<1>5. BatchFit'
  <2>1. Base + Len(batch) <= Len(log'[Host]) BY <1>1, <1>4
  <2>2. \A k \in DOMAIN batch : batch[k] = [cursor |-> Base + k, msg |-> log'[Host][Base + k]]
    <3>1. \A k \in DOMAIN batch : Base + k \in 1..Len(log[Host]) BY <1>1
    <3>. QED BY <1>4, <3>1 DEF HostFit, BatchFit
  <2>. QED BY <1>2, <1>3, <2>1, <2>2 DEF HostFit, BatchFit
<1>6. \A q : Answered(q) = Answered(q)' BY DEF Answered, Aside
<1>7. PendingFit'
  <2>1. host.pending # None => host.pending.cursor \in 1..Len(log[Host])
    <3>1. host.pending # None => host.pending.cursor = Base /\ host.pending.cursor # 0
      BY <1>1 DEF HostFit, PendingFit, Base
    <3>. QED BY <1>1, <3>1
  <2>. QED BY <1>2, <1>4, <1>6, <2>1 DEF HostFit, PendingFit
<1>8. AnswersFit'
  <2>1. \A d \in Devices : log'[d] = log[d] BY DEF Aside
  <2>2. \A c \in 1..host.cursor : log'[Host][c] = log[Host][c] BY <1>1, <1>4
  <2>. QED BY <1>2, <2>1, <2>2 DEF HostFit, AnswersFit, InFlight
<1>9. EffectsFit'
  <2>1. \A c \in 1..Base : log'[Host][c] = log[Host][c] BY <1>1, <1>4
  <2>2. \A q : Reached(q)' = Reached(q) BY <1>2, <1>3, <2>1 DEF Reached
  <2>3. crashes \in Nat /\ crashes' \in Nat /\ crashes <= crashes' BY DEF Aside, HostTypes
  <2>4. ASSUME NEW q \in Requests, audit'[q] # "failed"
        PROVE  effects'[q] <= crashes' + (IF Reached(q)' THEN 1 ELSE 0)
    <3>1. effects[q] \in Nat /\ effects[q] <= crashes + (IF Reached(q) THEN 1 ELSE 0)
      BY <1>2, <2>4, DeliveryAssumption DEF HostFit, EffectsFit, HostTypes
    <3>2. CASE Reached(q)
      <4>1. Reached(q)' BY <2>2, <3>2
      <4>. QED BY <1>2, <2>3, <3>1, <3>2, <4>1
    <3>3. CASE ~Reached(q) BY <1>2, <2>3, <3>1, <3>3
    <3>. QED BY <3>2, <3>3
  <2>. QED BY <2>4 DEF EffectsFit
<1>10. HostTypes' BY <1>2 DEF HostTypes, Aside
<1>. QED BY <1>5, <1>7, <1>8, <1>9, <1>10 DEF HostFit

\* What is queued and in delivery.
LEMMA MessagesTyped ==
    ASSUME RelayTypes, HostTypes
    PROVE  /\ \A d \in Devices : \A x \in DOMAIN log[d] : log[d][x] \in ResponseMessage
           /\ \A d \in Devices : \A x \in DOMAIN log[d] :
                log[d][x].re \in Requests /\ log[d][x].seq \in Nat
           /\ \A x \in DOMAIN log[Host] : log[Host][x] \in RequestMessage
           /\ \A x \in DOMAIN log[Host] :
                log[Host][x].re \in Requests /\ log[Host][x].from \in Devices
                /\ log[Host][x].seq \in Nat
           /\ host.pending # None =>
                /\ host.pending \in Delivery /\ host.pending.dev \in Devices
                /\ host.pending.msg \in ResponseMessage /\ host.pending.msg.re \in Requests
                /\ host.pending.msg.seq \in Nat
<1>1. \A d \in Devices : log[d] \in Seq(ResponseMessage) BY DEF RelayTypes
<1>2. \A d \in Devices : \A x \in DOMAIN log[d] : log[d][x] \in ResponseMessage
  BY <1>1, Element
<1>3. log[Host] \in Seq(RequestMessage) BY DEF RelayTypes
<1>4. \A x \in DOMAIN log[Host] : log[Host][x] \in RequestMessage BY <1>3, Element
<1>5. host.pending # None => host.pending \in Delivery BY DEF HostTypes
<1>6. host.pending # None => host.pending.msg \in ResponseMessage /\ host.pending.dev \in Devices
  BY <1>5 DEF Delivery
<1>7. \A m \in ResponseMessage : m.re \in Requests /\ m.seq \in Nat BY DEF ResponseMessage
<1>8. \A m \in RequestMessage : m.re \in Requests /\ m.from \in Devices /\ m.seq \in Nat
  BY DEF RequestMessage
<1>. QED BY <1>2, <1>4, <1>5, <1>6, <1>7, <1>8

\* Answers stand while handlers run: what was handled and accepted stays so.
LEMMA AnswersStand ==
    ASSUME RelayTypes, HostTypes, HostFit, UNCHANGED <<log, host>>,
           \A q \in Requests : effects[q] > 0 => effects'[q] > 0,
           \A q \in Requests : audit[q] = "accepted" => audit'[q] = "accepted"
    PROVE  PendingFit' /\ AnswersFit' /\ Base' = Base
<1>1. /\ \A d \in Devices : \A x \in DOMAIN log[d] : log[d][x].re \in Requests
      /\ host.pending # None => host.pending.msg.re \in Requests
  BY MessagesTyped
<1>2. \A q : Answered(q)' = Answered(q) BY DEF Answered
<1>3. PendingFit' BY <1>1, <1>2 DEF HostFit, PendingFit
<1>4. AnswersFit' BY <1>1 DEF HostFit, AnswersFit, InFlight
<1>. QED BY <1>3, <1>4 DEF Base

\* Polling fills the batch with what follows the cursor.
LEMMA PollFits ==
    ASSUME RelayTypes, HeldFit, HostTypes, HostFit, HostPoll
    PROVE  HostTypes' /\ HostFit'
<1>1. /\ UNCHANGED <<relay, host, hpc, audit, effects, crashes>> /\ hpc = "idle"
      /\ host.pending = None /\ batch' = Items(Host, host.cursor)
      /\ Contiguous(Host, host.cursor)
  BY DEF HostPoll, bounds
<1>2. UNCHANGED log BY <1>1 DEF relay
<1>3. host.cursor \in Nat /\ Base = host.cursor /\ Len(log[Host]) \in Nat /\ Base <= Len(log[Host])
  BY <1>1, BaseType DEF HostFit, Base
<1>4. Host \in Inboxes BY DEF Inboxes
<1>5. /\ After(Host, host.cursor) \subseteq 1..Len(log[Host])
      /\ IsFiniteSet(After(Host, host.cursor))
  BY <1>3, <1>4, AfterFits
<1>. DEFINE n == Cardinality(After(Host, host.cursor))
<1>6. /\ n \in Nat /\ After(Host, host.cursor) = (host.cursor + 1)..(host.cursor + n)
      /\ batch' = [k \in 1..n |-> [cursor |-> host.cursor + k, msg |-> log[Host][host.cursor + k]]]
  BY <1>1, <1>3, <1>5, ItemsFollow
<1>. HIDE DEF n
<1>7. ASSUME NEW k \in 1..n
      PROVE  host.cursor + k \in Nat /\ host.cursor + k \in 1..Len(log[Host])
  <2>1. host.cursor + k \in (host.cursor + 1)..(host.cursor + n) BY <1>3, <1>6
  <2>2. host.cursor + k \in 1..Len(log[Host]) BY <1>5, <1>6, <2>1, Zenon
  <2>. QED BY <2>2
<1>8. batch' \in Seq([cursor : Nat, msg : RequestMessage]) /\ Len(batch') = n
  <2>1. \A k \in 1..n : log[Host][host.cursor + k] \in RequestMessage
    BY <1>7, MessagesTyped, BaseType DEF HostFit
  <2>2. \A k \in 1..n : [cursor |-> host.cursor + k, msg |-> log[Host][host.cursor + k]]
                          \in [cursor : Nat, msg : RequestMessage]
    BY <1>7, <2>1
  <2>. QED BY <1>6, <2>2
<1>9. Base + n <= Len(log[Host])
  <2>1. CASE n = 0 BY <1>3, <2>1
  <2>2. CASE n # 0
    <3>1. n \in 1..n BY <1>6, <2>2
    <3>2. host.cursor + n \in 1..Len(log[Host]) BY <1>7, <3>1
    <3>. QED BY <1>3, <1>6, <3>2
  <2>. QED BY <2>1, <2>2
<1>10. PendingFit' /\ AnswersFit' /\ Base' = Base BY <1>1, <1>2, AnswersStand
<1>11. BatchFit'
  <2>1. \A k \in DOMAIN batch' : batch'[k] = [cursor |-> Base + k, msg |-> log[Host][Base + k]]
    BY <1>3, <1>6
  <2>. QED BY <1>1, <1>2, <1>8, <1>9, <1>10, <2>1 DEF BatchFit
<1>12. EffectsFit'
  <2>1. \A q : Reached(q)' = Reached(q) BY <1>1, <1>2, <1>10 DEF Reached
  <2>. QED BY <1>1, <2>1 DEF HostFit, EffectsFit
<1>13. HostTypes' BY <1>1, <1>8 DEF HostTypes
<1>. QED BY <1>10, <1>11, <1>12, <1>13 DEF HostFit

\* The item that is next is of the queue, and the cursor has not passed its request.
LEMMA NextItem ==
    ASSUME RelayTypes, SendsFit, HostTypes, HostFit, batch # <<>>
    PROVE  /\ batch[1] = [cursor |-> Base + 1, msg |-> log[Host][Base + 1]] /\ Head(batch) = batch[1]
           /\ Base + 1 \in DOMAIN log[Host]
           /\ batch[1].msg \in RequestMessage /\ batch[1].msg.re \in Requests
           /\ batch[1].cursor = Base + 1 /\ batch[1].msg = log[Host][Base + 1]
           /\ \A c \in 1..Base : log[Host][c].re # batch[1].msg.re
<1>1. /\ Base \in Nat /\ Len(batch) \in Nat /\ Len(log[Host]) \in Nat
      /\ DOMAIN batch = 1..Len(batch) /\ DOMAIN log[Host] = 1..Len(log[Host])
      /\ Base + Len(batch) <= Len(log[Host])
  BY BaseType DEF HostFit, BatchFit
<1>2. Len(batch) # 0 /\ Head(batch) = batch[1]
  <2>1. batch \in Seq([cursor : Nat, msg : RequestMessage]) BY DEF HostTypes
  <2>. QED BY <2>1, Shortened
<1>3. 1 \in DOMAIN batch /\ Base + 1 \in DOMAIN log[Host] /\ 1..Base \subseteq DOMAIN log[Host]
  BY <1>1, <1>2
<1>4. batch[1] = [cursor |-> Base + 1, msg |-> log[Host][Base + 1]]
  BY <1>3 DEF HostFit, BatchFit
<1>5. log[Host][Base + 1] \in RequestMessage /\ log[Host][Base + 1].re \in Requests
  BY <1>3, MessagesTyped
<1>6. \A c \in 1..Base : log[Host][c].re # log[Host][Base + 1].re
  <2>1. \A c \in 1..Base : c # Base + 1 BY <1>1
  <2>. QED BY <1>3, <2>1 DEF SendsFit
<1>. QED BY <1>2, <1>3, <1>4, <1>5, <1>6

\* An empty batch follows anything.
LEMMA EmptyBatch ==
    ASSUME RelayTypes, HostTypes, HostFit, UNCHANGED log, Base' = Base, batch' = <<>>, hpc' = "idle"
    PROVE  BatchFit' /\ batch' \in Seq([cursor : Nat, msg : RequestMessage])
<1>1. Base \in Nat /\ Len(log[Host]) \in Nat /\ Base <= Len(log[Host]) BY BaseType DEF HostFit
<1>2. Len(batch') = 0 /\ DOMAIN batch' = {} OBVIOUS
<1>. QED BY <1>1, <1>2 DEF BatchFit

\* A rejected item leaves the connector where it was.
LEMMA RejectFits ==
    ASSUME RelayTypes, HostTypes, HostFit, HostReject
    PROVE  HostTypes' /\ HostFit'
<1>1. /\ UNCHANGED <<relay, host, hpc, audit, effects, crashes>> /\ hpc = "idle" /\ batch' = <<>>
  BY DEF HostReject, bounds, Dropped
<1>2. UNCHANGED log BY <1>1 DEF relay
<1>3. PendingFit' /\ AnswersFit' /\ Base' = Base BY <1>1, <1>2, AnswersStand
<1>4. BatchFit' /\ batch' \in Seq([cursor : Nat, msg : RequestMessage])
  BY <1>1, <1>2, <1>3, EmptyBatch
<1>5. \A q : Reached(q)' = Reached(q) BY <1>1, <1>2, <1>3 DEF Reached
<1>6. EffectsFit' BY <1>1, <1>5 DEF HostFit, EffectsFit
<1>. QED BY <1>1, <1>3, <1>4, <1>6 DEF HostFit, HostTypes

\* A handler that throws has its failure recorded, unless the audit has an entry.
LEMMA ThrowsFits ==
    ASSUME RelayTypes, SendsFit, HostTypes, HostFit, HostHandlerThrows
    PROVE  HostTypes' /\ HostFit'
<1>. DEFINE q == batch[1].msg.re
<1>1. /\ UNCHANGED <<relay, host, hpc, effects, crashes>> /\ hpc = "idle" /\ batch' = <<>>
      /\ batch # <<>>
  BY DEF HostHandlerThrows, Dropped
<1>2. UNCHANGED log BY <1>1 DEF relay
<1>3. Head(batch) = batch[1] /\ q \in Requests BY <1>1, NextItem
<1>4. audit' = [audit EXCEPT ![q] = IF audit[q] = "none" THEN "failed" ELSE audit[q]]
  BY <1>3 DEF HostHandlerThrows
<1>. HIDE DEF q
<1>5. /\ audit' \in [Requests -> {"none", "accepted", "failed"}]
      /\ \A r \in Requests : /\ audit[r] = "accepted" => audit'[r] = "accepted"
                             /\ audit[r] = "failed" => audit'[r] = "failed"
  BY <1>3, <1>4 DEF HostTypes
<1>6. PendingFit' /\ AnswersFit' /\ Base' = Base BY <1>1, <1>2, <1>5, AnswersStand
<1>7. BatchFit' /\ batch' \in Seq([cursor : Nat, msg : RequestMessage])
  BY <1>1, <1>2, <1>6, EmptyBatch
<1>8. \A r : Reached(r)' = Reached(r) BY <1>1, <1>2, <1>6 DEF Reached
<1>9. EffectsFit' BY <1>1, <1>5, <1>8 DEF HostFit, EffectsFit
<1>. QED BY <1>1, <1>5, <1>6, <1>7, <1>9 DEF HostFit, HostTypes

\* A request is handled once more only if a crash came between.
LEMMA HandleFits ==
    ASSUME RelayTypes, SendsFit, HostTypes, HostFit, HostHandle
    PROVE  HostTypes' /\ HostFit'
<1>0. PICK q : q = batch[1].msg.re OBVIOUS
<1>1. /\ UNCHANGED <<relay, host, batch, audit, crashes>> /\ hpc = "idle" /\ hpc' = "dispatched"
      /\ batch # <<>> /\ host.pending = None
  BY DEF HostHandle, bounds
<1>2. UNCHANGED log BY <1>1 DEF relay
<1>3. /\ Head(batch) = batch[1] /\ q \in Requests
      /\ \A c \in 1..Base : log[Host][c].re # q
  BY <1>0, <1>1, NextItem
<1>4. effects' = [effects EXCEPT ![q] = IF effects[q] < MaxHandled THEN effects[q] + 1
                                                                    ELSE effects[q]]
  BY <1>0, <1>3 DEF HostHandle
<1>5. effects \in [Requests -> 0..MaxHandled] /\ MaxHandled \in Nat \ {0}
  BY DeliveryAssumption DEF HostTypes
<1>6. ~Reached(q) BY <1>0, <1>1, <1>3 DEF Reached
<1>7. batch'[1].msg.re = q BY <1>0, <1>1
<1>8. /\ effects' \in [Requests -> 0..MaxHandled]
      /\ \A r \in Requests : effects[r] > 0 => effects'[r] > 0
      /\ \A r \in Requests \ {q} : effects'[r] = effects[r]
      /\ effects'[q] > 0 /\ effects'[q] <= effects[q] + 1 /\ effects[q] \in Nat
  BY <1>3, <1>4, <1>5
<1>9. PendingFit' /\ AnswersFit' /\ Base' = Base BY <1>1, <1>2, <1>8, AnswersStand
<1>10. BatchFit' BY <1>1, <1>2, <1>7, <1>8, <1>9 DEF HostFit, BatchFit
<1>11. EffectsFit'
  <2>1. \A r : Reached(r) => Reached(r)' BY <1>1, <1>2, <1>9 DEF Reached
  <2>2. Reached(q)' BY <1>1, <1>7 DEF Reached
  <2>3. crashes \in Nat /\ crashes' = crashes BY <1>1 DEF HostTypes
  <2>4. ASSUME NEW r \in Requests, audit'[r] # "failed"
        PROVE  effects'[r] <= crashes' + (IF Reached(r)' THEN 1 ELSE 0)
    <3>1. effects[r] <= crashes + (IF Reached(r) THEN 1 ELSE 0) /\ effects[r] \in Nat
      BY <1>1, <1>5, <2>4 DEF HostFit, EffectsFit
    <3>2. CASE r = q
      <4>1. effects[q] <= crashes BY <1>6, <2>3, <3>1, <3>2
      <4>2. effects'[q] \in Nat BY <1>3, <1>8, DeliveryAssumption
      <4>. QED BY <1>8, <2>2, <2>3, <3>2, <4>1, <4>2
    <3>3. CASE r # q
      <4>1. effects'[r] = effects[r] BY <1>8, <3>3
      <4>2. CASE Reached(r)
        <5>1. Reached(r)' BY <2>1, <4>2
        <5>. QED BY <2>3, <3>1, <4>1, <4>2, <5>1
      <4>3. CASE ~Reached(r) BY <2>3, <3>1, <4>1, <4>3
      <4>. QED BY <4>2, <4>3
    <3>. QED BY <3>2, <3>3
  <2>. QED BY <2>4 DEF EffectsFit
<1>12. HostTypes' BY <1>1, <1>8 DEF HostTypes
<1>. QED BY <1>9, <1>10, <1>11, <1>12 DEF HostFit

\* A crash makes up for the handling that is lost.
LEMMA CrashFits ==
    ASSUME RelayTypes, SendsFit, HostTypes, HostFit, HostCrash
    PROVE  HostTypes' /\ HostFit'
<1>. DEFINE q == batch[1].msg.re
<1>1. /\ UNCHANGED <<relay, host, effects>> /\ hpc' = "idle" /\ batch' = <<>>
      /\ crashes' = crashes + 1
  BY DEF HostCrash, Dropped
<1>2. UNCHANGED log BY <1>1 DEF relay
<1>3. /\ audit' \in [Requests -> {"none", "accepted", "failed"}]
      /\ \A r \in Requests : /\ audit[r] = "accepted" => audit'[r] = "accepted"
                             /\ audit[r] = "failed" => audit'[r] = "failed"
  <2>1. CASE UNCHANGED audit BY <2>1 DEF HostTypes
  <2>2. CASE hpc = "dispatched" /\ audit' = [audit EXCEPT ![Head(batch).msg.re] = "accepted"]
             /\ audit[Head(batch).msg.re] = "none"
    <3>1. batch # <<>> BY <2>2 DEF HostFit, BatchFit
    <3>2. Head(batch) = batch[1] /\ q \in Requests BY <3>1, NextItem
    <3>3. audit' = [audit EXCEPT ![q] = "accepted"] /\ audit[q] = "none" BY <2>2, <3>2
    <3>. HIDE DEF q
    <3>. QED BY <3>2, <3>3 DEF HostTypes
  <2>. QED BY <2>1, <2>2 DEF HostCrash
<1>4. PendingFit' /\ AnswersFit' /\ Base' = Base BY <1>1, <1>2, <1>3, AnswersStand
<1>5. BatchFit' /\ batch' \in Seq([cursor : Nat, msg : RequestMessage])
  BY <1>1, <1>2, <1>4, EmptyBatch
<1>6. EffectsFit'
  <2>1. ASSUME NEW r \in Requests, audit'[r] # "failed" PROVE effects'[r] <= crashes'
    <3>1. effects[r] \in Nat /\ crashes \in Nat BY DeliveryAssumption DEF HostTypes
    <3>2. effects[r] <= crashes + (IF Reached(r) THEN 1 ELSE 0)
      BY <1>3, <2>1 DEF HostFit, EffectsFit
    <3>. QED BY <1>1, <3>1, <3>2
  <2>2. \A r \in Requests : effects'[r] \in Nat /\ crashes' \in Nat
    BY <1>1, DeliveryAssumption DEF HostTypes
  <2>. QED BY <2>1, <2>2 DEF EffectsFit
<1>. QED BY <1>1, <1>3, <1>4, <1>5, <1>6 DEF HostFit, HostTypes

\* The outcome recorded, the delivery takes the item's place.
LEMMA RecordFits ==
    ASSUME RelayTypes, SendsFit, HostTypes, HostFit, HostRecord
    PROVE  HostTypes' /\ HostFit'
<1>0. PICK m, q : m = batch[1].msg /\ q = m.re OBVIOUS
<1>1. /\ UNCHANGED <<relay, effects, crashes>> /\ hpc = "dispatched" /\ hpc' = "idle"
      /\ host.pending = None /\ batch # <<>> /\ effects[q] > 0
  BY <1>0 DEF HostRecord, Dropped, bounds, HostFit, BatchFit
<1>2. UNCHANGED log BY <1>1 DEF relay
<1>3. /\ Head(batch) = batch[1] /\ q \in Requests /\ m \in RequestMessage
      /\ batch[1].cursor = Base + 1 /\ m = log[Host][Base + 1] /\ Base + 1 \in DOMAIN log[Host]
      /\ \A c \in 1..Base : log[Host][c].re # q
  BY <1>0, <1>1, NextItem
<1>4. /\ Base = host.cursor /\ Base \in Nat /\ Len(log[Host]) \in Nat
      /\ DOMAIN log[Host] = 1..Len(log[Host])
      /\ Len(batch) \in Nat /\ DOMAIN batch = 1..Len(batch) /\ Base + Len(batch) <= Len(log[Host])
  BY <1>1, BaseType DEF HostFit, BatchFit, Base
<1>5. \A r : Reached(r) <=> r = q \/ \E c \in 1..Base : log[Host][c].re = r
  BY <1>0, <1>1 DEF Reached
<1>6. CASE audit[q] = "failed"
  <2>1. UNCHANGED <<audit, host>> /\ batch' = <<>>
    BY <1>0, <1>3, <1>6 DEF HostRecord, Dropped
  <2>2. PendingFit' /\ AnswersFit' /\ Base' = Base BY <1>1, <1>2, <2>1, AnswersStand
  <2>3. BatchFit' /\ batch' \in Seq([cursor : Nat, msg : RequestMessage])
    BY <1>1, <1>2, <2>1, <2>2, EmptyBatch
  <2>4. \A r : r # q => (Reached(r)' <=> Reached(r))
    BY <1>1, <1>2, <1>5, <2>2 DEF Reached
  <2>5. EffectsFit' BY <1>1, <1>6, <2>1, <2>4 DEF HostFit, EffectsFit
  <2>. QED BY <1>1, <2>1, <2>2, <2>3, <2>5 DEF HostFit, HostTypes
<1>7. CASE audit[q] # "failed"
  <2>. DEFINE p == [cursor |-> Base + 1, dev |-> m.from, in |-> m.seq,
                    msg |-> Response(q, effects[q], host.out[m.from] + 1),
                    published |-> FALSE, committed |-> FALSE]
  <2>1. audit' = [audit EXCEPT ![q] = "accepted"] /\ batch' = Tail(batch)
        /\ host' = [host EXCEPT !.pending = p]
    BY <1>0, <1>3, <1>7 DEF HostRecord
  <2>2. m.from \in Devices /\ m.seq \in Nat BY <1>3 DEF RequestMessage
  <2>3. host.out[m.from] \in Nat /\ effects[q] \in Nat
    BY <1>3, <2>2, DeliveryAssumption DEF HostTypes
  <2>4. Response(q, effects[q], host.out[m.from] + 1) \in ResponseMessage
    BY <1>3, <2>3, MessageTypes
  <2>5. p \in Delivery /\ p # None
    <3>1. Base + 1 \in Nat \ {0} BY <1>4
    <3>2. p \in Delivery
      <4>. HIDE DEF Base
      <4>. QED BY <2>2, <2>4, <3>1 DEF Delivery
    <3>3. p.cursor # None.cursor BY <3>1 DEF None
    <3>. QED BY <3>2, <3>3
  <2>6. /\ p.cursor = Base + 1 /\ p.dev = m.from /\ p.msg.re = q /\ p.msg.id[2] = q
        /\ p.msg.seq = host.out[p.dev] + 1 /\ ~p.published /\ ~p.committed
    BY DEF Response
  <2>. HIDE DEF p
  <2>7. host'.pending = p /\ host'.cursor = host.cursor /\ host'.out = host.out
        /\ host' \in [cursor : Nat, in : [Devices -> Nat], out : [Devices -> Nat],
                      pending : {None} \cup Delivery]
    BY <2>1, <2>5 DEF HostTypes
  <2>8. Base' = Base + 1 BY <2>5, <2>6, <2>7 DEF Base
  <2>9. /\ audit' \in [Requests -> {"none", "accepted", "failed"}] /\ audit'[q] = "accepted"
        /\ \A r \in Requests : audit[r] = "accepted" => audit'[r] = "accepted"
        /\ \A r \in Requests : audit[r] = "failed" <=> audit'[r] = "failed"
    BY <1>3, <1>7, <2>1 DEF HostTypes
  <2>10. /\ batch' \in Seq([cursor : Nat, msg : RequestMessage])
         /\ Len(batch') = Len(batch) - 1 /\ DOMAIN batch' = 1..(Len(batch) - 1)
         /\ \A k \in 1..(Len(batch) - 1) : batch'[k] = batch[k + 1]
    <3>1. batch \in Seq([cursor : Nat, msg : RequestMessage]) BY DEF HostTypes
    <3>2. /\ Tail(batch) \in Seq([cursor : Nat, msg : RequestMessage])
          /\ Len(Tail(batch)) = Len(batch) - 1
          /\ \A k \in 1..(Len(batch) - 1) : Tail(batch)[k] = batch[k + 1]
      BY <1>1, <3>1, Shortened
    <3>3. DOMAIN Tail(batch) = 1..Len(Tail(batch)) BY <3>2
    <3>. QED BY <2>1, <3>2, <3>3
  <2>11. BatchFit'
    <3>1. \A k \in DOMAIN batch' :
            batch'[k] = [cursor |-> Base + 1 + k, msg |-> log[Host][Base + 1 + k]]
      <4>1. ASSUME NEW k \in DOMAIN batch'
            PROVE  batch'[k] = [cursor |-> Base + 1 + k, msg |-> log[Host][Base + 1 + k]]
        <5>1. k + 1 \in DOMAIN batch /\ batch'[k] = batch[k + 1] /\ k \in Nat BY <1>4, <2>10
        <5>2. batch[k + 1] = [cursor |-> Base + (k + 1), msg |-> log[Host][Base + (k + 1)]]
          BY <5>1 DEF HostFit, BatchFit
        <5>3. Base + (k + 1) = Base + 1 + k BY <1>4, <5>1
        <5>. QED BY <5>1, <5>2, <5>3
      <4>. QED BY <4>1
    <3>2. Base + 1 + Len(batch') <= Len(log[Host]) BY <1>4, <2>10
    <3>. QED BY <1>1, <1>2, <2>8, <3>1, <3>2 DEF BatchFit
  <2>12. PendingFit'
    BY <1>0, <1>1, <1>2, <1>3, <1>4, <2>6, <2>7, <2>9 DEF PendingFit
  <2>13. AnswersFit'
    <3>1. \A d \in Devices : \A x \in DOMAIN log[d] : log[d][x].re \in Requests BY MessagesTyped
    <3>2. \A d \in Devices : \A x \in DOMAIN log[d] :
             /\ audit'[log[d][x].re] = "accepted" /\ log[d][x].seq <= host.out[d]
             /\ \E c \in 1..host.cursor : log[Host][c].re = log[d][x].re
      BY <1>1, <2>9, <3>1 DEF HostFit, AnswersFit, InFlight
    <3>. QED BY <1>2, <2>7, <3>2 DEF HostFit, AnswersFit
  <2>14. EffectsFit'
    <3>1. \A r : Reached(r) => Reached(r)'
      <4>1. Base + 1 \in 1..(Base + 1) /\ 1..Base \subseteq 1..(Base + 1) BY <1>4
      <4>2. ASSUME NEW r, Reached(r) PROVE \E c \in 1..(Base + 1) : log[Host][c].re = r
        <5>1. CASE r = q BY <1>0, <1>3, <4>1, <5>1
        <5>2. CASE r # q BY <1>5, <4>1, <4>2, <5>2
        <5>. QED BY <5>1, <5>2
      <4>. QED BY <1>2, <2>8, <4>2 DEF Reached
    <3>2. ASSUME NEW r \in Requests, audit'[r] # "failed"
          PROVE  effects'[r] <= crashes' + (IF Reached(r)' THEN 1 ELSE 0)
      <4>1. /\ effects[r] <= crashes + (IF Reached(r) THEN 1 ELSE 0)
            /\ effects[r] \in Nat /\ crashes \in Nat
        BY <2>9, <3>2, DeliveryAssumption DEF HostFit, EffectsFit, HostTypes
      <4>2. CASE Reached(r)
        <5>1. Reached(r)' BY <3>1, <4>2
        <5>. QED BY <1>1, <4>1, <4>2, <5>1
      <4>3. CASE ~Reached(r) BY <1>1, <4>1, <4>3
      <4>. QED BY <4>2, <4>3
    <3>. QED BY <3>2 DEF EffectsFit
  <2>15. HostTypes' BY <1>1, <2>7, <2>9, <2>10 DEF HostTypes
  <2>. QED BY <2>11, <2>12, <2>13, <2>14, <2>15 DEF HostFit
<1>. QED BY <1>6, <1>7

\* What publishing changes of the delivery, and of the batch when a call fails.
LEMMA PublishedMarks ==
    ASSUME HostTypes, HostFit, HostPublish
    PROVE  /\ host.pending # None /\ ~host.pending.published /\ UNCHANGED <<hpc, audit, effects, crashes>>
           /\ batch' = batch \/ batch' = <<>>
           /\ hpc = "idle" /\ host' \in [cursor : Nat, in : [Devices -> Nat], out : [Devices -> Nat],
                                         pending : {None} \cup Delivery]
           /\ host'.cursor = host.cursor /\ host'.out = host.out
           /\ host'.pending # None /\ host'.pending.cursor = host.pending.cursor
           /\ host'.pending.dev = host.pending.dev /\ host'.pending.msg = host.pending.msg
           /\ host'.pending.committed <=> host.pending.committed
           /\ Queued(host.pending.dev, host.pending.msg) \/ UNCHANGED relay
           /\ host'.pending.published => Queued(host.pending.dev, host.pending.msg)
<1>. DEFINE p == host.pending
<1>1. p # None /\ ~p.published /\ UNCHANGED <<hpc, audit, effects, crashes>>
  BY DEF HostPublish
<1>2. \/ /\ Queued(p.dev, p.msg)
         /\ host' = [host EXCEPT !.pending.published = TRUE] /\ UNCHANGED batch
      \/ /\ UNCHANGED host /\ batch' = <<>>
         /\ Queued(p.dev, p.msg) \/ UNCHANGED relay
  BY DEF HostPublish, Call
<1>3. p \in Delivery BY <1>1 DEF HostTypes
<1>4. hpc = "idle" BY <1>1 DEF HostTypes, HostFit, BatchFit
<1>5. CASE UNCHANGED host BY <1>1, <1>2, <1>4, <1>5 DEF HostTypes
<1>6. CASE ~UNCHANGED host
  <2>. DEFINE r == [p EXCEPT !.published = TRUE]
  <2>1. /\ r \in Delivery /\ r.cursor = p.cursor /\ r.dev = p.dev /\ r.msg = p.msg
        /\ r.committed <=> p.committed
    BY <1>3 DEF Delivery
  <2>2. host' = [host EXCEPT !.pending = r] BY <1>2, <1>6
  <2>3. r # None
    <3>1. p.cursor # None.cursor BY <1>3 DEF Delivery, None
    <3>. QED BY <2>1, <3>1
  <2>4. Queued(p.dev, p.msg) /\ UNCHANGED batch BY <1>2, <1>6
  <2>. HIDE DEF r
  <2>5. /\ host' \in [cursor : Nat, in : [Devices -> Nat], out : [Devices -> Nat],
                      pending : {None} \cup Delivery]
        /\ host'.pending = r /\ host'.cursor = host.cursor /\ host'.out = host.out
    BY <2>1, <2>2 DEF HostTypes
  <2>. QED BY <1>1, <1>4, <2>1, <2>3, <2>4, <2>5
<1>. QED BY <1>5, <1>6

\* A message in delivery that the relay remembers is among the answers.
LEMMA RememberedAnswer ==
    ASSUME RelayTypes, LogFit, HostTypes, PendingFit, host.pending # None,
           Remembered(host.pending.msg)
    PROVE  Answered(host.pending.msg.re)
<1>1. PICK j \in DOMAIN fresh : fresh[j].id = host.pending.msg.id BY DEF Remembered
<1>2. fresh[j] \in [at : Inboxes, cursor : Nat, id : MessageId]
  <2>1. fresh \in Seq([at : Inboxes, cursor : Nat, id : MessageId]) BY DEF RelayTypes
  <2>. QED BY <2>1, Element, Zenon
<1>. DEFINE i == fresh[j].at
            c == fresh[j].cursor
<1>3. /\ i \in Inboxes /\ c \in DOMAIN log[i] /\ log[i][c].id = host.pending.msg.id
  BY <1>1, <1>2 DEF LogFit
<1>4. host.pending.msg.id \in {Host} \X Requests \X Nat
  BY MessagesTyped DEF ResponseMessage
<1>5. host.pending.msg.id[1] = Host BY <1>4
<1>. HIDE DEF i, c
<1>6. i # Host
  <2>. SUFFICES ASSUME i = Host PROVE FALSE OBVIOUS
  <2>1. log[Host][c] \in RequestMessage BY <1>3, MessagesTyped
  <2>2. log[Host][c].id[1] \in Devices BY <2>1 DEF RequestMessage, Requests
  <2>. QED BY <1>3, <1>5, <2>2, DeliveryAssumption
<1>7. i \in Devices BY <1>3, <1>6 DEF Inboxes
<1>8. log[i][c].re = host.pending.msg.re BY <1>3, <1>7 DEF LogFit, PendingFit
<1>. QED BY <1>3, <1>7, <1>8 DEF Answered

\* An answer that is published joins no other answer to its request.
LEMMA PublishFits ==
    ASSUME RelayTypes, LogFit, SendsFit, HostTypes, HostFit, HostPublish
    PROVE  /\ HostTypes' /\ HostFit'
           /\ RelayTypes' /\ LogFit' /\ log'[Host] = log[Host]
<1>0. PICK p : p = host.pending OBVIOUS
<1>1. /\ p # None /\ ~p.published /\ UNCHANGED <<hpc, audit, effects, crashes>>
      /\ batch' = batch \/ batch' = <<>>
      /\ hpc = "idle" /\ host' \in [cursor : Nat, in : [Devices -> Nat], out : [Devices -> Nat],
                                    pending : {None} \cup Delivery]
      /\ host'.cursor = host.cursor /\ host'.out = host.out
      /\ host'.pending # None /\ host'.pending.cursor = p.cursor
      /\ host'.pending.dev = p.dev /\ host'.pending.msg = p.msg
      /\ host'.pending.committed <=> p.committed
      /\ Queued(p.dev, p.msg) \/ UNCHANGED relay
      /\ host'.pending.published => Queued(p.dev, p.msg)
  BY <1>0, PublishedMarks
<1>2. /\ p.dev \in Devices /\ p.msg \in ResponseMessage /\ p.msg.re \in Requests
      /\ p.msg.seq \in Nat
  BY <1>0, <1>1, MessagesTyped
<1>3. /\ p.cursor = host.cursor + 1 /\ p.msg.re = log[Host][p.cursor].re /\ p.msg.id[2] = p.msg.re
      /\ effects[p.msg.re] > 0 /\ audit[p.msg.re] = "accepted"
      /\ ~p.committed /\ p.msg.seq = host.out[p.dev] + 1
  BY <1>0, <1>1 DEF HostFit, PendingFit
<1>4. p.dev \in Inboxes /\ p.dev # Host BY <1>2, DeliveryAssumption DEF Inboxes
<1>5. RelayTypes'
  <2>1. CASE Queued(p.dev, p.msg) BY <1>2, <1>4, <2>1, QueuedTypes
  <2>2. CASE UNCHANGED relay BY <2>2 DEF relay, RelayTypes
  <2>. QED BY <1>1, <2>1, <2>2
<1>6. /\ LogFit'
      /\ \/ UNCHANGED log /\ (host'.pending.published => Remembered(p.msg))
         \/ log' = [log EXCEPT ![p.dev] = Append(log[p.dev], p.msg)]
  <2>1. CASE Queued(p.dev, p.msg) BY <1>3, <1>4, <2>1, QueuedLog
  <2>2. CASE ~Queued(p.dev, p.msg)
    <3>1. UNCHANGED <<log, held, fresh>> BY <1>1, <2>2 DEF relay
    <3>. QED BY <1>1, <2>2, <3>1 DEF LogFit, HeldFit
  <2>. QED BY <2>1, <2>2
<1>7. /\ log'[Host] = log[Host]
      /\ \A d \in Devices : \A x \in DOMAIN log'[d] :
           \/ d = p.dev /\ log'[d][x] = p.msg
           \/ x \in DOMAIN log[d] /\ log'[d][x] = log[d][x]
      /\ \A d \in Devices : \A x \in DOMAIN log[d] : x \in DOMAIN log'[d] /\ log'[d][x] = log[d][x]
      /\ UNCHANGED log \/ \E x \in DOMAIN log'[p.dev] : log'[p.dev][x] = p.msg
  <2>1. CASE UNCHANGED log BY <2>1
  <2>2. CASE log' = [log EXCEPT ![p.dev] = Append(log[p.dev], p.msg)]
    <3>1. log[p.dev] \in Seq(ResponseMessage) BY <1>2 DEF RelayTypes
    <3>. DEFINE n == Len(log[p.dev])
    <3>2. /\ DOMAIN Append(log[p.dev], p.msg) = 1..(n + 1) /\ DOMAIN log[p.dev] = 1..n /\ n \in Nat
          /\ \A x \in 1..n : Append(log[p.dev], p.msg)[x] = log[p.dev][x]
          /\ Append(log[p.dev], p.msg)[n + 1] = p.msg
      BY <3>1, Appended
    <3>3. /\ Host \in Inboxes /\ Devices \subseteq Inboxes
          /\ \A j \in Inboxes : log'[j] = IF j = p.dev THEN Append(log[p.dev], p.msg) ELSE log[j]
      BY <2>2 DEF RelayTypes, Inboxes
    <3>. HIDE DEF n
    <3>4. log'[Host] = log[Host] BY <1>4, <3>3
    <3>5. log'[p.dev] = Append(log[p.dev], p.msg) BY <1>4, <3>3
    <3>6. \A d \in Devices : d # p.dev => log'[d] = log[d] BY <3>3
    <3>7. \A x \in DOMAIN log'[p.dev] :
             log'[p.dev][x] = p.msg \/ (x \in DOMAIN log[p.dev] /\ log'[p.dev][x] = log[p.dev][x])
      BY <3>2, <3>5
    <3>8. \A x \in DOMAIN log[p.dev] :
             x \in DOMAIN log'[p.dev] /\ log'[p.dev][x] = log[p.dev][x]
      BY <3>2, <3>5
    <3>9. n + 1 \in DOMAIN log'[p.dev] /\ log'[p.dev][n + 1] = p.msg BY <3>2, <3>5
    <3>. QED BY <3>4, <3>6, <3>7, <3>8, <3>9
  <2>. QED BY <1>6, <2>1, <2>2
<1>8. ASSUME NEW e \in Devices, NEW y \in DOMAIN log[e]
      PROVE  /\ log[e][y].re = p.msg.re => log[e][y] = p.msg
             /\ e = p.dev /\ log[e][y].seq = p.msg.seq => log[e][y] = p.msg
  <2>1. /\ InFlight(log[e][y]) \/ \E c \in 1..host.cursor : log[Host][c].re = log[e][y].re
        /\ log[e][y].seq <= host.out[e] \/ InFlight(log[e][y])
    BY DEF HostFit, AnswersFit
  <2>2. InFlight(log[e][y]) => log[e][y] = p.msg BY <1>0 DEF InFlight
  <2>3. \A c \in 1..host.cursor : log[Host][c].re # p.msg.re
    <3>1. /\ Base = p.cursor /\ Base \in Nat /\ host.cursor \in Nat /\ Base <= Len(log[Host])
          /\ DOMAIN log[Host] = 1..Len(log[Host]) /\ Len(log[Host]) \in Nat
      BY <1>0, <1>1, BaseType DEF HostFit, Base
    <3>2. p.cursor \in DOMAIN log[Host] /\ \A c \in 1..host.cursor : c \in DOMAIN log[Host] /\ c # p.cursor
      BY <1>3, <3>1
    <3>. QED BY <1>3, <3>2 DEF SendsFit
  <2>4. log[e][y].seq \in Nat /\ host.out[p.dev] \in Nat BY <1>2, MessagesTyped DEF HostTypes
  <2>. QED BY <1>3, <2>1, <2>2, <2>3, <2>4
<1>9. Base' = Base BY <1>0, <1>1 DEF Base
<1>10. BatchFit' /\ batch' \in Seq([cursor : Nat, msg : RequestMessage])
  <2>1. Base \in Nat /\ Len(log[Host]) \in Nat /\ Base <= Len(log[Host]) BY BaseType DEF HostFit
  <2>2. CASE batch' = batch BY <1>1, <1>7, <1>9, <2>2 DEF HostFit, BatchFit, HostTypes
  <2>3. CASE batch' = <<>>
    <3>1. Len(batch') = 0 /\ DOMAIN batch' = {} BY <2>3
    <3>. QED BY <1>1, <1>7, <1>9, <2>1, <2>3, <3>1 DEF BatchFit
  <2>. QED BY <1>1, <2>2, <2>3
<1>11. host'.pending.published => Answered(p.msg.re)'
  <2>. SUFFICES ASSUME host'.pending.published PROVE Answered(p.msg.re)'
    OBVIOUS
  <2>1. CASE UNCHANGED log
    <3>1. Answered(p.msg.re) 
      <4>1. CASE Remembered(p.msg) BY <1>0, <1>1, <4>1, RememberedAnswer DEF HostFit
      <4>2. CASE ~Remembered(p.msg)
        <5>1. log' = [log EXCEPT ![p.dev] = Append(log[p.dev], p.msg)] BY <1>6, <4>2
        <5>2. log'[p.dev] = Append(log[p.dev], p.msg) BY <1>4, <5>1 DEF RelayTypes
        <5>3. log[p.dev] \in Seq(ResponseMessage) BY <1>2 DEF RelayTypes
        <5>4. DOMAIN log'[p.dev] # DOMAIN log[p.dev] BY <5>2, <5>3
        <5>. QED BY <2>1, <5>4
      <4>. QED BY <4>1, <4>2
    <3>. QED BY <2>1, <3>1 DEF Answered
  <2>2. CASE ~UNCHANGED log BY <1>2, <1>7, <2>2 DEF Answered
  <2>. QED BY <2>1, <2>2
<1>12. PendingFit' BY <1>1, <1>3, <1>7, <1>11 DEF PendingFit
<1>13. AnswersFit'
  <2>1. \A m : InFlight(m) <=> m = p.msg BY <1>0, <1>1 DEF InFlight
  <2>3. ASSUME NEW d \in Devices, NEW x \in DOMAIN log'[d]
        PROVE  /\ audit'[log'[d][x].re] = "accepted"
               /\ \/ log'[d][x].seq <= host'.out[d]
                  \/ log'[d][x] = p.msg /\ host'.pending.dev = d
               /\ \/ log'[d][x] = p.msg
                  \/ \E c \in 1..host'.cursor : log'[Host][c].re = log'[d][x].re
    <3>1. CASE d = p.dev /\ log'[d][x] = p.msg BY <1>1, <1>3, <3>1
    <3>2. CASE x \in DOMAIN log[d] /\ log'[d][x] = log[d][x]
      <4>1. /\ audit[log[d][x].re] = "accepted"
            /\ log[d][x].seq <= host.out[d] \/ (log[d][x] = p.msg /\ p.dev = d)
            /\ log[d][x] = p.msg \/ \E c \in 1..host.cursor : log[Host][c].re = log[d][x].re
        BY <1>0, <2>1, <3>2 DEF HostFit, AnswersFit
      <4>. QED BY <1>1, <1>7, <3>2, <4>1
    <3>. QED BY <1>7, <3>1, <3>2
  <2>4. ASSUME NEW d \in Devices, NEW e \in Devices, NEW x \in DOMAIN log'[d],
               NEW y \in DOMAIN log'[e], log'[d][x].re = log'[e][y].re
        PROVE  log'[d][x] = log'[e][y]
    <3>1. log'[d][x] = p.msg \/ (x \in DOMAIN log[d] /\ log'[d][x] = log[d][x]) BY <1>7
    <3>2. log'[e][y] = p.msg \/ (y \in DOMAIN log[e] /\ log'[e][y] = log[e][y]) BY <1>7
    <3>. QED BY <1>8, <2>4, <3>1, <3>2 DEF HostFit, AnswersFit
  <2>5. ASSUME NEW d \in Devices, NEW x \in DOMAIN log'[d], NEW y \in DOMAIN log'[d],
               log'[d][x].seq = log'[d][y].seq
        PROVE  log'[d][x] = log'[d][y]
    <3>1. (d = p.dev /\ log'[d][x] = p.msg) \/ (x \in DOMAIN log[d] /\ log'[d][x] = log[d][x])
      BY <1>7
    <3>2. (d = p.dev /\ log'[d][y] = p.msg) \/ (y \in DOMAIN log[d] /\ log'[d][y] = log[d][y])
      BY <1>7
    <3>. QED BY <1>8, <2>5, <3>1, <3>2 DEF HostFit, AnswersFit
  <2>. QED BY <1>1, <2>3, <2>4, <2>5 DEF AnswersFit, InFlight
<1>14. EffectsFit'
  <2>1. \A r : Reached(r)' = Reached(r) BY <1>1, <1>7, <1>9 DEF Reached
  <2>. QED BY <1>1, <2>1 DEF HostFit, EffectsFit
<1>15. HostTypes' BY <1>1, <1>10 DEF HostTypes
<1>. QED BY <1>5, <1>6, <1>7, <1>10, <1>12, <1>13, <1>14, <1>15 DEF HostFit

\* The commit counts the answer that was published.
LEMMA CommitFits ==
    ASSUME RelayTypes, HostTypes, HostFit, HostCommit
    PROVE  HostTypes' /\ HostFit'
<1>0. PICK p : p = host.pending OBVIOUS
<1>1. /\ p # None /\ p.published /\ ~p.committed
      /\ UNCHANGED <<relay, hpc, batch, audit, effects, crashes>>
      /\ host' = [host EXCEPT !.in[p.dev] = p.in, !.out[p.dev] = p.msg.seq,
                              !.pending.committed = TRUE]
  BY <1>0 DEF HostCommit, bounds
<1>2. p \in Delivery /\ p.dev \in Devices /\ p.msg.seq \in Nat BY <1>0, <1>1, MessagesTyped
<1>3. p.in \in Nat BY <1>2 DEF Delivery
<1>. DEFINE r == [p EXCEPT !.committed = TRUE]
            in == [host.in EXCEPT ![p.dev] = p.in]
            out == [host.out EXCEPT ![p.dev] = p.msg.seq]
<1>4. /\ r \in Delivery /\ r.cursor = p.cursor /\ r.dev = p.dev /\ r.msg = p.msg
      /\ r.published /\ r.committed
  BY <1>1, <1>2 DEF Delivery
<1>5. r # None
  <2>1. p.cursor # None.cursor BY <1>2 DEF Delivery, None
  <2>. QED BY <1>4, <2>1
<1>6. host.in \in [Devices -> Nat] /\ host.out \in [Devices -> Nat] BY DEF HostTypes
<1>7. /\ in \in [Devices -> Nat] /\ out \in [Devices -> Nat] /\ out[p.dev] = p.msg.seq
      /\ \A d \in Devices \ {p.dev} : out[d] = host.out[d]
  BY <1>2, <1>3, <1>6
<1>8. host' = [host EXCEPT !.in = in, !.out = out, !.pending = r]
  BY <1>0, <1>1 DEF HostTypes
<1>. HIDE DEF r, in, out
<1>9. /\ host'.pending = r /\ host'.cursor = host.cursor /\ host'.out = out
      /\ host' \in [cursor : Nat, in : [Devices -> Nat], out : [Devices -> Nat],
                    pending : {None} \cup Delivery]
  BY <1>4, <1>7, <1>8 DEF HostTypes
<1>10. UNCHANGED log BY <1>1 DEF relay
<1>11. Base' = Base BY <1>0, <1>1, <1>4, <1>5, <1>9 DEF Base
<1>12. hpc = "idle" BY <1>0, <1>1 DEF HostTypes, HostFit, BatchFit
<1>13. BatchFit' BY <1>1, <1>10, <1>11, <1>12 DEF HostFit, BatchFit
<1>14. /\ p.cursor = host.cursor + 1 /\ p.msg.re = log[Host][p.cursor].re /\ p.msg.id[2] = p.msg.re
       /\ effects[p.msg.re] > 0 /\ audit[p.msg.re] = "accepted"
       /\ p.msg.seq = host.out[p.dev] + 1 /\ Answered(p.msg.re)
  BY <1>0, <1>1 DEF HostFit, PendingFit
<1>15. PendingFit'
  <2>1. Answered(p.msg.re)' BY <1>10, <1>14 DEF Answered
  <2>. QED BY <1>1, <1>4, <1>7, <1>9, <1>10, <1>14, <2>1 DEF PendingFit
<1>16. AnswersFit'
  <2>1. \A m : InFlight(m) => m = p.msg BY <1>0 DEF InFlight
  <2>2. ASSUME NEW d \in Devices, NEW x \in DOMAIN log[d] PROVE log[d][x].seq <= out[d]
    <3>1. log[d][x].seq <= host.out[d] \/ (log[d][x] = p.msg /\ d = p.dev)
      BY <1>0, <2>1 DEF HostFit, AnswersFit
    <3>2. log[d][x].seq \in Nat /\ host.out[d] \in Nat BY <1>6, MessagesTyped
    <3>. QED BY <1>2, <1>7, <1>14, <3>1, <3>2
  <2>3. ASSUME NEW d \in Devices, NEW x \in DOMAIN log[d]
        PROVE  \/ log[d][x] = host'.pending.msg /\ host'.pending # None
               \/ \E c \in 1..host.cursor : log[Host][c].re = log[d][x].re
    BY <1>4, <1>5, <1>9, <2>1 DEF HostFit, AnswersFit
  <2>4. ASSUME NEW d \in Devices, NEW x \in DOMAIN log'[d]
        PROVE  /\ audit'[log'[d][x].re] = "accepted" /\ log'[d][x].seq <= host'.out[d]
               /\ \/ host'.pending # None /\ log'[d][x] = host'.pending.msg
                  \/ \E c \in 1..host'.cursor : log'[Host][c].re = log'[d][x].re
    <3>1. UNCHANGED <<audit, log>> BY <1>1, <1>10
    <3>2. audit[log[d][x].re] = "accepted" BY <3>1 DEF HostFit, AnswersFit
    <3>3. log[d][x].seq <= out[d] BY <2>2, <3>1
    <3>4. host'.out = out /\ host'.cursor = host.cursor BY <1>9
    <3>5. \/ log[d][x] = host'.pending.msg /\ host'.pending # None
          \/ \E c \in 1..host.cursor : log[Host][c].re = log[d][x].re
      BY <2>3, <3>1
    <3>. QED BY <3>1, <3>2, <3>3, <3>4, <3>5
  <2>. QED BY <1>10, <2>4 DEF HostFit, AnswersFit, InFlight
<1>17. EffectsFit'
  <2>1. \A q : Reached(q)' = Reached(q) BY <1>1, <1>10, <1>11 DEF Reached
  <2>. QED BY <1>1, <2>1 DEF HostFit, EffectsFit
<1>. QED BY <1>1, <1>9, <1>13, <1>15, <1>16, <1>17 DEF HostFit, HostTypes

\* The acknowledgement moves the cursor past the request that was answered.
LEMMA AckFits ==
    ASSUME RelayTypes, LogFit, HostTypes, HostFit, HostAck
    PROVE  HostTypes' /\ HostFit' /\ RelayTypes' /\ LogFit' /\ UNCHANGED log
<1>0. PICK p : p = host.pending OBVIOUS
<1>1. /\ p # None /\ p.published /\ p.committed /\ UNCHANGED <<hpc, audit, effects, crashes>>
      /\ Acked(Host, p.cursor) \/ UNCHANGED relay
      /\ \/ host' = [host EXCEPT !.cursor = p.cursor, !.pending = None] /\ UNCHANGED batch
         \/ UNCHANGED host /\ batch' = <<>>
  BY <1>0 DEF HostAck, Call
<1>2. RelayTypes' /\ LogFit' /\ UNCHANGED log
  <2>1. CASE Acked(Host, p.cursor) BY <2>1, AckedTypes, AckedLog
  <2>2. CASE UNCHANGED relay BY <2>2 DEF relay, RelayTypes, LogFit, HeldFit
  <2>. QED BY <1>1, <2>1, <2>2
<1>3. p \in Delivery /\ p.cursor \in Nat /\ p.dev \in Devices
  <2>1. p \in Delivery BY <1>0, <1>1 DEF HostTypes
  <2>. QED BY <2>1 DEF Delivery
<1>4. hpc = "idle" BY <1>0, <1>1 DEF HostTypes, HostFit, BatchFit
<1>5. CASE UNCHANGED host /\ batch' = <<>>
  <2>1. PendingFit' /\ AnswersFit' /\ Base' = Base BY <1>1, <1>2, <1>5, AnswersStand
  <2>2. BatchFit' /\ batch' \in Seq([cursor : Nat, msg : RequestMessage])
    BY <1>1, <1>2, <1>4, <1>5, <2>1, EmptyBatch
  <2>3. \A q : Reached(q)' = Reached(q) BY <1>1, <1>2, <1>4, <2>1 DEF Reached
  <2>4. EffectsFit' BY <1>1, <2>3 DEF HostFit, EffectsFit
  <2>. QED BY <1>1, <1>2, <1>5, <2>1, <2>2, <2>4 DEF HostFit, HostTypes
<1>6. CASE host' = [host EXCEPT !.cursor = p.cursor, !.pending = None] /\ UNCHANGED batch
  <2>1. /\ host'.cursor = p.cursor /\ host'.pending = None /\ host'.out = host.out
        /\ host' \in [cursor : Nat, in : [Devices -> Nat], out : [Devices -> Nat],
                      pending : {None} \cup Delivery]
    BY <1>3, <1>6 DEF HostTypes
  <2>2. Base' = Base BY <1>0, <1>1, <2>1 DEF Base
  <2>3. BatchFit' BY <1>1, <1>2, <1>4, <1>6, <2>2 DEF HostFit, BatchFit
  <2>4. PendingFit' BY <2>1 DEF PendingFit
  <2>5. /\ p.cursor = host.cursor + 1 /\ p.msg.re = log[Host][p.cursor].re
        /\ p.msg.seq = host.out[p.dev] /\ host.cursor \in Nat
    BY <1>0, <1>1 DEF HostFit, PendingFit, HostTypes
  <2>6. AnswersFit'
    <3>1. \A m : InFlight(m) => m = p.msg BY <1>0 DEF InFlight
    <3>2. ASSUME NEW d \in Devices, NEW x \in DOMAIN log[d] PROVE log[d][x].seq <= host.out[d]
      <4>1. log[d][x].seq <= host.out[d] \/ (log[d][x] = p.msg /\ d = p.dev)
        BY <1>0, <3>1 DEF HostFit, AnswersFit
      <4>2. log[d][x].seq \in Nat /\ host.out[d] \in Nat BY MessagesTyped DEF HostTypes
      <4>. QED BY <2>5, <4>1, <4>2
    <3>3. ASSUME NEW d \in Devices, NEW x \in DOMAIN log[d]
          PROVE  \E c \in 1..p.cursor : log[Host][c].re = log[d][x].re
      <4>1. log[d][x] = p.msg \/ \E c \in 1..host.cursor : log[Host][c].re = log[d][x].re
        BY <3>1 DEF HostFit, AnswersFit
      <4>2. p.cursor \in 1..p.cursor /\ 1..host.cursor \subseteq 1..p.cursor BY <2>5
      <4>. QED BY <2>5, <4>1, <4>2
    <3>. QED BY <1>1, <1>2, <2>1, <3>2, <3>3 DEF HostFit, AnswersFit
  <2>7. \A q : Reached(q)' = Reached(q) BY <1>1, <1>2, <1>6, <2>2 DEF Reached
  <2>8. EffectsFit' BY <1>1, <2>7 DEF HostFit, EffectsFit
  <2>. QED BY <1>1, <1>2, <1>6, <2>1, <2>3, <2>4, <2>6, <2>8 DEF HostFit, HostTypes
<1>. QED BY <1>1, <1>5, <1>6

----------------------------------------------------------------------------
(* The inductive invariant.                                                *)

BoundTypes ==
    /\ max \in Instances
    /\ enrolled \subseteq Devices /\ trusted \subseteq Devices
    /\ faults \in Nat /\ expiries \in Nat

Fit ==
    /\ RelayTypes /\ AppTypes /\ SentTypes /\ HostTypes /\ BoundTypes
    /\ LogFit /\ SendsFit /\ NumbersFit /\ HostFit

LEMMA InitFits == Init => Fit
<1>. SUFFICES ASSUME Init PROVE Fit OBVIOUS
<1>1. RelayTypes /\ log = [i \in Inboxes |-> <<>>] /\ fresh = <<>> /\ held = [i \in Inboxes |-> {}]
  BY DEF Init, RelayTypes, Inboxes
<1>2. Host \in Inboxes /\ Devices \subseteq Inboxes BY DEF Inboxes
<1>3. log[Host] = <<>> /\ \A d \in Devices : log[d] = <<>> BY <1>1, <1>2
<1>4. DOMAIN log[Host] = {} /\ Len(log[Host]) = 0 /\ \A d \in Devices : DOMAIN log[d] = {}
  BY <1>3
<1>5. AppTypes /\ SentTypes BY MessageTypes, DeliveryAssumption DEF Init, AppTypes, SentTypes
<1>6. HostTypes BY DeliveryAssumption DEF Init, HostTypes
<1>7. BoundTypes BY DEF Init, BoundTypes
<1>8. LogFit BY <1>1, <1>4 DEF LogFit, HeldFit
<1>9. \A d \in Devices, k \in Slots : sends[d][k].pc = "idle" BY DEF Init, Idle
<1>10. SendsFit /\ NumbersFit BY <1>4, <1>9 DEF SendsFit, NumbersFit, Unpublished
<1>11. /\ host.pending = None /\ host.cursor = 0 /\ hpc = "idle" /\ batch = <<>>
       /\ effects = [q \in Requests |-> 0] /\ crashes = 0
  BY DEF Init
<1>12. Base = 0 BY <1>11 DEF Base
<1>13. BatchFit
  <2>1. Len(batch) = 0 /\ DOMAIN batch = {} BY <1>11
  <2>. QED BY <1>4, <1>11, <1>12, <2>1 DEF BatchFit
<1>14. PendingFit /\ AnswersFit BY <1>4, <1>11 DEF PendingFit, AnswersFit
<1>15. EffectsFit BY <1>11 DEF EffectsFit
<1>. QED BY <1>1, <1>5, <1>6, <1>7, <1>8, <1>10, <1>13, <1>14, <1>15 DEF Fit, HostFit

\* Acknowledgements and expiries leave the connector alone, and what is queued.
LEMMA ShrinkAside ==
    ASSUME RelayTypes, LogFit, UNCHANGED hostVars, crashes' \in Nat, crashes <= crashes',
           UNCHANGED relay \/ Expire \/ \E i, c : Acked(i, c)
    PROVE  RelayTypes' /\ LogFit' /\ UNCHANGED log /\ Aside
<1>1. RelayTypes' /\ LogFit' /\ UNCHANGED log
  <2>1. CASE UNCHANGED relay BY <2>1 DEF relay, RelayTypes, LogFit, HeldFit
  <2>2. CASE Expire BY <2>2, ExpireTypes, ExpireLog
  <2>3. CASE \E i, c : Acked(i, c) BY <2>3, AckedTypes, AckedLog
  <2>. QED BY <2>1, <2>2, <2>3
<1>2. log[Host] \in Seq(RequestMessage) /\ Len(log[Host]) \in Nat BY DEF RelayTypes
<1>3. Len(log[Host]) <= Len(log[Host]) BY <1>2
<1>. QED BY <1>1, <1>2, <1>3 DEF Aside

\* So does a request that is queued.
LEMMA QueuedAside ==
    ASSUME RelayTypes, LogFit, UNCHANGED hostVars, crashes' \in Nat, crashes <= crashes',
           NEW m \in RequestMessage, Queued(Host, m)
    PROVE  RelayTypes' /\ LogFit' /\ Aside
<1>1. Host \in Inboxes /\ Devices \subseteq Inboxes /\ Host \notin Devices
  BY DeliveryAssumption DEF Inboxes
<1>2. RelayTypes' BY <1>1, QueuedTypes
<1>3. /\ LogFit'
      /\ UNCHANGED log \/ log' = [log EXCEPT ![Host] = Append(log[Host], m)]
  BY <1>1, QueuedLog
<1>4. log[Host] \in Seq(RequestMessage) /\ Len(log[Host]) \in Nat BY DEF RelayTypes
<1>5. CASE UNCHANGED log
  <2>1. Len(log[Host]) <= Len(log[Host]) BY <1>4
  <2>. QED BY <1>2, <1>3, <1>4, <1>5, <2>1 DEF Aside
<1>6. CASE log' = [log EXCEPT ![Host] = Append(log[Host], m)]
  <2>1. log'[Host] = Append(log[Host], m) /\ \A d \in Devices : log'[d] = log[d]
    BY <1>1, <1>6 DEF RelayTypes
  <2>2. /\ Append(log[Host], m) \in Seq(RequestMessage)
        /\ Len(Append(log[Host], m)) = Len(log[Host]) + 1
        /\ \A x \in 1..Len(log[Host]) : Append(log[Host], m)[x] = log[Host][x]
    BY <1>4, Appended
  <2>3. Len(log[Host]) <= Len(log'[Host]) BY <1>4, <2>1, <2>2
  <2>. QED BY <1>2, <1>3, <2>1, <2>2, <2>3 DEF Aside
<1>. QED BY <1>3, <1>5, <1>6

\* The bounds of an instance.
LEMMA BoundsOf ==
    ASSUME BoundTypes
    PROVE  /\ max.requests \in 0..MaxRequests /\ max.sends \in 0..MaxSends
           /\ max.kinds \subseteq {"read", "denied", "renew"}
           /\ \A k \in 1..max.sends : k \in Slots /\ (max.sends <= 1 => k = 1)
<1>1. /\ max.requests \in 0..MaxRequests /\ max.sends \in 0..MaxSends
      /\ max.kinds \subseteq {"read", "denied", "renew"}
  BY DeliveryAssumption DEF BoundTypes
<1>. QED BY <1>1, DeliveryAssumption DEF Slots

\* A step of a send that saves it leaves sends and configurations what they are.
LEMMA SavedTypes ==
    ASSUME AppTypes, NEW d \in Devices, NEW k \in Slots,
           Onward(d, k) \/ \E n, out : Numbering(d, k, n, out)
    PROVE  AppTypes'
<1>1. PICK t \in AppSending, c \in Config : Saved(d, k, t, c) BY DEF Onward, Numbering
<1>. QED BY <1>1, SaveTypes

\* The bounds that a step does not touch.
LEMMA BoundsStay ==
    ASSUME BoundTypes, UNCHANGED <<max, trust, expiries>>, faults' \in {faults, faults + 1}
    PROVE  BoundTypes'
BY DEF BoundTypes, trust

\* The app's steps, one by one.
LEMMA SendFits ==
    ASSUME Fit, NEW d \in Devices, NEW k \in 1..max.sends, NEW kind \in max.kinds,
           AppSend(d, k, kind)
    PROVE  Fit'
<1>1. /\ max.requests \in 0..MaxRequests /\ kind \in {"read", "denied", "renew"}
      /\ k \in Slots /\ (max.sends <= 1 => k = 1)
  BY BoundsOf DEF Fit
<1>2. UNCHANGED <<relay, hostVars, trust, max, crashes, faults, expiries>> BY DEF AppSend, bounds
<1>3. crashes \in Nat /\ crashes' \in Nat /\ crashes <= crashes' BY <1>2 DEF Fit, HostTypes
<1>4. RelayTypes' /\ LogFit' /\ UNCHANGED log /\ Aside BY <1>2, <1>3, ShrinkAside DEF Fit
<1>5. HostTypes' /\ HostFit' BY <1>4, AsideFits DEF Fit
<1>6. PICK n, out : n = sent[d] + 1 /\ out = config[d].out OBVIOUS
<1>7. /\ sent' = [sent EXCEPT ![d] = sent[d] + 1] /\ sent[d] + 1 \in 1..MaxRequests
      /\ Numbering(d, k, sent[d] + 1, config[d].out)
  BY <1>1, SendNumbers DEF Fit
<1>8. /\ sent' = [sent EXCEPT ![d] = n] /\ n \in 1..MaxRequests /\ n \in Nat
      /\ Numbering(d, k, n, out)
  BY <1>6, <1>7 DEF Numbering
<1>9. SentTypes' BY <1>8 DEF Fit, SentTypes
<1>10. SendsFit' /\ NumbersFit'
  <2>1. log'[Host] = log[Host] /\ max' = max BY <1>2, <1>4
  <2>. QED BY <1>1, <1>6, <1>8, <2>1, NumberingFits DEF Fit
<1>11. AppTypes' BY <1>1, <1>8, SavedTypes DEF Fit
<1>12. BoundTypes' BY <1>2, BoundsStay DEF Fit
<1>. QED BY <1>4, <1>5, <1>9, <1>10, <1>11, <1>12 DEF Fit

LEMMA AckFirstFits ==
    ASSUME Fit, NEW d \in Devices, NEW k \in 1..max.sends, AppAckFirst(d, k)
    PROVE  Fit'
<1>1. k \in Slots /\ (max.sends <= 1 => k = 1) BY BoundsOf DEF Fit
<1>2. /\ UNCHANGED <<hostVars, sent, trust, max, crashes, expiries>>
      /\ faults' \in {faults, faults + 1}
      /\ UNCHANGED relay \/ \E i, c : Acked(i, c)
      /\ sends[d][k].pc = "ack_first"
  BY DEF AppAckFirst, Call
<1>3. crashes \in Nat /\ crashes' \in Nat /\ crashes <= crashes' BY <1>2 DEF Fit, HostTypes
<1>4. RelayTypes' /\ LogFit' /\ UNCHANGED log /\ Aside BY <1>2, <1>3, ShrinkAside DEF Fit
<1>5. HostTypes' /\ HostFit' BY <1>4, AsideFits DEF Fit
<1>6. PICK n, out : n = sends[d][k].n /\ out = sends[d][k].cfg.out OBVIOUS
<1>7. Onward(d, k) \/ Numbering(d, k, sends[d][k].n, sends[d][k].cfg.out)
  BY <1>1, AckFirstNumbers DEF Fit
<1>8. Onward(d, k) \/ Numbering(d, k, n, out) BY <1>6, <1>7 DEF Numbering
<1>9. SentTypes' BY <1>2 DEF Fit, SentTypes
<1>10. SendsFit' /\ NumbersFit'
  <2>1. log'[Host] = log[Host] /\ max' = max BY <1>2, <1>4
  <2>2. CASE Onward(d, k)
    <3>1. AppKept BY <1>1, <1>2, <2>2, OnwardKept DEF Fit
    <3>. QED BY <2>1, <3>1, KeptFits DEF Fit
  <2>3. CASE Numbering(d, k, n, out)
    <3>1. n \in Nat
      <4>1. sends[d][k] \in AppSending BY <1>1 DEF Fit, AppTypes
      <4>2. sends[d][k].n \in 0..MaxRequests BY <4>1 DEF AppSending
      <4>. QED BY <1>6, <4>2, DeliveryAssumption
    <3>. QED BY <1>1, <1>2, <1>6, <2>1, <2>3, <3>1, NumberingFits DEF Fit
  <2>. QED BY <1>8, <2>2, <2>3
<1>11. AppTypes' BY <1>1, <1>8, SavedTypes DEF Fit
<1>12. BoundTypes' BY <1>2, BoundsStay DEF Fit
<1>. QED BY <1>4, <1>5, <1>9, <1>10, <1>11, <1>12 DEF Fit

\* A step of a send onward that leaves the queue of requests as it is.
LEMMA OnwardFits ==
    ASSUME Fit, NEW d \in Devices, NEW k \in 1..max.sends, Onward(d, k),
           UNCHANGED <<hostVars, sent, trust, max, crashes, expiries>>,
           faults' \in {faults, faults + 1},
           UNCHANGED relay \/ \E i, c : Acked(i, c)
    PROVE  Fit'
<1>1. k \in Slots BY BoundsOf DEF Fit
<1>2. crashes \in Nat /\ crashes' \in Nat /\ crashes <= crashes' BY DEF Fit, HostTypes
<1>3. RelayTypes' /\ LogFit' /\ UNCHANGED log /\ Aside BY <1>2, ShrinkAside DEF Fit
<1>4. HostTypes' /\ HostFit' BY <1>3, AsideFits DEF Fit
<1>5. SentTypes' BY DEF Fit, SentTypes
<1>6. SendsFit' /\ NumbersFit'
  <2>1. AppKept BY <1>1, OnwardKept DEF Fit
  <2>2. log'[Host] = log[Host] BY <1>3
  <2>. QED BY <2>1, <2>2, KeptFits DEF Fit
<1>7. AppTypes' BY <1>1, SavedTypes DEF Fit
<1>8. BoundTypes' BY BoundsStay DEF Fit
<1>. QED BY <1>3, <1>4, <1>5, <1>6, <1>7, <1>8 DEF Fit

\* The request a send publishes.
LEMMA RequestTyped ==
    ASSUME Fit, NEW d \in Devices, NEW k \in 1..max.sends, sends[d][k].pc = "publish"
    PROVE  Request(d, sends[d][k].n, sends[d][k].kind, sends[d][k].cfg.out) \in RequestMessage
<1>1. sends[d][k] \in AppSending /\ k \in Slots BY BoundsOf DEF Fit, AppTypes
<1>2. sends[d][k].n \in 1..MaxRequests
  <2>1. sends[d][k].n \in 1..sent[d] /\ sent[d] \in 0..MaxRequests
    BY <1>1 DEF Fit, SendsFit, SentTypes
  <2>. QED BY <2>1, DeliveryAssumption
<1>3. sends[d][k].cfg.out \in Nat BY <1>1 DEF AppSending, Config
<1>4. sends[d][k].kind \in {"read", "denied", "renew"} BY <1>1 DEF AppSending
<1>. QED BY <1>2, <1>3, <1>4, MessageTypes

LEMMA AppPublishFits ==
    ASSUME Fit, NEW d \in Devices, NEW k \in 1..max.sends, AppPublish(d, k)
    PROVE  Fit'
<1>1. k \in Slots /\ (max.sends <= 1 => k = 1) BY BoundsOf DEF Fit
<1>2. PICK m : m = Request(d, sends[d][k].n, sends[d][k].kind, sends[d][k].cfg.out) OBVIOUS
<1>3. /\ UNCHANGED <<hostVars, sent, trust, max, crashes, expiries>>
      /\ faults' \in {faults, faults + 1}
      /\ UNCHANGED relay \/ Queued(Host, m)
      /\ sends[d][k].pc = "publish"
  BY <1>2 DEF AppPublish, Call
<1>4. Onward(d, k) /\ SendsFit' /\ NumbersFit' BY <1>1, PublishNumbers DEF Fit
<1>5. CASE UNCHANGED relay BY <1>3, <1>4, <1>5, OnwardFits
<1>6. CASE Queued(Host, m)
  <2>1. m \in RequestMessage BY <1>2, <1>3, RequestTyped
  <2>2. crashes \in Nat /\ crashes' \in Nat /\ crashes <= crashes' BY <1>3 DEF Fit, HostTypes
  <2>3. RelayTypes' /\ LogFit' /\ Aside BY <1>3, <1>6, <2>1, <2>2, QueuedAside DEF Fit
  <2>4. HostTypes' /\ HostFit' BY <2>3, AsideFits DEF Fit
  <2>5. SentTypes' BY <1>3 DEF Fit, SentTypes
  <2>6. AppTypes' BY <1>1, <1>4, SavedTypes DEF Fit
  <2>7. BoundTypes' BY <1>3, BoundsStay DEF Fit
  <2>. QED BY <1>4, <2>3, <2>4, <2>5, <2>6, <2>7 DEF Fit
<1>. QED BY <1>3, <1>5, <1>6

\* A crash of the app ends its sends.
LEMMA AppCrashFits ==
    ASSUME Fit, NEW d \in Devices, AppCrash(d)
    PROVE  Fit'
<1>1. /\ UNCHANGED <<relay, hostVars, config, sent, trust, max, expiries, faults>>
      /\ crashes' = crashes + 1 /\ sends' = [sends EXCEPT ![d] = [k \in Slots |-> Idle]]
  BY DEF AppCrash
<1>2. crashes \in Nat /\ crashes' \in Nat /\ crashes <= crashes' BY <1>1 DEF Fit, HostTypes
<1>3. RelayTypes' /\ LogFit' /\ UNCHANGED log /\ Aside BY <1>1, <1>2, ShrinkAside DEF Fit
<1>4. HostTypes' /\ HostFit' BY <1>3, AsideFits DEF Fit
<1>5. AppTypes'
  <2>1. [k \in Slots |-> Idle] \in [Slots -> AppSending] BY MessageTypes
  <2>2. sends' \in [Devices -> [Slots -> AppSending]] BY <1>1, <2>1 DEF Fit, AppTypes
  <2>. QED BY <1>1, <2>2 DEF Fit, AppTypes
<1>6. AppKept
  <2>1. \A e \in Devices, k \in Slots :
          sends'[e][k].pc = "idle" \/ sends'[e][k] = sends[e][k]
    <3>1. Idle.pc = "idle" BY DEF Idle
    <3>. QED BY <1>1, <3>1 DEF Fit, AppTypes
  <2>. QED BY <1>1, <2>1 DEF AppKept
<1>7. SendsFit' /\ NumbersFit'
  <2>1. log'[Host] = log[Host] BY <1>3
  <2>. QED BY <1>6, <2>1, KeptFits DEF Fit
<1>8. SentTypes' BY <1>1 DEF Fit, SentTypes
<1>9. BoundTypes' BY <1>1, BoundsStay DEF Fit
<1>. QED BY <1>3, <1>4, <1>5, <1>7, <1>8, <1>9 DEF Fit

\* A step that leaves the app alone, and the queue of requests.
LEMMA AppAlone ==
    ASSUME Fit, UNCHANGED <<appVars, max>>, log'[Host] = log[Host]
    PROVE  AppTypes' /\ SentTypes' /\ SendsFit' /\ NumbersFit'
<1>1. UNCHANGED <<config, sends, sent, max>> BY DEF appVars
<1>2. AppKept BY <1>1 DEF AppKept
<1>3. SendsFit' /\ NumbersFit' BY <1>2, KeptFits DEF Fit
<1>. QED BY <1>1, <1>3 DEF Fit, AppTypes, SentTypes

\* Expiries and revocations.
LEMMA OtherFits ==
    ASSUME Fit, Expire \/ (\E d \in Devices : Revoke(d) \/ RevokeAtRelay(d)) \/ UNCHANGED vars
    PROVE  Fit'
<1>1. /\ UNCHANGED <<hostVars, appVars, max, crashes, faults>>
      /\ UNCHANGED relay \/ Expire
      /\ enrolled' \subseteq enrolled /\ trusted' \subseteq trusted
      /\ expiries' \in {expiries, expiries + 1}
  BY DEF Expire, Revoke, RevokeAtRelay, vars, bounds, trust
<1>2. crashes \in Nat /\ crashes' \in Nat /\ crashes <= crashes' BY <1>1 DEF Fit, HostTypes
<1>3. RelayTypes' /\ LogFit' /\ UNCHANGED log /\ Aside BY <1>1, <1>2, ShrinkAside DEF Fit
<1>4. HostTypes' /\ HostFit' BY <1>3, AsideFits DEF Fit
<1>5. AppTypes' /\ SentTypes' /\ SendsFit' /\ NumbersFit'
  <2>1. log'[Host] = log[Host] BY <1>3
  <2>. QED BY <1>1, <2>1, AppAlone
<1>6. BoundTypes' BY <1>1 DEF Fit, BoundTypes
<1>. QED BY <1>3, <1>4, <1>5, <1>6 DEF Fit

\* The connector's steps.
LEMMA HostStepFits ==
    ASSUME Fit, HostSteps \/ HostCrash
    PROVE  Fit' /\ log'[Host] = log[Host]
<1>1. UNCHANGED <<appVars, trust, max, expiries>> /\ faults' \in {faults, faults + 1}
  BY DEF HostSteps, HostPoll, HostReject, HostHandle, HostHandlerThrows, HostRecord, HostPublish,
         HostCommit, HostAck, HostCrash, Call, bounds
<1>2. HostTypes' /\ HostFit' /\ RelayTypes' /\ LogFit' /\ log'[Host] = log[Host]
  <2>1. ASSUME UNCHANGED relay, HostTypes', HostFit'
        PROVE  HostTypes' /\ HostFit' /\ RelayTypes' /\ LogFit' /\ log'[Host] = log[Host]
    BY <2>1 DEF relay, Fit, RelayTypes, LogFit, HeldFit
  <2>2. CASE HostPoll
    <3>1. HostTypes' /\ HostFit' BY <2>2, PollFits DEF Fit, LogFit
    <3>2. UNCHANGED relay BY <2>2 DEF HostPoll
    <3>. QED BY <2>1, <3>1, <3>2
  <2>3. CASE HostReject
    <3>1. HostTypes' /\ HostFit' BY <2>3, RejectFits DEF Fit
    <3>2. UNCHANGED relay BY <2>3 DEF HostReject
    <3>. QED BY <2>1, <3>1, <3>2
  <2>4. CASE HostHandle
    <3>1. HostTypes' /\ HostFit' BY <2>4, HandleFits DEF Fit
    <3>2. UNCHANGED relay BY <2>4 DEF HostHandle
    <3>. QED BY <2>1, <3>1, <3>2
  <2>5. CASE HostHandlerThrows
    <3>1. HostTypes' /\ HostFit' BY <2>5, ThrowsFits DEF Fit
    <3>2. UNCHANGED relay BY <2>5 DEF HostHandlerThrows
    <3>. QED BY <2>1, <3>1, <3>2
  <2>6. CASE HostRecord
    <3>1. HostTypes' /\ HostFit' BY <2>6, RecordFits DEF Fit
    <3>2. UNCHANGED relay BY <2>6 DEF HostRecord
    <3>. QED BY <2>1, <3>1, <3>2
  <2>7. CASE HostPublish BY <2>7, PublishFits DEF Fit
  <2>8. CASE HostCommit
    <3>1. HostTypes' /\ HostFit' BY <2>8, CommitFits DEF Fit
    <3>2. UNCHANGED relay BY <2>8 DEF HostCommit
    <3>. QED BY <2>1, <3>1, <3>2
  <2>9. CASE HostAck BY <2>9, AckFits DEF Fit
  <2>10. CASE HostCrash
    <3>1. HostTypes' /\ HostFit' BY <2>10, CrashFits DEF Fit
    <3>2. UNCHANGED relay BY <2>10 DEF HostCrash
    <3>. QED BY <2>1, <3>1, <3>2
  <2>. QED
    BY <2>2, <2>3, <2>4, <2>5, <2>6, <2>7, <2>8, <2>9, <2>10 DEF HostSteps
<1>3. AppTypes' /\ SentTypes' /\ SendsFit' /\ NumbersFit' BY <1>1, <1>2, AppAlone
<1>4. BoundTypes' BY <1>1, BoundsStay DEF Fit
<1>. QED BY <1>2, <1>3, <1>4 DEF Fit

LEMMA StepFits == Fit /\ [Next]_vars => Fit'
<1>. SUFFICES ASSUME Fit, [Next]_vars PROVE Fit'
  OBVIOUS
<1>1. CASE HostSteps \/ HostCrash BY <1>1, HostStepFits
<1>2. CASE Expire \/ (\E d \in Devices : Revoke(d) \/ RevokeAtRelay(d)) \/ UNCHANGED vars
  BY <1>2, OtherFits
<1>3. ASSUME NEW d \in Devices, AppCrash(d) PROVE Fit' BY <1>3, AppCrashFits
<1>4. ASSUME NEW d \in Devices, NEW k \in 1..max.sends
      PROVE  /\ (\E kind \in max.kinds : AppSend(d, k, kind)) => Fit'
             /\ AppAckFirst(d, k) => Fit'
             /\ AppPublish(d, k) => Fit'
  BY SendFits, AckFirstFits, AppPublishFits
<1>5. ASSUME NEW d \in Devices, NEW k \in 1..max.sends,
             AppPoll(d, k) \/ AppAck(d, k) \/ AppGivesUp(d, k)
      PROVE  Fit'
  <2>1. k \in Slots BY BoundsOf DEF Fit
  <2>2. Onward(d, k)
    <3>1. CASE AppPoll(d, k) BY <2>1, <3>1, PollOnward DEF Fit, LogFit
    <3>2. CASE AppAck(d, k)
      <4>1. sends[d][k].got # <<>> BY <2>1, <3>2 DEF Fit, SendsFit, AppAck
      <4>. QED BY <2>1, <3>2, <4>1, AckOnward DEF Fit
    <3>3. CASE AppGivesUp(d, k) BY <2>1, <3>3, FailOnward DEF Fit, AppGivesUp
    <3>. QED BY <1>5, <3>1, <3>2, <3>3
  <2>3. /\ UNCHANGED <<hostVars, sent, trust, max, crashes, expiries>>
        /\ faults' \in {faults, faults + 1}
        /\ UNCHANGED relay \/ \E i, c : Acked(i, c)
    BY <1>5 DEF AppPoll, AppAck, AppGivesUp, Call, bounds
  <2>. QED BY <2>2, <2>3, OnwardFits
<1>. QED BY <1>1, <1>2, <1>3, <1>4, <1>5 DEF Next

----------------------------------------------------------------------------
(* Theorems.                                                               *)

LEMMA FitAlways == FairSpec => []Fit
<1>. QED BY InitFits, StepFits, PTL DEF FairSpec, Spec

\* The queues hold messages of their kind, the connector's state has its
\* shape, and the sends of the app stay within their bounds.
THEOREM TypeCorrect == FairSpec => []TypeOK
<1>1. Fit => TypeOK
  BY DEF Fit, RelayTypes, AppTypes, SentTypes, HostTypes, BoundTypes, MessageId, TypeOK
<1>. QED BY <1>1, FitAlways, PTL

LEMMA AnswersAre ==
    ASSUME NEW q
    PROVE  Answers(q) # {} <=> Answered(q)
<1>1. ASSUME Answered(q) PROVE Answers(q) # {}
  <2>1. PICK d \in Devices : \E x \in DOMAIN log[d] : log[d][x].re = q BY <1>1 DEF Answered
  <2>2. PICK x \in DOMAIN log[d] : log[d][x].re = q BY <2>1
  <2>3. log[d][x] \in Answers(q) BY <2>2 DEF Answers, Published
  <2>. QED BY <2>3
<1>2. ASSUME Answers(q) # {} PROVE Answered(q)
  BY <1>2 DEF Answers, Published, Answered
<1>. QED BY <1>1, <1>2

\* A request has one answer however often its delivery is retried, it is
\* handled again only after a crash (unless its failure is on record), and no
\* sender gives two envelopes one number (processOnce and finishPending of the
\* connector, send of the app).
THEOREM NothingRepeats == FairSpec => []NothingIsRepeated
<1>. SUFFICES Fit => NothingIsRepeated
  BY FitAlways, PTL
<1>. SUFFICES ASSUME Fit PROVE NothingIsRepeated
  OBVIOUS
<1>1. OneAnswer
  <2>1. ASSUME NEW q \in Requests PROVE Cardinality(Answers(q)) <= 1
    <3>1. \A m, n \in Answers(q) : m = n
      <4>1. ASSUME NEW m \in Answers(q), NEW n \in Answers(q) PROVE m = n
        <5>1. PICK d \in Devices : \E x \in DOMAIN log[d] : m = log[d][x] /\ m.re = q
          BY DEF Answers, Published
        <5>2. PICK e \in Devices : \E y \in DOMAIN log[e] : n = log[e][y] /\ n.re = q
          BY DEF Answers, Published
        <5>. QED BY <5>1, <5>2 DEF Fit, HostFit, AnswersFit
      <4>. QED BY <4>1
    <3>2. CASE Answers(q) = {} BY <3>2, FS_EmptySet
    <3>3. CASE Answers(q) # {}
      <4>1. PICK m : m \in Answers(q) BY <3>3
      <4>2. Answers(q) = {m} BY <3>1, <4>1
      <4>3. Cardinality({m}) = 1 BY FS_Singleton
      <4>. QED BY <4>2, <4>3
    <3>. QED BY <3>2, <3>3
  <2>2. ASSUME NEW q \in Requests
        PROVE  effects[q] <= 1 + crashes \/ (audit[q] = "failed" /\ Answers(q) = {})
    <3>1. CASE audit[q] = "failed"
      <4>1. ~Answered(q) BY <3>1 DEF Fit, HostFit, AnswersFit, Answered
      <4>. QED BY <3>1, <4>1, AnswersAre
    <3>2. CASE audit[q] # "failed"
      <4>1. effects[q] <= crashes + (IF Reached(q) THEN 1 ELSE 0)
        BY <3>2 DEF Fit, HostFit, EffectsFit
      <4>2. effects[q] \in Nat /\ crashes \in Nat BY DeliveryAssumption DEF Fit, HostTypes
      <4>. QED BY <4>1, <4>2
    <3>. QED BY <3>1, <3>2
  <2>. QED BY <2>1, <2>2 DEF OneAnswer
<1>2. SequencesAreFresh
  <2>. SUFFICES ASSUME NEW i \in Inboxes, NEW m \in Published(i), NEW n \in Published(i),
                       m.from = n.from, m.seq = n.seq
       PROVE  m.id = n.id \/ (i = Host /\ max.sends > 1)
    BY DEF SequencesAreFresh
  <2>1. PICK x \in DOMAIN log[i], y \in DOMAIN log[i] : m = log[i][x] /\ n = log[i][y]
    BY DEF Published
  <2>2. CASE i = Host
    <3>1. max.sends \in Nat BY BoundsOf, DeliveryAssumption DEF Fit
    <3>2. CASE max.sends <= 1
      <4>1. x = y BY <2>1, <2>2, <3>2 DEF Fit, NumbersFit
      <4>. QED BY <2>1, <4>1
    <3>. QED BY <2>2, <3>1, <3>2
  <2>3. CASE i \in Devices
    <3>1. m = n BY <2>1, <2>3 DEF Fit, HostFit, AnswersFit
    <3>. QED BY <3>1
  <2>. QED BY <2>2, <2>3 DEF Inboxes
<1>. QED BY <1>1, <1>2 DEF NothingIsRepeated

----------------------------------------------------------------------------
(* The promise to the devices.                                             *)

Accepted == [c \in DOMAIN log[Host] |-> log[Host][c].re]

AnsweredOnes == {q \in Requests : Answers(q) # {}}

\* What is answered, in a state and in the next.
LEMMA AnsweredOnesAre == AnsweredOnes = {q \in Requests : Answered(q)}
BY AnswersAre DEF AnsweredOnes

LEMMA AnsweredOnesNext == AnsweredOnes' = {q \in Requests : Answered(q)'}
<1>1. (AnsweredOnes = {q \in Requests : Answered(q)})' BY AnsweredOnesAre, PTL
<1>. QED BY <1>1

\* A step that neither queues nor handles nor answers nor acknowledges.
LEMMA Stutters ==
    ASSUME log'[Host] = log[Host], UNCHANGED effects, host'.cursor = host.cursor,
           \A q : Answered(q)' <=> Answered(q)
    PROVE  [Service!Next]_(Service!vars)
<1>1. Accepted' = Accepted BY DEF Accepted
<1>2. AnsweredOnes' = AnsweredOnes BY AnsweredOnesAre, AnsweredOnesNext
<1>. QED BY <1>1, <1>2 DEF Service!vars, Accepted, AnsweredOnes

\* A request that is queued is accepted.
LEMMA AcceptsStep ==
    ASSUME Fit, UNCHANGED hostVars, \A d \in Devices : log'[d] = log[d],
           \/ log'[Host] = log[Host]
           \/ \E m \in RequestMessage : log'[Host] = Append(log[Host], m)
    PROVE  [Service!Next]_(Service!vars)
<1>1. UNCHANGED <<effects, host>> BY DEF hostVars
<1>2. \A q : Answered(q)' <=> Answered(q) BY DEF Answered
<1>3. CASE log'[Host] = log[Host] BY <1>1, <1>2, <1>3, Stutters
<1>4. ASSUME NEW m \in RequestMessage, log'[Host] = Append(log[Host], m)
      PROVE  [Service!Next]_(Service!vars)
  <2>. DEFINE n == Len(log[Host])
  <2>1. /\ log[Host] \in Seq(RequestMessage) /\ n \in Nat /\ DOMAIN log[Host] = 1..n
        /\ DOMAIN log'[Host] = 1..(n + 1) /\ log'[Host][n + 1] = m
        /\ \A x \in 1..n : log'[Host][x] = log[Host][x]
    <3>1. log[Host] \in Seq(RequestMessage) BY DEF Fit, RelayTypes
    <3>. QED BY <1>4, <3>1, Appended
  <2>2. m.re \in Requests /\ \A x \in 1..n : log[Host][x].re \in Requests
    <3>1. \A x \in 1..n : log[Host][x] \in RequestMessage BY <2>1, Element
    <3>. QED BY <3>1 DEF RequestMessage
  <2>. HIDE DEF n
  <2>3. /\ Accepted = [x \in 1..n |-> log[Host][x].re]
        /\ Accepted' = [x \in 1..(n + 1) |-> log'[Host][x].re]
    BY <2>1 DEF Accepted
  <2>4. Accepted \in Seq(Requests) /\ Len(Accepted) = n
    <3>1. n \in Nat BY <2>1
    <3>2. Accepted \in [1..n -> Requests] BY <2>2, <2>3
    <3>. QED BY <3>1, <3>2
  <2>5. Accepted' = Append(Accepted, m.re)
    <3>1. /\ Append(Accepted, m.re) \in Seq(Requests)
          /\ DOMAIN Append(Accepted, m.re) = 1..(n + 1)
          /\ \A x \in 1..n : Append(Accepted, m.re)[x] = Accepted[x]
          /\ Append(Accepted, m.re)[n + 1] = m.re
      BY <2>2, <2>4, Appended
    <3>2. ASSUME NEW x \in 1..(n + 1) PROVE Accepted'[x] = Append(Accepted, m.re)[x]
      <4>1. CASE x = n + 1 BY <2>1, <2>3, <3>1, <4>1
      <4>2. CASE x \in 1..n BY <2>1, <2>3, <3>1, <4>2
      <4>3. x = n + 1 \/ x \in 1..n
        <5>1. n \in Nat BY <2>1
        <5>. QED BY <5>1
      <4>. QED BY <4>1, <4>2, <4>3
    <3>3. Accepted' \in Seq(Requests) /\ Len(Accepted') = n + 1
      <4>1. n + 1 \in Nat BY <2>1
      <4>2. \A x \in 1..(n + 1) : Accepted'[x] \in Requests
        <5>1. \A x \in 1..(n + 1) : Append(Accepted, m.re)[x] \in Requests
          BY <3>1, Element
        <5>. QED BY <3>2, <5>1
      <4>3. Accepted' \in [1..(n + 1) -> Requests] BY <2>3, <4>2
      <4>. QED BY <4>1, <4>3
    <3>4. Len(Append(Accepted, m.re)) = n + 1 BY <2>2, <2>4, Appended
    <3>. QED BY <3>1, <3>2, <3>3, <3>4, SameSequence
  <2>6. AnsweredOnes' = AnsweredOnes BY <1>2, AnsweredOnesAre, AnsweredOnesNext
  <2>7. Service!Accept BY <1>1, <2>2, <2>5, <2>6 DEF Service!Accept, Accepted, AnsweredOnes
  <2>. QED BY <2>7 DEF Service!Next
<1>. QED BY <1>3, <1>4

\* Every step but the connector's queues a request at most.
LEMMA OthersAccept ==
    ASSUME Fit, [Next]_vars, ~HostSteps, ~HostCrash
    PROVE  [Service!Next]_(Service!vars)
<1>1. CASE \E d \in Devices, k \in 1..max.sends : AppPublish(d, k)
  <2>1. PICK d \in Devices, k \in 1..max.sends : AppPublish(d, k) BY <1>1
  <2>2. PICK m : m = Request(d, sends[d][k].n, sends[d][k].kind, sends[d][k].cfg.out) OBVIOUS
  <2>3. /\ UNCHANGED hostVars /\ sends[d][k].pc = "publish"
        /\ UNCHANGED relay \/ Queued(Host, m)
    BY <2>1, <2>2 DEF AppPublish, Call
  <2>4. m \in RequestMessage BY <2>2, <2>3, RequestTyped
  <2>5. /\ Host \in Inboxes /\ Devices \subseteq Inboxes /\ Host \notin Devices
    BY DeliveryAssumption DEF Inboxes
  <2>6. UNCHANGED log \/ log' = [log EXCEPT ![Host] = Append(log[Host], m)]
    BY <2>3 DEF Queued, relay
  <2>7. /\ \A e \in Devices : log'[e] = log[e]
        /\ log'[Host] = log[Host] \/ log'[Host] = Append(log[Host], m)
    BY <2>5, <2>6 DEF Fit, RelayTypes
  <2>. QED BY <2>3, <2>4, <2>7, AcceptsStep
<1>2. CASE ~(\E d \in Devices, k \in 1..max.sends : AppPublish(d, k))
  <2>1. UNCHANGED <<hostVars, log>>
    <3>1. CASE Expire BY <3>1 DEF Expire
    <3>2. CASE UNCHANGED vars BY <3>2 DEF vars, relay
    <3>3. ASSUME NEW d \in Devices, AppCrash(d) \/ Revoke(d) \/ RevokeAtRelay(d)
          PROVE  UNCHANGED <<hostVars, log>>
      BY <3>3 DEF AppCrash, Revoke, RevokeAtRelay, relay
    <3>4. ASSUME NEW d \in Devices, NEW k \in 1..max.sends,
                 \/ \E kind \in max.kinds : AppSend(d, k, kind)
                 \/ AppAckFirst(d, k) \/ AppPoll(d, k) \/ AppAck(d, k) \/ AppGivesUp(d, k)
          PROVE  UNCHANGED <<hostVars, log>>
      BY <3>4 DEF AppSend, AppAckFirst, AppPoll, AppAck, AppGivesUp, Call, Acked, relay
    <3>. QED BY <1>2, <3>1, <3>2, <3>3, <3>4 DEF Next
  <2>2. \A d \in Devices : log'[d] = log[d] BY <2>1
  <2>. QED BY <2>1, <2>2, AcceptsStep
<1>. QED BY <1>1, <1>2

\* The request that is handled is next in line and has no answer.
LEMMA HandleServes ==
    ASSUME Fit, HostHandle
    PROVE  [Service!Next]_(Service!vars)
<1>0. PICK q : q = batch[1].msg.re OBVIOUS
<1>1. /\ UNCHANGED <<relay, host>> /\ batch # <<>> /\ host.pending = None
  BY DEF HostHandle
<1>2. UNCHANGED log BY <1>1 DEF relay
<1>3. /\ Head(batch) = batch[1] /\ q \in Requests /\ Base + 1 \in DOMAIN log[Host]
      /\ q = log[Host][Base + 1].re /\ \A c \in 1..Base : log[Host][c].re # q
  BY <1>0, <1>1, NextItem DEF Fit
<1>4. Base = host.cursor /\ Base \in Nat /\ Len(log[Host]) \in Nat
      /\ DOMAIN log[Host] = 1..Len(log[Host])
  BY <1>1, BaseType DEF Base, Fit, HostFit
<1>5. \A r : Answered(r)' <=> Answered(r) BY <1>2 DEF Answered
<1>6. effects' = [effects EXCEPT ![q] = IF effects[q] < MaxHandled THEN effects[q] + 1
                                                                    ELSE effects[q]]
  BY <1>0, <1>3 DEF HostHandle
<1>7. CASE effects[q] < MaxHandled
  <2>1. ~Answered(q)
    <3>1. \A d \in Devices : \A x \in DOMAIN log[d] :
             \E c \in 1..host.cursor : log[Host][c].re = log[d][x].re
      BY <1>1 DEF Fit, HostFit, AnswersFit, InFlight
    <3>. QED BY <1>3, <1>4, <3>1 DEF Answered
  <2>2. q \notin AnsweredOnes BY <2>1, AnsweredOnesAre
  <2>3. Accepted' = Accepted /\ AnsweredOnes' = AnsweredOnes
    BY <1>2, <1>5, AnsweredOnesAre, AnsweredOnesNext DEF Accepted
  <2>4. host.cursor < Len(Accepted) /\ Accepted[host.cursor + 1] = q
    <3>1. Accepted = [c \in 1..Len(log[Host]) |-> log[Host][c].re] BY <1>4 DEF Accepted
    <3>2. Len(Accepted) = Len(log[Host]) BY <1>4, <3>1
    <3>. QED BY <1>3, <1>4, <3>1, <3>2
  <2>5. effects' = [effects EXCEPT ![q] = effects[q] + 1] BY <1>6, <1>7
  <2>6. Service!Serve
    BY <1>1, <2>2, <2>3, <2>4, <2>5 DEF Service!Serve, Service!Next1, Accepted, AnsweredOnes
  <2>. QED BY <2>6 DEF Service!Next
<1>8. CASE ~(effects[q] < MaxHandled)
  <2>1. UNCHANGED effects BY <1>6, <1>8 DEF Fit, HostTypes
  <2>. QED BY <1>1, <1>2, <1>5, <2>1, Stutters
<1>. QED BY <1>7, <1>8

\* Where the delivery's request is in line.
LEMMA DeliveryIsNext ==
    ASSUME Fit, host.pending # None
    PROVE  /\ host.cursor \in Nat /\ host.pending.cursor = host.cursor + 1
           /\ host.cursor < Len(Accepted)
           /\ Accepted[host.cursor + 1] = host.pending.msg.re
           /\ host.pending.msg.re \in Requests /\ effects[host.pending.msg.re] > 0
<1>1. /\ Base = host.pending.cursor /\ Base \in Nat /\ Len(log[Host]) \in Nat
      /\ Base <= Len(log[Host]) /\ DOMAIN log[Host] = 1..Len(log[Host]) /\ host.cursor \in Nat
  BY BaseType DEF Base, Fit, HostFit
<1>2. /\ host.pending.cursor = host.cursor + 1
      /\ host.pending.msg.re = log[Host][host.pending.cursor].re
      /\ effects[host.pending.msg.re] > 0
  BY DEF Fit, HostFit, PendingFit
<1>3. host.pending.msg.re \in Requests BY MessagesTyped DEF Fit
<1>4. Accepted = [c \in 1..Len(log[Host]) |-> log[Host][c].re] BY <1>1 DEF Accepted
<1>5. Len(Accepted) = Len(log[Host]) BY <1>1, <1>4
<1>6. host.cursor + 1 \in 1..Len(log[Host]) BY <1>1, <1>2
<1>7. host.cursor < Len(Accepted) BY <1>1, <1>2, <1>5
<1>8. Accepted[host.cursor + 1] = host.pending.msg.re BY <1>2, <1>4, <1>6
<1>. QED BY <1>1, <1>2, <1>3, <1>7, <1>8

\* A response that is published answers it, unless it is answered.
LEMMA PublishAnswers ==
    ASSUME Fit, HostPublish
    PROVE  [Service!Next]_(Service!vars)
<1>0. PICK p : p = host.pending OBVIOUS
<1>1. /\ p # None /\ UNCHANGED effects /\ host'.cursor = host.cursor
      /\ Queued(p.dev, p.msg) \/ UNCHANGED relay
  BY <1>0, PublishedMarks DEF Fit
<1>2. log'[Host] = log[Host] BY HostStepFits DEF HostSteps
<1>3. p.dev \in Devices /\ p.dev \in Inboxes BY <1>0, <1>1, MessagesTyped DEF Fit, Inboxes
<1>4. /\ host.cursor < Len(Accepted) /\ Accepted[host.cursor + 1] = p.msg.re
      /\ p.msg.re \in Requests /\ effects[p.msg.re] > 0
  BY <1>0, <1>1, DeliveryIsNext
<1>5. CASE UNCHANGED log
  <2>1. \A q : Answered(q)' <=> Answered(q) BY <1>5 DEF Answered
  <2>. QED BY <1>1, <1>2, <2>1, Stutters
<1>6. CASE log' = [log EXCEPT ![p.dev] = Append(log[p.dev], p.msg)]
  <2>1. \A q : Answered(q)' <=> Answered(q) \/ q = p.msg.re
    <3>1. log[p.dev] \in Seq(ResponseMessage) BY <1>3 DEF Fit, RelayTypes
    <3>. DEFINE n == Len(log[p.dev])
    <3>2. /\ DOMAIN Append(log[p.dev], p.msg) = 1..(n + 1) /\ DOMAIN log[p.dev] = 1..n /\ n \in Nat
          /\ \A x \in 1..n : Append(log[p.dev], p.msg)[x] = log[p.dev][x]
          /\ Append(log[p.dev], p.msg)[n + 1] = p.msg
      BY <3>1, Appended
    <3>3. /\ \A d \in Devices \ {p.dev} : log'[d] = log[d]
          /\ log'[p.dev] = Append(log[p.dev], p.msg)
      BY <1>3, <1>6 DEF Fit, RelayTypes, Inboxes
    <3>. HIDE DEF n
    <3>4. /\ \A x \in DOMAIN log[p.dev] : x \in DOMAIN log'[p.dev] /\ log'[p.dev][x] = log[p.dev][x]
          /\ n + 1 \in DOMAIN log'[p.dev] /\ log'[p.dev][n + 1] = p.msg
          /\ \A x \in DOMAIN log'[p.dev] : x = n + 1 \/ x \in DOMAIN log[p.dev]
      BY <3>2, <3>3
    <3>5. ASSUME NEW q, Answered(q) PROVE Answered(q)'
      <4>1. PICK d \in Devices : \E x \in DOMAIN log[d] : log[d][x].re = q BY <3>5 DEF Answered
      <4>2. CASE d = p.dev BY <3>4, <4>1, <4>2 DEF Answered
      <4>3. CASE d # p.dev BY <3>3, <4>1, <4>3 DEF Answered
      <4>. QED BY <4>2, <4>3
    <3>6. Answered(p.msg.re)' = (\E d \in Devices : \E x \in DOMAIN log'[d] : log'[d][x].re = p.msg.re)
      BY DEF Answered
    <3>7. \E d \in Devices : \E x \in DOMAIN log'[d] : log'[d][x].re = p.msg.re
      BY <1>3, <3>4
    <3>8. ASSUME NEW q, Answered(q)' PROVE Answered(q) \/ q = p.msg.re
      <4>1. PICK d \in Devices : \E x \in DOMAIN log'[d] : log'[d][x].re = q
        BY <3>8 DEF Answered
      <4>2. CASE d = p.dev BY <3>4, <4>1, <4>2 DEF Answered
      <4>3. CASE d # p.dev BY <3>3, <4>1, <4>3 DEF Answered
      <4>. QED BY <4>2, <4>3
    <3>. QED BY <3>5, <3>6, <3>7, <3>8
  <2>2. Accepted' = Accepted BY <1>2 DEF Accepted
  <2>3. CASE Answered(p.msg.re)
    <3>1. \A q : Answered(q)' <=> Answered(q) BY <2>1, <2>3
    <3>. QED BY <1>1, <1>2, <3>1, Stutters
  <2>4. CASE ~Answered(p.msg.re)
    <3>1. p.msg.re \notin AnsweredOnes BY <2>4, AnsweredOnesAre
    <3>2. AnsweredOnes' = AnsweredOnes \cup {p.msg.re}
      BY <1>4, <2>1, AnsweredOnesAre, AnsweredOnesNext
    <3>3. Service!Answer
      BY <1>1, <1>4, <2>2, <3>1, <3>2 DEF Service!Answer, Service!Next1, Accepted, AnsweredOnes
    <3>. QED BY <3>3 DEF Service!Next
  <2>. QED BY <2>3, <2>4
<1>. QED BY <1>1, <1>5, <1>6 DEF Queued, relay

\* An acknowledgement finishes with a request that is answered.
LEMMA AckFinishes ==
    ASSUME Fit, HostAck
    PROVE  [Service!Next]_(Service!vars)
<1>0. PICK p : p = host.pending OBVIOUS
<1>1. /\ p # None /\ p.published /\ UNCHANGED effects
      /\ \/ host' = [host EXCEPT !.cursor = p.cursor, !.pending = None]
         \/ UNCHANGED host
  BY <1>0 DEF HostAck, Call
<1>2. UNCHANGED log BY AckFits DEF Fit
<1>3. /\ host.cursor < Len(Accepted) /\ Accepted[host.cursor + 1] = p.msg.re
      /\ p.cursor = host.cursor + 1 /\ p.msg.re \in Requests
  BY <1>0, <1>1, DeliveryIsNext
<1>4. \A q : Answered(q)' <=> Answered(q) BY <1>2 DEF Answered
<1>5. CASE UNCHANGED host BY <1>1, <1>2, <1>4, <1>5, Stutters
<1>6. CASE host' = [host EXCEPT !.cursor = p.cursor, !.pending = None]
  <2>1. host'.cursor = host.cursor + 1 BY <1>3, <1>6 DEF Fit, HostTypes
  <2>2. p.msg.re \in AnsweredOnes
    <3>1. Answered(p.msg.re) BY <1>0, <1>1 DEF Fit, HostFit, PendingFit
    <3>. QED BY <1>3, <3>1, AnsweredOnesAre
  <2>3. Accepted' = Accepted /\ AnsweredOnes' = AnsweredOnes
    BY <1>2, <1>4, AnsweredOnesAre, AnsweredOnesNext DEF Accepted
  <2>4. Service!Finish
    BY <1>1, <1>3, <2>1, <2>2, <2>3 DEF Service!Finish, Service!Next1, Accepted, AnsweredOnes
  <2>. QED BY <2>4 DEF Service!Next
<1>. QED BY <1>1, <1>5, <1>6

LEMMA StepServes == Fit /\ [Next]_vars => [Service!Next]_(Service!vars)
<1>. SUFFICES ASSUME Fit, [Next]_vars PROVE [Service!Next]_(Service!vars)
  OBVIOUS
<1>1. CASE HostHandle BY <1>1, HandleServes
<1>2. CASE HostPublish BY <1>2, PublishAnswers
<1>3. CASE HostAck BY <1>3, AckFinishes
<1>4. CASE \/ HostPoll \/ HostReject \/ HostHandlerThrows \/ HostRecord \/ HostCommit \/ HostCrash
  <2>1. UNCHANGED <<relay, effects>>
    BY <1>4 DEF HostPoll, HostReject, HostHandlerThrows, HostRecord, HostCommit, HostCrash
  <2>2. host'.cursor = host.cursor
    <3>1. \/ UNCHANGED host
          \/ \E p : host' = [host EXCEPT !.pending = p]
          \/ \E a, b, p : host' = [host EXCEPT !.in = a, !.out = b, !.pending = p]
      BY <1>4 DEF HostPoll, HostReject, HostHandlerThrows, HostRecord, HostCommit, HostCrash
    <3>. QED BY <3>1 DEF Fit, HostTypes
  <2>3. UNCHANGED log BY <2>1 DEF relay
  <2>4. \A q : Answered(q)' <=> Answered(q) BY <2>3 DEF Answered
  <2>. QED BY <2>1, <2>2, <2>3, <2>4, Stutters
<1>5. CASE ~HostSteps /\ ~HostCrash BY <1>5, OthersAccept
<1>. QED BY <1>1, <1>2, <1>3, <1>4, <1>5 DEF HostSteps

LEMMA InitServes == Init => Service!Init
<1>. SUFFICES ASSUME Init PROVE Service!Init OBVIOUS
<1>1. DOMAIN log[Host] = {} /\ \A d \in Devices : DOMAIN log[d] = {}
  <2>1. \A i \in Inboxes : log[i] = <<>> BY DEF Init
  <2>2. Host \in Inboxes /\ Devices \subseteq Inboxes BY DEF Inboxes
  <2>. QED BY <2>1, <2>2
<1>2. Accepted = <<>> BY <1>1 DEF Accepted
<1>3. AnsweredOnes = {} BY <1>1, AnsweredOnesAre DEF Answered
<1>4. host.cursor = 0 /\ effects = [q \in Requests |-> 0] BY DEF Init
<1>. QED BY <1>2, <1>3, <1>4 DEF Service!Init, Accepted, AnsweredOnes

\* The queues, the connector and its retries implement the ordered service:
\* requests are served one by one in the order they were accepted, each has its
\* effect before its one answer, and none is done without it (OrderedService).
THEOREM ImplementsOrderedService == FairSpec => ServesInOrder
<1>. QED
  BY FitAlways, InitServes, StepServes, PTL DEF FairSpec, Spec, ServesInOrder, Service!Spec
=============================================================================
