------------------------------ MODULE EventFeed ------------------------------
\* The event stream of the control plane and the two clients that follow it:
\* the macOS application, which keeps a durable cursor and serialises its
\* refreshes, and the web application, which replays from the start and lets
\* its loads overlap.  A client shows what two reads of the API returned; a
\* version of what they read is the number of the last event.
EXTENDS Naturals, Sequences, FiniteSets, SequencesExt, FiniteSetsExt

CONSTANTS
    Limit,              \* events of one replay (500 in the code)
    Overlap,            \* bound on the loads the web application has open at once
    Instances           \* what a behaviour is about: see MCAgentsAndClients

VARIABLES
    max,                \* the instance: [client, events, cuts, outages, configures]
    server,             \* [log, up, cuts, outages]: the last number; faults so far
    feed,               \* [at, pending, wire] of the client's stream
    cursor,             \* lastEventSequence, durable on the Mac
    told,               \* for the properties: the events a client was handed
    skipped,            \* for the properties: the events a replay's limit cut off
    loads,              \* loads under way: [by, reads, dead], oldest first
    wanted,             \* refreshRequested: another load when this one ends
    timer,              \* the event refresh: "idle", "sleeping", "refreshing"
    client,             \* [token, mode, kick, configures] of the Mac's settings
    shown               \* [reads, connected]: what the screen shows

vars == <<max, server, feed, cursor, told, skipped, loads, wanted, timer, client, shown>>

Mac == max.client = "mac"
Web == max.client = "web"

Closed == [at |-> "waiting", pending |-> 0, wire |-> <<>>]
Lines(events) ==
    [i \in 1..2 * Len(events) |-> [kind |-> IF i % 2 = 1 THEN "id" ELSE "data",
                                   n |-> events[(i + 1) \div 2]]]
UpTo(a, b) == [i \in 1..(IF b > a THEN b - a ELSE 0) |-> a + i]

Init ==
    /\ max \in Instances
    /\ server = [log |-> 0, up |-> TRUE, cuts |-> 0, outages |-> 0]
    /\ feed = [Closed EXCEPT !.at = IF max.client = "web" THEN "probing" ELSE "waiting"]
    /\ cursor = 0 /\ told = {} /\ skipped = {}
    /\ loads = <<>> /\ wanted = FALSE /\ timer = "idle"
    /\ client = [token |-> TRUE, mode |-> "local", kick |-> FALSE, configures |-> 0]
    /\ shown = [reads |-> <<0, 0>>, connected |-> FALSE]

-----------------------------------------------------------------------------
\* The server.

\* appendEvent: an event is stored, then written to the open stream.
AppendEvent ==
    /\ server.up /\ server.log < max.events
    /\ server' = [server EXCEPT !.log = @ + 1]
    /\ feed' = IF feed.at = "open" THEN [feed EXCEPT !.wire = @ \o Lines(<<server.log + 1>>)] ELSE feed
    /\ UNCHANGED <<max, cursor, told, skipped, loads, wanted, timer, client, shown>>

\* GET /v1/events/stream: the first events after the client's number, at most
\* the limit, then what is emitted from here on.  Both in one step.
Replay(after) == UpTo(after, Min({server.log, after + Limit}))

Subscribe(after) ==
    /\ feed' = [at |-> "open", pending |-> 0, wire |-> Lines(Replay(after))]
    /\ skipped' = skipped \union (after + Limit + 1)..server.log

\* The control plane stops and comes back; every connection of it ends.
Dropped ==
    /\ feed' = IF feed.at = "open" THEN Closed ELSE feed
    /\ shown' = IF Mac /\ feed.at = "open" THEN [shown EXCEPT !.connected = FALSE] ELSE shown

GoDown ==
    /\ server.up /\ server.outages < max.outages
    /\ server' = [server EXCEPT !.up = FALSE, !.outages = @ + 1]
    /\ Dropped
    /\ UNCHANGED <<max, cursor, told, skipped, loads, wanted, timer, client>>

ComeBack ==
    /\ ~server.up
    /\ server' = [server EXCEPT !.up = TRUE]
    /\ UNCHANGED <<max, feed, cursor, told, skipped, loads, wanted, timer, client, shown>>

\* A stream is cut, between two lines of an event or elsewhere.
CutStream ==
    /\ feed.at = "open" /\ server.cuts < max.cuts
    /\ server' = [server EXCEPT !.cuts = @ + 1]
    /\ Dropped
    /\ UNCHANGED <<max, cursor, told, skipped, loads, wanted, timer, client>>

-----------------------------------------------------------------------------
\* The stream, client side.

\* startEventStream's loop: a connection from the durable number, or an error.
ConnectMac ==
    /\ Mac /\ feed.at = "waiting"
    /\ IF server.up THEN Subscribe(cursor) /\ UNCHANGED shown
       ELSE shown' = [shown EXCEPT !.connected = FALSE] /\ UNCHANGED <<feed, skipped>>
    /\ UNCHANGED <<max, server, cursor, told, loads, wanted, timer, client>>

\* The web application opens its stream once, if the control plane is healthy
\* when it is mounted; EventSource reconnects by itself, always from 0.
ProbeWeb ==
    /\ Web /\ feed.at = "probing"
    /\ feed' = [feed EXCEPT !.at = IF server.up THEN "waiting" ELSE "none"]
    /\ shown' = IF server.up THEN shown ELSE [shown EXCEPT !.connected = FALSE]
    /\ UNCHANGED <<max, server, cursor, told, skipped, loads, wanted, timer, client>>

ConnectWeb ==
    /\ Web /\ feed.at = "waiting" /\ server.up
    /\ Subscribe(0)
    /\ UNCHANGED <<max, server, cursor, told, loads, wanted, timer, client, shown>>

\* Mutant: the number is saved as soon as it is read.
ConsumeEarly(line) ==
    /\ feed' = [feed EXCEPT !.wire = Tail(@), !.pending = IF line.kind = "id" THEN line.n ELSE @]
    /\ cursor' = IF Mac /\ line.kind = "id" THEN Max({cursor, line.n}) ELSE cursor
    /\ told' = IF line.kind = "data" THEN told \union {line.n} ELSE told

\* SSEEventCursor.consume: the number of an id line counts when its data comes.
Consume(line) ==
    /\ feed' = [feed EXCEPT !.wire = Tail(@), !.pending = IF line.kind = "id" THEN line.n ELSE @]
    /\ cursor' = IF Mac /\ line.kind = "data" THEN Max({cursor, feed.pending}) ELSE cursor
    /\ told' = IF line.kind = "data" THEN told \union {line.n} ELSE told

\* An event asks for a refresh a little later, unless one is already asked for
\* (on the Mac, even while that one is reading).
Scheduled == IF timer = "idle" THEN "sleeping" ELSE timer

ReadLine ==
    /\ feed.at = "open" /\ feed.wire # <<>>
    /\ Consume(Head(feed.wire))
    /\ timer' = IF Head(feed.wire).kind = "data" THEN Scheduled ELSE timer
    /\ UNCHANGED <<max, server, skipped, loads, wanted, client, shown>>

-----------------------------------------------------------------------------
\* The loads.

Load(by) == [by |-> by, reads |-> <<>>, dead |-> FALSE]

\* refresh() on the Mac: one load at a time, another one asked for meanwhile.
\* On the web: another load.
Refresh(by) ==
    IF Mac /\ loads # <<>>
    THEN wanted' = TRUE /\ UNCHANGED loads
    ELSE loads' = Append(loads, Load(by)) /\ UNCHANGED wanted

MayLoad == Mac \/ Len(loads) < Overlap

\* The poll: the Mac's waits for its own load, the web's does not.  It comes
\* rarely enough for a load of a cancelled task to have failed.
Poll ==
    /\ MayLoad /\ \A i \in 1..Len(loads) : ~loads[i].dead
    /\ Mac => \A i \in 1..Len(loads) : loads[i].by # "poll"
    /\ Refresh("poll")
    /\ UNCHANGED <<max, server, feed, cursor, told, skipped, timer, client, shown>>

\* The event refresh's time has come.
EventRefresh ==
    /\ timer = "sleeping" /\ MayLoad
    /\ timer' = IF Mac /\ loads = <<>> THEN "refreshing" ELSE "idle"
    /\ Refresh("event")
    /\ UNCHANGED <<max, server, feed, cursor, told, skipped, client, shown>>

\* The refresh a change of settings asks for.
Kick ==
    /\ client.kick
    /\ client' = [client EXCEPT !.kick = FALSE]
    /\ Refresh("kick")
    /\ UNCHANGED <<max, server, feed, cursor, told, skipped, timer, shown>>

Works(l) == server.up /\ client.token /\ ~l.dead

\* refreshOnce, loadLive: one read after another.
Read(i) ==
    /\ Works(loads[i]) /\ Len(loads[i].reads) < 2
    /\ loads' = [loads EXCEPT ![i].reads = Append(@, server.log)]
    /\ UNCHANGED <<max, server, feed, cursor, told, skipped, wanted, timer, client, shown>>

\* Mutant: a load that fails does not leave the loop.
EndsUnlessFailed(i) ==
    IF Len(loads[i].reads) < 2
    THEN loads' = [loads EXCEPT ![i].dead = TRUE] /\ UNCHANGED <<wanted, timer>>
    ELSE /\ loads' = RemoveAt(loads, i)
         /\ timer' = IF Mac /\ loads[i].by = "event" /\ ~loads[i].dead THEN "idle" ELSE timer
         /\ UNCHANGED wanted

\* A load ends; on the Mac the same task starts the one asked for meanwhile.
Ends(i) ==
    IF wanted
    THEN /\ loads' = [loads EXCEPT ![i].reads = <<>>]
         /\ wanted' = FALSE
         /\ UNCHANGED timer
    ELSE /\ loads' = RemoveAt(loads, i)
         /\ timer' = IF Mac /\ loads[i].by = "event" THEN "idle" ELSE timer
         /\ UNCHANGED wanted

\* What a load has read is shown in one piece.
Show(reads) == shown' = [reads |-> reads, connected |-> TRUE]

\* The last read is there.
Land(i) ==
    /\ Len(loads[i].reads) = 2
    /\ Show(loads[i].reads)
    /\ Ends(i)
    /\ UNCHANGED <<max, server, feed, cursor, told, skipped, client>>

\* A read fails: the control plane is down, the token gone, the task cancelled.
Fail(i) ==
    /\ ~Works(loads[i]) /\ Len(loads[i].reads) < 2
    /\ shown' = [shown EXCEPT !.connected = FALSE]
    /\ Ends(i)
    /\ UNCHANGED <<max, server, feed, cursor, told, skipped, client>>

-----------------------------------------------------------------------------
\* The Mac's settings.  Each cancels the stream and the event refresh, whose
\* load under way then fails.
Cancelled == [i \in 1..Len(loads) |-> [loads[i] EXCEPT !.dead = @ \/ loads[i].by = "event"]]

Settings(c) ==
    /\ Mac /\ client.configures < max.configures
    /\ client' = [c EXCEPT !.configures = @ + 1]
    /\ feed' = [Closed EXCEPT !.at = IF c.token /\ c.mode = "local" THEN "waiting" ELSE "none"]
    /\ timer' = "idle"
    /\ loads' = Cancelled
    /\ UNCHANGED <<max, server, told, skipped, wanted>>

\* configure: the same endpoint, or another one, whose events are read anew.
Configure ==
    /\ Settings([client EXCEPT !.token = TRUE, !.kick = TRUE])
    /\ cursor' \in {cursor, 0}
    /\ UNCHANGED shown

\* setConnectionMode: through the relay there is no stream.
SetConnectionMode ==
    /\ \E mode \in {"local", "remote"} : Settings([client EXCEPT !.mode = mode, !.kick = TRUE])
    /\ UNCHANGED <<cursor, shown>>

ClearCredentials ==
    /\ Settings([client EXCEPT !.token = FALSE])
    /\ shown' = [shown EXCEPT !.connected = FALSE]
    /\ UNCHANGED cursor

\* The application is started again: only the number and the settings are kept.
Relaunch ==
    /\ Mac /\ client.configures < max.configures
    /\ client' = [client EXCEPT !.kick = FALSE, !.configures = @ + 1]
    /\ feed' = [Closed EXCEPT !.at = IF client.token /\ client.mode = "local" THEN "waiting" ELSE "none"]
    /\ loads' = <<>> /\ wanted' = FALSE /\ timer' = "idle"
    /\ shown' = [reads |-> <<0, 0>>, connected |-> FALSE]
    /\ UNCHANGED <<max, server, cursor, told, skipped>>

Reads == \E i \in 1..Len(loads) : Read(i)
Lands == \E i \in 1..Len(loads) : Land(i)
Fails == \E i \in 1..Len(loads) : Fail(i)

Answered(i) == i \in 1..Len(loads) /\ (Read(i) \/ Land(i))

Next ==
    \/ AppendEvent \/ GoDown \/ ComeBack \/ CutStream
    \/ ConnectMac \/ ProbeWeb \/ ConnectWeb \/ ReadLine
    \/ Poll \/ EventRefresh \/ Kick \/ Reads \/ Lands \/ Fails
    \/ Configure \/ SetConnectionMode \/ ClearCredentials \/ Relaunch

\* The control plane is restarted; the timers fire; requests are answered.
Fairness ==
    /\ WF_vars(ComeBack) /\ WF_vars(Poll) /\ WF_vars(Kick)
    /\ WF_vars(Fails)
    /\ \A i \in 1..Overlap : WF_vars(Answered(i))

Spec == Init /\ [][Next]_vars /\ Fairness

-----------------------------------------------------------------------------
\* The Mac's durable number never passes an event it was not handed, whatever
\* the stream loses and whenever the application is started again; except one
\* the replay's limit cut off, which it never sees once the number passes it.
FeedSkipsNothing == Mac => (1..cursor) \ told \subseteq skipped

\* Once events, faults and settings come to rest the screen shows the latest
\* state and says that it is connected, although loads overtake each other (on
\* the web), are cancelled or fail, and an event may start none; as long as the
\* client has a token.
CaughtUp == client.token => shown = [reads |-> <<server.log, server.log>>, connected |-> TRUE]
ScreensCatchUp == <>[]CaughtUp

=============================================================================
