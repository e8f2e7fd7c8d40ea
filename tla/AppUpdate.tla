----------------------------- MODULE AppUpdate -----------------------------
(***************************************************************************)
(* Updates of the macOS application: a release is signed and published     *)
(* (createSignedMacOSUpdate), an update command downloads and verifies it  *)
(* (downloadVerifiedMacOSUpdate, check-bundle) and the installer replaces  *)
(* the application with two renames, keeping the one it replaces; a        *)
(* rollback activates a kept copy.  Commands may fail at any point, be     *)
(* killed, or overlap.                                                     *)
(***************************************************************************)
EXTENDS Integers, FiniteSets

CONSTANTS
    Commands,   \* commands an operator may run
    Apps,       \* application bundles: [id, version, build, minimum, team], a version
                \* three numbers, a minimum macOS two, a team "none" when signed ad hoc
    System,     \* the version of macOS, two numbers
    Team,       \* the pinned Apple team
    Instances   \* the bounds TLC explores together, one record per instance:
                \*   commands: which may run at the same time; first: the application
                \*   installed; runs, kills, releases: how many at most

\* No application.
None == [id |-> 0, version |-> <<0, 0, 0>>, build |-> 0, minimum |-> <<0, 0>>, team |-> "none"]

VARIABLES
    max,        \* the instance's bounds
    feed,       \* the manifests the channel may serve: a cache may be behind
    dest,       \* the installed application [app, sealed], app None when absent
    copies,     \* the copies kept beside it: [kind, pid, app, sealed]
    command,    \* the commands
    last,       \* the last activation: its kind, what it replaced, what it put there
    once,       \* the applications installed so far
    runs, kills

vars == <<max, feed, dest, copies, command, last, once, runs, kills>>

Keys == {"operator", "other"}
Idle == [pc |-> "idle", kind |-> "update", seen |-> None, manifest |-> <<>>,
         app |-> None, moved |-> {}, pid |-> 0]

Init ==
    /\ max \in Instances
    /\ feed = {}
    /\ dest = [app |-> max.first, sealed |-> TRUE] /\ copies = {} /\ once = {max.first}
    /\ command = [c \in Commands |-> Idle]
    /\ last = [kind |-> "install", from |-> None, to |-> max.first]
    /\ runs = 0 /\ kills = 0

----------------------------------------------------------------------------
(* Releases.                                                               *)

\* Numeric order of versions: the first component that differs decides.
Older(v, w) == \E i \in DOMAIN v : v[i] < w[i] /\ \A j \in 1..(i - 1) : v[j] = w[j]

\* A release application: the pinned team, its notarization stapled.
Public(a) == a.team = Team

Sign(a, archive, key) ==
    [key |-> key, version |-> a.version, build |-> a.build, minimum |-> a.minimum,
     team |-> Team, archive |-> archive]

\* The signature is the trust anchor's.
Verified(m) == m.key = "operator"

\* A release is signed: the application and the one in the archive are public
\* and agree; the signature is verified before the manifest is written.
Create(a, archive, key) ==
    /\ Cardinality(feed) < max.releases
    /\ Public(a) /\ Public(archive)
    /\ <<archive.version, archive.build, archive.minimum>> = <<a.version, a.build, a.minimum>>
    /\ Verified(Sign(a, archive, key))
    /\ feed' = feed \union {Sign(a, archive, key)}
    /\ UNCHANGED <<max, dest, copies, command, last, once, runs, kills>>

\* The channel holds a manifest of another key.
Foreign(a) ==
    /\ Cardinality(feed) < max.releases
    /\ feed' = feed \union {Sign(a, a, "other")}
    /\ UNCHANGED <<max, dest, copies, command, last, once, runs, kills>>

\* Mutant: an equal build is an upgrade.
ReplayIsUpgrade(installed, m) == ~Older(m.version, installed.version) /\ m.build >= installed.build

\* The manifest is newer than what is installed: never a lower version, always
\* a higher build.
IsUpgrade(installed, m) == ~Older(m.version, installed.version) /\ m.build > installed.build

MeetsMinimum(m) == ~Older(System, m.minimum)

----------------------------------------------------------------------------
(* Downloading.                                                            *)

Set(c, me) == command' = [command EXCEPT ![c] = me]
Ended == {"idle", "done", "failed"}
Mayrun(c) == c \in max.commands /\ command[c].pc \in Ended /\ runs < max.runs /\ runs' = runs + 1

\* The update command starts from an installed release and reads its version.
Start(c) ==
    /\ Mayrun(c)
    /\ Public(dest.app) /\ dest.sealed
    /\ Set(c, [Idle EXCEPT !.pc = "manifest", !.pid = runs', !.seen = dest.app])
    /\ UNCHANGED <<max, feed, dest, copies, last, once, kills>>

\* What is downloaded is signed and newer.
Accepts(installed, m) == Verified(m) /\ IsUpgrade(installed, m)

\* The manifest is downloaded, without a redirect and within its size.
FetchManifest(c) ==
    /\ command[c].pc = "manifest"
    /\ \E m \in feed :
          Set(c, IF Accepts(command[c].seen, m)
                 THEN [command[c] EXCEPT !.pc = "archive", !.manifest = m]
                 ELSE [command[c] EXCEPT !.pc = "failed"])
    /\ UNCHANGED <<max, feed, dest, copies, last, once, runs, kills>>

\* The archive has the size and checksum of the manifest.
IsArchive(m, bytes) == bytes = m.archive

\* The archive is downloaded and written beside the verified manifest.
FetchArchive(c) ==
    /\ command[c].pc = "archive"
    /\ \E bytes \in Apps \union {None} :
          Set(c, IF IsArchive(command[c].manifest, bytes)
                 THEN [command[c] EXCEPT !.pc = "check", !.app = bytes]
                 ELSE [command[c] EXCEPT !.pc = "failed"])
    /\ UNCHANGED <<max, feed, dest, copies, last, once, runs, kills>>

\* The extracted application is what the manifest says, and runs here.
CheckBundle(c) ==
    LET m == command[c].manifest  a == command[c].app IN
    /\ command[c].pc = "check"
    /\ Set(c, IF /\ Public(a) /\ MeetsMinimum(m)
                 /\ <<a.version, a.build, a.minimum, a.team>>
                        = <<m.version, m.build, m.minimum, m.team>>
              THEN [command[c] EXCEPT !.pc = "stage"]
              ELSE [command[c] EXCEPT !.pc = "failed"])
    /\ UNCHANGED <<max, feed, dest, copies, last, once, runs, kills>>

----------------------------------------------------------------------------
(* Installing.                                                             *)

\* The installer is run by hand with any application.
StartInstall(c) ==
    /\ Mayrun(c)
    /\ \E a \in Apps : Set(c, [Idle EXCEPT !.pc = "stage", !.pid = runs', !.kind = "install",
                                             !.app = a])
    /\ UNCHANGED <<max, feed, dest, copies, last, once, kills>>

\* The rollback is run with an installer's backup: an ad hoc one never replaces
\* a release, a release is one of the pinned team.
StartRollback(c) ==
    /\ Mayrun(c)
    /\ \E b \in copies :
          /\ b.kind = "backup" /\ b.sealed
          /\ dest.app # None /\ dest.sealed
          /\ IF b.app.team = "none" THEN dest.app.team = "none" ELSE Public(b.app)
          /\ Set(c, [Idle EXCEPT !.pc = "stage", !.pid = runs', !.kind = "rollback",
                                  !.app = b.app])
    /\ UNCHANGED <<max, feed, dest, copies, last, once, kills>>

\* The application is copied beside the destination and verified again.
Stage(c) ==
    /\ command[c].pc = "stage"
    /\ Set(c, [command[c] EXCEPT !.pc = "keep"])
    /\ UNCHANGED <<max, feed, dest, copies, last, once, runs, kills>>

\* The copy's name has the kind and the process of the command.
Copied(c) == [kind |-> IF command[c].kind = "rollback" THEN "failed" ELSE "backup",
              pid |-> command[c].pid, app |-> dest.app, sealed |-> dest.sealed]

\* The installed application is renamed; the installer goes on without one, the
\* rollback fails.
Keep(c) ==
    /\ command[c].pc = "keep"
    /\ IF dest.app # None
       THEN /\ copies' = copies \union {Copied(c)}
            /\ dest' = [app |-> None, sealed |-> TRUE]
            /\ Set(c, [command[c] EXCEPT !.pc = "activate", !.moved = {Copied(c)},
                                            !.seen = dest.app])
       ELSE /\ UNCHANGED <<dest, copies>>
            /\ Set(c, [command[c] EXCEPT
                          !.pc = IF command[c].kind = "rollback" THEN "failed" ELSE "activate",
                          !.seen = None])
    /\ UNCHANGED <<max, feed, last, once, runs, kills>>

\* The staged application is renamed to the destination: into it, when another
\* command has put one there.
Activate(c) ==
    LET me == command[c] IN
    /\ me.pc = "activate"
    /\ IF dest.app = None
       THEN /\ dest' = [app |-> me.app, sealed |-> TRUE]
            /\ last' = [kind |-> me.kind, from |-> me.seen, to |-> me.app]
            /\ once' = once \union {me.app}
       ELSE dest' = [dest EXCEPT !.sealed = FALSE] /\ UNCHANGED <<last, once>>
    /\ Set(c, [me EXCEPT !.pc = "done"])
    /\ UNCHANGED <<max, feed, copies, runs, kills>>

\* The trap of a command that ends without having installed: what it renamed
\* is put back unless something is there.
Cleanup(c) ==
    IF command[c].moved # {} /\ dest.app = None
    THEN /\ \E b \in command[c].moved : dest' = [app |-> b.app, sealed |-> b.sealed]
         /\ copies' = copies \ command[c].moved
    ELSE UNCHANGED <<dest, copies>>

\* A command fails: a request, a check, a full disk, an interrupt.
Fail(c) ==
    /\ command[c].pc \notin Ended
    /\ Cleanup(c)
    /\ Set(c, [command[c] EXCEPT !.pc = "failed"])
    /\ UNCHANGED <<max, feed, last, once, runs, kills>>

\* A command is killed, or the machine stops.
Kill(c) ==
    /\ command[c].pc \notin Ended /\ kills < max.kills /\ kills' = kills + 1
    /\ Set(c, [command[c] EXCEPT !.pc = "failed"])
    /\ UNCHANGED <<max, feed, dest, copies, last, once, runs>>

Next ==
    \/ \E a, b \in Apps, k \in Keys : Create(a, b, k)
    \/ \E a \in Apps : Foreign(a)
    \/ \E c \in Commands :
          \/ Start(c) \/ FetchManifest(c) \/ FetchArchive(c) \/ CheckBundle(c)
          \/ StartInstall(c) \/ StartRollback(c) \/ Stage(c) \/ Keep(c) \/ Activate(c)
          \/ Fail(c) \/ Kill(c)

Spec == Init /\ [][Next]_vars

----------------------------------------------------------------------------
(* Properties.                                                             *)

Alone == Cardinality(max.commands) = 1

\* An update puts a release of the pinned team that runs on this macOS in the
\* place of an older build and never of a newer version, whatever the channel
\* serves and whenever it changes.  Commands that overlap are excepted: the
\* second compared its manifest with what the first has replaced since
\* (update-macos-app.sh:66, install-macos-app.sh:67).
UpdatesGoForward ==
    last.kind = "update" =>
        /\ Public(last.to) /\ ~Older(System, last.to.minimum)
        /\ Alone /\ last.from # None =>
               last.to.build > last.from.build /\ ~Older(last.to.version, last.from.version)

\* Every replaced application is kept beside the new one, overlap or not; and a
\* command that runs alone and is not killed leaves an application that starts.
InstallationIsKept ==
    /\ once \subseteq {dest.app} \union {b.app : b \in copies}
    /\ Alone /\ kills = 0 /\ (\A c \in Commands : command[c].pc # "activate") =>
           dest.app # None /\ dest.sealed

\* The two together.
UpdatesAreSafe == UpdatesGoForward /\ InstallationIsKept
=============================================================================
