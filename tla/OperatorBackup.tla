--------------------------- MODULE OperatorBackup ---------------------------
(***************************************************************************)
(* The certified backup of the operator's machine: avity backup create,    *)
(* verify and restore copy two stores, the control plane's database and    *)
(* the credential vault, while the control plane runs, the vault's master  *)
(* key rotates and a worker's bearer rotates through both stores.  A       *)
(* bundle is certified before one rename publishes it; media may be        *)
(* altered or replaced afterwards, also while a restore is reading it.     *)
(***************************************************************************)
EXTENDS Naturals

CONSTANTS
    Tools,      \* backup commands that may run at the same time
    Places,     \* bundle destinations
    Homes,      \* restore destinations
    Instances   \* the bounds TLC explores together, one record per instance:
                \*   tools: the commands; keys, bearers, bundles: the master keys,
                \*   the bearers and the bundles there may be;
                \*   hurt: bundles altered or removed on their media, at most

None == [nothing |-> TRUE]

VARIABLES
    max,        \* the instance's bounds
    database,   \* [accepts]: the bearers the worker's row accepts
    vault,      \* [key, bearer]: the master key's id and the stored bearer
    bundle,     \* per place: the published bundle, or None
    home,       \* per restore destination: what was restored there, or None
    tool,       \* the commands; a record holds its staging directory
    drawn,      \* [bearers, bundles, hurt]: drawn so far
    certified   \* history: the bundles as they were published

vars == <<max, database, vault, bundle, home, tool, drawn, certified>>

Idle == [pc |-> "idle", place |-> None, home |-> None, key |-> 0, db |-> None,
         vault |-> None, manifest |-> None, crossed |-> FALSE]

Init ==
    /\ max \in Instances
    /\ database = [accepts |-> {1}]
    /\ vault = [key |-> 1, bearer |-> 1]
    /\ bundle = [p \in Places |-> None]
    /\ home = [h \in Homes |-> None]
    /\ tool = [t \in Tools |-> Idle]
    /\ drawn = [bearers |-> 1, bundles |-> 0, hurt |-> 0]
    /\ certified = {}

----------------------------------------------------------------------------
(* The machine the commands run on.                                        *)

\* A file that no longer parses, hashes or decrypts; no good content equals it.
Damaged == [damaged |-> TRUE]

\* Rewriting the vault while a command is between its two copies.
Crossing == [t \in Tools |-> IF tool[t].pc = "copyVault"
                             THEN [tool[t] EXCEPT !.crossed = TRUE] ELSE tool[t]]

\* A worker's bearer rotation: prepared in the database, stored in the vault,
\* committed in the database once the worker authenticated with it.
PrepareBearer ==
    /\ database.accepts = {vault.bearer} /\ drawn.bearers < max.bearers
    /\ database' = [accepts |-> {vault.bearer, drawn.bearers + 1}]
    /\ drawn' = [drawn EXCEPT !.bearers = @ + 1]
    /\ UNCHANGED <<max, vault, bundle, home, tool, certified>>

StoreBearer ==
    \E b \in database.accepts \ {vault.bearer} :
        /\ vault' = [vault EXCEPT !.bearer = b]
        /\ tool' = Crossing
        /\ UNCHANGED <<max, database, bundle, home, drawn, certified>>

\* The commit forgets the previous bearer; an abort, before the new one was
\* stored or after the vault was put back, forgets the new one.
SettleBearer ==
    /\ database.accepts # {vault.bearer}
    /\ database' = [accepts |-> {vault.bearer}]
    /\ UNCHANGED <<max, vault, bundle, home, tool, drawn, certified>>

\* The vault is re-encrypted under the next master key.
RotateKey ==
    /\ vault.key < max.keys
    /\ vault' = [vault EXCEPT !.key = @ + 1]
    /\ UNCHANGED <<max, database, bundle, home, tool, drawn, certified>>

\* The media lose a file's content, or the operator removes a bundle.
Alter(p) ==
    /\ bundle[p] # None /\ drawn.hurt < max.hurt
    /\ drawn' = [drawn EXCEPT !.hurt = @ + 1]
    /\ bundle' \in {[bundle EXCEPT ![p].db = Damaged], [bundle EXCEPT ![p].vault = Damaged],
                    [bundle EXCEPT ![p].manifest = Damaged], [bundle EXCEPT ![p] = None]}
    /\ UNCHANGED <<max, database, vault, home, tool, certified>>

----------------------------------------------------------------------------
(* avity backup create                                                     *)

\* The database opens and is intact: its foreign keys, its audit chain.
Inspected(db) == db # Damaged

\* The manifest describes exactly these two files (hashes stand for contents)
\* and the recovery file with master key k opens the vault.
Verified(db, v, m, k) ==
    /\ m # Damaged
    /\ db = m.db /\ v = m.vault
    /\ Inspected(db)
    /\ v.key = k /\ m.key = k

Fail(t) == tool' = [tool EXCEPT ![t] = Idle]

\* The recovery file, holding key k, must open the live vault; nothing may be
\* at the destination yet.
BeginCreate(t, p) ==
    /\ t \in max.tools /\ tool[t].pc = "idle" /\ drawn.bundles < max.bundles
    /\ bundle[p] = None
    /\ tool' = [tool EXCEPT ![t] = [Idle EXCEPT !.pc = "copyDatabase", !.place = p, !.key = vault.key]]
    /\ UNCHANGED <<max, database, vault, bundle, home, drawn, certified>>

\* VACUUM INTO: one consistent snapshot of the database.
CopyDatabase(t) ==
    /\ tool[t].pc = "copyDatabase"
    /\ tool' = [tool EXCEPT ![t].db = database, ![t].pc = "copyVault"]
    /\ UNCHANGED <<max, database, vault, bundle, home, drawn, certified>>

CopyVault(t) ==
    /\ tool[t].pc = "copyVault"
    /\ tool' = [tool EXCEPT ![t].vault = vault, ![t].pc = "certify"]
    /\ UNCHANGED <<max, database, vault, bundle, home, drawn, certified>>

Manifest(t) == [id |-> drawn.bundles + 1, db |-> tool[t].db, vault |-> tool[t].vault,
                key |-> tool[t].key]

\* The snapshot must still open with the recovery key; the manifest is written
\* and the staged files are verified against it.
Certify(t) ==
    /\ tool[t].pc = "certify"
    /\ IF tool[t].vault.key # tool[t].key THEN Fail(t) /\ UNCHANGED drawn
       ELSE /\ drawn' = [drawn EXCEPT !.bundles = @ + 1]
            /\ tool' = [tool EXCEPT ![t].manifest = Manifest(t), ![t].pc = "publish"]
    /\ UNCHANGED <<max, database, vault, bundle, home, certified>>

Bundle(t) == [db |-> tool[t].db, vault |-> tool[t].vault, manifest |-> tool[t].manifest,
              crossed |-> tool[t].crossed]

\* One rename publishes the bundle; it fails over a bundle that appeared.
Publish(t) ==
    /\ tool[t].pc = "publish" /\ Fail(t)
    /\ LET free == bundle[tool[t].place] = None
       IN  /\ bundle' = IF free THEN [bundle EXCEPT ![tool[t].place] = Bundle(t)] ELSE bundle
           /\ certified' = IF free THEN certified \union {Bundle(t)} ELSE certified
    /\ UNCHANGED <<max, database, vault, home, drawn>>

----------------------------------------------------------------------------
(* avity backup restore: verify, copy, verify again, one rename.           *)

BeginRestore(t, p, h, k) ==
    /\ t \in max.tools /\ tool[t].pc = "idle"
    /\ bundle[p] # None /\ home[h] = None
    /\ Verified(bundle[p].db, bundle[p].vault, bundle[p].manifest, k)
    /\ tool' = [tool EXCEPT ![t] = [Idle EXCEPT !.pc = "readDatabase", !.place = p, !.home = h,
                                                !.key = k, !.manifest = bundle[p].manifest]]
    /\ UNCHANGED <<max, database, vault, bundle, home, drawn, certified>>

\* A bundle removed meanwhile fails the copy.
ReadDatabase(t) ==
    /\ tool[t].pc = "readDatabase"
    /\ IF bundle[tool[t].place] = None THEN Fail(t)
       ELSE tool' = [tool EXCEPT ![t].db = bundle[tool[t].place].db, ![t].pc = "readVault"]
    /\ UNCHANGED <<max, database, vault, bundle, home, drawn, certified>>

ReadVault(t) ==
    /\ tool[t].pc = "readVault"
    /\ IF bundle[tool[t].place] = None THEN Fail(t)
       ELSE tool' = [tool EXCEPT ![t].vault = bundle[tool[t].place].vault, ![t].pc = "recertify"]
    /\ UNCHANGED <<max, database, vault, bundle, home, drawn, certified>>

\* Mutant: what was verified before the copy is taken as verified.
RecertifyTrusts(t) ==
    /\ tool[t].pc = "recertify"
    /\ tool' = [tool EXCEPT ![t].pc = "install"]
    /\ UNCHANGED <<max, database, vault, bundle, home, drawn, certified>>

\* The restored bytes are verified against the manifest that was confirmed.
Recertify(t) ==
    /\ tool[t].pc = "recertify"
    /\ IF Verified(tool[t].db, tool[t].vault, tool[t].manifest, tool[t].key)
       THEN tool' = [tool EXCEPT ![t].pc = "install"]
       ELSE Fail(t)
    /\ UNCHANGED <<max, database, vault, bundle, home, drawn, certified>>

Install(t) ==
    /\ tool[t].pc = "install" /\ Fail(t)
    /\ home' = IF home[tool[t].home] # None THEN home
               ELSE [home EXCEPT ![tool[t].home] =
                        [db |-> tool[t].db, vault |-> tool[t].vault, manifest |-> tool[t].manifest]]
    /\ UNCHANGED <<max, database, vault, bundle, drawn, certified>>

\* A command killed in the middle leaves its hidden staging directory behind.
Crash(t) ==
    /\ tool[t].pc # "idle" /\ Fail(t)
    /\ UNCHANGED <<max, database, vault, bundle, home, drawn, certified>>

Next ==
    \/ PrepareBearer \/ StoreBearer \/ SettleBearer \/ RotateKey
    \/ \E p \in Places : Alter(p)
    \/ \E t \in Tools :
        \/ \E p \in Places : BeginCreate(t, p)
        \/ CopyDatabase(t) \/ CopyVault(t) \/ Certify(t) \/ Publish(t)
        \/ \E p \in Places, h \in Homes, k \in 1..max.keys : BeginRestore(t, p, h, k)
        \/ ReadDatabase(t) \/ ReadVault(t) \/ Recertify(t) \/ Install(t)
        \/ Crash(t)

Spec == Init /\ [][Next]_vars

----------------------------------------------------------------------------
(* Properties                                                              *)

\* What a restore put in place is, byte for byte, the bundle that was certified
\* under the confirmed id, whatever happened to the media between the first
\* verification and the copy, and a fresh machine opens it with one key; the worker
\* that starts from its vault is accepted by its database, unless the vault was
\* rewritten between the two copies.
RestoredIsCertified ==
    \A h \in Homes : home[h] # None =>
        \E b \in certified :
            /\ b.manifest = home[h].manifest /\ b.db = home[h].db /\ b.vault = home[h].vault
            /\ Verified(b.db, b.vault, b.manifest, b.vault.key)
            /\ b.vault.bearer \in b.db.accepts \/ b.crossed

=============================================================================
