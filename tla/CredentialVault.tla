--------------------------- MODULE CredentialVault ---------------------------
(***************************************************************************)
(* The operator's encrypted credential vault: one file sealed under a      *)
(* master key, the key store that holds the key, and the recovery file     *)
(* that escrows it (EncryptedCredentialVault, FileCredentialVaultKeyStore, *)
(* exportOperatorVaultRecovery, rotateOperatorVaultKey, ...).  Commands    *)
(* are processes that run at the same time and may die between any two     *)
(* file operations; a lock file is all that keeps them apart.              *)
(***************************************************************************)
EXTENDS Integers

CONSTANTS
    Clis,       \* operator commands, one process each
    Names,      \* credential names
    Instances   \* the bounds TLC explores together, one record per instance:
                \*   clis: the commands that may run, ops: what they may do
                \*   fresh: nothing is set up yet and the credentials are in a plain file
                \*   alone: a command starts only when no other runs
                \*   runs (commands started), crashes: how many at most

None == 0
Ops == {"init", "migrate", "set", "swap", "remove", "export", "rotate", "restore"}

\* While plain files are migrated no command is asked to remove a credential.
ASSUME InstancesAssumption ==
    /\ None \notin Clis /\ Names # {}
    /\ Instances \subseteq [clis : SUBSET Clis, ops : SUBSET Ops, fresh : BOOLEAN,
                           alone : BOOLEAN, runs : Nat, crashes : Nat]
    /\ \A i \in Instances : i.fresh => "remove" \notin i.ops

\* The vault file while it is absent, and while its first write is incomplete.
Absent == [key |-> None, generation |-> -1, entries |-> [n \in Names |-> None]]
Torn == [Absent EXCEPT !.generation = 0]

VARIABLES
    max,       \* the instance's bounds
    vault,     \* the vault file: the key it is sealed under, its generation and entries
    store,     \* the key store's key, or None
    recovery,  \* the key the recovery file escrows, or None
    staged,    \* the key its .next sibling escrows, or None
    plain,     \* the credentials left in the plain environment files
    lock,      \* the lock file: its owner and whether it is written, or None's
    cli,       \* the commands
    clashed,   \* history: a live command's lock file or staged escrow was replaced
    used,      \* keys and values drawn so far
    runs, crashes

keys == <<store, recovery, staged>>
spent == <<max, runs, crashes>>
vars == <<vault, keys, plain, lock, cli, clashed, used, spent>>

NoLock == [by |-> None, full |-> FALSE]
Idle == [pc |-> "idle", op |-> "set", name |-> CHOOSE n \in Names : TRUE, key |-> None,
         old |-> None, next |-> None, seen |-> Absent, read |-> Absent,
         undo |-> FALSE, from |-> "recovery"]
Settled == {"idle", "done", "failed", "dead"}

Init ==
    /\ max \in Instances
    /\ \E first \in [Names -> {None, 1}] :
         /\ plain = IF max.fresh THEN [n \in Names |-> 1] ELSE [n \in Names |-> None]
         /\ vault = IF max.fresh THEN Absent
                    ELSE [key |-> 1, generation |-> 1, entries |-> first]
         /\ max.fresh => first = [n \in Names |-> None]
    /\ store = (IF max.fresh THEN None ELSE 1) /\ recovery = store
    /\ staged = None
    /\ lock = NoLock
    /\ cli = [c \in Clis |-> Idle]
    /\ clashed = FALSE
    /\ used = 1 /\ runs = 0 /\ crashes = 0

Goto(c, pc) == cli' = [cli EXCEPT ![c].pc = pc]
Exists == vault # Absent
\* A key opens the vault file: it is the one the file is sealed under.
Opens(key) == key # None /\ vault.key = key

----------------------------------------------------------------------------
(* A command starts, opens the vault and looks at it.                      *)

Start(c) ==
    /\ cli[c].pc \in Settled \ {"dead"} /\ c \in max.clis
    /\ max.alone => \A d \in Clis : cli[d].pc \in Settled
    /\ runs < max.runs /\ runs' = runs + 1
    /\ \E op \in max.ops, n \in Names, f \in {"recovery", "staged"} :
         /\ op = "restore" \/ f = "recovery"
         /\ op \in {"set", "swap", "remove"} \/ n = Idle.name
         /\ cli' = [cli EXCEPT ![c] = [Idle EXCEPT
                !.op = op, !.name = n, !.from = f,
                !.pc = IF op \in {"rotate", "restore"} THEN "verify" ELSE "open"]]
    /\ UNCHANGED <<vault, keys, plain, lock, clashed, used, max, crashes>>

Escrow(c) == IF cli[c].from = "recovery" THEN recovery ELSE staged

\* A rotation or a restore first proves that the recovery file opens the vault.
Verify(c) ==
    /\ cli[c].pc = "verify"
    /\ IF ~Opens(Escrow(c)) THEN Goto(c, "failed")
       ELSE cli' = [cli EXCEPT ![c].next = Escrow(c),
                        ![c].pc = IF cli[c].op = "rotate" THEN "open" ELSE "current"]
    /\ UNCHANGED <<vault, keys, plain, lock, clashed, used, spent>>

\* The key is loaded; only an initialisation or a migration may draw one, and
\* never beside an existing vault.
Open(c) ==
    LET me == cli[c]
        create == store = None /\ ~Exists /\ me.op \in {"init", "migrate"} IN
    /\ me.pc = "open"
    /\ used' = IF create THEN used + 1 ELSE used
    /\ store' = IF create THEN used' ELSE store
    /\ IF store' = None THEN Goto(c, "failed")
       ELSE cli' = [cli EXCEPT ![c].key = store',
              ![c].pc = CASE me.op \in {"init", "migrate"} -> "acquire"
                          [] me.op = "rotate" -> "current"
                          [] OTHER -> "look"]
    /\ UNCHANGED <<vault, recovery, staged, plain, lock, clashed, spent>>

\* The credentials of the plain files that vault v does not hold.
Missing(v) == {n \in Names : plain[n] # None /\ v.entries[n] = None}

\* The command reads the vault without the lock: what it decides on may be
\* stale.  An export writes the escrow of the key it read it with.
Look(c) ==
    LET me == cli[c]  value == vault.entries[me.name] IN
    /\ me.pc = "look"
    /\ IF \/ ~Opens(me.key)
          \/ me.op = "set" /\ value # None
          \/ me.op = "swap" /\ value = None
          \/ me.op = "export" /\ (recovery # None \/ store # me.key)
       THEN Goto(c, "failed") /\ UNCHANGED recovery
       ELSE IF me.op = "export"
       THEN Goto(c, "done") /\ recovery' = me.key
       ELSE /\ cli' = [cli EXCEPT ![c].seen = vault, ![c].pc =
                          IF me.op = "migrate" /\ Missing(vault) = {} THEN "check" ELSE "acquire"]
            /\ UNCHANGED recovery
    /\ UNCHANGED <<vault, store, staged, plain, lock, clashed, used, spent>>

----------------------------------------------------------------------------
(* The lock file.                                                          *)

\* What a command that could not write the vault does next: a rotation puts
\* the old key back into the key store.
Refused(c) == IF cli[c].op = "rotate" THEN "replace" ELSE "failed"
Undone(c) == cli[c].op = "rotate"

\* Mutant: the lock file is created whether or not there is one.
AcquireAlways(c) ==
    /\ cli[c].pc = "acquire"
    /\ lock' = [by |-> c, full |-> FALSE] /\ Goto(c, "write_lock")
    /\ UNCHANGED <<vault, keys, plain, clashed, used, spent>>

\* The lock file is created exclusively, empty.  One that exists is left alone
\* while it is empty or its owner lives.
Acquire(c) ==
    /\ cli[c].pc = "acquire"
    /\ IF lock = NoLock THEN lock' = [by |-> c, full |-> FALSE] /\ Goto(c, "write_lock")
       ELSE /\ UNCHANGED lock
            /\ IF lock.full /\ cli[lock.by].pc = "dead" THEN Goto(c, "take_over")
               ELSE cli' = [cli EXCEPT ![c].pc = Refused(c), ![c].undo = Undone(c)]
    /\ UNCHANGED <<vault, keys, plain, clashed, used, spent>>

WriteLock(c) ==
    /\ cli[c].pc = "write_lock"
    /\ lock' = IF lock.by = c THEN [lock EXCEPT !.full = TRUE] ELSE lock
    /\ Goto(c, "locked")
    /\ UNCHANGED <<vault, keys, plain, clashed, used, spent>>

\* The stale file, or whatever is at its path by now, is renamed away.
TakeOver(c) ==
    /\ cli[c].pc = "take_over"
    /\ IF lock = NoLock
       THEN /\ UNCHANGED <<lock, clashed>>
            /\ cli' = [cli EXCEPT ![c].pc = Refused(c), ![c].undo = Undone(c)]
       ELSE /\ lock' = NoLock /\ Goto(c, "take")
            /\ clashed' = (clashed \/ cli[lock.by].pc # "dead")
    /\ UNCHANGED <<vault, keys, plain, used, spent>>

\* Then the lock is created; another command may have been faster.
Take(c) ==
    /\ cli[c].pc = "take"
    /\ IF lock = NoLock THEN lock' = [by |-> c, full |-> FALSE] /\ Goto(c, "write_lock")
       ELSE /\ UNCHANGED lock
            /\ cli' = [cli EXCEPT ![c].pc = Refused(c), ![c].undo = Undone(c)]
    /\ UNCHANGED <<vault, keys, plain, clashed, used, spent>>

\* A command removes only its own lock.
Release(c) ==
    LET me == cli[c] IN
    /\ me.pc \in {"release", "release_refused"}
    /\ lock' = IF lock.by = c /\ lock.full THEN NoLock ELSE lock
    /\ IF me.pc = "release_refused"
       THEN cli' = [cli EXCEPT ![c].pc = Refused(c), ![c].undo = Undone(c)]
       ELSE Goto(c, CASE me.op = "rotate" -> "promote"
                      [] me.op = "migrate" -> IF me.seen = Absent THEN "look" ELSE "check"
                      [] OTHER -> "done")
    /\ UNCHANGED <<vault, keys, plain, clashed, used, spent>>

----------------------------------------------------------------------------
(* What a command does under the lock.                                     *)

Initializing(c) == cli[c].op \in {"init", "migrate"} /\ cli[c].seen = Absent

\* An initialisation creates the file and fills it; any other change reads it
\* again, and a swap refuses a value that changed.
Locked(c) ==
    LET me == cli[c]  value == vault.entries[me.name] IN
    /\ me.pc = "locked"
    /\ IF Initializing(c) /\ ~Exists THEN vault' = Torn /\ Goto(c, "fill")
       ELSE /\ UNCHANGED vault
            /\ IF ~Opens(me.key) \/ (me.op = "swap" /\ value # me.seen.entries[me.name])
               THEN Goto(c, "release_refused")
               ELSE IF Initializing(c) \/ (me.op = "remove" /\ value = None)
               THEN Goto(c, "release")
               ELSE cli' = [cli EXCEPT ![c].read = vault, ![c].pc = "write"]
    /\ UNCHANGED <<keys, plain, lock, clashed, used, spent>>

Fill(c) ==
    /\ cli[c].pc = "fill"
    /\ vault' = [Torn EXCEPT !.key = cli[c].key]
    /\ Goto(c, "release")
    /\ UNCHANGED <<keys, plain, lock, clashed, used, spent>>

\* The entries a command writes, v being a value nobody has used.
Entries(c, v) ==
    LET me == cli[c] IN
    CASE me.op \in {"set", "swap"} -> [me.read.entries EXCEPT ![me.name] = v]
      [] me.op = "remove" -> [me.read.entries EXCEPT ![me.name] = None]
      [] me.op = "migrate" ->
            [n \in Names |-> IF n \in Missing(me.seen) THEN plain[n] ELSE me.read.entries[n]]
      [] OTHER -> me.read.entries

\* The new file replaces the old one in one rename.
Write(c) ==
    LET me == cli[c] IN
    /\ me.pc = "write"
    /\ used' = IF me.op \in {"set", "swap"} THEN used + 1 ELSE used
    /\ vault' = [key |-> IF me.op = "rotate" THEN me.next ELSE me.key,
                 generation |-> me.read.generation + 1, entries |-> Entries(c, used')]
    /\ Goto(c, "release")
    /\ UNCHANGED <<keys, plain, lock, clashed, spent>>

----------------------------------------------------------------------------
(* Migration of the plain environment files.                               *)

\* Every migrated value is read back from the vault.
Check(c) ==
    LET me == cli[c] IN
    /\ me.pc = "check"
    /\ Goto(c, IF /\ Opens(me.key)
                  /\ \A n \in Names : plain[n] # None =>
                        vault.entries[n] = IF n \in Missing(me.seen) THEN plain[n]
                                           ELSE me.seen.entries[n]
               THEN "scrub" ELSE "failed")
    /\ UNCHANGED <<vault, keys, plain, lock, clashed, used, spent>>

\* The plain files are rewritten, one after the other.
Scrub(c) ==
    /\ cli[c].pc = "scrub"
    /\ \/ \E n \in Names : plain[n] # None /\ plain' = [plain EXCEPT ![n] = None] /\ UNCHANGED cli
       \/ (\A n \in Names : plain[n] = None) /\ Goto(c, "done") /\ UNCHANGED plain
    /\ UNCHANGED <<vault, keys, lock, clashed, used, spent>>

----------------------------------------------------------------------------
(* The key store and the recovery file.                                    *)

\* The current key is loaded.  A rotation requires it in the recovery file; a
\* restore takes the escrowed key in its place.
Current(c) ==
    LET me == cli[c] IN
    /\ me.pc = "current"
    /\ IF me.op = "restore"
       THEN cli' = [cli EXCEPT ![c].old = store, ![c].next = Escrow(c),
                        ![c].pc = IF store = Escrow(c) THEN "done" ELSE "replace"]
       ELSE cli' = [cli EXCEPT ![c].old = store,
                        ![c].pc = IF me.key = me.next /\ store # None /\ store = recovery
                                     /\ staged = None
                                  THEN "stage" ELSE "failed"]
    /\ UNCHANGED <<vault, keys, plain, lock, clashed, used, spent>>

\* Mutant: a rotation does not stage the next key's escrow.
StageNothing(c) ==
    /\ cli[c].pc = "stage"
    /\ used' = used + 1
    /\ cli' = [cli EXCEPT ![c].next = used', ![c].pc = "replace"]
    /\ UNCHANGED <<vault, keys, plain, lock, clashed, spent>>

\* The next key's escrow is written before the key is used.
Stage(c) ==
    /\ cli[c].pc = "stage"
    /\ used' = used + 1 /\ staged' = used'
    /\ clashed' = (clashed \/ staged # None)
    /\ cli' = [cli EXCEPT ![c].next = used', ![c].pc = "replace"]
    /\ UNCHANGED <<vault, store, recovery, plain, lock, spent>>

\* The key store is compared, then replaced; a refused rotation swaps back.
Replace(c) ==
    LET me == cli[c] IN
    /\ me.pc = "replace"
    /\ Goto(c, IF store = (IF me.undo THEN me.next ELSE me.old) THEN "replacing" ELSE "failed")
    /\ UNCHANGED <<vault, keys, plain, lock, clashed, used, spent>>

Replacing(c) ==
    LET me == cli[c] IN
    /\ me.pc = "replacing"
    /\ IF me.old = None /\ store # None THEN UNCHANGED store /\ Goto(c, "failed")
       ELSE /\ store' = IF me.undo THEN me.old ELSE me.next
            /\ Goto(c, IF me.undo THEN "unstage"
                       ELSE IF me.op = "rotate" THEN "acquire" ELSE "done")
    /\ UNCHANGED <<vault, recovery, staged, plain, lock, clashed, used, spent>>

\* Promotion of the staged escrow; the staged file is removed afterwards, or
\* when the rotation was refused.
Promote(c) ==
    /\ cli[c].pc = "promote"
    /\ IF staged = None THEN UNCHANGED recovery /\ Goto(c, "failed")
       ELSE recovery' = staged /\ Goto(c, "unlink")
    /\ UNCHANGED <<vault, store, staged, plain, lock, clashed, used, spent>>

Unlink(c) ==
    /\ cli[c].pc \in {"unlink", "unstage"}
    /\ staged' = None
    /\ Goto(c, IF cli[c].pc = "unlink" /\ staged # None THEN "confirm" ELSE "failed")
    /\ UNCHANGED <<vault, store, recovery, plain, lock, clashed, used, spent>>

\* The three views are verified.
Confirm(c) ==
    LET me == cli[c] IN
    /\ me.pc = "confirm"
    /\ Goto(c, IF recovery = me.next /\ store = me.next /\ Opens(recovery) THEN "done"
               ELSE "failed")
    /\ UNCHANGED <<vault, keys, plain, lock, clashed, used, spent>>

----------------------------------------------------------------------------
\* A command dies between two file operations; its lock stays.
Crash(c) ==
    /\ crashes < max.crashes /\ crashes' = crashes + 1
    /\ cli[c].pc \notin Settled
    /\ Goto(c, "dead")
    /\ UNCHANGED <<vault, keys, plain, lock, clashed, used, max, runs>>

Steps(c) ==
    \/ Verify(c) \/ Open(c) \/ Look(c)
    \/ Acquire(c) \/ WriteLock(c) \/ TakeOver(c) \/ Take(c) \/ Release(c)
    \/ Locked(c) \/ Fill(c) \/ Write(c) \/ Check(c) \/ Scrub(c)
    \/ Current(c) \/ Stage(c) \/ Replace(c) \/ Replacing(c) \/ Promote(c) \/ Unlink(c)
    \/ Confirm(c)

\* The operator restores the key from whichever recovery file opens the vault
\* (docs/BACKUP-RESTORE.md:142).
Recover(c) ==
    /\ max.alone /\ c \in max.clis /\ cli[c].pc \in Settled \ {"dead"}
    /\ \A d \in Clis : cli[d].pc \in Settled
    /\ ~Opens(store)
    /\ \E f \in {"recovery", "staged"} :
         /\ Opens(IF f = "recovery" THEN recovery ELSE staged)
         /\ cli' = [cli EXCEPT ![c] = [Idle EXCEPT !.op = "restore", !.from = f, !.pc = "verify"]]
    /\ UNCHANGED <<vault, keys, plain, lock, clashed, used, spent>>

Next == \E c \in Clis : Start(c) \/ Steps(c) \/ Crash(c) \/ Recover(c)

Spec == Init /\ [][Next]_vars

----------------------------------------------------------------------------
(* Properties.                                                             *)

Vault == [key : Nat, generation : Int, entries : [Names -> Nat]]
Pcs == Settled \cup {"verify", "open", "current", "look", "acquire", "write_lock", "take_over",
    "take", "locked", "fill", "write", "release", "release_refused", "check", "scrub", "stage",
    "replace", "replacing", "promote", "unlink", "unstage", "confirm"}
Command == [pc : Pcs, op : Ops, name : Names, key : Nat, old : Nat, next : Nat,
            seen : Vault, read : Vault, undo : BOOLEAN, from : {"recovery", "staged"}]

TypeOK ==
    /\ max \in Instances
    /\ vault \in Vault
    /\ {store, recovery, staged} \subseteq Nat
    /\ plain \in [Names -> {None, 1}]
    /\ lock \in [by : Clis \cup {None}, full : BOOLEAN] /\ (lock.full => lock.by # None)
    /\ cli \in [Clis -> Command]
    /\ clashed \in BOOLEAN /\ {used, runs, crashes} \subseteq Nat

\* At every moment a recovery file opens the vault, and each credential that is
\* being migrated is in the vault or still in its plain file, whichever command
\* dies where.  Except when commands that live have clashed: two rotations staged
\* over each other, or the lock of a live command was taken for a stale one.
VaultIsRecoverable ==
    \/ clashed
    \/ IF max.fresh THEN \A n \in Names : plain[n] # None \/ vault.entries[n] # None
       ELSE Opens(recovery) \/ Opens(staged)

\* No acknowledged change is lost: a command replaces exactly the vault it
\* read, with the same exception.
UpdatesAreKept ==
    [][clashed \/ \A c \in Clis :
          cli[c].pc = "write" /\ cli'[c].pc = "release" => vault = cli[c].read]_vars

=============================================================================
