----------------------- MODULE CredentialVaultProofs -----------------------
\* Theorems of CredentialVault, for any commands, credentials and bounds.
EXTENDS CredentialVault, TLAPS

----------------------------------------------------------------------------
(* Types.                                                                  *)

\* The vault file has its type while it is absent and while it is torn.
LEMMA EmptyVaults == Absent \in Vault /\ Torn \in Vault
BY DEF Absent, Torn, Vault, None

\* A command that has not started is a command.
LEMMA IdleTypes == Idle \in Command
<1>1. (CHOOSE n \in Names : TRUE) \in Names BY InstancesAssumption
<1>. QED BY <1>1, EmptyVaults DEF Idle, Command, Pcs, Settled, Ops, None

\* A command that only changes its place stays a command.
LEMMA GotoTypes ==
    ASSUME TypeOK, NEW c \in Clis, NEW pc \in Pcs, Goto(c, pc)
    PROVE  cli' \in [Clis -> Command]
BY DEF TypeOK, Goto, Command

\* A refused command is a command.
LEMMA RefusedTypes ==
    ASSUME TypeOK, NEW c \in Clis,
           cli' = [cli EXCEPT ![c].pc = Refused(c), ![c].undo = Undone(c)]
    PROVE  cli' \in [Clis -> Command]
<1>1. cli' = [cli EXCEPT ![c] = [cli[c] EXCEPT !.pc = Refused(c), !.undo = Undone(c)]]
  BY DEF TypeOK
<1>2. Refused(c) \in Pcs /\ Undone(c) \in BOOLEAN BY DEF Refused, Undone, Pcs, Settled
<1>3. cli[c] \in Command BY DEF TypeOK
<1>4. [cli[c] EXCEPT !.pc = Refused(c), !.undo = Undone(c)] \in Command
  BY <1>2, <1>3 DEF Command
<1>. QED BY <1>1, <1>4 DEF TypeOK

\* A lock file just created is a lock file.
LEMMA LockTypes ==
    ASSUME NEW c \in Clis, lock' = [by |-> c, full |-> FALSE] \/ lock' = NoLock
    PROVE  lock' \in [by : Clis \cup {None}, full : BOOLEAN] /\ (lock'.full => lock'.by # None)
<1>1. CASE lock' = [by |-> c, full |-> FALSE]
  <2>1. lock'.full = FALSE BY <1>1
  <2>. QED BY <1>1, <2>1
<1>2. CASE lock' = NoLock
  <2>1. lock'.full = FALSE BY <1>2 DEF NoLock
  <2>. QED BY <1>2, <2>1 DEF NoLock
<1>. QED BY <1>1, <1>2

\* The variables a run starts with have their types.
LEMMA InitTypes == Init => TypeOK
<1>. SUFFICES ASSUME Init PROVE TypeOK OBVIOUS
<1>1. cli \in [Clis -> Command] BY IdleTypes DEF Init
<1>2. vault \in Vault /\ plain \in [Names -> {None, 1}]
  <2>1. PICK first \in [Names -> {None, 1}] :
          /\ plain = IF max.fresh THEN [n \in Names |-> 1] ELSE [n \in Names |-> None]
          /\ vault = IF max.fresh THEN Absent
                     ELSE [key |-> 1, generation |-> 1, entries |-> first]
    BY DEF Init
  <2>. QED BY <2>1, EmptyVaults DEF Vault, None
<1>3. lock \in [by : Clis \cup {None}, full : BOOLEAN] /\ (lock.full => lock.by # None)
  <2>1. lock = NoLock /\ lock.full = FALSE BY DEF Init, NoLock
  <2>. QED BY <2>1 DEF NoLock
<1>4. {store, recovery, staged} \subseteq Nat BY DEF Init, None
<1>5. max \in Instances /\ clashed \in BOOLEAN /\ {used, runs, crashes} \subseteq Nat
  <2>1. used = 1 /\ runs = 0 /\ crashes = 0 /\ clashed = FALSE /\ max \in Instances
    BY DEF Init
  <2>2. clashed \in BOOLEAN BY <2>1
  <2>3. {used, runs, crashes} \subseteq Nat BY <2>1
  <2>. QED BY <2>1, <2>2, <2>3
<1>. QED BY <1>1, <1>2, <1>3, <1>4, <1>5 DEF TypeOK

\* Every step of a command, its start, a crash and a recovery keep the types.
LEMMA NextTypes == TypeOK /\ [Next]_vars => TypeOK'
<1>. SUFFICES ASSUME TypeOK, [Next]_vars PROVE TypeOK' OBVIOUS
<1>. USE DEF TypeOK, keys, spent
<1>1. CASE UNCHANGED vars BY <1>1 DEF vars
<1>2. ASSUME NEW c \in Clis, Start(c) PROVE TypeOK'
  <2>1. max \in [clis : SUBSET Clis, ops : SUBSET Ops, fresh : BOOLEAN,
                 alone : BOOLEAN, runs : Nat, crashes : Nat]
    BY InstancesAssumption
  <2>2. PICK op \in max.ops, n \in Names, f \in {"recovery", "staged"} :
          cli' = [cli EXCEPT ![c] = [Idle EXCEPT
                !.op = op, !.name = n, !.from = f,
                !.pc = IF op \in {"rotate", "restore"} THEN "verify" ELSE "open"]]
    BY <1>2 DEF Start
  <2>3. op \in Ops BY <2>1
  <2>4. cli' \in [Clis -> Command] BY <2>2, <2>3, IdleTypes DEF Command, Pcs
  <2>. QED BY <1>2, <2>4 DEF Start
<1>3. ASSUME NEW c \in Clis, Verify(c) PROVE TypeOK'
  <2>1. Escrow(c) \in Nat BY DEF Escrow
  <2>2. cli' \in [Clis -> Command]
    BY <1>3, <2>1, GotoTypes DEF Verify, Command, Pcs, Settled
  <2>. QED BY <1>3, <2>2 DEF Verify
<1>4. ASSUME NEW c \in Clis, Open(c) PROVE TypeOK'
  <2>1. used' \in Nat /\ store' \in Nat BY <1>4 DEF Open
  <2>2. cli' \in [Clis -> Command]
    <3>1. CASE store' = None BY <1>4, <3>1, GotoTypes DEF Open, Pcs, Settled
    <3>2. CASE store' # None
      <4>1. PICK pc \in {"acquire", "current", "look"} :
              cli' = [cli EXCEPT ![c].key = store', ![c].pc = pc]
        BY <1>4, <3>2 DEF Open
      <4>2. cli' = [cli EXCEPT ![c] = [cli[c] EXCEPT !.key = store', !.pc = pc]] BY <4>1
      <4>3. cli[c] \in Command OBVIOUS
      <4>4. [cli[c] EXCEPT !.key = store', !.pc = pc] \in Command
        BY <2>1, <4>3 DEF Command, Pcs
      <4>. QED BY <4>2, <4>4
    <3>. QED BY <3>1, <3>2
  <2>. QED BY <1>4, <2>1, <2>2 DEF Open
<1>5. ASSUME NEW c \in Clis, Look(c) PROVE TypeOK'
  <2>1. cli' \in [Clis -> Command]
    BY <1>5, GotoTypes DEF Look, Command, Pcs, Settled
  <2>2. recovery' \in Nat BY <1>5 DEF Look, Command
  <2>. QED BY <1>5, <2>1, <2>2 DEF Look
<1>6. ASSUME NEW c \in Clis, Acquire(c) PROVE TypeOK'
  <2>1. cli' \in [Clis -> Command]
    BY <1>6, GotoTypes, RefusedTypes DEF Acquire, Pcs
  <2>2. lock' \in [by : Clis \cup {None}, full : BOOLEAN] /\ (lock'.full => lock'.by # None)
    BY <1>6, LockTypes DEF Acquire
  <2>. QED BY <1>6, <2>1, <2>2 DEF Acquire
<1>7. ASSUME NEW c \in Clis, WriteLock(c) PROVE TypeOK'
  <2>1. cli' \in [Clis -> Command] BY <1>7, GotoTypes DEF WriteLock, Pcs
  <2>2. lock' \in [by : Clis \cup {None}, full : BOOLEAN] /\ (lock'.full => lock'.by # None)
    BY <1>7, InstancesAssumption DEF WriteLock
  <2>. QED BY <1>7, <2>1, <2>2 DEF WriteLock
<1>8. ASSUME NEW c \in Clis, TakeOver(c) PROVE TypeOK'
  <2>1. cli' \in [Clis -> Command]
    BY <1>8, GotoTypes, RefusedTypes DEF TakeOver, Pcs
  <2>2. lock' \in [by : Clis \cup {None}, full : BOOLEAN] /\ (lock'.full => lock'.by # None)
    BY <1>8, LockTypes DEF TakeOver
  <2>3. clashed' \in BOOLEAN BY <1>8 DEF TakeOver
  <2>. QED BY <1>8, <2>1, <2>2, <2>3 DEF TakeOver
<1>9. ASSUME NEW c \in Clis, Take(c) PROVE TypeOK'
  <2>1. cli' \in [Clis -> Command]
    BY <1>9, GotoTypes, RefusedTypes DEF Take, Pcs
  <2>2. lock' \in [by : Clis \cup {None}, full : BOOLEAN] /\ (lock'.full => lock'.by # None)
    BY <1>9, LockTypes DEF Take
  <2>. QED BY <1>9, <2>1, <2>2 DEF Take
<1>10. ASSUME NEW c \in Clis, Release(c) PROVE TypeOK'
  <2>1. cli' \in [Clis -> Command]
    <3>1. CASE cli[c].pc = "release_refused" BY <1>10, <3>1, RefusedTypes DEF Release
    <3>2. CASE cli[c].pc # "release_refused"
      <4>1. PICK pc \in {"promote", "look", "check", "done"} : Goto(c, pc)
        BY <1>10, <3>2 DEF Release
      <4>. QED BY <4>1, GotoTypes DEF Pcs, Settled
    <3>. QED BY <3>1, <3>2
  <2>2. lock' \in [by : Clis \cup {None}, full : BOOLEAN] /\ (lock'.full => lock'.by # None)
    BY <1>10, LockTypes DEF Release
  <2>. QED BY <1>10, <2>1, <2>2 DEF Release
<1>11. ASSUME NEW c \in Clis, Locked(c) PROVE TypeOK'
  <2>1. cli' \in [Clis -> Command]
    BY <1>11, GotoTypes DEF Locked, Command, Pcs
  <2>2. vault' \in Vault BY <1>11, EmptyVaults DEF Locked
  <2>. QED BY <1>11, <2>1, <2>2 DEF Locked
<1>12. ASSUME NEW c \in Clis, Fill(c) PROVE TypeOK'
  <2>1. cli' \in [Clis -> Command] BY <1>12, GotoTypes DEF Fill, Pcs
  <2>2. vault' \in Vault BY <1>12, EmptyVaults DEF Fill, Command, Vault
  <2>. QED BY <1>12, <2>1, <2>2 DEF Fill
<1>13. ASSUME NEW c \in Clis, Write(c) PROVE TypeOK'
  <2>1. cli' \in [Clis -> Command] BY <1>13, GotoTypes DEF Write, Pcs
  <2>2. used' \in Nat BY <1>13 DEF Write
  <2>3. Entries(c, used') \in [Names -> Nat] BY <2>2 DEF Entries, Command, Vault, None
  <2>4. vault' \in Vault BY <1>13, <2>3 DEF Write, Vault, Command
  <2>. QED BY <1>13, <2>1, <2>2, <2>4 DEF Write
<1>14. ASSUME NEW c \in Clis, Check(c) PROVE TypeOK'
  <2>1. cli' \in [Clis -> Command] BY <1>14, GotoTypes DEF Check, Pcs, Settled
  <2>. QED BY <1>14, <2>1 DEF Check
<1>15. ASSUME NEW c \in Clis, Scrub(c) PROVE TypeOK'
  <2>1. cli' \in [Clis -> Command] BY <1>15, GotoTypes DEF Scrub, Pcs, Settled
  <2>2. plain' \in [Names -> {None, 1}] BY <1>15 DEF Scrub
  <2>. QED BY <1>15, <2>1, <2>2 DEF Scrub
<1>16. ASSUME NEW c \in Clis, Current(c) PROVE TypeOK'
  <2>1. Escrow(c) \in Nat BY DEF Escrow
  <2>2. cli' \in [Clis -> Command] BY <1>16, <2>1 DEF Current, Command, Pcs, Settled
  <2>. QED BY <1>16, <2>2 DEF Current
<1>17. ASSUME NEW c \in Clis, Stage(c) PROVE TypeOK'
  <2>1. used' \in Nat /\ staged' \in Nat BY <1>17 DEF Stage
  <2>2. cli' \in [Clis -> Command] BY <1>17, <2>1 DEF Stage, Command, Pcs
  <2>. QED BY <1>17, <2>1, <2>2 DEF Stage
<1>18. ASSUME NEW c \in Clis, Replace(c) PROVE TypeOK'
  <2>1. cli' \in [Clis -> Command] BY <1>18, GotoTypes DEF Replace, Pcs, Settled
  <2>. QED BY <1>18, <2>1 DEF Replace
<1>19. ASSUME NEW c \in Clis, Replacing(c) PROVE TypeOK'
  <2>1. cli' \in [Clis -> Command] BY <1>19, GotoTypes DEF Replacing, Pcs, Settled
  <2>2. store' \in Nat BY <1>19 DEF Replacing, Command
  <2>. QED BY <1>19, <2>1, <2>2 DEF Replacing
<1>20. ASSUME NEW c \in Clis, Promote(c) PROVE TypeOK'
  <2>1. cli' \in [Clis -> Command] BY <1>20, GotoTypes DEF Promote, Pcs, Settled
  <2>2. recovery' \in Nat BY <1>20 DEF Promote
  <2>. QED BY <1>20, <2>1, <2>2 DEF Promote
<1>21. ASSUME NEW c \in Clis, Unlink(c) PROVE TypeOK'
  <2>1. cli' \in [Clis -> Command] BY <1>21, GotoTypes DEF Unlink, Pcs, Settled
  <2>. QED BY <1>21, <2>1 DEF Unlink, None
<1>22. ASSUME NEW c \in Clis, Confirm(c) PROVE TypeOK'
  <2>1. cli' \in [Clis -> Command] BY <1>22, GotoTypes DEF Confirm, Pcs, Settled
  <2>. QED BY <1>22, <2>1 DEF Confirm
<1>23. ASSUME NEW c \in Clis, Crash(c) PROVE TypeOK'
  <2>1. cli' \in [Clis -> Command] BY <1>23, GotoTypes DEF Crash, Pcs, Settled
  <2>. QED BY <1>23, <2>1 DEF Crash
<1>24. ASSUME NEW c \in Clis, Recover(c) PROVE TypeOK'
  <2>1. PICK f \in {"recovery", "staged"} :
          cli' = [cli EXCEPT ![c] = [Idle EXCEPT !.op = "restore", !.from = f, !.pc = "verify"]]
    BY <1>24 DEF Recover
  <2>2. cli' \in [Clis -> Command] BY <2>1, IdleTypes DEF Command, Pcs, Ops
  <2>. QED BY <1>24, <2>2 DEF Recover
<1>. QED
  BY <1>1, <1>2, <1>3, <1>4, <1>5, <1>6, <1>7, <1>8, <1>9, <1>10, <1>11, <1>12, <1>13, <1>14,
     <1>15, <1>16, <1>17, <1>18, <1>19, <1>20, <1>21, <1>22, <1>23, <1>24 DEF Next, Steps

\* Vault, key store, escrows, lock and commands have their types.
THEOREM TypeCorrect == Spec => []TypeOK
BY InitTypes, NextTypes, PTL DEF Spec

----------------------------------------------------------------------------
(* The inductive invariant.                                                *)

\* Only rotations and restores verify the escrow first, only rotations stage,
\* promote and undo; no credential that is migrated is
\* removed.
OpsFit(c) ==
    /\ cli[c].pc = "look" => cli[c].op # "rotate"
    /\ cli[c].pc \in {"verify", "current"} => cli[c].op \in {"rotate", "restore"}
    /\ cli[c].pc \in {"stage", "promote", "unlink", "unstage"} => cli[c].op = "rotate"
    /\ cli[c].undo => cli[c].op = "rotate"
    /\ max.fresh => cli[c].op # "remove"

\* Where a command holds the lock.
Critical == {"write_lock", "locked", "fill", "write", "release", "release_refused"}

\* The lock of a command that holds it is its own.
LockHeld == \A c \in Clis : cli[c].pc \in Critical => lock.by = c

\* What a command writes from is what the file holds.
WriteCurrent ==
    \A c \in Clis :
        /\ cli[c].pc = "write" => vault = cli[c].read /\ Opens(cli[c].key)
        /\ cli[c].pc = "fill" => vault = Torn

\* A rotation that staged a key and has not removed the staged escrow.
Rotating(c) ==
    /\ cli[c].op = "rotate"
    /\ cli[c].pc \in Critical \cup {"replace", "replacing", "acquire", "take_over", "take",
                                    "promote", "unlink", "unstage"}

\* Its key is the staged one; the recovery file opens the vault, except between
\* the write under the new key and the promotion of its escrow.
Escrowed(c) ==
    /\ staged = cli[c].next /\ staged # None
    /\ IF cli[c].pc \in {"release", "promote"} THEN vault.key = staged ELSE Opens(recovery)

\* Keys are escrowed, and one rotation at a time has a key staged.
KeysFit ==
    /\ Opens(recovery) \/ Opens(staged)
    /\ \A c \in Clis : Rotating(c) => Escrowed(c)
    /\ \A c, d \in Clis : Rotating(c) /\ Rotating(d) => c = d

\* A credential is in the vault before its plain file is rewritten.
PlainFit ==
    /\ \A n \in Names : plain[n] # None \/ vault.entries[n] # None
    /\ \A c \in Clis : cli[c].pc = "scrub" => \A n \in Names : vault.entries[n] # None

Sound == /\ LockHeld /\ WriteCurrent
         /\ max.fresh => PlainFit
         /\ ~max.fresh => KeysFit

Fit == (\A c \in Clis : OpsFit(c)) /\ (~clashed => Sound)

\* Command c is the one that steps.
Alone(c) == \A d \in Clis \ {c} : cli'[d] = cli[d]

----------------------------------------------------------------------------
(* What a step leaves alone stays sound.                                   *)

\* A step that neither enters the lock nor changes its owner.
LEMMA KeepLock ==
    ASSUME NEW c \in Clis, LockHeld, Alone(c), lock'.by = lock.by,
           cli'[c].pc \in Critical => cli[c].pc \in Critical
    PROVE  LockHeld'
BY DEF LockHeld, Alone

\* A command creates the lock file where there is none.
LEMMA NewLock ==
    ASSUME NEW c \in Clis, LockHeld, Alone(c), lock = NoLock, lock'.by = c
    PROVE  LockHeld'
<1>1. lock.by = None BY DEF NoLock
<1>2. \A d \in Clis : cli[d].pc \notin Critical BY <1>1, InstancesAssumption DEF LockHeld
<1>. QED BY <1>2 DEF LockHeld, Alone

\* A step that leaves the vault file alone and is not about to write it.
LEMMA KeepWrite ==
    ASSUME NEW c \in Clis, WriteCurrent, Alone(c), vault' = vault,
           cli'[c].pc \notin {"write", "fill"}
    PROVE  WriteCurrent'
BY DEF WriteCurrent, Alone, Opens

\* A step that leaves the credentials alone and does not begin to rewrite.
LEMMA KeepPlain ==
    ASSUME NEW c \in Clis, PlainFit, Alone(c), vault' = vault, plain' = plain,
           cli'[c].pc = "scrub" => cli[c].pc = "scrub"
    PROVE  PlainFit'
BY DEF PlainFit, Alone

\* A step that leaves vault and escrows alone, and the rotation where it was.
LEMMA KeepKeys ==
    ASSUME NEW c \in Clis, KeysFit, Alone(c), UNCHANGED <<vault, recovery, staged>>,
           Rotating(c)' => /\ Rotating(c) /\ cli'[c].next = cli[c].next
                           /\ cli'[c].pc \in {"release", "promote"} <=>
                                cli[c].pc \in {"release", "promote"}
    PROVE  KeysFit'
<1>1. \A d \in Clis \ {c} : Rotating(d)' = Rotating(d) BY DEF Rotating, Alone
<1>2. \A d \in Clis : Rotating(d)' => Rotating(d) BY <1>1
<1>3. \A d \in Clis : Rotating(d)' => Escrowed(d)'
  <2>. SUFFICES ASSUME NEW d \in Clis, Rotating(d)' PROVE Escrowed(d)' OBVIOUS
  <2>1. Rotating(d) /\ Escrowed(d) BY <1>2 DEF KeysFit
  <2>2. cli'[d].next = cli[d].next
        /\ (cli'[d].pc \in {"release", "promote"} <=> cli[d].pc \in {"release", "promote"})
    BY DEF Alone
  <2>. QED BY <2>1, <2>2 DEF Escrowed, Opens
<1>. QED BY <1>2, <1>3 DEF KeysFit, Opens

\* All four, for a step that only moves a command on.
LEMMA KeepSound ==
    ASSUME NEW c \in Clis, Sound, Alone(c), UNCHANGED <<max, vault, recovery, staged, plain>>,
           LockHeld',
           cli'[c].pc \notin {"write", "fill"}, cli'[c].pc = "scrub" => cli[c].pc = "scrub",
           Rotating(c)' => /\ Rotating(c) /\ cli'[c].next = cli[c].next
                           /\ cli'[c].pc \in {"release", "promote"} <=>
                                cli[c].pc \in {"release", "promote"}
    PROVE  Sound'
<1>1. WriteCurrent' BY KeepWrite DEF Sound
<1>2. max.fresh => PlainFit' BY KeepPlain DEF Sound
<1>3. ~max.fresh => KeysFit' BY KeepKeys DEF Sound
<1>. QED BY <1>1, <1>2, <1>3 DEF Sound

----------------------------------------------------------------------------
(* Every step keeps the invariant.                                         *)

Step(c) == Start(c) \/ Steps(c) \/ Crash(c) \/ Recover(c)

\* A step is one command's, leaves the bounds alone and forgets no clash.
LEMMA OneSteps ==
    ASSUME TypeOK, NEW c \in Clis, Step(c)
    PROVE  Alone(c) /\ max' = max /\ (clashed => clashed')
<1>. USE DEF TypeOK, Alone, spent, Goto
<1>1. CASE Start(c) BY <1>1 DEF Start
<1>2. CASE Verify(c) BY <1>2 DEF Verify
<1>3. CASE Open(c) BY <1>3 DEF Open
<1>4. CASE Look(c) BY <1>4 DEF Look
<1>5. CASE Acquire(c) BY <1>5 DEF Acquire
<1>6. CASE WriteLock(c) BY <1>6 DEF WriteLock
<1>7. CASE TakeOver(c) BY <1>7 DEF TakeOver
<1>8. CASE Take(c) BY <1>8 DEF Take
<1>9. CASE Release(c) BY <1>9 DEF Release
<1>10. CASE Locked(c) BY <1>10 DEF Locked
<1>11. CASE Fill(c) BY <1>11 DEF Fill
<1>12. CASE Write(c) BY <1>12 DEF Write
<1>13. CASE Check(c) BY <1>13 DEF Check
<1>14. CASE Scrub(c) BY <1>14 DEF Scrub
<1>15. CASE Current(c) BY <1>15 DEF Current
<1>16. CASE Stage(c) BY <1>16 DEF Stage
<1>17. CASE Replace(c) BY <1>17 DEF Replace
<1>18. CASE Replacing(c) BY <1>18 DEF Replacing
<1>19. CASE Promote(c) BY <1>19 DEF Promote
<1>20. CASE Unlink(c) BY <1>20 DEF Unlink
<1>21. CASE Confirm(c) BY <1>21 DEF Confirm
<1>22. CASE Crash(c) BY <1>22 DEF Crash
<1>23. CASE Recover(c) BY <1>23 DEF Recover
<1>. QED BY <1>1, <1>2, <1>3, <1>4, <1>5, <1>6, <1>7, <1>8, <1>9, <1>10, <1>11, <1>12, <1>13, <1>14, <1>15, <1>16, <1>17, <1>18, <1>19, <1>20, <1>21, <1>22, <1>23 DEF Step, Steps

\* A command that changes its place changes nothing else.
LEMMA Moves ==
    ASSUME TypeOK, NEW c \in Clis, NEW pc, Goto(c, pc)
    PROVE  /\ cli'[c].pc = pc
           /\ cli'[c].op = cli[c].op /\ cli'[c].undo = cli[c].undo /\ cli'[c].next = cli[c].next
<1>1. cli \in [Clis -> Command] BY DEF TypeOK
<1>2. cli'[c] = [cli[c] EXCEPT !.pc = pc] BY <1>1 DEF Goto
<1>3. cli[c] \in Command BY <1>1
<1>. QED BY <1>2, <1>3 DEF Command

\* A refused command changes its place, and remembers to undo a rotation.
LEMMA Refusals ==
    ASSUME TypeOK, NEW c \in Clis,
           cli' = [cli EXCEPT ![c].pc = Refused(c), ![c].undo = Undone(c)]
    PROVE  /\ cli'[c].pc = IF cli[c].op = "rotate" THEN "replace" ELSE "failed"
           /\ cli'[c].op = cli[c].op /\ cli'[c].undo = (cli[c].op = "rotate")
           /\ cli'[c].next = cli[c].next
<1>. DEFINE pc == Refused(c)
            undo == Undone(c)
<1>1. cli' = [cli EXCEPT ![c].pc = pc, ![c].undo = undo] OBVIOUS
<1>. HIDE DEF pc, undo
<1>2. cli \in [Clis -> Command] /\ cli[c] \in Command BY DEF TypeOK
<1>3. cli'[c] = [cli[c] EXCEPT !.pc = pc, !.undo = undo] BY <1>1, <1>2
<1>4. /\ cli'[c].pc = pc /\ cli'[c].op = cli[c].op /\ cli'[c].next = cli[c].next
      /\ cli'[c].undo = undo
  BY <1>2, <1>3 DEF Command
<1>. QED BY <1>4 DEF pc, undo, Refused, Undone

\* A refusal keeps a command to its operations.
LEMMA RefusedOps ==
    ASSUME TypeOK, NEW c \in Clis, OpsFit(c), max' = max,
           cli' = [cli EXCEPT ![c].pc = Refused(c), ![c].undo = Undone(c)]
    PROVE  OpsFit(c)'
<1>1. cli'[c].pc \in {"replace", "failed"} /\ cli'[c].op = cli[c].op BY Refusals
<1>2. cli'[c].undo => cli[c].op = "rotate" BY Refusals
<1>. QED BY <1>1, <1>2 DEF OpsFit

\* So does a move to a place that is open to it.
LEMMA MovedOps ==
    ASSUME TypeOK, NEW c \in Clis, OpsFit(c), max' = max, NEW pc, Goto(c, pc),
           pc = "look" => cli[c].op # "rotate",
           pc = "current" => cli[c].op \in {"rotate", "restore"}, pc # "verify",
           pc \in {"stage", "promote", "unlink", "unstage"} => cli[c].op = "rotate"
    PROVE  OpsFit(c)'
<1>1. cli'[c].pc = pc /\ cli'[c].op = cli[c].op /\ cli'[c].undo = cli[c].undo BY Moves
<1>2. cli'[c].undo => cli[c].undo BY <1>1
<1>. QED BY <1>1, <1>2 DEF OpsFit

\* Every step keeps a command to the operations its place is for.
LEMMA StepOps ==
    ASSUME TypeOK, NEW c \in Clis, OpsFit(c), Step(c)
    PROVE  OpsFit(c)'
<1>0. max' = max BY OneSteps
<1>. USE DEF Settled
<1>T. cli \in [Clis -> Command] /\ cli[c] \in Command BY DEF TypeOK
<1>1. CASE Start(c)
  <2>1. \E op \in max.ops, n \in Names, f \in {"recovery", "staged"} :
          /\ op = "restore" \/ f = "recovery"
          /\ op \in {"set", "swap", "remove"} \/ n = Idle.name
          /\ cli' = [cli EXCEPT ![c] = [Idle EXCEPT
                !.op = op, !.name = n, !.from = f,
                !.pc = IF op \in {"rotate", "restore"} THEN "verify" ELSE "open"]]
    BY <1>1 DEF Start
  <2>1a. PICK op \in max.ops, n \in Names, f \in {"recovery", "staged"} :
          cli' = [cli EXCEPT ![c] = [Idle EXCEPT
                !.op = op, !.name = n, !.from = f,
                !.pc = IF op \in {"rotate", "restore"} THEN "verify" ELSE "open"]]
    BY <2>1
  <2>2. /\ cli'[c].op = op /\ cli'[c].pc \in {"verify", "open"} /\ ~cli'[c].undo
        /\ cli'[c].pc = "verify" => op \in {"rotate", "restore"}
    BY <2>1a, <1>T DEF Idle
  <2>3. max.fresh => op # "remove" BY InstancesAssumption DEF TypeOK
  <2>. QED BY <2>2, <2>3, <1>0 DEF OpsFit
<1>2. CASE Verify(c)
  <2>1. CASE ~Opens(Escrow(c)) BY <1>2, <2>1, <1>0, MovedOps DEF Verify
  <2>2. CASE Opens(Escrow(c))
    <3>1. PICK pc \in {"open", "current"} :
            cli' = [cli EXCEPT ![c].next = Escrow(c), ![c].pc = pc]
      BY <1>2, <2>2 DEF Verify
    <3>2. cli'[c] = [cli[c] EXCEPT !.next = Escrow(c), !.pc = pc] BY <3>1, <1>T
    <3>3. cli'[c].pc = pc /\ cli'[c].op = cli[c].op BY <3>2, <1>T DEF Command
    <3>4. cli'[c].undo = cli[c].undo BY <3>2, <1>T DEF Command
    <3>5. cli'[c].undo => cli[c].undo BY <3>4
    <3>. QED BY <1>2, <3>3, <3>5, <1>0 DEF OpsFit, Verify
  <2>. QED BY <2>1, <2>2
<1>3. CASE Open(c)
  <2>1. CASE store' = None BY <1>3, <2>1, <1>0, MovedOps DEF Open
  <2>2. CASE store' # None
    <3>1. PICK pc \in {"acquire", "current", "look"} :
            /\ cli' = [cli EXCEPT ![c].key = store', ![c].pc = pc]
            /\ pc = "look" => cli[c].op # "rotate"
            /\ pc = "current" => cli[c].op = "rotate"
      BY <1>3, <2>2 DEF Open
    <3>2. cli'[c] = [cli[c] EXCEPT !.key = store', !.pc = pc] BY <3>1, <1>T
    <3>3. cli'[c].pc = pc /\ cli'[c].op = cli[c].op BY <3>2, <1>T DEF Command
    <3>4. cli'[c].undo = cli[c].undo BY <3>2, <1>T DEF Command
    <3>5. cli'[c].undo => cli[c].undo BY <3>4
    <3>. QED BY <3>1, <3>3, <3>5, <1>0 DEF OpsFit
  <2>. QED BY <2>1, <2>2
<1>4. CASE Look(c)
  <2>1. CASE \E pc : Goto(c, pc) /\ pc \in {"failed", "done"} BY <2>1, <1>0, MovedOps
  <2>2. CASE ~\E pc : Goto(c, pc) /\ pc \in {"failed", "done"}
    <3>1. PICK pc \in {"check", "acquire"} :
            cli' = [cli EXCEPT ![c].seen = vault, ![c].pc = pc]
      BY <1>4, <2>2 DEF Look
    <3>2. cli'[c] = [cli[c] EXCEPT !.seen = vault, !.pc = pc] BY <3>1, <1>T
    <3>3. cli'[c].pc = pc /\ cli'[c].op = cli[c].op BY <3>2, <1>T DEF Command
    <3>4. cli'[c].undo = cli[c].undo BY <3>2, <1>T DEF Command
    <3>5. cli'[c].undo => cli[c].undo BY <3>4
    <3>. QED BY <3>3, <3>5, <1>0 DEF OpsFit
  <2>. QED BY <2>1, <2>2
<1>5. CASE Acquire(c) BY <1>5, <1>0, MovedOps, RefusedOps DEF Acquire, OpsFit
<1>6. CASE WriteLock(c) BY <1>6, <1>0, MovedOps, RefusedOps DEF WriteLock, OpsFit
<1>7. CASE TakeOver(c) BY <1>7, <1>0, MovedOps, RefusedOps DEF TakeOver, OpsFit
<1>8. CASE Take(c) BY <1>8, <1>0, MovedOps, RefusedOps DEF Take, OpsFit
<1>9. CASE Release(c) BY <1>9, <1>0, MovedOps, RefusedOps DEF Release, OpsFit
<1>10. CASE Locked(c)
  <2>1. CASE \E pc : Goto(c, pc) /\ pc \in {"fill", "release", "release_refused"}
    BY <2>1, <1>0, MovedOps
  <2>2. CASE ~\E pc : Goto(c, pc) /\ pc \in {"fill", "release", "release_refused"}
    <3>1. cli' = [cli EXCEPT ![c].read = vault, ![c].pc = "write"] BY <1>10, <2>2 DEF Locked
    <3>2. cli'[c] = [cli[c] EXCEPT !.read = vault, !.pc = "write"] BY <3>1, <1>T
    <3>3. cli'[c].pc = "write" /\ cli'[c].op = cli[c].op BY <3>2, <1>T DEF Command
    <3>4. cli'[c].undo = cli[c].undo BY <3>2, <1>T DEF Command
    <3>5. cli'[c].undo => cli[c].undo BY <3>4
    <3>. QED BY <3>3, <3>5, <1>0 DEF OpsFit
  <2>. QED BY <2>1, <2>2
<1>11. CASE Fill(c) BY <1>11, <1>0, MovedOps, RefusedOps DEF Fill, OpsFit
<1>12. CASE Write(c) BY <1>12, <1>0, MovedOps, RefusedOps DEF Write, OpsFit
<1>13. CASE Check(c) BY <1>13, <1>0, MovedOps, RefusedOps DEF Check, OpsFit
<1>14. CASE Scrub(c) BY <1>14, <1>0, MovedOps, RefusedOps DEF Scrub, OpsFit
<1>15. CASE Current(c)
  <2>1. CASE cli[c].op = "restore"
    <3>1. PICK pc \in {"done", "replace"} :
            cli' = [cli EXCEPT ![c].old = store, ![c].next = Escrow(c), ![c].pc = pc]
      BY <1>15, <2>1 DEF Current
    <3>2. cli'[c] = [cli[c] EXCEPT !.old = store, !.next = Escrow(c), !.pc = pc]
      BY <3>1, <1>T
    <3>3. cli'[c].pc = pc /\ cli'[c].op = cli[c].op BY <3>2, <1>T DEF Command
    <3>4. cli'[c].undo = cli[c].undo BY <3>2, <1>T DEF Command
    <3>5. cli'[c].undo => cli[c].undo BY <3>4
    <3>. QED BY <3>3, <3>5, <1>0 DEF OpsFit
  <2>2. CASE cli[c].op # "restore"
    <3>1. PICK pc \in {"stage", "failed"} :
            cli' = [cli EXCEPT ![c].old = store, ![c].pc = pc]
      BY <1>15, <2>2 DEF Current
    <3>2. cli'[c] = [cli[c] EXCEPT !.old = store, !.pc = pc] BY <3>1, <1>T
    <3>3. cli'[c].pc = pc /\ cli'[c].op = cli[c].op BY <3>2, <1>T DEF Command
    <3>4. cli'[c].undo = cli[c].undo BY <3>2, <1>T DEF Command
    <3>5. cli'[c].undo => cli[c].undo BY <3>4
    <3>. QED BY <1>15, <2>2, <3>3, <3>5, <1>0 DEF OpsFit, Current
  <2>. QED BY <2>1, <2>2
<1>16. CASE Stage(c)
  <2>1. cli' = [cli EXCEPT ![c].next = used', ![c].pc = "replace"] BY <1>16 DEF Stage
  <2>2. cli'[c] = [cli[c] EXCEPT !.next = used', !.pc = "replace"] BY <2>1, <1>T
  <2>3. cli'[c].pc = "replace" /\ cli'[c].op = cli[c].op BY <2>2, <1>T DEF Command
  <2>4. cli'[c].undo = cli[c].undo BY <2>2, <1>T DEF Command
  <2>5. cli'[c].undo => cli[c].undo BY <2>4
  <2>. QED BY <2>3, <2>5, <1>0 DEF OpsFit
<1>17. CASE Replace(c) BY <1>17, <1>0, MovedOps, RefusedOps DEF Replace, OpsFit
<1>18. CASE Replacing(c) BY <1>18, <1>0, MovedOps, RefusedOps DEF Replacing, OpsFit
<1>19. CASE Promote(c) BY <1>19, <1>0, MovedOps, RefusedOps DEF Promote, OpsFit
<1>20. CASE Unlink(c) BY <1>20, <1>0, MovedOps, RefusedOps DEF Unlink, OpsFit
<1>21. CASE Confirm(c) BY <1>21, <1>0, MovedOps, RefusedOps DEF Confirm, OpsFit
<1>22. CASE Crash(c) BY <1>22, <1>0, MovedOps, RefusedOps DEF Crash, OpsFit
<1>23. CASE Recover(c)
  <2>1. PICK f \in {"recovery", "staged"} :
          cli' = [cli EXCEPT ![c] = [Idle EXCEPT !.op = "restore", !.from = f, !.pc = "verify"]]
    BY <1>23 DEF Recover
  <2>2. cli'[c].op = "restore" /\ cli'[c].pc = "verify" /\ ~cli'[c].undo
    BY <2>1, <1>T DEF Idle
  <2>. QED BY <2>2, <1>0 DEF OpsFit
<1>. QED BY <1>1, <1>2, <1>3, <1>4, <1>5, <1>6, <1>7, <1>8, <1>9, <1>10, <1>11, <1>12, <1>13, <1>14, <1>15, <1>16, <1>17, <1>18, <1>19, <1>20, <1>21, <1>22, <1>23 DEF Step, Steps

\* A command that moves on without touching a file.
LEMMA MovedSound ==
    ASSUME TypeOK, NEW c \in Clis, Sound, Alone(c),
           UNCHANGED <<max, vault, recovery, staged, plain>>, LockHeld',
           NEW pc, Goto(c, pc), pc \notin {"write", "fill", "scrub"},
           Rotating(c)' => /\ Rotating(c)
                           /\ pc \in {"release", "promote"} <=> cli[c].pc \in {"release", "promote"}
    PROVE  Sound'
<1>1. cli'[c].pc = pc /\ cli'[c].next = cli[c].next BY Moves
<1>. QED BY <1>1, KeepSound

\* A command that is refused the lock.
LEMMA RefusedSound ==
    ASSUME TypeOK, NEW c \in Clis, Sound, Alone(c),
           UNCHANGED <<max, vault, recovery, staged, plain>>, LockHeld',
           cli[c].pc \in {"acquire", "take_over", "take", "release_refused"},
           cli' = [cli EXCEPT ![c].pc = Refused(c), ![c].undo = Undone(c)]
    PROVE  Sound'
<1>1. /\ cli'[c].pc \in {"replace", "failed"} /\ cli'[c].next = cli[c].next
      /\ cli'[c].op = cli[c].op
  BY Refusals
<1>2. Rotating(c)' => Rotating(c) BY <1>1 DEF Rotating, Critical
<1>. QED BY <1>1, <1>2, KeepSound

\* The start of a command, its look at the vault and at the keys.
LEMMA OpeningSound ==
    ASSUME TypeOK, NEW c \in Clis, OpsFit(c), Sound, Alone(c), max' = max,
           Start(c) \/ Recover(c) \/ Verify(c) \/ Open(c) \/ Look(c) \/ Current(c)
    PROVE  Sound'
<1>T. cli \in [Clis -> Command] /\ cli[c] \in Command BY DEF TypeOK
<1>1. /\ cli'[c].pc \in {"verify", "open", "current", "look", "acquire", "check", "stage",
                         "replace", "done", "failed"}
      /\ cli'[c].pc \in {"acquire", "replace"} => cli'[c].op # "rotate"
  <2>1. CASE Start(c)
    <3>1. PICK op \in max.ops, n \in Names, f \in {"recovery", "staged"} :
            cli' = [cli EXCEPT ![c] = [Idle EXCEPT
                  !.op = op, !.name = n, !.from = f,
                  !.pc = IF op \in {"rotate", "restore"} THEN "verify" ELSE "open"]]
      <4>1. \E op \in max.ops, n \in Names, f \in {"recovery", "staged"} :
              /\ op = "restore" \/ f = "recovery"
              /\ op \in {"set", "swap", "remove"} \/ n = Idle.name
              /\ cli' = [cli EXCEPT ![c] = [Idle EXCEPT
                    !.op = op, !.name = n, !.from = f,
                    !.pc = IF op \in {"rotate", "restore"} THEN "verify" ELSE "open"]]
        BY <2>1 DEF Start
      <4>. QED BY <4>1
    <3>2. cli'[c].pc \in {"verify", "open"} BY <3>1, <1>T DEF Idle
    <3>. QED BY <3>2
  <2>2. CASE Recover(c)
    <3>1. PICK f \in {"recovery", "staged"} :
            cli' = [cli EXCEPT ![c] = [Idle EXCEPT !.op = "restore", !.from = f, !.pc = "verify"]]
      BY <2>2 DEF Recover
    <3>2. cli'[c].pc = "verify" BY <3>1, <1>T DEF Idle
    <3>. QED BY <3>2
  <2>3. CASE Verify(c) BY <2>3, <1>T DEF Verify, Goto, Command
  <2>4. CASE Open(c)
    <3>1. CASE store' = None BY <2>4, <3>1, <1>T DEF Open, Goto, Command
    <3>2. CASE store' # None
      <4>1. PICK pc \in {"acquire", "current", "look"} :
              /\ cli' = [cli EXCEPT ![c].key = store', ![c].pc = pc]
              /\ pc = "acquire" => cli[c].op # "rotate"
        BY <2>4, <3>2 DEF Open
      <4>. QED BY <4>1, <1>T DEF Command
    <3>. QED BY <3>1, <3>2
  <2>5. CASE Look(c)
    <3>1. cli[c].op # "rotate" /\ cli[c].pc = "look" BY <2>5 DEF Look, OpsFit
    <3>2. CASE \E pc \in {"failed", "done"} : Goto(c, pc) BY <3>2, Moves
    <3>3. CASE ~\E pc \in {"failed", "done"} : Goto(c, pc)
      <4>1. PICK pc \in {"check", "acquire"} :
              cli' = [cli EXCEPT ![c].seen = vault, ![c].pc = pc]
        BY <2>5, <3>3 DEF Look
      <4>. QED BY <4>1, <3>1, <1>T DEF Command
    <3>. QED BY <3>2, <3>3
  <2>6. CASE Current(c)
    <3>1. CASE cli[c].op = "restore"
      <4>1. PICK pc \in {"done", "replace"} :
              cli' = [cli EXCEPT ![c].old = store, ![c].next = Escrow(c), ![c].pc = pc]
        BY <2>6, <3>1 DEF Current
      <4>. QED BY <4>1, <3>1, <1>T DEF Command
    <3>2. CASE cli[c].op # "restore"
      <4>1. PICK pc \in {"stage", "failed"} :
              cli' = [cli EXCEPT ![c].old = store, ![c].pc = pc]
        BY <2>6, <3>2 DEF Current
      <4>. QED BY <4>1, <1>T DEF Command
    <3>. QED BY <3>1, <3>2
  <2>. QED BY <2>1, <2>2, <2>3, <2>4, <2>5, <2>6
<1>2. ~Rotating(c)' /\ cli'[c].pc \notin Critical \cup {"scrub"} BY <1>1 DEF Rotating, Critical
<1>3. vault' = vault /\ staged' = staged /\ plain' = plain /\ lock' = lock
  BY DEF Start, Recover, Verify, Open, Look, Current, keys
<1>4. LockHeld' BY <1>2, <1>3, KeepLock DEF Sound
<1>5. CASE recovery' = recovery BY <1>1, <1>2, <1>3, <1>4, <1>5, KeepSound
<1>6. CASE recovery' # recovery
  <2>1. Look(c) /\ Opens(cli[c].key) /\ recovery = None /\ recovery' = cli[c].key
    BY <1>6 DEF Start, Recover, Verify, Open, Look, Current, keys
  <2>2. WriteCurrent' BY <1>1, <1>3, KeepWrite DEF Sound
  <2>3. max.fresh => PlainFit' BY <1>1, <1>3, KeepPlain DEF Sound
  <2>4. ~max.fresh => KeysFit'
    <3>. SUFFICES ASSUME ~max.fresh PROVE KeysFit' OBVIOUS
    <3>1. KeysFit BY DEF Sound
    <3>2. Opens(recovery)' BY <2>1, <1>3 DEF Opens
    <3>3. \A d \in Clis \ {c} : Rotating(d)' => Rotating(d) BY DEF Rotating, Alone
    <3>4. ASSUME NEW d \in Clis, Rotating(d)' PROVE Escrowed(d)'
      <4>1. d # c /\ Rotating(d) /\ Escrowed(d) /\ cli'[d] = cli[d]
        BY <3>1, <3>3, <3>4, <1>2 DEF KeysFit, Alone
      <4>. QED BY <4>1, <3>2, <1>3 DEF Escrowed
    <3>. QED BY <3>1, <3>2, <3>3, <3>4, <1>2 DEF KeysFit
  <2>. QED BY <1>4, <2>2, <2>3, <2>4 DEF Sound
<1>. QED BY <1>5, <1>6

\* The lock file is created, filled, taken over and removed.
LEMMA LockingSound ==
    ASSUME TypeOK, NEW c \in Clis, OpsFit(c), Sound, Alone(c), max' = max, ~clashed',
           Acquire(c) \/ WriteLock(c) \/ TakeOver(c) \/ Take(c) \/ Release(c)
    PROVE  Sound'
<1>. USE DEF keys
<1>1. CASE Acquire(c)
  <2>1. UNCHANGED <<vault, recovery, staged, plain>> /\ cli[c].pc = "acquire" BY <1>1 DEF Acquire
  <2>2. CASE lock = NoLock
    <3>1. Goto(c, "write_lock") /\ lock'.by = c BY <1>1, <2>2 DEF Acquire
    <3>2. LockHeld' BY <2>2, <3>1, NewLock DEF Sound
    <3>3. Rotating(c)' => Rotating(c) BY <2>1, <3>1, Moves DEF Rotating
    <3>. QED BY <2>1, <3>1, <3>2, <3>3, MovedSound
  <2>3. CASE lock # NoLock /\ Goto(c, "take_over")
    <3>1. LockHeld' BY <1>1, <2>3, Moves, KeepLock DEF Acquire, Sound, Critical
    <3>2. Rotating(c)' => Rotating(c) BY <2>1, <2>3, Moves DEF Rotating
    <3>. QED BY <2>1, <2>3, <3>1, <3>2, MovedSound
  <2>4. CASE lock # NoLock /\ cli' = [cli EXCEPT ![c].pc = Refused(c), ![c].undo = Undone(c)]
    <3>1. cli'[c].pc \in {"replace", "failed"} BY <2>4, Refusals
    <3>2. LockHeld' BY <1>1, <2>4, <3>1, KeepLock DEF Acquire, Sound, Critical
    <3>. QED BY <2>1, <2>4, <3>2, RefusedSound
  <2>. QED BY <1>1, <2>2, <2>3, <2>4 DEF Acquire
<1>2. CASE WriteLock(c)
  <2>1. /\ UNCHANGED <<vault, recovery, staged, plain>> /\ cli[c].pc = "write_lock"
        /\ Goto(c, "locked")
    BY <1>2 DEF WriteLock
  <2>2. lock'.by = lock.by BY <1>2 DEF WriteLock, TypeOK
  <2>3. LockHeld' BY <2>1, <2>2, KeepLock DEF Sound, Critical
  <2>4. Rotating(c)' => Rotating(c) BY <2>1, Moves DEF Rotating, Critical
  <2>. QED BY <2>1, <2>3, <2>4, MovedSound
<1>3. CASE TakeOver(c)
  <2>1. UNCHANGED <<vault, recovery, staged, plain>> /\ cli[c].pc = "take_over"
    BY <1>3 DEF TakeOver
  <2>2. CASE lock = NoLock
    <3>1. /\ cli' = [cli EXCEPT ![c].pc = Refused(c), ![c].undo = Undone(c)]
          /\ lock' = lock
      BY <1>3, <2>2 DEF TakeOver
    <3>2. cli'[c].pc \in {"replace", "failed"} BY <3>1, Refusals
    <3>3. LockHeld' BY <3>1, <3>2, KeepLock DEF Sound, Critical
    <3>. QED BY <2>1, <3>1, <3>3, RefusedSound
  <2>3. CASE lock # NoLock
    <3>1. Goto(c, "take") /\ cli[lock.by].pc = "dead" BY <1>3, <2>3 DEF TakeOver
    <3>2. \A d \in Clis : cli[d].pc \notin Critical BY <3>1 DEF Sound, LockHeld, Critical
    <3>3. LockHeld' BY <3>1, <3>2, Moves DEF LockHeld, Alone, Critical
    <3>4. Rotating(c)' => Rotating(c) BY <2>1, <3>1, Moves DEF Rotating
    <3>. QED BY <2>1, <3>1, <3>3, <3>4, MovedSound
  <2>. QED BY <2>2, <2>3
<1>4. CASE Take(c)
  <2>1. UNCHANGED <<vault, recovery, staged, plain>> /\ cli[c].pc = "take" BY <1>4 DEF Take
  <2>2. CASE lock = NoLock
    <3>1. Goto(c, "write_lock") /\ lock'.by = c BY <1>4, <2>2 DEF Take
    <3>2. LockHeld' BY <2>2, <3>1, NewLock DEF Sound
    <3>3. Rotating(c)' => Rotating(c) BY <2>1, <3>1, Moves DEF Rotating
    <3>. QED BY <2>1, <3>1, <3>2, <3>3, MovedSound
  <2>3. CASE lock # NoLock
    <3>1. /\ cli' = [cli EXCEPT ![c].pc = Refused(c), ![c].undo = Undone(c)]
          /\ lock' = lock
      BY <1>4, <2>3 DEF Take
    <3>2. cli'[c].pc \in {"replace", "failed"} BY <3>1, Refusals
    <3>3. LockHeld' BY <3>1, <3>2, KeepLock DEF Sound, Critical
    <3>. QED BY <2>1, <3>1, <3>3, RefusedSound
  <2>. QED BY <2>2, <2>3
<1>5. CASE Release(c)
  <2>1. /\ UNCHANGED <<vault, recovery, staged, plain>>
        /\ cli[c].pc \in {"release", "release_refused"}
    BY <1>5 DEF Release
  <2>2. ASSUME NEW d \in Clis, d # c PROVE cli[d].pc \notin Critical
    BY <2>1, <2>2 DEF Sound, LockHeld, Critical
  <2>3. CASE cli[c].pc = "release_refused"
    <3>1. cli' = [cli EXCEPT ![c].pc = Refused(c), ![c].undo = Undone(c)]
      BY <1>5, <2>3 DEF Release
    <3>2. cli'[c].pc \in {"replace", "failed"} BY <3>1, Refusals
    <3>3. LockHeld' BY <2>2, <3>2 DEF LockHeld, Alone, Critical
    <3>. QED BY <2>1, <2>3, <3>1, <3>3, RefusedSound
  <2>4. CASE cli[c].pc = "release"
    <3>1. PICK pc \in {"promote", "look", "check", "done"} :
            Goto(c, pc) /\ (cli[c].op = "rotate" => pc = "promote")
      BY <1>5, <2>4 DEF Release
    <3>2. LockHeld' BY <2>2, <3>1, Moves DEF LockHeld, Alone, Critical
    <3>3. Rotating(c)' => Rotating(c) /\ pc = "promote"
      BY <2>4, <3>1, Moves DEF Rotating, Critical
    <3>. QED BY <2>1, <2>4, <3>1, <3>2, <3>3, MovedSound
  <2>. QED BY <2>1, <2>3, <2>4
<1>. QED BY <1>1, <1>2, <1>3, <1>4, <1>5

\* A rotation that stages a key, replaces it in the key store and promotes it.
LEMMA RotatingSound ==
    ASSUME TypeOK, NEW c \in Clis, OpsFit(c), Sound, Alone(c), max' = max, ~clashed',
           \/ Stage(c) \/ Replace(c) \/ Replacing(c) \/ Promote(c) \/ Unlink(c) \/ Confirm(c)
           \/ Crash(c)
    PROVE  Sound'
<1>. USE DEF keys
<1>T. cli \in [Clis -> Command] /\ cli[c] \in Command BY DEF TypeOK
<1>1. /\ vault' = vault /\ plain' = plain /\ lock' = lock
      /\ cli'[c].pc \in {"replace", "replacing", "acquire", "unstage", "unlink", "confirm",
                         "done", "failed", "dead"}
      /\ cli'[c].op = cli[c].op
      /\ Stage(c) \/ cli'[c].next = cli[c].next
  <2>1. CASE Stage(c) BY <2>1, <1>T DEF Stage, Command
  <2>2. CASE Replace(c) BY <2>2, Moves DEF Replace
  <2>3. CASE Replacing(c) BY <2>3, Moves DEF Replacing
  <2>4. CASE Promote(c) BY <2>4, Moves DEF Promote
  <2>5. CASE Unlink(c) BY <2>5, Moves DEF Unlink
  <2>6. CASE Confirm(c) BY <2>6, Moves DEF Confirm
  <2>7. CASE Crash(c) BY <2>7, Moves DEF Crash
  <2>. QED BY <2>1, <2>2, <2>3, <2>4, <2>5, <2>6, <2>7
<1>2. LockHeld' BY <1>1, KeepLock DEF Sound, Critical
<1>3. WriteCurrent' BY <1>1, KeepWrite DEF Sound
<1>4. max.fresh => PlainFit' BY <1>1, KeepPlain DEF Sound
<1>5. ASSUME ~max.fresh PROVE KeysFit'
  <2>1. KeysFit BY <1>5 DEF Sound
  <2>2. \A d \in Clis \ {c} : Rotating(d)' = Rotating(d) BY DEF Rotating, Alone
  <2>3. CASE Stage(c)
    <3>1. /\ staged = None /\ staged' = used' /\ used' # None
          /\ cli'[c].next = used' /\ recovery' = recovery /\ cli'[c].pc = "replace"
      BY <2>3, <1>T DEF Stage, Command, TypeOK, None
    <3>2. Opens(recovery) BY <2>1, <3>1 DEF KeysFit, Opens
    <3>3. \A d \in Clis : ~Rotating(d) BY <2>1, <3>1 DEF KeysFit, Escrowed
    <3>4. Escrowed(c)' /\ Opens(recovery)' BY <3>1, <3>2, <1>1 DEF Escrowed, Opens
    <3>. QED BY <2>2, <3>3, <3>4 DEF KeysFit
  <2>4. CASE Replace(c) \/ Replacing(c) \/ Crash(c) \/ Confirm(c)
    <3>1. UNCHANGED <<recovery, staged>> BY <2>4 DEF Replace, Replacing, Crash, Confirm
    <3>2. CASE Replace(c) \/ Replacing(c)
      <4>1. cli[c].pc \in {"replace", "replacing"} BY <3>2 DEF Replace, Replacing
      <4>2. cli'[c].next = cli[c].next
        BY <3>2, Moves DEF Replace, Replacing
      <4>3. Rotating(c)' => Rotating(c) BY <1>1, <4>1 DEF Rotating
      <4>. QED BY <1>1, <2>1, <3>1, <4>1, <4>2, <4>3, KeepKeys
    <3>3. CASE Crash(c) \/ Confirm(c)
      <4>1. cli'[c].pc \in {"dead", "done", "failed"} BY <3>3, Moves DEF Crash, Confirm
      <4>2. ~Rotating(c)' BY <4>1 DEF Rotating, Critical
      <4>. QED BY <1>1, <2>1, <3>1, <4>2, KeepKeys
    <3>. QED BY <2>4, <3>2, <3>3
  <2>5. CASE Promote(c)
    <3>1. cli[c].pc = "promote" /\ Rotating(c) BY <2>5 DEF Promote, OpsFit, Rotating
    <3>2. Escrowed(c) /\ staged # None /\ vault.key = staged BY <2>1, <3>1 DEF KeysFit, Escrowed
    <3>3. recovery' = staged /\ staged' = staged /\ Goto(c, "unlink") BY <2>5, <3>2 DEF Promote
    <3>4. Opens(recovery)' /\ Escrowed(c)'
      BY <1>1, <3>2, <3>3, Moves DEF Opens, Escrowed
    <3>5. \A d \in Clis : Rotating(d)' => d = c BY <2>1, <2>2, <3>1 DEF KeysFit
    <3>. QED BY <3>4, <3>5 DEF KeysFit
  <2>6. CASE Unlink(c)
    <3>1. cli[c].pc \in {"unlink", "unstage"} /\ Rotating(c)
      BY <2>6 DEF Unlink, OpsFit, Rotating
    <3>2. Opens(recovery) /\ recovery' = recovery BY <2>1, <2>6, <3>1 DEF KeysFit, Escrowed, Unlink
    <3>3. cli'[c].pc \in {"confirm", "failed"} BY <2>6, Moves DEF Unlink
    <3>4. \A d \in Clis : ~Rotating(d)'
      BY <2>1, <2>2, <3>1, <3>3 DEF KeysFit, Rotating, Critical
    <3>. QED BY <1>1, <3>2, <3>4 DEF KeysFit, Opens
  <2>. QED BY <2>3, <2>4, <2>5, <2>6
<1>. QED BY <1>1, <1>2, <1>3, <1>4, <1>5 DEF Sound

\* Only the command that holds the lock writes the vault.
LEMMA OneWriter ==
    ASSUME LockHeld, NEW c \in Clis, cli[c].pc \in Critical, NEW d \in Clis \ {c}
    PROVE  cli[d].pc \notin Critical
BY DEF LockHeld

\* The vault file is created, filled, read again and replaced under the lock.
LEMMA WritingSound ==
    ASSUME TypeOK, NEW c \in Clis, OpsFit(c), Sound, Alone(c), max' = max, ~clashed',
           Locked(c) \/ Fill(c) \/ Write(c)
    PROVE  Sound'
<1>. USE DEF keys
<1>T. cli \in [Clis -> Command] /\ cli[c] \in Command BY DEF TypeOK
<1>1. /\ UNCHANGED <<recovery, staged, plain, lock>>
      /\ cli[c].pc \in {"locked", "fill", "write"}
  BY DEF Locked, Fill, Write
<1>2. \A d \in Clis \ {c} : cli[d].pc \notin Critical
  BY <1>1, OneWriter DEF Sound, Critical
<1>3. LockHeld' BY <1>1, KeepLock DEF Sound, Critical
<1>4. CASE Locked(c)
  <2>1. CASE Initializing(c) /\ ~Exists
    <3>1. vault = Absent /\ vault' = Torn /\ Goto(c, "fill")
      BY <1>4, <2>1 DEF Locked, Exists
    <3>2. WriteCurrent' BY <1>2, <3>1, Moves DEF WriteCurrent, Alone, Critical
    <3>3. max.fresh => PlainFit'
      <4>. SUFFICES ASSUME max.fresh PROVE PlainFit' OBVIOUS
      <4>1. \A n \in Names : vault.entries[n] = None BY <3>1 DEF Absent
      <4>2. \A n \in Names : plain[n] # None BY <4>1 DEF Sound, PlainFit
      <4>3. \A d \in Clis : cli[d].pc # "scrub"
        BY <4>1, InstancesAssumption DEF Sound, PlainFit
      <4>. QED BY <1>1, <3>1, <4>2, <4>3, Moves DEF PlainFit, Alone
    <3>4. max.fresh
      <4>1. vault.key = None BY <3>1 DEF Absent
      <4>. QED BY <4>1 DEF Sound, KeysFit, Opens
    <3>. QED BY <1>3, <3>2, <3>3, <3>4 DEF Sound
  <2>2. CASE ~(Initializing(c) /\ ~Exists) /\ \E pc \in {"release_refused", "release"} : Goto(c, pc)
    <3>a. cli'[c].pc \in {"release_refused", "release"} BY <2>2, Moves
    <3>b. cli' # [cli EXCEPT ![c].read = vault, ![c].pc = "write"]
      BY <3>a, <1>T DEF Command
    <3>c. \/ Goto(c, "release_refused")
          \/ Goto(c, "release") /\ cli[c].op \in {"init", "migrate", "remove"}
      BY <1>4, <2>2, <3>b DEF Locked, Initializing
    <3>1. PICK pc \in {"release_refused", "release"} :
            Goto(c, pc) /\ (pc = "release" => cli[c].op # "rotate")
      BY <3>c
    <3>2. vault' = vault BY <1>4, <2>2 DEF Locked
    <3>3. cli[c].pc = "locked" BY <1>4 DEF Locked
    <3>4. Rotating(c)' => Rotating(c) /\ pc = "release_refused"
      BY <3>1, <3>3, Moves DEF Rotating, Critical
    <3>. QED BY <1>1, <1>3, <3>1, <3>2, <3>3, <3>4, MovedSound
  <2>3. CASE ~(Initializing(c) /\ ~Exists) /\ ~\E pc \in {"release_refused", "release"} : Goto(c, pc)
    <3>1. /\ Opens(cli[c].key) /\ vault' = vault /\ cli[c].pc = "locked"
          /\ cli' = [cli EXCEPT ![c].read = vault, ![c].pc = "write"]
      BY <1>4, <2>3 DEF Locked
    <3>2. /\ cli'[c].read = vault /\ cli'[c].pc = "write" /\ cli'[c].key = cli[c].key
          /\ cli'[c].op = cli[c].op /\ cli'[c].next = cli[c].next
      BY <3>1, <1>T DEF Command
    <3>3. WriteCurrent' BY <3>1, <3>2 DEF Sound, WriteCurrent, Alone, Opens
    <3>4. max.fresh => PlainFit' BY <1>1, <3>1, <3>2, KeepPlain DEF Sound
    <3>5. Rotating(c)' => Rotating(c) BY <3>1, <3>2 DEF Rotating, Critical
    <3>6. ~max.fresh => KeysFit' BY <1>1, <3>1, <3>2, <3>5, KeepKeys DEF Sound
    <3>. QED BY <1>3, <3>3, <3>4, <3>6 DEF Sound
  <2>. QED BY <2>1, <2>2, <2>3
<1>5. CASE Fill(c)
  <2>1. vault = Torn /\ vault' = [Torn EXCEPT !.key = cli[c].key] /\ Goto(c, "release")
    BY <1>5 DEF Fill, Sound, WriteCurrent
  <2>2. WriteCurrent' BY <1>2, <2>1, Moves DEF WriteCurrent, Alone, Critical
  <2>3. max.fresh
    <3>1. vault.key = None BY <2>1 DEF Torn, Absent
    <3>. QED BY <3>1 DEF Sound, KeysFit, Opens
  <2>4. PlainFit'
    <3>1. \A n \in Names : vault.entries[n] = None /\ vault'.entries[n] = None
      BY <2>1 DEF Torn, Absent
    <3>2. \A d \in Clis : cli[d].pc # "scrub"
      BY <2>3, <3>1, InstancesAssumption DEF Sound, PlainFit
    <3>. QED BY <1>1, <2>1, <2>3, <3>1, <3>2, Moves DEF Sound, PlainFit, Alone
  <2>. QED BY <1>3, <2>2, <2>3, <2>4 DEF Sound
<1>6. CASE Write(c)
  <2>1. /\ cli[c].pc = "write" /\ Goto(c, "release") /\ used' \in Nat
        /\ cli[c].op \in {"set", "swap"} => used' # None
        /\ vault' = [key |-> IF cli[c].op = "rotate" THEN cli[c].next ELSE cli[c].key,
                     generation |-> cli[c].read.generation + 1, entries |-> Entries(c, used')]
    BY <1>6 DEF Write, TypeOK, None
  <2>2. vault = cli[c].read /\ Opens(cli[c].key) BY <2>1 DEF Sound, WriteCurrent
  <2>3. /\ cli'[c].pc = "release" /\ cli'[c].op = cli[c].op /\ cli'[c].next = cli[c].next
    BY <2>1, Moves
  <2>4. WriteCurrent' BY <1>2, <2>3 DEF WriteCurrent, Alone, Critical
  <2>5. ASSUME max.fresh PROVE PlainFit'
    <3>1. cli[c].op # "remove" BY <2>5 DEF OpsFit
    <3>2. \A n \in Names : vault.entries[n] # None => vault'.entries[n] # None
      <4>1. vault.entries \in [Names -> Nat] BY DEF TypeOK, Vault
      <4>2. vault'.entries = Entries(c, used') BY <2>1
      <4>3. CASE cli[c].op \in {"set", "swap"}
        <5>1. Entries(c, used') = [vault.entries EXCEPT ![cli[c].name] = used']
          BY <2>2, <4>3 DEF Entries
        <5>. QED BY <2>1, <4>1, <4>2, <4>3, <5>1
      <4>4. CASE cli[c].op = "migrate"
        <5>1. Entries(c, used') = [n \in Names |-> IF n \in Missing(cli[c].seen) THEN plain[n]
                                                   ELSE vault.entries[n]]
          BY <2>2, <4>4 DEF Entries
        <5>. QED BY <4>2, <5>1 DEF Missing
      <4>5. CASE cli[c].op \notin {"set", "swap", "migrate", "remove"}
        BY <2>2, <4>2, <4>5 DEF Entries
      <4>. QED BY <3>1, <4>3, <4>4, <4>5
    <3>. QED BY <1>1, <2>3, <2>5, <3>2 DEF Sound, PlainFit, Alone
  <2>6. ASSUME ~max.fresh PROVE KeysFit'
    <3>1. KeysFit BY <2>6 DEF Sound
    <3>2. \A d \in Clis \ {c} : Rotating(d)' = Rotating(d) BY DEF Rotating, Alone
    <3>3. CASE cli[c].op = "rotate"
      <4>1. Rotating(c) /\ Escrowed(c) BY <2>1, <3>1, <3>3 DEF Rotating, Critical, KeysFit
      <4>2. vault'.key = staged /\ staged # None BY <2>1, <3>3, <4>1 DEF Escrowed
      <4>3. Escrowed(c)' BY <1>1, <2>3, <4>1, <4>2 DEF Escrowed
      <4>4. \A d \in Clis : Rotating(d)' => d = c BY <3>1, <3>2, <4>1 DEF KeysFit
      <4>. QED BY <1>1, <4>2, <4>3, <4>4 DEF KeysFit, Opens
    <3>4. CASE cli[c].op # "rotate"
      <4>1. vault'.key = vault.key BY <2>1, <2>2, <3>4 DEF Opens
      <4>2. ~Rotating(c)' /\ ~Rotating(c) BY <2>3, <3>4 DEF Rotating
      <4>3. \A d \in Clis : Rotating(d)' => Escrowed(d)'
        BY <1>1, <3>1, <3>2, <4>1, <4>2 DEF KeysFit, Escrowed, Opens, Alone
      <4>. QED BY <1>1, <3>1, <3>2, <4>1, <4>2, <4>3 DEF KeysFit, Opens
    <3>. QED BY <3>3, <3>4
  <2>. QED BY <1>3, <2>4, <2>5, <2>6 DEF Sound
<1>. QED BY <1>4, <1>5, <1>6

\* A migration checks what it wrote, then rewrites the plain files.
LEMMA MigratingSound ==
    ASSUME TypeOK, NEW c \in Clis, OpsFit(c), Sound, Alone(c), max' = max,
           Check(c) \/ Scrub(c)
    PROVE  Sound'
<1>. USE DEF keys
<1>1. UNCHANGED <<vault, recovery, staged, lock>> /\ cli[c].pc \in {"check", "scrub"}
  BY DEF Check, Scrub
<1>2. /\ cli' = cli \/ \E pc \in {"scrub", "done", "failed"} : Goto(c, pc)
  BY DEF Check, Scrub
<1>3. cli'[c].pc \in {"scrub", "done", "failed"}
  BY <1>2, Moves DEF Check, Scrub
<1>4. LockHeld' BY <1>1, <1>3, KeepLock DEF Sound, Critical
<1>5. WriteCurrent' BY <1>1, <1>3, KeepWrite DEF Sound
<1>6. ~Rotating(c)' BY <1>3 DEF Rotating, Critical
<1>7. ~max.fresh => KeysFit' BY <1>1, <1>6, KeepKeys DEF Sound
<1>8. ASSUME max.fresh PROVE PlainFit'
  <2>1. PlainFit BY <1>8 DEF Sound
  <2>2. CASE Check(c)
    <3>1. plain' = plain BY <2>2 DEF Check
    <3>2. CASE cli'[c].pc = "scrub"
      <4>1. \A n \in Names : plain[n] # None =>
              vault.entries[n] = IF n \in Missing(cli[c].seen) THEN plain[n]
                                 ELSE cli[c].seen.entries[n]
        BY <2>2, <3>2, Moves DEF Check
      <4>2. \A n \in Names : vault.entries[n] # None BY <2>1, <4>1 DEF PlainFit, Missing
      <4>. QED BY <1>1, <2>1, <3>1, <4>2 DEF PlainFit, Alone
    <3>3. CASE cli'[c].pc # "scrub" BY <1>1, <2>1, <3>1, <3>3, KeepPlain
    <3>. QED BY <3>2, <3>3
  <2>3. CASE Scrub(c)
    <3>1. \A n \in Names : vault.entries[n] # None BY <2>1, <2>3 DEF PlainFit, Scrub
    <3>. QED BY <1>1, <3>1 DEF PlainFit
  <2>. QED BY <2>2, <2>3
<1>. QED BY <1>4, <1>5, <1>7, <1>8 DEF Sound

\* Every step keeps the invariant.
LEMMA NextFits == TypeOK /\ Fit /\ [Next]_vars => Fit'
<1>. SUFFICES ASSUME TypeOK, Fit, [Next]_vars PROVE Fit' OBVIOUS
<1>1. CASE UNCHANGED vars
  BY <1>1 DEF vars, keys, spent, Fit, OpsFit, Sound, LockHeld, WriteCurrent, PlainFit, KeysFit,
              Rotating, Escrowed, Opens
<1>2. ASSUME NEW c \in Clis, Step(c) PROVE Fit'
  <2>1. Alone(c) /\ max' = max /\ (clashed => clashed') BY <1>2, OneSteps
  <2>2. OpsFit(c) BY DEF Fit
  <2>3. OpsFit(c)' BY <1>2, <2>2, StepOps
  <2>4. \A d \in Clis : OpsFit(d)' BY <2>1, <2>3 DEF Fit, OpsFit, Alone
  <2>5. ASSUME ~clashed' PROVE Sound'
    <3>1. Sound BY <2>1, <2>5 DEF Fit
    <3>. QED
      BY <1>2, <2>1, <2>2, <2>5, <3>1, OpeningSound, LockingSound, RotatingSound, WritingSound,
         MigratingSound DEF Step, Steps
  <2>. QED BY <2>4, <2>5 DEF Fit
<1>. QED BY <1>1, <1>2 DEF Next, Step

\* A run starts with an escrowed key, or with the credentials in their plain files.
LEMMA InitFits == Init => Fit
<1>. SUFFICES ASSUME Init PROVE Fit OBVIOUS
<1>1. \A c \in Clis : cli[c].pc = "idle" /\ cli[c].op = "set" /\ ~cli[c].undo
  BY DEF Init, Idle
<1>2. \A c \in Clis : OpsFit(c) BY <1>1 DEF OpsFit
<1>3. LockHeld /\ WriteCurrent BY <1>1 DEF LockHeld, WriteCurrent, Critical
<1>4. PICK first \in [Names -> {None, 1}] :
        /\ plain = IF max.fresh THEN [n \in Names |-> 1] ELSE [n \in Names |-> None]
        /\ vault = IF max.fresh THEN Absent
                   ELSE [key |-> 1, generation |-> 1, entries |-> first]
  BY DEF Init
<1>5. max.fresh => PlainFit BY <1>1, <1>4 DEF PlainFit, None
<1>6. ~max.fresh => KeysFit
  <2>. SUFFICES ASSUME ~max.fresh PROVE KeysFit OBVIOUS
  <2>1. recovery = 1 BY DEF Init
  <2>2. vault.key = 1 BY <1>4
  <2>3. \A c \in Clis : ~Rotating(c) BY <1>1 DEF Rotating
  <2>. QED BY <2>1, <2>2, <2>3 DEF KeysFit, Opens, None
<1>. QED BY <1>2, <1>3, <1>5, <1>6 DEF Fit, Sound

\* Whatever the commands do at the same time and wherever they die, a recovery
\* file opens the vault, and a credential being migrated is in the vault or in its
\* plain file, unless live commands clashed.
THEOREM AlwaysRecoverable == Spec => []VaultIsRecoverable
<1>1. TypeOK /\ Fit => VaultIsRecoverable
  BY DEF Fit, Sound, KeysFit, PlainFit, VaultIsRecoverable
<1>. QED BY <1>1, InitTypes, NextTypes, InitFits, NextFits, PTL DEF Spec

\* A command replaces exactly the vault it read, unless live commands clashed.
THEOREM NoUpdateIsLost == Spec => UpdatesAreKept
<1>. DEFINE Kept == clashed \/ \A c \in Clis :
                       cli[c].pc = "write" /\ cli'[c].pc = "release" => vault = cli[c].read
<1>1. Fit /\ [Next]_vars => [Kept]_vars BY DEF Fit, Sound, WriteCurrent
<1>2. UpdatesAreKept <=> [][Kept]_vars BY DEF UpdatesAreKept
<1>. HIDE DEF Kept
<1>. QED BY <1>1, <1>2, InitTypes, NextTypes, InitFits, NextFits, PTL DEF Spec
=============================================================================
