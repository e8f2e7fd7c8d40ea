--------------------------- MODULE OperatorProofs ---------------------------
(***************************************************************************)
(* The operator's tools, for every value of their constants: the rotation  *)
(* of a credential (OperatorCredentials), and then (OperatorTools), a      *)
(* section each, the backup, the readiness probe and the preflight, the    *)
(* application update and the campaign.                                    *)
(***************************************************************************)
EXTENDS OperatorCredentials, OperatorTools, Sequences, FiniteSetTheorems, TLAPS

-----------------------------------------------------------------------------
(* OperatorCredentials: types                                              *)

Names == {"status", "resume", "prepare", "stage", "verify", "restore", "abort", "abort_back",
          "verify_back", "commit", "swap", "activate", "activate_back", "probe", "probe_back",
          "swap_back", "idle", "done", "restored", "failed"}

\* A value that was drawn stays one.
LEMMA ValuesGrow ==
    ASSUME used \in Nat, used' \in Nat, used <= used'
    PROVE  Values \subseteq Values'
BY DEF Values

\* Commands keep their shape when one moves on, with the rotation it was given.
LEMMA CommandsKept ==
    ASSUME TypeOK, used' \in Nat, used <= used', NEW c \in Clis, NEW pc \in Names,
           \/ UNCHANGED cli
           \/ Goto(c, pc)
           \/ \E r \in Values' : cli' = [cli EXCEPT ![c].pc = pc, ![c].rid = r]
    PROVE  (cli \in [Clis -> Command])'
<1>1. cli \in [Clis -> Command] BY DEF TypeOK
<1>2. Values \subseteq Values' BY ValuesGrow DEF TypeOK
<1>3. \A d \in Clis : /\ cli[d].pc \in Names /\ cli[d].kind \in {"token", "external"}
                      /\ cli[d].previous \in Values' /\ cli[d].next \in Values'
                      /\ cli[d].rid \in Values'
  BY <1>1, <1>2 DEF Command, Settled, Names
<1>4. CASE UNCHANGED cli BY <1>1, <1>2, <1>4 DEF Command
<1>5. CASE Goto(c, pc) BY <1>1, <1>2, <1>5 DEF Command, Settled, Names, Goto
<1>6. ASSUME NEW r \in Values', cli' = [cli EXCEPT ![c].pc = pc, ![c].rid = r]
      PROVE  (cli \in [Clis -> Command])'
  <2>1. \A d \in Clis : cli'[d] = IF d = c THEN [cli[c] EXCEPT !.pc = pc, !.rid = r] ELSE cli[d]
    BY <1>1, <1>6
  <2>2. [cli[c] EXCEPT !.pc = pc, !.rid = r] \in Command'
    <3>1. Command' = [pc : Names, kind : {"token", "external"}, previous : Values',
                      next : Values', rid : Values']
      BY DEF Command, Settled, Names
    <3>2. cli[c] \in Command' BY <1>1, <1>2 DEF Command
    <3>. QED BY <3>1, <3>2, <1>6
  <2>3. \A d \in Clis : cli[d] \in Command' BY <1>1, <1>2 DEF Command
  <2>4. cli' = [d \in Clis |-> cli'[d]] BY <1>1, <1>6
  <2>. QED BY <2>1, <2>2, <2>3, <2>4
<1>. QED BY <1>4, <1>5, <1>6

\* A command that starts is one.
LEMMA CommandStarts ==
    ASSUME TypeOK, used' \in Nat, used <= used', NEW c \in Clis,
           NEW pc \in {"status", "prepare", "swap"}, NEW p \in Values', NEW n \in Values',
           \/ cli' = [cli EXCEPT ![c] = [Idle EXCEPT !.pc = pc, !.previous = p, !.next = n]]
           \/ cli' = [cli EXCEPT ![c] = [Idle EXCEPT !.pc = pc, !.kind = "external",
                                                       !.previous = p, !.next = n]]
    PROVE  (cli \in [Clis -> Command])'
<1>1. cli \in [Clis -> Command] BY DEF TypeOK
<1>2. Values \subseteq Values' BY ValuesGrow DEF TypeOK
<1>3. None \in Values' BY DEF None, Values, TypeOK
<1>4. Command' = [pc : Names, kind : {"token", "external"}, previous : Values',
                  next : Values', rid : Values']
  BY DEF Command, Settled, Names
<1>5. Idle \in Command' /\ pc \in Names BY <1>3, <1>4 DEF Idle, Names
<1>6. /\ [Idle EXCEPT !.pc = pc, !.previous = p, !.next = n] \in Command'
      /\ [Idle EXCEPT !.pc = pc, !.kind = "external", !.previous = p, !.next = n] \in Command'
  BY <1>4, <1>5
<1>7. \A d \in Clis : cli[d] \in Command' BY <1>1, <1>2 DEF Command
<1>. QED BY <1>1, <1>6, <1>7

\* What a step leaves of the authority, the vault and the history keeps its types.
LEMMA RestTypes ==
    ASSUME TypeOK, used' \in Nat, used <= used', (cli \in [Clis -> Command])',
           {current', pending', rotation', committed'} \subseteq Values',
           (rotation' = None) = (pending' = None),
           vault' \in [token : Values', external : Values'],
           plane' \in [up : BOOLEAN, dispatch : Values', external : Values'],
           \/ UNCHANGED given
           \/ \E c \in Clis, r \in Values' : Gives(c, r)
    PROVE  TypeOK'
<1>1. Values \subseteq Values' BY ValuesGrow DEF TypeOK
<1>2. (given \subseteq [rid : Values, by : Clis])' BY <1>1 DEF TypeOK, Gives
<1>3. used' \in Nat \ {0} BY DEF TypeOK
<1>. QED BY <1>2, <1>3 DEF TypeOK

\* The state's own types, also after a step that draws values.
LEMMA Typed ==
    ASSUME TypeOK, used' \in Nat, used <= used'
    PROVE  /\ {current, pending, rotation, committed} \subseteq Values'
           /\ vault \in [token : Values', external : Values']
           /\ plane \in [up : BOOLEAN, dispatch : Values', external : Values']
           /\ \A c \in Clis : {cli[c].previous, cli[c].next, cli[c].rid} \subseteq Values'
<1>1. Values \subseteq Values' BY ValuesGrow DEF TypeOK
<1>2. \A c \in Clis : {cli[c].previous, cli[c].next, cli[c].rid} \subseteq Values
  BY DEF TypeOK, Command
<1>. QED BY <1>1, <1>2 DEF TypeOK

\* A process that started, or was stopped by its bearer, is a process.
LEMMA StartedTypes ==
    ASSUME TypeOK
    PROVE  Started \in [up : BOOLEAN, dispatch : Values, external : Values]
<1>1. plane \in [up : BOOLEAN, dispatch : Values, external : Values]
      /\ vault \in [token : Values, external : Values]
  BY DEF TypeOK
<1>. QED BY <1>1 DEF Started

\* The steps of the control plane.
LEMMA PlaneTypes ==
    ASSUME TypeOK, PlaneCrash \/ PlaneStart
    PROVE  TypeOK'
<1>1. used' \in Nat /\ used <= used' /\ UNCHANGED <<authority, vault, cli, given>>
  BY DEF PlaneCrash, PlaneStart, TypeOK
<1>2. plane' \in [up : BOOLEAN, dispatch : Values, external : Values]
  BY StartedTypes DEF PlaneCrash, PlaneStart, TypeOK
<1>3. used' = used BY DEF PlaneCrash, PlaneStart
<1>. QED BY <1>1, <1>2, <1>3 DEF TypeOK, Values, Command, authority

\* A command that starts.
LEMMA StartTypes ==
    ASSUME TypeOK, NEW c \in Clis, StartToken(c) \/ StartExternal(c) \/ Rerun(c)
    PROVE  TypeOK'
<1>1. used \in Nat /\ None \in Values /\ vault.token \in Values /\ vault.external \in Values
      /\ pending \in Values
  BY DEF TypeOK, Values, None
<1>2. UNCHANGED <<authority, vault, plane, given>>
  BY DEF StartToken, StartExternal, Rerun
<1>3. /\ used' \in Nat /\ used <= used'
      /\ (cli \in [Clis -> Command])'
  <2>1. CASE StartToken(c)
    <3>1. PICK v \in {used + 1, vault.token, pending} \ {None} :
             /\ used' = IF v > used THEN v ELSE used
             /\ cli' = [cli EXCEPT ![c] =
                    [Idle EXCEPT !.pc = IF v = vault.token THEN "status" ELSE "prepare",
                                 !.previous = vault.token, !.next = v]]
      BY <2>1 DEF StartToken
    <3>2. v \in Nat BY <1>1 DEF Values
    <3>3. used' \in Nat /\ used <= used' /\ v \in Values' BY <1>1, <3>1, <3>2 DEF Values
    <3>4. vault.token \in Values' BY <1>1, <3>3 DEF Values
    <3>5. PICK pc \in {"status", "prepare", "swap"} :
             cli' = [cli EXCEPT ![c] = [Idle EXCEPT !.pc = pc, !.previous = vault.token, !.next = v]]
      BY <3>1
    <3>. QED BY <3>3, <3>4, <3>5, CommandStarts
  <2>2. CASE StartExternal(c)
    <3>1. used' = used + 1 BY <2>2 DEF StartExternal
    <3>2. used' \in Nat /\ used <= used' /\ used' \in Values' /\ vault.external \in Values'
      BY <1>1, <3>1 DEF Values
    <3>. QED BY <2>2, <3>2, CommandStarts DEF StartExternal
  <2>3. CASE Rerun(c)
    <3>1. used' = used BY <2>3 DEF Rerun
    <3>2. used' \in Nat /\ used <= used' /\ pending \in Values' /\ vault.token \in Values'
      BY <1>1, <3>1 DEF Values
    <3>3. PICK pc \in {"status", "prepare", "swap"} :
             cli' = [cli EXCEPT ![c] = [Idle EXCEPT !.pc = pc, !.previous = vault.token, !.next = pending]]
      BY <2>3 DEF Rerun
    <3>. QED BY <3>2, <3>3, CommandStarts
  <2>. QED BY <2>1, <2>2, <2>3
<1>4. (rotation = None) = (pending = None) BY DEF TypeOK
<1>. QED BY <1>2, <1>3, <1>4, Typed, RestTypes DEF authority

\* A command that has not asked the authority yet has a bearer to ask for.
HasBearer(c) == cli[c].pc \in {"status", "prepare"} => cli[c].next # None

\* The steps of a command that has started.
LEMMA StepTypes ==
    ASSUME TypeOK, NEW c \in Clis, HasBearer(c), \/ Steps(c) \/ RequestFails(c)
                                                \/ ResponseLost(c) \/ CliCrash(c)
    PROVE  TypeOK'
<1>1. used \in Nat /\ (rotation = None) = (pending = None) /\ cli[c].next \in Values
      /\ cli[c].previous \in Values /\ cli[c].rid \in Values
      /\ {current, pending, rotation, committed} \subseteq Values
  BY DEF TypeOK, Command
<1>2. ASSUME used' = used, NEW pc \in Names, Goto(c, pc), UNCHANGED <<authority, given>>,
             vault' \in [token : Values, external : Values],
             plane' \in [up : BOOLEAN, dispatch : Values, external : Values]
      PROVE  TypeOK'
  <2>1. used' \in Nat /\ used <= used' /\ Values' = Values BY <1>1, <1>2 DEF Values
  <2>2. (cli \in [Clis -> Command])' BY <1>2, <2>1, CommandsKept
  <2>. QED BY <1>1, <1>2, <2>1, <2>2, Typed, RestTypes DEF authority
<1>3. /\ vault \in [token : Values, external : Values]
      /\ plane \in [up : BOOLEAN, dispatch : Values, external : Values]
  BY DEF TypeOK
<1>4. ASSUME used' = used, NEW r \in Values, Gives(c, r), UNCHANGED <<vault, plane>>,
             {current', pending', rotation', committed'} \subseteq Values,
             (rotation' = None) = (pending' = None), NEW pc \in Names,
             \/ Goto(c, pc)
             \/ cli' = [cli EXCEPT ![c].pc = pc, ![c].rid = r]
      PROVE  TypeOK'
  <2>1. used' \in Nat /\ used <= used' /\ Values' = Values BY <1>1, <1>4 DEF Values
  <2>2. (cli \in [Clis -> Command])' BY <1>4, <2>1, CommandsKept
  <2>. QED BY <1>1, <1>4, <2>1, <2>2, Typed, RestTypes
<1>5. ASSUME used' = used, UNCHANGED <<vault, given>>,
             plane' \in [up : BOOLEAN, dispatch : Values, external : Values],
             {current', committed'} \subseteq Values, rotation' = None, pending' = None,
             NEW pc \in Names, Goto(c, pc)
      PROVE  TypeOK'
  <2>1. used' \in Nat /\ used <= used' /\ Values' = Values BY <1>1, <1>5 DEF Values
  <2>2. (cli \in [Clis -> Command])' BY <1>5, <2>1, CommandsKept
  <2>3. None \in Values BY <1>1 DEF Values, None, TypeOK
  <2>. QED BY <1>1, <1>5, <2>1, <2>2, <2>3, Typed, RestTypes
<1>6. CASE Status(c)
  <2>1. used' = used /\ UNCHANGED <<authority, vault, plane>> BY <1>6 DEF Status
  <2>2. CASE Answers(cli[c].next) /\ rotation # None /\ cli[c].next # current
    <3>1. cli' = [cli EXCEPT ![c].pc = "resume", ![c].rid = rotation] /\ Gives(c, rotation)
      BY <1>6, <2>2 DEF Status
    <3>. QED BY <1>1, <1>4, <2>1, <3>1, Typed DEF authority, Names, TypeOK
  <2>3. CASE ~(Answers(cli[c].next) /\ rotation # None /\ cli[c].next # current)
    <3>1. PICK pc \in Names : Goto(c, pc)
      BY <1>6, <2>3 DEF Status, Names
    <3>2. UNCHANGED given BY <1>6, <2>3 DEF Status
    <3>. QED BY <1>2, <1>3, <2>1, <3>1, <3>2
  <2>. QED BY <2>2, <2>3
<1>7. CASE Prepare(c)
  <2>1. UNCHANGED <<vault, plane>> BY <1>7 DEF Prepare
  <2>2. CASE MayPrepare(cli[c].previous, cli[c].next)
    <3>1. PICK r : /\ used' = IF rotation = None THEN used + 1 ELSE used
                   /\ r = IF rotation = None THEN used' ELSE rotation
                   /\ Prepared(cli[c].next, r) /\ Gives(c, r)
                   /\ cli' = [cli EXCEPT ![c].pc = "stage", ![c].rid = r]
      BY <1>7, <2>2 DEF Prepare, Prepared
    <3>2. used' \in Nat /\ used <= used' /\ r \in Values' /\ r # None
      BY <1>1, <3>1 DEF Values, None
    <3>3. (cli \in [Clis -> Command])' BY <3>1, <3>2, CommandsKept DEF Names
    <3>4. cli[c].next # None BY <1>7 DEF HasBearer, Prepare
    <3>5. /\ {current', pending', rotation', committed'} \subseteq Values'
          /\ (rotation' = None) = (pending' = None)
      BY <3>1, <3>2, <3>4, Typed DEF Prepared
    <3>. QED BY <2>1, <3>1, <3>2, <3>3, <3>5, Typed, RestTypes
  <2>3. CASE ~MayPrepare(cli[c].previous, cli[c].next)
    <3>1. UNCHANGED <<authority, given>> /\ used' = used /\ Goto(c, "failed")
      BY <1>7, <2>3 DEF Prepare
    <3>. QED BY <1>2, <1>3, <2>1, <3>1 DEF Names
  <2>. QED BY <2>2, <2>3
<1>8. CASE Commit(c)
  <2>1. UNCHANGED <<vault, given>> /\ used' = used BY <1>8 DEF Commit
  <2>2. PICK pc \in Names : Goto(c, pc) BY <1>8 DEF Commit, Names
  <2>3. CASE UNCHANGED authority
    <3>1. plane' \in [up : BOOLEAN, dispatch : Values, external : Values]
      BY <1>1, <1>3, <1>8 DEF Commit, Committed
    <3>. QED BY <1>2, <1>3, <2>1, <2>2, <2>3, <3>1
  <2>4. CASE ~UNCHANGED authority
    <3>1. Committed(cli[c].rid, cli[c].next) BY <1>8, <2>4 DEF Commit
    <3>2. /\ current' = pending /\ pending' = None /\ rotation' = None
          /\ committed' = cli[c].rid /\ plane' = [plane EXCEPT !.dispatch = cli[c].next]
      BY <2>4, <3>1 DEF Committed
    <3>. QED BY <1>1, <1>3, <1>5, <2>1, <2>2, <3>2
  <2>. QED BY <2>3, <2>4
<1>9. CASE Abort(c)
  <2>1. UNCHANGED <<vault, plane, given>> /\ used' = used BY <1>9 DEF Abort
  <2>2. PICK pc \in Names : Goto(c, pc) BY <1>9 DEF Abort, Names
  <2>3. CASE UNCHANGED authority BY <1>2, <1>3, <2>1, <2>2, <2>3
  <2>4. CASE ~UNCHANGED authority
    <3>1. Aborted BY <1>9, <2>4 DEF Abort
    <3>. QED BY <1>1, <1>3, <1>5, <2>1, <2>2, <3>1 DEF Aborted
  <2>. QED BY <2>3, <2>4
<1>10. CASE ResponseLost(c)
  <2>1. UNCHANGED vault /\ Goto(c, "failed") BY <1>10 DEF ResponseLost
  <2>2. CASE cli[c].pc = "prepare"
    <3>1. /\ used' = used + 1 /\ Prepared(cli[c].next, used') /\ Gives(c, used')
          /\ UNCHANGED plane
      BY <1>10, <2>2 DEF ResponseLost
    <3>2. used' \in Nat /\ used <= used' /\ used' \in Values' /\ used' # None
      BY <1>1, <3>1 DEF Values, None
    <3>3. (cli \in [Clis -> Command])' BY <2>1, <3>2, CommandsKept DEF Names
    <3>4. cli[c].next # None BY <2>2 DEF HasBearer
    <3>5. /\ {current', pending', rotation', committed'} \subseteq Values'
          /\ (rotation' = None) = (pending' = None)
      BY <3>1, <3>2, <3>4, Typed DEF Prepared
    <3>. QED BY <2>1, <3>1, <3>2, <3>3, <3>5, Typed, RestTypes
  <2>3. CASE cli[c].pc \in {"abort", "abort_back"}
    BY <1>1, <1>3, <1>5, <1>10, <2>1, <2>3 DEF ResponseLost, Aborted, Names
  <2>4. CASE cli[c].pc = "commit"
    <3>1. Committed(cli[c].rid, cli[c].next) /\ UNCHANGED <<used, given>>
          /\ Commits(cli[c].rid, cli[c].next)
      BY <1>10, <2>4 DEF ResponseLost
    <3>. QED BY <1>1, <1>3, <1>5, <2>1, <3>1, Typed DEF Committed, Commits, Names
  <2>. QED BY <1>10, <2>2, <2>3, <2>4 DEF ResponseLost
<1>11. CASE Activate(c)
  <2>1. PICK pc \in Names : Goto(c, pc) BY <1>11 DEF Activate, Names
  <2>. QED BY <1>2, <1>3, <1>11, <2>1, StartedTypes DEF Activate
<1>12. CASE \/ Resume(c) \/ Stage(c) \/ Verify(c) \/ Restore(c) \/ VerifyBack(c) \/ Swap(c)
           \/ Probe(c) \/ SwapBack(c) \/ RequestFails(c) \/ CliCrash(c)
  <2>1. used' = used /\ UNCHANGED <<authority, plane, given>>
    BY <1>12 DEF Resume, Stage, Verify, Restore, VerifyBack, Swap, Probe, SwapBack,
                 RequestFails, CliCrash
  <2>2. vault' \in [token : Values, external : Values]
    BY <1>1, <1>3, <1>12 DEF Resume, Stage, Verify, Restore, VerifyBack, Swap, Probe, SwapBack,
                             RequestFails, CliCrash
  <2>3. PICK pc \in Names : Goto(c, pc)
    BY <1>12 DEF Resume, Stage, Verify, Restore, VerifyBack, Swap, Probe, SwapBack,
                 RequestFails, CliCrash, Names
  <2>. QED BY <1>2, <1>3, <2>1, <2>2, <2>3
<1>. QED BY <1>6, <1>7, <1>8, <1>9, <1>10, <1>11, <1>12 DEF Steps

\* What Init and every step do to the types.
LEMMA InitTypes == Init => TypeOK
<1>. SUFFICES ASSUME Init PROVE TypeOK OBVIOUS
<1>1. 0 \in Values /\ 1 \in Values BY DEF Init, Values
<1>2. Idle \in Command BY <1>1 DEF Idle, Command, Settled, None
<1>. QED BY <1>1, <1>2 DEF Init, TypeOK, None

LEMMA NextTypes ==
    ASSUME TypeOK, \A c \in Clis : HasBearer(c), Next
    PROVE  TypeOK'
BY PlaneTypes, StartTypes, StepTypes DEF Next

-----------------------------------------------------------------------------
(* OperatorCredentials: the inductive invariant                            *)

Given(c, r) == [rid |-> r, by |-> c] \in given

\* The prepared rotation was given to a command other than c.
GivenToAnother(c) == \E d \in Clis \ {c} : Given(d, rotation)

\* A command that works on its rotation, that has not stored the new bearer yet
\* or has taken it back, and one that has stored it.
Working == {"stage", "verify", "restore", "abort_back", "resume", "commit"}
Old == {"stage", "abort_back"}
New == {"verify", "restore", "resume", "commit"}

\* What a command remembers fits the authority and the vault: the rotation it
\* works on is the prepared one, and the vault is as the command left it.  One
\* that has not asked yet read a vault that only the holder of the prepared
\* rotation can have changed since.  Nobody aborts a rotation whose new bearer
\* is stored.
Tells(c) ==
    LET me == cli[c] IN
    /\ me.pc = "status" /\ rotation # None /\ pending = me.next /\ vault.token # me.next =>
          GivenToAnother(c)
    /\ me.pc = "prepare" /\ rotation # None /\ current = me.previous /\ vault.token # me.previous =>
          GivenToAnother(c)
    /\ me.pc \in Working => me.rid # None /\ rotation = me.rid /\ pending = me.next
    /\ me.pc \in Working \ {"resume", "commit"} => current = me.previous
    /\ me.pc \in Old => vault.token = me.previous
    /\ me.pc \in New => vault.token = me.next
    /\ me.pc # "abort"

Fits(c) ==
    /\ HasBearer(c)
    /\ cli[c].rid # None => Given(c, cli[c].rid)
    /\ RotationIsShared \/ Tells(c)

Fit == VaultBearerIsAccepted /\ \A c \in Clis : Fits(c)

\* What two commands were given stays given.
LEMMA SharedStays == ASSUME given \subseteq given', RotationIsShared PROVE RotationIsShared'
BY DEF RotationIsShared

LEMMA Shares ==
    ASSUME NEW c \in Clis, NEW d \in Clis, c # d, NEW r, Given(c, r), Given(d, r)
    PROVE  RotationIsShared
<1>1. /\ [rid |-> r, by |-> c].rid = [rid |-> r, by |-> d].rid
      /\ [rid |-> r, by |-> c].by # [rid |-> r, by |-> d].by
  OBVIOUS
<1>. QED BY <1>1 DEF RotationIsShared, Given

\* The authority and the stored bearer stay as they are, or change by a command
\* that the prepared rotation was given to.
Touches(c) ==
    \/ UNCHANGED <<current, pending, rotation>> /\ vault'.token = vault.token
    \/ Given(c, rotation) /\ rotation' \in {None, rotation}
    \/ Given(c, rotation)' /\ rotation \in {None, rotation'}

\* So what the other commands remember still fits, or they share it.
LEMMA OthersFit ==
    ASSUME TypeOK, NEW c \in Clis, NEW d \in Clis \ {c}, given \subseteq given',
           RotationIsShared \/ Touches(c), Fits(d), cli'[d] = cli[d]
    PROVE  Fits(d)'
<1>1. HasBearer(d)' BY DEF Fits, HasBearer
<1>2. (cli[d].rid # None => Given(d, cli[d].rid))' BY DEF Fits, Given
<1>3. CASE RotationIsShared BY <1>1, <1>2, <1>3, SharedStays DEF Fits
<1>4. ASSUME ~RotationIsShared, ~RotationIsShared' PROVE Tells(d)'
  <2>1. Tells(d) BY <1>4 DEF Fits
  <2>2. CASE UNCHANGED <<current, pending, rotation>> /\ vault'.token = vault.token
    <3>1. GivenToAnother(d) => GivenToAnother(d)' BY <2>2 DEF GivenToAnother, Given
    <3>. QED BY <2>1, <2>2, <3>1 DEF Tells
  <2>3. CASE ~(UNCHANGED <<current, pending, rotation>> /\ vault'.token = vault.token)
    <3>1. \/ Given(c, rotation) /\ rotation' \in {None, rotation}
          \/ Given(c, rotation)' /\ rotation \in {None, rotation'}
      BY <1>4, <2>3 DEF Touches
    <3>2. rotation' # None => GivenToAnother(d)' BY <3>1 DEF GivenToAnother, Given
    <3>3. cli[d].pc \notin Working
      <4>. SUFFICES ASSUME cli[d].pc \in Working PROVE FALSE OBVIOUS
      <4>1. rotation = cli[d].rid /\ rotation # None /\ Given(d, rotation) BY <2>1 DEF Tells, Fits
      <4>2. CASE Given(c, rotation) BY <1>4, <4>1, <4>2, Shares
      <4>3. CASE Given(c, rotation)' /\ rotation' = rotation
        <5>1. Given(d, rotation)' BY <4>1, <4>3 DEF Given
        <5>2. \A r : Given(c, r)' /\ Given(d, r)' => RotationIsShared'
          BY DEF RotationIsShared, Given
        <5>. QED BY <1>4, <4>3, <5>1, <5>2
      <4>. QED BY <3>1, <4>1, <4>2, <4>3
    <3>4. cli[d].pc # "abort" BY <2>1 DEF Tells
    <3>. QED BY <3>2, <3>3, <3>4 DEF Tells, Working, Old, New
  <2>. QED BY <2>2, <2>3
<1>. QED BY <1>1, <1>2, <1>3, <1>4 DEF Fits

-----------------------------------------------------------------------------
(* OperatorCredentials: every step keeps it                                *)

\* What is shown of the step of a command.
Keeps(c) ==
    /\ \A d \in Clis \ {c} : cli'[d] = cli[d]
    /\ given \subseteq given' /\ (RotationIsShared \/ Touches(c))
    /\ Fits(c)' /\ VaultBearerIsAccepted'

LEMMA KeepsFit ==
    ASSUME TypeOK, Fit, NEW c \in Clis, Keeps(c)
    PROVE  Fit'
BY OthersFit DEF Keeps, Fit

\* A command that moves to an await at which it only ends, or does nothing of a
\* bearer's rotation.
Harmless == Names \ ({"status", "prepare", "abort"} \union Working)

LEMMA MovesOn ==
    ASSUME TypeOK, NEW c \in Clis, NEW pc, Goto(c, pc), Fits(c)
    PROVE  /\ \A d \in Clis \ {c} : cli'[d] = cli[d]
           /\ cli'[c].pc = pc /\ cli'[c].previous = cli[c].previous
           /\ cli'[c].next = cli[c].next /\ cli'[c].rid = cli[c].rid
BY DEF TypeOK, Goto, Command

\* It fits.
LEMMA HarmlessFits ==
    ASSUME TypeOK, NEW c \in Clis, NEW pc \in Harmless, Goto(c, pc), Fits(c),
           given \subseteq given'
    PROVE  Fits(c)' /\ \A d \in Clis \ {c} : cli'[d] = cli[d]
<1>1. cli'[c].pc = pc /\ cli'[c].rid = cli[c].rid /\ \A d \in Clis \ {c} : cli'[d] = cli[d]
  BY MovesOn
<1>2. HasBearer(c)' BY <1>1 DEF HasBearer, Harmless
<1>3. (cli[c].rid # None => Given(c, cli[c].rid))' BY <1>1 DEF Fits, Given
<1>4. Tells(c)' BY <1>1 DEF Tells, Harmless, Working, Old, New, Names
<1>. QED BY <1>1, <1>2, <1>3, <1>4 DEF Fits

\* A start reads the vault as it is.
LEMMA StartKeeps ==
    ASSUME TypeOK, Fit, NEW c \in Clis, StartToken(c) \/ StartExternal(c) \/ Rerun(c)
    PROVE  Keeps(c)
<1>1. UNCHANGED <<authority, vault, given>> BY DEF StartToken, StartExternal, Rerun
<1>2. cli \in [Clis -> Command] BY DEF TypeOK
<1>3. /\ \A d \in Clis \ {c} : cli'[d] = cli[d]
      /\ cli'[c].rid = None
      /\ \/ cli'[c].pc = "status" /\ cli'[c].next = vault.token /\ cli'[c].next # None
         \/ cli'[c].pc = "prepare" /\ cli'[c].previous = vault.token /\ cli'[c].next # None
         \/ cli'[c].pc = "swap"
  <2>1. CASE StartToken(c)
    <3>1. PICK v \in {used + 1, vault.token, pending} \ {None} :
             cli' = [cli EXCEPT ![c] =
                    [Idle EXCEPT !.pc = IF v = vault.token THEN "status" ELSE "prepare",
                                 !.previous = vault.token, !.next = v]]
      BY <2>1 DEF StartToken
    <3>. QED BY <1>2, <3>1 DEF Idle
  <2>2. CASE StartExternal(c) BY <1>2, <2>2 DEF StartExternal, Idle
  <2>3. CASE Rerun(c)
    <3>1. pending # None BY <2>3 DEF Rerun, TypeOK
    <3>2. cli' = [cli EXCEPT ![c] =
              [Idle EXCEPT !.pc = IF pending = vault.token THEN "status" ELSE "prepare",
                           !.previous = vault.token, !.next = pending]]
      BY <2>3 DEF Rerun
    <3>. QED BY <1>2, <3>1, <3>2 DEF Idle
  <2>. QED BY <2>1, <2>2, <2>3
<1>4. HasBearer(c)' /\ (cli[c].rid # None => Given(c, cli[c].rid))' BY <1>3 DEF HasBearer
<1>5. Tells(c)' BY <1>1, <1>3 DEF Tells, Working, Old, New
<1>6. VaultBearerIsAccepted'
  BY <1>1 DEF Fit, VaultBearerIsAccepted, Accepted, RotationIsShared, authority
<1>. QED BY <1>1, <1>3, <1>4, <1>5, <1>6 DEF Keeps, Fits, Touches, authority

\* Steps that change neither the authority nor the stored bearer and after which
\* a command works on nothing.
LEMMA AsideKeeps ==
    ASSUME TypeOK, Fit, NEW c \in Clis, NEW pc \in Harmless, Goto(c, pc),
           UNCHANGED <<authority, given>>, vault'.token = vault.token
    PROVE  Keeps(c)
<1>1. VaultBearerIsAccepted'
  BY DEF Fit, VaultBearerIsAccepted, Accepted, RotationIsShared, authority
<1>. QED BY <1>1, HarmlessFits DEF Keeps, Fit, Touches, authority

\* A command that has the prepared rotation moves on with it.
LEMMA WorkFits ==
    ASSUME TypeOK, NEW c \in Clis, NEW pc \in Working, Goto(c, pc), Fits(c),
           cli[c].pc \in Working, UNCHANGED <<authority, given>>,
           RotationIsShared
             \/ /\ pc \notin {"resume", "commit"} => current = cli[c].previous
                /\ pc \in Old => vault'.token = cli[c].previous
                /\ pc \in New => vault'.token = cli[c].next
    PROVE  Fits(c)'
<1>1. cli'[c].pc = pc /\ cli'[c].previous = cli[c].previous /\ cli'[c].next = cli[c].next
      /\ cli'[c].rid = cli[c].rid
  BY MovesOn
<1>2. HasBearer(c)' BY <1>1 DEF HasBearer, Working
<1>3. (cli[c].rid # None => Given(c, cli[c].rid))' BY <1>1 DEF Fits, Given
<1>4. CASE RotationIsShared BY <1>2, <1>3, <1>4 DEF Fits, RotationIsShared
<1>5. CASE ~RotationIsShared
  <2>1. Tells(c) BY <1>5 DEF Fits
  <2>2. Tells(c)' BY <1>1, <1>5, <2>1 DEF Tells, Working, authority
  <2>. QED BY <1>2, <1>3, <2>2 DEF Fits
<1>. QED BY <1>4, <1>5

\* A command that has the prepared rotation touches what is its own.
LEMMA WorkTouches ==
    ASSUME NEW c \in Clis, Fits(c), cli[c].pc \in Working, ~RotationIsShared,
           rotation' \in {None, rotation}
    PROVE  Touches(c)
BY DEF Fits, Tells, Touches

\* A step that keeps the vault acceptable.
LEMMA StillAccepted ==
    ASSUME UNCHANGED <<current, pending>>, vault'.token = vault.token, given \subseteq given',
           VaultBearerIsAccepted
    PROVE  VaultBearerIsAccepted'
BY SharedStays DEF VaultBearerIsAccepted, Accepted

\* A command is given the prepared rotation again: it has the bearer that is
\* stored, unless another has the rotation too.
LEMMA StatusKeeps ==
    ASSUME TypeOK, Fit, NEW c \in Clis, Status(c)
    PROVE  Keeps(c)
<1>1. UNCHANGED <<authority, vault>> /\ cli[c].pc = "status" /\ Fits(c) BY DEF Status, Fit
<1>2. CASE ~(Answers(cli[c].next) /\ rotation # None /\ cli[c].next # current)
  <2>1. PICK pc \in {"done", "failed"} : Goto(c, pc) BY <1>2 DEF Status
  <2>2. UNCHANGED given BY <1>2 DEF Status
  <2>. QED BY <1>1, <2>1, <2>2, AsideKeeps DEF Harmless, Names, Working
<1>3. CASE Answers(cli[c].next) /\ rotation # None /\ cli[c].next # current
  <2>1. cli' = [cli EXCEPT ![c].pc = "resume", ![c].rid = rotation] /\ Gives(c, rotation)
    BY <1>3 DEF Status
  <2>2. /\ \A d \in Clis \ {c} : cli'[d] = cli[d]
        /\ cli'[c].pc = "resume" /\ cli'[c].rid = rotation /\ cli'[c].next = cli[c].next
    BY <2>1 DEF TypeOK, Command
  <2>3. given \subseteq given' /\ Given(c, rotation)' BY <1>1, <2>1 DEF Gives, Given, authority
  <2>4. HasBearer(c)' /\ (cli[c].rid # None => Given(c, cli[c].rid))'
    BY <1>1, <2>2, <2>3 DEF HasBearer, Given, authority
  <2>5. pending = cli[c].next BY <1>3 DEF Answers, Accepted
  <2>6. ASSUME ~RotationIsShared, ~RotationIsShared' PROVE Tells(c)'
    <3>1. vault.token = cli[c].next
      <4>. SUFFICES ASSUME vault.token # cli[c].next PROVE FALSE OBVIOUS
      <4>1. PICK d \in Clis \ {c} : Given(d, rotation)
        BY <1>1, <1>3, <2>5, <2>6 DEF Fits, Tells, GivenToAnother
      <4>2. Given(d, rotation)' BY <1>1, <2>3, <4>1 DEF Given, authority
      <4>. QED BY <2>3, <2>6, <4>2 DEF Given, RotationIsShared
    <3>. QED BY <1>1, <1>3, <2>2, <2>5, <3>1 DEF Tells, Working, Old, New, authority
  <2>7. Fits(c)' BY <2>3, <2>4, <2>6, SharedStays DEF Fits
  <2>8. VaultBearerIsAccepted' BY <1>1, <2>3, StillAccepted DEF Fit, authority
  <2>. QED BY <1>1, <2>2, <2>3, <2>7, <2>8 DEF Keeps, Touches, authority
<1>. QED BY <1>2, <1>3

\* A rotation is prepared while the current bearer is stored, unless another
\* command has it.
LEMMA PrepareKeeps ==
    ASSUME TypeOK, Fit, NEW c \in Clis, Prepare(c)
    PROVE  Keeps(c)
<1>1. UNCHANGED vault /\ cli[c].pc = "prepare" /\ Fits(c) BY DEF Prepare, Fit
<1>2. CASE ~MayPrepare(cli[c].previous, cli[c].next)
  <2>1. Goto(c, "failed") /\ UNCHANGED <<authority, given>> BY <1>2 DEF Prepare
  <2>. QED BY <1>1, <2>1, AsideKeeps DEF Harmless, Names, Working
<1>3. CASE MayPrepare(cli[c].previous, cli[c].next)
  <2>1. PICK r : /\ r = IF rotation = None THEN used + 1 ELSE rotation
                 /\ Prepared(cli[c].next, r) /\ Gives(c, r)
                 /\ cli' = [cli EXCEPT ![c].pc = "stage", ![c].rid = r]
    BY <1>3 DEF Prepare, Prepared
  <2>2. /\ \A d \in Clis \ {c} : cli'[d] = cli[d]
        /\ cli'[c].pc = "stage" /\ cli'[c].rid = r /\ cli'[c].next = cli[c].next
        /\ cli'[c].previous = cli[c].previous
    BY <2>1 DEF TypeOK, Command
  <2>3. /\ given \subseteq given' /\ rotation' = r /\ pending' = cli[c].next
        /\ current' = current /\ current = cli[c].previous
        /\ rotation = None \/ pending = cli[c].next
    BY <1>3, <2>1 DEF Gives, Prepared, MayPrepare
  <2>4. Given(c, rotation)' BY <2>1, <2>3 DEF Gives, Given
  <2>5. r # None BY <2>1 DEF TypeOK, None
  <2>6. rotation \in {None, rotation'} BY <2>1, <2>3
  <2>7. HasBearer(c)' /\ (cli[c].rid # None => Given(c, cli[c].rid))'
    BY <2>2, <2>3, <2>4 DEF HasBearer, Given
  <2>8. ASSUME ~RotationIsShared, ~RotationIsShared' PROVE vault.token = current
    <3>1. CASE rotation = None
      BY <2>8, <3>1 DEF Fit, VaultBearerIsAccepted, Accepted, TypeOK
    <3>2. CASE rotation # None
      <4>. SUFFICES ASSUME vault.token # current PROVE FALSE OBVIOUS
      <4>1. PICK d \in Clis \ {c} : Given(d, rotation)
        BY <1>1, <2>3, <2>8, <3>2 DEF Fits, Tells, GivenToAnother
      <4>2. Given(d, rotation)' BY <2>3, <2>6, <3>2, <4>1 DEF Given
      <4>. QED BY <2>4, <2>8, <4>2 DEF Given, RotationIsShared
    <3>. QED BY <3>1, <3>2
  <2>9. ASSUME ~RotationIsShared, ~RotationIsShared' PROVE Tells(c)'
    <3>1. vault'.token = current BY <1>1, <2>8, <2>9
    <3>. QED BY <2>2, <2>3, <2>5, <3>1 DEF Tells, Working, Old, New
  <2>10. Fits(c)' BY <2>3, <2>7, <2>9, SharedStays DEF Fits
  <2>11. VaultBearerIsAccepted'
    BY <1>1, <2>3, <2>8, SharedStays DEF VaultBearerIsAccepted, Accepted
  <2>. QED BY <2>2, <2>3, <2>4, <2>6, <2>10, <2>11 DEF Keeps, Touches
<1>. QED BY <1>2, <1>3

\* Once a rotation is shared a command only keeps its shape.
LEMMA SharedKeeps ==
    ASSUME TypeOK, Fit, NEW c \in Clis, NEW pc \in Names \ {"status", "prepare"}, Goto(c, pc),
           given \subseteq given', RotationIsShared
    PROVE  Keeps(c)
<1>1. RotationIsShared' BY SharedStays
<1>2. Fits(c) BY DEF Fit
<1>3. cli'[c].pc = pc /\ cli'[c].rid = cli[c].rid /\ \A d \in Clis \ {c} : cli'[d] = cli[d]
  BY <1>2, MovesOn
<1>4. HasBearer(c)' BY <1>3 DEF HasBearer
<1>5. (cli[c].rid # None => Given(c, cli[c].rid))' BY <1>2, <1>3 DEF Fits, Given
<1>. QED BY <1>1, <1>3, <1>4, <1>5 DEF Keeps, Fits, VaultBearerIsAccepted

\* The holder of the rotation changes the vault, which stays acceptable.
LEMMA WorkKeeps ==
    ASSUME TypeOK, Fit, NEW c \in Clis, cli[c].pc \in Working, NEW pc \in Working, Goto(c, pc),
           UNCHANGED <<authority, given>>, ~RotationIsShared,
           pc \in {"resume", "commit"} \/ cli[c].pc \notin {"resume", "commit"},
           pc \in Old => vault'.token = cli[c].previous,
           pc \in New => vault'.token = cli[c].next
    PROVE  Keeps(c)
<1>1. Fits(c) BY DEF Fit
<1>2. \A d \in Clis \ {c} : cli'[d] = cli[d] BY <1>1, MovesOn
<1>3. Tells(c) BY <1>1 DEF Fits
<1>4. pc \notin {"resume", "commit"} => current = cli[c].previous BY <1>3 DEF Tells
<1>5. Fits(c)' BY <1>1, <1>4, WorkFits
<1>6. VaultBearerIsAccepted'
  <2>1. pending = cli[c].next /\ rotation = cli[c].rid /\ cli[c].rid # None BY <1>3 DEF Tells
  <2>2. pending # None BY <2>1 DEF TypeOK
  <2>. QED BY <1>4, <2>1, <2>2
           DEF VaultBearerIsAccepted, Accepted, Working, Old, New, authority
<1>7. Touches(c) BY <1>1, WorkTouches DEF authority
<1>. QED BY <1>2, <1>5, <1>6, <1>7 DEF Keeps

\* The holder settles its rotation, with the accepted bearer stored.
LEMMA SettleKeeps ==
    ASSUME TypeOK, Fit, NEW c \in Clis, cli[c].pc \in {"abort_back", "commit"},
           NEW pc \in Harmless, Goto(c, pc), UNCHANGED <<given, vault>>, ~RotationIsShared,
           rotation' = None, current' = IF cli[c].pc = "commit" THEN pending ELSE current
    PROVE  Keeps(c)
<1>1. Fits(c) BY DEF Fit
<1>2. Tells(c) BY <1>1 DEF Fits
<1>3. Touches(c) BY <1>1, WorkTouches DEF Working
<1>4. vault.token = current' BY <1>2 DEF Tells, Working, Old, New
<1>5. VaultBearerIsAccepted' BY <1>4 DEF VaultBearerIsAccepted, Accepted
<1>. QED BY <1>1, <1>3, <1>5, HarmlessFits DEF Keeps

\* What a command knows of the vault when no rotation is shared.
LEMMA Known ==
    ASSUME Fit, NEW c \in Clis, ~RotationIsShared
    PROVE  Tells(c)
BY DEF Fit, Fits

LEMMA StageKeeps == ASSUME TypeOK, Fit, NEW c \in Clis, Stage(c) PROVE Keeps(c)
<1>1. cli[c].pc = "stage" /\ UNCHANGED <<authority, given>> BY DEF Stage
<1>2. CASE RotationIsShared
  <2>1. PICK pc \in {"verify", "abort"} : Goto(c, pc) BY DEF Stage
  <2>. QED BY <1>1, <1>2, <2>1, SharedKeeps DEF Names
<1>3. CASE ~RotationIsShared
  <2>1. vault.token = cli[c].previous BY <1>1, <1>3, Known DEF Tells, Old
  <2>2. vault' = [vault EXCEPT !.token = cli[c].next] /\ Goto(c, "verify") BY <2>1 DEF Stage
  <2>3. vault'.token = cli[c].next BY <2>2 DEF TypeOK
  <2>. QED BY <1>1, <1>3, <2>2, <2>3, WorkKeeps DEF Working, Old, New
<1>. QED BY <1>2, <1>3

LEMMA VerifyKeeps ==
    ASSUME TypeOK, Fit, NEW c \in Clis, Verify(c) \/ Resume(c)
    PROVE  Keeps(c)
<1>1. cli[c].pc \in {"verify", "resume"} /\ UNCHANGED <<authority, given, vault>>
  BY DEF Verify, Resume
<1>2. CASE RotationIsShared
  <2>1. PICK pc \in {"restore", "commit", "abort", "failed"} : Goto(c, pc) BY DEF Verify, Resume
  <2>. QED BY <1>1, <1>2, <2>1, SharedKeeps DEF Names
<1>3. CASE ~RotationIsShared
  <2>1. vault.token = cli[c].next BY <1>1, <1>3, Known DEF Tells, New
  <2>2. CASE Goto(c, "failed")
    BY <1>1, <2>2, AsideKeeps DEF Harmless, Names, Working
  <2>3. CASE Goto(c, "commit") BY <1>1, <1>3, <2>1, <2>3, WorkKeeps DEF Working, Old, New
  <2>4. CASE Verify(c) /\ Goto(c, "restore")
    BY <1>1, <1>3, <2>1, <2>4, WorkKeeps DEF Working, Old, New, Verify
  <2>. QED BY <2>1, <2>2, <2>3, <2>4 DEF Verify, Resume
<1>. QED BY <1>2, <1>3

LEMMA RestoreKeeps == ASSUME TypeOK, Fit, NEW c \in Clis, Restore(c) PROVE Keeps(c)
<1>1. cli[c].pc = "restore" /\ UNCHANGED <<authority, given>> BY DEF Restore
<1>2. CASE RotationIsShared
  <2>1. PICK pc \in {"abort_back", "failed"} : Goto(c, pc) BY DEF Restore
  <2>. QED BY <1>1, <1>2, <2>1, SharedKeeps DEF Names
<1>3. CASE ~RotationIsShared
  <2>1. vault.token = cli[c].next BY <1>1, <1>3, Known DEF Tells, New
  <2>2. vault' = [vault EXCEPT !.token = cli[c].previous] /\ Goto(c, "abort_back")
    BY <2>1 DEF Restore
  <2>3. vault'.token = cli[c].previous BY <2>2 DEF TypeOK
  <2>. QED BY <1>1, <1>3, <2>2, <2>3, WorkKeeps DEF Working, Old, New
<1>. QED BY <1>2, <1>3

LEMMA AbortKeeps == ASSUME TypeOK, Fit, NEW c \in Clis, Abort(c) PROVE Keeps(c)
<1>1. cli[c].pc \in {"abort", "abort_back"} /\ UNCHANGED <<given, vault>> BY DEF Abort
<1>2. PICK pc \in {"verify_back", "failed"} : Goto(c, pc) BY DEF Abort
<1>3. CASE RotationIsShared BY <1>1, <1>2, <1>3, SharedKeeps DEF Names
<1>4. CASE ~RotationIsShared /\ UNCHANGED authority
  BY <1>1, <1>2, <1>4, AsideKeeps DEF Harmless, Names, Working
<1>5. CASE ~RotationIsShared /\ ~UNCHANGED authority
  <2>1. cli[c].pc = "abort_back" BY <1>1, <1>5, Known DEF Tells
  <2>2. Aborted BY <1>5 DEF Abort
  <2>. QED BY <1>1, <1>2, <1>5, <2>1, <2>2, SettleKeeps DEF Aborted, Harmless, Names, Working
<1>. QED BY <1>3, <1>4, <1>5

LEMMA CommitKeeps == ASSUME TypeOK, Fit, NEW c \in Clis, Commit(c) PROVE Keeps(c)
<1>1. cli[c].pc = "commit" /\ UNCHANGED <<given, vault>> BY DEF Commit
<1>2. PICK pc \in {"done", "failed"} : Goto(c, pc) BY DEF Commit
<1>3. CASE RotationIsShared BY <1>1, <1>2, <1>3, SharedKeeps DEF Names
<1>4. CASE ~RotationIsShared /\ UNCHANGED authority
  BY <1>1, <1>2, <1>4, AsideKeeps DEF Harmless, Names, Working
<1>5. CASE ~RotationIsShared /\ ~UNCHANGED authority
  <2>1. rotation' = None /\ current' = pending BY <1>5 DEF Commit, Committed
  <2>. QED BY <1>1, <1>2, <1>5, <2>1, SettleKeeps DEF Harmless, Names, Working
<1>. QED BY <1>3, <1>4, <1>5

\* A rotation whose answer is lost was given to the command all the same.
LEMMA LostKeeps == ASSUME TypeOK, Fit, NEW c \in Clis, ResponseLost(c) PROVE Keeps(c)
<1>1. UNCHANGED vault /\ Goto(c, "failed") BY DEF ResponseLost
<1>2. given \subseteq given' BY DEF ResponseLost, Gives
<1>3. CASE RotationIsShared BY <1>1, <1>2, <1>3, SharedKeeps DEF Names
<1>4. CASE ~RotationIsShared /\ cli[c].pc = "prepare"
  <2>1. /\ rotation = None /\ rotation' = used' /\ Gives(c, used') /\ current' = current
    BY <1>4 DEF ResponseLost, Prepared
  <2>2. Touches(c) BY <2>1 DEF Touches, Gives, Given
  <2>3. vault.token = current
    BY <1>4, <2>1 DEF Fit, VaultBearerIsAccepted, Accepted, TypeOK
  <2>4. VaultBearerIsAccepted' BY <1>1, <2>1, <2>3 DEF VaultBearerIsAccepted, Accepted
  <2>. QED BY <1>1, <1>2, <2>2, <2>4, HarmlessFits DEF Keeps, Fit, Harmless, Names, Working
<1>5. CASE ~RotationIsShared /\ cli[c].pc # "prepare"
  <2>1. cli[c].pc # "abort" BY <1>5, Known DEF Tells
  <2>2. cli[c].pc \in {"abort_back", "commit"} /\ UNCHANGED given /\ rotation' = None
    BY <1>5, <2>1 DEF ResponseLost, Aborted, Committed, Commits
  <2>3. current' = IF cli[c].pc = "commit" THEN pending ELSE current
    BY <1>5, <2>1 DEF ResponseLost, Aborted, Committed, Commits
  <2>. QED BY <1>1, <1>5, <2>2, <2>3, SettleKeeps DEF Harmless, Names, Working
<1>. QED BY <1>3, <1>4, <1>5

LEMMA FailureKeeps ==
    ASSUME TypeOK, Fit, NEW c \in Clis, RequestFails(c) \/ CliCrash(c)
    PROVE  Keeps(c)
<1>1. UNCHANGED <<authority, given, vault>> BY DEF RequestFails, CliCrash
<1>2. CASE cli[c].pc = "verify" /\ Goto(c, "restore")
  <2>1. CASE RotationIsShared BY <1>1, <1>2, <2>1, SharedKeeps DEF Names
  <2>2. CASE ~RotationIsShared
    <3>1. vault.token = cli[c].next BY <1>2, <2>2, Known DEF Tells, New
    <3>. QED BY <1>1, <1>2, <2>2, <3>1, WorkKeeps DEF Working, Old, New
  <2>. QED BY <2>1, <2>2
<1>3. CASE Goto(c, "swap_back") \/ Goto(c, "failed")
  BY <1>1, <1>3, AsideKeeps DEF Harmless, Names, Working
<1>. QED BY <1>2, <1>3 DEF RequestFails, CliCrash

\* The steps that only look at the bearer, or rotate the external credential.
LEMMA OtherKeeps ==
    ASSUME TypeOK, Fit, NEW c \in Clis,
           VerifyBack(c) \/ Swap(c) \/ Activate(c) \/ Probe(c) \/ SwapBack(c)
    PROVE  Keeps(c)
<1>1. UNCHANGED <<authority, given>> BY DEF VerifyBack, Swap, Activate, Probe, SwapBack
<1>2. vault'.token = vault.token BY DEF VerifyBack, Swap, Activate, Probe, SwapBack, TypeOK
<1>3. PICK pc \in Harmless : Goto(c, pc)
  <2>1. PICK pc \in {"restored", "failed", "activate", "probe", "probe_back", "swap_back", "done",
                      "activate_back"} : Goto(c, pc)
    BY DEF VerifyBack, Swap, Activate, Probe, SwapBack
  <2>. QED BY <2>1 DEF Harmless, Names, Working
<1>. QED BY <1>1, <1>2, <1>3, AsideKeeps

LEMMA NextFit ==
    ASSUME TypeOK, Fit, [Next]_vars
    PROVE  TypeOK' /\ Fit'
<1>1. CASE UNCHANGED vars
  <2>1. TypeOK' BY <1>1 DEF vars, authority, spent, TypeOK, Values, Command
  <2>2. Fit' BY <1>1 DEF vars, authority, spent, Fit, Fits, Tells, HasBearer, Given,
                         GivenToAnother, VaultBearerIsAccepted, Accepted, RotationIsShared
  <2>. QED BY <2>1, <2>2
<1>2. CASE Next
  <2>1. TypeOK' BY <1>2, NextTypes DEF Fit, Fits
  <2>2. CASE PlaneCrash \/ PlaneStart
    <3>1. UNCHANGED <<authority, vault, cli, given>> BY <2>2 DEF PlaneCrash, PlaneStart
    <3>2. Fit' BY <3>1 DEF authority, Fit, Fits, Tells, HasBearer, Given, GivenToAnother,
                           VaultBearerIsAccepted, Accepted, RotationIsShared
    <3>. QED BY <2>1, <3>2
  <2>3. ASSUME NEW c \in Clis,
               \/ StartToken(c) \/ StartExternal(c) \/ Steps(c)
               \/ RequestFails(c) \/ ResponseLost(c) \/ CliCrash(c) \/ Rerun(c)
        PROVE  Fit'
    <3>1. Keeps(c)
      BY <2>3, StartKeeps, StatusKeeps, PrepareKeeps, StageKeeps, VerifyKeeps, RestoreKeeps,
         AbortKeeps, CommitKeeps, LostKeeps, FailureKeeps, OtherKeeps DEF Steps
    <3>. QED BY <3>1, KeepsFit
  <2>. QED BY <1>2, <2>1, <2>2, <2>3 DEF Next
<1>. QED BY <1>1, <1>2

LEMMA InitFit == Init => Fit
<1>. SUFFICES ASSUME Init PROVE Fit OBVIOUS
<1>1. \A c \in Clis : cli[c].pc = "idle" /\ cli[c].rid = None BY DEF Init, Idle
<1>2. vault.token = current BY DEF Init
<1>. QED BY <1>1, <1>2 DEF Fit, Fits, Tells, HasBearer, Working, Old, New,
                           VaultBearerIsAccepted, Accepted

-----------------------------------------------------------------------------
(* OperatorCredentials: what commands report                               *)

External == {"swap", "activate", "activate_back", "probe", "probe_back", "swap_back"}

\* A command is at steps of its kind.
KindFits(c) ==
    /\ cli[c].pc \in External => cli[c].kind = "external"
    /\ cli[c].pc \in Names \ (External \union Settled) => cli[c].kind = "token"

\* Bearers come into use in the order they were drawn, so one that was
\* replaced is not prepared again.
Rises == pending # None => current < pending
Ordered(c) ==
    /\ cli[c].pc = "prepare" => cli[c].previous < cli[c].next
    /\ cli[c].pc = "verify_back" => cli[c].previous <= current

\* A lone command finds what it left when it rolled back, or restarted.
Left(c) ==
    cli[c].pc = "verify_back" /\ Alone(c) =>
        vault.token = current /\ current = cli[c].previous /\ pending = None
Loaded(c) ==
    cli[c].pc \in {"probe", "probe_back"} /\ Alone(c) => plane.external = vault.external

Honest(c) == KindFits(c) /\ (RotationIsShared \/ Ordered(c)) /\ Left(c) /\ Loaded(c)

\* Rotations are given to commands that ran.
Ran == \A g \in given : cli[g.by].pc # "idle"

Honesty == Ran /\ (RotationIsShared \/ Rises) /\ \A c \in Clis : Honest(c)

LEMMA AloneSharesNothing ==
    ASSUME TypeOK, Ran, NEW c \in Clis, Alone(c)
    PROVE  ~RotationIsShared
<1>1. \A g \in given : g.by = c BY DEF TypeOK, Ran, Alone
<1>. QED BY <1>1 DEF RotationIsShared

\* Bearers and rotations are numbers.
LEMMA Numbers ==
    ASSUME TypeOK
    PROVE  /\ used \in Nat /\ current \in Nat /\ pending \in Nat /\ None \in Nat
           /\ vault.token \in Nat /\ vault.token <= used
           /\ \A c \in Clis : cli[c].previous \in Nat /\ cli[c].next \in Nat
BY DEF TypeOK, Values, None, Command

\* The step of a command that ran, as its own report and the others' see it.
Reports(c) ==
    /\ cli'[c].pc # "idle"
    /\ \A g \in given' \ given : g.by = c
    /\ RotationIsShared' \/ (current <= current' /\ Rises')
    /\ KindFits(c)' /\ (RotationIsShared' \/ Ordered(c)')
    /\ cli'[c].pc = "verify_back" /\ Alone(c) =>
          vault'.token = current' /\ current' = cli'[c].previous /\ pending' = None
    /\ cli'[c].pc \in {"probe", "probe_back"} /\ Alone(c) => plane'.external = vault'.external

LEMMA ReportsKept ==
    ASSUME TypeOK, TypeOK', Honesty, NEW c \in Clis, Keeps(c), Reports(c)
    PROVE  Honesty'
<1>1. \A d \in Clis \ {c} : cli'[d] = cli[d] BY DEF Keeps
<1>2. RotationIsShared => RotationIsShared' BY SharedStays DEF Keeps
<1>3. Ran' BY <1>1 DEF Ran, Reports, Honesty, TypeOK
<1>4. Alone(c)' => Alone(c) BY <1>1 DEF Alone
<1>5. Honest(c)' BY <1>4 DEF Reports, Honest, Left, Loaded
<1>6. ASSUME NEW d \in Clis, d # c PROVE Honest(d)'
  <2>1. ~Alone(d)' BY <1>6 DEF Alone, Reports
  <2>2. KindFits(d)' BY <1>1, <1>6 DEF Honesty, Honest, KindFits
  <2>3. RotationIsShared' \/ Ordered(d)'
    <3>1. current \in Nat /\ cli[d].previous \in Nat BY <1>6, Numbers
    <3>2. current' \in Nat BY DEF TypeOK, Values
    <3>. QED BY <1>1, <1>2, <1>6, <3>1, <3>2 DEF Honesty, Honest, Ordered, Reports
  <2>. QED BY <2>1, <2>2, <2>3 DEF Honest, Left, Loaded
<1>. QED BY <1>3, <1>5, <1>6 DEF Honesty, Reports

\* A command moves on and leaves the authority alone.
LEMMA QuietReports ==
    ASSUME TypeOK, Fit, Honesty, NEW c \in Clis, NEW pc, Goto(c, pc), UNCHANGED <<authority, given>>,
           pc \notin {"idle", "prepare", "verify_back", "probe", "probe_back"},
           \/ pc \in Settled
           \/ pc \in External /\ cli[c].pc \in External
           \/ pc \in Names \ (External \union Settled)
              /\ cli[c].pc \in Names \ (External \union Settled)
    PROVE  Reports(c)
<1>1. /\ cli'[c].pc = pc /\ cli'[c].kind = cli[c].kind BY DEF TypeOK, Goto, Command
<1>2. current \in Nat /\ KindFits(c) BY Numbers DEF Honesty, Honest
<1>3. KindFits(c)' BY <1>1, <1>2 DEF KindFits, External, Settled
<1>4. RotationIsShared' \/ (current <= current' /\ Rises')
  BY <1>2 DEF Honesty, Rises, RotationIsShared, authority
<1>. QED BY <1>1, <1>3, <1>4 DEF Reports, Ordered

LEMMA StartReports ==
    ASSUME TypeOK, Fit, Honesty, NEW c \in Clis, StartToken(c) \/ StartExternal(c) \/ Rerun(c)
    PROVE  Reports(c)
<1>1. UNCHANGED <<authority, vault, given>> BY DEF StartToken, StartExternal, Rerun
<1>2. cli \in [Clis -> Command] BY DEF TypeOK
<1>3. used \in Nat /\ current \in Nat /\ pending \in Nat /\ vault.token \in Nat /\ vault.token <= used
  BY Numbers
<1>4. ASSUME ~RotationIsShared, pending # None, pending # vault.token PROVE vault.token < pending
  BY <1>3, <1>4 DEF Honesty, Rises, Fit, VaultBearerIsAccepted, Accepted
<1>5. \/ cli'[c].pc = "status" /\ cli'[c].kind = "token"
      \/ cli'[c].pc = "swap" /\ cli'[c].kind = "external"
      \/ /\ cli'[c].pc = "prepare" /\ cli'[c].kind = "token"
         /\ RotationIsShared \/ cli'[c].previous < cli'[c].next
  <2>1. CASE StartToken(c)
    <3>1. PICK v \in {used + 1, vault.token, pending} \ {None} :
             cli' = [cli EXCEPT ![c] =
                    [Idle EXCEPT !.pc = IF v = vault.token THEN "status" ELSE "prepare",
                                 !.previous = vault.token, !.next = v]]
      BY <2>1 DEF StartToken
    <3>2. CASE v = vault.token BY <1>2, <3>1, <3>2 DEF Idle
    <3>3. CASE v # vault.token
      <4>1. /\ cli'[c].pc = "prepare" /\ cli'[c].kind = "token"
            /\ cli'[c].previous = vault.token /\ cli'[c].next = v
        BY <1>2, <3>1, <3>3 DEF Idle
      <4>2. v = used + 1 \/ (v = pending /\ pending # None) BY <3>1, <3>3
      <4>. QED BY <1>3, <1>4, <3>3, <4>1, <4>2
    <3>. QED BY <3>2, <3>3
  <2>2. CASE StartExternal(c) BY <1>2, <2>2 DEF StartExternal, Idle
  <2>3. CASE Rerun(c)
    <3>1. pending # None BY <2>3 DEF Rerun, TypeOK
    <3>2. cli' = [cli EXCEPT ![c] =
              [Idle EXCEPT !.pc = IF pending = vault.token THEN "status" ELSE "prepare",
                           !.previous = vault.token, !.next = pending]]
      BY <2>3 DEF Rerun
    <3>3. CASE pending = vault.token BY <1>2, <3>2, <3>3 DEF Idle
    <3>4. CASE pending # vault.token
      <4>1. /\ cli'[c].pc = "prepare" /\ cli'[c].kind = "token"
            /\ cli'[c].previous = vault.token /\ cli'[c].next = pending
        BY <1>2, <3>2, <3>4 DEF Idle
      <4>. QED BY <1>4, <3>1, <3>4, <4>1
    <3>. QED BY <3>3, <3>4
  <2>. QED BY <2>1, <2>2, <2>3
<1>6. RotationIsShared' \/ (current <= current' /\ Rises')
  BY <1>1, <1>3 DEF Honesty, Rises, RotationIsShared, authority
<1>7. RotationIsShared' = RotationIsShared BY <1>1 DEF RotationIsShared
<1>. QED BY <1>1, <1>5, <1>6, <1>7 DEF Reports, Ordered, KindFits, External, Settled, Names

\* A command is given a rotation, or its answer is lost.
LEMMA GivenReports ==
    ASSUME TypeOK, Fit, Honesty, NEW c \in Clis, NEW r, Gives(c, r),
           cli'[c].pc \in {"stage", "resume", "failed"}, cli[c].kind = "token",
           cli'[c].kind = "token",
           \/ UNCHANGED authority
           \/ cli[c].pc = "prepare" /\ Prepared(cli[c].next, r) /\ current = cli[c].previous
    PROVE  Reports(c)
<1>1. current \in Nat BY Numbers
<1>2. \A g \in given' \ given : g.by = c BY DEF Gives
<1>3. RotationIsShared => RotationIsShared' BY SharedStays DEF Gives
<1>4. RotationIsShared' \/ (current <= current' /\ Rises')
  <2>1. CASE UNCHANGED authority BY <1>1, <1>3, <2>1 DEF Honesty, Rises, authority
  <2>2. CASE cli[c].pc = "prepare" /\ Prepared(cli[c].next, r) /\ current = cli[c].previous
    BY <1>1, <1>3, <2>2 DEF Honesty, Honest, Ordered, Rises, Prepared
  <2>. QED BY <2>1, <2>2
<1>. QED BY <1>2, <1>4 DEF Reports, Ordered, KindFits, External

LEMMA StatusReports == ASSUME TypeOK, Fit, Honesty, NEW c \in Clis, Status(c) PROVE Reports(c)
<1>1. UNCHANGED <<authority, vault>> /\ cli[c].pc = "status" BY DEF Status
<1>2. CASE ~(Answers(cli[c].next) /\ rotation # None /\ cli[c].next # current)
  <2>1. PICK pc \in {"done", "failed"} : Goto(c, pc) BY <1>2 DEF Status
  <2>2. UNCHANGED given BY <1>2 DEF Status
  <2>. QED BY <1>1, <2>1, <2>2, QuietReports DEF Settled
<1>3. CASE Answers(cli[c].next) /\ rotation # None /\ cli[c].next # current
  <2>1. cli' = [cli EXCEPT ![c].pc = "resume", ![c].rid = rotation] /\ Gives(c, rotation)
    BY <1>3 DEF Status
  <2>2. cli[c].kind = "token"
    BY <1>1 DEF Honesty, Honest, KindFits, Names, External, Settled
  <2>3. cli'[c].pc = "resume" /\ cli'[c].kind = "token" BY <2>1, <2>2 DEF TypeOK, Command
  <2>. QED BY <1>1, <2>1, <2>2, <2>3, GivenReports
<1>. QED BY <1>2, <1>3

LEMMA PrepareReports == ASSUME TypeOK, Fit, Honesty, NEW c \in Clis, Prepare(c) PROVE Reports(c)
<1>1. cli[c].pc = "prepare" BY DEF Prepare
<1>2. CASE ~MayPrepare(cli[c].previous, cli[c].next)
  <2>1. Goto(c, "failed") /\ UNCHANGED <<authority, given>> BY <1>2 DEF Prepare
  <2>. QED BY <2>1, QuietReports DEF Settled
<1>3. CASE MayPrepare(cli[c].previous, cli[c].next)
  <2>1. PICK r : /\ Prepared(cli[c].next, r) /\ Gives(c, r)
                 /\ cli' = [cli EXCEPT ![c].pc = "stage", ![c].rid = r]
    BY <1>3 DEF Prepare, Prepared
  <2>2. cli[c].kind = "token"
    BY <1>1 DEF Honesty, Honest, KindFits, Names, External, Settled
  <2>3. cli'[c].pc = "stage" /\ cli'[c].kind = "token" BY <2>1, <2>2 DEF TypeOK, Command
  <2>4. current = cli[c].previous BY <1>3 DEF MayPrepare
  <2>. QED BY <1>1, <2>1, <2>2, <2>3, <2>4, GivenReports
<1>. QED BY <1>2, <1>3

\* The steps of a rotation between its preparation and its end.
LEMMA WorkReports ==
    ASSUME TypeOK, Fit, Honesty, NEW c \in Clis,
           Resume(c) \/ Stage(c) \/ Verify(c) \/ Restore(c) \/ VerifyBack(c)
    PROVE  Reports(c)
<1>1. UNCHANGED <<authority, given>> BY DEF Resume, Stage, Verify, Restore, VerifyBack
<1>2. cli[c].pc \in {"resume", "stage", "verify", "restore", "verify_back"}
  BY DEF Resume, Stage, Verify, Restore, VerifyBack
<1>3. PICK pc \in {"commit", "failed", "verify", "abort", "restore", "abort_back", "restored"} :
         Goto(c, pc)
  BY DEF Resume, Stage, Verify, Restore, VerifyBack
<1>. QED BY <1>1, <1>2, <1>3, QuietReports DEF Names, External, Settled

\* A rotation ends: what is accepted from now on is not older than before.
LEMMA EndReports ==
    ASSUME TypeOK, Fit, Honesty, NEW c \in Clis, NEW pc \in Settled \ {"idle"}, Goto(c, pc),
           UNCHANGED given, pending' = None, current' = current \/ (current' = pending /\ pending # None)
    PROVE  Reports(c)
<1>1. cli'[c].pc = pc BY DEF TypeOK, Goto, Command
<1>2. current \in Nat /\ pending \in Nat BY Numbers
<1>3. RotationIsShared' \/ (current <= current' /\ Rises')
  BY <1>2 DEF Honesty, Rises, RotationIsShared
<1>. QED BY <1>1, <1>3 DEF Reports, Ordered, KindFits, External, Settled, Names

LEMMA AbortReports ==
    ASSUME TypeOK, Fit, Honesty, NEW c \in Clis, Abort(c), Keeps(c)
    PROVE  Reports(c)
<1>1. cli[c].pc \in {"abort", "abort_back"} /\ UNCHANGED <<given, vault>> BY DEF Abort
<1>2. CASE UNCHANGED authority /\ Goto(c, "failed") BY <1>1, <1>2, QuietReports DEF Settled
<1>3. CASE Aborted /\ Goto(c, "failed") BY <1>1, <1>3, EndReports DEF Aborted, Settled
<1>4. CASE Aborted /\ Goto(c, "verify_back") /\ Aborts(cli[c].rid, cli[c].previous)
  <2>1. /\ cli'[c].pc = "verify_back" /\ cli'[c].previous = cli[c].previous
        /\ cli'[c].kind = cli[c].kind
    BY <1>4 DEF TypeOK, Goto, Command
  <2>2. cli[c].kind = "token"
    BY <1>1 DEF Honesty, Honest, KindFits, Names, External, Settled
  <2>3. current' = current /\ current = cli[c].previous /\ pending' = None /\ current \in Nat
    BY <1>4, Numbers DEF Aborted, Aborts
  <2>4. Alone(c) => vault'.token = current'
    <3>1. Alone(c) => ~RotationIsShared' BY <1>1, AloneSharesNothing DEF Honesty, RotationIsShared
    <3>. QED BY <2>3, <3>1 DEF Keeps, VaultBearerIsAccepted, Accepted
  <2>. QED BY <1>1, <2>1, <2>2, <2>3, <2>4 DEF Reports, Ordered, KindFits, External, Rises
<1>. QED BY <1>1, <1>2, <1>3, <1>4 DEF Abort

LEMMA CommitReports == ASSUME TypeOK, Fit, Honesty, NEW c \in Clis, Commit(c) PROVE Reports(c)
<1>1. cli[c].pc = "commit" /\ UNCHANGED given BY DEF Commit
<1>2. PICK pc \in {"done", "failed"} : Goto(c, pc) BY DEF Commit
<1>3. CASE UNCHANGED authority BY <1>1, <1>2, <1>3, QuietReports DEF Settled
<1>4. CASE ~UNCHANGED authority
  <2>1. /\ Commits(cli[c].rid, cli[c].next) \/ Recommits(cli[c].rid, cli[c].next)
        /\ Committed(cli[c].rid, cli[c].next)
    BY <1>4 DEF Commit
  <2>2. pending' = None /\ current' = pending BY <1>4, <2>1 DEF Committed
  <2>3. CASE pending # None BY <1>1, <1>2, <2>2, <2>3, EndReports DEF Settled
  <2>4. CASE pending = None
    <3>1. rotation = None BY <2>4 DEF TypeOK
    <3>2. cli[c].rid = None /\ cli[c].next = None
      BY <1>4, <2>1, <2>4, <3>1 DEF Commits, Committed
    <3>3. RotationIsShared BY <1>1, <3>2 DEF Fit, Fits, Tells, Working
    <3>4. RotationIsShared' BY <1>1, <3>3 DEF RotationIsShared
    <3>5. cli'[c].pc = pc BY <1>2 DEF TypeOK, Goto, Command
    <3>. QED BY <1>1, <3>4, <3>5 DEF Reports, KindFits, External, Settled, Names
  <2>. QED BY <2>3, <2>4
<1>. QED BY <1>3, <1>4

LEMMA ExternalReports ==
    ASSUME TypeOK, Fit, Honesty, NEW c \in Clis, Swap(c) \/ Activate(c) \/ Probe(c) \/ SwapBack(c)
    PROVE  Reports(c)
<1>1. UNCHANGED <<authority, given>> /\ cli[c].pc \in External
  BY DEF Swap, Activate, Probe, SwapBack, External
<1>2. CASE Activate(c) /\ plane'.up
  <2>1. PICK pc \in {"probe", "probe_back"} : Goto(c, pc) BY <1>2 DEF Activate
  <2>2. cli'[c].pc = pc /\ cli'[c].kind = cli[c].kind BY <2>1 DEF TypeOK, Goto, Command
  <2>3. cli[c].kind = "external" BY <1>1 DEF Honesty, Honest, KindFits
  <2>4. plane'.external = vault'.external
    <3>1. plane' = Started /\ vault' = vault BY <1>2 DEF Activate
    <3>2. CASE Accepted(vault.token) BY <3>1, <3>2 DEF Started
    <3>3. CASE ~Accepted(vault.token) BY <1>2, <3>1, <3>3 DEF Started, TypeOK
    <3>. QED BY <3>2, <3>3
  <2>5. current \in Nat BY Numbers
  <2>6. RotationIsShared' \/ (current <= current' /\ Rises')
    BY <1>1, <2>5 DEF Honesty, Rises, RotationIsShared, authority
  <2>. QED BY <1>1, <2>1, <2>2, <2>3, <2>4, <2>6
           DEF Reports, Ordered, KindFits, External, Settled, Names
<1>3. CASE ~(Activate(c) /\ plane'.up)
  <2>1. PICK pc \in {"activate", "failed", "swap_back", "done", "restored", "activate_back"} :
           Goto(c, pc)
    BY <1>3 DEF Swap, Activate, Probe, SwapBack
  <2>. QED BY <1>1, <2>1, QuietReports DEF External, Settled
<1>. QED BY <1>2, <1>3

LEMMA FailureReports ==
    ASSUME TypeOK, Fit, Honesty, NEW c \in Clis, RequestFails(c) \/ CliCrash(c)
    PROVE  Reports(c)
<1>1. UNCHANGED <<authority, given>> BY DEF RequestFails, CliCrash
<1>2. \/ cli[c].pc = "verify" /\ Goto(c, "restore")
      \/ cli[c].pc = "probe" /\ Goto(c, "swap_back")
      \/ Goto(c, "failed")
  BY DEF RequestFails, CliCrash
<1>. QED BY <1>1, <1>2, QuietReports DEF Names, External, Settled

LEMMA LostReports == ASSUME TypeOK, Fit, Honesty, NEW c \in Clis, ResponseLost(c) PROVE Reports(c)
<1>1. Goto(c, "failed") BY DEF ResponseLost
<1>2. CASE cli[c].pc = "prepare"
  <2>1. Gives(c, used') /\ Prepared(cli[c].next, used') /\ current = cli[c].previous
    BY <1>2 DEF ResponseLost, MayPrepare
  <2>2. cli[c].kind = "token"
    BY <1>2 DEF Honesty, Honest, KindFits, Names, External, Settled
  <2>3. cli'[c].pc = "failed" /\ cli'[c].kind = "token"
    BY <1>1, <2>2 DEF TypeOK, Goto, Command
  <2>. QED BY <1>2, <2>1, <2>2, <2>3, GivenReports
<1>3. CASE cli[c].pc \in {"abort", "abort_back"}
  BY <1>1, <1>3, EndReports DEF ResponseLost, Aborted, Settled
<1>4. CASE cli[c].pc = "commit"
  <2>1. UNCHANGED given /\ Committed(cli[c].rid, cli[c].next) /\ Commits(cli[c].rid, cli[c].next)
    BY <1>4 DEF ResponseLost
  <2>2. pending' = None /\ current' = pending BY <2>1 DEF Committed, Commits
  <2>3. CASE pending # None BY <1>1, <2>1, <2>2, <2>3, EndReports DEF Settled
  <2>4. CASE pending = None
    <3>1. cli[c].rid = None BY <2>1, <2>4 DEF Commits, TypeOK
    <3>2. RotationIsShared BY <1>4, <3>1 DEF Fit, Fits, Tells, Working
    <3>3. RotationIsShared' BY <2>1, <3>2 DEF RotationIsShared
    <3>4. cli'[c].pc = "failed" BY <1>1 DEF TypeOK, Goto, Command
    <3>. QED BY <2>1, <3>3, <3>4 DEF Reports, KindFits, External, Settled, Names
  <2>. QED BY <2>3, <2>4
<1>. QED BY <1>2, <1>3, <1>4 DEF ResponseLost

\* The step of a command.
CommandStep(c) ==
    \/ StartToken(c) \/ StartExternal(c) \/ Steps(c)
    \/ RequestFails(c) \/ ResponseLost(c) \/ CliCrash(c) \/ Rerun(c)

LEMMA StepKeeps ==
    ASSUME TypeOK, Fit, NEW c \in Clis, CommandStep(c)
    PROVE  Keeps(c)
BY StartKeeps, StatusKeeps, PrepareKeeps, StageKeeps, VerifyKeeps, RestoreKeeps,
   AbortKeeps, CommitKeeps, LostKeeps, FailureKeeps, OtherKeeps DEF Steps, CommandStep

LEMMA StepReports ==
    ASSUME TypeOK, Fit, Honesty, NEW c \in Clis, CommandStep(c)
    PROVE  Reports(c)
BY StepKeeps, StartReports, StatusReports, PrepareReports, WorkReports, AbortReports,
   CommitReports, ExternalReports, FailureReports, LostReports DEF Steps, CommandStep

\* A process that starts has what the vault holds.
LEMMA PlaneHonest ==
    ASSUME TypeOK, Honesty, PlaneCrash \/ PlaneStart
    PROVE  Honesty'
<1>1. UNCHANGED <<authority, vault, cli, given>> BY DEF PlaneCrash, PlaneStart
<1>2. plane'.external \in {plane.external, vault.external}
  BY DEF PlaneCrash, PlaneStart, Started, TypeOK
<1>3. ASSUME NEW c \in Clis PROVE Honest(c)'
  BY <1>1, <1>2, <1>3
  DEF Honesty, Honest, KindFits, Ordered, Left, Loaded, Alone, RotationIsShared, authority
<1>. QED BY <1>1, <1>3 DEF Honesty, Ran, Rises, RotationIsShared, authority

LEMMA NextHonest ==
    ASSUME TypeOK, Fit, Honesty, [Next]_vars
    PROVE  Honesty'
<1>1. CASE UNCHANGED vars
  BY <1>1 DEF vars, authority, spent, Honesty, Ran, Rises, RotationIsShared, Honest, KindFits,
              Ordered, Left, Loaded, Alone
<1>2. CASE PlaneCrash \/ PlaneStart BY <1>2, PlaneHonest
<1>3. ASSUME NEW c \in Clis, CommandStep(c) PROVE Honesty'
  <2>1. TypeOK' BY NextFit
  <2>. QED BY <1>3, <2>1, StepKeeps, StepReports, ReportsKept
<1>. QED BY <1>1, <1>2, <1>3 DEF Next, CommandStep

LEMMA InitHonest == Init => Honesty
<1>. SUFFICES ASSUME Init PROVE Honesty OBVIOUS
<1>1. \A c \in Clis : cli[c].pc = "idle" BY DEF Init, Idle
<1>2. pending = None /\ given = {} BY DEF Init
<1>. QED BY <1>1, <1>2
         DEF Honesty, Ran, Rises, Honest, KindFits, Ordered, Left, Loaded, External, Names, Settled

\* What a command says when it ends.
Says(c) ==
    IF cli[c].kind = "external" THEN Alone(c) => plane'.external = vault'.external
    ELSE /\ cli'[c].pc = "done" => current' = cli[c].next
         /\ cli'[c].pc = "restored" => current' = cli[c].previous \/ RotationIsShared
         /\ Alone(c) => vault'.token = current' /\ pending' = None

LEMMA TokenSays ==
    ASSUME TypeOK, Fit, Honesty, NEW c \in Clis, Status(c) \/ VerifyBack(c) \/ Commit(c),
           cli'[c].pc \in {"done", "restored"}
    PROVE  Says(c)
<1>0. current \in Nat /\ pending \in Nat /\ cli[c].previous \in Nat BY Numbers
<1>1. cli[c].kind = "token"
  <2>1. cli[c].pc \in {"status", "verify_back", "commit"} BY DEF Status, VerifyBack, Commit
  <2>. QED BY <2>1 DEF Honesty, Honest, KindFits, Names, External, Settled
<1>2. Alone(c) => ~RotationIsShared BY AloneSharesNothing DEF Honesty
<1>3. UNCHANGED vault BY DEF Status, VerifyBack, Commit
<1>4. CASE Status(c)
  <2>1. Answers(cli[c].next) /\ rotation = None /\ cli'[c].pc = "done" /\ UNCHANGED authority
    BY <1>4 DEF Status, Goto, TypeOK, Command
  <2>2. pending = None BY <2>1 DEF TypeOK
  <2>3. current = cli[c].next BY <2>1, <2>2 DEF Answers, Accepted
  <2>4. Alone(c) => vault.token = current
    BY <1>2, <2>2 DEF Fit, VaultBearerIsAccepted, Accepted
  <2>. QED BY <1>1, <1>3, <2>1, <2>2, <2>3, <2>4 DEF Says, authority
<1>5. CASE VerifyBack(c)
  <2>1. /\ Answers(cli[c].previous) /\ cli'[c].pc = "restored" /\ UNCHANGED authority
        /\ cli[c].pc = "verify_back"
    BY <1>5 DEF VerifyBack, Goto, TypeOK, Command
  <2>2. current = cli[c].previous \/ RotationIsShared
    BY <1>0, <2>1 DEF Answers, Accepted, Honesty, Honest, Ordered, Rises
  <2>. QED BY <1>1, <1>3, <2>1, <2>2 DEF Says, Honesty, Honest, Left, authority
<1>6. CASE Commit(c)
  <2>1. /\ cli[c].pc = "commit" /\ cli'[c].pc = "done" /\ Committed(cli[c].rid, cli[c].next)
        /\ Recommits(cli[c].rid, cli[c].next) \/ Commits(cli[c].rid, cli[c].next)
    BY <1>6 DEF Commit, Goto, TypeOK, Command
  <2>2. current' = cli[c].next BY <2>1 DEF Committed, Recommits, Commits, authority
  <2>3. ASSUME Alone(c) PROVE vault'.token = current' /\ pending' = None
    <3>1. Tells(c) /\ Rises BY <1>2, <2>3, Known DEF Honesty
    <3>2. /\ rotation # None /\ pending = cli[c].next /\ vault.token = cli[c].next
      BY <2>1, <3>1 DEF Tells, Working, New
    <3>3. current # cli[c].next BY <1>0, <3>1, <3>2 DEF Rises, TypeOK
    <3>. QED BY <1>3, <2>1, <2>2, <3>2, <3>3 DEF Committed, Recommits
  <2>. QED BY <1>1, <2>1, <2>2, <2>3 DEF Says
<1>. QED BY <1>4, <1>5, <1>6

\* Only the steps that ask the authority or the process end with a report.
LEMMA CommandSays ==
    ASSUME TypeOK, Fit, Honesty, NEW c \in Clis, CommandStep(c),
           cli[c].pc \notin Settled, cli'[c].pc \in {"done", "restored"}
    PROVE  Says(c)
<1>1. CASE Status(c) \/ VerifyBack(c) \/ Commit(c) BY <1>1, TokenSays
<1>2. CASE Probe(c)
  <2>1. cli[c].pc \in {"probe", "probe_back"} /\ UNCHANGED <<vault, plane>> BY <1>2 DEF Probe
  <2>. QED BY <2>1 DEF Says, Honesty, Honest, KindFits, Loaded, External
<1>3. CASE StartToken(c) \/ StartExternal(c) \/ Rerun(c)
  BY <1>3 DEF StartToken, StartExternal, Rerun
<1>4. CASE Prepare(c)
  <2>1. cli'[c].pc \in {"stage", "failed"} BY <1>4 DEF Prepare, Goto, TypeOK, Command
  <2>. QED BY <2>1
<1>5. CASE \/ Resume(c) \/ Stage(c) \/ Verify(c) \/ Restore(c) \/ Abort(c) \/ Swap(c) \/ Activate(c)
          \/ SwapBack(c) \/ RequestFails(c) \/ ResponseLost(c) \/ CliCrash(c)
  <2>1. PICK pc \in Names \ {"done", "restored"} : Goto(c, pc)
    BY <1>5 DEF Resume, Stage, Verify, Restore, Abort, Swap, Activate, SwapBack, RequestFails,
                ResponseLost, CliCrash, Names
  <2>2. cli'[c].pc = pc BY <2>1 DEF Goto, TypeOK, Command
  <2>. QED BY <2>2
<1>. QED BY <1>1, <1>2, <1>3, <1>4, <1>5 DEF CommandStep, Steps

LEMMA StepSays ==
    ASSUME TypeOK, Fit, Honesty, [Next]_vars, NEW c \in Clis,
           cli[c].pc \notin Settled, cli'[c].pc \in {"done", "restored"}
    PROVE  Says(c)
<1>1. cli'[c] # cli[c] BY DEF Settled
<1>2. PICK d \in Clis : CommandStep(d)
  BY <1>1 DEF Next, CommandStep, vars, PlaneCrash, PlaneStart
<1>3. Keeps(d) BY <1>2, StepKeeps
<1>4. d = c BY <1>1, <1>3 DEF Keeps
<1>. QED BY <1>2, <1>4, CommandSays

\* Commands, authority, vault and process have their types.
THEOREM TypeCorrect == Spec => []TypeOK
BY InitTypes, InitFit, NextFit, PTL DEF Spec

\* Whatever commands are run, rerun or die, and whatever request fails or loses
\* its answer, the stored administrator bearer is accepted, so the operator is
\* never locked out; unless two commands were given one rotation.
THEOREM NeverLockedOut == Spec => []VaultBearerIsAccepted
<1>1. Fit => VaultBearerIsAccepted BY DEF Fit
<1>. QED BY <1>1, InitTypes, InitFit, NextFit, PTL DEF Spec

\* A rotation that reports success or a certified rollback tells the truth: the
\* authority has the bearer that is named, whoever else ran; and when nobody did
\* it is the stored one with nothing left prepared, and after an external
\* rotation the process runs with what is stored (rotateOperatorApiToken,
\* rotateOperatorServiceCredential).
THEOREM ReportsTellTheTruth == Spec => ReportsAreTrue
<1>1. TypeOK /\ Fit /\ Honesty /\ [Next]_vars =>
        [\A c \in Clis :
            cli[c].pc \notin Settled /\ cli'[c].pc \in {"done", "restored"} =>
              IF cli[c].kind = "external" THEN Alone(c) => plane'.external = vault'.external
              ELSE /\ cli'[c].pc = "done" => current' = cli[c].next
                   /\ cli'[c].pc = "restored" => current' = cli[c].previous \/ RotationIsShared
                   /\ Alone(c) => vault'.token = current' /\ pending' = None]_vars
  BY StepSays DEF Says
<1>2. TypeOK /\ Fit /\ Honesty /\ [Next]_vars => Honesty' BY NextHonest
<1>. QED BY <1>1, <1>2, InitTypes, InitFit, InitHonest, NextFit, PTL DEF Spec, ReportsAreTrue

-----------------------------------------------------------------------------
(* OperatorTools: each part moves as its own module says.                  *)

LEMMA PartsStart ==
    ASSUME ToolsInit
    PROVE  /\ part = "backup" => B!Init
           /\ part = "campaign" => C!Init
           /\ part = "preflight" => P!Init
           /\ part = "readiness" => R!Init
           /\ part = "update" => U!Init
BY DEF ToolsInit

LEMMA PartsMove ==
    ASSUME [ToolsNext]_toolsVars
    PROVE  /\ part' = part
           /\ part = "backup" => [B!Next]_(B!vars)
           /\ part = "campaign" => [C!Next]_(C!vars)
           /\ part = "preflight" => [P!Next]_(P!vars)
           /\ part = "readiness" => [R!Next]_(R!vars)
           /\ part = "update" => [U!Next]_(U!vars)
<1>1. CASE UNCHANGED toolsVars
  BY <1>1 DEF toolsVars, backup, campaign, preflight, readiness, update,
              B!vars, C!vars, C!server, C!past, P!vars, R!vars, U!vars
<1>2. CASE ToolsNext BY <1>2 DEF ToolsNext
<1>. QED BY <1>1, <1>2

-----------------------------------------------------------------------------
(* OperatorBackup: what a restore installs.                                *)

Databases == [accepts : SUBSET Nat]
Vaults == [key : Nat, bearer : Nat]
AnyDatabase == Databases \union {B!Damaged, B!None}
AnyVault == Vaults \union {B!Damaged, B!None}
Manifests == [id : Nat, db : AnyDatabase, vault : AnyVault, key : Nat]
AnyManifest == Manifests \union {B!Damaged, B!None}
Bundles == [db : AnyDatabase, vault : AnyVault, manifest : AnyManifest, crossed : BOOLEAN]
Restored == [db : AnyDatabase, vault : AnyVault, manifest : AnyManifest]

Reading == {"readDatabase", "readVault", "recertify", "install"}
Copying == {"idle", "copyDatabase", "copyVault", "certify", "publish"}
BackupTool ==
    [pc : Copying \union Reading, place : Places \union {B!None}, home : Homes \union {B!None},
     key : Nat, db : AnyDatabase, vault : AnyVault, manifest : AnyManifest, crossed : BOOLEAN]

\* The types of OperatorBackup.
BackupTyped ==
    /\ database \in Databases
    /\ secrets \in Vaults
    /\ bundle \in [Places -> Bundles \union {B!None}]
    /\ home \in [Homes -> Restored \union {B!None}]
    /\ tool \in [Tools -> BackupTool]
    /\ \A t \in Tools : /\ tool[t].pc # "idle" => tool[t].place \in Places
                        /\ tool[t].pc \in Reading => tool[t].home \in Homes
    /\ drawn \in [bearers : Nat, bundles : Nat, hurt : Nat]
    /\ certified \subseteq Bundles


\* The steps of one command.
BackupSteps(t) ==
    \/ \E p \in Places : B!BeginCreate(t, p)
    \/ B!CopyDatabase(t) \/ B!CopyVault(t) \/ B!Certify(t) \/ B!Publish(t)
    \/ \E p \in Places, h \in Homes, k \in 1..bounds.keys : B!BeginRestore(t, p, h, k)
    \/ B!ReadDatabase(t) \/ B!ReadVault(t) \/ B!Recertify(t) \/ B!Install(t)
    \/ B!Crash(t)


LEMMA ToolSet ==
    ASSUME tool \in [Tools -> BackupTool], NEW t \in Tools, NEW x \in BackupTool,
           tool' = [tool EXCEPT ![t] = x]
    PROVE  tool' \in [Tools -> BackupTool] /\ tool'[t] = x
           /\ \A u \in Tools \ {t} : tool'[u] = tool[u]
OBVIOUS

LEMMA IdleTyped == B!Idle \in BackupTool /\ B!Idle.pc = "idle"
BY DEF B!Idle, BackupTool, Copying, AnyDatabase, AnyVault, AnyManifest

LEMMA BackupInit == B!Init => BackupTyped
BY IdleTyped DEF BackupTyped, B!Init, Databases, Vaults, Reading

LEMMA BackupNext == BackupTyped /\ [B!Next]_(B!vars) => BackupTyped'
<1> SUFFICES ASSUME BackupTyped, [B!Next]_(B!vars) PROVE BackupTyped'
  OBVIOUS
<1> USE DEF BackupTyped
<1>1. CASE UNCHANGED B!vars BY <1>1 DEF B!vars
<1>2. CASE B!PrepareBearer BY <1>2 DEF B!PrepareBearer, Databases, Vaults
<1>3. CASE B!StoreBearer
  <2>1. tool' = B!Crossing /\ UNCHANGED <<database, bundle, home, drawn, certified>>
    BY <1>3 DEF B!StoreBearer
  <2>2. \A t \in Tools : [tool[t] EXCEPT !.crossed = TRUE] \in BackupTool BY DEF BackupTool
  <2>3. tool' \in [Tools -> BackupTool] BY <2>1, <2>2 DEF B!Crossing
  <2>4. \A t \in Tools : tool'[t].pc = tool[t].pc /\ tool'[t].place = tool[t].place
                         /\ tool'[t].home = tool[t].home
    BY <2>1 DEF B!Crossing, BackupTool
  <2>5. secrets' \in Vaults BY <1>3 DEF B!StoreBearer, Databases, Vaults
  <2>6. QED BY <2>1, <2>3, <2>4, <2>5
<1>4. CASE B!SettleBearer BY <1>4 DEF B!SettleBearer, Databases, Vaults
<1>5. CASE B!RotateKey BY <1>5 DEF B!RotateKey, Vaults
<1>6. CASE \E p \in Places : B!Alter(p)
  <2>1. PICK p \in Places : B!Alter(p) BY <1>6
  <2>2. drawn' \in [bearers : Nat, bundles : Nat, hurt : Nat] BY <2>1 DEF B!Alter
  <2>3. bundle[p] \in Bundles BY <2>1 DEF B!Alter
  <2>4. bundle' \in [Places -> Bundles \union {B!None}]
    BY <2>1, <2>3 DEF B!Alter, Bundles, AnyDatabase, AnyVault, AnyManifest
  <2>5. QED BY <2>1, <2>2, <2>4 DEF B!Alter
<1>7. CASE \E t \in Tools : BackupSteps(t)
  <2>1. PICK t \in Tools : BackupSteps(t) BY <1>7
  <2>2. tool[t] \in BackupTool OBVIOUS
  <2>3. CASE \E p \in Places : B!BeginCreate(t, p)
    <3>1. PICK p \in Places : B!BeginCreate(t, p) BY <2>3
    <3> DEFINE x == [B!Idle EXCEPT !.pc = "copyDatabase", !.place = p, !.key = secrets.key]
    <3>2. x \in BackupTool /\ x.pc = "copyDatabase" /\ x.place = p
      BY IdleTyped DEF BackupTool, Copying, Vaults
    <3>3. tool' = [tool EXCEPT ![t] = x] BY <3>1 DEF B!BeginCreate
    <3> HIDE DEF x
    <3>4. QED BY <3>1, <3>2, <3>3, ToolSet DEF B!BeginCreate, Reading
  <2>4. CASE B!CopyDatabase(t)
    BY <2>4, <2>2 DEF B!CopyDatabase, BackupTool, Copying, AnyDatabase, Reading
  <2>5. CASE B!CopyVault(t)
    BY <2>5, <2>2 DEF B!CopyVault, BackupTool, Copying, AnyVault, Reading
  <2>6. CASE B!Certify(t)
    <3>1. B!Manifest(t) \in AnyManifest
      BY <2>2 DEF B!Manifest, BackupTool, AnyManifest, Manifests
    <3>2. CASE tool[t].vault.key # tool[t].key
      BY <2>6, <3>2, IdleTyped, ToolSet DEF B!Certify, B!Fail, Reading
    <3>3. CASE tool[t].vault.key = tool[t].key
      <4> DEFINE x == [tool[t] EXCEPT !.manifest = B!Manifest(t), !.pc = "publish"]
      <4>1. x \in BackupTool /\ x.pc = "publish" /\ x.place = tool[t].place
        BY <3>1, <2>2 DEF BackupTool, Copying
      <4>2. tool' = [tool EXCEPT ![t] = x] BY <2>6, <3>3 DEF B!Certify
      <4>3. drawn' \in [bearers : Nat, bundles : Nat, hurt : Nat] BY <2>6, <3>3 DEF B!Certify
      <4> HIDE DEF x
      <4>4. QED BY <2>6, <4>1, <4>2, <4>3, ToolSet DEF B!Certify, Reading
    <3>4. QED BY <3>2, <3>3
  <2>7. CASE B!Publish(t)
    <3>1. B!Bundle(t) \in Bundles BY <2>2 DEF B!Bundle, BackupTool, Bundles
    <3>2. QED BY <2>7, <3>1, IdleTyped, ToolSet DEF B!Publish, B!Fail, Reading
  <2>8. CASE \E p \in Places, h \in Homes, k \in 1..bounds.keys : B!BeginRestore(t, p, h, k)
    <3>1. PICK p \in Places, h \in Homes, k \in 1..bounds.keys : B!BeginRestore(t, p, h, k) BY <2>8
    <3>2. bundle[p] \in Bundles BY <3>1 DEF B!BeginRestore
    <3> DEFINE m == bundle[p].manifest
               x == [B!Idle EXCEPT !.pc = "readDatabase", !.place = p, !.home = h, !.key = k,
                                   !.manifest = m]
    <3>3. m \in AnyManifest BY <3>2 DEF Bundles
    <3>4. k \in Nat OBVIOUS
    <3>5. tool' = [tool EXCEPT ![t] = x] BY <3>1 DEF B!BeginRestore
    <3> HIDE DEF m
    <3>6. x \in BackupTool /\ x.pc = "readDatabase" /\ x.place = p /\ x.home = h
      BY IdleTyped, <3>3, <3>4 DEF BackupTool, Reading
    <3> HIDE DEF x
    <3>7. QED BY <3>1, <3>5, <3>6, ToolSet DEF B!BeginRestore
  <2>9. CASE B!ReadDatabase(t)
    <3>1. CASE bundle[tool[t].place] = B!None
      BY <2>9, <3>1, IdleTyped, ToolSet DEF B!ReadDatabase, B!Fail, Reading
    <3>2. CASE bundle[tool[t].place] # B!None
      <4>p. tool[t].pc = "readDatabase" BY <2>9 DEF B!ReadDatabase
      <4>0. tool[t].place \in Places BY <4>p
      <4>1. bundle[tool[t].place] \in Bundles BY <4>0, <3>2
      <4>2. bundle[tool[t].place].db \in AnyDatabase BY <4>1 DEF Bundles
      <4>3. QED BY <2>9, <3>2, <4>2 DEF B!ReadDatabase, BackupTool, Reading
    <3>3. QED BY <3>1, <3>2
  <2>10. CASE B!ReadVault(t)
    <3>1. CASE bundle[tool[t].place] = B!None
      BY <2>10, <3>1, IdleTyped, ToolSet DEF B!ReadVault, B!Fail, Reading
    <3>2. CASE bundle[tool[t].place] # B!None
      <4>p. tool[t].pc = "readVault" BY <2>10 DEF B!ReadVault
      <4>0. tool[t].place \in Places BY <4>p
      <4>1. bundle[tool[t].place] \in Bundles BY <4>0, <3>2
      <4>2. bundle[tool[t].place].vault \in AnyVault BY <4>1 DEF Bundles
      <4>3. QED BY <2>10, <3>2, <4>2 DEF B!ReadVault, BackupTool, Reading
    <3>3. QED BY <3>1, <3>2
  <2>11. CASE B!Recertify(t)
    <3>1. CASE B!Fail(t) BY <2>11, <3>1, IdleTyped, ToolSet DEF B!Recertify, B!Fail, Reading
    <3>2. CASE ~B!Fail(t) BY <2>11, <3>2 DEF B!Recertify, BackupTool, Reading
    <3>3. QED BY <3>1, <3>2
  <2>12. CASE B!Install(t)
    <3>1. [db |-> tool[t].db, vault |-> tool[t].vault, manifest |-> tool[t].manifest] \in Restored
      BY <2>2 DEF BackupTool, Restored
    <3>2. QED BY <2>12, <3>1, IdleTyped, ToolSet DEF B!Install, B!Fail, Reading
  <2>13. CASE B!Crash(t) BY <2>13, IdleTyped, ToolSet DEF B!Crash, B!Fail, Reading
  <2>14. QED BY <2>1, <2>3, <2>4, <2>5, <2>6, <2>7, <2>8, <2>9, <2>10, <2>11, <2>12, <2>13
             DEF BackupSteps
<1>8. QED BY <1>1, <1>2, <1>3, <1>4, <1>5, <1>6, <1>7 DEF B!Next, BackupSteps

\* A manifest that was certified.
Certified(m) == \E b \in certified : b.manifest = m

\* The bundles as they were published.
Sound(b) ==
    /\ b.manifest \in Manifests /\ b.db = b.manifest.db /\ b.vault = b.manifest.vault
    /\ b.db \in Databases /\ b.vault \in Vaults /\ b.vault.key = b.manifest.key
    /\ b.vault.bearer \in b.db.accepts \/ b.crossed

\* What a command holds at each of its steps.
Holds(t) ==
    LET me == tool[t] IN
    /\ me.pc \in {"copyVault", "certify", "publish"} => me.db \in Databases
    /\ me.pc = "copyVault" => secrets.bearer \in me.db.accepts \/ me.crossed
    /\ me.pc \in {"certify", "publish"} =>
           me.vault \in Vaults /\ (me.vault.bearer \in me.db.accepts \/ me.crossed)
    /\ me.pc = "publish" =>
           /\ me.manifest \in Manifests /\ me.db = me.manifest.db /\ me.vault = me.manifest.vault
           /\ me.vault.key = me.manifest.key
    /\ me.pc \in Reading => Certified(me.manifest)
    /\ me.pc = "install" => me.db = me.manifest.db /\ me.vault = me.manifest.vault

BackupFits ==
    /\ secrets.bearer \in database.accepts
    /\ \A b \in certified : Sound(b)
    /\ \A p \in Places : bundle[p] # B!None /\ bundle[p].manifest # B!Damaged =>
                             Certified(bundle[p].manifest)
    /\ \A t \in Tools : Holds(t)
    /\ \A h \in Homes : home[h] # B!None =>
           /\ Certified(home[h].manifest)
           /\ home[h].db = home[h].manifest.db /\ home[h].vault = home[h].manifest.vault

LEMMA BackupFitsInit == B!Init => BackupFits
BY DEF B!Init, BackupFits, Holds, B!Idle, Reading

LEMMA FitsServe == ASSUME BackupTyped, BackupFits PROVE B!RestoredIsCertified
<1> SUFFICES ASSUME NEW h \in Homes, home[h] # B!None
    PROVE  \E b \in certified :
            /\ b.manifest = home[h].manifest /\ b.db = home[h].db /\ b.vault = home[h].vault
            /\ B!Verified(b.db, b.vault, b.manifest, b.vault.key)
            /\ b.vault.bearer \in b.db.accepts \/ b.crossed
  BY DEF B!RestoredIsCertified
<1>1. PICK b \in certified : b.manifest = home[h].manifest BY DEF BackupFits, Certified
<1>2. Sound(b) BY DEF BackupFits
<1>3. b.manifest # B!Damaged BY <1>2 DEF Sound, Manifests, B!Damaged
<1>4. b.db # B!Damaged BY <1>2 DEF Sound, Databases, B!Damaged
<1>5. B!Verified(b.db, b.vault, b.manifest, b.vault.key)
  BY <1>2, <1>3, <1>4 DEF Sound, B!Verified, B!Inspected
<1>6. QED BY <1>1, <1>2, <1>5 DEF BackupFits, Sound

\* Certifying more keeps what was certified.
LEMMA CertifiedKept ==
    ASSUME certified \subseteq certified', NEW m, Certified(m)
    PROVE  \E b \in certified' : b.manifest = m
BY DEF Certified

\* What a command holds is still so when it and the vault have not moved.
LEMMA HoldsKept ==
    ASSUME NEW t \in Tools, Holds(t), tool'[t] = tool[t], secrets' = secrets,
           certified \subseteq certified'
    PROVE  Holds(t)'
BY DEF Holds, Certified

LEMMA BackupFitsNext ==
    BackupTyped /\ BackupFits /\ [B!Next]_(B!vars) => BackupFits'
<1> SUFFICES ASSUME BackupTyped, BackupFits, [B!Next]_(B!vars) PROVE BackupFits'
  OBVIOUS
<1>t. /\ tool \in [Tools -> BackupTool] /\ database \in Databases /\ secrets \in Vaults
      /\ bundle \in [Places -> Bundles \union {B!None}]
      /\ home \in [Homes -> Restored \union {B!None}]
      /\ \A t \in Tools : /\ tool[t].pc # "idle" => tool[t].place \in Places
                          /\ tool[t].pc \in Reading => tool[t].home \in Homes
      /\ drawn \in [bearers : Nat, bundles : Nat, hurt : Nat]
  BY DEF BackupTyped
<1>1. CASE UNCHANGED B!vars BY <1>1 DEF B!vars, BackupFits, Holds, Certified
<1>2. CASE B!PrepareBearer \/ B!SettleBearer \/ B!RotateKey
  <2>1. /\ secrets'.bearer \in database'.accepts /\ secrets'.bearer = secrets.bearer
        /\ UNCHANGED <<bundle, home, tool, certified>>
    BY <1>2, <1>t DEF B!PrepareBearer, B!SettleBearer, B!RotateKey, BackupFits, Vaults
  <2>2. QED BY <2>1 DEF BackupFits, Holds, Certified
<1>3. CASE B!StoreBearer
  <2>1. tool' = B!Crossing /\ UNCHANGED <<database, bundle, home, drawn, certified>>
        /\ secrets'.bearer \in database.accepts
    BY <1>3, <1>t DEF B!StoreBearer, Vaults
  <2>2. ASSUME NEW t \in Tools PROVE Holds(t)'
    <3>1. CASE tool[t].pc = "copyVault"
      <4>1. tool'[t] = [tool[t] EXCEPT !.crossed = TRUE] BY <2>1, <3>1, <1>t DEF B!Crossing
      <4>2. tool'[t].pc = "copyVault" /\ tool'[t].crossed /\ tool'[t].db = tool[t].db
        BY <4>1, <3>1, <1>t DEF BackupTool
      <4>3. QED BY <4>2, <3>1 DEF Holds, Reading, BackupFits
    <3>2. CASE tool[t].pc # "copyVault"
      <4>1. tool'[t] = tool[t] BY <2>1, <3>2, <1>t DEF B!Crossing
      <4>2. QED BY <4>1, <3>2, <2>1 DEF Holds, BackupFits, Certified
    <3>3. QED BY <3>1, <3>2
  <2>3. QED BY <2>1, <2>2 DEF BackupFits, Certified
<1>4. CASE \E p \in Places : B!Alter(p)
  <2>1. PICK p \in Places : B!Alter(p) BY <1>4
  <2>2. UNCHANGED <<database, secrets, home, tool, certified>> BY <2>1 DEF B!Alter
  <2>3. \A q \in Places : q # p => bundle'[q] = bundle[q] BY <2>1, <1>t DEF B!Alter
  <2>4. bundle[p] \in Bundles BY <2>1, <1>t DEF B!Alter
  <2>5. bundle'[p] # B!None /\ bundle'[p].manifest # B!Damaged => bundle'[p].manifest = bundle[p].manifest
    BY <2>1, <2>4, <1>t DEF B!Alter, Bundles
  <2>6. bundle[p] # B!None BY <2>1 DEF B!Alter
  <2>7. \A q \in Places : bundle'[q] # B!None /\ bundle'[q].manifest # B!Damaged =>
                              Certified(bundle'[q].manifest)
    BY <2>3, <2>5, <2>6 DEF BackupFits
  <2>8. QED BY <2>2, <2>7 DEF BackupFits, Holds, Certified
<1>5. CASE \E t \in Tools : BackupSteps(t)
  <2>1. PICK t \in Tools : BackupSteps(t) BY <1>5
  <2>2. UNCHANGED <<database, secrets>>
    BY <2>1 DEF BackupSteps, B!BeginCreate, B!CopyDatabase, B!CopyVault, B!Certify, B!Publish,
       B!BeginRestore, B!ReadDatabase, B!ReadVault, B!Recertify, B!Install, B!Crash
  <2>3. tool[t] \in BackupTool /\ Holds(t) BY <1>t DEF BackupFits
  <2> DEFINE Rests == UNCHANGED <<bundle, home, certified>>
             Moves(x) == tool' = [tool EXCEPT ![t] = x]
  <2>4. ASSUME NEW x \in BackupTool, Moves(x), certified \subseteq certified'
        PROVE  tool'[t] = x /\ \A u \in Tools \ {t} : Holds(u)'
    <3>1. tool'[t] = x /\ \A u \in Tools \ {t} : tool'[u] = tool[u] BY <2>4, <1>t
    <3>2. QED BY <3>1, <2>2, <2>4, HoldsKept DEF BackupFits
  <2>5. ASSUME Holds(t)', \A u \in Tools \ {t} : Holds(u)', Rests PROVE BackupFits'
    BY <2>5, <2>2 DEF BackupFits, Certified
  <2>6. ASSUME B!Fail(t), certified \subseteq certified'
        PROVE  Holds(t)' /\ \A u \in Tools \ {t} : Holds(u)'
    <3>1. tool'[t] = B!Idle /\ \A u \in Tools \ {t} : Holds(u)'
      BY <2>4, <2>6, IdleTyped DEF B!Fail
    <3>2. QED BY <3>1, IdleTyped DEF Holds, Reading
  <2>7. CASE \E p \in Places : B!BeginCreate(t, p)
    <3>1. PICK p \in Places : B!BeginCreate(t, p) BY <2>7
    <3> DEFINE x == [B!Idle EXCEPT !.pc = "copyDatabase", !.place = p, !.key = secrets.key]
    <3>2. x \in BackupTool /\ x.pc = "copyDatabase"
      BY IdleTyped, <1>t DEF BackupTool, Copying, Vaults
    <3>3. Moves(x) /\ Rests BY <3>1 DEF B!BeginCreate
    <3> HIDE DEF x
    <3>4. Holds(t)' BY <3>2, <3>3, <2>4 DEF Holds, Reading
    <3>5. QED BY <3>2, <3>3, <3>4, <2>4, <2>5
  <2>8. CASE B!CopyDatabase(t)
    <3> DEFINE x == [[tool[t] EXCEPT !.db = database] EXCEPT !.pc = "copyVault"]
    <3>1. x \in BackupTool /\ x.pc = "copyVault" /\ x.db = database
      BY <2>3, <1>t DEF BackupTool, Copying, AnyDatabase
    <3>2. Moves(x) /\ Rests BY <2>8, <1>t DEF B!CopyDatabase
    <3> HIDE DEF x
    <3>3. tool'[t] = x /\ \A u \in Tools \ {t} : Holds(u)' BY <3>1, <3>2, <2>4
    <3>4. Holds(t)' BY <3>1, <3>3, <2>2, <1>t DEF Holds, Reading, BackupFits
    <3>5. QED BY <3>2, <3>3, <3>4, <2>5
  <2>9. CASE B!CopyVault(t)
    <3> DEFINE x == [[tool[t] EXCEPT !.vault = secrets] EXCEPT !.pc = "certify"]
    <3>1. /\ x \in BackupTool /\ x.pc = "certify" /\ x.vault = secrets
          /\ x.db = tool[t].db /\ x.crossed = tool[t].crossed
      BY <2>3, <1>t DEF BackupTool, Copying, AnyVault
    <3>2. Moves(x) /\ Rests /\ tool[t].pc = "copyVault" BY <2>9, <1>t DEF B!CopyVault
    <3> HIDE DEF x
    <3>3. tool'[t] = x /\ \A u \in Tools \ {t} : Holds(u)' BY <3>1, <3>2, <2>4
    <3>4. Holds(t)' BY <3>1, <3>2, <3>3, <2>2, <2>3, <1>t DEF Holds, Reading
    <3>5. QED BY <3>2, <3>3, <3>4, <2>5
  <2>10. CASE B!Certify(t)
    <3>1. CASE tool[t].vault.key # tool[t].key
      BY <2>10, <3>1, <2>5, <2>6 DEF B!Certify
    <3>2. CASE tool[t].vault.key = tool[t].key
      <4> DEFINE m == B!Manifest(t)
                 x == [tool[t] EXCEPT !.manifest = m, !.pc = "publish"]
      <4>1. /\ m \in Manifests /\ m.db = tool[t].db /\ m.vault = tool[t].vault
            /\ m.key = tool[t].key
        BY <2>3, <1>t DEF B!Manifest, BackupTool, Manifests
      <4>2. Moves(x) /\ Rests /\ tool[t].pc = "certify" BY <2>10, <3>2 DEF B!Certify
      <4> HIDE DEF m
      <4>3. /\ x \in BackupTool /\ x.pc = "publish" /\ x.manifest = m
            /\ x.vault = tool[t].vault /\ x.db = tool[t].db /\ x.crossed = tool[t].crossed
        BY <4>1, <2>3 DEF BackupTool, Copying, AnyManifest
      <4> HIDE DEF x
      <4>4. tool'[t] = x /\ \A u \in Tools \ {t} : Holds(u)' BY <4>2, <4>3, <2>4
      <4>5. Holds(t)' BY <4>1, <4>2, <4>3, <4>4, <3>2, <2>3 DEF Holds, Reading
      <4>6. QED BY <4>2, <4>4, <4>5, <2>5
    <3>3. QED BY <3>1, <3>2
  <2>11. CASE B!Publish(t)
    <3>0. tool[t].pc = "publish" /\ B!Fail(t) /\ home' = home BY <2>11 DEF B!Publish
    <3>1. CASE bundle[tool[t].place] # B!None
      BY <2>11, <3>1, <3>0, <2>5, <2>6 DEF B!Publish
    <3>2. CASE bundle[tool[t].place] = B!None
      <4> DEFINE b == B!Bundle(t)
      <4>1. /\ b.manifest = tool[t].manifest /\ b.db = tool[t].db /\ b.vault = tool[t].vault
            /\ b.crossed = tool[t].crossed
        BY DEF B!Bundle
      <4>2. /\ bundle' = [bundle EXCEPT ![tool[t].place] = b]
            /\ certified' = certified \union {b}
        BY <2>11, <3>2 DEF B!Publish
      <4> HIDE DEF b
      <4>3. Sound(b) BY <4>1, <3>0, <2>3 DEF Sound, Holds
      <4>4. \A c \in certified' : Sound(c) BY <4>2, <4>3 DEF BackupFits
      <4>5. \A m : Certified(m) => Certified(m)' BY <4>2 DEF Certified
      <4>6. \A p \in Places : bundle'[p] # B!None /\ bundle'[p].manifest # B!Damaged =>
                                  Certified(bundle[p].manifest)'
        <5> SUFFICES ASSUME NEW p \in Places, bundle'[p] # B!None, bundle'[p].manifest # B!Damaged
            PROVE  \E c \in certified' : c.manifest = bundle'[p].manifest
          BY DEF Certified
        <5>1. CASE p = tool[t].place BY <5>1, <4>2, <1>t
        <5>2. CASE p # tool[t].place
          <6>1. bundle'[p] = bundle[p] BY <5>2, <4>2, <1>t
          <6>2. Certified(bundle[p].manifest) BY <6>1 DEF BackupFits
          <6>3. QED BY <6>1, <6>2, <4>2 DEF Certified
        <5>3. QED BY <5>1, <5>2
      <4>7. Holds(t)' /\ \A u \in Tools \ {t} : Holds(u)' BY <3>0, <2>6, <4>2
      <4>8. \A h \in Homes : home[h] # B!None => Certified(home[h].manifest)'
        BY <4>2, <3>0 DEF BackupFits, Certified
      <4>9. \A u \in Tools : Holds(u)' BY <4>7
      <4>10. QED BY <4>4, <4>6, <4>8, <4>9, <3>0, <2>2 DEF BackupFits, Sound
    <3>3. QED BY <3>1, <3>2
  <2>12. CASE \E p \in Places, h \in Homes, k \in 1..bounds.keys : B!BeginRestore(t, p, h, k)
    <3>1. PICK p \in Places, h \in Homes, k \in 1..bounds.keys : B!BeginRestore(t, p, h, k) BY <2>12
    <3> DEFINE m == bundle[p].manifest
               x == [B!Idle EXCEPT !.pc = "readDatabase", !.place = p, !.home = h, !.key = k,
                                   !.manifest = m]
    <3>2. bundle[p] \in Bundles BY <3>1, <1>t DEF B!BeginRestore
    <3>3. m \in AnyManifest /\ Certified(m)
      BY <3>1, <3>2 DEF B!BeginRestore, B!Verified, Bundles, BackupFits
    <3>4. Moves(x) /\ Rests BY <3>1 DEF B!BeginRestore
    <3> HIDE DEF m
    <3>5. k \in Nat OBVIOUS
    <3>6. x \in BackupTool /\ x.pc = "readDatabase" /\ x.manifest = m
      BY IdleTyped, <3>3, <3>5 DEF BackupTool, Reading
    <3> HIDE DEF x
    <3>7. tool'[t] = x /\ \A u \in Tools \ {t} : Holds(u)' BY <3>4, <3>6, <2>4
    <3>8. Holds(t)' BY <3>3, <3>4, <3>6, <3>7 DEF Holds, Certified
    <3>9. QED BY <3>4, <3>7, <3>8, <2>5
  <2>13. ASSUME NEW x \in BackupTool, Moves(x), Rests, tool[t].pc \in Reading,
                x.manifest = tool[t].manifest, x.pc \in Reading,
                x.pc = "install" => x.db = x.manifest.db /\ x.vault = x.manifest.vault
         PROVE  BackupFits'
    <3>1. tool'[t] = x /\ \A u \in Tools \ {t} : Holds(u)' BY <2>13, <2>4
    <3>2. Certified(x.manifest) BY <2>13, <2>3 DEF Holds
    <3>3. Holds(t)' BY <3>1, <3>2, <2>13 DEF Holds, Certified, Reading
    <3>4. QED BY <3>1, <3>3, <2>13, <2>5
  <2>14. CASE B!ReadDatabase(t)
    <3>p. tool[t].pc = "readDatabase" /\ Rests BY <2>14 DEF B!ReadDatabase
    <3>1. CASE bundle[tool[t].place] = B!None
      BY <2>14, <3>1, <3>p, <2>5, <2>6 DEF B!ReadDatabase
    <3>2. CASE bundle[tool[t].place] # B!None
      <4> DEFINE d == bundle[tool[t].place].db
                 x == [[tool[t] EXCEPT !.db = d] EXCEPT !.pc = "readVault"]
      <4>1. tool[t].place \in Places BY <3>p, <1>t
      <4>2. d \in AnyDatabase BY <4>1, <3>2, <1>t DEF Bundles
      <4>3. Moves(x) BY <2>14, <3>2, <1>t DEF B!ReadDatabase
      <4> HIDE DEF d
      <4>4. x \in BackupTool /\ x.pc = "readVault" /\ x.manifest = tool[t].manifest
        BY <4>2, <2>3 DEF BackupTool, Reading
      <4> HIDE DEF x
      <4>5. QED BY <4>3, <4>4, <3>p, <2>13 DEF Reading
    <3>3. QED BY <3>1, <3>2
  <2>15. CASE B!ReadVault(t)
    <3>p. tool[t].pc = "readVault" /\ Rests BY <2>15 DEF B!ReadVault
    <3>1. CASE bundle[tool[t].place] = B!None
      BY <2>15, <3>1, <3>p, <2>5, <2>6 DEF B!ReadVault
    <3>2. CASE bundle[tool[t].place] # B!None
      <4> DEFINE d == bundle[tool[t].place].vault
                 x == [[tool[t] EXCEPT !.vault = d] EXCEPT !.pc = "recertify"]
      <4>1. tool[t].place \in Places BY <3>p, <1>t
      <4>2. d \in AnyVault BY <4>1, <3>2, <1>t DEF Bundles
      <4>3. Moves(x) BY <2>15, <3>2, <1>t DEF B!ReadVault
      <4> HIDE DEF d
      <4>4. x \in BackupTool /\ x.pc = "recertify" /\ x.manifest = tool[t].manifest
        BY <4>2, <2>3 DEF BackupTool, Reading
      <4> HIDE DEF x
      <4>5. QED BY <4>3, <4>4, <3>p, <2>13 DEF Reading
    <3>3. QED BY <3>1, <3>2
  <2>16. CASE B!Recertify(t)
    <3>p. tool[t].pc = "recertify" /\ Rests BY <2>16 DEF B!Recertify
    <3> DEFINE Good == B!Verified(tool[t].db, tool[t].vault, tool[t].manifest, tool[t].key)
    <3>1. CASE ~Good BY <2>16, <3>1, <3>p, <2>5, <2>6 DEF B!Recertify
    <3>2. CASE Good
      <4> DEFINE x == [tool[t] EXCEPT !.pc = "install"]
      <4>1. Moves(x) BY <2>16, <3>2 DEF B!Recertify
      <4>2. /\ x \in BackupTool /\ x.pc = "install" /\ x.manifest = tool[t].manifest
            /\ x.db = tool[t].db /\ x.vault = tool[t].vault
        BY <2>3 DEF BackupTool, Reading
      <4>3. x.db = x.manifest.db /\ x.vault = x.manifest.vault BY <4>2, <3>2 DEF B!Verified
      <4> HIDE DEF x
      <4>4. QED BY <4>1, <4>2, <4>3, <3>p, <2>13 DEF Reading
    <3>3. QED BY <3>1, <3>2
  <2>17. CASE B!Install(t)
    <3>0. tool[t].pc = "install" /\ B!Fail(t) /\ UNCHANGED <<bundle, certified>>
      BY <2>17 DEF B!Install
    <3>1. CASE home[tool[t].home] # B!None BY <2>17, <3>1, <3>0, <2>5, <2>6 DEF B!Install
    <3>2. CASE home[tool[t].home] = B!None
      <4> DEFINE r == [db |-> tool[t].db, vault |-> tool[t].vault, manifest |-> tool[t].manifest]
      <4>1. home' = [home EXCEPT ![tool[t].home] = r] BY <2>17, <3>2 DEF B!Install
      <4>2. /\ r.manifest = tool[t].manifest /\ r.db = r.manifest.db /\ r.vault = r.manifest.vault
            /\ Certified(r.manifest)
        BY <3>0, <2>3 DEF Holds, Reading
      <4> HIDE DEF r
      <4>3. \A h \in Homes : home'[h] # B!None =>
               /\ Certified(home'[h].manifest)
               /\ home'[h].db = home'[h].manifest.db /\ home'[h].vault = home'[h].manifest.vault
        BY <4>1, <4>2, <1>t DEF BackupFits
      <4>4. Holds(t)' /\ \A u \in Tools \ {t} : Holds(u)' BY <3>0, <2>6
      <4>5. QED BY <4>3, <4>4, <3>0, <2>2 DEF BackupFits, Certified
    <3>3. QED BY <3>1, <3>2
  <2>18. CASE B!Crash(t) BY <2>18, <2>5, <2>6 DEF B!Crash
  <2>19. QED BY <2>1, <2>7, <2>8, <2>9, <2>10, <2>11, <2>12, <2>14, <2>15, <2>16, <2>17, <2>18
             DEF BackupSteps
<1>6. QED BY <1>1, <1>2, <1>3, <1>4, <1>5 DEF B!Next, BackupSteps

\* What a restore puts in place is a bundle as it was certified, which one key opens,
\* whatever rotates or is altered between the reads and the copies.
THEOREM RestoresAreCertified == ToolsSpec => []RestoredIsCertified
<1> DEFINE Invariant == part = "backup" => BackupTyped /\ BackupFits
<1>1. ToolsInit => Invariant BY PartsStart, BackupInit, BackupFitsInit
<1>2. Invariant /\ [ToolsNext]_toolsVars => Invariant' BY PartsMove, BackupNext, BackupFitsNext
<1>3. Invariant => RestoredIsCertified BY FitsServe DEF RestoredIsCertified
<1> HIDE DEF Invariant
<1>4. QED BY <1>1, <1>2, <1>3, PTL DEF ToolsSpec

-----------------------------------------------------------------------------
(* GitHubReadiness: the answers given from the cache.                      *)

ProbeRecord == [at : 1..7, found : SUBSET R!AllFacts, finished : Nat]

\* A probe that has not ended has a command to run; the entry is of a probe that
\* was started, expires no later than Ttl after any fact of it was last seen, and
\* early when its answer misses something of a repository.
ReadinessFits ==
    /\ instant \in Nat \ {0}
    /\ held \in [R!AllFacts -> Nat]
    /\ \A f \in R!AllFacts : held[f] <= instant /\ (f \in host => held[f] = instant)
    /\ probes \in Seq(ProbeRecord)
    /\ \A i \in DOMAIN probes : probes[i].finished = 0 => probes[i].at \in 1..6
    /\ cache \in [probe : Nat, expires : Nat]
    /\ cache.expires <= instant + Ttl
    /\ cache.probe # 0 =>
        /\ cache.probe \in DOMAIN probes
        /\ \A f \in probes[cache.probe].found : cache.expires <= held[f] + Ttl
        /\ /\ probes[cache.probe].finished # 0
           /\ target # R!None /\ probes[cache.probe].found # R!AllFacts
           => cache.expires <= probes[cache.probe].finished + ShortTtl

LEMMA SixFacts == /\ \A k \in 1..6 : R!Facts[k] \in R!AllFacts
                  /\ R!AllFacts = {"git", "gh", "auth", "push", "read", "write"}
BY DEF R!Facts, R!AllFacts

\* There is a next command, or none is left.
LEMMA NextExists ==
    ASSUME NEW found, NEW k \in 1..7
    PROVE  R!NextCommand(found, k) \in k..7
<1> DEFINE Is(j, n) == /\ n = 7 \/ R!Asked(found, R!Facts[n])
                       /\ \A m \in j..(n - 1) : ~R!Asked(found, R!Facts[m])
           E(j) == \E n \in j..7 : Is(j, n)
<1>1. E(7) OBVIOUS
<1>2. ASSUME NEW j \in 1..6, E(j + 1) PROVE E(j)
  <2>1. CASE R!Asked(found, R!Facts[j]) BY <2>1
  <2>2. CASE ~R!Asked(found, R!Facts[j])
    <3>1. PICK n \in (j + 1)..7 : Is(j + 1, n) BY <1>2
    <3>2. n \in j..7 /\ Is(j, n) BY <3>1, <2>2
    <3>3. QED BY <3>2
  <2>3. QED BY <2>1, <2>2
<1> HIDE DEF E
<1>3. E(6) /\ E(5) /\ E(4) /\ E(3) /\ E(2) /\ E(1)
  <2>1. E(6) BY <1>1, <1>2
  <2>2. E(5) BY <2>1, <1>2
  <2>3. E(4) BY <2>2, <1>2
  <2>4. E(3) BY <2>3, <1>2
  <2>5. E(2) BY <2>4, <1>2
  <2>6. E(1) BY <2>5, <1>2
  <2>7. QED BY <2>1, <2>2, <2>3, <2>4, <2>5, <2>6
<1>4. E(k) BY <1>1, <1>3
<1>5. QED BY <1>4 DEF E, R!NextCommand

LEMMA ReadinessFitsInit == R!Init => ReadinessFits
BY KeptAssumption, SixFacts DEF R!Init, ReadinessFits

\* The next command of a probe.
LEMMA RunFits ==
    ASSUME ReadinessFits, NEW i \in DOMAIN probes, R!Run(i)
    PROVE  ReadinessFits'
<1>1. probes[i] \in ProbeRecord /\ probes[i].finished = 0 /\ probes[i].at \in 1..6
  BY DEF ReadinessFits, R!Run
<1> DEFINE fact == R!Facts[probes[i].at]
<1>2. PICK success \in {FALSE, (fact \in host)} :
          LET found == probes[i].found \union (IF success THEN {fact} ELSE {})
              next == R!NextCommand(found, probes[i].at + 1)
          IN  /\ probes' = [probes EXCEPT ![i] =
                               [at |-> next, found |-> found,
                                finished |-> IF next = 7 THEN instant ELSE 0]]
              /\ IF next = 7 THEN R!Finish(i, found) ELSE UNCHANGED cache
  BY DEF R!Run
<1> DEFINE found == probes[i].found \union (IF success THEN {fact} ELSE {})
           next == R!NextCommand(found, probes[i].at + 1)
           p == [at |-> next, found |-> found, finished |-> IF next = 7 THEN instant ELSE 0]
<1>3. fact \in R!AllFacts /\ (success => fact \in host) BY <1>1, <1>2, SixFacts
<1>4. /\ probes' = [probes EXCEPT ![i] = p]
      /\ IF next = 7 THEN R!Finish(i, found) ELSE UNCHANGED cache
      /\ UNCHANGED <<instant, changes, host, held, target>>
  BY <1>2 DEF R!Run
<1>5. next \in 2..7
  <2>1. probes[i].at + 1 \in 1..7 /\ probes[i].at + 1 >= 2 BY <1>1
  <2>2. next \in (probes[i].at + 1)..7 BY <2>1, NextExists
  <2>3. QED BY <2>1, <2>2
<1>6. /\ found \subseteq R!AllFacts
      /\ \A f \in found : f \in probes[i].found \/ held[f] = instant
  BY <1>1, <1>3 DEF ProbeRecord, ReadinessFits
<1> HIDE DEF next, found
<1>7. /\ p \in ProbeRecord /\ p.found = found /\ (p.finished = 0 => p.at \in 1..6)
      /\ (p.finished # 0 => p.finished = instant /\ next = 7)
  BY <1>5, <1>6 DEF ProbeRecord, ReadinessFits
<1> HIDE DEF p
<1>8. /\ probes' \in Seq(ProbeRecord) /\ DOMAIN probes' = DOMAIN probes /\ probes'[i] = p
      /\ \A j \in DOMAIN probes : j # i => probes'[j] = probes[j]
  BY <1>4, <1>7 DEF ReadinessFits
<1>9. /\ cache' \in [probe : Nat, expires : Nat] /\ cache'.probe = cache.probe
      /\ cache'.expires <= cache.expires
      /\ next = 7 /\ cache.probe = i /\ target # R!None /\ found # R!AllFacts =>
             cache'.expires <= instant + ShortTtl
  BY KeptAssumption, <1>4 DEF R!Finish, ReadinessFits
<1>10. ASSUME cache'.probe # 0
       PROVE  /\ cache'.probe \in DOMAIN probes'
              /\ \A f \in probes'[cache'.probe].found : cache'.expires <= held'[f] + Ttl
              /\ /\ probes'[cache'.probe].finished # 0
                 /\ target' # R!None /\ probes'[cache'.probe].found # R!AllFacts
                 => cache'.expires <= probes'[cache'.probe].finished + ShortTtl
  <2>1. CASE cache.probe = i
    <3>1. \A f \in found : f \in R!AllFacts /\ cache.expires <= held[f] + Ttl
      BY KeptAssumption, <1>6, <2>1, <1>10, <1>9 DEF ReadinessFits
    <3>2. held \in [R!AllFacts -> Nat] /\ cache.expires \in Nat /\ cache'.expires \in Nat
      BY <1>9 DEF ReadinessFits
    <3>3. \A f \in found : cache'.expires <= held[f] + Ttl BY KeptAssumption, <3>1, <3>2, <1>9
    <3>4. QED BY <3>3, <1>4, <1>7, <1>8, <1>9, <2>1
  <2>2. CASE cache.probe # i
    <3>1. probes'[cache'.probe] = probes[cache.probe] /\ probes[cache.probe] \in ProbeRecord
      BY <2>2, <1>8, <1>9, <1>10 DEF ReadinessFits
    <3>2. cache' = cache /\ UNCHANGED <<held, target>> BY <2>2, <1>4 DEF R!Finish
    <3>3. cache.probe # 0 /\ cache.probe \in DOMAIN probes' BY <3>2, <1>8, <1>10 DEF ReadinessFits
    <3>4. QED BY <3>1, <3>2, <3>3 DEF ReadinessFits
  <2>3. QED BY <2>1, <2>2
<1>11. \A j \in DOMAIN probes' : probes'[j].finished = 0 => probes'[j].at \in 1..6
  BY <1>7, <1>8 DEF ReadinessFits
<1>12. QED BY KeptAssumption, <1>4, <1>8, <1>9, <1>10, <1>11 DEF ReadinessFits

LEMMA ReadinessFitsNext ==
    ASSUME ReadinessFits, [R!Next]_(R!vars) PROVE ReadinessFits'
<1>1. CASE UNCHANGED R!vars BY <1>1 DEF R!vars, ReadinessFits
<1>2. CASE R!Probe
  <2> DEFINE p == [at |-> 1, found |-> {}, finished |-> 0]
  <2>1. p \in ProbeRecord BY DEF ProbeRecord
  <2>2. /\ probes' = Append(probes, p)
        /\ cache' = [probe |-> Len(probes'), expires |-> instant + Ttl]
        /\ UNCHANGED <<instant, changes, host, held, target>>
    BY <1>2 DEF R!Probe
  <2>3. p.at = 1 /\ p.found = {} /\ p.finished = 0 OBVIOUS
  <2> HIDE DEF p
  <2>4. /\ probes' \in Seq(ProbeRecord) /\ Len(probes') = Len(probes) + 1
        /\ DOMAIN probes' = 1..Len(probes') /\ probes'[Len(probes')] = p
        /\ \A j \in DOMAIN probes : probes'[j] = probes[j]
        /\ \A j \in DOMAIN probes' : j \in DOMAIN probes \/ j = Len(probes')
    BY <2>1, <2>2 DEF ReadinessFits
  <2>5. cache'.probe = Len(probes') /\ cache'.expires = instant + Ttl
        /\ cache' \in [probe : Nat, expires : Nat]
    BY KeptAssumption, <2>2, <2>4 DEF ReadinessFits
  <2>6. QED BY <2>2, <2>3, <2>4, <2>5 DEF ReadinessFits
<1>3. CASE \E i \in DOMAIN probes : R!Run(i) BY <1>3, RunFits
<1>4. CASE R!Tick \/ R!Change
  <2>1. /\ UNCHANGED <<target, cache, probes>> /\ instant' \in Nat /\ instant' >= instant
        /\ held' \in [R!AllFacts -> Nat]
        /\ \A f \in R!AllFacts : /\ held'[f] >= held[f] /\ held'[f] <= instant'
                                 /\ f \in host' => held'[f] = instant'
    BY <1>4 DEF R!Tick, R!Change, ReadinessFits
  <2>2. \A f \in R!AllFacts : held[f] \in Nat /\ held'[f] \in Nat BY <2>1 DEF ReadinessFits
  <2>3. ASSUME cache.probe # 0, NEW f \in probes[cache.probe].found
        PROVE  cache.expires <= held'[f] + Ttl
    <3>1. probes[cache.probe] \in ProbeRecord BY <2>3 DEF ReadinessFits
    <3>2. f \in R!AllFacts BY <2>3, <3>1 DEF ProbeRecord
    <3>3. cache.expires <= held[f] + Ttl /\ cache.expires \in Nat BY <2>3 DEF ReadinessFits
    <3>4. QED BY KeptAssumption, <3>2, <3>3, <2>1, <2>2
  <2>4. cache.expires <= instant' + Ttl BY KeptAssumption, <2>1 DEF ReadinessFits
  <2>5. QED BY <2>1, <2>3, <2>4 DEF ReadinessFits
<1>5. QED BY <1>1, <1>2, <1>3, <1>4 DEF R!Next

LEMMA FitsAreRecent == ASSUME ReadinessFits PROVE R!AnswersAreRecent
<1> DEFINE entry == probes[cache.probe]
<1> SUFFICES ASSUME R!Served
    PROVE  /\ \A f \in entry.found : instant - held[f] < Ttl
           /\ (target # R!None /\ entry.found # R!AllFacts) => instant - entry.finished < ShortTtl
  BY DEF R!AnswersAreRecent
<1>1. cache.probe # 0 /\ cache.expires > instant /\ entry.finished # 0 BY DEF R!Served
<1>2. entry \in ProbeRecord BY <1>1 DEF ReadinessFits
<1>3. entry.found \subseteq R!AllFacts /\ entry.finished \in Nat BY <1>2 DEF ProbeRecord
<1>4. \A f \in entry.found : held[f] \in Nat /\ cache.expires <= held[f] + Ttl
  BY <1>1, <1>3 DEF ReadinessFits
<1>5. QED BY KeptAssumption, <1>1, <1>3, <1>4 DEF ReadinessFits

-----------------------------------------------------------------------------
(* E2EPreflight: what a report claims, and what a campaign finds.          *)

Severe == {"gap", "tool", "credentials", "configuration"}

\* The most severe status: one of the set, and ready when there is no other.
LEMMA Summarized ==
    ASSUME NEW S
    PROVE  /\ P!Summarize(S) \in Severe \union {"ready"}
           /\ (P!Summarize(S) = "ready") <=> (S \intersect Severe = {})
           /\ P!Summarize(S) \in Severe => P!Summarize(S) \in S
<1> DEFINE found == {i \in 1..5 : P!Priority[i] \in S}
           least(i) == \A j \in found : i <= j
<1>1. /\ P!Priority[1] = "gap" /\ P!Priority[2] = "tool" /\ P!Priority[3] = "credentials"
      /\ P!Priority[4] = "configuration" /\ P!Priority[5] = "ready"
  BY DEF P!Priority
<1>2. P!Summarize(S) = IF found = {} THEN "ready" ELSE P!Priority[CHOOSE i \in found : least(i)]
  BY DEF P!Summarize
<1>3. CASE found = {}
  <2>1. S \intersect Severe = {} BY <1>1, <1>3 DEF Severe
  <2>. QED BY <2>1, <1>2, <1>3 DEF Severe
<1>4. CASE found # {}
  <2>1. \E i \in found : least(i)
    <3>1. CASE 1 \in found BY <3>1
    <3>2. CASE 1 \notin found /\ 2 \in found BY <3>2
    <3>3. CASE 1 \notin found /\ 2 \notin found /\ 3 \in found BY <3>3
    <3>4. CASE 1 \notin found /\ 2 \notin found /\ 3 \notin found /\ 4 \in found BY <3>4
    <3>5. CASE 1 \notin found /\ 2 \notin found /\ 3 \notin found /\ 4 \notin found
      <4>1. found = {5} BY <3>5, <1>4
      <4>. QED BY <4>1
    <3>. QED BY <3>1, <3>2, <3>3, <3>4, <3>5
  <2>2. PICK i \in found : i = (CHOOSE k \in found : least(k)) /\ least(i) BY <2>1
  <2>3. P!Summarize(S) = P!Priority[i] BY <2>2, <1>2, <1>4
  <2>4. P!Priority[i] \in S /\ i \in 1..5 BY <2>2
  <2>5. CASE i = 5
    <3>1. 1 \notin found /\ 2 \notin found /\ 3 \notin found /\ 4 \notin found BY <2>2, <2>5
    <3>2. S \intersect Severe = {} BY <3>1, <1>1 DEF Severe
    <3>. QED BY <3>2, <2>3, <2>5, <1>1 DEF Severe
  <2>6. CASE i # 5
    <3>1. P!Priority[i] \in Severe BY <2>4, <2>6, <1>1 DEF Severe
    <3>2. P!Priority[i] # "ready" BY <3>1 DEF Severe
    <3>. QED BY <3>1, <3>2, <2>3, <2>4
  <2>. QED BY <2>5, <2>6
<1>. QED BY <1>3, <1>4

LEMMA ReasonsAreSevere == \A p : P!Reasons(p) \subseteq Severe
BY DEF P!Reasons, Severe

LEMMA SevereIsFinite == IsFiniteSet(Severe) /\ \A S \in SUBSET Severe : IsFiniteSet(S)
<1>1. IsFiniteSet({}) BY FS_EmptySet
<1>2. IsFiniteSet({"gap"}) /\ IsFiniteSet({"tool"}) /\ IsFiniteSet({"credentials"}) /\ IsFiniteSet({"configuration"})
  BY FS_Singleton
<1>3. IsFiniteSet({"gap"} \union {"tool"}) /\ IsFiniteSet({"credentials"} \union {"configuration"})
  BY <1>2, FS_Union
<1>4. IsFiniteSet(({"gap"} \union {"tool"}) \union ({"credentials"} \union {"configuration"}))
  BY <1>3, FS_Union
<1>5. Severe = ({"gap"} \union {"tool"}) \union ({"credentials"} \union {"configuration"}) BY DEF Severe
<1>. QED BY <1>4, <1>5, FS_Subset

\* Several reasons: there are some, and not one alone.
LEMMA Several ==
    ASSUME NEW S \in SUBSET Severe
    PROVE  Cardinality(S) > 1 <=> (S # {} /\ \A c \in S : S # {c})
<1>1. IsFiniteSet(S) BY SevereIsFinite
<1>2. Cardinality(S) \in Nat BY <1>1, FS_CardinalityType
<1>3. (Cardinality(S) = 0) <=> (S = {}) BY <1>1, FS_EmptySet
<1>4. (Cardinality(S) = 1) <=> (\E x : S = {x}) BY <1>1, FS_Singleton
<1>. QED BY <1>2, <1>3, <1>4

\* Of two sets, the larger one has two members when the smaller has.
LEMMA TwoOfMore ==
    ASSUME NEW S, NEW T, S \subseteq T, IsFiniteSet(T), Cardinality(S) >= 2
    PROVE  Cardinality(T) >= 2
<1>1. Cardinality(S) <= Cardinality(T) /\ IsFiniteSet(S) BY FS_Subset
<1>2. Cardinality(S) \in Nat /\ Cardinality(T) \in Nat BY <1>1, FS_CardinalityType
<1>. QED BY <1>1, <1>2

\* Of two, one is not this.
LEMMA AnotherOfTwo ==
    ASSUME NEW S, NEW a, IsFiniteSet(S), Cardinality(S) >= 2
    PROVE  \E x \in S : x # a
<1> SUFFICES ASSUME \A x \in S : x = a PROVE FALSE OBVIOUS
<1>1. S \subseteq {a} OBVIOUS
<1>2. IsFiniteSet({a}) /\ Cardinality({a}) = 1 BY FS_Singleton
<1>3. Cardinality(S) <= 1 BY <1>1, <1>2, FS_Subset
<1>4. Cardinality(S) \in Nat BY FS_CardinalityType
<1>. QED BY <1>3, <1>4

LEMMA CountsAlike == \A S : P!Cardinality(S) = Cardinality(S)
BY DEF P!Cardinality, Cardinality

LEMMA ChainsAreFinite ==
    ASSUME deployment \in Deployments
    PROVE  /\ IsFiniteSet(P!GlobalChain) /\ IsFiniteSet(P!BrainChain) /\ IsFiniteSet(P!ReviewRoute)
           /\ \A role \in P!Routes : IsFiniteSet(P!MissionChain(role))
<1>1. ASSUME NEW s \in Seq(P!Providers) PROVE IsFiniteSet(P!ToSet(s))
  <2>1. DOMAIN s = 1..Len(s) /\ Len(s) \in Nat OBVIOUS
  <2>2. IsFiniteSet(DOMAIN s) BY <2>1, FS_Interval
  <2>3. s \in Surjection(DOMAIN s, {s[i] : i \in DOMAIN s}) BY DEF Surjection
  <2>4. IsFiniteSet({s[i] : i \in DOMAIN s}) BY <2>2, <2>3, FS_Surjection
  <2>. QED BY <2>4 DEF P!ToSet
<1>2. IsFiniteSet(P!ToSet(deployment.chain)) BY <1>1, DeployedAssumption
<1>3. IsFiniteSet(P!GlobalChain) BY <1>2, FS_Subset DEF P!GlobalChain
<1>4. ASSUME NEW role \in P!Routes PROVE IsFiniteSet(P!MissionChain(role))
  <2>1. IsFiniteSet(P!ToSet(deployment.roleChains[role])) BY <1>1, DeployedAssumption DEF P!Routes
  <2>2. IsFiniteSet(P!EffectiveChain(role)) BY <2>1, <1>3, FS_Union DEF P!EffectiveChain
  <2>. QED BY <2>2, FS_Subset DEF P!MissionChain, P!RegisteredChain
<1>5. P!BrainChain = P!MissionChain(P!Orchestrator) BY DEF P!BrainChain, P!MissionChain
<1>6. IsFiniteSet(P!ReviewRoute) BY <1>3, FS_Subset DEF P!ReviewRoute, P!RegisteredChain
<1>. QED BY <1>3, <1>4, <1>5, <1>6 DEF P!Routes

\* A scenario as the contract wants it.
Stands(key) ==
    /\ P!Coherent(P!Scenario(key))
    /\ P!Scenario(key).status = "ready" => P!Supported(key)

LEMMA ScenarioShapes ==
    /\ P!Coherent(P!ReadyScenario) /\ P!ReadyScenario.status = "ready"
    /\ \A c \in Severe : P!Coherent(P!Blocked(c)) /\ P!Blocked(c).status = c /\ c # "ready"
BY DEF P!Coherent, P!ReadyScenario, P!Blocked, Severe

\* The steps that are no mission's.
LEMMA StepsStand ==
    ASSUME deployment \in Deployments, NEW key \in P!Steps
    PROVE  Stands(key)
<1>1. key \notin Mission BY DeployedAssumption
<1>c. P!BrainChain \subseteq P!Registered /\ P!ReviewRoute \subseteq P!Registered
      /\ \A role \in P!Routes : P!MissionChain(role) \subseteq P!Registered
  BY DEF P!BrainChain, P!ReviewRoute, P!MissionChain, P!RegisteredChain
<1>2. CASE key = "planning"
  <2>1. P!Scenario(key) = P!Planning BY <1>1, <1>2 DEF P!Scenario
  <2>2. P!Supported(key) <=> {p \in P!BrainChain : p \in P!RealProviders} # {}
    BY <1>1, <1>2 DEF P!Supported
  <2>3. CASE \E p \in P!RealProviders : p \in P!BrainChain /\ P!Ready(p)
    <3>1. P!Planning = P!ReadyScenario BY <2>3 DEF P!Planning
    <3>. QED BY <3>1, <2>1, <2>2, <2>3, ScenarioShapes DEF Stands
  <2>4. CASE ~\E p \in P!RealProviders : p \in P!BrainChain /\ P!Ready(p)
    <3>1. PICK c \in Severe : P!Planning = P!Blocked(c) BY <2>4 DEF P!Planning, Severe
    <3>. QED BY <3>1, <2>1, ScenarioShapes DEF Stands
  <2>. QED BY <2>3, <2>4
<1>3. CASE key = "review"
  <2> DEFINE some == {p \in P!ReviewRoute : P!Real(p) /\ P!Ready(p)}
             all == {p \in P!ReviewRoute : p \in P!RealProviders}
  <2>1. P!Scenario(key) = P!Review BY <1>1, <1>3 DEF P!Scenario
  <2>r. P!Review = IF Cardinality(some) >= 2 THEN P!ReadyScenario
                   ELSE P!Blocked(IF Cardinality(P!RealProviders) >= 2 THEN "configuration" ELSE "credentials")
    BY CountsAlike DEF P!Review
  <2>s. P!Supported("review") <=> Cardinality(all) >= 2
    <3>1. "review" \notin Mission BY <1>1, <1>3
    <3>. QED BY <3>1, CountsAlike DEF P!Supported
  <2>2. P!Supported(key) <=> Cardinality(all) >= 2 BY <1>3, <2>s
  <2>3. CASE Cardinality(some) >= 2
    <3>1. P!Review = P!ReadyScenario BY <2>3, <2>r
    <3>2. some \subseteq all BY <1>c DEF P!RealProviders
    <3>3. IsFiniteSet(all) BY ChainsAreFinite, FS_Subset
    <3>4. Cardinality(all) >= 2 BY <3>2, <3>3, <2>3, TwoOfMore
    <3>. QED BY <3>1, <2>1, <2>2, <3>4, ScenarioShapes DEF Stands
  <2>4. CASE ~(Cardinality(some) >= 2)
    <3>1. PICK c \in Severe : P!Review = P!Blocked(c) BY <2>4, <2>r DEF Severe
    <3>. QED BY <3>1, <2>1, ScenarioShapes DEF Stands
  <2>. QED BY <2>3, <2>4
<1>4. CASE key = "correction"
  <2>1. P!Scenario(key) = P!Correction BY <1>1, <1>4 DEF P!Scenario
  <2>2. P!Supported(key) <=> \E role \in P!Routes : {p \in P!MissionChain(role) : p \in P!RealEditors} # {}
    BY <1>1, <1>4 DEF P!Supported
  <2>3. CASE \E p \in P!RealEditors : p \in P!Routable /\ P!Ready(p)
    <3>1. P!Correction = P!ReadyScenario BY <2>3 DEF P!Correction
    <3>2. P!Supported(key) BY <2>2, <2>3 DEF P!Routable
    <3>. QED BY <3>1, <3>2, <2>1, ScenarioShapes DEF Stands
  <2>4. CASE ~\E p \in P!RealEditors : p \in P!Routable /\ P!Ready(p)
    <3>1. PICK c \in Severe : P!Correction = P!Blocked(c) BY <2>4 DEF P!Correction, Severe
    <3>. QED BY <3>1, <2>1, ScenarioShapes DEF Stands
  <2>. QED BY <2>3, <2>4
<1>5. CASE key = "fallback"
  <2> DEFINE some(chain) == {p \in chain : P!Real(p) /\ P!Ready(p)}
             all(chain) == {p \in chain : p \in P!RealProviders}
             ready(chain) == {p \in chain : P!Real(p) /\ P!Ready(p) /\ P!Edits(p)}
             able(chain) == {p \in chain : p \in P!RealEditors}
  <2>1. P!Scenario(key) = P!Fallback BY <1>1, <1>5 DEF P!Scenario
  <2>2. P!Supported(key) <=> \/ Cardinality(all(P!BrainChain)) >= 2
                             \/ \E role \in P!Routes : Cardinality(able(P!MissionChain(role))) >= 2
    BY <1>1, <1>5, CountsAlike DEF P!Supported
  <2>3. CASE P!BrainFallback
    <3>1. P!Fallback = P!ReadyScenario BY <2>3 DEF P!Fallback
    <3>2. some(P!BrainChain) \subseteq all(P!BrainChain) BY <1>c DEF P!RealProviders
    <3>3. IsFiniteSet(all(P!BrainChain)) BY ChainsAreFinite, FS_Subset
    <3>4. Cardinality(some(P!BrainChain)) >= 2 BY <2>3, CountsAlike DEF P!BrainFallback
    <3>5. Cardinality(all(P!BrainChain)) >= 2 BY <3>2, <3>3, <3>4, TwoOfMore
    <3>. QED BY <3>1, <2>1, <2>2, <3>5, ScenarioShapes DEF Stands
  <2>4. CASE P!MissionFallback
    <3>1. P!Fallback = P!ReadyScenario BY <2>4 DEF P!Fallback
    <3>2. PICK role \in P!Routes : Cardinality(ready(P!MissionChain(role))) >= 2
      BY <2>4, CountsAlike DEF P!MissionFallback
    <3>3. ready(P!MissionChain(role)) \subseteq able(P!MissionChain(role))
      BY <1>c DEF P!RealProviders, P!RealEditors
    <3>4. IsFiniteSet(able(P!MissionChain(role))) BY ChainsAreFinite, FS_Subset
    <3>5. Cardinality(able(P!MissionChain(role))) >= 2 BY <3>2, <3>3, <3>4, TwoOfMore
    <3>. QED BY <3>1, <2>1, <2>2, <3>5, ScenarioShapes DEF Stands
  <2>5. CASE ~(P!BrainFallback \/ P!MissionFallback)
    <3>1. PICK c \in Severe : P!Fallback = P!Blocked(c) BY <2>5 DEF P!Fallback, Severe
    <3>. QED BY <3>1, <2>1, ScenarioShapes DEF Stands
  <2>. QED BY <2>3, <2>4, <2>5
<1>6. CASE key = "push"
  <2>1. P!Scenario(key) = P!Push BY <1>1, <1>6 DEF P!Scenario
  <2>2. P!Supported(key) <=> (deployment.git /\ deployment.push) BY <1>1, <1>6 DEF P!Supported
  <2>3. CASE deployment.git /\ deployment.push /\ P!Push = P!ReadyScenario
    BY <2>1, <2>2, <2>3, ScenarioShapes DEF Stands
  <2>4. ASSUME P!Push # P!ReadyScenario \/ ~(deployment.git /\ deployment.push)
        PROVE  \E c \in Severe : P!Push = P!Blocked(c)
    BY <2>4 DEF P!Push, Severe
  <2>. QED BY <2>1, <2>3, <2>4, ScenarioShapes DEF Stands
<1>7. CASE key = "pull_request"
  <2> DEFINE fit == /\ deployment.git /\ deployment.gh /\ deployment.login
                    /\ deployment.push /\ deployment.write
  <2>1. P!Scenario(key) = P!PullRequest BY <1>1, <1>7 DEF P!Scenario
  <2>2. P!Supported(key) <=> fit BY <1>1, <1>7 DEF P!Supported
  <2>3. CASE fit /\ P!PullRequest = P!ReadyScenario
    BY <2>1, <2>2, <2>3, ScenarioShapes DEF Stands
  <2>4. ASSUME P!PullRequest # P!ReadyScenario \/ ~fit
        PROVE  \E c \in Severe : P!PullRequest = P!Blocked(c)
    BY <2>4 DEF P!PullRequest, Severe
  <2>. QED BY <2>1, <2>3, <2>4, ScenarioShapes DEF Stands
<1>8. CASE key = "no_merge"
  <2>1. P!Scenario(key) = P!ReadyScenario BY <1>1, <1>8 DEF P!Scenario
  <2>2. P!Supported(key) BY <1>1, <1>8 DEF P!Supported
  <2>. QED BY <2>1, <2>2, ScenarioShapes DEF Stands
<1>. QED BY <1>2, <1>3, <1>4, <1>5, <1>6, <1>7, <1>8 DEF P!Steps

\* The scenario of a provider that lacks several things is not coherent; any
\* other is as the contract wants it.
LEMMA MissionsStand ==
    ASSUME NEW p \in Mission
    PROVE  Stands(p) <=> ~(p \in P!Registered /\ Cardinality(P!Reasons(p)) > 1)
<1>0. p \notin P!Steps BY DeployedAssumption
<1>1. P!Scenario(p) = P!MissionBy(p) BY <1>0 DEF P!Scenario, P!Steps
<1>2. P!Supported(p) <=> (p \in P!RealEditors /\ p \in P!Routable) BY <1>0 DEF P!Supported, P!Steps
<1>3. P!Reasons(p) \in SUBSET Severe BY ReasonsAreSevere
<1>4. P!Ready(p) <=> P!Reasons(p) = {}
  <2>1. P!Ready(p) <=> P!Reasons(p) \intersect Severe = {} BY Summarized DEF P!Ready, P!Status
  <2>. QED BY <2>1, <1>3
<1>5. CASE p \notin P!Registered
  <2>1. P!MissionBy(p) = P!Blocked("tool") BY <1>5 DEF P!MissionBy
  <2>. QED BY <2>1, <1>1, <1>5, ScenarioShapes DEF Stands, Severe
<1>6. CASE p \in P!Registered /\ ~P!Ready(p)
  <2> DEFINE c == P!Status(p)
  <2>1. P!MissionBy(p) = [status |-> c, reasons |-> P!Reasons(p)] BY <1>6 DEF P!MissionBy
  <2>2. c # "ready" /\ c \in P!Reasons(p) BY <1>6, Summarized DEF P!Ready, P!Status
  <2>3. Stands(p) <=> P!Reasons(p) = {c} BY <2>1, <2>2, <1>1 DEF Stands, P!Coherent
  <2>4. P!Reasons(p) = {c} <=> ~(Cardinality(P!Reasons(p)) > 1) BY <2>2, <1>3, Several
  <2>. QED BY <2>3, <2>4, <1>6
<1>7. CASE p \in P!Registered /\ P!Ready(p)
  <2>1. ~(Cardinality(P!Reasons(p)) > 1) BY <1>3, <1>4, <1>7, Several
  <2>2. CASE ~P!Edits(p)
    <3>1. P!MissionBy(p) = P!Blocked("gap") BY <1>7, <2>2 DEF P!MissionBy
    <3>. QED BY <3>1, <2>1, <1>1, ScenarioShapes DEF Stands, Severe
  <2>3. CASE P!Edits(p) /\ p \notin P!Routable
    <3>1. P!MissionBy(p) = P!Blocked("configuration") BY <1>7, <2>3 DEF P!MissionBy
    <3>. QED BY <3>1, <2>1, <1>1, ScenarioShapes DEF Stands, Severe
  <2>4. CASE P!Edits(p) /\ p \in P!Routable
    <3>1. P!MissionBy(p) = P!ReadyScenario BY <1>7, <2>4 DEF P!MissionBy
    <3>2. p \in P!RealEditors
      BY <1>7, <2>4, DeployedAssumption DEF P!RealEditors, P!RealProviders, P!Real
    <3>. QED BY <3>1, <3>2, <2>1, <2>4, <1>1, <1>2, ScenarioShapes DEF Stands
  <2>. QED BY <2>2, <2>3, <2>4
<1>. QED BY <1>5, <1>6, <1>7

\* Some registered mission provider lacks things of several categories.
LacksSeveral == \E p \in Mission \intersect P!Registered : Cardinality(P!Reasons(p)) > 1

LEMMA ReportsAreAccepted ==
    ASSUME deployment \in Deployments
    PROVE  P!Accepted <=> ~LacksSeveral
<1>1. \A key \in Mission \union P!Steps : P!Report[key] = P!Scenario(key) BY DEF P!Report
<1>2. P!Accepted <=> \A key \in Mission \union P!Steps : Stands(key)
  BY <1>1 DEF P!Accepted, P!Report, Stands
<1>. QED BY <1>2, StepsStand, MissionsStand DEF LacksSeveral

\* A deployment is what it is.
LEMMA ReasonsStay ==
    ASSUME deployment' = deployment
    PROVE  LacksSeveral' <=> LacksSeveral
<1>1. P!Registered' = P!Registered /\ P!SignedIn' = P!SignedIn /\ P!GlobalChain' = P!GlobalChain
  BY DEF P!Registered, P!SignedIn, P!GlobalChain
<1>2. \A role : P!EffectiveChain(role)' = P!EffectiveChain(role) BY <1>1 DEF P!EffectiveChain
<1>3. \A p : P!MissionRoutable(p)' <=> P!MissionRoutable(p) BY <1>2 DEF P!MissionRoutable
<1>4. \A p : P!Edits(p)' <=> P!Edits(p) BY <1>1 DEF P!Edits
<1>5. \A p : P!Reasons(p)' = P!Reasons(p) BY <1>1, <1>3, <1>4 DEF P!Reasons
<1>. QED BY <1>1, <1>5 DEF LacksSeveral

PreflightFits ==
    /\ deployment \in Deployments
    /\ answer # "none" => ((answer = "refused") <=> LacksSeveral)

LEMMA PreflightNext ==
    ASSUME PreflightFits, [P!Next]_(P!vars) PROVE PreflightFits'
<1>1. CASE UNCHANGED P!vars BY <1>1, ReasonsStay DEF PreflightFits, P!vars
<1>2. CASE P!Preflight
  <2>1. deployment' = deployment /\ answer' = IF P!Accepted THEN P!Readiness ELSE "refused"
    BY <1>2 DEF P!Preflight
  <2>2. P!Readiness # "refused" BY Summarized DEF P!Readiness, Severe
  <2>3. P!Accepted <=> ~LacksSeveral BY ReportsAreAccepted DEF PreflightFits
  <2>. QED BY <2>1, <2>2, <2>3, ReasonsStay DEF PreflightFits
<1>. QED BY <1>1, <1>2 DEF P!Next

LEMMA PreflightServes == ASSUME PreflightFits PROVE P!PreflightIsTrue
<1>1. answer # "none" => (answer = "refused") = LacksSeveral
  <2>1. LacksSeveral \in BOOLEAN BY DEF LacksSeveral
  <2>. QED BY <2>1 DEF PreflightFits
<1>2. ASSUME P!CampaignReady, NEW role \in Roles, NEW author \in P!MissionChain(role)
      PROVE  /\ P!Real(author)
             /\ \E p \in P!ReviewerChain(author) : P!Real(p) /\ P!Ready(p)
  <2> DEFINE some == {p \in P!GlobalChain : P!Real(p) /\ P!Ready(p)}
  <2>1. P!Registered = deployment.registered BY <1>2 DEF P!Registered, P!CampaignReady
  <2>2. P!Real(author)
    BY <2>1, DeployedAssumption DEF P!Real, P!MissionChain, P!RegisteredChain, PreflightFits
  <2>3. "configuration" \notin P!StatusChecks
    BY <1>2, Summarized DEF P!CampaignReady, Severe
  <2>4. Cardinality(some) >= 2
    <3>1. (IF Cardinality(some) >= 2 THEN "ready" ELSE "configuration") \in P!StatusChecks
      BY CountsAlike DEF P!StatusChecks
    <3>. QED BY <3>1, <2>3
  <2>5. IsFiniteSet(some) BY ChainsAreFinite, FS_Subset DEF PreflightFits
  <2>6. PICK p \in some : p # author BY <2>4, <2>5, AnotherOfTwo
  <2>7. p \in P!ReviewerChain(author)
    BY <2>6 DEF P!ReviewerChain, P!RegisteredChain, P!GlobalChain
  <2>. QED BY <2>2, <2>6, <2>7
<1>. QED BY <1>1, <1>2, CountsAlike DEF P!PreflightIsTrue, LacksSeveral

LEMMA PreflightInit == ASSUME P!Init PROVE PreflightFits
BY DEF P!Init, PreflightFits

\* However the probes of one target overlap, an answer given from the cache claims
\* nothing that was last true Ttl ago, and misses of a repository nothing for longer
\* than ShortTtl; of every deployment the preflight answers, unless a provider lacks
\* things of several categories, and a campaign it lets start is reviewed by a ready
\* provider that is not the author.
THEOREM ReadinessStaysTrue == ToolsSpec => []ReadinessIsTrue
<1> DEFINE Invariant == /\ part = "preflight" => PreflightFits
                        /\ part = "readiness" => ReadinessFits
<1>1. ToolsInit => Invariant BY PartsStart, PreflightInit, ReadinessFitsInit
<1>2. Invariant /\ [ToolsNext]_toolsVars => Invariant'
  BY PartsMove, PreflightNext, ReadinessFitsNext
<1>3. Invariant => ReadinessIsTrue BY PreflightServes, FitsAreRecent DEF ReadinessIsTrue
<1> HIDE DEF Invariant
<1>4. QED BY <1>1, <1>2, <1>3, PTL DEF ToolsSpec

-----------------------------------------------------------------------------
(* AppUpdate: what an update replaces, and what is left installed.         *)

Manifested == [key : U!Keys, version : {a.version : a \in Apps}, build : {a.build : a \in Apps},
               minimum : {a.minimum : a \in Apps}, team : {Team}, archive : Apps]
Copies == [kind : {"backup", "failed"}, pid : Nat, app : Apps, sealed : BOOLEAN]
Downloading == {"manifest", "archive", "check"}
UpdateCommand ==
    [pc : Downloading \union {"stage", "keep", "activate", "idle", "done", "failed"},
     kind : {"update", "install", "rollback"}, seen : Apps \union {U!None},
     manifest : Manifested \union {<<>>}, app : Apps \union {U!None},
     moved : SUBSET Copies, pid : Nat]

\* The types of AppUpdate.
UpdateTyped ==
    /\ bounds \in Updates
    /\ feed \subseteq Manifested
    /\ dest \in [app : Apps \union {U!None}, sealed : BOOLEAN]
    /\ copies \subseteq Copies
    /\ command \in [Commands -> UpdateCommand]
    /\ once \subseteq Apps
    /\ starts \in Nat /\ kills \in Nat

\* A release that runs on this macOS.
Suits(a) == U!Public(a) /\ ~U!Older(System, a.minimum)

\* What a command has in hand at each of its steps.  Of a command that runs alone the
\* installed application is the one it read, and none only while it activates another.
Carries(c) ==
    LET me == command[c] IN
    /\ me.moved = {} \/ \E b \in Copies : me.moved = {b}
    /\ me.pc \in Downloading => me.kind = "update"
    /\ me.pc \in {"archive", "check"} => U!IsUpgrade(me.seen, me.manifest)
    /\ me.pc \in {"stage", "keep", "activate"} => me.app \in Apps
    /\ me.kind = "update" /\ me.pc \in {"stage", "keep"} => Suits(me.app) /\ U!IsUpgrade(me.seen, me.app)
    /\ me.kind = "update" /\ me.pc = "activate" =>
           Suits(me.app) /\ (U!Alone /\ me.seen # U!None => U!IsUpgrade(me.seen, me.app))
    /\ U!Alone /\ me.kind = "update" /\ me.pc \in Downloading \union {"stage", "keep"} =>
           dest.app = me.seen
    /\ U!Alone /\ kills = 0 /\ me.pc = "activate" =>
           dest.app = U!None /\ \E b \in Copies : me.moved = {b} /\ b.sealed

UpdateFits ==
    /\ \A c \in Commands : c \notin bounds.commands => command[c].pc = "idle"
    /\ \A c \in Commands : Carries(c)
    /\ once \subseteq {dest.app} \union {b.app : b \in copies}
    /\ U!Alone /\ kills = 0 =>
           dest.sealed /\ (dest.app = U!None => \E c \in Commands : command[c].pc = "activate")
    /\ U!UpdatesGoForward

\* The steps of one command.
UpdateSteps(c) ==
    \/ U!Start(c) \/ U!FetchManifest(c) \/ U!FetchArchive(c) \/ U!CheckBundle(c)
    \/ U!StartInstall(c) \/ U!StartRollback(c) \/ U!Stage(c) \/ U!Keep(c) \/ U!Activate(c)
    \/ U!Fail(c) \/ U!Kill(c)

LEMMA UpdateInit == U!Init => UpdateTyped /\ UpdateFits
<1> SUFFICES ASSUME U!Init PROVE UpdateTyped /\ UpdateFits
  OBVIOUS
<1>1. bounds.first \in Apps /\ bounds \in Updates BY ReleasedAssumption DEF U!Init
<1>2. U!Idle \in UpdateCommand BY DEF U!Idle, UpdateCommand
<1>3. UpdateTyped BY <1>1, <1>2 DEF U!Init, UpdateTyped
<1>4. /\ dest.app = bounds.first /\ dest.sealed /\ once = {bounds.first} /\ last.kind = "install"
      /\ \A c \in Commands : command[c] = U!Idle
  BY DEF U!Init
<1>5. U!Idle.pc = "idle" /\ U!Idle.moved = {} BY DEF U!Idle
<1>6. \A c \in Commands : Carries(c) BY <1>4, <1>5 DEF Carries, Downloading
<1>7. bounds.first # U!None BY ReleasedAssumption, <1>1
<1>8. QED BY <1>3, <1>4, <1>5, <1>6, <1>7 DEF UpdateFits, U!UpdatesGoForward

\* Sets are counted alike in both modules.
LEMMA SameCount == \A S : U!Cardinality(S) = Cardinality(S)
BY DEF U!Cardinality, Cardinality

\* Only one command is at work when the instance has one.
LEMMA OthersRest ==
    ASSUME UpdateTyped, UpdateFits, NEW c \in Commands,
           command[c].pc # "idle" \/ c \in bounds.commands
    PROVE  /\ c \in bounds.commands
           /\ U!Alone => \A d \in Commands : d # c => command[d].pc = "idle"
<1>1. c \in bounds.commands BY DEF UpdateFits
<1>2. ASSUME U!Alone, NEW d \in Commands, d # c PROVE command[d].pc = "idle"
  <2>1. IsFiniteSet(bounds.commands) BY ReleasedAssumption DEF UpdateTyped
  <2>2. PICK x : bounds.commands = {x} BY <1>2, <2>1, FS_Singleton, SameCount DEF U!Alone
  <2>3. QED BY <1>1, <1>2, <2>2 DEF UpdateFits
<1>3. QED BY <1>1, <1>2

\* What the other commands carry stays so.
LEMMA OthersCarry ==
    ASSUME UpdateTyped, UpdateFits, NEW c \in Commands, NEW x,
           command[c].pc # "idle" \/ c \in bounds.commands,
           command' = [command EXCEPT ![c] = x],
           bounds' = bounds, kills' = kills \/ kills' # 0
    PROVE  /\ \A d \in Commands : d # c => Carries(d)'
           /\ \A d \in Commands : d \notin bounds.commands => command'[d].pc = "idle"
           /\ command'[c] = x
<1>1. /\ c \in bounds.commands
      /\ U!Alone => \A d \in Commands : d # c => command[d].pc = "idle"
  BY OthersRest
<1>2. command'[c] = x /\ \A d \in Commands : d # c => command'[d] = command[d]
  BY DEF UpdateTyped
<1>3. U!Alone' = U!Alone BY DEF U!Alone
<1>4. ASSUME NEW d \in Commands, d # c PROVE Carries(d)'
  <2>1. Carries(d) /\ command'[d] = command[d] BY <1>2, <1>4 DEF UpdateFits
  <2>2. CASE U!Alone
    <3>1. command'[d].pc = "idle" BY <1>1, <1>4, <2>1, <2>2
    <3>2. QED BY <2>1, <3>1 DEF Carries, Downloading
  <2>3. CASE ~U!Alone BY <2>1, <2>3, <1>3 DEF Carries
  <2>4. QED BY <2>2, <2>3
<1>5. QED BY <1>1, <1>2, <1>4 DEF UpdateFits

\* Versions, builds and minimum systems of an application that a manifest describes.
LEMMA FromManifest ==
    ASSUME NEW a, NEW m, NEW w, U!IsUpgrade(w, m), a.version = m.version, a.build = m.build
    PROVE  U!IsUpgrade(w, a)
BY DEF U!IsUpgrade

LEMMA CommandSet ==
    ASSUME command \in [Commands -> UpdateCommand], NEW c \in Commands, NEW x \in UpdateCommand
    PROVE  [command EXCEPT ![c] = x] \in [Commands -> UpdateCommand]
OBVIOUS

\* A command that touches nothing but its own record.
LEMMA QuietUpdateFits ==
    ASSUME UpdateTyped, UpdateFits, NEW c \in Commands, NEW x \in UpdateCommand,
           command[c].pc # "idle" \/ c \in bounds.commands,
           command' = [command EXCEPT ![c] = x],
           UNCHANGED <<bounds, feed, dest, copies, last, once, kills>>, starts' \in Nat,
           command[c].pc = "activate" => x.pc = "activate",
           Carries(c)'
    PROVE  UpdateTyped' /\ UpdateFits'
<1>1. UpdateTyped' BY CommandSet DEF UpdateTyped
<1>2. /\ \A d \in Commands : d # c => Carries(d)'
      /\ \A d \in Commands : d \notin bounds.commands => command'[d].pc = "idle"
      /\ command'[c] = x
  BY OthersCarry
<1>3. \A d \in Commands : Carries(d)' BY <1>2
<1>4. \A d \in Commands : d # c => command'[d] = command[d] BY DEF UpdateTyped
<1>5. (\E d \in Commands : command[d].pc = "activate") =>
          \E d \in Commands : command'[d].pc = "activate"
  BY <1>2, <1>4
<1>6. (U!Alone' = U!Alone) /\ (U!UpdatesGoForward' = U!UpdatesGoForward)
  BY DEF U!Alone, U!UpdatesGoForward
<1>7. QED BY <1>1, <1>2, <1>3, <1>5, <1>6 DEF UpdateFits

LEMMA UpdateNext ==
    ASSUME UpdateTyped, UpdateFits, [U!Next]_(U!vars)
    PROVE  UpdateTyped' /\ UpdateFits'
<1>t. /\ bounds \in Updates /\ feed \subseteq Manifested
      /\ dest \in [app : Apps \union {U!None}, sealed : BOOLEAN]
      /\ copies \subseteq Copies /\ command \in [Commands -> UpdateCommand]
      /\ once \subseteq Apps /\ starts \in Nat /\ kills \in Nat
  BY DEF UpdateTyped
<1>1. CASE UNCHANGED U!vars
  BY <1>1 DEF U!vars, UpdateTyped, UpdateFits, Carries, U!Alone, U!UpdatesGoForward
<1>2. CASE \/ \E a, b \in Apps, k \in U!Keys : U!Create(a, b, k)
           \/ \E a \in Apps : U!Foreign(a)
  <2>1. PICK a \in Apps, b \in Apps, k \in U!Keys : feed' = feed \union {U!Sign(a, b, k)}
    BY <1>2 DEF U!Create, U!Foreign, U!Keys
  <2>2. U!Sign(a, b, k) \in Manifested BY DEF U!Sign, Manifested
  <2>3. UNCHANGED <<bounds, dest, copies, command, last, once, starts, kills>>
    BY <1>2 DEF U!Create, U!Foreign
  <2>4. QED BY <2>1, <2>2, <2>3, <1>t DEF UpdateTyped, UpdateFits, Carries, U!Alone, U!UpdatesGoForward
<1>3. CASE \E c \in Commands : UpdateSteps(c)
  <2>1. PICK c \in Commands : UpdateSteps(c) BY <1>3
  <2> DEFINE me == command[c]
             Rests == UNCHANGED <<bounds, feed, dest, copies, last, once, kills>>
             Moves(x) == command' = [command EXCEPT ![c] = x]
  <2>2. me \in UpdateCommand /\ Carries(c) BY <1>t DEF UpdateFits
  <2>i. U!Idle \in UpdateCommand BY DEF U!Idle, UpdateCommand
  <2>f. /\ [me EXCEPT !.pc = "failed"] \in UpdateCommand
        /\ [me EXCEPT !.pc = "failed"].pc = "failed"
        /\ [me EXCEPT !.pc = "failed"].moved = me.moved
    BY <2>2 DEF UpdateCommand
  <2>3. ASSUME NEW x \in UpdateCommand, Moves(x), Rests, starts' \in Nat,
               me.pc # "idle" \/ c \in bounds.commands, me.pc # "activate",
               x.moved = {} \/ \E b \in Copies : x.moved = {b},
               x.pc \in Downloading => x.kind = "update",
               x.pc \in {"archive", "check"} => U!IsUpgrade(x.seen, x.manifest),
               x.pc \in {"stage", "keep"} => x.app \in Apps,
               x.kind = "update" /\ x.pc \in {"stage", "keep"} =>
                   Suits(x.app) /\ U!IsUpgrade(x.seen, x.app),
               x.kind = "update" /\ x.pc \in Downloading \union {"stage", "keep"} /\ U!Alone =>
                   dest.app = x.seen,
               x.pc # "activate"
        PROVE  UpdateTyped' /\ UpdateFits'
    <3>1. command'[c] = x BY <2>3, <1>t
    <3>2. U!Alone' = U!Alone BY <2>3 DEF U!Alone
    <3>3. Carries(c)' BY <2>3, <3>1, <3>2 DEF Carries, Downloading
    <3>4. QED BY <2>3, <3>3, QuietUpdateFits
  <2>4. CASE U!Start(c)
    <3> DEFINE x == [U!Idle EXCEPT !.pc = "manifest", !.pid = starts', !.seen = dest.app]
    <3>1. Moves(x) /\ Rests /\ c \in bounds.commands /\ starts' = starts + 1 /\ me.pc # "activate"
      BY <2>4 DEF U!Start, U!Set, U!Mayrun, U!Ended
    <3>r. starts' \in Nat /\ dest.app \in Apps \union {U!None} BY <3>1, <1>t
    <3>2. /\ x \in UpdateCommand /\ x.pc = "manifest" /\ x.kind = "update" /\ x.moved = {}
          /\ x.seen = dest.app
      BY <3>r, <2>i DEF U!Idle, UpdateCommand, Downloading
    <3> HIDE DEF x
    <3>3. QED BY <3>1, <3>2, <3>r, <2>3 DEF Downloading
  <2>5. CASE U!FetchManifest(c)
    <3>1. PICK m \in feed : Moves(IF U!Accepts(me.seen, m)
                 THEN [me EXCEPT !.pc = "archive", !.manifest = m]
                 ELSE [me EXCEPT !.pc = "failed"])
      BY <2>5 DEF U!FetchManifest, U!Set
    <3>2. Rests /\ starts' = starts /\ me.pc = "manifest" BY <2>5 DEF U!FetchManifest
    <3>3. CASE U!Accepts(me.seen, m)
      <4> DEFINE x == [me EXCEPT !.pc = "archive", !.manifest = m]
      <4>1. /\ x \in UpdateCommand /\ x.pc = "archive" /\ x.manifest = m /\ x.seen = me.seen
            /\ x.moved = me.moved /\ x.kind = me.kind
        BY <2>2, <1>t DEF UpdateCommand, Downloading
      <4>2. Moves(x) BY <3>1, <3>3
      <4> HIDE DEF x
      <4>3. U!IsUpgrade(me.seen, m) BY <3>3 DEF U!Accepts
      <4>4. /\ me.moved = {} \/ \E b \in Copies : me.moved = {b}
            /\ me.kind = "update" /\ (U!Alone => dest.app = me.seen)
        BY <2>2, <3>2 DEF Carries, Downloading
      <4>5. QED BY <4>1, <4>2, <4>3, <4>4, <3>2, <2>3, <1>t
    <3>4. CASE ~U!Accepts(me.seen, m)
      <4>1. Moves([me EXCEPT !.pc = "failed"]) BY <3>1, <3>4
      <4>2. QED BY <4>1, <3>2, <2>f, <2>2, <2>3, <1>t DEF Carries, Downloading
    <3>5. QED BY <3>3, <3>4
  <2>6. CASE U!FetchArchive(c)
    <3>1. PICK bytes \in Apps \union {U!None} : Moves(IF U!IsArchive(me.manifest, bytes)
                 THEN [me EXCEPT !.pc = "check", !.app = bytes]
                 ELSE [me EXCEPT !.pc = "failed"])
      BY <2>6 DEF U!FetchArchive, U!Set
    <3>2. Rests /\ starts' = starts /\ me.pc = "archive" BY <2>6 DEF U!FetchArchive
    <3>3. CASE U!IsArchive(me.manifest, bytes)
      <4> DEFINE x == [me EXCEPT !.pc = "check", !.app = bytes]
      <4>1. /\ x \in UpdateCommand /\ x.pc = "check" /\ x.manifest = me.manifest
            /\ x.seen = me.seen /\ x.moved = me.moved /\ x.kind = me.kind
        BY <2>2 DEF UpdateCommand, Downloading
      <4>2. Moves(x) BY <3>1, <3>3
      <4> HIDE DEF x
      <4>3. /\ me.moved = {} \/ \E b \in Copies : me.moved = {b}
            /\ me.kind = "update" /\ (U!Alone => dest.app = me.seen)
            /\ U!IsUpgrade(me.seen, me.manifest)
        BY <2>2, <3>2 DEF Carries, Downloading
      <4>4. QED BY <4>1, <4>2, <4>3, <3>2, <2>3, <1>t
    <3>4. CASE ~U!IsArchive(me.manifest, bytes)
      <4>1. Moves([me EXCEPT !.pc = "failed"]) BY <3>1, <3>4
      <4>2. QED BY <4>1, <3>2, <2>f, <2>2, <2>3, <1>t DEF Carries, Downloading
    <3>5. QED BY <3>3, <3>4
  <2>7. CASE U!CheckBundle(c)
    <3> DEFINE m == me.manifest  a == me.app
               Good == /\ U!Public(a) /\ U!MeetsMinimum(m)
                       /\ <<a.version, a.build, a.minimum, a.team>>
                              = <<m.version, m.build, m.minimum, m.team>>
    <3>1. Moves(IF Good THEN [me EXCEPT !.pc = "stage"] ELSE [me EXCEPT !.pc = "failed"])
      BY <2>7 DEF U!CheckBundle, U!Set
    <3>2. Rests /\ starts' = starts /\ me.pc = "check" BY <2>7 DEF U!CheckBundle
    <3>3. CASE Good
      <4> DEFINE x == [me EXCEPT !.pc = "stage"]
      <4>1. /\ x \in UpdateCommand /\ x.pc = "stage" /\ x.app = me.app
            /\ x.seen = me.seen /\ x.moved = me.moved /\ x.kind = me.kind
        BY <2>2 DEF UpdateCommand
      <4>2. Moves(x) BY <3>1, <3>3
      <4> HIDE DEF x
      <4>3. /\ me.moved = {} \/ \E b \in Copies : me.moved = {b}
            /\ me.kind = "update" /\ (U!Alone => dest.app = me.seen)
            /\ U!IsUpgrade(me.seen, me.manifest)
        BY <2>2, <3>2 DEF Carries, Downloading
      <4>4. U!IsUpgrade(me.seen, me.app) BY <4>3, <3>3, FromManifest
      <4>5. Suits(me.app) BY <3>3 DEF Suits, U!MeetsMinimum
      <4>6. me.app # U!None BY ReleasedAssumption, <3>3 DEF U!Public, U!None
      <4>7. me.app \in Apps BY <4>6, <2>2 DEF UpdateCommand
      <4>8. QED BY <4>1, <4>2, <4>3, <4>4, <4>5, <4>7, <3>2, <2>3, <1>t DEF Downloading
    <3>4. CASE ~Good
      <4>1. Moves([me EXCEPT !.pc = "failed"]) BY <3>1, <3>4
      <4>2. QED BY <4>1, <3>2, <2>f, <2>2, <2>3, <1>t DEF Carries, Downloading
    <3>5. QED BY <3>3, <3>4
  <2>8. CASE U!StartInstall(c)
    <3>1. PICK a \in Apps : Moves([U!Idle EXCEPT !.pc = "stage", !.pid = starts', !.kind = "install",
                                                 !.app = a])
      BY <2>8 DEF U!StartInstall, U!Set
    <3> DEFINE x == [U!Idle EXCEPT !.pc = "stage", !.pid = starts', !.kind = "install", !.app = a]
    <3>2. Rests /\ c \in bounds.commands /\ starts' = starts + 1 /\ me.pc # "activate"
      BY <2>8 DEF U!StartInstall, U!Mayrun, U!Ended
    <3>r. starts' \in Nat BY <3>2, <1>t
    <3>3. /\ x \in UpdateCommand /\ x.pc = "stage" /\ x.kind = "install" /\ x.moved = {}
          /\ x.app = a
      BY <3>r, <2>i DEF U!Idle, UpdateCommand
    <3>4. Moves(x) BY <3>1
    <3> HIDE DEF x
    <3>5. QED BY <3>2, <3>3, <3>4, <3>r, <2>3 DEF Downloading
  <2>9. CASE U!StartRollback(c)
    <3>1. PICK b \in copies : Moves([U!Idle EXCEPT !.pc = "stage", !.pid = starts',
                                                   !.kind = "rollback", !.app = b.app])
      BY <2>9 DEF U!StartRollback, U!Set
    <3> DEFINE x == [U!Idle EXCEPT !.pc = "stage", !.pid = starts', !.kind = "rollback", !.app = b.app]
    <3>2. Rests /\ c \in bounds.commands /\ starts' = starts + 1 /\ me.pc # "activate"
      BY <2>9 DEF U!StartRollback, U!Mayrun, U!Ended
    <3>3. b.app \in Apps /\ starts' \in Nat BY <3>2, <1>t DEF Copies
    <3>4. /\ x \in UpdateCommand /\ x.pc = "stage" /\ x.kind = "rollback" /\ x.moved = {}
          /\ x.app = b.app
      BY <3>3, <2>i DEF U!Idle, UpdateCommand
    <3>5. Moves(x) BY <3>1
    <3> HIDE DEF x
    <3>6. QED BY <3>2, <3>3, <3>4, <3>5, <2>3 DEF Downloading
  <2>10. CASE U!Stage(c)
    <3> DEFINE x == [me EXCEPT !.pc = "keep"]
    <3>1. Moves(x) /\ Rests /\ starts' = starts /\ me.pc = "stage" BY <2>10 DEF U!Stage, U!Set
    <3>2. /\ x \in UpdateCommand /\ x.pc = "keep" /\ x.app = me.app
          /\ x.seen = me.seen /\ x.moved = me.moved /\ x.kind = me.kind
      BY <2>2 DEF UpdateCommand
    <3> HIDE DEF x
    <3>3. /\ me.moved = {} \/ \E b \in Copies : me.moved = {b}
          /\ me.app \in Apps
          /\ me.kind = "update" => /\ Suits(me.app) /\ U!IsUpgrade(me.seen, me.app)
                                   /\ U!Alone => dest.app = me.seen
      BY <2>2, <3>1 DEF Carries, Downloading
    <3>4. QED BY <3>1, <3>2, <3>3, <2>3, <1>t DEF Downloading
  <2>e. ASSUME U!Alone, kills = 0, dest.app = U!None, me.pc # "idle" PROVE me.pc = "activate"
    <3>1. PICK d \in Commands : command[d].pc = "activate" BY <2>e DEF UpdateFits
    <3>2. d = c BY <3>1, <2>e, OthersRest
    <3>3. QED BY <3>1, <3>2
  <2>s. U!Alone /\ kills = 0 => dest.sealed BY DEF UpdateFits
  <2>o. \A e \in once : e # U!None /\ (e = dest.app \/ \E b \in copies : e = b.app)
    BY ReleasedAssumption, <1>t DEF UpdateFits
  <2>q. ASSUME NEW x \in UpdateCommand, Moves(x), me.pc # "idle", bounds' = bounds, feed' = feed,
               kills' \in Nat, kills' = kills \/ kills' # 0, starts' = starts,
               dest' \in [app : Apps \union {U!None}, sealed : BOOLEAN],
               copies' \subseteq Copies, once' \subseteq Apps, Carries(c)',
               \A e \in once' : e = dest'.app \/ \E b \in copies' : e = b.app,
               U!Alone /\ kills' = 0 => dest'.sealed /\ (dest'.app = U!None => x.pc = "activate"),
               U!UpdatesGoForward'
        PROVE  UpdateTyped' /\ UpdateFits'
    <3>1. /\ \A d \in Commands : d # c => Carries(d)'
          /\ \A d \in Commands : d \notin bounds.commands => command'[d].pc = "idle"
          /\ command'[c] = x
      BY <2>q, OthersCarry
    <3>2. U!Alone' = U!Alone BY <2>q DEF U!Alone
    <3>3. command' \in [Commands -> UpdateCommand] BY <2>q, <1>t
    <3>4. UpdateTyped' BY <2>q, <3>3, <1>t DEF UpdateTyped
    <3>5. \A d \in Commands : Carries(d)' BY <3>1, <2>q
    <3>6. U!Alone' /\ kills' = 0 =>
             dest'.sealed /\ (dest'.app = U!None => \E d \in Commands : command'[d].pc = "activate")
      BY <2>q, <3>1, <3>2
    <3>7. once' \subseteq {dest'.app} \union {b.app : b \in copies'} BY <2>q
    <3>8. QED BY <3>1, <3>4, <3>5, <3>6, <3>7, <2>q DEF UpdateFits
  <2>11. CASE U!Keep(c)
    <3>0. me.pc = "keep" /\ UNCHANGED <<bounds, feed, last, once, starts, kills>>
      BY <2>11 DEF U!Keep
    <3>1. CASE dest.app # U!None
      <4> DEFINE b == U!Copied(c)
                 x == [me EXCEPT !.pc = "activate", !.moved = {b}, !.seen = dest.app]
      <4>1. b \in Copies /\ b.app = dest.app /\ b.sealed = dest.sealed
        BY <3>1, <2>2, <1>t DEF U!Copied, Copies, UpdateCommand
      <4>2. Moves(x) /\ copies' = copies \union {b} /\ dest' = [app |-> U!None, sealed |-> TRUE]
        BY <2>11, <3>1 DEF U!Keep, U!Set
      <4> HIDE DEF b
      <4>d. dest.app \in Apps \union {U!None} BY <1>t
      <4>3. /\ x \in UpdateCommand /\ x.pc = "activate" /\ x.moved = {b} /\ x.seen = dest.app
            /\ x.app = me.app /\ x.kind = me.kind
        BY <4>1, <4>d, <2>2 DEF UpdateCommand
      <4> HIDE DEF x
      <4>4. /\ me.app \in Apps
            /\ me.kind = "update" => /\ Suits(me.app) /\ U!IsUpgrade(me.seen, me.app)
                                     /\ U!Alone => dest.app = me.seen
        BY <2>2, <3>0 DEF Carries
      <4>5. command'[c] = x /\ U!Alone' = U!Alone BY <4>2, <3>0, <1>t DEF U!Alone
      <4>6. Carries(c)' BY <4>1, <4>2, <4>3, <4>4, <4>5, <3>0, <2>s DEF Carries, Downloading
      <4>7. U!UpdatesGoForward' BY <3>0, <4>5 DEF UpdateFits, U!UpdatesGoForward
      <4>8. QED BY <4>1, <4>2, <4>3, <4>6, <4>7, <3>0, <2>o, <2>q, <1>t
    <3>2. CASE dest.app = U!None
      <4> DEFINE next == IF me.kind = "rollback" THEN "failed" ELSE "activate"
                 x == [me EXCEPT !.pc = next, !.seen = U!None]
      <4>1. Moves(x) /\ UNCHANGED <<dest, copies>> BY <2>11, <3>2 DEF U!Keep, U!Set
      <4>2. next \in {"failed", "activate"} /\ (me.kind = "update" => next = "activate") OBVIOUS
      <4> HIDE DEF next
      <4>3. /\ x \in UpdateCommand /\ x.pc = next /\ x.moved = me.moved /\ x.seen = U!None
            /\ x.app = me.app /\ x.kind = me.kind
        BY <4>2, <2>2 DEF UpdateCommand
      <4> HIDE DEF x
      <4>4. /\ me.moved = {} \/ \E b \in Copies : me.moved = {b}
            /\ me.app \in Apps /\ (me.kind = "update" => Suits(me.app))
        BY <2>2, <3>0 DEF Carries
      <4>5. command'[c] = x /\ U!Alone' = U!Alone BY <4>1, <3>0, <1>t DEF U!Alone
      <4>6. ~(U!Alone /\ kills = 0) BY <3>0, <3>2, <2>e
      <4>7. Carries(c)' BY <4>2, <4>3, <4>4, <4>5, <4>6, <3>0 DEF Carries, Downloading
      <4>8. U!UpdatesGoForward' BY <3>0, <4>5 DEF UpdateFits, U!UpdatesGoForward
      <4>9. QED BY <4>1, <4>3, <4>6, <4>7, <4>8, <3>0, <2>o, <2>q, <1>t
    <3>3. QED BY <3>1, <3>2
  <2>12. CASE U!Activate(c)
    <3> DEFINE x == [me EXCEPT !.pc = "done"]
    <3>0. me.pc = "activate" /\ Moves(x) /\ UNCHANGED <<bounds, feed, copies, starts, kills>>
      BY <2>12 DEF U!Activate, U!Set
    <3>1. x \in UpdateCommand /\ x.pc = "done" /\ x.moved = me.moved BY <2>2 DEF UpdateCommand
    <3> HIDE DEF x
    <3>2. command'[c] = x /\ U!Alone' = U!Alone BY <3>0, <1>t DEF U!Alone
    <3>3. Carries(c)' BY <3>1, <3>2, <2>2 DEF Carries, Downloading
    <3>4. me.app \in Apps BY <3>0, <2>2 DEF Carries
    <3>5. CASE dest.app = U!None
      <4>1. /\ dest' = [app |-> me.app, sealed |-> TRUE]
            /\ last' = [kind |-> me.kind, from |-> me.seen, to |-> me.app]
            /\ once' = once \union {me.app}
        BY <2>12, <3>5 DEF U!Activate
      <4>2. me.kind = "update" =>
               Suits(me.app) /\ (U!Alone /\ me.seen # U!None => U!IsUpgrade(me.seen, me.app))
        BY <3>0, <2>2 DEF Carries
      <4>3. U!UpdatesGoForward'
        BY <4>1, <4>2, <3>2 DEF U!UpdatesGoForward, Suits, U!IsUpgrade
      <4>4. me.app # U!None BY ReleasedAssumption, <3>4
      <4>5. QED BY <4>1, <4>3, <4>4, <3>0, <3>1, <3>3, <3>4, <3>5, <2>o, <2>q, <1>t
    <3>6. CASE dest.app # U!None
      <4>1. dest' = [dest EXCEPT !.sealed = FALSE] /\ UNCHANGED <<last, once>>
        BY <2>12, <3>6 DEF U!Activate
      <4>2. dest'.app = dest.app /\ dest' \in [app : Apps \union {U!None}, sealed : BOOLEAN]
        BY <4>1, <1>t
      <4>3. ~(U!Alone /\ kills = 0) BY <3>0, <3>6, <2>2 DEF Carries
      <4>4. U!UpdatesGoForward' BY <4>1, <3>2 DEF UpdateFits, U!UpdatesGoForward
      <4>5. QED BY <4>1, <4>2, <4>3, <4>4, <3>0, <3>1, <3>3, <2>o, <2>q, <1>t
    <3>7. QED BY <3>5, <3>6
  <2>13. CASE U!Fail(c)
    <3> DEFINE x == [me EXCEPT !.pc = "failed"]
    <3>0. /\ me.pc # "idle" /\ U!Cleanup(c) /\ Moves(x)
          /\ UNCHANGED <<bounds, feed, last, once, starts, kills>>
      BY <2>13 DEF U!Fail, U!Set, U!Ended
    <3>1. x \in UpdateCommand /\ x.pc = "failed" /\ x.moved = me.moved BY <2>f
    <3> HIDE DEF x
    <3>2. command'[c] = x /\ U!Alone' = U!Alone BY <3>0, <1>t DEF U!Alone
    <3>3. Carries(c)' BY <3>1, <3>2, <2>2 DEF Carries, Downloading
    <3>4. U!UpdatesGoForward' BY <3>0, <3>2 DEF UpdateFits, U!UpdatesGoForward
    <3>5. CASE me.moved # {} /\ dest.app = U!None
      <4>1. PICK b \in Copies : me.moved = {b} BY <3>5, <2>2 DEF Carries
      <4>2. dest' = [app |-> b.app, sealed |-> b.sealed] /\ copies' = copies \ {b}
        BY <3>0, <3>5, <4>1 DEF U!Cleanup
      <4>3. b.app \in Apps /\ b.sealed \in BOOLEAN BY DEF Copies
      <4>4. U!Alone /\ kills = 0 => b.sealed
        BY <4>1, <3>0, <3>5, <2>2, <2>e DEF Carries
      <4>5. \A e \in once : e = dest'.app \/ \E d \in copies' : e = d.app
        BY <4>2, <3>5, <2>o
      <4>6. b.app # U!None BY ReleasedAssumption, <4>3
      <4>7. QED BY <4>2, <4>3, <4>4, <4>5, <4>6, <3>0, <3>1, <3>3, <3>4, <2>q, <1>t
    <3>6. CASE ~(me.moved # {} /\ dest.app = U!None)
      <4>1. UNCHANGED <<dest, copies>> BY <3>0, <3>6 DEF U!Cleanup
      <4>2. U!Alone /\ kills = 0 => dest.app # U!None
        BY <3>0, <3>6, <2>2, <2>e DEF Carries
      <4>3. QED BY <4>1, <4>2, <3>0, <3>1, <3>3, <3>4, <2>o, <2>q, <2>s, <1>t
    <3>7. QED BY <3>5, <3>6
  <2>14. CASE U!Kill(c)
    <3> DEFINE x == [me EXCEPT !.pc = "failed"]
    <3>0. /\ me.pc # "idle" /\ Moves(x) /\ kills' = kills + 1
          /\ UNCHANGED <<bounds, feed, dest, copies, last, once, starts>>
      BY <2>14 DEF U!Kill, U!Set, U!Ended
    <3>1. x \in UpdateCommand /\ x.pc = "failed" /\ x.moved = me.moved BY <2>f
    <3> HIDE DEF x
    <3>2. command'[c] = x /\ U!Alone' = U!Alone BY <3>0, <1>t DEF U!Alone
    <3>3. Carries(c)' BY <3>1, <3>2, <2>2 DEF Carries, Downloading
    <3>4. U!UpdatesGoForward' BY <3>0, <3>2 DEF UpdateFits, U!UpdatesGoForward
    <3>5. kills' \in Nat /\ kills' # 0 BY <3>0, <1>t
    <3>6. QED BY <3>0, <3>1, <3>3, <3>4, <3>5, <2>o, <2>q, <1>t
  <2>15. QED BY <2>1, <2>4, <2>5, <2>6, <2>7, <2>8, <2>9, <2>10, <2>11, <2>12, <2>13, <2>14
             DEF UpdateSteps
<1>4. QED BY <1>1, <1>2, <1>3 DEF U!Next, UpdateSteps

LEMMA UpdateFitsSafe == ASSUME UpdateTyped, UpdateFits PROVE U!UpdatesAreSafe
<1>1. U!UpdatesGoForward BY DEF UpdateFits
<1>2. U!InstallationIsKept BY DEF UpdateFits, U!InstallationIsKept
<1>3. QED BY <1>1, <1>2 DEF U!UpdatesAreSafe

\* An update goes forward, every application that was replaced is still on disk, and a
\* command that runs alone and is not killed leaves one that starts.
THEOREM UpdatesStaySafe == ToolsSpec => []UpdatesAreSafe
<1> DEFINE Invariant == part = "update" => UpdateTyped /\ UpdateFits
<1>1. ToolsInit => Invariant BY PartsStart, UpdateInit
<1>2. Invariant /\ [ToolsNext]_toolsVars => Invariant' BY PartsMove, UpdateNext
<1>3. Invariant => UpdatesAreSafe BY UpdateFitsSafe DEF UpdatesAreSafe
<1> HIDE DEF Invariant
<1>4. QED BY <1>1, <1>2, <1>3, PTL DEF ToolsSpec

-----------------------------------------------------------------------------
(* LiveCampaign: what a rerun resumes, and what a pass rests on.            *)

Cuts == {"none", "created", "recorded", "paused"}
Objectives == [key : Nat, planned : BOOLEAN, cut : Cuts]
MissionStates == {"none", "working", "proving", "lost", "proven"}
Items == [missions : MissionStates, pr : {"none", "draft", "open", "closed", "merged"},
          ask : {"none", "open", "answered"}]
Things == Nat \X C!Kinds
Asked == {"post", "bind", "look", "judge", "mark"}
Campaigner ==
    [pc : Asked \union {"idle", "ready", "save"}, id : Nat, fresh : BOOLEAN, objective : Nat,
     baseline : SUBSET Things, missions : SUBSET (Nat \X MissionStates), result : {"none"}]
StateFiles == [status : {"absent", "pending", "terminal"}, id : Nat, objective : Nat,
               baseline : SUBSET Things]

\* The types of LiveCampaign.
CampaignTyped ==
    /\ objectives \in Seq(Objectives) /\ item \in Seq(Items) /\ Len(item) = Len(objectives)
    /\ recorded \subseteq Nat \X Nat
    /\ file \in StateFiles /\ runners \in [Runners -> Campaigner]
    /\ clock \in Nat /\ origin \in Seq(SUBSET Things) /\ Len(origin) = clock

\* The campaigns that were written to the state file.
Saved(k) == k \in marked \/ k \in abandoned \/ (file.status = "pending" /\ file.id = k)

\* The table holds one objective per key, every one but those whose handler died
\* before it, planned unless the handler died or was refused after it.
TableFits ==
    /\ \A r \in recorded :
        /\ r[2] \in 1..Len(objectives) /\ objectives[r[2]].key = r[1]
        /\ objectives[r[2]].planned \/ objectives[r[2]].cut \in {"recorded", "paused"}
    /\ \A q, r \in recorded : q[1] = r[1] => q = r
    /\ \A i \in 1..Len(objectives) :
        objectives[i].cut = "created" \/ <<objectives[i].key, i>> \in recorded

\* Objectives are those of saved campaigns, and another campaign's comes only after
\* a campaign was marked, or beside one that was written over.
KeysFit ==
    /\ \A i \in 1..Len(objectives) : Saved(objectives[i].key)
    /\ \A k \in marked : C!Known(k)
    /\ \A i, j \in 1..Len(objectives) : i < j =>
        IF objectives[i].key = objectives[j].key THEN objectives[i].cut = "created"
        ELSE objectives[i].key \in marked \/ {objectives[i].key, objectives[j].key} \cap abandoned # {}

\* What a command and the state file know: their campaign's objective, and no less
\* than what existed when the campaign started.
Knows(id, objective) == objective # 0 => <<id, objective>> \in recorded
Hides(id, baseline) == id \in 1..clock /\ origin[id] \subseteq baseline

CommandFits(c) ==
    /\ Knows(runners[c].id, runners[c].objective)
    /\ runners[c].pc = "post" => Saved(runners[c].id)
    /\ runners[c].pc \in {"bind", "look", "judge", "mark"} => runners[c].objective # 0
    /\ runners[c].pc # "idle" => runners[c].id \in 1..clock
    /\ runners[c].pc \notin {"idle", "ready"} \/ (runners[c].pc = "ready" /\ ~runners[c].fresh) =>
            Hides(runners[c].id, runners[c].baseline)

FileFits ==
    /\ Knows(file.id, file.objective)
    /\ file.status = "pending" => Hides(file.id, file.baseline)

OriginsFit == \A i \in 1..clock : origin[i] \subseteq C!Existing

PassesFit ==
    \A d \in closing : d.id \in 1..clock /\ (d.result = "passed" =>
        /\ d.pulls # {} /\ ~d.merged
        /\ \A o \in d.pulls : <<o, "pr">> \notin origin[d.id]
        /\ d.terminal \/ d.expired)

CampaignFits ==
    /\ TableFits /\ KeysFit /\ \A c \in Runners : CommandFits(c)
    /\ FileFits /\ OriginsFit /\ PassesFit

LEMMA CampaignInit == C!Init => CampaignTyped /\ CampaignFits
<1> SUFFICES ASSUME C!Init PROVE CampaignTyped /\ CampaignFits OBVIOUS
<1>1. /\ objectives = <<>> /\ recorded = {} /\ item = <<>> /\ clock = 0 /\ origin = <<>>
      /\ marked = {} /\ abandoned = {} /\ closing = {}
      /\ file = [status |-> "absent", id |-> 0, objective |-> 0, baseline |-> {}]
      /\ runners = [c \in Runners |-> C!Idle]
  BY DEF C!Init, C!NoFile, C!None
<1>2. C!Idle \in Campaigner /\ C!Idle.pc = "idle" /\ C!Idle.objective = 0
  BY DEF C!Idle, C!None, Campaigner, Asked
<1>3. file \in StateFiles /\ file.status = "absent" /\ file.objective = 0 BY <1>1 DEF StateFiles
<1>4. CampaignTyped BY <1>1, <1>2, <1>3 DEF CampaignTyped
<1>5. \A c \in Runners : runners[c] = C!Idle BY <1>1
<1>6. \A c \in Runners : CommandFits(c) BY <1>2, <1>5 DEF CommandFits, Knows
<1>7. Len(objectives) = 0 BY <1>1
<1>8. TableFits /\ KeysFit BY <1>1, <1>7 DEF TableFits, KeysFit
<1>9. FileFits /\ OriginsFit /\ PassesFit BY <1>1, <1>3 DEF FileFits, OriginsFit, PassesFit, Knows
<1>10. QED BY <1>4, <1>6, <1>8, <1>9 DEF CampaignFits

-----------------------------------------------------------------------------
\* The control plane's side is as it was, and what was saved stays saved.
LEMMA Elsewhere ==
    ASSUME CampaignTyped, CampaignFits, UNCHANGED <<objectives, recorded, item, clock, origin>>,
           file' \in StateFiles, FileFits', runners' \in [Runners -> Campaigner],
           marked \subseteq marked', abandoned \subseteq abandoned',
           \A k \in Nat : Saved(k) => Saved(k)',
           \A k \in marked' : C!Known(k), PassesFit',
           NEW c \in Runners, CommandFits(c)', \A d \in Runners : d # c => runners'[d] = runners[d]
    PROVE  CampaignTyped' /\ CampaignFits'
<1>1. CampaignTyped' BY DEF CampaignTyped
<1>2. TableFits' BY DEF CampaignFits, TableFits
<1>3. \A i \in 1..Len(objectives) : objectives[i].key \in Nat
  <2>1. \A i \in 1..Len(objectives) : objectives[i] \in Objectives BY DEF CampaignTyped
  <2>2. QED BY <2>1 DEF Objectives
<1>4. KeysFit'
  <2>1. \A i \in 1..Len(objectives) : Saved(objectives[i].key)' BY <1>3 DEF CampaignFits, KeysFit
  <2>2. \A k \in marked' : C!Known(k)' BY DEF C!Known
  <2>3. QED BY <2>1, <2>2 DEF CampaignFits, KeysFit
<1>5. OriginsFit' BY DEF CampaignFits, OriginsFit, C!Existing
<1>6. ASSUME NEW d \in Runners, d # c PROVE CommandFits(d)'
  <2>1. runners'[d] = runners[d] /\ runners[d].id \in Nat BY <1>6 DEF CampaignTyped, Campaigner
  <2>2. CommandFits(d) BY DEF CampaignFits
  <2>3. QED BY <2>1, <2>2 DEF CommandFits, Knows, Hides
<1>7. QED BY <1>1, <1>2, <1>4, <1>5, <1>6 DEF CampaignFits

\* A command goes on by itself.
LEMMA OneGoesOn ==
    ASSUME CampaignTyped, CampaignFits, NEW c \in Runners, NEW x \in Campaigner,
           runners' = [runners EXCEPT ![c] = x],
           UNCHANGED <<objectives, recorded, item, clock, origin, file, marked, abandoned>>,
           PassesFit',
           Knows(x.id, x.objective),
           x.pc = "post" => Saved(x.id),
           x.pc \in {"bind", "look", "judge", "mark"} => x.objective # 0,
           x.pc # "idle" => x.id \in 1..clock,
           x.pc \notin {"idle", "ready"} \/ (x.pc = "ready" /\ ~x.fresh) => Hides(x.id, x.baseline)
    PROVE  CampaignTyped' /\ CampaignFits'
<1>1. runners' \in [Runners -> Campaigner] /\ runners'[c] = x /\ \A d \in Runners : d # c => runners'[d] = runners[d]
  BY DEF CampaignTyped
<1>2. CommandFits(c)' BY <1>1 DEF CommandFits, Knows, Saved, Hides
<1>3. \A k \in Nat : Saved(k)' = Saved(k) BY DEF Saved
<1>4. file' \in StateFiles /\ FileFits' BY DEF CampaignTyped, CampaignFits, FileFits, Knows, Hides
<1>5. \A k \in marked' : C!Known(k) BY DEF CampaignFits, KeysFit
<1>6. QED BY <1>1, <1>2, <1>3, <1>4, <1>5, Elsewhere

\* The command of c is over.
LEMMA IdleFits ==
    ASSUME CampaignTyped
    PROVE  C!Idle \in Campaigner /\ C!Idle.pc = "idle" /\ Knows(C!Idle.id, C!Idle.objective)
BY DEF C!Idle, C!None, Campaigner, Asked, Knows

LEMMA CommandTyped ==
    ASSUME CampaignTyped, CampaignFits, NEW c \in Runners
    PROVE  /\ runners[c] \in Campaigner /\ CommandFits(c)
           /\ runners[c].id \in Nat /\ runners[c].objective \in Nat /\ runners[c].baseline \subseteq Things
           /\ runners[c].fresh \in BOOLEAN
BY DEF CampaignTyped, CampaignFits, Campaigner

LEMMA ExistingTyped == CampaignTyped => C!Existing \subseteq Things
BY DEF CampaignTyped, C!Existing, Things

\* The state file is written by c.
LEMMA Saves ==
    ASSUME CampaignTyped, CampaignFits, NEW c \in Runners, runners[c].pc \in {"save", "bind"},
           C!SavedPending(c), NEW pc \in {"post", "look"},
           pc = "look" => runners[c].pc = "bind",
           runners' = [runners EXCEPT ![c].pc = pc],
           UNCHANGED <<objectives, recorded, item, clock, origin, marked, closing>>
    PROVE  CampaignTyped' /\ CampaignFits'
<1>1. runners[c] \in Campaigner /\ CommandFits(c) /\ Hides(runners[c].id, runners[c].baseline) /\ runners[c].id \in Nat
  BY CommandTyped DEF CommandFits
<1> DEFINE f == [status |-> "pending", id |-> runners[c].id, objective |-> runners[c].objective,
                 baseline |-> runners[c].baseline]
           x == [runners[c] EXCEPT !.pc = pc]
<1>2. /\ file' = f
      /\ abandoned' = IF file.status = "pending" /\ file.id # runners[c].id
                      THEN abandoned \union {file.id} ELSE abandoned
  BY DEF C!SavedPending
<1>3. /\ f \in StateFiles /\ f.status = "pending" /\ f.id = runners[c].id
      /\ f.objective = runners[c].objective /\ f.baseline = runners[c].baseline
  BY <1>1 DEF StateFiles, Campaigner
<1>4. /\ x \in Campaigner /\ x.pc = pc /\ x.id = runners[c].id /\ x.fresh = runners[c].fresh
      /\ x.objective = runners[c].objective /\ x.baseline = runners[c].baseline
  BY <1>1 DEF Campaigner, Asked
<1>5. runners' = [runners EXCEPT ![c] = x] BY DEF CampaignTyped
<1> HIDE DEF f, x
<1>6. runners' \in [Runners -> Campaigner] /\ runners'[c] = x /\ \A d \in Runners : d # c => runners'[d] = runners[d]
  BY <1>4, <1>5 DEF CampaignTyped
<1>7. \A k \in Nat : Saved(k) => Saved(k)' BY <1>2, <1>3 DEF Saved
<1>8. Saved(runners[c].id)'
  BY <1>2, <1>3, <1>4, <1>6 DEF Saved
<1>9. FileFits' BY <1>1, <1>2, <1>3 DEF FileFits, Knows, Hides, CommandFits
<1>10. CommandFits(c)'
  BY <1>1, <1>2, <1>3, <1>4, <1>6 DEF CommandFits, Knows, Hides, Saved
<1>11. abandoned \subseteq abandoned' BY <1>2
<1>12. PassesFit' BY DEF CampaignFits, PassesFit
<1>13. \A k \in marked' : C!Known(k) BY DEF CampaignFits, KeysFit
<1>14. QED BY <1>2, <1>3, <1>6, <1>7, <1>9, <1>10, <1>11, <1>12, <1>13, Elsewhere

-----------------------------------------------------------------------------
\* The project's work goes on: nothing that exists is no longer there.
LEMMA Works ==
    ASSUME CampaignTyped, CampaignFits, NEW o \in 1..Len(objectives), NEW n \in Items,
           item' = [item EXCEPT ![o] = n], \A k \in C!Kinds : item[o][k] # "none" => n[k] # "none",
           UNCHANGED <<objectives, recorded, file, runners, clock, origin, marked, abandoned, closing>>
    PROVE  CampaignTyped' /\ CampaignFits'
<1>1. /\ item' \in Seq(Items) /\ Len(item') = Len(objectives)
      /\ \A p \in 1..Len(objectives), k \in C!Kinds : item[p][k] # "none" => item'[p][k] # "none"
  BY DEF CampaignTyped
<1>2. CampaignTyped' BY <1>1 DEF CampaignTyped
<1>3. C!Existing \subseteq C!Existing' BY <1>1 DEF C!Existing
<1>4. OriginsFit' BY <1>3 DEF CampaignFits, OriginsFit
<1>5. QED BY <1>2, <1>4 DEF CampaignFits, TableFits, KeysFit, CommandFits, FileFits, PassesFit,
                            Knows, Hides, Saved, C!Known

\* An objective is created for the campaign of a command that has saved it.
LEMMA Creates ==
    ASSUME CampaignTyped, CampaignFits, NEW key \in Nat, Saved(key), ~C!Known(key),
           NEW cut \in Cuts, C!Created(key, cut),
           recorded' = IF cut = "created" THEN recorded
                       ELSE recorded \union {<<key, Len(objectives) + 1>>},
           UNCHANGED <<file, clock, origin, marked, abandoned, closing>>,
           NEW c \in Runners, runners' \in [Runners -> Campaigner], CommandFits(c)',
           \A d \in Runners : d # c => runners'[d] = runners[d]
    PROVE  CampaignTyped' /\ CampaignFits'
<1> DEFINE x == [key |-> key, planned |-> (cut = "none"), cut |-> cut]
           N == Len(objectives) + 1
<1>1. objectives' = Append(objectives, x) /\ item' = Append(item, C!NoWork) BY DEF C!Created
<1>2. x \in Objectives /\ x.key = key /\ x.cut = cut /\ x.planned = (cut = "none")
  BY DEF Objectives
<1>3. C!NoWork \in Items BY DEF C!NoWork, Items, MissionStates
<1>4. objectives \in Seq(Objectives) /\ item \in Seq(Items) /\ Len(item) = Len(objectives)
  BY DEF CampaignTyped
<1> HIDE DEF x
<1>5. /\ objectives' \in Seq(Objectives) /\ Len(objectives') = N /\ objectives'[N] = x
      /\ \A i \in 1..Len(objectives) : objectives'[i] = objectives[i]
      /\ \A i \in 1..N : i \in 1..Len(objectives) \/ i = N
      /\ Len(objectives) \in Nat
  BY <1>1, <1>2, <1>4
<1>6. /\ item' \in Seq(Items) /\ Len(item') = N
      /\ \A i \in 1..Len(objectives) : item'[i] = item[i]
  BY <1>1, <1>3, <1>4
<1>7. recorded \subseteq recorded' /\ \A r \in recorded' : r \in recorded \/ (r = <<key, N>> /\ cut # "created")
  OBVIOUS
<1>8. N \in Nat /\ N \notin 1..Len(objectives) /\ \A i \in 1..Len(objectives) : i \in 1..N BY <1>4
<1>9. CampaignTyped' BY <1>5, <1>6, <1>7, <1>8 DEF CampaignTyped
<1>10. cut # "created" => <<key, N>> \in recorded' OBVIOUS
<1> HIDE DEF N
<1>11. TableFits'
  <2>1. \A r \in recorded' :
          /\ r[2] \in 1..N /\ objectives'[r[2]].key = r[1]
          /\ objectives'[r[2]].planned \/ objectives'[r[2]].cut \in {"recorded", "paused"}
    <3>1. ASSUME NEW r \in recorded'
          PROVE  /\ r[2] \in 1..N /\ objectives'[r[2]].key = r[1]
                 /\ objectives'[r[2]].planned \/ objectives'[r[2]].cut \in {"recorded", "paused"}
      <4>1. CASE r \in recorded BY <4>1, <1>5, <1>8 DEF CampaignFits, TableFits
      <4>2. CASE r = <<key, N>> /\ cut # "created"
        <5>1. r[1] = key /\ r[2] = N BY <4>2
        <5>2. N \in 1..N BY <1>5, <1>8 DEF N
        <5>3. QED BY <4>2, <5>1, <5>2, <1>2, <1>5 DEF Cuts
      <4>3. QED BY <1>7, <4>1, <4>2
    <3>2. QED BY <3>1
  <2>2. \A q, r \in recorded' : q[1] = r[1] => q = r
    BY <1>7 DEF CampaignFits, TableFits, C!Known
  <2>3. \A i \in 1..N : objectives'[i].cut = "created" \/ <<objectives'[i].key, i>> \in recorded'
    BY <1>2, <1>5, <1>7, <1>10 DEF CampaignFits, TableFits
  <2>4. QED BY <1>5, <2>1, <2>2, <2>3 DEF TableFits
<1>12. \A k : Saved(k)' = Saved(k) BY DEF Saved
<1>13. KeysFit'
  <2>1. \A i \in 1..N : Saved(objectives'[i].key) BY <1>2, <1>5 DEF CampaignFits, KeysFit
  <2>2. \A k \in marked : C!Known(k)' BY <1>7 DEF CampaignFits, KeysFit, C!Known
  <2>3. ASSUME NEW i \in 1..N, NEW j \in 1..N, i < j
        PROVE  IF objectives'[i].key = objectives'[j].key THEN objectives'[i].cut = "created"
               ELSE objectives'[i].key \in marked
                    \/ {objectives'[i].key, objectives'[j].key} \cap abandoned # {}
    <3>1. i \in 1..Len(objectives) BY <2>3, <1>5 DEF N
    <3>2. CASE j \in 1..Len(objectives) BY <2>3, <3>1, <3>2, <1>5 DEF CampaignFits, KeysFit
    <3>3. CASE j = N
      <4>1. objectives'[j].key = key /\ objectives'[i] = objectives[i] BY <3>1, <3>3, <1>2, <1>5
      <4>2. objectives[i].key = key => objectives[i].cut = "created"
        BY <3>1 DEF CampaignFits, TableFits, C!Known
      <4>3. objectives[i].key # key =>
              objectives[i].key \in marked \/ {objectives[i].key, key} \cap abandoned # {}
        BY <3>1 DEF CampaignFits, KeysFit, Saved
      <4>4. QED BY <4>1, <4>2, <4>3
    <3>4. QED BY <3>2, <3>3, <1>5
  <2>4. QED BY <1>5, <2>1, <2>2, <2>3 DEF KeysFit, Saved
<1>14. C!Existing \subseteq C!Existing'
  <2>1. \A o \in 1..Len(objectives), k \in C!Kinds : item[o][k] # "none" =>
            o \in 1..N /\ item'[o][k] # "none"
    BY <1>6, <1>8
  <2>2. QED BY <1>5, <2>1 DEF C!Existing
<1>15. OriginsFit' BY <1>14 DEF CampaignFits, OriginsFit
<1>16. FileFits' BY <1>7 DEF CampaignFits, FileFits, Knows, Hides
<1>17. ASSUME NEW d \in Runners, d # c PROVE CommandFits(d)'
  <2>1. runners'[d] = runners[d] /\ CommandFits(d) BY <1>17 DEF CampaignFits
  <2>2. QED BY <2>1, <1>7, <1>12 DEF CommandFits, Knows, Hides
<1>18. PassesFit' BY DEF CampaignFits, PassesFit
<1>19. QED BY <1>9, <1>11, <1>13, <1>15, <1>16, <1>17, <1>18 DEF CampaignFits

LEMMA Posts ==
    ASSUME CampaignTyped, CampaignFits, NEW c \in Runners, C!Post(c)
    PROVE  CampaignTyped' /\ CampaignFits'
<1>1. /\ runners[c].pc = "post" /\ runners[c] \in Campaigner /\ CommandFits(c)
      /\ Saved(runners[c].id) /\ runners[c].id \in Nat /\ runners[c].id \in 1..clock
      /\ Hides(runners[c].id, runners[c].baseline) /\ Knows(runners[c].id, runners[c].objective)
  BY CommandTyped DEF C!Post, CommandFits
<1>2. PICK death \in {"none", "unread", "created", "recorded", "answered"} :
        /\ C!Submitted(runners[c].id, death)
        /\ IF death = "none" /\ (C!Known(runners[c].id) \/ ~paused)
           THEN \E r \in recorded' : r[1] = runners[c].id
                    /\ runners' = [runners EXCEPT ![c].pc = "bind", ![c].objective = r[2]]
           ELSE runners' = [runners EXCEPT ![c] = C!Idle]
  BY DEF C!Post
<1>3. UNCHANGED <<file, clock, origin, marked, abandoned, closing>> BY DEF C!Post, C!past
\* The command, once it was answered.
<1>4. ASSUME recorded' \subseteq Nat \X Nat
      PROVE  \E x \in Campaigner :
                    /\ runners' = [runners EXCEPT ![c] = x]
                    /\ x.id \in 1..clock \/ x.pc = "idle"
                    /\ x.objective # 0 => <<x.id, x.objective>> \in recorded'
                    /\ x.pc \in {"idle", "bind"}
                    /\ x.pc = "bind" => x.objective # 0 \/ <<x.id, x.objective>> \in recorded'
                    /\ x.pc = "bind" => Hides(x.id, x.baseline)
  <2>1. CASE runners' = [runners EXCEPT ![c] = C!Idle]
    BY <2>1, IdleFits DEF Knows, C!Idle, C!None
  <2>2. CASE \E r \in recorded' : r[1] = runners[c].id
                    /\ runners' = [runners EXCEPT ![c].pc = "bind", ![c].objective = r[2]]
    <3>1. PICK r \in recorded' : r[1] = runners[c].id
                    /\ runners' = [runners EXCEPT ![c].pc = "bind", ![c].objective = r[2]]
      BY <2>2
    <3> DEFINE x == [runners[c] EXCEPT !.pc = "bind", !.objective = r[2]]
    <3>2. r = <<runners[c].id, r[2]>> /\ r[2] \in Nat BY <3>1, <1>4
    <3>3. /\ x \in Campaigner /\ x.pc = "bind" /\ x.objective = r[2] /\ x.id = runners[c].id
          /\ x.baseline = runners[c].baseline
      BY <3>2, <1>1 DEF Campaigner, Asked
    <3>4. runners' = [runners EXCEPT ![c] = x] BY <3>1 DEF CampaignTyped
    <3> HIDE DEF x
    <3>5. x.objective # 0 => <<x.id, x.objective>> \in recorded' BY <3>1, <3>2, <3>3
    <3>6. <<x.id, x.objective>> \in recorded' BY <3>1, <3>2, <3>3
    <3>7. Hides(x.id, x.baseline) /\ x.id \in 1..clock BY <3>3, <1>1
    <3>8. QED BY <3>3, <3>4, <3>5, <3>6, <3>7
  <2>3. QED BY <1>2, <2>1, <2>2
\* A table whose objectives exist.
<1>5. ASSUME recorded' \subseteq Nat \X Nat, \A r \in recorded' : r[2] # 0
      PROVE  /\ runners' \in [Runners -> Campaigner] /\ CommandFits(c)'
             /\ \A d \in Runners : d # c => runners'[d] = runners[d]
  <2>1. PICK x \in Campaigner :
                    /\ runners' = [runners EXCEPT ![c] = x]
                    /\ x.id \in 1..clock \/ x.pc = "idle"
                    /\ x.objective # 0 => <<x.id, x.objective>> \in recorded'
                    /\ x.pc \in {"idle", "bind"}
                    /\ x.pc = "bind" => x.objective # 0 \/ <<x.id, x.objective>> \in recorded'
                    /\ x.pc = "bind" => Hides(x.id, x.baseline)
    BY <1>4, <1>5
  <2>2. x.pc = "bind" => x.objective # 0
    <3>1. <<x.id, x.objective>> \in recorded' => <<x.id, x.objective>>[2] # 0 BY <1>5
    <3>2. QED BY <2>1, <3>1
  <2>3. /\ runners' \in [Runners -> Campaigner] /\ runners'[c] = x /\ \A d \in Runners : d # c => runners'[d] = runners[d]
    BY <2>1 DEF CampaignTyped
  <2>4. CommandFits(c)' BY <2>1, <2>2, <2>3, <1>3 DEF CommandFits, Knows, Hides
  <2>5. QED BY <2>3, <2>4
<1>6. \A r \in recorded : r[2] # 0 BY DEF CampaignFits, TableFits
<1>7. CASE death = "unread" \/ C!Known(runners[c].id)
  <2>1. UNCHANGED <<objectives, recorded, item>> BY <1>2, <1>7 DEF C!Submitted, C!server
  <2>2. /\ runners' \in [Runners -> Campaigner] /\ CommandFits(c)'
        /\ \A d \in Runners : d # c => runners'[d] = runners[d]
    BY <1>5, <1>6, <2>1 DEF CampaignTyped
  <2>3. \A k \in Nat : Saved(k)' = Saved(k) BY <1>3 DEF Saved
  <2>4. file' \in StateFiles /\ FileFits' /\ PassesFit'
    BY <1>3, <2>1 DEF CampaignTyped, CampaignFits, FileFits, PassesFit, Knows, Hides
  <2>5. \A k \in marked' : C!Known(k) BY <1>3 DEF CampaignFits, KeysFit
  <2>6. QED BY <1>3, <2>1, <2>2, <2>3, <2>4, <2>5, Elsewhere
<1>8. CASE death # "unread" /\ ~C!Known(runners[c].id)
  <2>1. PICK cut \in Cuts :
          /\ C!Created(runners[c].id, cut)
          /\ recorded' = IF cut = "created" THEN recorded
                         ELSE recorded \union {<<runners[c].id, Len(objectives) + 1>>}
    BY <1>2, <1>8 DEF C!Submitted, Cuts
  <2>2. Len(objectives) + 1 \in Nat /\ Len(objectives) + 1 # 0 BY DEF CampaignTyped
  <2>3. recorded' \subseteq Nat \X Nat /\ \A r \in recorded' : r[2] # 0
    BY <2>1, <2>2, <1>1, <1>6 DEF CampaignTyped
  <2>4. QED BY <1>1, <1>3, <1>5, <1>8, <2>1, <2>3, Creates
<1>9. QED BY <1>7, <1>8

\* A poll decides.
LEMMA Judges ==
    ASSUME CampaignTyped, CampaignFits, NEW c \in Runners, C!Judge(c)
    PROVE  CampaignTyped' /\ CampaignFits'
<1>1. /\ runners[c].pc = "judge" /\ runners[c] \in Campaigner /\ CommandFits(c)
      /\ runners[c].id \in 1..clock /\ runners[c].objective # 0
      /\ Hides(runners[c].id, runners[c].baseline) /\ Knows(runners[c].id, runners[c].objective)
  BY CommandTyped DEF C!Judge, CommandFits
<1>2. PICK expired \in BOOLEAN :
        LET result == IF C!Verdict(c) = "again" /\ expired THEN C!Expired(c) ELSE C!Verdict(c)
        IN  /\ runners' = [runners EXCEPT ![c].pc = IF result = "again" THEN "look" ELSE "mark"]
            /\ closing' = IF result = "again" THEN closing
                 ELSE closing \union {[id |-> runners[c].id, result |-> result, expired |-> (C!Verdict(c) = "again"),
                                       merged |-> (\E o \in C!Seen(c, "pr") : item[o].pr = "merged"),
                                       terminal |-> (\A m \in runners[c].missions : m[2] \in {"proven", "lost"}),
                                       pulls |-> {o \in C!Seen(c, "pr") : item[o].pr \in {"draft", "open"}}]}
  BY DEF C!Judge
<1>3. UNCHANGED <<objectives, recorded, item, file, clock, origin, marked, abandoned>>
  BY DEF C!Judge, C!server
<1> DEFINE result == IF C!Verdict(c) = "again" /\ expired THEN C!Expired(c) ELSE C!Verdict(c)
           pulls == {o \in C!Seen(c, "pr") : item[o].pr \in {"draft", "open"}}
           merged == \E o \in C!Seen(c, "pr") : item[o].pr = "merged"
           terminal == \A m \in runners[c].missions : m[2] \in {"proven", "lost"}
           d == [id |-> runners[c].id, result |-> result, expired |-> (C!Verdict(c) = "again"),
                 merged |-> merged, terminal |-> terminal, pulls |-> pulls]
           pc == IF result = "again" THEN "look" ELSE "mark"
<1>4. runners' = [runners EXCEPT ![c].pc = pc] /\ closing' \in {closing, closing \union {d}} BY <1>2
<1>5. \A o \in pulls : <<o, "pr">> \notin origin[runners[c].id]
  BY <1>1 DEF C!Seen, Hides
<1>6. C!State(c, {"merged"}) = merged /\ (C!Accepted(c) <=> pulls # {})
  BY DEF C!State, C!Accepted
<1>7. C!MissionsTerminal(c) => terminal BY DEF C!MissionsTerminal
<1>8. result = "passed" => pulls # {} /\ ~merged /\ (terminal \/ C!Verdict(c) = "again")
  <2>1. C!Verdict(c) \in {"passed", "again"} => ~C!State(c, {"merged"})
    BY DEF C!Verdict, C!State
  <2>2. C!Verdict(c) = "passed" => C!Accepted(c) /\ C!MissionsTerminal(c) BY DEF C!Verdict
  <2>3. C!Expired(c) = "passed" => C!Accepted(c) BY DEF C!Expired
  <2>4. QED BY <2>1, <2>2, <2>3, <1>6, <1>7
<1> HIDE DEF result, pulls, merged, terminal
<1>9. /\ d.id = runners[c].id /\ d.result = result /\ d.expired = (C!Verdict(c) = "again")
      /\ d.merged = merged /\ d.terminal = terminal /\ d.pulls = pulls
  OBVIOUS
<1> HIDE DEF d
<1>10. PassesFit'
  <2>1. \A e \in closing' : e \in closing \/ e = d BY <1>4
  <2>2. QED BY <2>1, <1>1, <1>3, <1>5, <1>8, <1>9 DEF CampaignFits, PassesFit
<1> DEFINE x == [runners[c] EXCEPT !.pc = pc]
<1>11. pc \in {"look", "mark"} OBVIOUS
<1> HIDE DEF pc
<1>12. /\ x \in Campaigner /\ x.pc = pc /\ x.id = runners[c].id /\ x.objective = runners[c].objective
       /\ x.baseline = runners[c].baseline
  BY <1>1, <1>11 DEF Campaigner, Asked
<1>13. runners' = [runners EXCEPT ![c] = x] BY <1>4 DEF CampaignTyped
<1> HIDE DEF x
<1>14. QED BY <1>1, <1>3, <1>10, <1>11, <1>12, <1>13, OneGoesOn

\* A command starts, and its campaign with it unless one is pending.
LEMMA Starts ==
    ASSUME CampaignTyped, CampaignFits, NEW c \in Runners, C!Start(c)
    PROVE  CampaignTyped' /\ CampaignFits'
<1> DEFINE x == IF file.status = "pending"
                THEN [C!Idle EXCEPT !.pc = "ready", !.id = file.id, !.objective = file.objective,
                                    !.baseline = file.baseline]
                ELSE [C!Idle EXCEPT !.pc = "ready", !.id = clock + 1, !.fresh = TRUE]
<1>1. /\ clock' = clock + 1 /\ origin' = Append(origin, C!Existing)
      /\ runners' = [runners EXCEPT ![c] = x]
      /\ UNCHANGED <<objectives, recorded, item, file, marked, abandoned, closing>>
  BY DEF C!Start, C!server
<1>2. /\ file \in StateFiles /\ FileFits /\ clock \in Nat /\ origin \in Seq(SUBSET Things)
      /\ Len(origin) = clock /\ runners \in [Runners -> Campaigner]
  BY DEF CampaignTyped, CampaignFits
<1>3. C!Existing \in SUBSET Things BY ExistingTyped
<1>4. /\ origin' \in Seq(SUBSET Things) /\ Len(origin') = clock' /\ clock' \in Nat
      /\ origin'[clock'] = C!Existing /\ \A i \in 1..clock : origin'[i] = origin[i] /\ i \in 1..clock'
      /\ \A i \in 1..clock' : i \in 1..clock \/ i = clock'
  BY <1>1, <1>2, <1>3
<1>5. x \in Campaigner /\ x.pc = "ready"
      /\ IF file.status = "pending"
         THEN x.id = file.id /\ x.objective = file.objective /\ x.baseline = file.baseline
         ELSE x.id = clock' /\ x.objective = 0 /\ x.fresh
  <2>1. CASE file.status = "pending"
    <3>1. /\ file.id \in Nat /\ file.objective \in Nat /\ file.baseline \in SUBSET Things
      BY <1>2 DEF StateFiles
    <3>2. QED BY <2>1, <3>1 DEF C!Idle, C!None, Campaigner, Asked
  <2>2. CASE file.status # "pending"
    <3>1. clock + 1 \in Nat /\ clock' = clock + 1 BY <1>1, <1>2
    <3> DEFINE y == [C!Idle EXCEPT !.pc = "ready", !.id = clock + 1, !.fresh = TRUE]
    <3>2. y \in Campaigner /\ y.pc = "ready" /\ y.id = clock + 1 /\ y.objective = 0 /\ y.fresh
      BY <3>1 DEF C!Idle, C!None, Campaigner, Asked
    <3>3. x = y BY <2>2
    <3> HIDE DEF x, y
    <3>4. QED BY <2>2, <3>1, <3>2, <3>3
  <2>3. QED BY <2>1, <2>2
<1> HIDE DEF x
<1>6. runners' \in [Runners -> Campaigner] /\ runners'[c] = x /\ \A d \in Runners : d # c => runners'[d] = runners[d]
  BY <1>1, <1>2, <1>5
<1>7. CampaignTyped' BY <1>1, <1>2, <1>4, <1>6 DEF CampaignTyped
<1>8. C!Existing' = C!Existing BY <1>1 DEF C!Existing
<1>9. OriginsFit' BY <1>4, <1>8 DEF CampaignFits, OriginsFit
<1>10. TableFits' /\ KeysFit'
  BY <1>1 DEF CampaignFits, TableFits, KeysFit, Saved, C!Known
<1>11. FileFits' BY <1>1, <1>2, <1>4 DEF FileFits, Knows, Hides
<1>12. ASSUME NEW d \in Runners PROVE CommandFits(d)'
  <2>1. CASE d = c
    <3>0. clock' \in 1..clock' BY <1>1, <1>2
    <3>1. x.id \in 1..clock' BY <3>0, <1>2, <1>4, <1>5 DEF FileFits, Hides
    <3>2. ~x.fresh => file.status = "pending" BY <1>5
    <3>3. ~x.fresh => x.id \in 1..clock' /\ origin'[x.id] \subseteq x.baseline
      BY <3>1, <3>2, <1>2, <1>4, <1>5 DEF FileFits, Hides
    <3>4. x.objective # 0 => <<x.id, x.objective>> \in recorded'
      BY <1>1, <1>2, <1>5 DEF FileFits, Knows
    <3>5. QED BY <2>1, <1>5, <1>6, <3>1, <3>3, <3>4 DEF CommandFits, Knows, Hides
  <2>2. CASE d # c
    <3>1. runners'[d] = runners[d] /\ CommandFits(d) BY <2>2, <1>6 DEF CampaignFits
    <3>2. QED BY <3>1, <1>1, <1>4 DEF CommandFits, Knows, Hides, Saved
  <2>3. QED BY <2>1, <2>2
<1>13. PassesFit' BY <1>1, <1>4 DEF CampaignFits, PassesFit
<1>14. QED BY <1>7, <1>9, <1>10, <1>11, <1>12, <1>13 DEF CampaignFits

LEMMA CampaignNext ==
    ASSUME CampaignTyped, CampaignFits, [C!Next]_(C!vars) PROVE CampaignTyped' /\ CampaignFits'
<1>1. CASE UNCHANGED C!vars
  BY <1>1 DEF C!vars, C!server, C!past, CampaignTyped, CampaignFits, TableFits, KeysFit, CommandFits, FileFits,
     OriginsFit, PassesFit, Knows, Hides, Saved, C!Known, C!Existing
<1>2. CASE C!Pause \/ C!Resume
  <2>1. UNCHANGED <<objectives, recorded, item, file, runners, clock, origin, marked, abandoned, closing>>
    BY <1>2 DEF C!Pause, C!Resume, C!past
  <2>2. QED
    BY <2>1 DEF CampaignTyped, CampaignFits, TableFits, KeysFit, CommandFits, FileFits,
       OriginsFit, PassesFit, Knows, Hides, Saved, C!Known, C!Existing
<1>3. ASSUME NEW o \in 1..Len(objectives), C!Work(o) \/ C!Ask(o) \/ C!Answer(o)
      PROVE  CampaignTyped' /\ CampaignFits'
  <2>1. item[o] \in Items BY DEF CampaignTyped
  <2>2. UNCHANGED <<objectives, recorded, file, runners, clock, origin, marked, abandoned, closing>>
    BY <1>3 DEF C!Work, C!Ask, C!Answer, C!past
  <2>3. ASSUME NEW n \in Items, item' = [item EXCEPT ![o] = n],
               \A k \in C!Kinds : item[o][k] # "none" => n[k] # "none"
        PROVE  CampaignTyped' /\ CampaignFits'
    BY <2>2, <2>3, Works
  <2>4. CASE C!Work(o)
    <3> DEFINE ms == CASE item[o].missions = "none" -> {"working"}
                       [] item[o].missions = "working" -> {"proving", "lost"}
                       [] item[o].missions = "proving" -> {"proven"}
                       [] OTHER -> {}
               ps == CASE item[o].pr = "none" /\ item[o].missions # "none" -> {"draft"}
                       [] item[o].pr = "draft" -> {"open", "closed"}
                       [] item[o].pr = "open" -> {"merged"}
                       [] OTHER -> {}
    <3>m. ms \subseteq {"working", "proving", "lost", "proven"} OBVIOUS
    <3>p. ps \subseteq {"draft", "open", "closed", "merged"} OBVIOUS
    <3>n. \E n \in {[item[o] EXCEPT !.missions = m] : m \in ms} \union {[item[o] EXCEPT !.pr = p] : p \in ps} :
             item' = [item EXCEPT ![o] = n]
      BY <2>4 DEF C!Work
    <3> HIDE DEF ms, ps
    <3>1. PICK n : /\ item' = [item EXCEPT ![o] = n]
                   /\ \/ \E m \in ms : n = [item[o] EXCEPT !.missions = m]
                      \/ \E p \in ps : n = [item[o] EXCEPT !.pr = p]
      BY <3>n
    <3>2. n \in Items /\ \A k \in C!Kinds : item[o][k] # "none" => n[k] # "none"
      BY <3>1, <3>m, <3>p, <2>1 DEF Items, MissionStates, C!Kinds
    <3>3. QED BY <3>1, <3>2, <2>3
  <2>5. CASE C!Ask(o) \/ C!Answer(o)
    <3>1. PICK s \in {"open", "answered"} : item' = [item EXCEPT ![o].ask = s]
      BY <2>5 DEF C!Ask, C!Answer
    <3> DEFINE n == [item[o] EXCEPT !.ask = s]
    <3>2. n \in Items /\ \A k \in C!Kinds : item[o][k] # "none" => n[k] # "none"
      BY <2>1 DEF Items, MissionStates, C!Kinds
    <3>3. item' = [item EXCEPT ![o] = n] BY <3>1 DEF CampaignTyped
    <3> HIDE DEF n
    <3>4. QED BY <3>2, <3>3, <2>3
  <2>6. QED BY <1>3, <2>4, <2>5
<1>p. ASSUME UNCHANGED closing, UNCHANGED <<clock, origin>> PROVE PassesFit'
  BY <1>p DEF CampaignFits, PassesFit
<1>4. ASSUME NEW c \in Runners, C!Start(c) PROVE CampaignTyped' /\ CampaignFits' BY <1>4, Starts
<1>5. ASSUME NEW c \in Runners, C!Refuse(c) \/ C!Crash(c) PROVE CampaignTyped' /\ CampaignFits'
  <2>1. /\ runners' = [runners EXCEPT ![c] = C!Idle]
        /\ UNCHANGED <<objectives, recorded, item, clock, origin, file, marked, abandoned, closing>>
    BY <1>5 DEF C!Refuse, C!Crash, C!Quiet, C!server, C!past
  <2>2. QED BY <2>1, <1>p, IdleFits, OneGoesOn
<1>6. ASSUME NEW c \in Runners, C!CollectBaseline(c) PROVE CampaignTyped' /\ CampaignFits'
  <2> DEFINE b == IF runners[c].fresh THEN C!Existing ELSE runners[c].baseline
             pc == IF runners[c].objective = 0 THEN "save" ELSE "look"
             x == [runners[c] EXCEPT !.baseline = b, !.pc = pc]
  <2>1. /\ runners[c].pc = "ready" /\ runners[c] \in Campaigner /\ CommandFits(c)
        /\ UNCHANGED <<objectives, recorded, item, clock, origin, file, marked, abandoned, closing>>
    BY <1>6, CommandTyped DEF C!CollectBaseline, C!Quiet, C!server, C!past
  <2>2. runners' = [runners EXCEPT ![c] = x] BY <1>6 DEF C!CollectBaseline, C!None, CampaignTyped
  <2>3. b \subseteq Things BY <2>1, ExistingTyped, CommandTyped
  <2>4. Hides(runners[c].id, b) BY <2>1 DEF CommandFits, Hides, CampaignFits, OriginsFit
  <2>5. pc \in {"save", "look"} /\ (pc = "look" => runners[c].objective # 0) OBVIOUS
  <2> HIDE DEF b, pc
  <2>6. /\ x \in Campaigner /\ x.pc = pc /\ x.id = runners[c].id /\ x.objective = runners[c].objective
        /\ x.baseline = b
    BY <2>1, <2>3, <2>5 DEF Campaigner, Asked
  <2> HIDE DEF x
  <2>7. QED BY <2>1, <2>2, <2>4, <2>5, <2>6, <1>p, OneGoesOn DEF CommandFits
<1>7. ASSUME NEW c \in Runners, C!Save(c) \/ C!Bind(c) PROVE CampaignTyped' /\ CampaignFits'
  <2>1. UNCHANGED <<objectives, recorded, item, clock, origin, marked, closing>> /\ C!SavedPending(c)
    BY <1>7 DEF C!Save, C!Bind, C!server
  <2>2. CASE C!Save(c) BY <2>1, <2>2, Saves DEF C!Save
  <2>3. CASE C!Bind(c) BY <2>1, <2>3, Saves DEF C!Bind
  <2>4. QED BY <1>7, <2>2, <2>3
<1>8. ASSUME NEW c \in Runners, C!Post(c) PROVE CampaignTyped' /\ CampaignFits' BY <1>8, Posts
<1>9. ASSUME NEW c \in Runners, C!Look(c) PROVE CampaignTyped' /\ CampaignFits'
  <2> DEFINE ms == {<<o, item[o].missions>> : o \in C!Seen(c, "missions")}
             x == [runners[c] EXCEPT !.pc = "judge", !.missions = ms]
  <2>1. /\ runners[c].pc = "look" /\ runners[c] \in Campaigner /\ CommandFits(c)
        /\ UNCHANGED <<objectives, recorded, item, clock, origin, file, marked, abandoned, closing>>
    BY <1>9, CommandTyped DEF C!Look, C!Quiet, C!server, C!past
  <2>2. runners' = [runners EXCEPT ![c] = x] BY <1>9 DEF C!Look, CampaignTyped
  <2>3. ms \subseteq Nat \X MissionStates
    <3>1. ASSUME NEW o \in C!Seen(c, "missions")
          PROVE  o \in Nat /\ item[o].missions \in MissionStates
      <4>1. o \in 1..Len(objectives) BY DEF C!Seen
      <4>2. o \in Nat /\ item[o] \in Items BY <4>1 DEF CampaignTyped
      <4>3. QED BY <4>2 DEF Items
    <3>2. QED BY <3>1
  <2> HIDE DEF ms
  <2>4. /\ x \in Campaigner /\ x.pc = "judge" /\ x.id = runners[c].id /\ x.objective = runners[c].objective
        /\ x.baseline = runners[c].baseline
    BY <2>1, <2>3 DEF Campaigner, Asked
  <2> HIDE DEF x
  <2>5. QED BY <2>1, <2>2, <2>4, <1>p, OneGoesOn DEF CommandFits
<1>10. ASSUME NEW c \in Runners, C!Judge(c) PROVE CampaignTyped' /\ CampaignFits' BY <1>10, Judges
<1>11. ASSUME NEW c \in Runners, C!Mark(c) PROVE CampaignTyped' /\ CampaignFits'
  <2>1. /\ runners[c].pc = "mark" /\ runners[c] \in Campaigner /\ CommandFits(c)
        /\ UNCHANGED <<objectives, recorded, item, clock, origin, abandoned, closing>>
        /\ file' = IF file.id = runners[c].id THEN [file EXCEPT !.status = "terminal"] ELSE file
        /\ marked' = IF file.id = runners[c].id THEN marked \union {file.id} ELSE marked
        /\ runners' = [runners EXCEPT ![c] = C!Idle]
    BY <1>11, CommandTyped DEF C!Mark, C!server
  <2>2. file \in StateFiles /\ FileFits BY DEF CampaignTyped, CampaignFits
  <2>3. /\ file' \in StateFiles /\ file'.id = file.id /\ file'.objective = file.objective
        /\ file'.baseline = file.baseline
        /\ file'.status = IF file.id = runners[c].id THEN "terminal" ELSE file.status
    BY <2>1, <2>2 DEF StateFiles
  <2>4. FileFits' BY <2>1, <2>2, <2>3 DEF FileFits, Knows, Hides
  <2>5. \A k \in Nat : Saved(k) => Saved(k)' BY <2>1, <2>3 DEF Saved
  <2>6. C!Known(runners[c].id) BY <2>1 DEF CommandFits, Knows, C!Known
  <2>7. \A k \in marked' : C!Known(k) BY <2>1, <2>6 DEF CampaignFits, KeysFit
  <2>8. runners' \in [Runners -> Campaigner] /\ runners'[c] = C!Idle /\ \A d \in Runners : d # c => runners'[d] = runners[d]
    BY <2>1, IdleFits DEF CampaignTyped
  <2>9. CommandFits(c)' BY <2>8, IdleFits DEF CommandFits, Knows, C!Idle, C!None
  <2>10. QED BY <2>1, <2>3, <2>4, <2>5, <2>7, <2>8, <2>9, <1>p, Elsewhere
<1>12. QED
  BY <1>1, <1>2, <1>3, <1>4, <1>5, <1>6, <1>7, <1>8, <1>9, <1>10, <1>11 DEF C!Next

LEMMA CampaignServes == ASSUME CampaignTyped, CampaignFits PROVE C!RerunsResume /\ C!PassedIsEarned
<1>1. C!AwaitedIsPlanned
  <2>1. file.objective # 0 => <<file.id, file.objective>> \in recorded
    BY DEF CampaignFits, FileFits, Knows
  <2>2. <<file.id, file.objective>>[2] = file.objective OBVIOUS
  <2>3. QED BY <2>1, <2>2 DEF C!AwaitedIsPlanned, C!None, CampaignFits, TableFits
<1>2. QED BY <1>1 DEF C!RerunsResume, C!PassedIsEarned, CampaignFits, KeysFit, PassesFit

\* A campaign that is started again resumes the objective it submitted, waits for what is
\* planned, and passes on a pull request of its own, for any commands and any work.
THEOREM CampaignsAreHonest == ToolsSpec => []CampaignIsHonest
<1> DEFINE Invariant == part = "campaign" => CampaignTyped /\ CampaignFits
<1>1. ToolsInit => Invariant BY PartsStart, CampaignInit
<1>2. Invariant /\ [ToolsNext]_toolsVars => Invariant' BY PartsMove, CampaignNext
<1>3. Invariant => CampaignIsHonest BY CampaignServes DEF CampaignIsHonest, C!CampaignIsHonest
<1> HIDE DEF Invariant
<1>4. QED BY <1>1, <1>2, <1>3, PTL DEF ToolsSpec

=============================================================================
