---------------------------- MODULE LiveCampaign ----------------------------
(***************************************************************************)
(* The operator's live campaign (avity e2e live run): a command that       *)
(* submits one objective under an idempotency key, polls the public API    *)
(* until its evidence settles, keeping a state file so that a command       *)
(* started after a crash resumes the same campaign.  The control plane's   *)
(* POST of an objective is modelled beside it, with the crashes between    *)
(* its transactions and the project's pause.                               *)
(***************************************************************************)
EXTENDS Naturals, FiniteSets, Sequences

CONSTANTS
    Clis,       \* commands
    Instances   \* the bounds TLC explores together, one record per instance:
                \*   clis: the commands that may run at the same time
                \*   starts: commands started, crashes: commands killed,
                \*   outages: control-plane crashes, pauses: project pauses,
                \*   asks: interventions the work asks for, at most
                \*   work: the objectives the project makes progress on

None == 0
Kinds == {"missions", "pr", "ask"}

VARIABLES
    max,        \* the instance's bounds
    objectives, \* the project's objectives: [key, planned, cut]; cut says what kept
                \*   the handler from its end
    recorded,   \* the idempotency table: <<key, objective>>
    paused,     \* the project is paused
    item,       \* per objective: the state of its missions, pull request and intervention
    file,       \* the campaign state file: [status, id, objective, baseline]
    cli,        \* the commands
    clock,      \* commands started so far; a campaign's id is the clock at its creation
    spent,      \* [crashes, outages, pauses, asks]
    origin,     \* history: per command, what existed when it started
    marked,     \* history: the campaigns marked terminal
    abandoned,  \* history: the pending campaigns another command wrote over
    closing     \* history: the decisions of finished campaigns

server == <<objectives, recorded, paused, item>>
past == <<origin, marked, abandoned, closing>>
vars == <<max, server, file, cli, clock, spent, past>>

Idle == [pc |-> "idle", id |-> None, fresh |-> FALSE, objective |-> None, baseline |-> {},
         missions |-> {}, result |-> "none"]

NoFile == [status |-> "absent", id |-> None, objective |-> None, baseline |-> {}]

Init ==
    /\ max \in Instances
    /\ objectives = <<>> /\ recorded = {} /\ paused = FALSE /\ item = <<>>
    /\ file = NoFile
    /\ cli = [c \in Clis |-> Idle]
    /\ clock = 0
    /\ spent = [crashes |-> 0, outages |-> 0, pauses |-> 0, asks |-> 0]
    /\ origin = <<>> /\ marked = {} /\ abandoned = {} /\ closing = {}

----------------------------------------------------------------------------
(* The control plane.                                                      *)

NoWork == [missions |-> "none", pr |-> "none", ask |-> "none"]

Known(key) == \E r \in recorded : r[1] = key

\* createObjective: one transaction.
Created(key, cut) ==
    /\ objectives' = Append(objectives, [key |-> key, planned |-> cut = "none", cut |-> cut])
    /\ item' = Append(item, NoWork)
    /\ UNCHANGED paused

\* The handler of POST objectives up to the point where the process dies:
\* "unread" before anything, "created" after the objective's transaction,
\* "recorded" after the key's, "answered" before the response is read.  The
\* analysis that starts planning refuses a paused project, after both.
Submitted(key, death) ==
    IF death = "unread" \/ Known(key) THEN UNCHANGED server
    ELSE LET cut == IF death \in {"created", "recorded"} THEN death
                    ELSE IF paused THEN "paused" ELSE "none"
         IN  /\ Created(key, cut)
             /\ recorded' = IF cut = "created" THEN recorded
                            ELSE recorded \union {<<key, Len(objectives) + 1>>}

\* The project's work on a planned objective: its missions run until they are
\* terminal, "proven" once every scenario was observed; a pull request is
\* drafted, opened and merged or closed by a human; an approval may be asked for.
Work(o) ==
    /\ o \in max.work /\ ~paused /\ objectives[o].planned
    /\ LET was == item[o]
           next == {[was EXCEPT !.missions = m] :
                       m \in (CASE was.missions = "none" -> {"working"}
                                [] was.missions = "working" -> {"proving", "lost"}
                                [] was.missions = "proving" -> {"proven"}
                                [] OTHER -> {})}
                   \union {[was EXCEPT !.pr = s] :
                       s \in (CASE was.pr = "none" /\ was.missions # "none" -> {"draft"}
                                [] was.pr = "draft" -> {"open", "closed"}
                                [] was.pr = "open" -> {"merged"}
                                [] OTHER -> {})}
       IN  \E n \in next : item' = [item EXCEPT ![o] = n]
    /\ UNCHANGED <<max, objectives, recorded, paused, file, cli, clock, spent, past>>

Ask(o) ==
    /\ o \in max.work /\ ~paused /\ item[o].missions = "working" /\ item[o].ask = "none"
    /\ spent.asks < max.asks
    /\ spent' = [spent EXCEPT !.asks = @ + 1]
    /\ item' = [item EXCEPT ![o].ask = "open"]
    /\ UNCHANGED <<max, objectives, recorded, paused, file, cli, clock, past>>

Answer(o) ==
    /\ item[o].ask = "open"
    /\ item' = [item EXCEPT ![o].ask = "answered"]
    /\ UNCHANGED <<max, objectives, recorded, paused, file, cli, clock, spent, past>>

Pause ==
    /\ ~paused /\ spent.pauses < max.pauses
    /\ paused' = TRUE /\ spent' = [spent EXCEPT !.pauses = @ + 1]
    /\ UNCHANGED <<max, objectives, recorded, item, file, cli, clock, past>>

\* A resume continues the planning of a project paused while planning; an
\* objective submitted during the pause is not looked for.
Resume ==
    /\ paused /\ paused' = FALSE
    /\ UNCHANGED <<max, objectives, recorded, item, file, cli, clock, spent, past>>

----------------------------------------------------------------------------
\* Everything of the project that exists, and what of it a baseline does not hide.
Existing == {e \in (1..Len(objectives)) \X Kinds : item[e[1]][e[2]] # "none"}
Seen(c, k) == {o \in 1..Len(objectives) : <<o, k>> \in Existing \ cli[c].baseline}

----------------------------------------------------------------------------
(* runLiveCampaign                                                         *)

Quiet == UNCHANGED <<max, server, file, clock, spent, past>>

\* A command adopts the pending state, or draws a new campaign id.
Start(c) ==
    /\ c \in max.clis /\ cli[c].pc = "idle" /\ clock < max.starts
    /\ clock' = clock + 1
    /\ origin' = Append(origin, Existing)
    /\ cli' = [cli EXCEPT ![c] =
         IF file.status = "pending"
         THEN [Idle EXCEPT !.pc = "ready", !.id = file.id, !.objective = file.objective,
                           !.baseline = file.baseline]
         ELSE [Idle EXCEPT !.pc = "ready", !.id = clock + 1, !.fresh = TRUE]]
    /\ UNCHANGED <<max, server, file, spent, marked, abandoned, closing>>

\* Readiness is not met or the operator does not confirm: the command ends and
\* the state file stays as it is.
Refuse(c) ==
    /\ cli[c].pc \in {"ready", "save"}
    /\ cli' = [cli EXCEPT ![c] = Idle]
    /\ Quiet

\* A new campaign lists what exists already.
CollectBaseline(c) ==
    /\ cli[c].pc = "ready"
    /\ cli' = [cli EXCEPT ![c].baseline = IF cli[c].fresh THEN Existing ELSE @,
                          ![c].pc = IF cli[c].objective = None THEN "save" ELSE "look"]
    /\ Quiet

\* The command writes its campaign as pending, whatever the file holds.
SavedPending(c) ==
    /\ file' = [status |-> "pending", id |-> cli[c].id, objective |-> cli[c].objective,
                baseline |-> cli[c].baseline]
    /\ abandoned' = IF file.status = "pending" /\ file.id # cli[c].id
                    THEN abandoned \union {file.id} ELSE abandoned

\* Mutant: the state is saved only once the objective's id is known.
SaveLater(c) ==
    /\ cli[c].pc = "save"
    /\ cli' = [cli EXCEPT ![c].pc = "post"]
    /\ Quiet

\* The identity and the baseline are durable before the objective is submitted.
Save(c) ==
    /\ cli[c].pc = "save"
    /\ SavedPending(c)
    /\ cli' = [cli EXCEPT ![c].pc = "post"]
    /\ UNCHANGED <<max, server, clock, spent, origin, marked, closing>>

\* The request and its answer.  An error, a paused project's or a dead control
\* plane's, ends the command and leaves the pending state.
Post(c) ==
    /\ cli[c].pc = "post"
    /\ \E death \in {"none"} \union (IF spent.outages < max.outages
                                     THEN {"unread", "created", "recorded", "answered"} ELSE {}) :
        /\ Submitted(cli[c].id, death)
        /\ spent' = IF death = "none" THEN spent ELSE [spent EXCEPT !.outages = @ + 1]
        /\ IF death = "none" /\ (Known(cli[c].id) \/ ~paused)
           THEN \E r \in recorded' : r[1] = cli[c].id
                    /\ cli' = [cli EXCEPT ![c].pc = "bind", ![c].objective = r[2]]
           ELSE cli' = [cli EXCEPT ![c] = Idle]
    /\ UNCHANGED <<max, file, clock, past>>

Bind(c) ==
    /\ cli[c].pc = "bind"
    /\ SavedPending(c)
    /\ cli' = [cli EXCEPT ![c].pc = "look"]
    /\ UNCHANGED <<max, server, clock, spent, origin, marked, closing>>

----------------------------------------------------------------------------
(* Polling.  The lists of one snapshot are requested together and answered  *)
(* in any order: missions before pull requests here.                        *)

Look(c) ==
    /\ cli[c].pc = "look"
    /\ cli' = [cli EXCEPT ![c].pc = "judge",
                          ![c].missions = {<<o, item[o].missions>> : o \in Seen(c, "missions")}]
    /\ Quiet

State(c, s) == \E o \in Seen(c, "pr") : item[o].pr \in s
Accepted(c) == State(c, {"draft", "open"})
MissionsTerminal(c) == cli[c].missions # {} /\ \A m \in cli[c].missions : m[2] \in {"proven", "lost"}
Proven(c) == \E m \in cli[c].missions : m[2] \in {"proving", "proven"}
Interrupted(c) == \E o \in Seen(c, "ask") : item[o].ask = "open"

\* What one poll decides: the campaign's result, or "again".
Verdict(c) ==
    CASE State(c, {"merged"}) -> "failed"
      [] ~State(c, {"merged"}) /\ State(c, {"closed"}) -> "failed"
      [] ~State(c, {"merged", "closed"}) /\ Accepted(c) /\ MissionsTerminal(c) /\ Proven(c) -> "passed"
      [] ~State(c, {"merged", "closed"}) /\ ~(Accepted(c) /\ MissionsTerminal(c) /\ Proven(c))
            /\ Interrupted(c) -> "blocked"
      [] OTHER -> "again"

\* What the last poll allowed decides when no poll did.
Expired(c) == IF Accepted(c) THEN IF Proven(c) THEN "passed" ELSE "failed" ELSE "blocked"

Judge(c) ==
    /\ cli[c].pc = "judge"
    /\ \E expired \in BOOLEAN :
        LET result == IF Verdict(c) = "again" /\ expired THEN Expired(c) ELSE Verdict(c)
        IN  /\ cli' = [cli EXCEPT ![c].pc = IF result = "again" THEN "look" ELSE "mark"]
            /\ closing' = IF result = "again" THEN closing
                 ELSE closing \union {[id |-> cli[c].id, result |-> result, expired |-> Verdict(c) = "again",
                                       merged |-> \E o \in Seen(c, "pr") : item[o].pr = "merged",
                                       terminal |-> \A m \in cli[c].missions : m[2] \in {"proven", "lost"},
                                       pulls |-> {o \in Seen(c, "pr") : item[o].pr \in {"draft", "open"}}]}
    /\ UNCHANGED <<max, server, file, clock, spent, origin, marked, abandoned>>

\* The report is written, and the state file marked if it is still this
\* campaign's; otherwise the command throws.
Mark(c) ==
    /\ cli[c].pc = "mark"
    /\ file' = IF file.id = cli[c].id THEN [file EXCEPT !.status = "terminal"] ELSE file
    /\ marked' = IF file.id = cli[c].id THEN marked \union {file.id} ELSE marked
    /\ cli' = [cli EXCEPT ![c] = Idle]
    /\ UNCHANGED <<max, server, clock, spent, origin, abandoned, closing>>

\* A command killed at any point.
Crash(c) ==
    /\ cli[c].pc # "idle" /\ spent.crashes < max.crashes
    /\ spent' = [spent EXCEPT !.crashes = @ + 1]
    /\ cli' = [cli EXCEPT ![c] = Idle]
    /\ UNCHANGED <<max, server, file, clock, past>>

Next ==
    \/ \E o \in 1..Len(objectives) : Work(o) \/ Ask(o) \/ Answer(o)
    \/ Pause \/ Resume
    \/ \E c \in Clis :
        \/ Start(c) \/ Refuse(c) \/ CollectBaseline(c) \/ Save(c) \/ Post(c) \/ Bind(c)
        \/ Look(c) \/ Judge(c) \/ Mark(c) \/ Crash(c)

Spec == Init /\ [][Next]_vars

----------------------------------------------------------------------------
(* Properties                                                              *)

\* The objective a campaign waits for was handed to planning, unless it was
\* submitted to a paused project or the control plane died before the analysis:
\* the repeated request then answers with an objective nobody plans.
AwaitedIsPlanned ==
    file.objective # None =>
        LET o == objectives[file.objective] IN o.planned \/ o.cut \in {"recorded", "paused"}

\* A command started again resumes, and waits for what is planned: a second
\* objective is submitted only after the first one's campaign was marked
\* terminal, unless two commands that started side by side wrote over each
\* other's state; one key has two objectives only if the control plane died
\* between the objective's transaction and the key's.
RerunsResume ==
    /\ AwaitedIsPlanned
    /\ \A i, j \in 1..Len(objectives) : i < j =>
        IF objectives[i].key = objectives[j].key THEN objectives[i].cut = "created"
        ELSE objectives[i].key \in marked \/ {objectives[i].key, objectives[j].key} \cap abandoned # {}

\* A campaign passes on a pull request that did not exist when it started and is
\* not merged, with every mission it saw terminal unless its polls ran out.
PassedIsEarned ==
    \A d \in closing : d.result = "passed" =>
        /\ d.pulls # {} /\ ~d.merged
        /\ \A o \in d.pulls : <<o, "pr">> \notin origin[d.id]
        /\ d.terminal \/ d.expired

\* Both: what a command says and does is what its state file and GitHub bear out.
CampaignIsHonest == RerunsResume /\ PassedIsEarned

=============================================================================
