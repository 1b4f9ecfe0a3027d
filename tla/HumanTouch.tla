----------------------------- MODULE HumanTouch -----------------------------
(***************************************************************************)
(* The human-touch gateway (seb/human_touch/src) as main.rs composes it:   *)
(* agents send changes on a bounded channel, a spawned task takes them into*)
(* the review queue while it holds the queue's mutex, a reviewer types     *)
(* commands that wait for the mutex, a committer uses the gateway, and     *)
(* everything is written to the audit log, whose appends may fail.         *)
(*                                                                         *)
(* A change has an id, chosen by its sender, and a version: the number of  *)
(* its submission, which stands for its description, evidence and diff.    *)
(* The audit file knows the id only: origin remembers, beside each entry,  *)
(* which submission it was about.                                          *)
(***************************************************************************)
EXTENDS Naturals, Sequences, FiniteSets

CONSTANTS
  Ids,
  MaxPending,    \* --max-pending: capacity of channel and queue
  HostYields,    \* FALSE: main.rs.  TRUE: a host that interrupts
                 \* process_queue at its select and resumes it later
  MaxSends, MaxCommands, MaxRestarts   \* bounds of the model

ASSUME GatewayAssumption ==
  /\ MaxPending \in Nat \ {0}
  /\ HostYields \in BOOLEAN
  /\ MaxSends \in Nat /\ MaxCommands \in Nat /\ MaxRestarts \in Nat

VARIABLES
  channel,     \* tx -> rx
  changes,     \* the DashMap: the record of each id it holds
  processor,   \* the spawned task; it has the mutex while "running"
  reviewer,    \* the interactive loop: at its prompt, waiting for the mutex, out
  landed,      \* ids the gateway has made git commits for
  audit,       \* what read_entries returns
  tail,        \* does the audit file end in a newline, or inside an entry?
  sent, commands, restarts,   \* counters of the bounds
  origin,      \* history: what each entry of audit was about
  shown,       \* history: the version of each id last displayed (0: none)
  unlogged,    \* history: versions that arrived, or were lost, without an entry
  behind       \* history: versions whose latest entry is not in audit

vars == <<channel, changes, processor, reviewer, landed, audit, tail,
          sent, commands, restarts, origin, shown, unlogged, behind>>

Versions == 1 .. MaxSends
Change == [id : Ids, version : Versions]
Record == [status : {"pending", "approved", "rejected", "committed"},
           version : Versions]
Decisions == {"approve", "reject"}
Prompt == [stage |-> "prompt"]
Entry == [event : {"submitted", "approve", "reject", "commit"}, id : Ids]
Origin == [version : Versions, arrival : BOOLEAN]

Init ==
  /\ channel = <<>>
  /\ changes = <<>>
  /\ processor = "starting"
  /\ reviewer = Prompt
  /\ landed = {}
  /\ audit = <<>> /\ tail = "newline"
  /\ sent = 0 /\ commands = 0 /\ restarts = 0
  /\ origin = <<>>
  /\ shown = [id \in Ids |-> 0]
  /\ unlogged = {} /\ behind = {}

-----------------------------------------------------------------------------
(* The audit log *)

\* append_entry returns Ok only for "ok".  "no_write": the file did not open,
\* or nothing was written; "torn": part of the line was; "unsynced": all of
\* it, but sync_all failed.
Outcomes == {"ok", "no_write", "torn", "unsynced"}

\* A line written after a fragment becomes part of it: read_entries skips both.
\* (arrival: the change comes out of the channel.)
AppendEntry(event, change, arrival, outcome) ==
  LET written == outcome \in {"ok", "unsynced"}
      readable == written /\ tail = "newline"
      lost == IF readable THEN {} ELSE {change.version}
  IN  /\ audit' = IF readable THEN Append(audit, [event |-> event, id |-> change.id])
                             ELSE audit
      /\ origin' = IF readable
                     THEN Append(origin, [version |-> change.version,
                                          arrival |-> arrival])
                     ELSE origin
      /\ unlogged' = IF arrival THEN unlogged \cup lost ELSE unlogged
      /\ behind' = (behind \ {change.version}) \cup lost
      /\ tail' = IF written THEN "newline"
                 ELSE IF outcome = "torn" THEN "fragment" ELSE tail

-----------------------------------------------------------------------------
(* Agents and the spawned task *)

\* Mutant: an unbounded channel.
SendUnbounded(id) ==
  /\ sent < MaxSends
  /\ sent' = sent + 1
  /\ channel' = Append(channel, [id |-> id, version |-> sent + 1])
  /\ UNCHANGED <<changes, processor, reviewer, landed, audit, tail, commands,
                 restarts, origin, shown, unlogged, behind>>

\* A send waits while the channel is full.
Send(id) ==
  /\ sent < MaxSends
  /\ Len(channel) < MaxPending
  /\ sent' = sent + 1
  /\ channel' = Append(channel, [id |-> id, version |-> sent + 1])
  /\ UNCHANGED <<changes, processor, reviewer, landed, audit, tail, commands,
                 restarts, origin, shown, unlogged, behind>>

\* Mutant: the interactive loop holds the lock while it is at its prompt.
StartProcessorLast ==
  /\ reviewer.stage = "exited"
  /\ processor = "starting"
  /\ processor' = "running"
  /\ UNCHANGED <<channel, changes, reviewer, landed, audit, tail, sent,
                 commands, restarts, origin, shown, unlogged, behind>>

\* The task locks the queue and enters process_queue.
StartProcessor ==
  /\ processor = "starting"
  /\ processor' = "running"
  /\ UNCHANGED <<channel, changes, reviewer, landed, audit, tail, sent,
                 commands, restarts, origin, shown, unlogged, behind>>

\* handle_incoming_change counts every change it holds, the decided ones too.
QueueFull == Cardinality(DOMAIN changes) >= MaxPending

\* An error of the audit log ends process_queue, and with it the lock.
EndedUnless(outcome) == processor' = IF outcome = "ok" THEN "running" ELSE "ended"

\* Mutant: a new version keeps the status of the old one.
EnteredKeepsStatus(change) ==
  [id \in DOMAIN changes \cup {change.id} |->
     IF id # change.id THEN changes[id]
     ELSE [status |-> IF id \in DOMAIN changes THEN changes[id].status ELSE "pending",
           version |-> change.version]]

\* Mutant: the first change with an id stays.
EnteredOnce(change) ==
  [id \in DOMAIN changes \cup {change.id} |->
     IF id \in DOMAIN changes THEN changes[id]
     ELSE [status |-> "pending", version |-> change.version]]

\* A change with an id the queue holds replaces it, whatever its status.
Entered(change) ==
  [id \in DOMAIN changes \cup {change.id} |->
     IF id = change.id THEN [status |-> "pending", version |-> change.version]
                       ELSE changes[id]]

\* Mutant: a refusal is not logged.
RefuseUnlogged(change, outcome) ==
  UNCHANGED <<changes, shown, audit, tail, origin, unlogged, behind>>

\* log_rejection writes for a full queue what it writes for a reviewer.
Refuse(change, outcome) ==
  /\ AppendEntry("reject", change, TRUE, outcome)
  /\ UNCHANGED <<changes, shown>>

\* The change is displayed after it is logged.
Accept(change, outcome) ==
  /\ changes' = Entered(change)
  /\ AppendEntry("submitted", change, TRUE, outcome)
  /\ shown' = IF outcome = "ok" THEN [shown EXCEPT ![change.id] = change.version]
                                ELSE shown

HandleIncomingChange ==
  /\ processor = "running"
  /\ channel # <<>>
  /\ channel' = Tail(channel)
  /\ \E outcome \in Outcomes :
       /\ EndedUnless(outcome)
       /\ IF QueueFull THEN Refuse(Head(channel), outcome)
                       ELSE Accept(Head(channel), outcome)
  /\ UNCHANGED <<reviewer, landed, sent, commands, restarts>>

\* Mutant: the change recv was about to return goes to the end of the channel.
YieldRequeues ==
  /\ HostYields
  /\ processor = "running"
  /\ channel # <<>>
  /\ processor' = "starting"
  /\ channel' = Append(Tail(channel), Head(channel))
  /\ UNCHANGED <<changes, reviewer, landed, audit, tail, sent,
                 commands, restarts, origin, shown, unlogged, behind>>

\* A host other than main.rs drops process_queue between two changes, so that
\* others get at the queue, and calls it again.
Yield ==
  /\ HostYields
  /\ processor = "running"
  /\ processor' = "starting"
  /\ UNCHANGED <<channel, changes, reviewer, landed, audit, tail, sent,
                 commands, restarts, origin, shown, unlogged, behind>>

-----------------------------------------------------------------------------
(* The reviewer *)

\* A decision is typed, with what is on the screen then, and waits for the lock.
\* (`status' waits for it too; it only reads.)
TypeCommand(op, id) ==
  /\ reviewer = Prompt
  /\ commands < MaxCommands
  /\ commands' = commands + 1
  /\ reviewer' = [stage |-> "waiting", op |-> op, id |-> id, saw |-> shown[id]]
  /\ UNCHANGED <<channel, changes, processor, landed, audit, tail, sent,
                 restarts, origin, shown, unlogged, behind>>

Exit ==
  /\ reviewer = Prompt
  /\ reviewer' = [stage |-> "exited"]
  /\ UNCHANGED <<channel, changes, processor, landed, audit, tail, sent,
                 commands, restarts, origin, shown, unlogged, behind>>

Unlocked == processor # "running"

\* "Change not found".
NotFound ==
  /\ Unlocked
  /\ reviewer.stage = "waiting"
  /\ reviewer.id \notin DOMAIN changes
  /\ reviewer' = Prompt
  /\ UNCHANGED <<channel, changes, processor, landed, audit, tail, sent,
                 commands, restarts, origin, shown, unlogged, behind>>

\* The submission the queue holds under an id.
Current(id) == [id |-> id, version |-> changes[id].version]

StatusOf(op) == CASE op = "approve" -> "approved" [] op = "reject" -> "rejected"

\* approve_change, reject_change: whatever the status was, the new one is set
\* first, and stays when the audit log fails.
Decide ==
  /\ Unlocked
  /\ reviewer.stage = "waiting"
  /\ reviewer.id \in DOMAIN changes
  /\ changes' = [changes EXCEPT ![reviewer.id].status = StatusOf(reviewer.op)]
  /\ \E outcome \in Outcomes :
       AppendEntry(reviewer.op, Current(reviewer.id), FALSE, outcome)
  /\ reviewer' = Prompt
  /\ UNCHANGED <<channel, processor, landed, sent, commands, restarts, shown>>

-----------------------------------------------------------------------------
(* The committer *)

\* verify_approval_required, then commit_with_approval: for any non-empty id.
\* (Bound of the model: one commit for each id, marked once.)
Commit(id) ==
  /\ id \notin landed
  /\ landed' = landed \cup {id}
  /\ UNCHANGED <<channel, changes, processor, reviewer, audit, tail, sent,
                 commands, restarts, origin, shown, unlogged, behind>>

MarkCommitted(id) ==
  /\ Unlocked
  /\ id \in landed \cap DOMAIN changes
  /\ changes[id].status # "committed"
  /\ changes' = [changes EXCEPT ![id].status = "committed"]
  /\ \E outcome \in Outcomes :
       AppendEntry("commit", Current(id), FALSE, outcome)
  /\ UNCHANGED <<channel, processor, reviewer, landed, sent, commands, restarts, shown>>

\* The process is killed and started again: only the file and the git
\* repository are left.
Restart ==
  /\ restarts < MaxRestarts
  /\ restarts' = restarts + 1
  /\ channel' = <<>>
  /\ changes' = <<>>
  /\ processor' = "starting"
  /\ reviewer' = Prompt
  /\ unlogged' = unlogged \cup {channel[i].version : i \in 1 .. Len(channel)}
  /\ UNCHANGED <<landed, audit, tail, sent, commands, origin, shown, behind>>

Next ==
  \/ \E id \in Ids : Send(id) \/ Commit(id) \/ MarkCommitted(id)
  \/ StartProcessor \/ HandleIncomingChange \/ Yield
  \/ \E op \in Decisions, id \in Ids : TypeCommand(op, id)
  \/ Exit \/ NotFound \/ Decide \/ Restart

Spec == Init /\ [][Next]_vars

\* tokio runs a task that is ready, and its mutex is granted in turn.
FairSpec ==
  /\ Spec
  /\ WF_vars(StartProcessor)
  /\ WF_vars(HandleIncomingChange)
  /\ WF_vars(NotFound \/ Decide)

-----------------------------------------------------------------------------
(* Properties *)

Waiting == [stage : {"waiting"}, op : Decisions, id : Ids,
            saw : 0 .. MaxSends]

\* Type invariant.
TypeOK ==
  /\ channel \in Seq(Change) /\ Len(channel) <= MaxPending
  /\ DOMAIN changes \subseteq Ids /\ Cardinality(DOMAIN changes) <= MaxPending
  /\ changes \in [DOMAIN changes -> Record]
  /\ processor \in {"starting", "running", "ended"}
  /\ reviewer \in {Prompt, [stage |-> "exited"]} \cup Waiting
  /\ landed \subseteq Ids
  /\ audit \in Seq(Entry)
  /\ origin \in Seq(Origin) /\ Len(origin) = Len(audit)
  /\ tail \in {"newline", "fragment"}
  /\ sent \in 0 .. MaxSends
  /\ commands \in 0 .. MaxCommands /\ restarts \in 0 .. MaxRestarts
  /\ shown \in [Ids -> 0 .. MaxSends]
  /\ unlogged \subseteq Versions /\ behind \subseteq Versions

About(id) == {i \in 1 .. Len(audit) : audit[i].id = id}
StatusAfter(event) ==
  CASE event = "submitted" -> "pending"
    [] event = "approve" -> "approved"
    [] event = "reject" -> "rejected"
    [] event = "commit" -> "committed"

\* What the audit file, which knows ids only, says of a change the queue holds:
\* its status is that of the last entry with its id, except that submissions
\* refused for want of room since then have left CHANGE_REJECTED entries with
\* that id behind.  So it is through overwriting, decisions on decided changes,
\* commits and restarts, and after a failed append from the next entry about
\* the change on (approve_change, mark_committed, handle_incoming_change).
AuditExplainsStatus ==
  \A id \in DOMAIN changes :
    changes[id].version \notin behind =>
      \E i \in About(id) :
        /\ StatusAfter(audit[i].event) = changes[id].status
        /\ \A j \in About(id) :
              j > i => audit[j].event = "reject" /\ origin[j].arrival

\* No change disappears and none is handled twice: each one sent is still in
\* the channel, or its arrival has exactly one entry, or that entry's append
\* failed or a restart emptied the channel.
ArrivalsAccounted ==
  \A version \in 1 .. sent :
    LET queued == \E i \in 1 .. Len(channel) : channel[i].version = version
        logged == {i \in 1 .. Len(origin) :
                     origin[i].arrival /\ origin[i].version = version}
    IN  /\ Cardinality(logged) <= 1
        /\ queued => logged = {}
        /\ ~queued /\ version \notin unlogged => logged # {}

\* Changes are taken in the order they were sent, refused or not, across
\* interruptions of the task and restarts: the entry of an arrival comes after
\* earlier submissions' only, and nothing about a change is logged before it.
ArrivalsInOrder ==
  \A i, j \in 1 .. Len(origin) :
    i < j /\ origin[j].arrival => origin[i].version < origin[j].version

\* A decision that waits for the lock while changes come in may land on a later
\* submission with its id than the reviewer saw when typing it, but never on an
\* earlier one, across interruptions, restarts and failed appends
\* (approve_change takes what the map holds by then).
DecidedNotOlder ==
  reviewer.stage = "waiting" /\ reviewer.id \in DOMAIN changes =>
    reviewer.saw <= changes[reviewer.id].version

\* As long as the task runs, it gets to every change sent.
ArrivalsHandled ==
  \A version \in Versions :
    (\E i \in 1 .. Len(channel) : channel[i].version = version)
      ~> \/ ~ \E i \in 1 .. Len(channel) : channel[i].version = version
         \/ processor = "ended"

-----------------------------------------------------------------------------
(* A statement of the documentation that the code does not keep *)

\* "Concurrent operations: review queue processing, ..., interactive input":
\* a command typed while the task processes the queue is answered.
CommandsAnswered == (reviewer.stage = "waiting") ~> (reviewer.stage # "waiting")
=============================================================================
