--------------------------- MODULE ReasoningEvents ---------------------------
(***************************************************************************)
(* Reasoning events beside the traces: the hooks of the kernel and policy  *)
(* layers (integration.rs), which make a trace, finalize it and emit one   *)
(* event about it, and the protocol handlers (a2a_protocol.rs), each with  *)
(* an event log behind a mutex.                                            *)
(*                                                                         *)
(* Several tasks call the hooks of one layer.  An event is built, with the *)
(* time, before the handler's log is locked, so others may push theirs in  *)
(* between.                                                                *)
(***************************************************************************)
EXTENDS ReasoningTrace

CONSTANTS Tasks,
          MaxEvents   \* bound of the model: events built

ASSUME EventsAssumption == MaxEvents \in Nat

VARIABLES
  log,       \* event_log of the handler of each layer
  pending,   \* the event a task has built and not yet pushed
  built      \* history: the events built, an event's timestamp is its place

vars == <<digests, hand, traces, log, pending, built>>

Layers == {"L1", "L3"}
AgentOf == [L1 |-> "kernel_001", L3 |-> "policy_001"]

\* The types of which events are emitted, and the stream each goes to.  Mutant:
\* the stream is named after the type.
Types == {"TraceStart", "Step", "TraceComplete", "Challenge", "Composition"}
PartitionOfType(type, agent) == type
Partition(type, agent) ==
  CASE type \in {"TraceStart", "TraceComplete"} -> agent
    [] type = "Step" -> "queries"
    [] type = "Challenge" -> "challenges"
    [] type = "Composition" -> "compositions"

Event ==
  [type : Types, partition : {"kernel_001", "policy_001", "queries",
                              "challenges", "compositions"},
   trace_id : Ids, timestamp : Nat]
Built == [task : Tasks, layer : Layers, event : Event]
NoEvent == [type |-> "none"]

Init ==
  /\ TraceInit
  /\ log = [l \in Layers |-> <<>>]
  /\ pending = [t \in Tasks |-> NoEvent]
  /\ built = <<>>

-----------------------------------------------------------------------------
(* The hooks: the layer, the steps of the trace they make, and the event   *)
(* they emit about it.                                                     *)

OnKernelAppend == [layer |-> "L1", steps |-> 1, type |-> "TraceStart"]
OnKernelCommit == [layer |-> "L1", steps |-> 1, type |-> "TraceComplete"]
OnKernelRotate == [layer |-> "L1", steps |-> 2, type |-> "TraceComplete"]
OnPolicyAuthorize == [layer |-> "L3", steps |-> 3, type |-> "TraceStart"]
OnPolicyAnomaly == [layer |-> "L3", steps |-> 2, type |-> "TraceComplete"]

Hooks ==
  {OnKernelAppend, OnKernelCommit, OnKernelRotate,
   OnPolicyAuthorize, OnPolicyAnomaly}

\* A task builds an event for the handler of layer l.
BuildEvent(t, l, type, id) ==
  LET e == [type |-> type, partition |-> Partition(type, AgentOf[l]),
            trace_id |-> id, timestamp |-> Len(built) + 1]
      b == [task |-> t, layer |-> l, event |-> e]
  IN  /\ pending[t] = NoEvent
      /\ Len(built) < MaxEvents
      /\ pending' = [pending EXCEPT ![t] = b]
      /\ built' = Append(built, b)

\* A hook makes its trace, finalizes it and builds the event; the trace is
\* stored nowhere.
CallHook(t, hook) ==
  LET h == [content |-> [agent |-> AgentOf[hook.layer], steps |-> hook.steps,
                         relations |-> <<>>], signed |-> FALSE]
  IN  /\ Blake3(h) <= MaxIds
      /\ digests' = Learn(h)
      /\ BuildEvent(t, hook.layer, hook.type, Blake3(h))
      /\ UNCHANGED <<hand, traces, log>>

\* emit_step, emit_challenge and emit_composition, about any trace whose id
\* is known.
EmitOther(t, l) ==
  /\ \E type \in {"Step", "Challenge", "Composition"} :
       \E id \in 1 .. Len(digests) : BuildEvent(t, l, type, id)
  /\ UNCHANGED <<digests, hand, traces, log>>

\* Mutant: an event is dropped when another one is on its way to the log.
PushTry(t) ==
  /\ pending[t] # NoEvent
  /\ log' = IF \E u \in Tasks \ {t} : pending[u] # NoEvent THEN log
            ELSE [log EXCEPT ![pending[t].layer] = Append(@, pending[t].event)]
  /\ pending' = [pending EXCEPT ![t] = NoEvent]
  /\ UNCHANGED <<digests, hand, traces, built>>

\* The handler's log is locked and the event pushed.
Push(t) ==
  /\ pending[t] # NoEvent
  /\ log' = [log EXCEPT ![pending[t].layer] = Append(@, pending[t].event)]
  /\ pending' = [pending EXCEPT ![t] = NoEvent]
  /\ UNCHANGED <<digests, hand, traces, built>>

Next ==
  \/ TraceStep /\ UNCHANGED <<log, pending, built>>
  \/ \E t \in Tasks :
       \/ \E hook \in Hooks : CallHook(t, hook)
       \/ \E l \in Layers : EmitOther(t, l)
       \/ Push(t)

Spec == Init /\ [][Next]_vars

-----------------------------------------------------------------------------
(* Properties *)

\* Each variable has its type.
TypeOK ==
  /\ TraceType
  /\ log \in [Layers -> Seq(Event)]
  /\ pending \in [Tasks -> Built \cup {NoEvent}]
  /\ built \in Seq(Built)

\* What one task emits to a handler is in its log, every event once and in the
\* order in which the task built them, but for the last when it has still to be
\* pushed: whatever the other tasks push in between (emit_*, the hooks).
BuiltBy(t, l) == {n \in DOMAIN built : built[n].task = t /\ built[n].layer = l}
LoggedBy(t, l) == {i \in DOMAIN log[l] : built[log[l][i].timestamp].task = t}
HeldBy(t, l) == {n \in BuiltBy(t, l) : pending[t] = built[n]}
EventsInOrder ==
  \A t \in Tasks : \A l \in Layers :
    /\ BuiltBy(t, l) = {log[l][i].timestamp : i \in LoggedBy(t, l)} \cup HeldBy(t, l)
    /\ \A i \in LoggedBy(t, l) : log[l][i] = built[log[l][i].timestamp].event
    /\ \A i, j \in LoggedBy(t, l) : i < j => log[l][i].timestamp < log[l][j].timestamp
    /\ \A i \in LoggedBy(t, l), n \in HeldBy(t, l) : log[l][i].timestamp < n
=============================================================================
