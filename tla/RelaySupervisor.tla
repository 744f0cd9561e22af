-------------------------- MODULE RelaySupervisor --------------------------
(***************************************************************************)
(* The FFmpeg processes of the server and who runs them:                   *)
(*   - the relays of a publication (src/src/server/relay.rs): one          *)
(*     supervisor task for each enabled target, which keeps an FFmpeg      *)
(*     process running and reconnects it after a backoff; the watch        *)
(*     channel that cancels them; and cancel_relays, by which the stream   *)
(*     actor stops them one after the other and waits at most five seconds *)
(*     for each;                                                           *)
(*   - the direct test (run_direct_test), one process for each enabled     *)
(*     target, one test at a time;                                         *)
(*   - the SRT listener (src/src/server/srt.rs), which accepts one client  *)
(*     after the other and bridges it into the local RTMP server.          *)
(* They share the semaphore FFMPEG_SLOTS, and relays and tests share the   *)
(* bitrates that metrics.rs keeps by the target's name.  Nothing makes the *)
(* names unique (validate_targets; AddTarget calls every one "New Target").*)
(*                                                                         *)
(* A task runs without interruption from one await to the next, and that   *)
(* is one action.  Durations, retry_seconds among them, are left out: a    *)
(* timer may fire at any moment after it was set.                          *)
(***************************************************************************)
EXTENDS Integers, Sequences, FiniteSets, Functions

CONSTANTS
  Relay,     \* bound: supervisor tasks alive at one time
  Target,    \* targets, the entries of the configured list
  Name,      \* names of targets
  NameOf,    \* per target: its name, which another target may have too
  Tested,    \* bound: the targets direct tests are run for
  Client,    \* SRT clients
  None,      \* no task, no client
  Test,      \* the direct test, as owner of a bitrate
  Slots      \* MAX_CONCURRENT_FFMPEG_PROCESSES

ASSUME RelayAssumption  == IsFiniteSet(Relay) /\ None \notin Relay /\ Test \notin Relay
ASSUME OthersAssumption == /\ IsFiniteSet(Target) /\ Target # {} /\ Tested \subseteq Target
                           /\ IsFiniteSet(Client) /\ None \notin Client
ASSUME NameAssumption == NameOf \in [Target -> Name]
ASSUME SlotsAssumption == Slots \in Nat \ {0}

VARIABLES
  pc,          \* per task: the await it is suspended in
  target,      \* per task: the target it feeds
  cancel,      \* per task: value of the watch channel
  unseen,      \* per task: the receiver has not seen the latest value
  closed,      \* per task: the sender has been dropped
  metrics,     \* per name: the task whose TargetBitrate is registered
  active,      \* active_relays: tasks of the current publication
  pending,     \* the relays cancel_relays has still to see off, in order
  running,     \* test_stream_running
  test,        \* per target: the await the direct test's task is in
  requests,    \* SRT connections the listener has not taken up, in order
  listener,    \* the accepted client for which the listener awaits a slot
  bridge,      \* per client: the await its session is in
  \* history
  detached,    \* tasks cancel_relays stopped waiting for
  spoiled,     \* names whose bitrate another task has or may yet take away
  lateStarts   \* per task: FFmpeg processes started after its cancellation

taskVars    == <<pc, target, cancel, unseen, closed>>
actorVars   == <<active, pending>>
testVars    == <<running, test>>
srtVars     == <<requests, listener, bridge>>
otherVars   == <<testVars, srtVars>>
historyVars == <<detached, spoiled, lateStarts>>
vars == <<taskVars, metrics, actorVars, otherVars, historyVars>>

Awaits       == {"done", "spawned", "slot", "running", "killing", "draining",
                 "backoff", "backoffWithSlot"}
TestAwaits   == {"done", "slot", "running", "draining"}
BridgeAwaits == {"done", "bridging", "closing"}

HasProcess(r) == pc[r] \in {"running", "killing"}

\* The name the supervisor registers and unregisters its bitrate by.
NameFed(r) == NameOf[target[r]]

\* Its bitrate has been registered and it has not ended.
Begun(r) == pc[r] \notin {"done", "spawned"}

\* The awaits in which a task holds a slot.
RelayHolds  == {"running", "killing", "draining", "backoffWithSlot"}
TestHolds   == {"running", "draining"}
BridgeHolds == {"bridging", "closing"}

FreeSlots ==
  Slots - Cardinality({r \in Relay : pc[r] \in RelayHolds})
        - Cardinality({t \in Target : test[t] \in TestHolds})
        - Cardinality({c \in Client : bridge[c] \in BridgeHolds})

\* Mutant: the value of the channel is not looked at.
CancelledIgnored(r) == FALSE

\* *cancel.borrow()
Cancelled(r) == cancel[r]

\* Mutant: the watch channel wakes nobody.
ChangedNever(r) == FALSE

\* cancel.changed() is ready: a value not seen yet, or no sender any more.
Changed(r) == unseen[r] \/ closed[r]

----------------------------------------------------------------------------
(* supervise_relay *)

\* Another supervisor counts on the bitrate of the same name.
SharesName(r) == \E s \in Relay \ {r} : Begun(s) /\ NameFed(s) = NameFed(r)

\* The supervisor leaves its loop and unregisters its name, whoever else has it.
\* Its receiver is dropped with it.
Stops(r) ==
  /\ pc' = [pc EXCEPT ![r] = "done"]
  /\ metrics' = [metrics EXCEPT ![NameFed(r)] = None]
  /\ cancel' = [cancel EXCEPT ![r] = FALSE]
  /\ unseen' = [unseen EXCEPT ![r] = FALSE]
  /\ closed' = [closed EXCEPT ![r] = FALSE]
  /\ detached' = detached \ {r}
  /\ lateStarts' = [lateStarts EXCEPT ![r] = 0]
  /\ spoiled' = IF SharesName(r) THEN spoiled \cup {NameFed(r)} ELSE spoiled

\* The task runs for the first time.
Begin(r) ==
  /\ pc[r] = "spawned"
  /\ IF Cancelled(r)
     THEN Stops(r)
     ELSE /\ pc' = [pc EXCEPT ![r] = "slot"]
          /\ metrics' = [metrics EXCEPT ![NameFed(r)] = r]
          /\ UNCHANGED <<cancel, unseen, closed, historyVars>>
  /\ UNCHANGED <<target, actorVars, otherVars>>

\* Mutant: FFmpeg starts without a slot.
StartUnlimited(r) ==
  /\ pc[r] = "slot"
  /\ pc' = [pc EXCEPT ![r] = "running"]
  /\ lateStarts' = [lateStarts EXCEPT ![r] = IF cancel[r] THEN @ + 1 ELSE @]
  /\ UNCHANGED <<target, cancel, unseen, closed, metrics, actorVars, otherVars,
                 detached, spoiled>>

\* A slot is free and FFmpeg starts; a cancellation since the head of the loop
\* goes unnoticed until it runs.
Start(r) ==
  /\ pc[r] = "slot"
  /\ FreeSlots > 0
  /\ pc' = [pc EXCEPT ![r] = "running"]
  /\ lateStarts' = [lateStarts EXCEPT ![r] = IF cancel[r] THEN @ + 1 ELSE @]
  /\ UNCHANGED <<target, cancel, unseen, closed, metrics, actorVars, otherVars,
                 detached, spoiled>>

\* wait_for_retry marks a pending cancellation as seen before it waits.
WaitForRetry(r, await) ==
  /\ pc' = [pc EXCEPT ![r] = await]
  /\ unseen' = [unseen EXCEPT ![r] = FALSE]

\* FFmpeg cannot be started: the backoff, with the slot still held.
StartFails(r) ==
  /\ pc[r] = "slot"
  /\ FreeSlots > 0
  /\ WaitForRetry(r, "backoffWithSlot")
  /\ UNCHANGED <<target, cancel, closed, metrics, actorVars, otherVars, historyVars>>

\* FFmpeg exits on its own; its output is drained with the slot still held.
Exits(r) ==
  /\ pc[r] = "running"
  /\ pc' = [pc EXCEPT ![r] = "draining"]
  /\ UNCHANGED <<target, cancel, unseen, closed, metrics, actorVars, otherVars, historyVars>>

\* The slot is released before the backoff.
Drained(r) ==
  /\ pc[r] = "draining"
  /\ WaitForRetry(r, "backoff")
  /\ UNCHANGED <<target, cancel, closed, metrics, actorVars, otherVars, historyVars>>

\* Mutant: the bitrate is unregistered before FFmpeg is dead.
KillUnregisters(r) ==
  /\ pc[r] = "running"
  /\ Changed(r)
  /\ pc' = [pc EXCEPT ![r] = "killing"]
  /\ unseen' = [unseen EXCEPT ![r] = FALSE]
  /\ metrics' = [metrics EXCEPT ![NameFed(r)] = None]
  /\ UNCHANGED <<target, cancel, closed, actorVars, otherVars, historyVars>>

\* The cancellation arrives while FFmpeg runs.
Kill(r) ==
  /\ pc[r] = "running"
  /\ Changed(r)
  /\ pc' = [pc EXCEPT ![r] = "killing"]
  /\ unseen' = [unseen EXCEPT ![r] = FALSE]
  /\ UNCHANGED <<target, cancel, closed, metrics, actorVars, otherVars, historyVars>>

\* FFmpeg is dead, its output drained, the slot released.
Reap(r) ==
  /\ pc[r] = "killing"
  /\ Stops(r)
  /\ UNCHANGED <<target, actorVars, otherVars>>

\* The backoff is over: the flag is looked at, then the next attempt begins.
WakeUp(r) ==
  /\ pc[r] \in {"backoff", "backoffWithSlot"}
  /\ IF Cancelled(r)
     THEN Stops(r)
     ELSE /\ pc' = [pc EXCEPT ![r] = "slot"]
          /\ UNCHANGED <<metrics, cancel, unseen, closed, historyVars>>
  /\ UNCHANGED <<target, actorVars, otherVars>>

\* The cancellation, or the loss of the sender, arrives during the backoff.
Interrupt(r) ==
  /\ pc[r] \in {"backoff", "backoffWithSlot"}
  /\ Changed(r)
  /\ Stops(r)
  /\ UNCHANGED <<target, actorVars, otherVars>>

----------------------------------------------------------------------------
(* run_direct_test *)

\* start_test_stream refuses a test beside a live stream or another test.
MayStartTest == ~running /\ active = {} /\ pending = <<>>

\* One task for each enabled target.
StartTest(enabled) ==
  /\ MayStartTest
  /\ running' = TRUE
  /\ test' = [t \in Target |-> IF t \in enabled THEN "slot" ELSE "done"]
  /\ UNCHANGED <<taskVars, metrics, actorVars, srtVars, historyVars>>

TestMoves(t, await) == test' = [test EXCEPT ![t] = await]

\* A slot is free: the test registers its bitrate in the target's name, and
\* FFmpeg starts.
TestStart(t) ==
  /\ test[t] = "slot"
  /\ FreeSlots > 0
  /\ TestMoves(t, "running")
  /\ metrics' = [metrics EXCEPT ![NameOf[t]] = Test]
  /\ spoiled' = spoiled \cup {NameOf[t]}
  /\ UNCHANGED <<taskVars, actorVars, running, srtVars, detached, lateStarts>>

\* FFmpeg cannot be started: the bitrate is unregistered again, the slot free.
TestStartFails(t) ==
  /\ test[t] = "slot"
  /\ FreeSlots > 0
  /\ TestMoves(t, "done")
  /\ metrics' = [metrics EXCEPT ![NameOf[t]] = None]
  /\ spoiled' = spoiled \cup {NameOf[t]}
  /\ UNCHANGED <<taskVars, actorVars, running, srtVars, detached, lateStarts>>

\* FFmpeg has exited, or was killed fifteen seconds after the end of the test:
\* what is registered in the target's name goes.
TestExits(t) ==
  /\ test[t] = "running"
  /\ TestMoves(t, "draining")
  /\ metrics' = [metrics EXCEPT ![NameOf[t]] = None]
  /\ UNCHANGED <<taskVars, actorVars, running, srtVars, historyVars>>

\* Its output is drained, the slot released.
TestDrained(t) ==
  /\ test[t] = "draining"
  /\ TestMoves(t, "done")
  /\ UNCHANGED <<taskVars, metrics, actorVars, running, srtVars, historyVars>>

\* All tasks are joined and RunningGuard is dropped.
TestEnds ==
  /\ running
  /\ \A t \in Target : test[t] = "done"
  /\ running' = FALSE
  /\ UNCHANGED <<taskVars, metrics, actorVars, test, srtVars, historyVars>>

----------------------------------------------------------------------------
(* run_srt_server, handle_srt_session *)

\* A client that is not connected connects.
Connect(c) ==
  /\ bridge[c] = "done" /\ listener # c
  /\ c \notin Range(requests)
  /\ requests' = Append(requests, c)
  /\ UNCHANGED <<taskVars, metrics, actorVars, testVars, listener, bridge, historyVars>>

\* The listener takes up the next request, unless it still awaits a slot for the
\* last one.  A stream id without the expected key is rejected, and accepting may
\* fail.
TakeUp(accepted) ==
  /\ listener = None
  /\ requests # <<>>
  /\ requests' = Tail(requests)
  /\ listener' = IF accepted THEN Head(requests) ELSE None
  /\ UNCHANGED <<taskVars, metrics, actorVars, testVars, bridge, historyVars>>

BridgeMoves(c, await) == bridge' = [bridge EXCEPT ![c] = await]

\* The slot is there and the session gets a task of its own, which starts FFmpeg;
\* if FFmpeg cannot be started the session is over.
StartBridge ==
  /\ listener # None
  /\ FreeSlots > 0
  /\ \E await \in {"bridging", "done"} : BridgeMoves(listener, await)
  /\ listener' = None
  /\ UNCHANGED <<taskVars, metrics, actorVars, testVars, requests, historyVars>>

\* The client stops, its connection fails, or FFmpeg takes no bytes for five
\* seconds.
CloseBridge(c) ==
  /\ bridge[c] = "bridging"
  /\ BridgeMoves(c, "closing")
  /\ UNCHANGED <<taskVars, metrics, actorVars, testVars, requests, listener, historyVars>>

\* FFmpeg has been waited for, killed and drained, each for a bounded time.
EndSession(c) ==
  /\ bridge[c] = "closing"
  /\ BridgeMoves(c, "done")
  /\ UNCHANGED <<taskVars, metrics, actorVars, testVars, requests, listener, historyVars>>

----------------------------------------------------------------------------
(* The stream actor *)

\* Tasks for the enabled targets, one each, also for two of the same name.
NewTasks(enabled) ==
  {task \in [enabled -> {r \in Relay : pc[r] = "done"}] :
     \A s, t \in enabled : task[s] = task[t] => s = t}

\* A direct test or an old supervisor may still unregister the name.
StillShared(name) ==
  \/ \E t \in Target : test[t] = "running" /\ NameOf[t] = name
  \/ \E r \in Relay : pc[r] # "done" /\ NameFed(r) = name

\* handle_publish_staged: one task for each enabled target.  All tasks are
\* alike, so it does not matter which ones.
Publish(enabled) ==
  LET task     == CHOOSE f \in NewTasks(enabled) : TRUE
      spawned  == {task[t] : t \in enabled}
      feeds(r) == CHOOSE t \in enabled : task[t] = r
  IN  /\ active = {} /\ pending = <<>>
      /\ NewTasks(enabled) # {}
      /\ active' = spawned
      /\ pc'     = [r \in Relay |-> IF r \in spawned THEN "spawned" ELSE pc[r]]
      /\ target' = [r \in Relay |-> IF r \in spawned THEN feeds(r) ELSE target[r]]
      /\ spoiled' = {name \in spoiled : StillShared(name)}
      /\ UNCHANGED <<cancel, unseen, closed, metrics, pending, detached, lateStarts, otherVars>>

\* cancel.send(true) to one relay; it fails when the task has ended.
SendCancel(r) ==
  /\ cancel' = [cancel EXCEPT ![r] = pc[r] # "done"]
  /\ unseen' = [unseen EXCEPT ![r] = pc[r] # "done"]

\* handle_stop_publishing, end_current_stream: the relays leave the map and
\* cancel_relays turns to the first one.
StopPublishing(order) ==
  /\ active # {} /\ pending = <<>>
  /\ {order[i] : i \in DOMAIN order} = active
  /\ active' = {}
  /\ pending' = order
  /\ SendCancel(order[1])
  /\ UNCHANGED <<pc, target, closed, metrics, otherVars, historyVars>>

\* The sender of the relay is dropped, and the next relay is cancelled.
NextRelay ==
  LET rest == Tail(pending)
  IN  /\ pending' = rest
      /\ closed' = [closed EXCEPT ![Head(pending)] = pc[Head(pending)] # "done"]
      /\ IF rest = <<>>
         THEN UNCHANGED <<cancel, unseen>>
         ELSE SendCancel(Head(rest))
      /\ UNCHANGED <<pc, target, metrics, active, otherVars, lateStarts>>

\* Mutant: cancel_relays does not wait for the task.
JoinedWithoutWaiting ==
  /\ pending # <<>>
  /\ NextRelay
  /\ UNCHANGED <<detached, spoiled>>

\* The task has ended within five seconds.
Joined ==
  /\ pending # <<>>
  /\ pc[Head(pending)] = "done"
  /\ NextRelay
  /\ UNCHANGED <<detached, spoiled>>

\* It has not: its handle is dropped, which detaches the task.
JoinTimeout ==
  /\ pending # <<>>
  /\ pc[Head(pending)] # "done"
  /\ NextRelay
  /\ detached' = detached \cup {Head(pending)}
  /\ spoiled'  = spoiled \cup {NameFed(Head(pending))}

----------------------------------------------------------------------------
Init ==
  /\ pc = [r \in Relay |-> "done"]
  /\ target = [r \in Relay |-> CHOOSE t \in Target : TRUE]
  /\ cancel = [r \in Relay |-> FALSE]
  /\ unseen = [r \in Relay |-> FALSE]
  /\ closed = [r \in Relay |-> FALSE]
  /\ metrics = [name \in Name |-> None]
  /\ active = {} /\ pending = <<>>
  /\ running = FALSE /\ test = [t \in Target |-> "done"]
  /\ requests = <<>> /\ listener = None /\ bridge = [c \in Client |-> "done"]
  /\ detached = {} /\ spoiled = {}
  /\ lateStarts = [r \in Relay |-> 0]

TaskStep(r) ==
  \/ Begin(r) \/ Start(r) \/ StartFails(r) \/ Exits(r) \/ Drained(r)
  \/ Kill(r) \/ Reap(r) \/ WakeUp(r) \/ Interrupt(r)

TestStep(t) ==
  \/ TestStart(t) \/ TestStartFails(t) \/ TestExits(t) \/ TestDrained(t)

SessionStep(c) == Connect(c) \/ CloseBridge(c) \/ EndSession(c)

Listen == (\E accepted \in BOOLEAN : TakeUp(accepted)) \/ StartBridge

OtherStep ==
  \/ \E enabled \in SUBSET Tested \ {{}} : StartTest(enabled)
  \/ \E t \in Target : TestStep(t)
  \/ TestEnds
  \/ \E c \in Client : SessionStep(c)
  \/ Listen

ActorStep ==
  \/ \E enabled \in SUBSET Target \ {{}} : Publish(enabled)
  \/ \E order \in [1 .. Cardinality(active) -> active] : StopPublishing(order)
  \/ Joined \/ JoinTimeout

Next ==
  \/ \E r \in Relay : TaskStep(r)
  \/ OtherStep
  \/ ActorStep

Spec == Init /\ [][Next]_vars

\* What a task does of its own accord.  Each await has one way on, or ways that
\* exclude each other, so that fairness to the disjunction is fairness to each.
TaskProgress(r) ==
  Begin(r) \/ Start(r) \/ StartFails(r) \/ Drained(r) \/ Kill(r) \/ Reap(r) \/ WakeUp(r)

\* The runtime runs every task, timers fire, a killed process dies.  The
\* semaphore serves its waiters in order, so a waiter gets a slot if slots are
\* free again and again.  The FFmpeg of a relay need never exit, and an SRT
\* client need never stop.
Fairness ==
  /\ \A r \in Relay : SF_vars(TaskProgress(r))
  /\ \A t \in Tested : SF_vars(TestStep(t))
  /\ \A c \in Client : WF_vars(EndSession(c))
  /\ WF_vars(TestEnds)
  /\ SF_vars(Listen)
  /\ WF_vars(Joined \/ JoinTimeout)

FairSpec == Spec /\ Fairness

----------------------------------------------------------------------------
(* Properties *)

\* Type invariant.
TypeOK ==
  /\ pc \in [Relay -> Awaits]
  /\ target \in [Relay -> Target]
  /\ cancel \in [Relay -> BOOLEAN] /\ unseen \in [Relay -> BOOLEAN]
  /\ closed \in [Relay -> BOOLEAN]
  /\ FreeSlots \in Nat
  /\ metrics \in [Name -> Relay \cup {Test, None}]
  /\ running \in BOOLEAN /\ test \in [Target -> TestAwaits]
  /\ requests \in Seq(Client) /\ listener \in Client \cup {None}
  /\ bridge \in [Client -> BridgeAwaits]
  /\ active \subseteq Relay
  /\ pending \in Seq(Relay)
  /\ detached \subseteq Relay /\ spoiled \subseteq Name
  /\ lateStarts \in [Relay -> Nat]

\* When no stream is published and no cancel_relays is in progress, the only
\* supervisors left are those it stopped waiting for (cancel_relays).
StopIsComplete ==
  (active = {} /\ pending = <<>>) =>
    \A r \in Relay : pc[r] # "done" => r \in detached

\* A target is fed by one supervisor at a time, unless cancel_relays let one go.
OneSupervisorPerTarget ==
  \A r, s \in Relay :
    (pc[r] # "done" /\ pc[s] # "done" /\ target[r] = target[s])
      => r = s \/ r \in detached \/ s \in detached

\* A target is an entry of the list: one may well have the address of another.
\* Nothing feeds a target beside or after the publication it belongs to, except
\* for supervisors cancel_relays let go.
SupervisorsAccounted == StopIsComplete /\ OneSupervisorPerTarget

\* The bitrate the dashboard shows under the name of a running relay is that of
\* the relay, or of another supervisor of that name which has not ended.  The
\* exceptions are names that somebody else has unregistered since the publication:
\* a direct test, a supervisor let go before, or a relay of the same name that
\* ended first (register_target, unregister_target, relay.rs:282).
RunningIsRegistered ==
  \A r \in Relay :
    (HasProcess(r) /\ NameFed(r) \notin spoiled) =>
      \E s \in Relay : metrics[NameFed(r)] = s /\ Begun(s) /\ NameFed(s) = NameFed(r)

\* A cancelled supervisor starts FFmpeg once more at the most, although it does
\* not notice the cancellation while it waits for a slot and wait_for_retry
\* marks a pending one as seen.
OneLateStart == \A r \in Relay : lateStarts[r] <= 1

\* Only relays nobody cancels and SRT clients that stay hold all the slots.
AllSlotsInUse ==
  /\ FreeSlots = 0
  /\ \A r \in Relay : pc[r] \in RelayHolds => ~cancel[r]
  /\ \A t \in Target : test[t] \notin TestHolds

\* A cancelled supervisor stops, a direct test comes to its end and lets the next
\* one start, and the listener answers every SRT client, although it takes up
\* nobody while it awaits a slot; unless relays and clients that never stop use
\* all slots for ever (supervise_relay, wait_for_retry, run_direct_test,
\* run_srt_server).
NobodyWaitsForEver ==
  \/ /\ \A r \in Relay : cancel[r] ~> pc[r] = "done"
     /\ running ~> ~running
     /\ \A c \in Client : (listener = c \/ c \in Range(requests)) ~>
                            (listener # c /\ c \notin Range(requests))
  \/ <>[]AllSlotsInUse

\* What cancel_relays lets go of is aborted, as its warning says (relay.rs:44).
\* It does not hold: dropping a JoinHandle detaches the task, and one that waits
\* for a slot starts FFmpeg when it gets one.
DetachedNeverStarts ==
  [][\A r \in detached : pc[r] = "slot" => pc'[r] # "running"]_vars
=============================================================================
